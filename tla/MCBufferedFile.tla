---------------------------- MODULE MCBufferedFile ----------------------------
(* BufferedFile for TLC: a buffer of two bytes, files of at most MaxPos.   *)
EXTENDS BufferedFile

Bytes3 == {0, 10, 97}

(* A record that takes two lines of width 1, one line of width 3 that goes *)
(* past the buffer, or fills the buffer when it is written raw.            *)
LongRecords == {<<>>, <<97, 97>>}

SomeFiles == {<<97, 10, 97>>}

Garbage == {[i \in Slots |-> 97]}
=============================================================================
