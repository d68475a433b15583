------------------------------ MODULE RecordFile ------------------------------
(***************************************************************************)
(* What an I/O channel promises to the program that uses it: a file of     *)
(* bytes and a position in it.  No buffer, no descriptor position.         *)
(*                                                                         *)
(* A read takes effect when it returns, a write when it is called; both    *)
(* may fail, and then the reply says so: only a call that reports an error *)
(* may leave the file or the position other than it should.                *)
(*                                                                         *)
(* vend is the virtual end of the file.  A SET beyond the end of the file  *)
(* may move it past eof; a write, or a SET elsewhere, brings it back.      *)
(* Records are read up to vend.  The bytes between eof and vend are        *)
(* unspecified, and only they: every byte below eof is read as it is.      *)
(***************************************************************************)
EXTENDS Integers, Sequences

CONSTANTS
    MaxPos,    \* bound on the length of the file and on every position
    Byte,      \* the bytes the properties tell apart
    NUL,       \* what a cell beyond the end of the file holds
    EOL,       \* the byte that ends a line
    Records,   \* the records the program may write
    RecSizes,  \* the record lengths (fcblk.rsz) a channel may have
    AppendMayMiss   \* may a file opened to append start before its end?

Cells == 0 .. MaxPos - 1

VARIABLES
    content,   \* the bytes of the file
    eof,       \* its length
    vend,      \* its virtual end
    pos,       \* the position of the channel
    acc,       \* how the channel is open, or "closed"
    call,      \* the call in progress
    reply      \* what the last call returned

vars == <<content, eof, vend, pos, acc, call, reply>>

Access == {"input", "output", "append", "update"}
CanRead == acc \in {"input", "update"}
CanWrite == acc \in {"output", "append", "update"}

NoCall == [op |-> "none", max |-> 0]

Reply(res, data) == [res |-> res, data |-> data, at |-> 0]
ReplyAt(p) == [res |-> "at", data |-> <<>>, at |-> p]

-----------------------------------------------------------------------------
(* The bytes there are to read: those of the file, then, up to the virtual *)
(* end, whatever is there.                                                 *)
Shown(beyond) ==
    [i \in 0 .. vend - 1 |-> IF i < eof THEN content[i] ELSE beyond[i]]

(* The line of bytes that starts at p: where it ends, what is returned of  *)
(* it when max bytes are wanted, and the position after it.                *)
LineEnd(bytes, p) ==
    CHOOSE q \in p .. vend :
        /\ q = vend \/ bytes[q] = EOL
        /\ \A i \in p .. q - 1 : bytes[i] # EOL

Bytes(bytes, p, n) == [i \in 1 .. n |-> bytes[p + i - 1]]

AtMost(a, b) == IF a <= b THEN a ELSE b

LineAt(bytes, p, max) == Bytes(bytes, p, AtMost(max, LineEnd(bytes, p) - p))
AfterLine(bytes, p) == AtMost(vend, LineEnd(bytes, p) + 1)

(* A record of a line-mode channel whose lines are at most width long, as  *)
(* it appears in the file: every width bytes, and the last ones, are       *)
(* followed by EOL.                                                        *)
AsLines(rec, width) ==
    LET lines == IF rec = <<>> THEN 1 ELSE (Len(rec) + width - 1) \div width
        total == Len(rec) + lines
    IN  [i \in 1 .. total |->
            IF i = total \/ i % (width + 1) = 0 THEN EOL
            ELSE rec[i - (i - 1) \div (width + 1)]]

(* c is the file with data at p, e its new end.  Between the old end and p *)
(* the bytes are unspecified.                                              *)
Holds(c, e, p, data) ==
    LET last == p + Len(data)
    IN  /\ c \in [Cells -> Byte]
        /\ \A i \in Cells :
              IF p <= i /\ i < last THEN c[i] = data[i - p + 1]
              ELSE (i < eof) => c[i] = content[i]
        /\ e >= eof /\ e >= last
        /\ \/ e = eof
           \/ e = last
           \/ e <= vend

Anything == content' \in [Cells -> Byte] /\ eof' \in Nat /\ pos' \in Nat
            /\ vend' \in Nat

-----------------------------------------------------------------------------
Init ==
    /\ content \in [Cells -> Byte]
    /\ eof \in 0 .. MaxPos
    /\ \A i \in Cells : i >= eof => content[i] = NUL
    /\ vend = eof
    /\ pos = 0
    /\ acc = "closed"
    /\ call = NoCall
    /\ reply = Reply("none", <<>>)

(* Only a file opened for output alone is emptied, and only a file opened  *)
(* to append starts at its end, unless it may miss it.                     *)
Open(a) ==
    /\ acc = "closed"
    /\ acc' = a
    /\ IF a = "output"
       THEN content' = [i \in Cells |-> NUL] /\ eof' = 0
       ELSE UNCHANGED <<content, eof>>
    /\ pos' \in IF a # "append" THEN {0}
               ELSE IF AppendMayMiss THEN 0 .. eof ELSE {eof}
    /\ vend' = eof'
    /\ reply' = Reply("ok", <<>>)
    /\ UNCHANGED call

StartRead(op, max) ==
    /\ CanRead /\ call.op = "none"
    /\ call' = [op |-> op, max |-> max]
    /\ reply' = Reply("none", <<>>)
    /\ UNCHANGED <<content, eof, vend, pos, acc>>

(* A read returns the next record, or that there is none. *)
LineReturns(bytes) ==
    /\ reply' = Reply("data", LineAt(bytes, pos, call.max))
    /\ pos' = AfterLine(bytes, pos)

RawReturns(bytes) ==
    LET n == AtMost(call.max, vend - pos)
    IN  reply' = Reply("data", Bytes(bytes, pos, n)) /\ pos' = pos + n

ReadReturns ==
    IF pos >= vend THEN reply' = Reply("eof", <<>>) /\ pos' = pos
    ELSE \E beyond \in [eof .. vend - 1 -> Byte] :
            IF call.op = "line" THEN LineReturns(Shown(beyond))
            ELSE RawReturns(Shown(beyond))

FinishRead ==
    /\ call.op \in {"line", "raw"}
    /\ call' = NoCall
    /\ ReadReturns
    /\ UNCHANGED <<content, eof, vend, acc>>

StartWrite(data) ==
    /\ CanWrite /\ call.op = "none"
    /\ call' = [op |-> "write", max |-> 0]
    /\ IF data = <<>> THEN UNCHANGED <<content, eof, vend, pos>>
       ELSE /\ Holds(content', eof', pos, data)
            /\ vend' = eof'
            /\ pos' = pos + Len(data)
    /\ reply' = Reply("none", <<>>)
    /\ UNCHANGED acc

FinishWrite ==
    /\ call.op = "write"
    /\ call' = NoCall
    /\ reply' = Reply("ok", <<>>)
    /\ UNCHANGED <<content, eof, vend, pos, acc>>

(* A position within the file is reached exactly; one beyond its end is    *)
(* reached only by a channel that can write.                               *)
Set(target) ==
    /\ acc # "closed" /\ call.op = "none"
    /\ pos' \in IF target <= eof \/ CanWrite THEN {target} ELSE eof .. target
    /\ reply' = ReplyAt(pos')
    /\ vend' \in {eof, vend} \cup {p \in {pos'} : p >= eof}
    /\ UNCHANGED <<content, eof, acc, call>>

Close ==
    /\ acc # "closed" /\ call.op = "none"
    /\ acc' = "closed"
    /\ pos' = 0
    /\ vend' = eof
    /\ reply' = Reply("ok", <<>>)
    /\ UNCHANGED <<content, eof, call>>

(* A call that fails, and says so, may leave the file in any state. *)
Fail ==
    /\ acc # "closed"
    /\ Anything
    /\ call' = NoCall
    /\ acc' \in {acc, "closed"}
    /\ reply' = Reply("error", <<>>)

Next ==
    \/ \E a \in Access : Open(a)
    \/ \E op \in {"line", "raw"}, max \in RecSizes : StartRead(op, max)
    \/ FinishRead
    \/ \E rec \in Records : StartWrite(rec)
    \/ \E rec \in Records, width \in RecSizes : StartWrite(AsLines(rec, width))
    \/ FinishWrite
    \/ \E target \in 0 .. MaxPos : Set(target)
    \/ Close
    \/ Fail

Spec == Init /\ [][Next]_vars
=============================================================================
