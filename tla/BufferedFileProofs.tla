-------------------------- MODULE BufferedFileProofs --------------------------
(***************************************************************************)
(* Proofs about BufferedFile, for every buffer size, every file, every set *)
(* of records and any number of faults.                                    *)
(*                                                                         *)
(* The properties are not inductive alone.  CleanInv needs to know that    *)
(* the bytes at an index of the buffer are those of the file there, that   *)
(* only an output file is dirty, and what a write in progress may still    *)
(* add; RecordFits needs the turn that has just been taken.  IInv below    *)
(* says all of it.  First the four routines of FileBuffer are shown to     *)
(* keep ChannelOK and CleanOK; then each action of BufferedFile, one lemma *)
(* per action, is shown to keep IInv.                                      *)
(*                                                                         *)
(* The last part is that the channel is a RecordFile.  A file is seen      *)
(* through a channel: the disk under what a dirty buffer holds, under what *)
(* a write has still to place.  The four routines keep that view; so does  *)
(* every turn of a read or a write, and Maps says what a read has of the   *)
(* file so far, which is what makes its reply the record at its position.  *)
(***************************************************************************)
EXTENDS BufferedFile, SequenceTheorems, TLAPS

ChannelOK(ch) ==
    /\ ch \in Channel
    /\ ch.curpos = ch.kpos
    /\ ch.next <= ch.fill
    /\ ch.fill > 0 => ch.offset + ch.fill <= MaxPos

(* A buffer holds what the file holds there. *)
Agrees(ch) ==
    \A i \in Slots :
        i < ch.fill /\ ch.offset + i < ch.eof => ch.buf[i] = ch.disk[ch.offset + i]

CleanOK(ch, oup) ==
    ~ch.dirty => /\ Agrees(ch)
                 /\ ~oup /\ ch.fill > 0 => ch.offset + ch.fill <= ch.eof

(* doset rounds a position down to a whole number of buffers: what is left  *)
(* over is an index into the buffer.                                       *)
LEMMA RoundDown ==
    ASSUME NEW t \in Nat
    PROVE  /\ (t \div Size) * Size \in Nat
           /\ t - (t \div Size) * Size \in 0 .. Size - 1
  BY BufferAssumption, SMTT(30)

(* fsyncio leaves the descriptor where the buffer starts, and nothing else  *)
(* changed.                                                                *)
LEMMA FsyncOK ==
    ASSUME NEW ch, ChannelOK(ch)
    PROVE  /\ fsyncio(ch) \in Channel
           /\ fsyncio(ch).kpos = ch.offset
           /\ fsyncio(ch).curpos = ch.offset
           /\ fsyncio(ch).offset = ch.offset
           /\ fsyncio(ch).disk = ch.disk
           /\ fsyncio(ch).eof = ch.eof
           /\ fsyncio(ch).buf = ch.buf
           /\ fsyncio(ch).fill = ch.fill
           /\ fsyncio(ch).next = ch.next
           /\ fsyncio(ch).dirty = ch.dirty
  BY BufferAssumption DEF ChannelOK, fsyncio, KSeek, Channel

(* A write() of n bytes keeps the file a file and cannot shorten it.        *)
LEMMA KWriteOK ==
    ASSUME NEW s \in Channel, NEW src, NEW from \in Int, NEW n \in Nat,
           \A i \in 0 .. n - 1 : src[from + i] \in Byte,
           s.kpos + n <= MaxPos
    PROVE  /\ KWrite(s, n, src, from) \in Channel
           /\ KWrite(s, n, src, from).kpos = s.kpos + n
           /\ KWrite(s, n, src, from).curpos = s.curpos
           /\ KWrite(s, n, src, from).offset = s.offset
           /\ KWrite(s, n, src, from).buf = s.buf
           /\ KWrite(s, n, src, from).fill = s.fill
           /\ KWrite(s, n, src, from).next = s.next
           /\ KWrite(s, n, src, from).dirty = s.dirty
           /\ KWrite(s, n, src, from).eof >= s.eof
<1>1. Copy(s.disk, s.kpos, n, src, from) \in [Cells -> Byte]
  <2>1. \A i \in Cells : s.kpos <= i /\ i < s.kpos + n => src[from + (i - s.kpos)] \in Byte
    <3> SUFFICES ASSUME NEW i \in Cells, s.kpos <= i, i < s.kpos + n
                 PROVE  src[from + (i - s.kpos)] \in Byte
      OBVIOUS
    <3>1. i - s.kpos \in 0 .. n - 1
      BY BufferAssumption DEF Cells, Channel
    <3> QED BY <3>1
  <2>2. s.disk \in [Cells -> Byte] /\ s.kpos \in Int /\ Cells \subseteq Int
    BY BufferAssumption DEF Channel, Cells
  <2> QED BY <2>1, <2>2 DEF Copy
<1>2. (IF n = 0 THEN s.eof ELSE Greatest(s.eof, s.kpos + n)) \in s.eof .. MaxPos
  BY BufferAssumption DEF Channel, Greatest
<1>3. s.eof \in Nat
  BY BufferAssumption DEF Channel
<1>4. /\ s.kpos + n \in Nat
      /\ (IF n = 0 THEN s.eof ELSE Greatest(s.eof, s.kpos + n)) \in 0 .. MaxPos
      /\ (IF n = 0 THEN s.eof ELSE Greatest(s.eof, s.kpos + n)) >= s.eof
  BY <1>2, <1>3, BufferAssumption DEF Channel
<1> QED BY <1>1, <1>4 DEF KWrite, Channel

(* flush empties the buffer, whatever write() returned, and believes of the *)
(* descriptor what is true of it.                                          *)
LEMMA FlushOK ==
    ASSUME NEW ch, ChannelOK(ch), NEW n \in 0 .. Pending(ch)
    PROVE  /\ ChannelOK(flush(ch, n))
           /\ flush(ch, n).fill = 0
           /\ flush(ch, n).next = 0
           /\ ~flush(ch, n).dirty
           /\ flush(ch, n).offset = ch.offset + ch.fill
           /\ ch.eof <= flush(ch, n).eof
           /\ ~ch.dirty => flush(ch, n).eof = ch.eof /\ flush(ch, n).disk = ch.disk
<1>1. CASE ch.dirty
  <2> DEFINE s == fsyncio(ch)
             k == KWrite(s, n, ch.buf, 0)
             w == IF ch.fill = 0 THEN s ELSE [k EXCEPT !.curpos = @ + n]
  <2>1. ch.fill \in 0 .. Size /\ n \in 0 .. ch.fill /\ n \in Nat
    BY <1>1, BufferAssumption DEF ChannelOK, Channel, Pending
  <2>2. ch.offset \in Nat /\ (ch.fill # 0 => ch.offset + ch.fill <= MaxPos)
        /\ ch.eof \in Nat
    BY <2>1, BufferAssumption DEF ChannelOK, Channel
  <2>3. \A i \in 0 .. n - 1 : ch.buf[0 + i] \in Byte
    BY <2>1, BufferAssumption DEF ChannelOK, Channel, Slots
  <2>4. w \in Channel /\ w.curpos = w.kpos /\ w.offset = ch.offset /\ w.eof >= ch.eof
    <3>1. CASE ch.fill = 0
      BY <3>1, FsyncOK, <2>2
    <3>2. CASE ch.fill # 0
      <4>1. s.kpos + n <= MaxPos
        BY <3>2, <2>1, <2>2, FsyncOK, BufferAssumption
      <4>2. /\ k \in Channel /\ k.kpos = ch.offset + n /\ k.curpos = ch.offset
            /\ k.offset = ch.offset /\ k.eof >= ch.eof
        BY <4>1, <2>1, <2>3, FsyncOK, KWriteOK
      <4> HIDE DEF k
      <4>3. w = [k EXCEPT !.curpos = @ + n]
        BY <3>2
      <4> QED BY <4>2, <4>3, <2>1, <2>2 DEF Channel
    <3> QED BY <3>1, <3>2
  <2>5. flush(ch, n) = [[w EXCEPT !.dirty = FALSE]
                          EXCEPT !.offset = @ + ch.fill, !.next = 0, !.fill = 0]
    BY <1>1 DEF flush
  <2>6. ch.offset + ch.fill \in Nat /\ 0 \in 0 .. Size
    BY <2>1, <2>2, BufferAssumption
  <2> HIDE DEF w
  <2>7. flush(ch, n) \in Channel
    BY <2>4, <2>5, <2>6 DEF Channel
  <2>8. /\ flush(ch, n).fill = 0 /\ flush(ch, n).next = 0 /\ ~flush(ch, n).dirty
        /\ flush(ch, n).offset = ch.offset + ch.fill
        /\ flush(ch, n).curpos = w.curpos /\ flush(ch, n).kpos = w.kpos
        /\ flush(ch, n).eof = w.eof
    BY <2>4, <2>5 DEF Channel
  <2> QED BY <2>2, <2>4, <2>7, <2>8, <1>1 DEF ChannelOK
<1>2. CASE ~ch.dirty
  <2>1. flush(ch, n) = [ch EXCEPT !.offset = @ + ch.fill, !.next = 0, !.fill = 0]
    BY <1>2 DEF flush
  <2>2. ch.offset + ch.fill \in Nat /\ 0 \in 0 .. Size
    BY BufferAssumption DEF ChannelOK, Channel
  <2>3. ch.eof \in Nat
    BY BufferAssumption DEF ChannelOK, Channel
  <2>4. flush(ch, n) \in Channel
    BY <2>1, <2>2 DEF ChannelOK, Channel
  <2>5. /\ flush(ch, n).fill = 0 /\ flush(ch, n).next = 0 /\ ~flush(ch, n).dirty
        /\ flush(ch, n).offset = ch.offset + ch.fill
        /\ flush(ch, n).curpos = ch.curpos /\ flush(ch, n).kpos = ch.kpos
        /\ flush(ch, n).eof = ch.eof /\ flush(ch, n).disk = ch.disk
    BY <2>1, <1>2 DEF ChannelOK, Channel
  <2> QED BY <2>3, <2>4, <2>5, <1>2 DEF ChannelOK
<1> QED BY <1>1, <1>2

(* After fillbuf the buffer agrees with the file and ends no later than it. *)
LEMMA FillOK ==
    ASSUME NEW ch, ChannelOK(ch)
    PROVE  /\ ChannelOK(fillbuf(ch))
           /\ fillbuf(ch).next = 0
           /\ fillbuf(ch).offset = ch.offset
           /\ fillbuf(ch).dirty = ch.dirty
           /\ fillbuf(ch).eof = ch.eof
           /\ fillbuf(ch).disk = ch.disk
           /\ fillbuf(ch).fill > 0 => ch.offset + fillbuf(ch).fill <= ch.eof
           /\ \A i \in Slots :
                 ch.offset + i < ch.eof => fillbuf(ch).buf[i] = ch.disk[ch.offset + i]
<1> DEFINE s == fsyncio(ch)
           n == Readable(s)
           b == Copy(ch.buf, 0, n, ch.disk, ch.offset)
<1>1. /\ s \in Channel /\ s.kpos = ch.offset /\ s.curpos = ch.offset
      /\ s.offset = ch.offset /\ s.disk = ch.disk /\ s.eof = ch.eof
      /\ s.buf = ch.buf /\ s.dirty = ch.dirty
  BY FsyncOK
<1>2. /\ ch.offset \in Nat /\ ch.eof \in 0 .. MaxPos /\ MaxPos \in Nat
      /\ ch.disk \in [Cells -> Byte] /\ ch.buf \in [Slots -> Byte]
  BY BufferAssumption DEF ChannelOK, Channel
<1>3. /\ n \in 0 .. Size
      /\ n > 0 => ch.offset + n <= ch.eof
      /\ \A i \in Slots : ch.offset + i < ch.eof => i < n
  BY <1>1, <1>2, BufferAssumption DEF Readable, Least, Greatest, Slots
<1>4. /\ b \in [Slots -> Byte]
      /\ \A i \in Slots : ch.offset + i < ch.eof => b[i] = ch.disk[ch.offset + i]
  <2>1. \A i \in Slots : 0 <= i /\ i < 0 + n => ch.disk[ch.offset + (i - 0)] \in Byte
    BY <1>2, <1>3, BufferAssumption DEF Slots, Cells
  <2>2. \A i \in Slots : 0 <= i /\ i - 0 = i /\ 0 + n = n
    BY <1>3, BufferAssumption DEF Slots
  <2> HIDE DEF n
  <2> QED BY <1>2, <1>3, <2>1, <2>2 DEF Copy
<1>5. /\ ch.offset + n \in Nat /\ 0 \in 0 .. Size
  BY <1>2, <1>3, BufferAssumption
<1> HIDE DEF s, n, b
<1>6. fillbuf(ch) = [s EXCEPT !.buf = b, !.next = 0, !.fill = n,
                              !.curpos = @ + n, !.kpos = @ + n]
  BY <1>1 DEF fillbuf, s, n, b
<1>7. fillbuf(ch) \in Channel
  BY <1>1, <1>3, <1>4, <1>5, <1>6 DEF Channel
<1>8. /\ fillbuf(ch).next = 0 /\ fillbuf(ch).fill = n /\ fillbuf(ch).buf = b
      /\ fillbuf(ch).curpos = ch.offset + n /\ fillbuf(ch).kpos = ch.offset + n
      /\ fillbuf(ch).offset = ch.offset /\ fillbuf(ch).dirty = ch.dirty
      /\ fillbuf(ch).eof = ch.eof /\ fillbuf(ch).disk = ch.disk
  BY <1>1, <1>6 DEF Channel
<1>9. ChannelOK(fillbuf(ch))
  BY <1>2, <1>3, <1>7, <1>8 DEF ChannelOK
<1> QED BY <1>3, <1>4, <1>8, <1>9

(* The end of doset: only a file open for output has its buffer extended.   *)
LEMMA PlaceOK ==
    ASSUME NEW ch, ChannelOK(ch), NEW next \in 0 .. Size, NEW oup \in BOOLEAN,
           NEW res, res = Place(ch, next, oup)
    PROVE  /\ res.offset + res.next <= MaxPos => ChannelOK(res)
           /\ res.dirty = ch.dirty
           /\ res.eof = ch.eof
           /\ res.disk = ch.disk
           /\ res.buf = ch.buf
           /\ res.offset = ch.offset
           /\ ~oup => res.fill = ch.fill
           /\ res.next \in 0 .. next
           /\ oup => res.next = next
<1>1. ch.fill \in 0 .. Size /\ ch.offset \in Nat
  BY DEF ChannelOK, Channel
<1>2. ch.fill \in Int /\ next \in Int /\ ch.offset \in Int /\ MaxPos \in Int
  BY <1>1, BufferAssumption
<1>3. CASE next <= ch.fill
  <2> DEFINE p == [ch EXCEPT !.next = next]
  <2>1. res = p
    BY <1>2, <1>3 DEF Place
  <2>2. p \in Channel
    BY <1>1 DEF ChannelOK, Channel
  <2>3. /\ p.next = next /\ p.fill = ch.fill /\ p.curpos = ch.curpos
        /\ p.kpos = ch.kpos /\ p.dirty = ch.dirty /\ p.eof = ch.eof
        /\ p.disk = ch.disk /\ p.buf = ch.buf /\ p.offset = ch.offset
    BY DEF ChannelOK, Channel
  <2> HIDE DEF p
  <2>4. ChannelOK(p)
    BY <1>2, <1>3, <2>2, <2>3 DEF ChannelOK
  <2> QED BY <1>2, <1>3, <2>1, <2>3, <2>4
<1>4. CASE next > ch.fill /\ oup
  <2> DEFINE p == [ch EXCEPT !.next = next, !.fill = next]
  <2>1. res = p
    BY <1>2, <1>4 DEF Place
  <2>2. p \in Channel
    BY <1>1 DEF ChannelOK, Channel
  <2>3. /\ p.next = next /\ p.fill = next /\ p.curpos = ch.curpos
        /\ p.kpos = ch.kpos /\ p.dirty = ch.dirty /\ p.eof = ch.eof
        /\ p.disk = ch.disk /\ p.buf = ch.buf /\ p.offset = ch.offset
    BY DEF ChannelOK, Channel
  <2> HIDE DEF p
  <2>4. p.offset + p.next <= MaxPos => ChannelOK(p)
    BY <1>2, <1>4, <2>2, <2>3 DEF ChannelOK
  <2>5. res.next \in 0 .. next
    BY <1>2, <2>1, <2>3
  <2> QED BY <1>4, <2>1, <2>3, <2>4, <2>5, Zenon
<1>5. CASE next > ch.fill /\ ~oup
  <2> DEFINE p == [ch EXCEPT !.next = ch.fill]
  <2>1. res = p
    BY <1>2, <1>5 DEF Place
  <2>2. p \in Channel
    BY <1>1 DEF ChannelOK, Channel
  <2>3. /\ p.next = ch.fill /\ p.fill = ch.fill /\ p.curpos = ch.curpos
        /\ p.kpos = ch.kpos /\ p.dirty = ch.dirty /\ p.eof = ch.eof
        /\ p.disk = ch.disk /\ p.buf = ch.buf /\ p.offset = ch.offset
    BY DEF ChannelOK, Channel
  <2> HIDE DEF p
  <2>4. ChannelOK(p)
    BY <1>2, <1>5, <2>2, <2>3 DEF ChannelOK
  <2> QED BY <1>1, <1>2, <1>5, <2>1, <2>3, <2>4
<1> QED BY <1>2, <1>3, <1>4, <1>5

(* The two LSEEKs of doset: the buffer stays, or (being empty) moves along. *)
SeekTo(ch, p) == [KSeek(ch, p) EXCEPT !.curpos = p]
MoveTo(ch, p) == [KSeek(ch, p) EXCEPT !.offset = p, !.curpos = p]

(* The LSEEK of doset to the start of the buffer it is about to fill.       *)
LEMMA SeekOK ==
    ASSUME NEW ch, ChannelOK(ch), NEW p \in Nat
    PROVE  /\ ChannelOK(SeekTo(ch, p))
           /\ SeekTo(ch, p).offset = ch.offset
           /\ SeekTo(ch, p).fill = ch.fill
           /\ SeekTo(ch, p).buf = ch.buf
           /\ SeekTo(ch, p).dirty = ch.dirty
           /\ SeekTo(ch, p).disk = ch.disk
           /\ SeekTo(ch, p).eof = ch.eof
<1> DEFINE s == SeekTo(ch, p)
<1>1. /\ s \in Channel /\ s.curpos = p /\ s.kpos = p /\ s.offset = ch.offset
      /\ s.fill = ch.fill /\ s.next = ch.next /\ s.buf = ch.buf
      /\ s.dirty = ch.dirty /\ s.disk = ch.disk /\ s.eof = ch.eof
  BY DEF ChannelOK, Channel, KSeek, SeekTo
<1> HIDE DEF s
<1>2. ChannelOK(s)
  BY <1>1 DEF ChannelOK
<1> QED BY <1>1, <1>2 DEF s

(* A SET that stays inside the buffer moves the next byte and no more.      *)
LEMMA MoveOK ==
    ASSUME NEW ch, ChannelOK(ch), ch.fill = 0, ~ch.dirty, NEW p \in Nat
    PROVE  /\ ChannelOK(MoveTo(ch, p))
           /\ MoveTo(ch, p).offset = p
           /\ MoveTo(ch, p).fill = 0
           /\ ~MoveTo(ch, p).dirty
           /\ MoveTo(ch, p).disk = ch.disk
           /\ MoveTo(ch, p).eof = ch.eof
<1> DEFINE t == MoveTo(ch, p)
<1>1. /\ t \in Channel /\ t.curpos = p /\ t.kpos = p /\ t.offset = p
      /\ t.fill = 0 /\ t.next = ch.next
      /\ ~t.dirty /\ t.disk = ch.disk /\ t.eof = ch.eof
  BY DEF ChannelOK, Channel, KSeek, MoveTo
<1> HIDE DEF t
<1>2. ChannelOK(t)
  BY <1>1 DEF ChannelOK
<1> QED BY <1>1, <1>2 DEF t

(* doset, on each of its ways out, keeps the channel positioned and clean.  *)
LEMMA DosetOK ==
    ASSUME NEW ch, ChannelOK(ch), NEW oup \in BOOLEAN, CleanOK(ch, oup),
           NEW off \in Int, NEW whence \in {0, 1, 2},
           NEW n \in 0 .. Pending(ch), NEW ok \in BOOLEAN,
           NEW done, done = doset(ch, oup, off, whence, n, ok),
           done.ret <= MaxPos \/ (whence = 2 /\ off = 0 /\ ch.fill = 0 /\ ch.offset = 0)
    PROVE  /\ ChannelOK(done.c)
           /\ CleanOK(done.c, oup)
           /\ done.c.dirty => ch.dirty
           /\ done.ret \in Nat \cup {-1}
           /\ ch.eof <= done.c.eof
           /\ ~ch.dirty => /\ done.c.disk = ch.disk
                           /\ done.c.eof = ch.eof
<1> DEFINE seen    == IF whence = 2
                      THEN [KSeek(ch, ch.eof) EXCEPT !.curpos = ch.eof] ELSE ch
           base    == CASE whence = 0 -> 0
                        [] whence = 1 -> ch.offset + ch.next
                        [] whence = 2 -> Greatest(ch.eof, ch.offset + ch.fill)
           target  == Greatest(0, base + off)
           within  == ch.offset <= target /\ target <= ch.offset + ch.fill
           flushed == flush(seen, n)
           at      == (target \div Size) * Size
           sought  == IF at = flushed.curpos
                      THEN [flushed EXCEPT !.offset = at]
                      ELSE [KSeek(flushed, at) EXCEPT !.offset = at, !.curpos = at]
           filled  == fillbuf(sought)
           placed  == Place(filled, target - at, oup)
<1>1. done = IF within
             THEN [c |-> [seen EXCEPT !.next = target - ch.offset], ret |-> target]
             ELSE IF FlushErrs(ch, n) THEN [c |-> flushed, ret |-> -1]
             ELSE IF ~ok THEN [c |-> sought, ret |-> -1]
             ELSE [c |-> placed, ret |-> placed.offset + placed.next]
  BY DEF doset
<1>2. /\ ch.offset \in Nat /\ ch.fill \in 0 .. Size /\ ch.next \in 0 .. Size
      /\ ch.eof \in 0 .. MaxPos /\ Size \in Nat /\ MaxPos \in Nat
  BY BufferAssumption DEF ChannelOK, Channel
<1>3. target \in Nat
  BY <1>2 DEF Greatest
<1>14. whence = 2 /\ off = 0 /\ ch.fill = 0 /\ ch.offset = 0 => target <= MaxPos
  BY <1>2 DEF Greatest
<1> HIDE DEF target
<1>4. /\ at \in Nat
      /\ target - at \in 0 .. Size
  <2>1. at \in Nat /\ target - at \in 0 .. Size - 1
    BY <1>3, RoundDown
  <2> HIDE DEF at
  <2> QED BY <1>2, <2>1
<1>5. /\ ChannelOK(seen) /\ seen.dirty = ch.dirty /\ seen.offset = ch.offset
      /\ seen.fill = ch.fill /\ seen.buf = ch.buf /\ seen.disk = ch.disk
      /\ seen.eof = ch.eof
  <2>1. seen = IF whence = 2 THEN SeekTo(ch, ch.eof) ELSE ch
    BY DEF SeekTo
  <2> HIDE DEF seen
  <2>2. ch.eof \in Nat
    BY <1>2
  <2> QED BY <2>1, <2>2, SeekOK
<1> HIDE DEF seen, at
<1>6. n \in 0 .. Pending(seen)
  BY <1>5 DEF Pending
<1>7. /\ ChannelOK(flushed) /\ flushed.fill = 0 /\ ~flushed.dirty
      /\ flushed.next = 0 /\ ch.eof <= flushed.eof
      /\ ~ch.dirty => flushed.disk = ch.disk /\ flushed.eof = ch.eof
  BY <1>5, <1>6, FlushOK
<1> HIDE DEF flushed
<1>8. /\ ChannelOK(sought) /\ sought.fill = 0 /\ ~sought.dirty
      /\ sought.offset = at /\ ch.eof <= sought.eof
      /\ ~ch.dirty => sought.disk = ch.disk /\ sought.eof = ch.eof
  <2>1. CASE at = flushed.curpos
    <3> DEFINE t == [flushed EXCEPT !.offset = at]
    <3>1. sought = t
      BY <2>1
    <3>2. /\ t \in Channel /\ t.curpos = flushed.curpos
          /\ t.kpos = flushed.kpos /\ t.offset = at
          /\ t.fill = 0 /\ t.next = 0 /\ ~t.dirty
          /\ t.disk = flushed.disk /\ t.eof = flushed.eof
      BY <1>4, <1>7 DEF ChannelOK, Channel
    <3> HIDE DEF t, sought
    <3> QED BY <1>7, <3>1, <3>2 DEF ChannelOK
  <2>2. CASE at # flushed.curpos
    <3>1. sought = MoveTo(flushed, at)
      BY <2>2 DEF MoveTo
    <3> HIDE DEF sought
    <3> QED BY <1>4, <1>7, <3>1, MoveOK
  <2> QED BY <2>1, <2>2
<1> HIDE DEF sought
<1>9. /\ ChannelOK(filled) /\ filled.offset = at /\ ~filled.dirty
      /\ filled.disk = sought.disk /\ filled.eof = sought.eof
      /\ filled.fill > 0 => at + filled.fill <= filled.eof
      /\ \A i \in Slots : at + i < filled.eof => filled.buf[i] = filled.disk[at + i]
  BY <1>8, FillOK
<1> HIDE DEF filled
<1>10. CASE within
  <2> DEFINE moved == [seen EXCEPT !.next = target - ch.offset]
  <2>1. done.c = moved /\ done.ret = target
    BY <1>1, <1>10
  <2>2. target - ch.offset \in 0 .. Size /\ target - ch.offset <= ch.fill
    BY <1>2, <1>3, <1>10
  <2>3. /\ moved \in Channel /\ moved.curpos = seen.curpos
        /\ moved.kpos = seen.kpos /\ moved.next = target - ch.offset
        /\ moved.fill = ch.fill /\ moved.offset = ch.offset
        /\ moved.dirty = ch.dirty /\ moved.buf = ch.buf
        /\ moved.disk = ch.disk /\ moved.eof = ch.eof
    BY <1>5, <2>2 DEF ChannelOK, Channel
  <2> HIDE DEF moved
  <2>4. ChannelOK(moved)
    BY <1>5, <2>2, <2>3 DEF ChannelOK
  <2>5. CleanOK(moved, oup)
    BY <2>3 DEF CleanOK, Agrees
  <2>6. ch.eof \in Int /\ ch.eof <= done.c.eof
    BY <1>2, <2>1, <2>3
  <2> QED BY <1>3, <2>1, <2>3, <2>4, <2>5, <2>6
<1>11. CASE ~within /\ FlushErrs(ch, n)
  <2>1. done.c = flushed /\ done.ret = -1
    BY <1>1, <1>11
  <2>2. CleanOK(flushed, oup)
    BY <1>7 DEF CleanOK, Agrees, Slots
  <2> QED BY <1>7, <2>1, <2>2
<1>12. CASE ~within /\ ~FlushErrs(ch, n) /\ ~ok
  <2>1. done.c = sought /\ done.ret = -1
    BY <1>1, <1>12
  <2>2. CleanOK(sought, oup)
    BY <1>8 DEF CleanOK, Agrees, Slots
  <2> QED BY <1>8, <2>1, <2>2
<1>13. CASE ~within /\ ~FlushErrs(ch, n) /\ ok
  <2>1. done.c = placed /\ done.ret = placed.offset + placed.next
    BY <1>1, <1>13
  <2>2. /\ placed.offset + placed.next <= MaxPos => ChannelOK(placed)
        /\ ~placed.dirty /\ placed.offset = at
        /\ placed.buf = filled.buf /\ placed.disk = filled.disk
        /\ placed.eof = filled.eof
        /\ ~oup => placed.fill = filled.fill
        /\ placed.next \in 0 .. target - at
    BY <1>4, <1>9, PlaceOK
  <2> HIDE DEF placed
  <2>3. /\ at + placed.next \in Nat
        /\ at + placed.next <= target
    BY <1>2, <1>3, <1>4, <2>2
  <2>4. placed.offset + placed.next <= MaxPos
    BY <1>2, <1>3, <1>14, <2>1, <2>2, <2>3
  <2>5. ChannelOK(placed)
    BY <2>2, <2>4
  <2>6. CleanOK(placed, oup)
    BY <1>9, <2>2 DEF CleanOK, Agrees
  <2>7. placed.offset + placed.next \in Nat
    BY <2>2, <2>3
  <2> QED BY <1>8, <1>9, <2>1, <2>2, <2>5, <2>6, <2>7
<1> QED BY <1>10, <1>11, <1>12, <1>13

-----------------------------------------------------------------------------
(* The inductive invariant: the window and the clean buffer are kept only  *)
(* because nothing but a channel open for output is ever dirty, a write    *)
(* has room for all it has still to place, and a call in progress is one   *)
(* that the channel allows.                                                *)
WriteOK ==
    pc = "write" =>
        /\ Oup
        /\ c.offset + c.next + Len(wr.line) + 2 * Len(wr.rest) <= MaxPos
        /\ wr.width = 0 => wr.rest = <<>>

ReadOK == pc \in {"copy", "discard", "raw"} => Inp /\ Len(rd.got) <= rd.max

IInv ==
    /\ TypeOK
    /\ ChannelOK(c)
    /\ CleanOK(c, Oup)
    /\ c.dirty => Oup
    /\ WriteOK
    /\ ReadOK

(* A bfblk just carved stands for the start of any file.                    *)
LEMMA FreshOK ==
    ASSUME NEW disk \in [Cells -> Byte], NEW eof \in 0 .. MaxPos,
           NEW stale \in [Slots -> Byte]
    PROVE  /\ ChannelOK(Fresh(disk, eof, stale))
           /\ \A oup : CleanOK(Fresh(disk, eof, stale), oup)
           /\ ~Fresh(disk, eof, stale).dirty
           /\ Fresh(disk, eof, stale).fill = 0
           /\ Fresh(disk, eof, stale).offset = 0
           /\ Fresh(disk, eof, stale).eof = eof
           /\ Fresh(disk, eof, stale).disk = disk
<1> DEFINE f == Fresh(disk, eof, stale)
<1>1. 0 \in 0 .. Size /\ 0 \in Nat
  BY BufferAssumption
<1>2. f \in Channel
  BY <1>1 DEF Fresh, Channel
<1>3. /\ f.fill = 0 /\ f.next = 0 /\ f.offset = 0 /\ f.eof = eof
      /\ f.disk = disk /\ f.curpos = 0 /\ f.kpos = 0 /\ ~f.dirty
  BY DEF Fresh
<1> HIDE DEF f
<1>4. ChannelOK(f)
  BY <1>2, <1>3 DEF ChannelOK
<1>5. \A oup : CleanOK(f, oup)
  BY <1>3 DEF CleanOK, Agrees, Slots
<1> QED BY <1>3, <1>4, <1>5 DEF f

(* A closed channel has no bytes in its buffer.                             *)
LEMMA ClosedOK ==
    ASSUME NEW disk \in [Cells -> Byte], NEW eof \in 0 .. MaxPos
    PROVE  /\ ChannelOK(Closed(disk, eof))
           /\ \A oup : CleanOK(Closed(disk, eof), oup)
           /\ ~Closed(disk, eof).dirty
           /\ Closed(disk, eof).fill = 0
           /\ Closed(disk, eof).eof = eof
           /\ Closed(disk, eof).disk = disk
<1>1. [i \in Slots |-> NUL] \in [Slots -> Byte]
  BY BufferAssumption
<1> QED BY <1>1, FreshOK DEF Closed

(* What a call that ends leaves behind. *)
LEMMA ReplyOK ==
    ASSUME NEW data \in Seq(Byte),
           NEW res \in {"none", "ok", "data", "eof", "error"}
    PROVE  Reply(res, data) \in Replies
  BY DEF Reply, Replies

(* The reply of SET.                                                        *)
LEMMA ReplyAtOK ==
    ASSUME NEW p \in Nat
    PROVE  ReplyAt(p) \in Replies
<1>1. <<>> \in Seq(Byte)
  OBVIOUS
<1> QED BY <1>1 DEF ReplyAt, Replies

(* No call in progress is a well-typed state of the locals.                 *)
LEMMA NothingOK ==
    /\ NoRead \in Reads
    /\ NoWrite \in Writes
    /\ Failed \in Replies
    /\ <<>> \in Seq(Byte)
<1>1. <<>> \in Seq(Byte)
  OBVIOUS
<1> QED BY <1>1 DEF NoRead, NoWrite, Reads, Writes, Failed, Reply, Replies

(* A call that returns leaves its locals empty.                             *)
LEMMA ReturnOK ==
    ASSUME NEW r \in Replies, Return(r)
    PROVE  /\ pc' = "idle"
           /\ rd' \in Reads /\ wr' \in Writes /\ reply' \in Replies
  BY NothingOK DEF Return

(* The kernel's answers. *)
LEMMA TakesOK ==
    ASSUME IInv, NEW want \in Nat, NEW n, WriteTakes(n, want)
    PROVE  n \in 0 .. want /\ wfaults' \in 0 .. MaxWriteFaults
<1>1. wfaults \in 0 .. MaxWriteFaults /\ MaxWriteFaults \in Nat
  BY FileAssumption DEF IInv, TypeOK
<1> QED BY <1>1 DEF WriteTakes

(* Whether a read() fails: the faults left stay within their bound.         *)
LEMMA WorksOK ==
    ASSUME IInv, NEW ok, NEW ask \in BOOLEAN, ReadWorks(ok, ask)
    PROVE  ok \in BOOLEAN /\ rfaults' \in 0 .. MaxReadFaults
<1>1. rfaults \in 0 .. MaxReadFaults /\ MaxReadFaults \in Nat
  BY FileAssumption DEF IInv, TypeOK
<1>2. CASE ask /\ rfaults > 0
  BY <1>1, <1>2 DEF ReadWorks
<1>3. CASE ~(ask /\ rfaults > 0)
  <2>1. ok = TRUE
    BY <1>3 DEF ReadWorks
  <2>2. rfaults' = rfaults
    BY <2>1 DEF ReadWorks
  <2> QED BY <1>1, <2>1, <2>2
<1> QED BY <1>2, <1>3

(* A step that leaves no call in progress has only its types and the       *)
(* channel to account for.                                                 *)
LEMMA IdleOK ==
    ASSUME IInv, ChannelOK(c'), CleanOK(c', Oup'), c'.dirty => Oup',
           acc' \in Access \cup {"closed"}, pc' = "idle",
           rd' \in Reads, wr' \in Writes, reply' \in Replies,
           wfaults' \in 0 .. MaxWriteFaults, rfaults' \in 0 .. MaxReadFaults
    PROVE  IInv'
<1>1. TypeOK'
  BY DEF TypeOK, ChannelOK
<1>2. WriteOK' /\ ReadOK'
  BY DEF WriteOK, ReadOK
<1> QED BY <1>1, <1>2 DEF IInv

(* The invariant holds before the first open.                               *)
THEOREM InitInv == Init => IInv
<1> SUFFICES ASSUME Init PROVE IInv
  OBVIOUS
<1>1. PICK s \in Files :
        c = Closed([i \in Cells |-> IF i < Len(s) THEN s[i + 1] ELSE NUL], Len(s))
  BY DEF Init
<1>2. s \in Seq(Byte) /\ Len(s) \in 0 .. MaxPos
  BY FileAssumption, BufferAssumption
<1>3. [i \in Cells |-> IF i < Len(s) THEN s[i + 1] ELSE NUL] \in [Cells -> Byte]
  BY <1>2, BufferAssumption DEF Cells
<1>4. ChannelOK(c) /\ CleanOK(c, Oup) /\ ~c.dirty
  BY <1>1, <1>2, <1>3, ClosedOK
<1>5. TypeOK
  <2>1. <<>> \in Seq(Byte)
    OBVIOUS
  <2>2. rd \in Reads /\ wr \in Writes
    BY NothingOK DEF Init
  <2>3. reply \in Replies
    BY <2>1 DEF Init, Reply, Replies
  <2>4. wfaults \in 0 .. MaxWriteFaults /\ rfaults \in 0 .. MaxReadFaults
    BY FileAssumption DEF Init
  <2>5. /\ c \in Channel /\ acc \in Access \cup {"closed"}
        /\ pc \in {"idle", "copy", "discard", "raw", "write"}
    BY <1>4 DEF Init, ChannelOK
  <2> QED BY <2>2, <2>3, <2>4, <2>5 DEF TypeOK
<1> QED BY <1>4, <1>5 DEF Init, IInv, WriteOK, ReadOK

-----------------------------------------------------------------------------
(* Opening, closing and repositioning. *)
LEMMA OpenInv ==
    ASSUME IInv, NEW a \in Access, osopen(a)
    PROVE  IInv'
<1>1. PICK stale \in Stale, ok \in BOOLEAN :
        ReadWorks(ok, a = "append" /\ OpenMayFail) /\ c' = OpenFile(a, stale, ok)
  BY DEF osopen
<1>2. acc = "closed" /\ acc' = a /\ pc' = pc /\ rd' = rd /\ wr' = wr
      /\ wfaults' = wfaults /\ reply' = Reply("ok", <<>>)
  BY DEF osopen
<1>3. pc = "idle"
  BY <1>2 DEF IInv, TypeOK, WriteOK, ReadOK, Inp, Oup
<1>4. rfaults' \in 0 .. MaxReadFaults
  BY <1>1, WorksOK
<1>5. reply' \in Replies
  BY <1>2, NothingOK, ReplyOK
<1>6. /\ stale \in [Slots -> Byte] /\ c.disk \in [Cells -> Byte]
      /\ c.eof \in 0 .. MaxPos /\ 0 \in 0 .. MaxPos
      /\ [i \in Cells |-> NUL] \in [Cells -> Byte]
  BY FileAssumption, BufferAssumption DEF IInv, ChannelOK, Channel
<1> DEFINE ch == IF Truncates(a)
                 THEN Fresh([i \in Cells |-> NUL], 0, stale)
                 ELSE Fresh(c.disk, c.eof, stale)
<1>7. /\ ChannelOK(ch) /\ \A oup : CleanOK(ch, oup)
      /\ ~ch.dirty /\ ch.fill = 0 /\ ch.offset = 0
  BY <1>6, FreshOK
<1>8. c' = IF a = "append" THEN doset(ch, TRUE, 0, 2, 0, ok).c ELSE ch
  BY <1>1 DEF OpenFile
<1> HIDE DEF ch
<1>9. ChannelOK(c') /\ CleanOK(c', Oup') /\ ~c'.dirty
  <2>1. CASE a # "append"
    BY <1>7, <1>8, <2>1
  <2>2. CASE a = "append"
    <3> DEFINE oup == TRUE
    <3>1. oup \in BOOLEAN /\ oup /\ CleanOK(ch, oup)
      BY <1>7
    <3>2. 0 \in 0 .. Pending(ch)
      BY <1>7 DEF Pending
    <3>3. PICK off \in Int, whence \in {0, 1, 2}, n \in 0 .. Pending(ch) :
            off = 0 /\ whence = 2 /\ n = 0
      BY <3>2
    <3>4. PICK done : done = doset(ch, oup, off, whence, n, ok)
      OBVIOUS
    <3>5. c' = done.c /\ Oup'
      BY <1>2, <1>8, <2>2, <3>3, <3>4 DEF Oup
    <3> HIDE DEF oup
    <3>6. whence = 2 /\ off = 0 /\ ch.fill = 0 /\ ch.offset = 0
      BY <1>7, <3>3
    <3>7. ChannelOK(done.c) /\ CleanOK(done.c, oup) /\ (done.c.dirty => ch.dirty)
      <4>1. ChannelOK(ch) /\ CleanOK(ch, oup) /\ oup \in BOOLEAN
        BY <1>7, <3>1
      <4> QED BY <4>1, <3>4, <3>6, DosetOK
    <3>8. CleanOK(done.c, Oup')
      BY <3>1, <3>5, <3>7 DEF CleanOK
    <3> QED BY <1>7, <3>5, <3>7, <3>8
  <2> QED BY <2>1, <2>2
<1> QED BY <1>2, <1>3, <1>4, <1>5, <1>9, IdleOK DEF IInv, TypeOK

(* osclose: the flush of an output file, then no buffer at all.             *)
LEMMA CloseInv ==
    ASSUME IInv, osclose
    PROVE  IInv'
<1>1. PICK n \in 0 .. Size :
        /\ WriteTakes(n, Pending(c))
        /\ c' = LET ch == IF Oup THEN flush(c, n) ELSE c IN Closed(ch.disk, ch.eof)
        /\ Return(IF FlushErrs(c, n) THEN Failed ELSE Reply("ok", <<>>))
  BY DEF osclose
<1>2. Pending(c) \in Nat
  BY BufferAssumption DEF IInv, ChannelOK, Channel, Pending
<1>3. n \in 0 .. Pending(c) /\ wfaults' \in 0 .. MaxWriteFaults
  BY <1>1, <1>2, TakesOK
<1>4. ChannelOK(c') /\ CleanOK(c', Oup') /\ ~c'.dirty
  <2> DEFINE ch == IF Oup THEN flush(c, n) ELSE c
  <2>1. c' = Closed(ch.disk, ch.eof)
    BY <1>1
  <2>2. ChannelOK(ch)
    BY <1>3, FlushOK DEF IInv
  <2> HIDE DEF ch
  <2>3. ch.disk \in [Cells -> Byte] /\ ch.eof \in 0 .. MaxPos
    BY <2>2 DEF ChannelOK, Channel
  <2> QED BY <2>1, <2>3, ClosedOK
<1>5. (IF FlushErrs(c, n) THEN Failed ELSE Reply("ok", <<>>)) \in Replies
  BY NothingOK, ReplyOK
<1>6. pc' = "idle" /\ rd' \in Reads /\ wr' \in Writes /\ reply' \in Replies
  BY <1>1, <1>5, ReturnOK
<1>7. acc' \in Access \cup {"closed"} /\ rfaults' \in 0 .. MaxReadFaults
  BY DEF osclose, IInv, TypeOK
<1> QED BY <1>3, <1>4, <1>6, <1>7, IdleOK

(* SET and REWIND.                                                          *)
LEMMA SetInv ==
    ASSUME IInv, NEW off \in Int, NEW whence \in {0, 1, 2}, zysst(off, whence)
    PROVE  IInv'
<1> DEFINE oup == Oup
<1>1. PICK n \in 0 .. Size, ok \in BOOLEAN :
        /\ WriteTakes(n, Pending(c))
        /\ ReadWorks(ok, TRUE)
        /\ LET done == doset(c, oup, off, whence, n, ok)
           IN  /\ done.ret <= MaxPos
               /\ c' = done.c
               /\ Return(IF done.ret < 0 THEN Failed ELSE ReplyAt(done.ret))
  BY DEF zysst
<1>2. Pending(c) \in Nat
  BY BufferAssumption DEF IInv, ChannelOK, Channel, Pending
<1>3. n \in 0 .. Pending(c) /\ wfaults' \in 0 .. MaxWriteFaults
  BY <1>1, <1>2, TakesOK
<1>4. rfaults' \in 0 .. MaxReadFaults
  BY <1>1, WorksOK
<1>5. oup \in BOOLEAN /\ (oup <=> Oup) /\ CleanOK(c, oup) /\ (c.dirty => oup)
  BY DEF Oup, IInv, CleanOK
<1>6. acc' = acc /\ (Oup' <=> Oup)
  BY DEF zysst, Oup
<1> HIDE DEF oup
<1> DEFINE done == doset(c, oup, off, whence, n, ok)
<1>7. /\ done.ret <= MaxPos /\ c' = done.c
      /\ Return(IF done.ret < 0 THEN Failed ELSE ReplyAt(done.ret))
  BY <1>1
<1> HIDE DEF done
<1>8. /\ ChannelOK(done.c) /\ CleanOK(done.c, oup)
      /\ done.c.dirty => c.dirty
      /\ done.ret \in Nat \cup {-1}
  BY <1>3, <1>5, <1>7, DosetOK DEF done, IInv
<1>9. (IF done.ret < 0 THEN Failed ELSE ReplyAt(done.ret)) \in Replies
  <2>1. CASE done.ret = -1
    BY <2>1, NothingOK
  <2>2. CASE done.ret \in Nat
    <3>1. ~(done.ret < 0) /\ ReplyAt(done.ret) \in Replies
      BY <2>2, ReplyAtOK
    <3> QED BY <3>1
  <2> QED BY <1>8, <2>1, <2>2
<1>10. pc' = "idle" /\ rd' \in Reads /\ wr' \in Writes /\ reply' \in Replies
  BY <1>7, <1>9, ReturnOK
<1>11. ChannelOK(c') /\ CleanOK(c', Oup') /\ (c'.dirty => Oup')
  BY <1>5, <1>6, <1>7, <1>8 DEF CleanOK
<1> QED BY <1>3, <1>4, <1>6, <1>10, <1>11, IdleOK DEF IInv, TypeOK

-----------------------------------------------------------------------------
(* The turns of osread. *)
LEMMA StartReadInv ==
    ASSUME IInv, NEW phase \in {"copy", "raw"}, NEW max \in RecSizes,
           StartRead(phase, max)
    PROVE  IInv'
<1>1. c.offset + c.next \in Nat
  BY BufferAssumption DEF IInv, ChannelOK, Channel
<1>2. rd' \in Reads
  BY <1>1, NothingOK, FileAssumption DEF StartRead, Reads
<1>3. reply' \in Replies
  BY NothingOK, ReplyOK DEF StartRead
<1>4. /\ Inp /\ acc' = acc /\ c' = c /\ wr' = wr /\ pc' = phase
      /\ wfaults' = wfaults /\ rfaults' = rfaults
  BY DEF StartRead
<1>5. TypeOK'
  BY <1>2, <1>3, <1>4 DEF IInv, TypeOK
<1>6. WriteOK' /\ ReadOK'
  <2>1. Len(rd'.got) <= rd'.max
    BY FileAssumption DEF StartRead
  <2> QED BY <1>4, <2>1 DEF WriteOK, ReadOK, Inp
<1>7. CleanOK(c', Oup') /\ (c'.dirty => Oup')
  BY <1>4 DEF IInv, CleanOK, Oup
<1> QED BY <1>4, <1>5, <1>6, <1>7 DEF IInv

(* A turn that only moves the window's next byte. *)
LEMMA MoveNext ==
    ASSUME IInv, NEW k \in c.next .. c.fill, c' = [c EXCEPT !.next = k], acc' = acc
    PROVE  /\ ChannelOK(c') /\ CleanOK(c', Oup') /\ (c'.dirty => Oup')
           /\ k \in 0 .. Size
<1>1. c.next \in 0 .. Size /\ c.fill \in 0 .. Size /\ Size \in Nat
  BY BufferAssumption DEF IInv, ChannelOK, Channel
<1>2. k \in 0 .. Size /\ k <= c.fill
  BY <1>1
<1>3. /\ c' \in Channel /\ c'.curpos = c.curpos /\ c'.kpos = c.kpos
      /\ c'.next = k /\ c'.fill = c.fill /\ c'.offset = c.offset
      /\ c'.dirty = c.dirty /\ c'.buf = c.buf /\ c'.disk = c.disk
      /\ c'.eof = c.eof
  BY <1>2 DEF IInv, ChannelOK, Channel
<1>4. ChannelOK(c')
  BY <1>2, <1>3 DEF IInv, ChannelOK
<1>5. CleanOK(c', Oup') /\ (c'.dirty => Oup')
  BY <1>3 DEF IInv, CleanOK, Agrees, Oup
<1> QED BY <1>2, <1>4, <1>5

(* The bytes a turn of osread moves are bytes of the buffer.                *)
LEMMA TakeOK ==
    ASSUME IInv, NEW k \in c.next .. c.fill
    PROVE  /\ Take(k) \in Seq(Byte)
           /\ Len(Take(k)) = Len(rd.got) + (k - c.next)
<1>1. /\ c.next \in 0 .. Size /\ c.fill \in 0 .. Size /\ Size \in Nat
      /\ c.buf \in [Slots -> Byte]
  BY BufferAssumption DEF IInv, ChannelOK, Channel
<1>2. \A i \in 1 .. k - c.next : c.next + i - 1 \in Slots
  BY <1>1 DEF Slots
<1>3. k - c.next \in Nat
  BY <1>1
<1> DEFINE n    == k - c.next
           more == [i \in 1 .. n |-> c.buf[c.next + i - 1]]
<1>4. more \in [1 .. n -> Byte] /\ n \in Nat
  BY <1>1, <1>2, <1>3
<1>5. Take(k) = rd.got \o more
  BY DEF Take
<1> HIDE DEF n, more
<1>6. more \in Seq(Byte) /\ Len(more) = n
  BY <1>4
<1>7. rd.got \in Seq(Byte)
  BY DEF IInv, TypeOK, Reads
<1> QED BY <1>5, <1>6, <1>7, ConcatProperties, SMTT(30) DEF n

(* A read that ends replies with what it has, or with end of file.          *)
LEMMA EndReadOK ==
    ASSUME NEW got \in Seq(Byte), EndRead(got)
    PROVE  /\ pc' = "idle"
           /\ rd' \in Reads /\ wr' \in Writes /\ reply' \in Replies
<1>1. (IF got = <<>> THEN Reply("eof", <<>>) ELSE Reply("data", got)) \in Replies
  BY NothingOK, ReplyOK
<1> QED BY <1>1, ReturnOK DEF EndRead

(* While a read goes on: its types, and what the channel allows. *)
LEMMA ReadOn ==
    ASSUME IInv, pc \in {"copy", "discard", "raw"},
           ChannelOK(c'), CleanOK(c', Oup'), c'.dirty => Oup', acc' = acc,
           pc' \in {"copy", "discard", "raw"},
           rd' \in Reads, Len(rd'.got) <= rd'.max, UNCHANGED <<wr, reply>>,
           wfaults' \in 0 .. MaxWriteFaults, rfaults' \in 0 .. MaxReadFaults
    PROVE  IInv'
<1>1. TypeOK'
  BY DEF TypeOK, ChannelOK, IInv
<1>2. WriteOK' /\ ReadOK'
  BY DEF WriteOK, ReadOK, IInv, Inp
<1> QED BY <1>1, <1>2 DEF IInv

(* A read() that fails leaves the channel positioned, and no more. *)
LEMMA SyncedOK ==
    ASSUME IInv, c' = fsyncio(c), acc' = acc
    PROVE  ChannelOK(c') /\ CleanOK(c', Oup') /\ (c'.dirty => Oup')
<1>1. /\ c' \in Channel /\ c'.curpos = c'.kpos /\ c'.offset = c.offset
      /\ c'.fill = c.fill /\ c'.next = c.next /\ c'.dirty = c.dirty
      /\ c'.buf = c.buf /\ c'.disk = c.disk /\ c'.eof = c.eof
  BY FsyncOK DEF IInv
<1>2. ChannelOK(c')
  BY <1>1 DEF IInv, ChannelOK
<1> QED BY <1>1, <1>2 DEF IInv, CleanOK, Agrees, Oup

(* The buffer is flushed and filled again in the middle of a read.          *)
LEMMA RefillInv ==
    ASSUME IInv, Refill
    PROVE  IInv'
<1>1. PICK n \in 0 .. Size, ok \in BOOLEAN :
        /\ WriteTakes(n, Pending(c))
        /\ ReadWorks(ok, ~FlushErrs(c, n))
        /\ LET flushed == flush(c, n)
               filled  == fillbuf(flushed)
           IN  IF FlushErrs(c, n) THEN c' = flushed /\ Return(Failed)
               ELSE IF ~ok THEN c' = fsyncio(flushed) /\ Return(Failed)
               ELSE /\ c' = filled
                    /\ IF AtEnd(filled) THEN EndRead(rd.got)
                       ELSE UNCHANGED <<pc, rd, wr, reply>>
  BY DEF Refill
<1>2. Pending(c) \in Nat
  BY BufferAssumption DEF IInv, ChannelOK, Channel, Pending
<1>3. n \in 0 .. Pending(c) /\ wfaults' \in 0 .. MaxWriteFaults
  BY <1>1, <1>2, TakesOK
<1>4. rfaults' \in 0 .. MaxReadFaults
  <2>1. FlushErrs(c, n) \in BOOLEAN
    BY DEF FlushErrs
  <2> QED BY <1>1, <2>1, WorksOK
<1>5. acc' = acc /\ pc \in {"copy", "discard", "raw"}
  BY DEF Refill
<1>6. acc' \in Access \cup {"closed"}
  BY <1>5 DEF IInv, TypeOK
<1> DEFINE flushed == flush(c, n)
           filled  == fillbuf(flushed)
<1>7. /\ ChannelOK(flushed) /\ flushed.fill = 0 /\ ~flushed.dirty
  BY <1>3, FlushOK DEF IInv
<1>8. \A oup : CleanOK(flushed, oup)
  BY <1>7 DEF CleanOK, Agrees, Slots
<1> HIDE DEF flushed
<1>9. /\ fsyncio(flushed) \in Channel /\ ~fsyncio(flushed).dirty
      /\ ChannelOK(fsyncio(flushed)) /\ \A oup : CleanOK(fsyncio(flushed), oup)
  <2> DEFINE s == fsyncio(flushed)
  <2>1. /\ s \in Channel /\ s.curpos = s.kpos /\ s.fill = 0
        /\ s.next = flushed.next /\ ~s.dirty
    BY <1>7, FsyncOK
  <2> HIDE DEF s
  <2>2. ChannelOK(s)
    BY <1>7, <2>1 DEF ChannelOK
  <2>3. \A oup : CleanOK(s, oup)
    BY <2>1 DEF CleanOK, Agrees, Slots
  <2> QED BY <2>1, <2>2, <2>3 DEF s
<1>10. /\ ChannelOK(filled) /\ ~filled.dirty /\ \A oup : CleanOK(filled, oup)
  <2>1. /\ ChannelOK(filled) /\ ~filled.dirty
        /\ filled.offset = flushed.offset /\ filled.eof = flushed.eof
        /\ filled.disk = flushed.disk
        /\ filled.fill > 0 => flushed.offset + filled.fill <= flushed.eof
        /\ \A i \in Slots : flushed.offset + i < flushed.eof
                          => filled.buf[i] = flushed.disk[flushed.offset + i]
    BY <1>7, FillOK
  <2> HIDE DEF filled
  <2> QED BY <2>1 DEF CleanOK, Agrees
<1> HIDE DEF filled
<1>11. CASE FlushErrs(c, n)
  <2>1. c' = flushed /\ Return(Failed)
    BY <1>1, <1>11 DEF flushed
  <2> QED BY <1>3, <1>4, <1>6, <1>7, <1>8, <2>1, NothingOK, ReturnOK, IdleOK
<1>12. CASE ~FlushErrs(c, n) /\ ~ok
  <2>1. c' = fsyncio(flushed) /\ Return(Failed)
    BY <1>1, <1>12 DEF flushed
  <2> QED BY <1>3, <1>4, <1>6, <1>9, <2>1, NothingOK, ReturnOK, IdleOK
<1>13. CASE ~FlushErrs(c, n) /\ ok
  <2>1. /\ c' = filled
        /\ EndRead(rd.got) \/ UNCHANGED <<pc, rd, wr, reply>>
    BY <1>1, <1>13 DEF flushed, filled
  <2>2. rd \in Reads /\ rd.got \in Seq(Byte) /\ Len(rd.got) <= rd.max
    BY <1>5 DEF IInv, TypeOK, ReadOK, Reads
  <2>3. CASE EndRead(rd.got)
    BY <1>3, <1>4, <1>6, <1>10, <2>1, <2>2, <2>3, EndReadOK, IdleOK
  <2>4. CASE UNCHANGED <<pc, rd, wr, reply>>
    BY <1>3, <1>4, <1>5, <1>10, <2>1, <2>2, <2>4, ReadOn
  <2> QED BY <2>1, <2>3, <2>4
<1> QED BY <1>11, <1>12, <1>13

(* Line mode, up to the EOL or the length of the record.                    *)
LEMMA CopyLineInv ==
    ASSUME IInv, CopyLine
    PROVE  IInv'
<1> DEFINE stop == c.next + Least(Wanted, c.fill - c.next)
<1>1. PICK k \in c.next .. stop :
        /\ c' = [c EXCEPT !.next = k]
        /\ rd' = [rd EXCEPT !.got = Take(k)]
        /\ pc' = IF k = stop /\ Len(Take(k)) < rd.max THEN "copy" ELSE "discard"
  BY DEF CopyLine
<1>2. c.next \in Nat /\ c.fill \in Nat /\ rd \in Reads /\ rd.max \in Nat
      /\ rd.got \in Seq(Byte) /\ Len(rd.got) \in Nat
  BY BufferAssumption DEF IInv, TypeOK, ChannelOK, Channel, Reads
<1>3. stop <= c.fill /\ stop \in Int /\ stop - c.next <= rd.max - Len(rd.got)
  BY <1>2 DEF Least, Wanted
<1> HIDE DEF stop
<1>4. k \in c.next .. c.fill /\ k - c.next <= rd.max - Len(rd.got)
  BY <1>2, <1>3
<1>5. rd' \in Reads /\ Len(rd'.got) <= rd'.max
  <2>1. Take(k) \in Seq(Byte) /\ Len(Take(k)) = Len(rd.got) + (k - c.next)
    BY <1>4, TakeOK
  <2>2. Len(Take(k)) <= rd.max
    BY <1>2, <1>4, <2>1
  <2>3. rd' \in Reads /\ rd'.got = Take(k) /\ rd'.max = rd.max
    BY <1>1, <1>2, <2>1 DEF Reads
  <2> QED BY <2>2, <2>3
<1>6. /\ acc' = acc /\ UNCHANGED <<wr, reply, wfaults, rfaults>>
      /\ pc \in {"copy", "discard", "raw"} /\ pc' \in {"copy", "discard", "raw"}
  BY <1>1 DEF CopyLine
<1>7. ChannelOK(c') /\ CleanOK(c', Oup') /\ (c'.dirty => Oup')
  BY <1>1, <1>4, <1>6, MoveNext
<1> QED BY <1>5, <1>6, <1>7, ReadOn DEF IInv, TypeOK

(* Line mode, the rest of a line that is too long.                          *)
LEMMA DiscardLineInv ==
    ASSUME IInv, DiscardLine
    PROVE  IInv'
<1>1. PICK k \in c.next .. c.fill :
        IF k < c.fill
        THEN c' = [c EXCEPT !.next = k + 1] /\ Return(Reply("data", rd.got))
        ELSE c' = [c EXCEPT !.next = k] /\ UNCHANGED <<pc, rd, wr, reply>>
  BY DEF DiscardLine
<1>2. /\ acc' = acc /\ UNCHANGED <<wfaults, rfaults>>
      /\ pc \in {"copy", "discard", "raw"}
  BY DEF DiscardLine
<1>3. rd \in Reads /\ rd.got \in Seq(Byte) /\ Len(rd.got) <= rd.max
  BY <1>2 DEF IInv, TypeOK, ReadOK, Reads
<1>4. c.next \in Nat /\ c.fill \in Nat
  BY BufferAssumption DEF IInv, ChannelOK, Channel
<1>5. CASE k < c.fill
  <2>1. c' = [c EXCEPT !.next = k + 1] /\ Return(Reply("data", rd.got))
    BY <1>1, <1>5
  <2>2. k + 1 \in c.next .. c.fill
    BY <1>4, <1>5
  <2>3. ChannelOK(c') /\ CleanOK(c', Oup') /\ (c'.dirty => Oup')
    BY <1>2, <2>1, <2>2, MoveNext
  <2>4. Reply("data", rd.got) \in Replies
    BY <1>3, ReplyOK
  <2>5. pc' = "idle" /\ rd' \in Reads /\ wr' \in Writes /\ reply' \in Replies
    BY <2>1, <2>4, ReturnOK
  <2> QED BY <1>2, <2>3, <2>5, IdleOK DEF IInv, TypeOK
<1>6. CASE ~(k < c.fill)
  <2>1. c' = [c EXCEPT !.next = k] /\ UNCHANGED <<pc, rd, wr, reply>>
    BY <1>1, <1>6
  <2>2. ChannelOK(c') /\ CleanOK(c', Oup') /\ (c'.dirty => Oup')
    BY <1>2, <2>1, MoveNext
  <2> QED BY <1>2, <1>3, <2>1, <2>2, ReadOn DEF IInv, TypeOK
<1> QED BY <1>5, <1>6

(* Raw mode.                                                                *)
LEMMA CopyRawInv ==
    ASSUME IInv, CopyRaw
    PROVE  IInv'
<1> DEFINE k == c.next + Least(Wanted, c.fill - c.next)
<1>1. /\ c' = [c EXCEPT !.next = k]
      /\ IF Len(Take(k)) = rd.max
         THEN EndRead(Take(k))
         ELSE rd' = [rd EXCEPT !.got = Take(k)] /\ UNCHANGED <<pc, wr, reply>>
  BY DEF CopyRaw
<1>2. c.next \in Nat /\ c.fill \in Nat /\ rd \in Reads /\ rd.max \in Nat
      /\ rd.got \in Seq(Byte) /\ Len(rd.got) \in Nat
  BY BufferAssumption DEF IInv, TypeOK, ChannelOK, Channel, Reads
<1>3. /\ acc' = acc /\ UNCHANGED <<wfaults, rfaults>>
      /\ pc \in {"copy", "discard", "raw"} /\ c.next < c.fill
  BY DEF CopyRaw
<1>4. Len(rd.got) <= rd.max
  BY <1>3 DEF IInv, ReadOK
<1>5. k \in c.next .. c.fill /\ k - c.next <= rd.max - Len(rd.got)
  BY <1>2, <1>3, <1>4 DEF Least, Wanted
<1> HIDE DEF k
<1>6. Take(k) \in Seq(Byte) /\ Len(Take(k)) = Len(rd.got) + (k - c.next)
  BY <1>5, TakeOK
<1>7. Len(Take(k)) <= rd.max
  BY <1>2, <1>5, <1>6
<1>8. ChannelOK(c') /\ CleanOK(c', Oup') /\ (c'.dirty => Oup')
  BY <1>1, <1>3, <1>5, MoveNext
<1>9. CASE Len(Take(k)) = rd.max
  <2>1. pc' = "idle" /\ rd' \in Reads /\ wr' \in Writes /\ reply' \in Replies
    BY <1>1, <1>6, <1>9, EndReadOK
  <2> QED BY <1>3, <1>8, <2>1, IdleOK DEF IInv, TypeOK
<1>10. CASE Len(Take(k)) # rd.max
  <2>1. rd' = [rd EXCEPT !.got = Take(k)] /\ UNCHANGED <<pc, wr, reply>>
    BY <1>1, <1>10
  <2>2. rd' \in Reads /\ rd'.got = Take(k) /\ rd'.max = rd.max
    BY <1>2, <1>6, <2>1 DEF Reads
  <2>3. Len(rd'.got) <= rd'.max
    BY <1>7, <2>2
  <2> QED BY <1>3, <1>8, <2>1, <2>2, <2>3, ReadOn DEF IInv, TypeOK
<1> QED BY <1>9, <1>10

-----------------------------------------------------------------------------
(* The turns of oswrite. *)
LEMMA LinesOK ==
    ASSUME NEW rec \in Seq(Byte), NEW width \in Nat
    PROVE  /\ FirstLine(rec, width) \in Seq(Byte)
           /\ OtherLines(rec, width) \in Seq(Byte)
           /\ width = 0 => OtherLines(rec, width) = <<>>
           /\ Len(FirstLine(rec, width)) + 2 * Len(OtherLines(rec, width))
                <= Extent(rec, width)
           /\ width > 0 /\ rec # <<>>
                => Len(FirstLine(rec, width)) + 2 * Len(OtherLines(rec, width))
                     <= 2 * Len(rec)
<1>1. CASE width = 0
  BY <1>1 DEF FirstLine, OtherLines, Extent
<1>2. CASE width > 0
  <2> DEFINE n     == Least(width, Len(rec))
             head  == SubSeq(rec, 1, n)
             tail  == SubSeq(rec, width + 1, Len(rec))
  <2>1. Len(rec) \in Nat /\ n \in 0 .. Len(rec) /\ n <= width
        /\ (n = width \/ n = Len(rec))
    BY DEF Least
  <2> HIDE DEF n
  <2>2. head \in Seq(Byte) /\ Len(head) = n
    BY <2>1, SubSeqProperties
  <2>3. <<EOL>> \in Seq(Byte) /\ Len(<<EOL>>) = 1
    BY FileAssumption
  <2>4. tail \in Seq(Byte) /\ Len(tail) = Len(rec) - n
    <3>1. width + 1 \in Int /\ Len(rec) \in Int
          /\ \A i \in width + 1 .. Len(rec) : rec[i] \in Byte
      BY <2>1
    <3>2. /\ tail \in Seq(Byte)
          /\ Len(tail) = IF width + 1 <= Len(rec) THEN Len(rec) - (width + 1) + 1 ELSE 0
      BY <3>1, SubSeqProperties
    <3> HIDE DEF tail
    <3> QED BY <2>1, <3>2
  <2>5. FirstLine(rec, width) = head \o <<EOL>> /\ OtherLines(rec, width) = tail
    <3>1. width # 0
      BY <1>2
    <3> QED BY <3>1, Zenon DEF FirstLine, OtherLines, n
  <2> HIDE DEF head, tail
  <2>6. head \o <<EOL>> \in Seq(Byte) /\ Len(head \o <<EOL>>) = n + 1
    BY <2>2, <2>3, ConcatProperties
  <2>7. rec # <<>> => n > 0
    BY <1>2, <2>1, EmptySeq
  <2>8. Len(rec) >= 1 \/ (Len(rec) = 0 /\ n = 0)
    BY <2>1
  <2>9. Extent(rec, width) = Greatest(1, 2 * Len(rec))
    BY <1>2 DEF Extent
  <2>10. n + 1 + 2 * (Len(rec) - n) <= Greatest(1, 2 * Len(rec))
    <3>1. Len(rec) >= 1 => n > 0
      BY <2>7
    <3>2. PICK l \in Nat, m \in Nat : l = Len(rec) /\ m = n
      BY <2>1
    <3>3. (m > 0 /\ m <= l) \/ (l = 0 /\ m = 0)
      BY <2>1, <2>8, <3>1, <3>2
    <3>4. m + 1 + 2 * (l - m) <= Greatest(1, 2 * l)
      BY <3>2, <3>3 DEF Greatest
    <3> QED BY <3>2, <3>4
  <2>11. rec # <<>> => Greatest(1, 2 * Len(rec)) = 2 * Len(rec)
    <3>1. rec # <<>> => Len(rec) >= 1
      BY <2>1, <2>7
    <3> QED BY <2>1, <3>1 DEF Greatest
  <2>12. Len(FirstLine(rec, width)) + 2 * Len(OtherLines(rec, width))
           = n + 1 + 2 * (Len(rec) - n)
    BY <2>4, <2>5, <2>6
  <2>13. FirstLine(rec, width) \in Seq(Byte) /\ OtherLines(rec, width) \in Seq(Byte)
    BY <2>4, <2>5, <2>6
  <2>14. width # 0
    BY <1>2
  <2> HIDE DEF n
  <2> QED BY <2>9, <2>10, <2>11, <2>12, <2>13, <2>14
<1> QED BY <1>1, <1>2

(* A write begins: its lines are sequences of bytes that fit the file.      *)
LEMMA StartWriteInv ==
    ASSUME IInv, NEW rec \in Records, NEW width \in RecSizes \cup {0},
           StartWrite(rec, width)
    PROVE  IInv'
<1>1. rec \in Seq(Byte) /\ width \in Nat
  BY FileAssumption
<1>2. /\ Oup /\ acc' = acc /\ c' = c /\ rd' = rd /\ pc' = "write"
      /\ wfaults' = wfaults /\ rfaults' = rfaults
      /\ reply' = Reply("none", <<>>)
      /\ wr' = [line |-> FirstLine(rec, width), rest |-> OtherLines(rec, width),
                width |-> width]
      /\ c.offset + c.next + Extent(rec, width) <= MaxPos
  BY DEF StartWrite
<1>3. reply' \in Replies
  BY <1>2, NothingOK, ReplyOK
<1>4. /\ wr' \in Writes /\ wr'.line = FirstLine(rec, width)
      /\ wr'.rest = OtherLines(rec, width) /\ wr'.width = width
  BY <1>1, <1>2, LinesOK DEF Writes
<1>5. TypeOK'
  BY <1>2, <1>3, <1>4 DEF IInv, TypeOK
<1>6. WriteOK' /\ ReadOK'
  <2>1. /\ Len(wr'.line) + 2 * Len(wr'.rest) <= Extent(rec, width)
        /\ width = 0 => wr'.rest = <<>>
    BY <1>1, <1>4, LinesOK
  <2>2. /\ Len(wr'.line) \in Nat /\ Len(wr'.rest) \in Nat
        /\ c.offset \in Nat /\ c.next \in Nat /\ Extent(rec, width) \in Nat
        /\ MaxPos \in Nat
    BY <1>1, <1>4, BufferAssumption DEF IInv, ChannelOK, Channel, Writes, Extent, Greatest
  <2>3. c'.offset + c'.next + Len(wr'.line) + 2 * Len(wr'.rest) <= MaxPos
    BY <1>2, <2>1, <2>2
  <2> QED BY <1>2, <1>4, <2>1, <2>3 DEF WriteOK, ReadOK, Oup
<1>7. CleanOK(c', Oup') /\ (c'.dirty => Oup')
  BY <1>2 DEF IInv, CleanOK, Oup
<1> QED BY <1>2, <1>5, <1>6, <1>7 DEF IInv

(* While a write goes on. *)
LEMMA WriteOn ==
    ASSUME IInv, pc = "write", ChannelOK(c'), CleanOK(c', Oup'), UNCHANGED <<acc, pc, rd, reply>>,
           wr' \in Writes,
           c'.offset + c'.next + Len(wr'.line) + 2 * Len(wr'.rest) <= MaxPos,
           wr'.width = 0 => wr'.rest = <<>>,
           wfaults' \in 0 .. MaxWriteFaults, rfaults' \in 0 .. MaxReadFaults
    PROVE  IInv'
<1>1. Oup' /\ (c'.dirty => Oup')
  BY DEF IInv, WriteOK, Oup
<1>2. TypeOK'
  BY DEF TypeOK, ChannelOK, IInv
<1>3. WriteOK' /\ ReadOK'
  BY <1>1 DEF WriteOK, ReadOK
<1> QED BY <1>1, <1>2, <1>3 DEF IInv

(* What every turn of oswrite starts from. *)
LEMMA WriteFacts ==
    ASSUME IInv, pc = "write"
    PROVE  /\ Oup /\ wr \in Writes
           /\ wr.line \in Seq(Byte) /\ wr.rest \in Seq(Byte) /\ wr.width \in Nat
           /\ Len(wr.line) \in Nat /\ Len(wr.rest) \in Nat
           /\ c.offset \in Nat /\ c.next \in 0 .. Size /\ c.fill \in 0 .. Size
           /\ c.next <= c.fill
           /\ Size \in Nat \ {0} /\ MaxPos \in Nat
           /\ c.offset + c.next + Len(wr.line) + 2 * Len(wr.rest) <= MaxPos
           /\ wr.width = 0 => wr.rest = <<>>
           /\ Pending(c) \in Nat
<1>1. wr \in Writes
  BY DEF IInv, TypeOK
<1>2. /\ wr.line \in Seq(Byte) /\ wr.rest \in Seq(Byte) /\ wr.width \in Nat
      /\ Len(wr.line) \in Nat /\ Len(wr.rest) \in Nat
  BY <1>1 DEF Writes
<1>3. /\ c.offset \in Nat /\ c.next \in 0 .. Size /\ c.fill \in 0 .. Size
      /\ c.next <= c.fill /\ Size \in Nat \ {0} /\ MaxPos \in Nat
      /\ Pending(c) \in Nat
  BY BufferAssumption DEF IInv, ChannelOK, Channel, Pending
<1>4. /\ Oup
      /\ wr.width = 0 => wr.rest = <<>>
      /\ c.offset + c.next + Len(wr.line) + 2 * Len(wr.rest) <= MaxPos
  BY DEF IInv, WriteOK
<1> QED BY <1>1, <1>2, <1>3, <1>4

(* The full buffer is written out.                                          *)
LEMMA WriteFlushInv ==
    ASSUME IInv, WriteFlush
    PROVE  IInv'
<1>1. PICK n \in 0 .. Size :
        /\ WriteTakes(n, Pending(c))
        /\ c' = flush(c, n)
        /\ Return(Failed) \/ UNCHANGED <<pc, rd, wr, reply>>
  BY DEF WriteFlush
<1>2. pc = "write" /\ c.next = Size /\ acc' = acc /\ rfaults' = rfaults
  BY DEF WriteFlush
<1>3. n \in 0 .. Pending(c) /\ wfaults' \in 0 .. MaxWriteFaults
  BY <1>1, <1>2, WriteFacts, TakesOK
<1>4. /\ ChannelOK(c') /\ c'.fill = 0 /\ c'.next = 0 /\ ~c'.dirty
      /\ c'.offset = c.offset + c.fill
  BY <1>1, <1>3, FlushOK DEF IInv
<1>5. CleanOK(c', Oup')
  BY <1>4 DEF CleanOK, Agrees, Slots
<1>6. CASE Return(Failed)
  BY <1>2, <1>3, <1>4, <1>5, <1>6, NothingOK, ReturnOK, IdleOK DEF IInv, TypeOK
<1>7. CASE UNCHANGED <<pc, rd, wr, reply>>
  <2>1. c'.offset + c'.next + Len(wr'.line) + 2 * Len(wr'.rest) <= MaxPos
    BY <1>2, <1>4, <1>7, WriteFacts
  <2> QED BY <1>2, <1>3, <1>4, <1>5, <1>7, <2>1, WriteFacts, WriteOn DEF IInv, TypeOK
<1> QED BY <1>1, <1>6, <1>7

(* What is left of the line after n bytes of it.                            *)
LEMMA WroteOK ==
    ASSUME IInv, pc = "write", NEW n \in 0 .. Len(wr.line), Wrote(n)
    PROVE  /\ wr' \in Writes
           /\ Len(wr'.line) = Len(wr.line) - n
           /\ wr'.rest = wr.rest /\ wr'.width = wr.width
<1> DEFINE tail == SubSeq(wr.line, n + 1, Len(wr.line))
<1>1. wr \in Writes /\ wr.line \in Seq(Byte) /\ Len(wr.line) \in Nat
  BY WriteFacts
<1>2. /\ n + 1 \in Int /\ Len(wr.line) \in Int
      /\ \A i \in n + 1 .. Len(wr.line) : wr.line[i] \in Byte
  BY <1>1
<1>3. /\ tail \in Seq(Byte)
      /\ Len(tail) = IF n + 1 <= Len(wr.line) THEN Len(wr.line) - (n + 1) + 1 ELSE 0
  BY <1>2, SubSeqProperties
<1>4. wr' = [wr EXCEPT !.line = tail]
  BY DEF Wrote
<1> HIDE DEF tail
<1>5. Len(tail) = Len(wr.line) - n
  BY <1>1, <1>3
<1>6. /\ wr' \in Writes /\ wr'.line = tail
      /\ wr'.rest = wr.rest /\ wr'.width = wr.width
  BY <1>1, <1>3, <1>4 DEF Writes
<1> QED BY <1>5, <1>6

(* Bytes of the line go into the buffer, filled from the file if need be.   *)
LEMMA WriteCopyInv ==
    ASSUME IInv, WriteCopy
    PROVE  IInv'
<1> DEFINE load == c.fill = 0 /\ Inp
           ch   == IF load THEN fillbuf(c) ELSE c
           n    == Fits(ch)
           b    == Copy(ch.buf, ch.next, n, wr.line, 1)
<1>1. PICK ok \in BOOLEAN :
        /\ ReadWorks(ok, load)
        /\ IF ok
           THEN /\ c' = [ch EXCEPT !.buf = b, !.next = @ + n,
                                   !.fill = Greatest(@, ch.next + n),
                                   !.dirty = TRUE]
                /\ Wrote(n)
                /\ UNCHANGED <<pc, rd, reply>>
           ELSE c' = fsyncio(c) /\ Return(Failed)
  BY DEF WriteCopy
<1>2. /\ pc = "write" /\ wr.line # <<>> /\ c.next # Size
      /\ acc' = acc /\ wfaults' = wfaults
  BY DEF WriteCopy
<1>3. rfaults' \in 0 .. MaxReadFaults
  BY <1>1, WorksOK
<1>4. /\ ChannelOK(ch) /\ ch.offset = c.offset /\ ch.next = c.next
  <2>1. CASE load
    <3>1. c.next = 0
      BY <2>1, <1>2, WriteFacts
    <3>2. ChannelOK(fillbuf(c)) /\ fillbuf(c).offset = c.offset /\ fillbuf(c).next = 0
      BY FillOK DEF IInv
    <3> QED BY <2>1, <3>1, <3>2
  <2>2. CASE ~load
    BY <2>2 DEF IInv
  <2> QED BY <2>1, <2>2
<1> HIDE DEF load, ch
<1>5. /\ ch \in Channel /\ ch.next \in 0 .. Size /\ ch.fill \in 0 .. Size
      /\ ch.offset \in Nat /\ ch.buf \in [Slots -> Byte]
      /\ ch.next # Size /\ ch.next <= ch.fill
      /\ ch.fill > 0 => ch.offset + ch.fill <= MaxPos
  BY <1>2, <1>4 DEF ChannelOK, Channel
<1> DEFINE len == Len(wr.line)
           more == 2 * Len(wr.rest)
<1>6. /\ len \in Nat \ {0} /\ more \in Nat /\ Size \in Nat \ {0} /\ MaxPos \in Nat
       /\ ch.offset + ch.next + len + more <= MaxPos
  <2>1. /\ len \in Nat \ {0} /\ Len(wr.rest) \in Nat
        /\ Size \in Nat \ {0} /\ MaxPos \in Nat
        /\ c.offset + c.next + len + more <= MaxPos
    BY <1>2, WriteFacts, EmptySeq
  <2> QED BY <1>4, <2>1
<1> HIDE DEF len, more
<1>7. n \in 0 .. len /\ n > 0 /\ ch.next + n \in 0 .. Size
  BY <1>5, <1>6 DEF Fits, Least, len
<1> HIDE DEF n
<1>8. b \in [Slots -> Byte]
  <2>1. \A i \in Slots : ch.next <= i /\ i < ch.next + n
                      => wr.line[1 + (i - ch.next)] \in Byte
    <3> SUFFICES ASSUME NEW i \in Slots, ch.next <= i, i < ch.next + n
                 PROVE  wr.line[1 + (i - ch.next)] \in Byte
      OBVIOUS
    <3>1. 1 + (i - ch.next) \in 1 .. Len(wr.line)
      <4>1. i \in Int
        BY <1>6 DEF Slots
      <4>2. 1 + (i - ch.next) \in 1 .. len
        BY <1>5, <1>7, <1>6, <4>1
      <4> QED BY <4>2 DEF len
    <3> QED BY <1>2, <3>1, WriteFacts
  <2> QED BY <1>5, <2>1 DEF Copy
<1> HIDE DEF b
<1>9. CASE ok
  <2> DEFINE f == Greatest(ch.fill, ch.next + n)
  <2>1. c' = [ch EXCEPT !.buf = b, !.next = @ + n, !.fill = f, !.dirty = TRUE]
        /\ Wrote(n) /\ UNCHANGED <<pc, rd, reply>>
    BY <1>1, <1>9
  <2>2. f \in 0 .. Size /\ ch.next + n <= f /\ (f = ch.fill \/ f = ch.next + n)
    BY <1>5, <1>7, <1>6 DEF Greatest
  <2>3. ch.offset + ch.next + n <= MaxPos
    BY <1>5, <1>7, <1>6
  <2> HIDE DEF f
  <2>4. f > 0 => ch.offset + f <= MaxPos
    <3>1. CASE f = ch.fill
      BY <1>5, <3>1
    <3>2. CASE f = ch.next + n
      BY <1>5, <1>6, <1>7, <2>3, <3>2
    <3> QED BY <2>2, <3>1, <3>2
  <2>5. /\ c' \in Channel /\ c'.curpos = ch.curpos /\ c'.kpos = ch.kpos
        /\ c'.next = ch.next + n /\ c'.fill = f /\ c'.offset = ch.offset
        /\ c'.dirty
    BY <1>5, <1>7, <1>8, <2>1, <2>2 DEF Channel
  <2>6. ChannelOK(c')
    BY <1>4, <2>2, <2>4, <2>5 DEF ChannelOK
  <2>7. CleanOK(c', Oup')
    BY <2>5 DEF CleanOK
  <2>8. /\ wr' \in Writes /\ Len(wr'.line) = Len(wr.line) - n
        /\ wr'.rest = wr.rest /\ wr'.width = wr.width
    BY <1>2, <1>7, <2>1, WroteOK DEF len
  <2>9. c'.offset + c'.next + Len(wr'.line) + 2 * Len(wr'.rest) <= MaxPos
    <3>1. Len(wr'.line) = len - n /\ 2 * Len(wr'.rest) = more
      BY <2>8 DEF len, more
    <3>2. c'.offset = ch.offset /\ c'.next = ch.next + n
      BY <2>5
    <3>3. ch.offset + (ch.next + n) + (len - n) + more <= MaxPos
      BY <1>5, <1>6, <1>7
    <3> QED BY <3>1, <3>2, <3>3
  <2>10. /\ pc = "write"
         /\ UNCHANGED <<acc, pc, rd, reply>>
         /\ wfaults' \in 0 .. MaxWriteFaults
         /\ wr'.width = 0 => wr'.rest = <<>>
    BY <1>2, <2>1, <2>8, WriteFacts DEF IInv, TypeOK
  <2> QED BY <1>3, <2>6, <2>7, <2>8, <2>9, <2>10, WriteOn
<1>10. CASE ~ok
  <2>1. c' = fsyncio(c) /\ Return(Failed)
    BY <1>1, <1>10
  <2>2. ChannelOK(c') /\ CleanOK(c', Oup') /\ (c'.dirty => Oup')
    BY <1>2, <2>1, SyncedOK
  <2> QED BY <1>2, <1>3, <2>1, <2>2, NothingOK, ReturnOK, IdleOK DEF IInv, TypeOK
<1> QED BY <1>9, <1>10

(* Whole buffers go past the buffer, straight to the file.                  *)
LEMMA WriteDirectInv ==
    ASSUME IInv, WriteDirect
    PROVE  IInv'
<1> DEFINE want == (Len(wr.line) \div Size) * Size
           ch   == [fsyncio(c) EXCEPT !.fill = 0]
<1>1. PICK n \in 0 .. want :
        /\ WriteTakes(n, want)
        /\ c' = [KWrite(ch, n, wr.line, 1) EXCEPT !.offset = @ + n, !.curpos = @ + n]
        /\ Return(Failed) \/ (Wrote(n) /\ UNCHANGED <<pc, rd, reply>>)
  BY DEF WriteDirect
<1>2. /\ pc = "write" /\ c.next = 0 /\ acc' = acc /\ rfaults' = rfaults
  BY DEF WriteDirect
<1>3. want \in 0 .. Len(wr.line)
  <2>1. want \in Nat /\ Len(wr.line) - want \in 0 .. Size - 1
    BY <1>2, WriteFacts, RoundDown
  <2> HIDE DEF want
  <2> QED BY <1>2, <2>1, WriteFacts
<1> HIDE DEF want
<1>4. n \in 0 .. Len(wr.line) /\ n \in Nat /\ wfaults' \in 0 .. MaxWriteFaults
  BY <1>1, <1>2, <1>3, WriteFacts, TakesOK
<1>5. /\ ch \in Channel /\ ch.kpos = c.offset /\ ch.curpos = c.offset
      /\ ch.offset = c.offset /\ ch.fill = 0 /\ ch.next = 0
  <2>1. /\ fsyncio(c) \in Channel /\ fsyncio(c).kpos = c.offset
        /\ fsyncio(c).curpos = c.offset /\ fsyncio(c).offset = c.offset
        /\ fsyncio(c).next = 0
    BY <1>2, FsyncOK DEF IInv
  <2>2. 0 \in 0 .. Size
    BY BufferAssumption
  <2> QED BY <2>1, <2>2 DEF Channel
<1> HIDE DEF ch
<1> DEFINE k == KWrite(ch, n, wr.line, 1)
<1>6. /\ k \in Channel /\ k.kpos = c.offset + n /\ k.curpos = c.offset
      /\ k.offset = c.offset /\ k.fill = 0 /\ k.next = 0
  <2>1. ch.kpos + n <= MaxPos
    BY <1>2, <1>4, <1>5, WriteFacts, SMTT(30)
  <2>2. PICK from \in Int : from = 1
    OBVIOUS
  <2> DEFINE line == wr.line
             written == KWrite(ch, n, line, from)
  <2>3. \A i \in 0 .. n - 1 : line[from + i] \in Byte
    BY <1>2, <1>4, <2>2, WriteFacts
  <2>4. k = written
    BY <2>2
  <2>5. ch \in Channel /\ n \in Nat /\ from \in Int
    BY <1>4, <1>5
  <2> HIDE DEF k, line
  <2>6. /\ written \in Channel /\ written.kpos = ch.kpos + n
        /\ written.curpos = ch.curpos /\ written.offset = ch.offset
        /\ written.fill = ch.fill /\ written.next = ch.next
    BY ONLY <2>1, <2>3, <2>5, KWriteOK
  <2> HIDE DEF written
  <2> QED BY <1>5, <2>4, <2>6
<1> HIDE DEF k
<1>7. /\ c' \in Channel /\ c'.kpos = c.offset + n /\ c'.curpos = c.offset + n
      /\ c'.offset = c.offset + n /\ c'.fill = 0 /\ c'.next = 0
  <2>1. c' = [k EXCEPT !.offset = @ + n, !.curpos = @ + n]
    BY <1>1 DEF k
  <2>2. c.offset + n \in Nat
    BY <1>2, <1>4, WriteFacts
  <2> QED BY <1>6, <2>1, <2>2 DEF Channel
<1>8. ChannelOK(c') /\ CleanOK(c', Oup') /\ (c'.dirty => Oup')
  <2>1. ChannelOK(c')
    BY <1>7 DEF ChannelOK
  <2>2. CleanOK(c', Oup')
    BY <1>7 DEF CleanOK, Agrees, Slots
  <2>3. Oup'
    BY <1>2, WriteFacts DEF Oup
  <2> QED BY <2>1, <2>2, <2>3
<1>9. CASE Return(Failed)
  BY <1>2, <1>4, <1>8, <1>9, NothingOK, ReturnOK, IdleOK DEF IInv, TypeOK
<1>10. CASE Wrote(n) /\ UNCHANGED <<pc, rd, reply>>
  <2>1. /\ wr' \in Writes /\ Len(wr'.line) = Len(wr.line) - n
        /\ wr'.rest = wr.rest /\ wr'.width = wr.width
    BY <1>2, <1>4, <1>10, WroteOK
  <2>2. c'.offset + c'.next + Len(wr'.line) + 2 * Len(wr'.rest) <= MaxPos
    BY <1>2, <1>4, <1>7, <2>1, WriteFacts
  <2> QED BY <1>2, <1>4, <1>8, <1>10, <2>1, <2>2, WriteFacts, WriteOn DEF IInv, TypeOK
<1> QED BY <1>1, <1>9, <1>10

(* The next line, or the end of the call.                                   *)
LEMMA WriteNextInv ==
    ASSUME IInv, WriteNext
    PROVE  IInv'
<1>1. /\ pc = "write" /\ wr.line = <<>> /\ c' = c /\ acc' = acc
      /\ wfaults' = wfaults /\ rfaults' = rfaults
  BY DEF WriteNext
<1>2. CleanOK(c', Oup') /\ ChannelOK(c') /\ (c'.dirty => Oup')
  BY <1>1 DEF IInv, CleanOK, Oup
<1>3. CASE wr.rest = <<>>
  <2>1. Return(Reply("ok", <<>>))
    BY <1>3 DEF WriteNext
  <2>2. Reply("ok", <<>>) \in Replies
    BY NothingOK, ReplyOK
  <2>3. pc' = "idle" /\ rd' \in Reads /\ wr' \in Writes /\ reply' \in Replies
    BY <2>1, <2>2, ReturnOK
  <2> QED BY <1>1, <1>2, <2>3, IdleOK DEF IInv, TypeOK
<1>4. CASE wr.rest # <<>>
  <2> DEFINE line == FirstLine(wr.rest, wr.width)
             rest == OtherLines(wr.rest, wr.width)
  <2>1. wr' = [wr EXCEPT !.line = line, !.rest = rest] /\ UNCHANGED <<pc, rd, reply>>
    BY <1>4 DEF WriteNext
  <2>2. /\ wr.width > 0 /\ wr.width \in Nat /\ wr.rest \in Seq(Byte)
        /\ wr \in Writes
    BY <1>1, <1>4, WriteFacts
  <2>3. /\ line \in Seq(Byte) /\ rest \in Seq(Byte)
        /\ Len(line) + 2 * Len(rest) <= 2 * Len(wr.rest)
    BY <1>4, <2>2, LinesOK
  <2> HIDE DEF line, rest
  <2>4. wr' \in Writes /\ wr'.line = line /\ wr'.rest = rest /\ wr'.width = wr.width
    BY <2>1, <2>2, <2>3 DEF Writes
  <2>5. Len(wr.line) = 0 /\ Len(line) \in Nat /\ Len(rest) \in Nat
    BY <1>1, <2>3
  <2>6. c'.offset + c'.next + Len(wr'.line) + 2 * Len(wr'.rest) <= MaxPos
    <3>1. /\ c.offset + c.next + 2 * Len(wr.rest) <= MaxPos
          /\ c.offset + c.next \in Nat /\ Len(wr.rest) \in Nat /\ MaxPos \in Nat
      BY <1>1, <2>2, <2>5, WriteFacts, BufferAssumption
    <3> DEFINE here == c.offset + c.next
    <3>2. c'.offset + c'.next = here
      BY <1>1
    <3> HIDE DEF here
    <3> QED BY <2>3, <2>4, <2>5, <3>1, <3>2 DEF here
  <2>7. wr'.width = 0 => wr'.rest = <<>>
    BY <2>2, <2>4
  <2>8. wfaults' \in 0 .. MaxWriteFaults /\ rfaults' \in 0 .. MaxReadFaults
    BY <1>1 DEF IInv, TypeOK
  <2>9. UNCHANGED <<acc, pc, rd, reply>> /\ pc = "write" /\ wr' \in Writes
    BY <1>1, <2>1, <2>4
  <2> QED BY <1>2, <2>6, <2>7, <2>8, <2>9, WriteOn
<1> QED BY <1>3, <1>4

-----------------------------------------------------------------------------
(* A step that changes nothing keeps the invariant.                         *)
LEMMA StutterInv == IInv /\ UNCHANGED vars => IInv'
  BY DEF vars, IInv, TypeOK, ChannelOK, CleanOK, Agrees, WriteOK, ReadOK, Inp, Oup

(* Every call and every turn of one keeps the invariant. *)
THEOREM NextInv == IInv /\ [Next]_vars => IInv'
<1> SUFFICES ASSUME IInv, [Next]_vars PROVE IInv'
  OBVIOUS
<1>1. CASE \E a \in Access : osopen(a)
  BY <1>1, OpenInv
<1>2. CASE osclose
  BY <1>2, CloseInv
<1>3. CASE \E off \in 0 .. MaxPos : zysst(off, 0)
  <2>1. PICK off \in Int, whence \in {0, 1, 2} : zysst(off, whence)
    BY <1>3, BufferAssumption
  <2> QED BY <2>1, SetInv
<1>4. CASE \E off \in {-1, 0, 1}, whence \in {1, 2} : zysst(off, whence)
  <2>1. PICK off \in Int, whence \in {0, 1, 2} : zysst(off, whence)
    BY <1>4
  <2> QED BY <2>1, SetInv
<1>5. CASE \E phase \in {"copy", "raw"}, max \in RecSizes : StartRead(phase, max)
  BY <1>5, StartReadInv
<1>6. CASE \E rec \in Records, width \in RecSizes \cup {0} : StartWrite(rec, width)
  BY <1>6, StartWriteInv
<1>7. CASE ReadTurn
  BY <1>7, RefillInv, CopyLineInv, DiscardLineInv, CopyRawInv DEF ReadTurn
<1>8. CASE WriteTurn
  BY <1>8, WriteFlushInv, WriteCopyInv, WriteDirectInv, WriteNextInv DEF WriteTurn
<1>9. CASE UNCHANGED vars
  BY <1>9, StutterInv
<1>10. CASE zysrw
  <2>1. zysst(0, 0)
    BY <1>10 DEF zysrw
  <2> QED BY <2>1, SetInv
<1> QED BY <1>1, <1>2, <1>3, <1>4, <1>5, <1>6, <1>7, <1>8, <1>9, <1>10 DEF Next, Call

(* The inductive invariant holds throughout, whatever fails (all of         *)
(* BufferedFile: osopen, osread, oswrite, doset and osclose).              *)
THEOREM Invariance == Spec => []IInv
<1> QED BY InitInv, NextInv, PTL DEF Spec

(* The types of the channel and of the calls on it. *)
THEOREM TypeCorrect == Spec => []TypeOK
<1>1. IInv => TypeOK
  BY DEF IInv
<1> QED BY <1>1, Invariance, PTL

(* curpos is where the descriptor is, the next byte is inside the buffer,  *)
(* and only a channel open for output has unwritten bytes: for every size  *)
(* of the buffer, every file and every order of calls and errors.          *)
THEOREM Window == Spec => []WindowInv
<1>1. IInv => WindowInv
  BY DEF IInv, ChannelOK, WindowInv
<1> QED BY <1>1, Invariance, PTL

(* A buffer that is not dirty agrees with the file. *)
THEOREM Clean == Spec => []CleanInv
<1>1. IInv => CleanInv
  BY DEF IInv, CleanOK, Agrees, CleanInv
<1> QED BY <1>1, Invariance, PTL

(* No read overruns its record. *)
THEOREM Fitting == Spec => []RecordFits
<1>1. IInv => RecordFits
  BY DEF IInv, ReadOK, WriteOK, RecordFits
<1> QED BY <1>1, Invariance, PTL
-----------------------------------------------------------------------------
(* What a step may do to the file.                                          *)
Keeps ==
    /\ ~Oup /\ acc' # "output" => UNCHANGED <<c.disk, c.eof>>
    /\ c'.eof < c.eof => acc = "closed" /\ acc' = "output"

(* A step that leaves the file alone, or lets a channel open for output add *)
(* to it.                                                                  *)
LEMMA KeepsOK ==
    ASSUME c.eof \in Nat, c'.eof \in Nat, c.eof <= c'.eof,
           ~Oup => c'.disk = c.disk /\ c'.eof = c.eof
    PROVE  Keeps
  BY DEF Keeps

LEMMA Lengths ==
    ASSUME IInv, [Next]_vars
    PROVE  c.eof \in Nat /\ c'.eof \in Nat
<1>1. IInv'
  BY NextInv
<1> QED BY <1>1, BufferAssumption DEF IInv, ChannelOK, Channel

LEMMA OpenKeeps ==
    ASSUME IInv, NEW a \in Access, osopen(a)
    PROVE  Keeps
<1>1. acc = "closed" /\ acc' = a
  BY DEF osopen
<1>2. CASE a = "output"
  BY <1>1, <1>2 DEF Keeps
<1>3. CASE a # "output"
  <2>1. PICK stale \in Stale, ok \in BOOLEAN : c' = OpenFile(a, stale, ok)
    BY DEF osopen
  <2>2. /\ stale \in [Slots -> Byte] /\ c.disk \in [Cells -> Byte] /\ c.eof \in 0 .. MaxPos
    BY FileAssumption DEF IInv, ChannelOK, Channel
  <2> DEFINE ch == Fresh(c.disk, c.eof, stale)
  <2>3. /\ ChannelOK(ch) /\ \A oup : CleanOK(ch, oup)
        /\ ~ch.dirty /\ ch.fill = 0 /\ ch.offset = 0 /\ ch.disk = c.disk /\ ch.eof = c.eof
    BY <2>2, FreshOK
  <2>4. c' = IF a = "append" THEN doset(ch, TRUE, 0, 2, 0, ok).c ELSE ch
    BY <1>3, <2>1 DEF OpenFile, Truncates
  <2> HIDE DEF ch
  <2>5. c'.disk = c.disk /\ c'.eof = c.eof
    <3>1. CASE a # "append"
      BY <2>3, <2>4, <3>1
    <3>2. CASE a = "append"
      <4> DEFINE oup == TRUE
      <4>1. 0 \in 0 .. Pending(ch)
        BY <2>3 DEF Pending
      <4>2. PICK off \in Int, whence \in {0, 1, 2}, n \in 0 .. Pending(ch) :
              off = 0 /\ whence = 2 /\ n = 0
        BY <4>1
      <4>3. PICK done : done = doset(ch, oup, off, whence, n, ok)
        OBVIOUS
      <4>4. c' = done.c
        BY <2>4, <3>2, <4>2, <4>3
      <4>5. ChannelOK(ch) /\ CleanOK(ch, oup) /\ oup \in BOOLEAN
        BY <2>3
      <4> HIDE DEF oup
      <4>6. whence = 2 /\ off = 0 /\ ch.fill = 0 /\ ch.offset = 0
        BY <2>3, <4>2
      <4>7. ~ch.dirty => done.c.disk = ch.disk /\ done.c.eof = ch.eof
        BY <4>3, <4>5, <4>6, DosetOK
      <4> QED BY <2>3, <4>4, <4>7
    <3> QED BY <3>1, <3>2
  <2>6. c.eof \in Nat
    BY BufferAssumption DEF IInv, ChannelOK, Channel
  <2> QED BY <2>5, <2>6, KeepsOK
<1> QED BY <1>2, <1>3

LEMMA CloseKeeps ==
    ASSUME IInv, osclose
    PROVE  c.eof <= c'.eof /\ (~Oup => c'.disk = c.disk /\ c'.eof = c.eof)
<1>1. PICK n \in 0 .. Size :
        /\ WriteTakes(n, Pending(c))
        /\ c' = LET ch == IF Oup THEN flush(c, n) ELSE c IN Closed(ch.disk, ch.eof)
  BY DEF osclose
<1>2. n \in 0 .. Pending(c)
  <2>1. Pending(c) \in Nat
    BY BufferAssumption DEF IInv, ChannelOK, Channel, Pending
  <2> QED BY <1>1, <2>1, TakesOK
<1> DEFINE ch == IF Oup THEN flush(c, n) ELSE c
<1>3. c' = Closed(ch.disk, ch.eof)
  BY <1>1
<1>4. c.eof \in Nat
  BY BufferAssumption DEF IInv, ChannelOK, Channel
<1>5. ChannelOK(ch) /\ c.eof <= ch.eof /\ (~Oup => ch = c)
  BY <1>2, <1>4, FlushOK DEF IInv
<1> HIDE DEF ch
<1>6. ch.disk \in [Cells -> Byte] /\ ch.eof \in 0 .. MaxPos
  BY <1>5 DEF ChannelOK, Channel
<1> QED BY <1>3, <1>5, <1>6, ClosedOK

LEMMA SetKeeps ==
    ASSUME IInv, NEW off \in Int, NEW whence \in {0, 1, 2}, zysst(off, whence)
    PROVE  c.eof <= c'.eof /\ (~Oup => c'.disk = c.disk /\ c'.eof = c.eof)
<1> DEFINE oup == Oup
<1>1. PICK n \in 0 .. Size, ok \in BOOLEAN :
        /\ WriteTakes(n, Pending(c))
        /\ doset(c, oup, off, whence, n, ok).ret <= MaxPos
        /\ c' = doset(c, oup, off, whence, n, ok).c
  BY DEF zysst
<1>2. n \in 0 .. Pending(c)
  <2>1. Pending(c) \in Nat
    BY BufferAssumption DEF IInv, ChannelOK, Channel, Pending
  <2> QED BY <1>1, <2>1, TakesOK
<1>3. oup \in BOOLEAN /\ (oup <=> Oup) /\ CleanOK(c, oup) /\ (c.dirty => oup)
  BY DEF Oup, IInv, CleanOK
<1> HIDE DEF oup
<1>4. PICK done : done = doset(c, oup, off, whence, n, ok)
  OBVIOUS
<1>5. done.ret <= MaxPos /\ c' = done.c
  BY <1>1, <1>4
<1>6. /\ c.eof <= done.c.eof
      /\ ~c.dirty => done.c.disk = c.disk /\ done.c.eof = c.eof
  BY <1>2, <1>3, <1>4, <1>5, DosetOK DEF IInv
<1> QED BY <1>3, <1>5, <1>6

LEMMA RefillKeeps ==
    ASSUME IInv, Refill
    PROVE  c.eof <= c'.eof /\ (~Oup => c'.disk = c.disk /\ c'.eof = c.eof)
<1>1. PICK n \in 0 .. Size :
        /\ WriteTakes(n, Pending(c))
        /\ c' \in {flush(c, n), fsyncio(flush(c, n)), fillbuf(flush(c, n))}
  BY DEF Refill
<1>2. n \in 0 .. Pending(c)
  <2>1. Pending(c) \in Nat
    BY BufferAssumption DEF IInv, ChannelOK, Channel, Pending
  <2> QED BY <1>1, <2>1, TakesOK
<1> DEFINE flushed == flush(c, n)
<1>3. /\ ChannelOK(flushed) /\ c.eof <= flushed.eof
      /\ ~c.dirty => flushed.disk = c.disk /\ flushed.eof = c.eof
  BY <1>2, FlushOK DEF IInv
<1>4. ~Oup => ~c.dirty
  BY DEF IInv
<1>5. c' \in {flushed, fsyncio(flushed), fillbuf(flushed)}
  BY <1>1
<1> HIDE DEF flushed
<1>6. c'.disk = flushed.disk /\ c'.eof = flushed.eof
  BY <1>3, <1>5, FsyncOK, FillOK
<1> QED BY <1>3, <1>4, <1>6

LEMMA WriteKeeps ==
    ASSUME IInv, WriteTurn
    PROVE  c.eof <= c'.eof /\ Oup
<1>1. pc = "write"
  BY DEF WriteTurn, WriteFlush, WriteCopy, WriteDirect, WriteNext
<1>2. Oup /\ c \in Channel /\ c.eof \in Nat
  BY <1>1, BufferAssumption DEF IInv, WriteOK, ChannelOK, Channel
<1>3. CASE WriteFlush
  <2>1. PICK n \in 0 .. Size : WriteTakes(n, Pending(c)) /\ c' = flush(c, n)
    BY <1>3 DEF WriteFlush
  <2>2. n \in 0 .. Pending(c)
    BY <1>1, <2>1, WriteFacts, TakesOK
  <2> QED BY <1>2, <2>1, <2>2, FlushOK DEF IInv
<1>4. CASE WriteCopy
  <2> DEFINE ch == IF c.fill = 0 /\ Inp THEN fillbuf(c) ELSE c
  <2>1. \/ c' = [ch EXCEPT !.buf = Copy(@, ch.next, Fits(ch), wr.line, 1),
                           !.next = @ + Fits(ch),
                           !.fill = Greatest(@, ch.next + Fits(ch)),
                           !.dirty = TRUE]
        \/ c' = fsyncio(c)
    BY <1>4 DEF WriteCopy
  <2>2. ch \in Channel /\ ch.eof = c.eof
    BY FillOK DEF IInv, ChannelOK
  <2>3. fsyncio(c).eof = c.eof
    BY FsyncOK DEF IInv
  <2> HIDE DEF ch
  <2>4. c'.eof = c.eof
    BY <2>1, <2>2, <2>3 DEF Channel
  <2> QED BY <1>2, <2>4
<1>5. CASE WriteDirect
  <2> DEFINE want == (Len(wr.line) \div Size) * Size
             ch   == [fsyncio(c) EXCEPT !.fill = 0]
  <2>1. PICK n \in 0 .. want :
          c' = [KWrite(ch, n, wr.line, 1) EXCEPT !.offset = @ + n, !.curpos = @ + n]
    BY <1>5 DEF WriteDirect
  <2>4. want \in Nat
    BY <1>1, WriteFacts, RoundDown
  <2> HIDE DEF want
  <2>5. n \in Nat
    BY <2>4
  <2>2. ch \in Channel /\ ch.eof = c.eof /\ ch.kpos \in Nat
    BY FsyncOK, BufferAssumption DEF IInv, Channel
  <2> HIDE DEF ch
  <2>3. c'.eof = IF n = 0 THEN ch.eof ELSE Greatest(ch.eof, ch.kpos + n)
    BY <2>1, <2>2, <2>5 DEF KWrite, Channel
  <2> QED BY <1>2, <2>2, <2>3, <2>5 DEF Greatest
<1>6. CASE WriteNext
  BY <1>2, <1>6 DEF WriteNext
<1> QED BY <1>2, <1>3, <1>4, <1>5, <1>6 DEF WriteTurn

LEMMA NextKeeps ==
    ASSUME IInv, Next
    PROVE  Keeps
<1>1. c.eof \in Nat /\ c'.eof \in Nat
  BY Lengths
<1>2. CASE \E a \in Access : osopen(a)
  BY <1>2, OpenKeeps
<1>3. CASE osclose
  BY <1>1, <1>3, CloseKeeps, KeepsOK
<1>4. CASE zysrw \/ (\E off \in 0 .. MaxPos : zysst(off, 0))
           \/ \E off \in {-1, 0, 1}, whence \in {1, 2} : zysst(off, whence)
  <2>1. PICK off \in Int, whence \in {0, 1, 2} : zysst(off, whence)
    BY <1>4, BufferAssumption DEF zysrw
  <2> QED BY <1>1, <2>1, SetKeeps, KeepsOK
<1>5. CASE (\E phase \in {"copy", "raw"}, max \in RecSizes : StartRead(phase, max))
           \/ \E rec \in Records, width \in RecSizes \cup {0} : StartWrite(rec, width)
  <2>1. c' = c
    BY <1>5 DEF StartRead, StartWrite
  <2> QED BY <1>1, <2>1, KeepsOK
<1>6. CASE Refill
  BY <1>1, <1>6, RefillKeeps, KeepsOK
<1>7. CASE CopyLine \/ DiscardLine \/ CopyRaw
  <2>1. PICK k : c' = [c EXCEPT !.next = k]
    BY <1>7 DEF CopyLine, DiscardLine, CopyRaw
  <2>2. c'.disk = c.disk /\ c'.eof = c.eof
    BY <2>1 DEF IInv, ChannelOK, Channel
  <2> QED BY <1>1, <2>2, KeepsOK
<1>8. CASE WriteTurn
  BY <1>1, <1>8, WriteKeeps, KeepsOK
<1> QED BY <1>2, <1>3, <1>4, <1>5, <1>6, <1>7, <1>8 DEF Next, Call, ReadTurn

(* A channel never changes a file it was not opened to write, and a file   *)
(* only gets shorter by being opened for output alone: whatever the        *)
(* program does and whatever fails (flush, doset, osread, osopen).         *)
THEOREM Untouched == Spec => WritesOnlyOutput
<1>1. IInv /\ [Next]_vars =>
        [/\ ~Oup /\ acc' # "output" => UNCHANGED <<c.disk, c.eof>>
         /\ c'.eof < c.eof => acc = "closed" /\ acc' = "output"]_vars
  BY NextKeeps DEF Keeps
<1> QED BY <1>1, Invariance, PTL DEF Spec, WritesOnlyOutput
-----------------------------------------------------------------------------
(* What remains is that a channel is a RecordFile, whatever is in its      *)
(* buffer.  First the records a write cuts into lines: FirstLine and        *)
(* OtherLines, over and over, give the lines that AsLines says.            *)
LEMMA Divided ==
    ASSUME NEW a \in Nat, NEW w \in Nat, w > 0
    PROVE  /\ a \div w \in Nat /\ a % w \in 0 .. w - 1
           /\ a = (a \div w) * w + (a % w)
  BY SMTT(30)

(* A product is smaller only when a factor is.                             *)
LEMMA Smaller ==
    ASSUME NEW q \in Nat, NEW p \in Nat, NEW w \in Nat, q * w < p * w
    PROVE  q < p
<1> SUFFICES ASSUME q >= p PROVE FALSE
  OBVIOUS
<1>1. PICK d \in Nat : q = p + d
  BY Z3
<1>2. q * w = p * w + d * w /\ d * w \in Nat /\ p * w \in Nat /\ q * w \in Nat
  BY <1>1, Z3
<1> QED BY <1>2

(* What is left over names the quotient.                                   *)
LEMMA Quotient ==
    ASSUME NEW q \in Nat, NEW w \in Nat, NEW r \in Nat, r < w
    PROVE  /\ (q * w + r) \div w = q
           /\ (q * w + r) % w = r
<1>1. PICK a \in Nat : a = q * w + r
  BY Z3
<1>2. PICK p \in Nat, s \in Nat : p = a \div w /\ s = a % w /\ s < w /\ a = p * w + s
  BY Divided
<1>3. q * w + r = p * w + s /\ q * w \in Nat /\ p * w \in Nat
  BY <1>1, <1>2, Z3
<1>4. q * w < (p + 1) * w /\ p * w < (q + 1) * w
  <2>1. (p + 1) * w = p * w + w /\ (q + 1) * w = q * w + w
    BY Z3
  <2> QED BY <1>2, <1>3, <2>1
<1>5. q < p + 1 /\ p < q + 1
  BY <1>4, Smaller
<1>6. p = q
  BY <1>5
<1> QED BY <1>1, <1>2, <1>3, <1>6

(* A number below the divisor is its own remainder.                         *)
LEMMA Small ==
    ASSUME NEW w \in Nat, NEW r \in Nat, r < w
    PROVE  r \div w = 0 /\ r % w = r
<1>1. 0 \in Nat /\ 0 * w + r = r
  OBVIOUS
<1>2. (0 * w + r) \div w = 0 /\ (0 * w + r) % w = r
  BY <1>1, Quotient
<1> QED BY <1>1, <1>2

(* A whole line further on, the same remainder.                            *)
LEMMA Shifted ==
    ASSUME NEW j \in Nat, NEW w \in Nat, w > 0
    PROVE  /\ (w + j) \div w = (j \div w) + 1
           /\ (w + j) % w = j % w
<1>1. PICK q \in Nat, r \in Nat : q = j \div w /\ r = j % w /\ r < w /\ j = q * w + r
  BY Divided
<1>2. PICK p \in Nat : p = q + 1
  OBVIOUS
<1>3. p * w = q * w + w /\ q * w \in Nat
  BY <1>2, Z3
<1>4. w + j = p * w + r
  BY <1>1, <1>3
<1>5. (p * w + r) \div w = p /\ (p * w + r) % w = r
  BY <1>1, Quotient
<1> QED BY <1>1, <1>2, <1>4, <1>5, Zenon

(* The byte of the record that a byte of its lines is.                     *)
LEMMA InRecord ==
    ASSUME NEW L \in Nat, L > 0, NEW w \in Nat, w > 0,
           NEW j \in Nat, 0 < j, j < L + (L + w - 1) \div w, j % (w + 1) # 0
    PROVE  j - (j - 1) \div (w + 1) \in 1 .. L
<1>1. PICK q \in Nat, r \in Nat :
        q = (j - 1) \div (w + 1) /\ r < w + 1 /\ j - 1 = q * (w + 1) + r
  BY Divided
<1>2. PICK d \in Nat : d = q * w
  BY Z3
<1>3. q * (w + 1) = d + q
  BY <1>2, Z3
<1>4. r # w
  <2> SUFFICES ASSUME r = w PROVE FALSE
    OBVIOUS
  <2>1. (q + 1) * (w + 1) = d + q + w + 1
    BY <1>2, Z3
  <2>2. j = (q + 1) * (w + 1) + 0
    BY <1>1, <1>3, <2>1
  <2>3. q + 1 \in Nat /\ w + 1 \in Nat /\ 0 \in Nat /\ 0 < w + 1
    OBVIOUS
  <2>4. ((q + 1) * (w + 1) + 0) % (w + 1) = 0
    BY <2>3, Quotient
  <2> QED BY <2>2, <2>4
<1>5. PICK e \in Nat, f \in Nat : e = (L + w - 1) \div w /\ L + w - 1 = e * w + f
  <2>1. L + w - 1 \in Nat
    OBVIOUS
  <2> QED BY <2>1, Divided
<1>6. PICK g \in Nat : g = e * w
  BY Z3
<1>7. ~(d + r >= L)
  <2> SUFFICES ASSUME d + r >= L PROVE FALSE
    OBVIOUS
  <2>1. g < d + 2 * w
    BY <1>1, <1>4, <1>5, <1>6
  <2>2. (q + 2) * w = d + 2 * w
    BY <1>2, Z3
  <2>3. e * w < (q + 2) * w
    BY <1>6, <2>1, <2>2
  <2>4. e < q + 2
    <3>1. q + 2 \in Nat
      OBVIOUS
    <3> QED BY <2>3, <3>1, Smaller
  <2>5. j = d + q + r + 1 /\ j < L + e
    BY <1>1, <1>3, <1>5
  <2> QED BY <2>4, <2>5
<1>8. j - q = d + r + 1
  <2>1. PICK h \in Nat : h = d + q /\ j - 1 = h + r
    BY <1>1, <1>3
  <2> QED BY <2>1
<1>9. j - q \in 1 .. L
  BY <1>7, <1>8
<1> QED BY <1>1, <1>9, Zenon

(* A record is a sequence of bytes when it is cut into lines, too.         *)
LEMMA LinesTyped ==
    ASSUME NEW rec \in Seq(Byte), rec # <<>>, NEW w \in Nat, w > 0
    PROVE  /\ LinesOf(rec, w) \in Seq(Byte)
           /\ Len(LinesOf(rec, w)) = Len(rec) + (Len(rec) + w - 1) \div w
<1>1. Len(rec) \in Nat /\ Len(rec) > 0
  OBVIOUS
<1>2. (Len(rec) + w - 1) \div w \in Nat
  <2>1. Len(rec) + w - 1 \in Nat
    BY <1>1
  <2> QED BY <2>1, Divided
<1>3. PICK total \in Nat : total = Len(rec) + (Len(rec) + w - 1) \div w
  BY <1>1, <1>2
<1>4. \A i \in 1 .. total :
        ~(i = total \/ i % (w + 1) = 0) => rec[i - (i - 1) \div (w + 1)] \in Byte
  <2> SUFFICES ASSUME NEW i \in 1 .. total, i # total, i % (w + 1) # 0
               PROVE  rec[i - (i - 1) \div (w + 1)] \in Byte
    OBVIOUS
  <2>1. i \in Nat /\ 0 < i /\ i < total
    BY <1>3
  <2>2. i - (i - 1) \div (w + 1) \in 1 .. Len(rec)
    BY <1>1, <1>3, <2>1, InRecord
  <2> QED BY <2>2
<1>5. LinesOf(rec, w) = [i \in 1 .. total |->
            IF i = total \/ i % (w + 1) = 0 THEN EOL
            ELSE rec[i - (i - 1) \div (w + 1)]]
  BY <1>3 DEF LinesOf
<1>6. LinesOf(rec, w) \in [1 .. total -> Byte]
  BY <1>4, <1>5, FileAssumption
<1> QED BY <1>3, <1>6

(* What is left to write of a record: the first line, and then the others. *)
After(line, rest, width) == IF rest = <<>> THEN line ELSE line \o LinesOf(rest, width)

(* The first line and the others, byte by byte.                            *)
LEMMA CutTyped ==
    ASSUME NEW rec \in Seq(Byte), NEW w \in Nat, w > 0
    PROVE  /\ FirstLine(rec, w) \in Seq(Byte) /\ OtherLines(rec, w) \in Seq(Byte)
           /\ Len(rec) <= w => /\ OtherLines(rec, w) = <<>>
                               /\ Len(FirstLine(rec, w)) = Len(rec) + 1
                               /\ \A i \in 1 .. Len(rec) : FirstLine(rec, w)[i] = rec[i]
                               /\ FirstLine(rec, w)[Len(rec) + 1] = EOL
           /\ Len(rec) > w => /\ Len(OtherLines(rec, w)) = Len(rec) - w
                              /\ \A i \in 1 .. Len(rec) - w : OtherLines(rec, w)[i] = rec[w + i]
                              /\ Len(FirstLine(rec, w)) = w + 1
                              /\ \A i \in 1 .. w : FirstLine(rec, w)[i] = rec[i]
                              /\ FirstLine(rec, w)[w + 1] = EOL
<1>1. Len(rec) \in Nat
  OBVIOUS
<1>2. PICK m \in Nat : m = Least(w, Len(rec)) /\ m <= Len(rec)
  BY <1>1 DEF Least
<1>3. PICK s \in Seq(Byte) : s = SubSeq(rec, 1, m) /\ Len(s) = m /\ \A i \in 1 .. m : s[i] = rec[i]
  <2>1. SubSeq(rec, 1, m) \in Seq(Byte) /\ Len(SubSeq(rec, 1, m)) = m
        /\ \A i \in 1 .. m : SubSeq(rec, 1, m)[i] = rec[i]
    BY <1>1, <1>2
  <2> QED BY <2>1
<1>4. <<EOL>> \in Seq(Byte) /\ Len(<<EOL>>) = 1 /\ <<EOL>>[1] = EOL
  BY FileAssumption
<1>5. FirstLine(rec, w) = s \o <<EOL>>
  <2>1. w # 0
    OBVIOUS
  <2>2. FirstLine(rec, w) = SubSeq(rec, 1, Least(w, Len(rec))) \o <<EOL>>
    BY <2>1, Zenon DEF FirstLine
  <2> QED BY <1>2, <1>3, <2>2, Zenon
<1>6. /\ FirstLine(rec, w) \in Seq(Byte) /\ Len(FirstLine(rec, w)) = m + 1
      /\ \A i \in 1 .. m : FirstLine(rec, w)[i] = rec[i]
      /\ FirstLine(rec, w)[m + 1] = EOL
  <2>1. PICK t \in Seq(Byte) : t = <<EOL>>
    BY <1>4
  <2>2. /\ s \o t \in Seq(Byte) /\ Len(s \o t) = m + 1
        /\ \A i \in 1 .. m + 1 : (s \o t)[i] = IF i <= m THEN s[i] ELSE t[i - m]
    BY <1>3, <1>4, <2>1, ConcatProperties
  <2>3. FirstLine(rec, w) = s \o t
    BY <1>5, <2>1
  <2>4. \A i \in 1 .. m : (s \o t)[i] = rec[i]
    BY <1>3, <2>2
  <2>5. (s \o t)[m + 1] = EOL
    BY <1>4, <2>1, <2>2
  <2> QED BY <2>2, <2>3, <2>4, <2>5
<1>7. OtherLines(rec, w) = SubSeq(rec, w + 1, Len(rec))
  BY DEF OtherLines
<1>8. CASE Len(rec) <= w
  <2>1. m = Len(rec)
    BY <1>1, <1>2, <1>8 DEF Least
  <2>2. OtherLines(rec, w) = <<>>
    BY <1>1, <1>7, <1>8, SubSeqEmpty
  <2> QED BY <1>1, <1>6, <1>8, <2>1, <2>2
<1>9. CASE Len(rec) > w
  <2>1. m = w
    BY <1>1, <1>2, <1>9 DEF Least
  <2>2. /\ SubSeq(rec, w + 1, Len(rec)) \in Seq(Byte)
        /\ Len(SubSeq(rec, w + 1, Len(rec))) = Len(rec) - w
        /\ \A i \in 1 .. Len(rec) - w : SubSeq(rec, w + 1, Len(rec))[i] = rec[w + i]
    BY <1>1, <1>9
  <2> QED BY <1>1, <1>6, <1>7, <1>9, <2>1, <2>2
<1> QED BY <1>1, <1>8, <1>9

(* The lines that oswrite cuts one after the other are those of AsLines.   *)
LEMMA AsLinesIs ==
    ASSUME NEW rec \in Seq(Byte), NEW w \in Nat, w > 0
    PROVE  /\ After(FirstLine(rec, w), OtherLines(rec, w), w) = File!AsLines(rec, w)
           /\ rec # <<>> => File!AsLines(rec, w) = LinesOf(rec, w)
           /\ File!AsLines(rec, w) \in Seq(Byte)
           /\ File!AsLines(rec, w) # <<>>
<1>1. Len(rec) \in Nat /\ (rec # <<>> => Len(rec) > 0) /\ (rec = <<>> => Len(rec) = 0)
  OBVIOUS
<1>2. PICK n \in Nat : n = Len(rec)
  BY <1>1
<1>3. PICK b \in Nat : b = IF rec = <<>> THEN 1 ELSE (n + w - 1) \div w
  <2>1. rec # <<>> => n + w - 1 \in Nat
    BY <1>1, <1>2
  <2> QED BY <2>1, Divided
<1>4. PICK total \in Nat : total = n + b
  OBVIOUS
<1>5. File!AsLines(rec, w) =
        [i \in 1 .. total |-> IF i = total \/ i % (w + 1) = 0 THEN EOL
                              ELSE rec[i - (i - 1) \div (w + 1)]]
  BY <1>2, <1>3, <1>4 DEF File!AsLines
<1>6. rec # <<>> => File!AsLines(rec, w) = LinesOf(rec, w)
  BY <1>2, <1>3, <1>4, <1>5 DEF LinesOf
<1>7. PICK f : f = FirstLine(rec, w)
  OBVIOUS
<1>8. PICK o : o = OtherLines(rec, w)
  OBVIOUS
<1>9. PICK lines : lines = File!AsLines(rec, w)
  OBVIOUS
<1>10. CASE n <= w
  <2>1. o = <<>> /\ f \in Seq(Byte) /\ Len(f) = n + 1 /\ f[n + 1] = EOL
        /\ \A i \in 1 .. n : f[i] = rec[i]
    BY <1>2, <1>7, <1>8, <1>10, CutTyped
  <2>2. b = 1
    <3>1. CASE rec = <<>>
      BY <1>3, <3>1
    <3>2. CASE rec # <<>>
      <4>1. PICK r \in Nat : r = n - 1 /\ r < w /\ n + w - 1 = 1 * w + r
        BY <1>1, <1>2, <1>10, <3>2
      <4>2. 1 \in Nat /\ (1 * w + r) \div w = 1
        BY <4>1, Quotient
      <4> QED BY <1>3, <3>2, <4>1, <4>2
    <3> QED BY <3>1, <3>2
  <2>3. total = n + 1
    BY <1>4, <2>2
  <2>4. \A i \in 1 .. n : i % (w + 1) # 0 /\ i - (i - 1) \div (w + 1) = i
    <3> SUFFICES ASSUME NEW i \in 1 .. n PROVE i % (w + 1) # 0 /\ i - (i - 1) \div (w + 1) = i
      OBVIOUS
    <3>1. /\ i \in Nat /\ i - 1 \in Nat /\ i < w + 1 /\ i - 1 < w + 1 /\ w + 1 \in Nat
          /\ 0 \in Nat /\ i = 0 * (w + 1) + i /\ i - 1 = 0 * (w + 1) + (i - 1) /\ i # 0
      BY <1>10
    <3>2. i % (w + 1) = i
      BY <3>1, Quotient
    <3>3. (i - 1) \div (w + 1) = 0
      BY <3>1, Quotient
    <3> QED BY <3>1, <3>2, <3>3
  <2>5. \A i \in 1 .. n + 1 : lines[i] = f[i]
    <3> SUFFICES ASSUME NEW i \in 1 .. n + 1 PROVE lines[i] = f[i]
      OBVIOUS
    <3>1. lines[i] = IF i = n + 1 \/ i % (w + 1) = 0 THEN EOL ELSE rec[i - (i - 1) \div (w + 1)]
      BY <1>5, <1>9, <2>3
    <3>2. CASE i = n + 1
      BY <2>1, <3>1, <3>2
    <3>3. CASE i # n + 1
      <4>1. i \in 1 .. n
        BY <3>3
      <4> QED BY <2>1, <2>4, <3>1, <3>3, <4>1
    <3> QED BY <3>2, <3>3
  <2>6. lines = [i \in 1 .. n + 1 |-> f[i]] /\ f = [i \in 1 .. n + 1 |-> f[i]]
    <3>1. lines = [i \in 1 .. n + 1 |-> lines[i]]
      BY <1>5, <1>9, <2>3
    <3> QED BY <2>1, <2>5, <3>1
  <2>7. After(f, o, w) = f
    BY <2>1 DEF After
  <2>8. lines = f /\ f # <<>>
    BY <2>1, <2>6
  <2> QED BY <1>6, <1>7, <1>8, <1>9, <2>1, <2>7, <2>8, Zenon
<1>11. CASE n > w
  <2>1. /\ o \in Seq(Byte) /\ Len(o) = n - w
        /\ \A i \in 1 .. n - w : o[i] = rec[w + i]
        /\ f \in Seq(Byte) /\ Len(f) = w + 1 /\ f[w + 1] = EOL
        /\ \A i \in 1 .. w : f[i] = rec[i]
    BY <1>2, <1>7, <1>8, <1>11, CutTyped
  <2>2. rec # <<>> /\ o # <<>> /\ w + 1 \in Nat /\ n - w \in Nat /\ n - w > 0
    BY <1>1, <1>2, <1>11, <2>1
  <2>3. PICK l \in Seq(Byte) : l = LinesOf(o, w) /\ Len(l) = Len(o) + (Len(o) + w - 1) \div w
    BY <2>1, <2>2, LinesTyped
  <2>4. PICK e \in Nat, g \in Nat : e = (n - 1) \div w /\ g < w /\ n - 1 = e * w + g
    <3>1. n - 1 \in Nat
      BY <2>2
    <3> QED BY <3>1, Divided
  <2>5. b = e + 1
    <3>1. n + w - 1 = (e + 1) * w + g /\ e + 1 \in Nat
      <4>1. (e + 1) * w = e * w + w /\ e * w \in Nat
        BY Z3
      <4> QED BY <2>4, <4>1
    <3>2. ((e + 1) * w + g) \div w = e + 1
      BY <2>4, <3>1, Quotient
    <3> QED BY <1>3, <2>2, <3>1, <3>2
  <2>6. PICK m \in Nat : m = n - w + e /\ Len(l) = m /\ total = w + 1 + m
    <3>1. Len(o) + w - 1 = n - 1
      BY <2>1, <2>2
    <3>2. Len(l) = n - w + e
      BY <2>1, <2>3, <2>4, <3>1
    <3>3. n - w + e \in Nat
      BY <2>2
    <3> QED BY <1>4, <2>5, <3>2, <3>3
  <2>7. l = [i \in 1 .. m |-> IF i = m \/ i % (w + 1) = 0 THEN EOL
                              ELSE o[i - (i - 1) \div (w + 1)]]
    <3>1. Len(o) + (Len(o) + w - 1) \div w = m
      BY <2>3, <2>6
    <3> QED BY <2>3, <3>1 DEF LinesOf
  <2>8. PICK x \in Nat : x = w + 1 /\ Len(f) = x /\ f[x] = EOL /\ total = x + m
                          /\ \A i \in 1 .. x : i # x => f[i] = rec[i]
    <3>1. \A i \in 1 .. w + 1 : i # w + 1 => i \in 1 .. w
      OBVIOUS
    <3> QED BY <2>1, <2>6, <3>1
  <2>9. PICK fl \in Seq(Byte) : fl = f \o l
    BY <2>1, <2>3, ConcatProperties
  <2>10. /\ Len(fl) = x + m
         /\ \A i \in 1 .. x : fl[i] = f[i]
         /\ \A j \in 1 .. m : fl[x + j] = l[j]
    <3>1. Len(f \o l) = Len(f) + Len(l)
      BY <2>1, <2>3, ConcatProperties
    <3>2. \A i \in 1 .. Len(f) + Len(l) :
             (f \o l)[i] = IF i <= Len(f) THEN f[i] ELSE l[i - Len(f)]
      BY <2>1, <2>3, ConcatProperties
    <3>3. Len(fl) = x + m /\ \A i \in 1 .. x + m : fl[i] = IF i <= x THEN f[i] ELSE l[i - x]
      BY <2>6, <2>8, <2>9, <3>1, <3>2, Zenon
    <3>4. \A j \in 1 .. m : x + j \in 1 .. x + m /\ ~(x + j <= x) /\ (x + j) - x = j
      OBVIOUS
    <3>5. \A i \in 1 .. x : i \in 1 .. x + m /\ i <= x
      OBVIOUS
    <3> QED BY <3>3, <3>4, <3>5
  <2>11. \A i \in 1 .. x + m : lines[i] = IF i = x + m \/ i % x = 0 THEN EOL
                                          ELSE rec[i - (i - 1) \div x]
    BY <1>5, <1>9, <2>8
  <2>12. \A j \in 1 .. m : l[j] = IF j = m \/ j % x = 0 THEN EOL
                                  ELSE o[j - (j - 1) \div x]
    BY <2>7, <2>8
  <2>13. m > 0
    BY <2>2, <2>6
  <2>14. \A i \in 1 .. x : lines[i] = fl[i]
    <3> SUFFICES ASSUME NEW i \in 1 .. x PROVE lines[i] = f[i]
      BY <2>10
    <3>1. i \in 1 .. x + m /\ i # x + m /\ 0 \in Nat /\ x > 0
      BY <2>13
    <3>2. CASE i = x
      <4>1. (x + 0) % x = 0 % x /\ x + 0 = x
        BY <3>1, Shifted
      <4>2. (0 * x + 0) % x = 0 /\ 0 * x + 0 = 0
        BY <3>1, Quotient
      <4>3. i % x = 0
        BY <3>2, <4>1, <4>2
      <4> QED BY <2>8, <2>11, <3>1, <3>2, <4>3
    <3>3. CASE i # x
      <4>1. /\ i \in Nat /\ i - 1 \in Nat /\ i < x /\ i - 1 < x
            /\ i = 0 * x + i /\ i - 1 = 0 * x + (i - 1) /\ i # 0
        BY <3>3
      <4>2. i % x = i
        BY <4>1, Small, Zenon
      <4>3. (i - 1) \div x = 0
        <5>1. PICK k \in Nat : k = i - 1 /\ k < x /\ 0 * x + k = k
          BY <4>1
        <5>2. (0 * x + k) \div x = 0
          BY <3>1, <5>1, Quotient
        <5> QED BY <5>1, <5>2
      <4>4. i - (i - 1) \div x = i
        BY <4>1, <4>3
      <4> QED BY <2>8, <2>11, <3>1, <3>3, <4>1, <4>2, <4>4
    <3> QED BY <3>2, <3>3
  <2>15. \A j \in 1 .. m : lines[x + j] = fl[x + j]
    <3> SUFFICES ASSUME NEW j \in 1 .. m PROVE lines[x + j] = l[j]
      BY <2>10
    <3>1. x + j \in 1 .. x + m /\ (x + j = x + m <=> j = m) /\ x > 0
          /\ j \in Nat /\ j - 1 \in Nat
      BY <2>8
    <3>2. (x + j) % x = j % x
      BY <3>1, Shifted
    <3>3. CASE j = m \/ j % x = 0
      BY <2>11, <2>12, <3>1, <3>2, <3>3
    <3>4. CASE j # m /\ j % x # 0
      <4>1. PICK p \in Nat : p = (j - 1) \div x
        BY <3>1, Divided
      <4>2. (x + (j - 1)) \div x = p + 1
        BY <3>1, <4>1, Shifted
      <4>3. x + (j - 1) = (x + j) - 1
        BY <3>1
      <4>4. lines[x + j] = rec[(x + j) - (p + 1)]
        BY <2>11, <3>1, <3>2, <3>4, <4>2, <4>3
      <4>5. j - p \in 1 .. n - w
        <5>1. 0 < j /\ j < (n - w) + ((n - w) + w - 1) \div w
          <6>1. (n - w) + w - 1 = n - 1
            BY <2>2
          <6>2. j < (n - w) + e
            BY <2>6, <3>1, <3>4
          <6> QED BY <2>4, <3>1, <6>1, <6>2
        <5>2. j - (j - 1) \div (w + 1) \in 1 .. n - w
          BY <2>2, <2>8, <3>1, <3>4, <5>1, InRecord
        <5> QED BY <2>8, <4>1, <5>2
      <4>6. w + (j - p) = (x + j) - (p + 1)
        BY <2>8, <3>1
      <4>7. l[j] = o[j - p]
        BY <2>12, <3>4, <4>1
      <4> QED BY <2>1, <4>4, <4>5, <4>6, <4>7
    <3> QED BY <3>3, <3>4
  <2>16. lines = fl
    <3>1. lines = [i \in 1 .. x + m |-> lines[i]]
      BY <1>5, <1>9, <2>8
    <3>2. fl = [i \in 1 .. x + m |-> fl[i]]
      <4>1. fl = [i \in 1 .. Len(fl) |-> fl[i]]
        OBVIOUS
      <4>2. Len(fl) = x + m
        BY <2>10
      <4> QED BY <4>1, <4>2, Zenon
    <3>3. \A i \in 1 .. x + m : lines[i] = fl[i]
      <4> SUFFICES ASSUME NEW i \in 1 .. x + m PROVE lines[i] = fl[i]
        OBVIOUS
      <4>1. CASE i <= x
        BY <2>14, <4>1
      <4>2. CASE i > x
        <5>1. PICK j \in 1 .. m : i = x + j
          <6>1. i - x \in 1 .. m /\ i = x + (i - x)
            BY <4>2
          <6> QED BY <6>1
        <5> QED BY <2>15, <5>1
      <4> QED BY <4>1, <4>2
    <3> QED BY <3>1, <3>2, <3>3
  <2>17. After(f, o, w) = fl
    BY <2>2, <2>3, <2>9 DEF After
  <2>18. fl # <<>>
    BY <2>10, <2>13
  <2> QED BY <1>6, <1>7, <1>8, <1>9, <2>9, <2>16, <2>17, <2>18, Zenon
<1> QED BY <1>10, <1>11

-----------------------------------------------------------------------------
(* The file that a channel ch stands for, u being what a write has still to *)
(* place: its bytes, its end and its virtual end.                          *)
Spot(ch) == ch.offset + ch.next

Held(ch, u) == (ch.dirty /\ ch.fill > 0) \/ u # <<>>

Bottom(ch, u) ==
    IF Held(ch, u) THEN Copy(ch.disk, ch.offset, ch.fill, ch.buf, 0) ELSE ch.disk

BottomEnd(ch, u) ==
    IF Held(ch, u) /\ ch.fill > 0 THEN Greatest(ch.eof, ch.offset + ch.fill) ELSE ch.eof

ContentOf(ch, u) ==
    IF u = <<>> THEN Bottom(ch, u) ELSE Copy(Bottom(ch, u), Spot(ch), Len(u), u, 1)

EndOf(ch, u) ==
    IF u = <<>> THEN BottomEnd(ch, u) ELSE Greatest(BottomEnd(ch, u), Spot(ch) + Len(u))

VirtualOf(ch, u) ==
    IF Held(ch, u) THEN EndOf(ch, u) ELSE Greatest(ch.eof, ch.offset + ch.fill)

(* What there is to read of it, up to the virtual end.                     *)
ShownOf(ch) ==
    [i \in 0 .. VirtualOf(ch, <<>>) - 1 |->
        IF i < EndOf(ch, <<>>) THEN ContentOf(ch, <<>>)[i]
        ELSE IF ch.offset <= i /\ i < ch.offset + ch.fill THEN ch.buf[i - ch.offset]
        ELSE NUL]

(* One byte of it: of the write, of the buffer or of the disk.             *)
Cell(ch, u, i) ==
    IF Spot(ch) <= i /\ i < Spot(ch) + Len(u) THEN u[i - Spot(ch) + 1]
    ELSE IF Held(ch, u) /\ ch.offset <= i /\ i < ch.offset + ch.fill
         THEN ch.buf[i - ch.offset]
    ELSE ch.disk[i]

(* The file of the refinement mapping, in the terms of this section.       *)
LEMMA Views ==
    /\ FileContent = ContentOf(c, Unwritten)
    /\ FileEnd = EndOf(c, Unwritten)
    /\ VirtualEnd = VirtualOf(c, Unwritten)
  BY DEF FileContent, FileEnd, VirtualEnd, Buffered, BufferedEnd, InUse, Here,
         ContentOf, EndOf, VirtualOf, Bottom, BottomEnd, Held, Spot

(* And after a step.                                                       *)
LEMMA ViewsNext ==
    /\ FileContent' = ContentOf(c', Unwritten')
    /\ FileEnd' = EndOf(c', Unwritten')
    /\ VirtualEnd' = VirtualOf(c', Unwritten')
  BY DEF FileContent, FileEnd, VirtualEnd, Buffered, BufferedEnd, InUse, Here,
         ContentOf, EndOf, VirtualOf, Bottom, BottomEnd, Held, Spot

(* The fields of a channel, in the terms arithmetic needs.                 *)
LEMMA Fields ==
    ASSUME NEW ch, ChannelOK(ch)
    PROVE  /\ ch.offset \in Nat /\ ch.fill \in 0 .. Size /\ ch.next \in 0 .. Size
           /\ ch.fill \in Nat /\ ch.next \in Nat /\ ch.next <= ch.fill
           /\ ch.eof \in 0 .. MaxPos /\ ch.eof \in Nat /\ Spot(ch) \in Nat
           /\ ch.disk \in [Cells -> Byte] /\ ch.buf \in [Slots -> Byte]
           /\ ch.dirty \in BOOLEAN
           /\ Size \in Nat /\ Size > 0 /\ MaxPos \in Nat
           /\ ch.fill > 0 => ch.offset + ch.fill <= MaxPos
<1>1. /\ ch.offset \in Nat /\ ch.fill \in 0 .. Size /\ ch.next \in 0 .. Size
      /\ ch.eof \in 0 .. MaxPos /\ ch.disk \in [Cells -> Byte]
      /\ ch.buf \in [Slots -> Byte] /\ ch.dirty \in BOOLEAN
  BY DEF ChannelOK, Channel
<1>2. Size \in Nat /\ Size > 0 /\ MaxPos \in Nat
  BY BufferAssumption
<1>3. ch.next <= ch.fill /\ (ch.fill > 0 => ch.offset + ch.fill <= MaxPos)
  BY DEF ChannelOK
<1>4. ch.fill \in Nat /\ ch.next \in Nat /\ ch.eof \in Nat
  BY <1>1, <1>2
<1>5. Spot(ch) \in Nat
  BY <1>1, <1>4 DEF Spot
<1> QED BY <1>1, <1>2, <1>3, <1>4, <1>5

(* Every cell of the file holds a byte.                                    *)
LEMMA CellTyped ==
    ASSUME NEW ch, ChannelOK(ch), NEW u \in Seq(Byte), NEW i \in Cells
    PROVE  Cell(ch, u, i) \in Byte
<1>1. i \in Int
  BY BufferAssumption DEF Cells
<1>2. Len(u) \in Nat
  OBVIOUS
<1>3. CASE Spot(ch) <= i /\ i < Spot(ch) + Len(u)
  <2>1. i - Spot(ch) + 1 \in 1 .. Len(u)
    BY <1>1, <1>2, <1>3, Fields
  <2> QED BY <1>3, <2>1 DEF Cell
<1>4. CASE ~(Spot(ch) <= i /\ i < Spot(ch) + Len(u)) /\ ch.offset <= i /\ i < ch.offset + ch.fill
  <2>1. i - ch.offset \in Slots
    BY <1>1, <1>4, Fields DEF Slots
  <2>2. ch.buf[i - ch.offset] \in Byte /\ ch.disk[i] \in Byte
    BY <2>1, Fields
  <2> QED BY <1>4, <2>2 DEF Cell
<1>5. CASE ~(Spot(ch) <= i /\ i < Spot(ch) + Len(u)) /\ ~(ch.offset <= i /\ i < ch.offset + ch.fill)
  <2>1. ch.disk[i] \in Byte
    BY Fields
  <2> QED BY <1>5, <2>1 DEF Cell
<1> QED BY <1>3, <1>4, <1>5

(* A copy, element by element. *)
LEMMA CopyAt ==
    ASSUME NEW dst, NEW at, NEW n, NEW src, NEW from, dst = [i \in Cells |-> dst[i]]
    PROVE  Copy(dst, at, n, src, from) =
             [i \in Cells |-> IF at <= i /\ i < at + n THEN src[from + (i - at)] ELSE dst[i]]
<1>1. DOMAIN dst = Cells
  OBVIOUS
<1> QED BY <1>1 DEF Copy

(* The file, byte by byte.                                                 *)
LEMMA ViewIs ==
    ASSUME NEW ch, ChannelOK(ch), NEW u \in Seq(Byte)
    PROVE  ContentOf(ch, u) = [i \in Cells |-> Cell(ch, u, i)]
<1>1. PICK b : b = Bottom(ch, u)
  OBVIOUS
<1>2. b = [i \in Cells |-> IF Held(ch, u) /\ ch.offset <= i /\ i < ch.offset + ch.fill
                           THEN ch.buf[i - ch.offset] ELSE ch.disk[i]]
  <2>1. ch.disk = [i \in Cells |-> ch.disk[i]]
    BY Fields
  <2>2. CASE Held(ch, u)
    <3>1. b = [i \in Cells |-> IF ch.offset <= i /\ i < ch.offset + ch.fill
                               THEN ch.buf[0 + (i - ch.offset)] ELSE ch.disk[i]]
      BY <1>1, <2>1, <2>2, CopyAt DEF Bottom
    <3>2. \A i \in Cells : 0 + (i - ch.offset) = i - ch.offset
      BY Fields, BufferAssumption DEF Cells
    <3> QED BY <2>2, <3>1, <3>2
  <2>3. CASE ~Held(ch, u)
    BY <1>1, <2>1, <2>3 DEF Bottom
  <2> QED BY <2>2, <2>3
<1>3. CASE u = <<>>
  <2>1. ContentOf(ch, u) = b
    BY <1>1, <1>3 DEF ContentOf
  <2>2. \A i \in Cells : ~(Spot(ch) <= i /\ i < Spot(ch) + Len(u))
    <3>1. Len(u) = 0
      BY <1>3
    <3> QED BY <3>1, Fields, BufferAssumption DEF Cells
  <2> QED BY <1>2, <2>1, <2>2 DEF Cell
<1>4. CASE u # <<>>
  <2>1. b = [i \in Cells |-> b[i]]
    BY <1>2
  <2>2. ContentOf(ch, u) = Copy(b, Spot(ch), Len(u), u, 1)
    BY <1>1, <1>4 DEF ContentOf
  <2>3. ContentOf(ch, u) = [i \in Cells |-> IF Spot(ch) <= i /\ i < Spot(ch) + Len(u)
                                            THEN u[1 + (i - Spot(ch))] ELSE b[i]]
    BY <2>1, <2>2, CopyAt
  <2>4. \A i \in Cells : 1 + (i - Spot(ch)) = i - Spot(ch) + 1
    BY Fields, BufferAssumption DEF Cells
  <2> QED BY <1>2, <2>3, <2>4 DEF Cell
<1> QED BY <1>3, <1>4

(* The file is one: bytes, and two ends.                                   *)
LEMMA ViewTyped ==
    ASSUME NEW ch, ChannelOK(ch), NEW u \in Seq(Byte)
    PROVE  /\ ContentOf(ch, u) \in [Cells -> Byte]
           /\ EndOf(ch, u) \in Nat /\ VirtualOf(ch, u) \in Nat
           /\ ch.eof <= EndOf(ch, u)
<1>1. ContentOf(ch, u) \in [Cells -> Byte]
  BY ViewIs, CellTyped
<1>2. PICK e \in Nat : e = BottomEnd(ch, u) /\ ch.eof <= e
  <2>1. BottomEnd(ch, u) \in Nat /\ ch.eof <= BottomEnd(ch, u)
    BY Fields DEF BottomEnd, Greatest
  <2> QED BY <2>1
<1>3. EndOf(ch, u) \in Nat /\ ch.eof <= EndOf(ch, u)
  <2>1. Len(u) \in Nat
    OBVIOUS
  <2> QED BY <1>2, <2>1, Fields DEF EndOf, Greatest
<1>4. VirtualOf(ch, u) \in Nat
  BY <1>3, Fields DEF VirtualOf, Greatest
<1> QED BY <1>1, <1>3, <1>4

(* Two channels whose cells are the same stand for the same bytes.         *)
LEMMA SameView ==
    ASSUME NEW ch, ChannelOK(ch), NEW u \in Seq(Byte),
           NEW ch2, ChannelOK(ch2), NEW u2 \in Seq(Byte),
           \A i \in Cells : Cell(ch2, u2, i) = Cell(ch, u, i)
    PROVE  ContentOf(ch2, u2) = ContentOf(ch, u)
<1>1. ContentOf(ch, u) = [i \in Cells |-> Cell(ch, u, i)]
  BY ViewIs
<1>2. ContentOf(ch2, u2) = [i \in Cells |-> Cell(ch2, u2, i)]
  BY ViewIs
<1> QED BY <1>1, <1>2

(* With nothing to write and nothing unwritten, it is the file on disk.    *)
LEMMA CleanView ==
    ASSUME NEW ch, ChannelOK(ch), ~ch.dirty \/ ch.fill = 0
    PROVE  /\ ContentOf(ch, <<>>) = ch.disk
           /\ EndOf(ch, <<>>) = ch.eof
           /\ VirtualOf(ch, <<>>) = Greatest(ch.eof, ch.offset + ch.fill)
<1>1. ~Held(ch, <<>>)
  BY DEF Held
<1> QED BY <1>1 DEF ContentOf, EndOf, VirtualOf, Bottom, BottomEnd

(* The next byte is never beyond the virtual end.                          *)
LEMMA SpotBelow ==
    ASSUME NEW ch, ChannelOK(ch)
    PROVE  /\ Spot(ch) <= VirtualOf(ch, <<>>)
           /\ ch.offset + ch.fill <= VirtualOf(ch, <<>>)
           /\ EndOf(ch, <<>>) <= VirtualOf(ch, <<>>)
<1>1. CASE ch.dirty /\ ch.fill > 0
  <2>1. VirtualOf(ch, <<>>) = Greatest(ch.eof, ch.offset + ch.fill)
        /\ EndOf(ch, <<>>) = Greatest(ch.eof, ch.offset + ch.fill)
    BY <1>1 DEF VirtualOf, EndOf, BottomEnd, Held
  <2> QED BY <2>1, Fields DEF Spot, Greatest
<1>2. CASE ~(ch.dirty /\ ch.fill > 0)
  <2>1. VirtualOf(ch, <<>>) = Greatest(ch.eof, ch.offset + ch.fill)
        /\ EndOf(ch, <<>>) = ch.eof
    BY <1>2 DEF VirtualOf, EndOf, BottomEnd, Held
  <2> QED BY <2>1, Fields DEF Spot, Greatest
<1> QED BY <1>1, <1>2

(* What the buffer holds is what there is to read.                         *)
LEMMA BufferShows ==
    ASSUME NEW ch, ChannelOK(ch), ~ch.dirty => Agrees(ch),
           NEW i \in Nat, i < ch.fill
    PROVE  /\ ch.offset + i < VirtualOf(ch, <<>>)
           /\ ShownOf(ch)[ch.offset + i] = ch.buf[i]
<1>1. i \in Slots /\ ch.offset + i \in Cells /\ ch.offset + i \in Nat /\ ch.fill > 0
  BY Fields DEF Slots, Cells
<1>2. PICK e \in Nat, v \in Nat : /\ e = EndOf(ch, <<>>) /\ v = VirtualOf(ch, <<>>)
                                 /\ ch.offset + ch.fill <= v
  <2>1. EndOf(ch, <<>>) \in Nat /\ VirtualOf(ch, <<>>) \in Nat
    <3>1. <<>> \in Seq(Byte)
      OBVIOUS
    <3> QED BY <3>1, ViewTyped
  <2> QED BY <2>1, SpotBelow
<1>3. PICK j \in Nat, o \in Nat, f \in Nat :
        j = ch.offset + i /\ j \in Cells /\ o = ch.offset /\ f = ch.fill
  BY <1>1, Fields
<1>4. j < v /\ o <= j /\ j < o + f /\ j - o = i
  BY <1>2, <1>3
<1>5. ShownOf(ch)[j] = IF j < e THEN ContentOf(ch, <<>>)[j] ELSE ch.buf[i]
  <2>1. j \in 0 .. v - 1
    BY <1>4
  <2>2. ShownOf(ch) = [k \in 0 .. v - 1 |->
                          IF k < e THEN ContentOf(ch, <<>>)[k]
                          ELSE IF o <= k /\ k < o + f THEN ch.buf[k - o] ELSE NUL]
    BY <1>2, <1>3 DEF ShownOf
  <2> QED BY <1>4, <2>1, <2>2
<1>6. ASSUME j < e PROVE ContentOf(ch, <<>>)[j] = ch.buf[i]
  <2>1. CASE ch.dirty
    <3>1. Held(ch, <<>>)
      BY <1>1, <2>1 DEF Held
    <3>2. PICK u \in Seq(Byte) : u = <<>> /\ Len(u) = 0
      <4>1. <<>> \in Seq(Byte) /\ Len(<<>>) = 0
        OBVIOUS
      <4> QED BY <4>1
    <3>3. Cell(ch, u, j) = ch.buf[j - ch.offset]
      <4>1. ~(Spot(ch) <= j /\ j < Spot(ch) + Len(u)) /\ ch.offset <= j /\ j < ch.offset + ch.fill
        BY <1>3, <1>4, <3>2, Fields
      <4> QED BY <3>1, <3>2, <4>1 DEF Cell
    <3>4. ContentOf(ch, u)[j] = Cell(ch, u, j)
      BY <1>3, ViewIs
    <3> QED BY <1>3, <1>4, <3>2, <3>3, <3>4
  <2>2. CASE ~ch.dirty
    <3>1. ContentOf(ch, <<>>) = ch.disk /\ EndOf(ch, <<>>) = ch.eof
      BY <2>2, CleanView
    <3> QED BY <1>1, <1>2, <1>3, <1>6, <2>2, <3>1 DEF Agrees
  <2> QED BY <2>1, <2>2, Fields
<1> QED BY <1>2, <1>3, <1>4, <1>5, <1>6

(* Below the end of the file it is what the file holds, and beyond it some *)
(* bytes.                                                                  *)
LEMMA ShownIs ==
    ASSUME NEW ch, ChannelOK(ch),
           NEW e, e = EndOf(ch, <<>>), NEW v, v = VirtualOf(ch, <<>>)
    PROVE  \E beyond \in [e .. v - 1 -> Byte] :
              ShownOf(ch) = [i \in 0 .. v - 1 |->
                                IF i < e THEN ContentOf(ch, <<>>)[i] ELSE beyond[i]]
<1>1. e \in Nat /\ v \in Nat
  <2>1. <<>> \in Seq(Byte)
    OBVIOUS
  <2> QED BY <2>1, ViewTyped
<1>2. PICK o \in Nat, f \in Nat : o = ch.offset /\ f = ch.fill /\ f <= Size
  BY Fields
<1>3. PICK b \in [Slots -> Byte] : b = ch.buf
  BY Fields
<1>4. PICK beyond : beyond = [i \in e .. v - 1 |->
                                IF o <= i /\ i < o + f THEN b[i - o] ELSE NUL]
  OBVIOUS
<1>5. beyond \in [e .. v - 1 -> Byte]
  <2>1. ASSUME NEW i \in e .. v - 1
        PROVE  (IF o <= i /\ i < o + f THEN b[i - o] ELSE NUL) \in Byte
    <3>1. CASE o <= i /\ i < o + f
      <4>1. i - o \in Slots
        BY <1>1, <1>2, <3>1, BufferAssumption DEF Slots
      <4>2. b[i - o] \in Byte
        BY <4>1
      <4> QED BY <3>1, <4>2
    <3>2. CASE ~(o <= i /\ i < o + f)
      BY <3>2, BufferAssumption
    <3> QED BY <3>1, <3>2
  <2> QED BY <1>4, <2>1
<1>6. \A i \in 0 .. v - 1 : ~(i < e) =>
         beyond[i] = IF o <= i /\ i < o + f THEN b[i - o] ELSE NUL
  <2>1. \A i \in 0 .. v - 1 : ~(i < e) => i \in e .. v - 1
    BY <1>1
  <2> QED BY <1>4, <2>1
<1>7. ShownOf(ch) = [i \in 0 .. v - 1 |->
                        IF i < e THEN ContentOf(ch, <<>>)[i]
                        ELSE IF o <= i /\ i < o + f THEN b[i - o] ELSE NUL]
  BY <1>2, <1>3 DEF ShownOf
<1>8. ShownOf(ch) = [i \in 0 .. v - 1 |->
                        IF i < e THEN ContentOf(ch, <<>>)[i] ELSE beyond[i]]
  BY <1>6, <1>7
<1> QED BY <1>5, <1>8

-----------------------------------------------------------------------------
(* What the four routines do to the file.                                   *)
(* A flush that reports no error has written what was not yet there.       *)
LEMMA FlushIs ==
    ASSUME NEW ch, ChannelOK(ch), NEW n, n = Pending(ch)
    PROVE  /\ \A i \in Cells : flush(ch, n).disk[i] =
                 IF ch.dirty /\ ch.offset <= i /\ i < ch.offset + ch.fill
                 THEN ch.buf[i - ch.offset] ELSE ch.disk[i]
           /\ flush(ch, n).eof = IF ch.dirty /\ ch.fill > 0
                                 THEN Greatest(ch.eof, ch.offset + ch.fill) ELSE ch.eof
<1>1. CASE ch.dirty
  <2> DEFINE s == fsyncio(ch)
             k == KWrite(s, n, ch.buf, 0)
             w == IF ch.fill = 0 THEN s ELSE [k EXCEPT !.curpos = @ + n]
  <2>1. n = ch.fill
    BY <1>1 DEF Pending
  <2>2. /\ s \in Channel /\ s.kpos = ch.offset /\ s.disk = ch.disk /\ s.eof = ch.eof
    BY FsyncOK
  <2>3. flush(ch, n) = [[w EXCEPT !.dirty = FALSE]
                          EXCEPT !.offset = @ + ch.fill, !.next = 0, !.fill = 0]
    BY <1>1 DEF flush
  <2>4. CASE ch.fill = 0
    <3>1. w = s
      BY <2>4
    <3> HIDE DEF w, s
    <3>2. flush(ch, n).disk = ch.disk /\ flush(ch, n).eof = ch.eof
      BY <2>2, <2>3, <3>1 DEF Channel
    <3>3. \A i \in Cells : ~(ch.offset <= i /\ i < ch.offset + ch.fill)
      BY <2>4, Fields, BufferAssumption DEF Cells
    <3> QED BY <2>4, <3>2, <3>3
  <2>5. CASE ch.fill # 0
    <3>1. w = [k EXCEPT !.curpos = @ + n]
      BY <2>5
    <3>2. k = [s EXCEPT !.disk = Copy(s.disk, s.kpos, n, ch.buf, 0),
                        !.eof  = IF n = 0 THEN @ ELSE Greatest(@, s.kpos + n),
                        !.kpos = @ + n]
      BY DEF KWrite
    <3> HIDE DEF w, k, s
    <3>3. k.disk = Copy(s.disk, s.kpos, n, ch.buf, 0)
          /\ k.eof = IF n = 0 THEN s.eof ELSE Greatest(s.eof, s.kpos + n)
      BY <2>2, <3>2 DEF Channel
    <3>4. DOMAIN k = DOMAIN s
      BY <3>2
    <3>5. w.disk = k.disk /\ w.eof = k.eof /\ DOMAIN w = DOMAIN s
      BY <2>2, <3>1, <3>2 DEF Channel
    <3>6. flush(ch, n).disk = w.disk /\ flush(ch, n).eof = w.eof
      BY <2>2, <2>3, <3>5 DEF Channel
    <3>7. flush(ch, n).eof = Greatest(ch.eof, ch.offset + ch.fill)
      BY <2>1, <2>2, <2>5, <3>3, <3>5, <3>6
    <3>8. \A i \in Cells : flush(ch, n).disk[i] =
                 IF ch.offset <= i /\ i < ch.offset + ch.fill
                 THEN ch.buf[i - ch.offset] ELSE ch.disk[i]
      <4>1. ch.disk = [i \in Cells |-> ch.disk[i]]
        BY Fields
      <4>2. flush(ch, n).disk = Copy(ch.disk, ch.offset, ch.fill, ch.buf, 0)
        BY <2>1, <2>2, <3>3, <3>5, <3>6
      <4>3. flush(ch, n).disk = [i \in Cells |->
               IF ch.offset <= i /\ i < ch.offset + ch.fill
               THEN ch.buf[0 + (i - ch.offset)] ELSE ch.disk[i]]
        BY <4>1, <4>2, CopyAt
      <4>4. \A i \in Cells : 0 + (i - ch.offset) = i - ch.offset
        BY Fields, BufferAssumption DEF Cells
      <4> QED BY <4>3, <4>4
    <3> QED BY <1>1, <2>5, <3>7, <3>8, Fields
  <2> QED BY <2>4, <2>5
<1>2. CASE ~ch.dirty
  <2>1. n = 0
    BY <1>2 DEF Pending
  <2>2. n \in 0 .. Pending(ch)
    BY <1>2, <2>1 DEF Pending
  <2>3. flush(ch, n).disk = ch.disk /\ flush(ch, n).eof = ch.eof
    BY <1>2, <2>2, FlushOK
  <2> QED BY <1>2, <2>3
<1> QED BY <1>1, <1>2

(* The file is the same before a flush and after it, also in the middle of *)
(* a write, where the next byte goes behind all the buffer holds.           *)
LEMMA FlushView ==
    ASSUME NEW ch, ChannelOK(ch), ~ch.dirty => Agrees(ch), NEW n, n = Pending(ch),
           NEW u \in Seq(Byte), NEW ch2, ch2 = flush(ch, n),
           u # <<>> => /\ ch.next = ch.fill
                       /\ ~ch.dirty => ch.offset + ch.fill <= ch.eof
    PROVE  /\ ContentOf(ch2, u) = ContentOf(ch, u)
           /\ EndOf(ch2, u) = EndOf(ch, u)
           /\ u # <<>> => VirtualOf(ch2, u) = VirtualOf(ch, u)
           /\ u = <<>> => ch2.eof = EndOf(ch, u) /\ ch2.disk = ContentOf(ch, u)
<1>1. n \in 0 .. Pending(ch)
  BY Fields DEF Pending
<1>2. /\ ChannelOK(ch2) /\ ch2.fill = 0 /\ ch2.next = 0 /\ ~ch2.dirty
      /\ ch2.offset = ch.offset + ch.fill
  BY <1>1, FlushOK
<1>3. /\ \A i \in Cells : ch2.disk[i] =
                 IF ch.dirty /\ ch.offset <= i /\ i < ch.offset + ch.fill
                 THEN ch.buf[i - ch.offset] ELSE ch.disk[i]
      /\ ch2.eof = IF ch.dirty /\ ch.fill > 0
                   THEN Greatest(ch.eof, ch.offset + ch.fill) ELSE ch.eof
  BY FlushIs
<1>4. \A i \in Cells : i \in Int
  BY BufferAssumption DEF Cells
<1>5. \A i \in Cells : ~(ch2.offset <= i /\ i < ch2.offset + ch2.fill)
  BY <1>2, <1>4, Fields
<1>6. CASE u = <<>>
  <2>1. Len(u) = 0
    BY <1>6
  <2>2. \A i \in Cells : ~(Spot(ch) <= i /\ i < Spot(ch) + Len(u))
                         /\ ~(Spot(ch2) <= i /\ i < Spot(ch2) + Len(u))
    BY <1>2, <1>4, <2>1, Fields
  <2>3. \A i \in Cells : ch.offset <= i /\ i < ch.offset + ch.fill => ch.fill > 0
    BY <1>4, Fields
  <2>4. \A i \in Cells : Cell(ch2, u, i) = Cell(ch, u, i)
    <3>1. \A i \in Cells : Cell(ch2, u, i) = ch2.disk[i]
      BY <1>5, <2>2 DEF Cell
    <3>2. \A i \in Cells : Cell(ch, u, i) =
             IF ch.dirty /\ ch.offset <= i /\ i < ch.offset + ch.fill
             THEN ch.buf[i - ch.offset] ELSE ch.disk[i]
      BY <1>6, <2>2, <2>3 DEF Cell, Held
    <3> QED BY <1>3, <3>1, <3>2
  <2>5. ContentOf(ch2, u) = ContentOf(ch, u)
    BY <1>2, <2>4, SameView
  <2>6. ContentOf(ch2, u) = ch2.disk /\ EndOf(ch2, u) = ch2.eof
    BY <1>2, <1>6, CleanView
  <2>7. EndOf(ch, u) = ch2.eof
    BY <1>3, <1>6 DEF EndOf, BottomEnd, Held
  <2> QED BY <1>6, <2>5, <2>6, <2>7
<1>7. CASE u # <<>>
  <2>1. Held(ch, u) /\ Held(ch2, u) /\ Spot(ch2) = Spot(ch)
    BY <1>2, <1>7, Fields DEF Held, Spot
  <2>2. \A i \in Cells : Cell(ch2, u, i) = Cell(ch, u, i)
    <3> SUFFICES ASSUME NEW i \in Cells PROVE Cell(ch2, u, i) = Cell(ch, u, i)
      OBVIOUS
    <3>1. CASE Spot(ch) <= i /\ i < Spot(ch) + Len(u)
      BY <2>1, <3>1 DEF Cell
    <3>2. CASE ~(Spot(ch) <= i /\ i < Spot(ch) + Len(u))
      <4>1. Cell(ch2, u, i) = ch2.disk[i]
        BY <1>5, <2>1, <3>2 DEF Cell
      <4>2. Cell(ch, u, i) = IF ch.offset <= i /\ i < ch.offset + ch.fill
                             THEN ch.buf[i - ch.offset] ELSE ch.disk[i]
        BY <2>1, <3>2 DEF Cell
      <4>3. ~ch.dirty /\ ch.offset <= i /\ i < ch.offset + ch.fill
              => ch.buf[i - ch.offset] = ch.disk[i]
        <5> SUFFICES ASSUME ~ch.dirty, ch.offset <= i, i < ch.offset + ch.fill
                     PROVE  ch.buf[i - ch.offset] = ch.disk[i]
          OBVIOUS
        <5>1. PICK j \in Slots : j = i - ch.offset /\ j < ch.fill /\ ch.offset + j = i
                                 /\ ch.offset + j < ch.eof
          <6>1. ch.offset + ch.fill <= ch.eof
            BY <1>7
          <6>2. i - ch.offset \in Slots /\ i - ch.offset < ch.fill
                /\ ch.offset + (i - ch.offset) = i /\ i < ch.eof
            BY <1>4, <6>1, Fields DEF Slots
          <6> QED BY <6>2
        <5> QED BY <5>1 DEF Agrees
      <4> QED BY <1>3, <4>1, <4>2, <4>3
    <3> QED BY <3>1, <3>2
  <2>3. ContentOf(ch2, u) = ContentOf(ch, u)
    BY <1>2, <2>2, SameView
  <2>4. EndOf(ch2, u) = Greatest(ch2.eof, Spot(ch) + Len(u))
    BY <1>2, <1>7, <2>1 DEF EndOf, BottomEnd
  <2>5. EndOf(ch, u) = Greatest(IF ch.fill > 0 THEN Greatest(ch.eof, ch.offset + ch.fill)
                                ELSE ch.eof, Spot(ch) + Len(u))
    BY <1>7, <2>1 DEF EndOf, BottomEnd
  <2>6. (IF ch.fill > 0 THEN Greatest(ch.eof, ch.offset + ch.fill) ELSE ch.eof) = ch2.eof
    <3>1. CASE ch.dirty
      BY <1>3, <3>1
    <3>2. CASE ~ch.dirty
      <4>1. ch.offset + ch.fill <= ch.eof
        BY <1>7, <3>2
      <4> QED BY <1>3, <3>2, <4>1, Fields DEF Greatest
    <3> QED BY <3>1, <3>2
  <2>7. EndOf(ch2, u) = EndOf(ch, u)
    BY <2>4, <2>5, <2>6
  <2> QED BY <1>7, <2>1, <2>3, <2>7 DEF VirtualOf
<1> QED BY <1>6, <1>7

(* read() returns nothing only at the end of the file.                     *)
LEMMA FillLast ==
    ASSUME NEW ch, ChannelOK(ch), fillbuf(ch).fill = 0
    PROVE  ch.eof <= ch.offset
<1> DEFINE s == fsyncio(ch)
           n == Readable(s)
<1>1. /\ s \in Channel /\ s.kpos = ch.offset /\ s.eof = ch.eof
  BY FsyncOK
<1>2. n = Greatest(0, Least(Size, ch.eof - ch.offset))
  BY <1>1 DEF Readable
<1>3. fillbuf(ch) = [s EXCEPT !.buf = Copy(@, 0, n, s.disk, s.kpos),
                              !.next = 0, !.fill = n,
                              !.curpos = @ + n, !.kpos = @ + n]
  BY DEF fillbuf
<1> HIDE DEF s, n
<1>4. fillbuf(ch).fill = n
  BY <1>1, <1>3 DEF Channel
<1> QED BY <1>2, <1>4, Fields DEF Greatest, Least

(* Only what read() has returned fills a clean buffer to its last byte.    *)
WholeOK(ch) == ~ch.dirty /\ ch.fill = Size => ch.offset + Size <= ch.eof

(* A flush of all there is leaves in the file what the channel showed.      *)
LEMMA WholeFlush ==
    ASSUME NEW ch, ChannelOK(ch), ~ch.dirty => Agrees(ch)
    PROVE  /\ flush(ch, Pending(ch)).eof = EndOf(ch, <<>>)
           /\ flush(ch, Pending(ch)).disk = ContentOf(ch, <<>>)
<1>1. ASSUME NEW n, n = Pending(ch), NEW f, f = flush(ch, n),
             NEW u \in Seq(Byte), u = <<>>
      PROVE  f.eof = EndOf(ch, u) /\ f.disk = ContentOf(ch, u)
  BY <1>1, FlushView
<1>2. <<>> \in Seq(Byte)
  OBVIOUS
<1> QED BY <1>1, <1>2

(* doset moves to the position that it returns, in the same file; only one *)
(* that extends the buffer moves the virtual end.                          *)
LEMMA DosetView ==
    ASSUME NEW ch, ChannelOK(ch), NEW oup \in BOOLEAN, CleanOK(ch, oup), WholeOK(ch),
           NEW off \in Int, NEW whence \in {0, 1, 2},
           NEW n \in 0 .. Pending(ch), NEW ok \in BOOLEAN,
           NEW done, done = doset(ch, oup, off, whence, n, ok),
           NEW u, u = <<>>
    PROVE  /\ WholeOK(done.c)
           /\ done.ret >= 0 =>
                /\ Spot(done.c) = done.ret
                /\ ContentOf(done.c, u) = ContentOf(ch, u)
                /\ EndOf(done.c, u) = EndOf(ch, u)
                /\ \/ VirtualOf(done.c, u) \in {EndOf(ch, u), VirtualOf(ch, u)}
                   \/ VirtualOf(done.c, u) = done.ret /\ EndOf(ch, u) <= done.ret
           /\ ok /\ oup /\ off = 0 /\ whence = 2 /\ ch.fill = 0 /\ ch.offset = 0 =>
                done.ret = ch.eof
           /\ ~ok /\ off = 0 /\ whence = 2 /\ ch.fill = 0 /\ ch.offset = 0 =>
                \/ done.ret = ch.eof
                \/ /\ done.ret = -1
                   /\ Spot(done.c) <= ch.eof
                   /\ ContentOf(done.c, u) = ContentOf(ch, u)
                   /\ EndOf(done.c, u) = EndOf(ch, u)
                   /\ VirtualOf(done.c, u) = EndOf(ch, u)
<1> DEFINE seen    == IF whence = 2
                      THEN [KSeek(ch, ch.eof) EXCEPT !.curpos = ch.eof] ELSE ch
           base    == CASE whence = 0 -> 0
                        [] whence = 1 -> ch.offset + ch.next
                        [] whence = 2 -> Greatest(ch.eof, ch.offset + ch.fill)
           target  == Greatest(0, base + off)
           within  == ch.offset <= target /\ target <= ch.offset + ch.fill
           flushed == flush(seen, n)
           at      == (target \div Size) * Size
           sought  == IF at = flushed.curpos
                      THEN [flushed EXCEPT !.offset = at]
                      ELSE [KSeek(flushed, at) EXCEPT !.offset = at, !.curpos = at]
           filled  == fillbuf(sought)
           placed  == Place(filled, target - at, oup)
<1>1. done = IF within
             THEN [c |-> [seen EXCEPT !.next = target - ch.offset], ret |-> target]
             ELSE IF FlushErrs(ch, n) THEN [c |-> flushed, ret |-> -1]
             ELSE IF ~ok THEN [c |-> sought, ret |-> -1]
             ELSE [c |-> placed, ret |-> placed.offset + placed.next]
  BY DEF doset
<1>2. /\ ch.offset \in Nat /\ ch.fill \in Nat /\ ch.next \in Nat
      /\ ch.eof \in Nat /\ Size \in Nat /\ Size > 0
  BY Fields
<1>3. target \in Nat
  BY <1>2 DEF Greatest
<1>4. off = 0 /\ whence = 2 /\ ch.fill = 0 /\ ch.offset = 0 => target = ch.eof
  BY <1>2 DEF Greatest
<1> HIDE DEF target
<1>5. PICK k \in 0 .. Size - 1 : k = target - at /\ at \in Nat
  <2>1. at \in Nat /\ target - at \in 0 .. Size - 1
    BY <1>3, RoundDown
  <2> QED BY <2>1
<1>6. /\ ChannelOK(seen) /\ seen.dirty = ch.dirty /\ seen.offset = ch.offset
      /\ seen.fill = ch.fill /\ seen.buf = ch.buf /\ seen.disk = ch.disk
      /\ seen.eof = ch.eof
  <2>1. seen = IF whence = 2 THEN SeekTo(ch, ch.eof) ELSE ch
    BY DEF SeekTo
  <2> HIDE DEF seen
  <2> QED BY <1>2, <2>1, SeekOK
<1> HIDE DEF seen, at
<1>7. n \in 0 .. Pending(seen) /\ (FlushErrs(ch, n) <=> n # Pending(seen))
  BY <1>6 DEF Pending, FlushErrs
<1>8. /\ ChannelOK(flushed) /\ flushed.fill = 0 /\ ~flushed.dirty /\ flushed.next = 0
  BY <1>6, <1>7, FlushOK
<1>9. /\ <<>> \in Seq(Byte) /\ Len(<<>>) = 0
  OBVIOUS
<1>10. /\ ContentOf(seen, u) = ContentOf(ch, u)
       /\ EndOf(seen, u) = EndOf(ch, u)
       /\ VirtualOf(seen, u) = VirtualOf(ch, u)
  BY <1>6 DEF ContentOf, EndOf, VirtualOf, Bottom, BottomEnd, Held
<1>11. n = Pending(seen) => /\ flushed.eof = EndOf(ch, u)
                            /\ flushed.disk = ContentOf(ch, u)
  <2> SUFFICES ASSUME n = Pending(seen)
               PROVE  flushed.eof = EndOf(ch, u) /\ flushed.disk = ContentOf(ch, u)
    OBVIOUS
  <2>1. ~seen.dirty => Agrees(seen)
    BY <1>6 DEF CleanOK, Agrees
  <2>2. PICK f : f = flushed
    OBVIOUS
  <2>3. /\ u \in Seq(Byte)
        /\ u # <<>> => /\ seen.next = seen.fill
                       /\ ~seen.dirty => seen.offset + seen.fill <= seen.eof
    BY <1>9
  <2>4. f.eof = EndOf(seen, u) /\ f.disk = ContentOf(seen, u)
    <3>1. f = flush(seen, Pending(seen))
      BY <2>2
    <3> QED BY <1>6, <2>1, <3>1, WholeFlush
  <2> QED BY <1>10, <2>2, <2>4
<1> HIDE DEF flushed
<1>12. /\ ChannelOK(sought) /\ sought.fill = 0 /\ ~sought.dirty
       /\ sought.offset = at
       /\ sought.disk = flushed.disk /\ sought.eof = flushed.eof
  <2>1. CASE at = flushed.curpos
    <3> DEFINE t == [flushed EXCEPT !.offset = at]
    <3>1. sought = t
      BY <2>1
    <3>2. /\ t \in Channel /\ t.curpos = flushed.curpos
          /\ t.kpos = flushed.kpos /\ t.offset = at
          /\ t.fill = 0 /\ t.next = 0 /\ ~t.dirty
          /\ t.disk = flushed.disk /\ t.eof = flushed.eof
      BY <1>5, <1>8 DEF ChannelOK, Channel
    <3> HIDE DEF t, sought
    <3> QED BY <1>8, <3>1, <3>2 DEF ChannelOK
  <2>2. CASE at # flushed.curpos
    <3>1. sought = MoveTo(flushed, at)
      BY <2>2 DEF MoveTo
    <3> HIDE DEF sought
    <3> QED BY <1>5, <1>8, <3>1, MoveOK
  <2> QED BY <2>1, <2>2
<1> HIDE DEF sought
<1>13. /\ ChannelOK(filled) /\ filled.offset = at /\ ~filled.dirty
       /\ filled.disk = sought.disk /\ filled.eof = sought.eof
       /\ filled.fill > 0 => at + filled.fill <= filled.eof
  BY <1>12, FillOK
<1>14. filled.fill = 0 => filled.eof <= at
  <2>1. PICK s : s = sought
    OBVIOUS
  <2> QED BY <1>12, <1>13, <2>1, FillLast
<1> HIDE DEF filled
<1>15. Size # 0
  BY <1>2
<1>16. CASE within
  <2> DEFINE moved == [seen EXCEPT !.next = target - ch.offset]
  <2>1. done.c = moved /\ done.ret = target
    BY <1>1, <1>16
  <2>2. /\ moved.next = target - ch.offset
        /\ moved.fill = ch.fill /\ moved.offset = ch.offset
        /\ moved.dirty = ch.dirty /\ moved.buf = ch.buf
        /\ moved.disk = ch.disk /\ moved.eof = ch.eof
    BY <1>6 DEF ChannelOK, Channel
  <2> HIDE DEF moved
  <2>3. WholeOK(moved)
    BY <2>2 DEF WholeOK
  <2>4. Spot(moved) = target
    BY <1>2, <1>3, <2>2 DEF Spot
  <2>5. /\ ContentOf(moved, u) = ContentOf(ch, u)
        /\ EndOf(moved, u) = EndOf(ch, u)
        /\ VirtualOf(moved, u) = VirtualOf(ch, u)
    BY <2>2 DEF ContentOf, EndOf, VirtualOf, Bottom, BottomEnd, Held
  <2> QED BY <1>4, <2>1, <2>3, <2>4, <2>5
<1>17. CASE ~within /\ FlushErrs(ch, n)
  <2>1. done.c = flushed /\ done.ret = -1
    BY <1>1, <1>17
  <2>2. WholeOK(flushed)
    BY <1>8, <1>15 DEF WholeOK
  <2>3. off = 0 /\ whence = 2 /\ ch.fill = 0 /\ ch.offset = 0 => n = Pending(ch)
    BY DEF Pending
  <2>4. ~(off = 0 /\ whence = 2 /\ ch.fill = 0 /\ ch.offset = 0)
    BY <1>17, <2>3 DEF FlushErrs
  <2> QED BY <2>1, <2>2, <2>4
<1>18. CASE ~within /\ ~FlushErrs(ch, n) /\ ~ok
  <2>1. done.c = sought /\ done.ret = -1
    BY <1>1, <1>18
  <2>2. WholeOK(sought)
    BY <1>12, <1>15 DEF WholeOK
  <2>3. ASSUME off = 0, whence = 2, ch.fill = 0, ch.offset = 0
        PROVE  /\ Spot(sought) <= ch.eof
               /\ ContentOf(sought, u) = ContentOf(ch, u)
               /\ EndOf(sought, u) = EndOf(ch, u)
               /\ VirtualOf(sought, u) = EndOf(ch, u)
    <3>1. n = Pending(seen)
      BY <1>7, <1>18
    <3>2. /\ ContentOf(sought, u) = ContentOf(ch, u)
          /\ EndOf(sought, u) = EndOf(ch, u) /\ EndOf(sought, u) = sought.eof
          /\ VirtualOf(sought, u) = Greatest(sought.eof, at + 0)
      BY <1>11, <1>12, <3>1, CleanView
    <3>3. EndOf(ch, u) = ch.eof
      BY <2>3, CleanView
    <3>4. at <= ch.eof
      <4>1. PICK t \in Nat : t = target /\ t = ch.eof
        BY <1>3, <1>4, <2>3
      <4> QED BY <1>5, <4>1
    <3>5. Spot(sought) = at
      <4>1. sought.next = 0
        BY <1>12, Fields
      <4> QED BY <1>5, <1>12, <4>1 DEF Spot
    <3>6. Greatest(sought.eof, at + 0) = ch.eof
      BY <1>2, <1>5, <3>2, <3>3, <3>4 DEF Greatest
    <3> QED BY <3>2, <3>3, <3>4, <3>5, <3>6
  <2> QED BY <1>18, <2>1, <2>2, <2>3
<1>19. CASE ~within /\ ~FlushErrs(ch, n) /\ ok
  <2>1. done.c = placed /\ done.ret = placed.offset + placed.next
    BY <1>1, <1>19
  <2>2. n = Pending(seen)
    BY <1>7, <1>19
  <2>3. PICK f \in Nat, e \in Nat : f = filled.fill /\ e = filled.eof
    BY <1>13, Fields
  <2>4. placed = Place(filled, k, oup)
    BY <1>5
  <2>5. k \in 0 .. Size /\ k \in Nat /\ k < Size
    BY <1>2
  <2> HIDE DEF placed
  <2>6. /\ ~placed.dirty /\ placed.eof = e /\ placed.disk = filled.disk
        /\ placed.offset = at
    BY <1>13, <2>3, <2>4, <2>5, PlaceOK
  <2>7. PICK p \in Nat, x \in Nat : /\ p = placed.fill /\ x = placed.next
                                    /\ \/ k <= f /\ p = f /\ x = k
                                       \/ k > f /\ oup /\ p = k /\ x = k
                                       \/ k > f /\ ~oup /\ p = f /\ x = f
    <3>1. filled \in Channel
      BY <1>13 DEF ChannelOK
    <3>2. CASE k <= f
      <4>1. placed = [filled EXCEPT !.next = k]
        BY <2>3, <2>4, <3>2 DEF Place
      <4>2. placed.fill = f /\ placed.next = k
        BY <2>3, <3>1, <4>1 DEF Channel
      <4> QED BY <2>5, <3>2, <4>2
    <3>3. CASE k > f /\ oup
      <4>1. ~(k <= filled.fill)
        BY <2>3, <2>5, <3>3
      <4>2. placed = [filled EXCEPT !.next = k, !.fill = k]
        BY <2>4, <3>3, <4>1 DEF Place
      <4>3. placed.fill = k /\ placed.next = k
        BY <3>1, <4>2 DEF Channel
      <4> QED BY <2>5, <3>3, <4>3
    <3>4. CASE k > f /\ ~oup
      <4>1. ~(k <= filled.fill)
        BY <2>3, <2>5, <3>4
      <4>2. placed = [filled EXCEPT !.next = filled.fill]
        BY <2>4, <3>4, <4>1 DEF Place
      <4>3. placed.fill = f /\ placed.next = f
        BY <2>3, <3>1, <4>2 DEF Channel
      <4> QED BY <3>4, <4>3
    <3> QED BY <2>5, <3>2, <3>3, <3>4
  <2>8. (f > 0 => at + f <= e) /\ (f = 0 => e <= at)
    BY <1>13, <1>14, <2>3
  <2>9. WholeOK(placed)
    <3>1. p = Size => p = f /\ f > 0
      BY <1>2, <2>5, <2>7
    <3> QED BY <2>6, <2>7, <2>8, <3>1 DEF WholeOK
  <2>10. done.ret = at + x /\ Spot(placed) = at + x
    BY <2>1, <2>6, <2>7 DEF Spot
  <2>11. ContentOf(placed, u) = placed.disk /\ EndOf(placed, u) = e
         /\ VirtualOf(placed, u) = Greatest(e, at + p)
    <3>1. ~Held(placed, u)
      BY <2>6 DEF Held
    <3> QED BY <2>6, <2>7, <3>1 DEF ContentOf, EndOf, VirtualOf, Bottom, BottomEnd
  <2>12. placed.disk = ContentOf(ch, u) /\ e = EndOf(ch, u)
    BY <1>11, <1>12, <1>13, <2>2, <2>3, <2>6
  <2>13. Greatest(e, at + p) = e \/ (Greatest(e, at + p) = at + x /\ e <= at + x)
    BY <1>5, <2>7, <2>8 DEF Greatest
  <2>14. ok /\ oup /\ off = 0 /\ whence = 2 /\ ch.fill = 0 /\ ch.offset = 0 => at + x = ch.eof
    <3>1. oup => x = k
      BY <2>7, Zenon
    <3>2. at + k = target
      BY <1>3, <1>5
    <3> QED BY <1>4, <3>1, <3>2, Zenon
  <2> QED BY <1>19, <2>1, <2>9, <2>10, <2>11, <2>12, <2>13, <2>14
<1> QED BY <1>16, <1>17, <1>18, <1>19

-----------------------------------------------------------------------------
(* What holds besides of a channel that is a file: what a call has done so *)
(* far.  A read has the bytes from its first position on, with no EOL among *)
(* them in line mode; one that discards the rest of a line has as many as  *)
(* were wanted, or stands before the EOL.                                  *)
SoFar ==
    /\ rd.from <= Spot(c)
    /\ pc \in {"copy", "raw"} => Spot(c) = rd.from + Len(rd.got)
    /\ pc = "discard" =>
          \/ Len(rd.got) = rd.max /\ Spot(c) >= rd.from + rd.max
          \/ Spot(c) = rd.from + Len(rd.got) /\ c.next < c.fill /\ c.buf[c.next] = EOL
    /\ \A i \in 1 .. Len(rd.got) : rd.got[i] = ShownOf(c)[rd.from + i - 1]
    /\ pc # "raw" => \A p \in rd.from .. Spot(c) - 1 : ShownOf(c)[p] # EOL

InRead == pc \in {"copy", "discard", "raw"} => wr = NoWrite /\ rd.max > 0 /\ SoFar

InWrite == pc = "write" => rd = NoRead

Quiet == pc = "idle" => rd = NoRead /\ wr = NoWrite

Shut == acc = "closed" => c.fill = 0 /\ c.offset = 0 /\ ~c.dirty

Maps ==
    /\ IInv
    /\ InRead /\ InWrite /\ Quiet /\ Shut
    /\ WholeOK(c)

(* With no write in progress nothing is unwritten.                         *)
LEMMA RestViews ==
    ASSUME wr = NoWrite, ChannelOK(c)
    PROVE  /\ Unwritten = <<>>
           /\ FileContent = ContentOf(c, <<>>)
           /\ FileEnd = EndOf(c, <<>>)
           /\ VirtualEnd = VirtualOf(c, <<>>)
           /\ Position = IF pc \in {"copy", "discard", "raw"} THEN rd.from ELSE Spot(c)
<1>1. Unwritten = <<>> /\ Len(<<>>) = 0
  BY DEF Unwritten, NoWrite
<1>2. Here + Len(Unwritten) = Spot(c)
  BY <1>1, Fields DEF Here, Spot
<1> QED BY <1>1, <1>2, Views DEF Position

(* And after a step.                                                       *)
LEMMA RestViewsNext ==
    ASSUME wr' = NoWrite, ChannelOK(c')
    PROVE  /\ Unwritten' = <<>>
           /\ FileContent' = ContentOf(c', <<>>)
           /\ FileEnd' = EndOf(c', <<>>)
           /\ VirtualEnd' = VirtualOf(c', <<>>)
           /\ Position' = IF pc' \in {"copy", "discard", "raw"} THEN rd'.from ELSE Spot(c')
<1>1. Unwritten' = <<>> /\ Len(<<>>) = 0
  BY DEF Unwritten, NoWrite
<1>2. Here' + Len(Unwritten') = Spot(c')
  BY <1>1, Fields DEF Here, Spot
<1> QED BY <1>1, <1>2, ViewsNext DEF Position

(* No call in progress, to the file either.                                *)
LEMMA NoneInProgress ==
    /\ pc = "idle" /\ rd = NoRead => CallInProgress = File!NoCall
    /\ pc' = "idle" /\ rd' = NoRead => CallInProgress' = File!NoCall
  BY DEF CallInProgress, File!NoCall, NoRead

(* A channel that no call is on.                                           *)
LEMMA AtRest ==
    ASSUME IInv', pc' = "idle", rd' = NoRead, wr' = NoWrite, WholeOK(c'), Shut'
    PROVE  Maps'
  BY DEF Maps, InRead, InWrite, Quiet, WholeOK

(* A call that returns an error may leave any file.                        *)
LEMMA FailIs ==
    ASSUME IInv', Return(Failed), acc # "closed", acc' \in {acc, "closed"}
    PROVE  File!Fail
<1>1. pc' = "idle" /\ rd' = NoRead /\ wr' = NoWrite /\ reply' = Failed
  BY DEF Return
<1>2. ChannelOK(c')
  BY DEF IInv
<1>3. <<>> \in Seq(Byte)
  OBVIOUS
<1>4. FileContent' \in [Cells -> Byte] /\ FileEnd' \in Nat /\ VirtualEnd' \in Nat
  BY <1>1, <1>2, <1>3, RestViewsNext, ViewTyped
<1>5. Position' \in Nat
  BY <1>1, <1>2, RestViewsNext, Fields
<1>6. File!Anything
  BY <1>4, <1>5 DEF File!Anything, File!Cells, Cells
<1>7. reply' = File!Reply("error", <<>>)
  BY <1>1 DEF Failed, Reply, File!Reply
<1> QED BY <1>1, <1>6, <1>7, NoneInProgress DEF File!Fail

(* The file there is to begin with.                                        *)
LEMMA InitMaps == Init => Maps /\ File!Init
<1> SUFFICES ASSUME Init PROVE Maps /\ File!Init
  OBVIOUS
<1>1. PICK s \in Files :
        c = Closed([i \in Cells |-> IF i < Len(s) THEN s[i + 1] ELSE NUL], Len(s))
  BY DEF Init
<1>2. s \in Seq(Byte) /\ Len(s) \in 0 .. MaxPos
  BY FileAssumption, BufferAssumption
<1>3. PICK d \in [Cells -> Byte] : d = [i \in Cells |-> IF i < Len(s) THEN s[i + 1] ELSE NUL]
  <2>1. [i \in Cells |-> IF i < Len(s) THEN s[i + 1] ELSE NUL] \in [Cells -> Byte]
    BY <1>2, BufferAssumption DEF Cells
  <2> QED BY <2>1
<1>4. IInv
  BY InitInv
<1>5. /\ c.fill = 0 /\ c.offset = 0 /\ c.next = 0 /\ ~c.dirty /\ c.disk = d /\ c.eof = Len(s)
  BY <1>1, <1>3 DEF Closed, Fresh
<1>6. /\ acc = "closed" /\ pc = "idle" /\ rd = NoRead /\ wr = NoWrite
      /\ reply = Reply("none", <<>>)
  BY DEF Init
<1>7. WholeOK(c)
  BY <1>5, BufferAssumption DEF WholeOK
<1>8. Maps
  BY <1>4, <1>5, <1>6, <1>7 DEF Maps, InRead, InWrite, Quiet, Shut
<1>9. ChannelOK(c)
  BY <1>4 DEF IInv
<1>10. /\ FileContent = d /\ FileEnd = Len(s) /\ VirtualEnd = Greatest(Len(s), 0) /\ Position = 0
  BY <1>5, <1>6, <1>9, RestViews, CleanView DEF Spot
<1>11. VirtualEnd = Len(s)
  BY <1>2, <1>10, BufferAssumption DEF Greatest
<1>12. \A i \in Cells : i >= Len(s) => d[i] = NUL
  <2>1. \A i \in Cells : i >= Len(s) => ~(i < Len(s))
    BY <1>2, BufferAssumption DEF Cells
  <2> QED BY <1>3, <2>1
<1>13. reply = File!Reply("none", <<>>)
  BY <1>6 DEF Reply, File!Reply
<1>14. CallInProgress = File!NoCall
  BY <1>6, NoneInProgress
<1>15. File!Init
  BY <1>2, <1>6, <1>10, <1>11, <1>12, <1>13, <1>14 DEF File!Init, File!Cells, Cells
<1> QED BY <1>8, <1>15

(* osopen: at the start of the file or, to append, at its end, but for a    *)
(* read() that fails, which may leave the channel before it.               *)
LEMMA OpenIs ==
    ASSUME Maps, IInv', NEW a \in Access, osopen(a)
    PROVE  Maps' /\ File!Open(a)
<1>1. PICK stale \in Stale, ok \in BOOLEAN :
        ReadWorks(ok, a = "append" /\ OpenMayFail) /\ c' = OpenFile(a, stale, ok)
  BY DEF osopen
<1>2. acc = "closed" /\ acc' = a /\ pc' = pc /\ rd' = rd /\ wr' = wr
      /\ reply' = Reply("ok", <<>>)
  BY DEF osopen
<1>3. pc = "idle" /\ rd = NoRead /\ wr = NoWrite
  BY <1>2 DEF Maps, Quiet, IInv, TypeOK, WriteOK, ReadOK, Inp, Oup
<1>4. a = "append" /\ ~ok => OpenMayFail
  BY <1>1 DEF ReadWorks
<1>5. /\ ChannelOK(c) /\ ChannelOK(c') /\ c.fill = 0 /\ c.offset = 0 /\ ~c.dirty
  BY <1>2 DEF Maps, IInv, Shut
<1>6. /\ stale \in [Slots -> Byte] /\ c.disk \in [Cells -> Byte]
      /\ c.eof \in 0 .. MaxPos /\ 0 \in 0 .. MaxPos /\ c.eof \in Nat
      /\ [i \in Cells |-> NUL] \in [Cells -> Byte] /\ Size # 0
  BY <1>5, Fields, FileAssumption, BufferAssumption
<1>7. FileContent = c.disk /\ FileEnd = c.eof
  BY <1>3, <1>5, RestViews, CleanView
<1>8. PICK d \in [Cells -> Byte], e \in 0 .. MaxPos :
        /\ d = IF a = "output" THEN [i \in Cells |-> NUL] ELSE c.disk
        /\ e = IF a = "output" THEN 0 ELSE c.eof
  BY <1>6
<1>9. e \in Nat
  BY <1>8, BufferAssumption
<1> DEFINE ch == Fresh(d, e, stale)
<1>10. /\ ChannelOK(ch) /\ \A oup : CleanOK(ch, oup)
       /\ ~ch.dirty /\ ch.fill = 0 /\ ch.offset = 0 /\ ch.disk = d /\ ch.eof = e
  BY <1>6, <1>8, FreshOK
<1>11. ch.next = 0
  BY DEF Fresh
<1>12. c' = IF a = "append" THEN doset(ch, TRUE, 0, 2, 0, ok).c ELSE ch
  BY <1>1, <1>8 DEF OpenFile, Truncates
<1> HIDE DEF ch
<1>13. PICK u \in Seq(Byte) : u = <<>>
  <2>1. <<>> \in Seq(Byte)
    OBVIOUS
  <2> QED BY <2>1
<1>14. ContentOf(ch, u) = d /\ EndOf(ch, u) = e /\ VirtualOf(ch, u) = Greatest(e, 0)
  BY <1>10, <1>13, CleanView
<1>15. VirtualOf(ch, u) = e
  BY <1>9, <1>14 DEF Greatest
<1>16. WholeOK(ch)
  BY <1>6, <1>10 DEF WholeOK
<1>17. /\ ContentOf(c', u) = d /\ EndOf(c', u) = e /\ VirtualOf(c', u) = e
       /\ a # "append" => Spot(c') = 0
       /\ a = "append" => Spot(c') = e \/ (OpenMayFail /\ Spot(c') \in 0 .. e)
       /\ WholeOK(c')
  <2>1. CASE a # "append"
    BY <1>10, <1>11, <1>12, <1>14, <1>15, <1>16, <2>1 DEF Spot
  <2>2. CASE a = "append"
    <3>1. PICK oup \in BOOLEAN : oup = TRUE /\ oup
      OBVIOUS
    <3>2. CleanOK(ch, oup)
      BY <1>10
    <3>3. 0 \in 0 .. Pending(ch)
      BY <1>10 DEF Pending
    <3>4. PICK off \in Int, whence \in {0, 1, 2}, n \in 0 .. Pending(ch) :
            off = 0 /\ whence = 2 /\ n = 0
      BY <3>3
    <3>5. PICK done : done = doset(ch, oup, off, whence, n, ok)
      OBVIOUS
    <3>6. c' = done.c
      BY <1>12, <2>2, <3>1, <3>4, <3>5
    <3>7. /\ WholeOK(done.c)
          /\ done.ret >= 0 =>
                /\ Spot(done.c) = done.ret
                /\ ContentOf(done.c, u) = ContentOf(ch, u)
                /\ EndOf(done.c, u) = EndOf(ch, u)
                /\ \/ VirtualOf(done.c, u) \in {EndOf(ch, u), VirtualOf(ch, u)}
                   \/ VirtualOf(done.c, u) = done.ret /\ EndOf(ch, u) <= done.ret
          /\ ok /\ oup /\ off = 0 /\ whence = 2 /\ ch.fill = 0 /\ ch.offset = 0 =>
                done.ret = ch.eof
          /\ ~ok /\ off = 0 /\ whence = 2 /\ ch.fill = 0 /\ ch.offset = 0 =>
                \/ done.ret = ch.eof
                \/ /\ done.ret = -1
                   /\ Spot(done.c) <= ch.eof
                   /\ ContentOf(done.c, u) = ContentOf(ch, u)
                   /\ EndOf(done.c, u) = EndOf(ch, u)
                   /\ VirtualOf(done.c, u) = EndOf(ch, u)
      BY <1>10, <1>13, <1>16, <3>2, <3>5, DosetView
    <3>8. CASE done.ret = e
      <4>1. done.ret >= 0
        BY <1>9, <3>8
      <4> QED BY <1>14, <1>15, <2>2, <3>6, <3>7, <3>8, <4>1
    <3>9. CASE done.ret # e
      <4>1. ~ok
        BY <1>10, <3>1, <3>4, <3>7, <3>9
      <4>2. /\ Spot(done.c) <= e
            /\ ContentOf(done.c, u) = d /\ EndOf(done.c, u) = e
            /\ VirtualOf(done.c, u) = e
        BY <1>10, <1>14, <3>4, <3>7, <3>9, <4>1
      <4>3. Spot(done.c) \in 0 .. e
        <5>1. Spot(c') \in Nat
          BY <1>5, Fields
        <5> QED BY <1>9, <3>6, <4>2, <5>1
      <4> QED BY <1>4, <2>2, <3>6, <3>7, <4>1, <4>2, <4>3
    <3> QED BY <3>8, <3>9
  <2> QED BY <2>1, <2>2
<1>18. Shut'
  BY <1>2 DEF Shut, Access
<1>19. Maps'
  BY <1>2, <1>3, <1>17, <1>18, AtRest
<1>20. /\ FileContent' = d /\ FileEnd' = e /\ VirtualEnd' = e
       /\ Position' = Spot(c')
  BY <1>2, <1>3, <1>5, <1>13, <1>17, RestViewsNext
<1>21. CallInProgress' = CallInProgress
  BY <1>2, <1>3, NoneInProgress
<1>22. reply' = File!Reply("ok", <<>>)
  BY <1>2 DEF Reply, File!Reply
<1>23. IF a = "output" THEN FileContent' = [i \in File!Cells |-> NUL] /\ FileEnd' = 0
       ELSE FileContent' = FileContent /\ FileEnd' = FileEnd
  BY <1>7, <1>8, <1>20 DEF File!Cells, Cells
<1>24. Position' \in IF a # "append" THEN {0}
                     ELSE IF OpenMayFail THEN 0 .. FileEnd ELSE {FileEnd}
  <2>1. a = "append" => FileEnd = e /\ e \in 0 .. e
    BY <1>7, <1>8, <1>9
  <2> QED BY <1>17, <1>20, <2>1
<1>25. VirtualEnd' = FileEnd'
  BY <1>20
<1> QED BY <1>2, <1>19, <1>21, <1>22, <1>23, <1>24, <1>25 DEF File!Open

(* osclose: what the buffer held is in the file, or the program is told.   *)
LEMMA CloseIs ==
    ASSUME Maps, IInv', osclose
    PROVE  Maps' /\ (File!Close \/ File!Fail)
<1>1. PICK n \in 0 .. Size :
        /\ WriteTakes(n, Pending(c))
        /\ c' = LET ch == IF Oup THEN flush(c, n) ELSE c IN Closed(ch.disk, ch.eof)
        /\ Return(IF FlushErrs(c, n) THEN Failed ELSE Reply("ok", <<>>))
  BY DEF osclose
<1>2. /\ acc # "closed" /\ pc = "idle" /\ acc' = "closed"
  BY DEF osclose, Idle
<1>3. /\ IInv /\ ChannelOK(c) /\ rd = NoRead /\ wr = NoWrite
      /\ ~c.dirty => Agrees(c)
      /\ c.dirty => Oup
  BY <1>2 DEF Maps, IInv, CleanOK, Quiet
<1>4. n \in 0 .. Pending(c)
  <2>1. Pending(c) \in Nat
    BY <1>3, Fields DEF Pending
  <2> QED BY <1>1, <1>3, <2>1, TakesOK
<1>5. PICK ch : ch = IF Oup THEN flush(c, n) ELSE c
  OBVIOUS
<1>6. ChannelOK(ch) /\ c' = Closed(ch.disk, ch.eof)
  BY <1>1, <1>3, <1>4, <1>5, FlushOK
<1>7. /\ c'.fill = 0 /\ c'.offset = 0 /\ c'.next = 0 /\ ~c'.dirty
      /\ c'.disk = ch.disk /\ c'.eof = ch.eof
  BY <1>6 DEF Closed, Fresh
<1>8. pc' = "idle" /\ rd' = NoRead /\ wr' = NoWrite
  BY <1>1 DEF Return
<1>9. WholeOK(c')
  BY <1>7, BufferAssumption DEF WholeOK
<1>10. Maps'
  BY <1>7, <1>8, <1>9, AtRest DEF Shut
<1>11. CASE FlushErrs(c, n)
  <2>1. File!Fail
    BY <1>1, <1>2, <1>11, FailIs
  <2> QED BY <1>10, <2>1
<1>12. CASE ~FlushErrs(c, n)
  <2>1. n = Pending(c)
    BY <1>12 DEF FlushErrs
  <2>2. PICK u \in Seq(Byte) : u = <<>>
    <3>1. <<>> \in Seq(Byte)
      OBVIOUS
    <3> QED BY <3>1
  <2>3. ch.disk = ContentOf(c, u) /\ ch.eof = EndOf(c, u)
    <3>1. CASE Oup
      <4>1. ch = flush(c, n)
        BY <1>5, <3>1
      <4> QED BY <1>3, <2>1, <2>2, <4>1, FlushView
    <3>2. CASE ~Oup
      BY <1>3, <1>5, <2>2, <3>2, CleanView
    <3> QED BY <3>1, <3>2
  <2>4. FileContent = ContentOf(c, u) /\ FileEnd = EndOf(c, u)
    BY <1>3, <2>2, RestViews
  <2>5. ChannelOK(c')
    BY DEF IInv
  <2>6. /\ FileContent' = ch.disk /\ FileEnd' = ch.eof
        /\ VirtualEnd' = Greatest(ch.eof, 0 + 0) /\ Position' = 0 + 0
    BY <1>7, <1>8, <2>5, RestViewsNext, CleanView DEF Spot
  <2>7. VirtualEnd' = ch.eof
    BY <1>6, <2>6, Fields DEF Greatest
  <2>8. reply' = File!Reply("ok", <<>>)
    BY <1>1, <1>12 DEF Return, Reply, File!Reply
  <2>9. CallInProgress = File!NoCall /\ CallInProgress' = File!NoCall
    BY <1>2, <1>3, <1>8, NoneInProgress
  <2>10. CallInProgress.op = "none"
    BY <2>9 DEF File!NoCall
  <2>11. File!Close
    BY <1>2, <2>3, <2>4, <2>6, <2>7, <2>8, <2>9, <2>10 DEF File!Close
  <2> QED BY <1>10, <2>11
<1> QED BY <1>11, <1>12

(* SET: a move to the position that is returned.                           *)
LEMMA SetIs ==
    ASSUME Maps, IInv', NEW off \in Int, NEW whence \in {0, 1, 2}, zysst(off, whence)
    PROVE  Maps' /\ ((\E target \in 0 .. MaxPos : File!Set(target)) \/ File!Fail)
<1>1. PICK n \in 0 .. Size, ok \in BOOLEAN :
        /\ WriteTakes(n, Pending(c))
        /\ LET done == doset(c, Oup, off, whence, n, ok)
           IN  /\ done.ret <= MaxPos
               /\ c' = done.c
               /\ Return(IF done.ret < 0 THEN Failed ELSE ReplyAt(done.ret))
  BY DEF zysst
<1>2. /\ acc # "closed" /\ pc = "idle" /\ acc' = acc
  BY DEF zysst, Idle
<1>3. /\ IInv /\ ChannelOK(c) /\ ChannelOK(c') /\ rd = NoRead /\ wr = NoWrite /\ WholeOK(c)
  BY <1>2 DEF Maps, IInv, Quiet
<1>4. n \in 0 .. Pending(c)
  <2>1. Pending(c) \in Nat
    BY <1>3, Fields DEF Pending
  <2> QED BY <1>1, <1>3, <2>1, TakesOK
<1>5. PICK oup \in BOOLEAN : oup = Oup
  <2>1. Oup \in BOOLEAN
    BY DEF Oup
  <2> QED BY <2>1
<1>6. PICK done : done = doset(c, oup, off, whence, n, ok)
  OBVIOUS
<1>7. /\ done.ret <= MaxPos /\ c' = done.c
      /\ Return(IF done.ret < 0 THEN Failed ELSE ReplyAt(done.ret))
  BY <1>1, <1>5, <1>6
<1>8. CleanOK(c, oup)
  BY <1>3, <1>5 DEF IInv
<1>9. done.ret \in Nat \cup {-1}
  BY <1>3, <1>4, <1>6, <1>7, <1>8, DosetOK
<1>10. PICK u \in Seq(Byte) : u = <<>>
  <2>1. <<>> \in Seq(Byte)
    OBVIOUS
  <2> QED BY <2>1
<1>11. /\ WholeOK(done.c)
       /\ done.ret >= 0 =>
             /\ Spot(done.c) = done.ret
             /\ ContentOf(done.c, u) = ContentOf(c, u)
             /\ EndOf(done.c, u) = EndOf(c, u)
             /\ \/ VirtualOf(done.c, u) \in {EndOf(c, u), VirtualOf(c, u)}
                \/ VirtualOf(done.c, u) = done.ret /\ EndOf(c, u) <= done.ret
  BY <1>3, <1>4, <1>6, <1>8, <1>10, DosetView
<1>12. pc' = "idle" /\ rd' = NoRead /\ wr' = NoWrite
  BY <1>7 DEF Return
<1>13. Maps'
  BY <1>2, <1>7, <1>11, <1>12, AtRest DEF Shut
<1>14. CASE done.ret = -1
  <2>1. done.ret < 0
    BY <1>14
  <2>2. Return(Failed)
    BY <1>7, <2>1
  <2> QED BY <1>2, <1>13, <2>2, FailIs
<1>15. CASE done.ret \in Nat
  <2>1. PICK t \in 0 .. MaxPos : t = done.ret /\ t \in Nat /\ ~(done.ret < 0) /\ done.ret >= 0
    BY <1>7, <1>15, BufferAssumption
  <2>2. reply' = File!ReplyAt(t)
    BY <1>7, <2>1 DEF Return, ReplyAt, File!ReplyAt
  <2>3. /\ FileContent = ContentOf(c, u) /\ FileEnd = EndOf(c, u)
        /\ VirtualEnd = VirtualOf(c, u)
    BY <1>3, <1>10, RestViews
  <2>4. /\ FileContent' = ContentOf(c', u) /\ FileEnd' = EndOf(c', u)
        /\ VirtualEnd' = VirtualOf(c', u) /\ Position' = Spot(c')
    BY <1>3, <1>10, <1>12, RestViewsNext
  <2>5. FileContent' = FileContent /\ FileEnd' = FileEnd /\ Position' = t
    BY <1>7, <1>11, <2>1, <2>3, <2>4
  <2>6. VirtualEnd' \in {FileEnd, VirtualEnd} \/ (VirtualEnd' = t /\ t >= FileEnd)
    <3>1. CASE VirtualOf(done.c, u) \in {EndOf(c, u), VirtualOf(c, u)}
      BY <1>7, <2>3, <2>4, <3>1
    <3>2. CASE VirtualOf(done.c, u) = done.ret /\ EndOf(c, u) <= done.ret
      <4>1. FileEnd <= t
        BY <2>1, <2>3, <3>2
      <4>2. FileEnd \in Nat
        BY <1>3, <2>3, ViewTyped
      <4>3. VirtualEnd' = t
        BY <1>7, <2>1, <2>4, <3>2
      <4> QED BY <4>1, <4>2, <4>3
    <3> QED BY <1>11, <2>1, <3>1, <3>2
  <2>7. VirtualEnd' \in {FileEnd, VirtualEnd} \cup {p \in {Position'} : p >= FileEnd}
    BY <2>5, <2>6
  <2>8. FileEnd \in Nat
    BY <1>3, <2>3, ViewTyped
  <2>9. Position' \in IF t <= FileEnd \/ File!CanWrite THEN {t} ELSE FileEnd .. t
    <3>1. ~(t <= FileEnd) => t \in FileEnd .. t
      BY <2>8
    <3> QED BY <2>5, <3>1
  <2>10. CallInProgress = File!NoCall /\ CallInProgress' = File!NoCall
    BY <1>2, <1>3, <1>12, NoneInProgress
  <2>11. CallInProgress.op = "none"
    BY <2>10 DEF File!NoCall
  <2>12. reply' = File!ReplyAt(Position')
    BY <2>2, <2>5
  <2>13. File!Set(t)
    BY <1>2, <2>5, <2>7, <2>9, <2>10, <2>11, <2>12 DEF File!Set
  <2> QED BY <1>13, <2>13
<1> QED BY <1>9, <1>14, <1>15

-----------------------------------------------------------------------------
(* A read begins where the channel stands.                                 *)
LEMMA StartReadIs ==
    ASSUME Maps, IInv', NEW phase \in {"copy", "raw"}, NEW max \in RecSizes,
           StartRead(phase, max)
    PROVE  Maps' /\ \E op \in {"line", "raw"} : File!StartRead(op, max)
<1>1. /\ acc # "closed" /\ pc = "idle" /\ Inp /\ pc' = phase
      /\ rd' = [max |-> max, got |-> <<>>, from |-> c.offset + c.next]
      /\ reply' = Reply("none", <<>>)
      /\ c' = c /\ acc' = acc /\ wr' = wr
  BY DEF StartRead, Idle
<1>2. /\ ChannelOK(c) /\ rd = NoRead /\ wr = NoWrite /\ WholeOK(c)
  BY <1>1 DEF Maps, IInv, Quiet
<1>3. max > 0
  BY FileAssumption
<1>4. rd'.max = max /\ rd'.got = <<>> /\ Len(rd'.got) = 0 /\ rd'.from = Spot(c)
  BY <1>1 DEF Spot
<1>5. SoFar'
  <2>1. Spot(c) \in Nat
    BY <1>2, Fields
  <2>2. /\ \A i \in 1 .. Len(rd'.got) : FALSE
        /\ \A p \in rd'.from .. Spot(c) - 1 : FALSE
    BY <1>4, <2>1
  <2>3. Spot(c) = rd'.from + Len(rd'.got) /\ rd'.from <= Spot(c)
    BY <1>4, <2>1
  <2>4. pc' # "discard" /\ Spot(c') = Spot(c)
    BY <1>1
  <2> QED BY <2>2, <2>3, <2>4 DEF SoFar
<1>6. Maps'
  BY <1>1, <1>2, <1>3, <1>4, <1>5 DEF Maps, InRead, InWrite, Quiet, Shut, WholeOK
<1>7. /\ FileContent' = FileContent /\ FileEnd' = FileEnd /\ VirtualEnd' = VirtualEnd
      /\ Position' = Position
  BY <1>1, <1>2, <1>4, RestViews, RestViewsNext
<1>8. CallInProgress.op = "none"
  BY <1>1, <1>2, NoneInProgress DEF File!NoCall
<1>9. CallInProgress' = [op |-> IF phase = "copy" THEN "line" ELSE "raw", max |-> max]
  BY <1>1, <1>4 DEF CallInProgress
<1>10. reply' = File!Reply("none", <<>>)
  BY <1>1 DEF Reply, File!Reply
<1>11. File!CanRead
  BY <1>1 DEF Inp, File!CanRead
<1>12. PICK op \in {"line", "raw"} : op = IF phase = "copy" THEN "line" ELSE "raw"
  OBVIOUS
<1>13. File!StartRead(op, max)
  BY <1>1, <1>7, <1>8, <1>9, <1>10, <1>11, <1>12 DEF File!StartRead
<1> QED BY <1>6, <1>13

(* A channel that is reading, and the file it reads.                       *)
LEMMA Reading ==
    ASSUME Maps, pc \in {"copy", "discard", "raw"}
    PROVE  /\ IInv /\ ChannelOK(c) /\ wr = NoWrite /\ WholeOK(c) /\ SoFar
           /\ ~c.dirty => Agrees(c)
           /\ acc # "closed"
           /\ rd.max \in Nat /\ rd.max > 0 /\ rd.from \in Nat
           /\ rd.got \in Seq(Byte) /\ Len(rd.got) \in Nat /\ Len(rd.got) <= rd.max
           /\ FileContent = ContentOf(c, <<>>) /\ FileEnd = EndOf(c, <<>>)
           /\ VirtualEnd = VirtualOf(c, <<>>) /\ Position = rd.from
           /\ FileEnd \in Nat /\ VirtualEnd \in Nat
           /\ CallInProgress = [op |-> IF pc = "raw" THEN "raw" ELSE "line", max |-> rd.max]
<1>1. /\ IInv /\ ChannelOK(c) /\ wr = NoWrite /\ WholeOK(c) /\ SoFar
      /\ ~c.dirty => Agrees(c)
      /\ rd.max > 0 /\ Len(rd.got) <= rd.max /\ Inp
  BY DEF Maps, IInv, CleanOK, InRead, ReadOK
<1>2. rd.max \in Nat /\ rd.from \in Nat /\ rd.got \in Seq(Byte) /\ Len(rd.got) \in Nat
  BY DEF Maps, IInv, TypeOK, Reads
<1>3. /\ FileContent = ContentOf(c, <<>>) /\ FileEnd = EndOf(c, <<>>)
      /\ VirtualEnd = VirtualOf(c, <<>>) /\ Position = rd.from
  BY <1>1, RestViews
<1>4. FileEnd \in Nat /\ VirtualEnd \in Nat
  <2>1. <<>> \in Seq(Byte)
    OBVIOUS
  <2> QED BY <1>1, <1>3, <2>1, ViewTyped
<1>5. CallInProgress = [op |-> IF pc = "raw" THEN "raw" ELSE "line", max |-> rd.max]
  BY DEF CallInProgress
<1> QED BY <1>1, <1>2, <1>3, <1>4, <1>5 DEF Inp

(* The same file before a step and after it. *)
SameFile ==
    /\ ContentOf(c', <<>>) = ContentOf(c, <<>>)
    /\ EndOf(c', <<>>) = EndOf(c, <<>>)
    /\ VirtualOf(c', <<>>) = VirtualOf(c, <<>>)

(* A turn that only moves the next byte changes nothing of the file.       *)
LEMMA NextSame ==
    ASSUME ChannelOK(c), NEW k \in Nat, c' = [c EXCEPT !.next = k]
    PROVE  /\ SameFile
           /\ c'.next = k /\ c'.fill = c.fill /\ c'.offset = c.offset /\ c'.buf = c.buf
           /\ Spot(c') = c.offset + k
           /\ WholeOK(c) => WholeOK(c')
           /\ ShownOf(c') = ShownOf(c)
<1>1. /\ c'.next = k /\ c'.fill = c.fill /\ c'.offset = c.offset
      /\ c'.dirty = c.dirty /\ c'.buf = c.buf /\ c'.disk = c.disk /\ c'.eof = c.eof
  BY DEF ChannelOK, Channel
<1>2. SameFile
  BY <1>1 DEF SameFile, ContentOf, EndOf, VirtualOf, Bottom, BottomEnd, Held
<1>3. ShownOf(c') = ShownOf(c)
  BY <1>1, <1>2 DEF SameFile, ShownOf
<1> QED BY <1>1, <1>2, <1>3 DEF Spot, WholeOK

(* A read that goes on has changed nothing of the file. *)
LEMMA GoesOn ==
    ASSUME Maps, IInv', pc \in {"copy", "discard", "raw"}, pc' \in {"copy", "discard", "raw"},
           pc' = "raw" <=> pc = "raw", rd'.max = rd.max, rd'.from = rd.from,
           UNCHANGED <<wr, reply, acc>>, SameFile, WholeOK(c'), SoFar'
    PROVE  Maps' /\ UNCHANGED File!vars
<1>1. ChannelOK(c') /\ wr' = NoWrite /\ acc' # "closed"
  BY Reading DEF IInv
<1>2. Maps'
  BY <1>1, Reading DEF Maps, InRead, InWrite, Quiet, Shut, WholeOK
<1>3. /\ FileContent' = FileContent /\ FileEnd' = FileEnd /\ VirtualEnd' = VirtualEnd
      /\ Position' = Position
  BY <1>1, Reading, RestViewsNext DEF SameFile
<1>4. CallInProgress' = [op |-> IF pc = "raw" THEN "raw" ELSE "line", max |-> rd.max]
  BY DEF CallInProgress
<1> QED BY <1>2, <1>3, <1>4, Reading DEF File!vars

(* A read that ends. *)
LEMMA ReadEnds ==
    ASSUME Maps, IInv', pc \in {"copy", "discard", "raw"}, NEW r, Return(r),
           acc' = acc, SameFile, WholeOK(c'), File!ReadReturns
    PROVE  Maps' /\ File!FinishRead
<1>1. pc' = "idle" /\ rd' = NoRead /\ wr' = NoWrite
  BY DEF Return
<1>2. ChannelOK(c') /\ acc' # "closed"
  BY Reading DEF IInv
<1>3. Maps'
  BY <1>1, <1>2, AtRest DEF Shut
<1>4. /\ FileContent' = FileContent /\ FileEnd' = FileEnd /\ VirtualEnd' = VirtualEnd
  BY <1>1, <1>2, Reading, RestViewsNext DEF SameFile
<1>5. CallInProgress' = File!NoCall
  BY <1>1, NoneInProgress
<1>6. CallInProgress.op \in {"line", "raw"}
  BY Reading
<1> QED BY <1>3, <1>4, <1>5, <1>6 DEF File!FinishRead

(* What there is to read, in the terms of the file.                        *)
LEMMA FileShown ==
    ASSUME Maps, pc \in {"copy", "discard", "raw"}
    PROVE  \E beyond \in [FileEnd .. VirtualEnd - 1 -> Byte] : File!Shown(beyond) = ShownOf(c)
<1>1. /\ ChannelOK(c) /\ FileContent = ContentOf(c, <<>>)
      /\ FileEnd = EndOf(c, <<>>) /\ VirtualEnd = VirtualOf(c, <<>>)
  BY Reading
<1>2. PICK e, v : e = FileEnd /\ v = VirtualEnd
  OBVIOUS
<1>3. PICK beyond \in [e .. v - 1 -> Byte] :
        ShownOf(c) = [i \in 0 .. v - 1 |->
                         IF i < e THEN ContentOf(c, <<>>)[i] ELSE beyond[i]]
  BY <1>1, <1>2, ShownIs
<1>4. File!Shown(beyond) = ShownOf(c)
  BY <1>1, <1>2, <1>3 DEF File!Shown
<1> QED BY <1>2, <1>3, <1>4

(* The end of a line is where the first EOL is, or the virtual end.         *)
LEMMA LineEndIs ==
    ASSUME NEW bytes, NEW p \in Nat, NEW q \in Nat, VirtualEnd \in Nat,
           p <= q, q <= VirtualEnd, q = VirtualEnd \/ bytes[q] = EOL,
           \A i \in p .. q - 1 : bytes[i] # EOL
    PROVE  File!LineEnd(bytes, p) = q
<1>1. \A k \in p .. VirtualEnd :
        /\ k = VirtualEnd \/ bytes[k] = EOL
        /\ \A i \in p .. k - 1 : bytes[i] # EOL
        => k = q
  <2> SUFFICES ASSUME NEW k \in p .. VirtualEnd, k = VirtualEnd \/ bytes[k] = EOL,
                      \A i \in p .. k - 1 : bytes[i] # EOL
               PROVE  k = q
    OBVIOUS
  <2>1. ~(k < q)
    <3> SUFFICES ASSUME k < q PROVE FALSE
      OBVIOUS
    <3>1. k \in p .. q - 1 /\ k # VirtualEnd
      OBVIOUS
    <3> QED BY <3>1
  <2>2. ~(q < k)
    <3> SUFFICES ASSUME q < k PROVE FALSE
      OBVIOUS
    <3>1. q \in p .. k - 1 /\ q # VirtualEnd
      OBVIOUS
    <3> QED BY <3>1
  <2> QED BY <2>1, <2>2
<1>2. q \in p .. VirtualEnd
  OBVIOUS
<1> QED BY <1>1, <1>2 DEF File!LineEnd

(* What a read of a line returns, q being the end of the line.             *)
LEMMA ReturnsLine ==
    ASSUME Maps, IInv', pc \in {"copy", "discard"},
           Return(Reply("data", rd.got)), rd.from < VirtualEnd,
           NEW q \in Nat, rd.from <= q, q <= VirtualEnd,
           q = VirtualEnd \/ ShownOf(c)[q] = EOL,
           \A i \in rd.from .. q - 1 : ShownOf(c)[i] # EOL,
           Len(rd.got) = q - rd.from \/ (Len(rd.got) = rd.max /\ rd.max <= q - rd.from),
           Spot(c') = IF q = VirtualEnd THEN q ELSE q + 1
    PROVE  File!ReadReturns
<1>1. pc' = "idle" /\ wr' = NoWrite /\ reply' = Reply("data", rd.got)
  BY DEF Return
<1>2. pc \in {"copy", "discard", "raw"} /\ pc # "raw"
  OBVIOUS
<1>3. ChannelOK(c') /\ ChannelOK(c)
  BY <1>2, Reading DEF IInv
<1>4. PICK p \in Nat, v \in Nat, m \in Nat : /\ p = rd.from /\ p = Position /\ v = VirtualEnd
                                             /\ m = rd.max /\ CallInProgress.op = "line"
                                             /\ m = CallInProgress.max
  BY <1>2, Reading
<1>5. Position' = Spot(c')
  BY <1>1, <1>3, RestViewsNext
<1>6. PICK beyond \in [FileEnd .. VirtualEnd - 1 -> Byte] : File!Shown(beyond) = ShownOf(c)
  BY <1>2, FileShown
<1> DEFINE bytes == File!Shown(beyond)
<1> HIDE DEF bytes
<1>16. bytes = ShownOf(c) /\ bytes = File!Shown(beyond)
  BY <1>6 DEF bytes
<1>7. File!LineEnd(bytes, p) = q
  BY <1>4, <1>16, LineEndIs
<1>8. PICK n \in Nat : n = Len(rd.got) /\ n = File!AtMost(m, q - p)
  BY <1>2, <1>4, Reading DEF File!AtMost
<1>9. rd.got = File!Bytes(bytes, p, n)
  <2>1. \A i \in 1 .. n : rd.got[i] = bytes[p + i - 1]
    BY <1>2, <1>4, <1>8, <1>16, Reading DEF SoFar
  <2>2. rd.got = [i \in 1 .. n |-> rd.got[i]]
    <3>1. PICK g \in Seq(Byte) : g = rd.got
      BY <1>2, Reading
    <3>2. g = [i \in 1 .. Len(g) |-> g[i]]
      OBVIOUS
    <3> QED BY <1>8, <3>1, <3>2, Zenon
  <2> QED BY <2>1, <2>2 DEF File!Bytes
<1>10. rd.got = File!LineAt(bytes, p, m)
  BY <1>7, <1>8, <1>9 DEF File!LineAt
<1>11. Spot(c') = File!AfterLine(bytes, p)
  BY <1>4, <1>7 DEF File!AfterLine, File!AtMost
<1>12. reply' = File!Reply("data", File!LineAt(bytes, p, m))
  BY <1>1, <1>10 DEF Reply, File!Reply
<1>13. File!LineReturns(bytes)
  BY <1>4, <1>5, <1>11, <1>12 DEF File!LineReturns
<1>14. ~(Position >= VirtualEnd)
  BY <1>4
<1> QED BY <1>4, <1>13, <1>14, <1>16 DEF File!ReadReturns

(* And what a read of bytes returns.                                        *)
LEMMA ReturnsBytes ==
    ASSUME Maps, IInv', pc = "raw", NEW got \in Seq(Byte), Return(Reply("data", got)),
           SameFile, rd.from < VirtualEnd,
           \A i \in 1 .. Len(got) : got[i] = ShownOf(c)[rd.from + i - 1],
           Len(got) <= rd.max, Spot(c') = rd.from + Len(got),
           Len(got) = rd.max \/ rd.from + Len(got) = VirtualEnd
    PROVE  File!ReadReturns
<1>1. pc' = "idle" /\ wr' = NoWrite /\ reply' = Reply("data", got)
  BY DEF Return
<1>2. pc \in {"copy", "discard", "raw"}
  OBVIOUS
<1>3. ChannelOK(c') /\ ChannelOK(c)
  BY <1>2, Reading DEF IInv
<1>4. PICK p \in Nat, v \in Nat, m \in Nat : /\ p = rd.from /\ p = Position /\ v = VirtualEnd
                                             /\ m = rd.max /\ CallInProgress.op = "raw"
                                             /\ m = CallInProgress.max
  BY <1>2, Reading
<1>5. Position' = Spot(c') /\ Spot(c') <= VirtualEnd
  BY <1>1, <1>2, <1>3, Reading, RestViewsNext, SpotBelow DEF SameFile
<1>6. PICK n \in Nat : n = Len(got)
  OBVIOUS
<1>7. n = File!AtMost(m, v - p)
  BY <1>4, <1>5, <1>6 DEF File!AtMost
<1>8. PICK beyond \in [FileEnd .. VirtualEnd - 1 -> Byte] : File!Shown(beyond) = ShownOf(c)
  BY <1>2, FileShown
<1> DEFINE bytes == File!Shown(beyond)
<1> HIDE DEF bytes
<1>16. bytes = ShownOf(c) /\ bytes = File!Shown(beyond)
  BY <1>8 DEF bytes
<1>9. got = File!Bytes(bytes, p, n)
  <2>1. \A i \in 1 .. n : got[i] = bytes[p + i - 1]
    BY <1>4, <1>6, <1>16
  <2>2. got = [i \in 1 .. n |-> got[i]]
    BY <1>6
  <2> QED BY <2>1, <2>2 DEF File!Bytes
<1>10. reply' = File!Reply("data", File!Bytes(bytes, p, n))
  BY <1>1, <1>9 DEF Reply, File!Reply
<1>11. ~(Position >= VirtualEnd)
  BY <1>4
<1>12. Position' = Position + n
  BY <1>4, <1>5, <1>6
<1>13. CallInProgress.op # "line"
  BY <1>4
<1>14. File!RawReturns(bytes)
  BY <1>4, <1>7, <1>10, <1>12 DEF File!RawReturns
<1> QED BY <1>11, <1>13, <1>14, <1>16 DEF File!ReadReturns

(* At the virtual end there is nothing to read. *)
LEMMA ReturnsEof ==
    ASSUME Maps, IInv', pc \in {"copy", "discard", "raw"}, Return(Reply("eof", <<>>)),
           rd.from >= VirtualEnd, Spot(c') = rd.from
    PROVE  File!ReadReturns
<1>1. pc' = "idle" /\ wr' = NoWrite /\ reply' = Reply("eof", <<>>)
  BY DEF Return
<1>2. ChannelOK(c') /\ ChannelOK(c)
  BY Reading DEF IInv
<1>3. Position' = Position /\ Position >= VirtualEnd
  BY <1>1, <1>2, Reading, RestViewsNext
<1>4. reply' = File!Reply("eof", <<>>)
  BY <1>1 DEF Reply, File!Reply
<1> QED BY <1>3, <1>4 DEF File!ReadReturns

(* The virtual end is the end of the file or of what the buffer holds.     *)
LEMMA VirtualIs ==
    ASSUME NEW ch, ChannelOK(ch)
    PROVE  VirtualOf(ch, <<>>) = Greatest(EndOf(ch, <<>>), ch.offset + ch.fill)
<1>1. CASE ch.dirty /\ ch.fill > 0
  <2>1. VirtualOf(ch, <<>>) = Greatest(ch.eof, ch.offset + ch.fill)
        /\ EndOf(ch, <<>>) = Greatest(ch.eof, ch.offset + ch.fill)
    BY <1>1 DEF VirtualOf, EndOf, BottomEnd, Held
  <2> QED BY <2>1, Fields DEF Greatest
<1>2. CASE ~(ch.dirty /\ ch.fill > 0)
  BY <1>2 DEF VirtualOf, EndOf, BottomEnd, Held
<1> QED BY <1>1, <1>2

(* Refilling the buffer: the same file, read on from the same place.       *)
LEMMA RefillSame ==
    ASSUME Maps, pc \in {"copy", "discard", "raw"}, c.next >= c.fill,
           NEW n, n = Pending(c), c' = fillbuf(flush(c, n))
    PROVE  /\ SameFile /\ WholeOK(c') /\ Spot(c') = Spot(c)
           /\ c'.fill = 0 => VirtualEnd = Spot(c)
           /\ c'.fill # 0 => ShownOf(c') = ShownOf(c)
<1>1. PICK u \in Seq(Byte) : u = <<>>
  <2>1. <<>> \in Seq(Byte)
    OBVIOUS
  <2> QED BY <2>1
<1>2. PICK f : f = flush(c, n)
  OBVIOUS
<1>3. n \in 0 .. Pending(c)
  BY Reading, Fields DEF Pending
<1>4. /\ ChannelOK(f) /\ f.fill = 0 /\ f.next = 0 /\ ~f.dirty /\ f.offset = c.offset + c.fill
  BY <1>2, <1>3, Reading, FlushOK
<1>5. f.eof = EndOf(c, u) /\ f.disk = ContentOf(c, u)
  <2>1. ChannelOK(c) /\ (~c.dirty => Agrees(c))
    BY Reading
  <2> QED BY <1>1, <1>2, <2>1, FlushView
<1>6. /\ ChannelOK(c') /\ c'.next = 0 /\ c'.offset = f.offset /\ ~c'.dirty
      /\ c'.eof = f.eof /\ c'.disk = f.disk
      /\ c'.fill > 0 => f.offset + c'.fill <= f.eof
  BY <1>2, <1>4, FillOK
<1>7. c'.fill = 0 => f.eof <= f.offset
  BY <1>2, <1>4, FillLast
<1>8. ContentOf(c', u) = ContentOf(c, u) /\ EndOf(c', u) = EndOf(c, u)
  BY <1>1, <1>5, <1>6, CleanView
<1>9. PICK e \in Nat, s \in Nat, k \in Nat : /\ e = EndOf(c, u) /\ s = c.offset + c.fill
                                             /\ k = c'.fill
  <2>1. ChannelOK(c)
    BY Reading
  <2>2. EndOf(c, u) \in Nat
    BY <1>1, <2>1, ViewTyped
  <2>3. c.offset + c.fill \in Nat /\ c'.fill \in Nat
    BY <1>6, <2>1, Fields
  <2> QED BY <2>2, <2>3
<1>10. VirtualOf(c, u) = Greatest(e, s) /\ VirtualOf(c', u) = Greatest(e, s + k)
  BY <1>1, <1>4, <1>6, <1>8, <1>9, Reading, VirtualIs
<1>11. (k > 0 => s + k <= e) /\ (k = 0 => e <= s)
  BY <1>4, <1>5, <1>6, <1>7, <1>9
<1>12. Greatest(e, s + k) = Greatest(e, s)
  BY <1>11 DEF Greatest
<1>13. Spot(c') = Spot(c) /\ Spot(c) = s
  <2>1. c.next = c.fill
    BY Reading, Fields
  <2> QED BY <1>4, <1>6, <1>9, <2>1 DEF Spot
<1>14. WholeOK(c')
  <2>1. Size > 0 /\ Size \in Nat
    BY BufferAssumption
  <2> QED BY <1>4, <1>5, <1>6, <1>9, <1>11, <2>1 DEF WholeOK
<1>15. SameFile
  BY <1>1, <1>8, <1>10, <1>12 DEF SameFile
<1>16. ASSUME c'.fill = 0 PROVE VirtualEnd = Spot(c)
  <2>1. VirtualEnd = Greatest(e, s) /\ e <= s
    BY <1>1, <1>9, <1>10, <1>11, <1>16, Reading
  <2> QED BY <1>9, <1>13, <2>1 DEF Greatest
<1>17. ASSUME c'.fill # 0 PROVE ShownOf(c') = ShownOf(c)
  <2>1. k > 0 /\ s <= e
    BY <1>9, <1>11, <1>17
  <2>2. VirtualOf(c, u) = e /\ VirtualOf(c', u) = e
    BY <1>9, <1>10, <1>12, <2>1 DEF Greatest
  <2>3. \A i \in 0 .. e - 1 : i < e
    BY <1>9
  <2>4. ShownOf(c) = [i \in 0 .. e - 1 |-> ContentOf(c, u)[i]]
    BY <1>1, <1>9, <2>2, <2>3 DEF ShownOf
  <2>5. ShownOf(c') = [i \in 0 .. e - 1 |-> ContentOf(c', u)[i]]
    BY <1>1, <1>8, <1>9, <2>2, <2>3 DEF ShownOf
  <2> QED BY <1>8, <2>4, <2>5
<1> QED BY <1>13, <1>14, <1>15, <1>16, <1>17

(* A read that meets the end of the file has read all there was.           *)
LEMMA EofEnds ==
    ASSUME Maps, IInv', pc \in {"copy", "discard", "raw"}, c.next >= c.fill,
           SameFile, Spot(c') = Spot(c), VirtualEnd = Spot(c), EndRead(rd.got)
    PROVE  File!ReadReturns
<1>1. PICK v \in Nat : v = VirtualEnd /\ v = Spot(c) /\ v = Spot(c')
  BY Reading
<1>2. PICK g \in Seq(Byte), m \in Nat, p \in Nat :
        g = rd.got /\ m = rd.max /\ p = rd.from /\ m > 0 /\ Len(g) <= m /\ p <= v
  BY <1>1, Reading DEF SoFar
<1>3. Return(IF g = <<>> THEN Reply("eof", <<>>) ELSE Reply("data", g))
  BY <1>2 DEF EndRead
<1>4. \/ pc # "discard" /\ v = p + Len(g)
      \/ pc = "discard" /\ Len(g) = m /\ v >= p + m
  <2>1. ~(c.next < c.fill)
    BY Reading, Fields
  <2>2. pc # "discard" => v = p + Len(g)
    BY <1>1, <1>2, Reading DEF SoFar
  <2>3. pc = "discard" => Len(g) = m /\ v >= p + m
    BY <1>1, <1>2, <2>1, Reading DEF SoFar
  <2> QED BY <2>2, <2>3
<1>5. Len(g) \in Nat
  BY <1>2
<1>6. CASE p >= v
  <2>1. p = v /\ Len(g) = 0
    BY <1>1, <1>2, <1>4, <1>5, <1>6
  <2>2. g = <<>>
    BY <1>2, <2>1
  <2>3. Return(Reply("eof", <<>>))
    BY <1>3, <2>2
  <2> QED BY <1>1, <1>2, <1>6, <2>1, <2>3, ReturnsEof
<1>7. CASE ~(p >= v)
  <2>1. p < v /\ Len(g) > 0
    BY <1>1, <1>2, <1>4, <1>5, <1>7
  <2>2. g # <<>>
    BY <2>1
  <2>3. Return(Reply("data", g))
    BY <1>3, <2>2
  <2>4. CASE pc \in {"copy", "discard"}
    <3>1. \A i \in p .. v - 1 : ShownOf(c)[i] # EOL
      BY <1>1, <1>2, <2>4, Reading DEF SoFar
    <3>2. Len(g) = v - p \/ (Len(g) = m /\ m <= v - p)
      BY <1>1, <1>2, <1>4, <1>5
    <3>3. Spot(c') = IF v = VirtualEnd THEN v ELSE v + 1
      BY <1>1
    <3> QED BY <1>1, <1>2, <2>1, <2>3, <2>4, <3>1, <3>2, <3>3, ReturnsLine
  <2>5. CASE pc = "raw"
    <3>1. \A i \in 1 .. Len(g) : g[i] = ShownOf(c)[rd.from + i - 1]
      BY <1>2, Reading DEF SoFar
    <3>2. Spot(c') = rd.from + Len(g) /\ rd.from + Len(g) = VirtualEnd
      BY <1>1, <1>2, <1>4, <2>5
    <3> QED BY <1>1, <1>2, <2>1, <2>3, <2>5, <3>1, <3>2, ReturnsBytes
  <2> QED BY <2>4, <2>5
<1> QED BY <1>6, <1>7

(* The turns of osread that need the file. *)
LEMMA RefillIs ==
    ASSUME Maps, IInv', Refill
    PROVE  Maps' /\ (UNCHANGED File!vars \/ File!FinishRead \/ File!Fail)
<1>1. PICK n \in 0 .. Size, ok \in BOOLEAN :
        /\ WriteTakes(n, Pending(c))
        /\ ReadWorks(ok, ~FlushErrs(c, n))
        /\ LET flushed == flush(c, n)
               filled  == fillbuf(flushed)
           IN  IF FlushErrs(c, n) THEN c' = flushed /\ Return(Failed)
               ELSE IF ~ok THEN c' = fsyncio(flushed) /\ Return(Failed)
               ELSE /\ c' = filled
                    /\ IF AtEnd(filled) THEN EndRead(rd.got)
                       ELSE UNCHANGED <<pc, rd, wr, reply>>
  BY DEF Refill
<1>2. pc \in {"copy", "discard", "raw"} /\ c.next >= c.fill /\ acc' = acc
  BY DEF Refill
<1>3. acc # "closed" /\ ChannelOK(c) /\ IInv
  BY <1>2, Reading
<1>4. n \in 0 .. Pending(c)
  <2>1. Pending(c) \in Nat
    BY <1>3, Fields DEF Pending
  <2> QED BY <1>1, <1>3, <2>1, TakesOK
<1>5. PICK f : f = flush(c, n)
  OBVIOUS
<1>6. ChannelOK(f) /\ f.fill = 0 /\ ~f.dirty
  BY <1>3, <1>4, <1>5, FlushOK
<1>7. Size # 0
  BY BufferAssumption
<1>8. CASE Return(Failed) /\ c'.fill = 0
  <2>1. WholeOK(c')
    BY <1>7, <1>8 DEF WholeOK
  <2>2. pc' = "idle" /\ rd' = NoRead /\ wr' = NoWrite
    BY <1>8 DEF Return
  <2>3. Maps'
    BY <1>2, <1>3, <2>1, <2>2, AtRest DEF Shut
  <2> QED BY <1>2, <1>3, <1>8, <2>3, FailIs
<1>9. CASE FlushErrs(c, n)
  <2>1. c' = f /\ Return(Failed)
    BY <1>1, <1>5, <1>9
  <2> QED BY <1>6, <1>8, <2>1
<1>10. CASE ~FlushErrs(c, n) /\ ~ok
  <2>1. c' = fsyncio(f) /\ Return(Failed)
    BY <1>1, <1>5, <1>10
  <2> QED BY <1>6, <1>8, <2>1, FsyncOK
<1>11. CASE ~FlushErrs(c, n) /\ ok
  <2>1. /\ c' = fillbuf(f)
        /\ IF AtEnd(c') THEN EndRead(rd.got) ELSE UNCHANGED <<pc, rd, wr, reply>>
    BY <1>1, <1>5, <1>11
  <2>2. n = Pending(c)
    BY <1>11 DEF FlushErrs
  <2>3. /\ SameFile /\ WholeOK(c') /\ Spot(c') = Spot(c)
        /\ c'.fill = 0 => VirtualEnd = Spot(c)
        /\ c'.fill # 0 => ShownOf(c') = ShownOf(c)
    BY <1>2, <1>5, <2>1, <2>2, RefillSame
  <2>4. CASE AtEnd(c')
    <3>1. EndRead(rd.got) /\ VirtualEnd = Spot(c)
      BY <2>1, <2>3, <2>4 DEF AtEnd
    <3>2. File!ReadReturns
      BY <1>2, <2>3, <3>1, EofEnds
    <3>3. PICK r : Return(r)
      BY <3>1 DEF EndRead
    <3> QED BY <1>2, <2>3, <3>2, <3>3, ReadEnds
  <2>5. CASE ~AtEnd(c')
    <3>1. pc' = pc /\ rd' = rd /\ wr' = wr /\ reply' = reply
      BY <2>1, <2>5
    <3>2. SoFar'
      <4>1. ~(c.next < c.fill)
        BY <1>2, <1>3, Fields
      <4>2. SoFar
        BY <1>2, Reading
      <4>3. ShownOf(c') = ShownOf(c)
        BY <2>3, <2>5 DEF AtEnd
      <4> QED BY <2>3, <3>1, <4>1, <4>2, <4>3 DEF SoFar
    <3> QED BY <1>2, <2>3, <3>1, <3>2, GoesOn
  <2> QED BY <2>4, <2>5
<1> QED BY <1>9, <1>10, <1>11

(* What a turn of osread has moved, byte by byte.                          *)
LEMMA TakeAt ==
    ASSUME IInv, NEW k \in c.next .. c.fill, NEW n, n = Len(rd.got),
           NEW m, m = n + (k - c.next)
    PROVE  /\ Take(k) \in Seq(Byte) /\ Len(Take(k)) = m /\ n \in Nat /\ m \in Nat /\ n <= m
           /\ \A i \in 1 .. n : Take(k)[i] = rd.got[i]
           /\ \A i \in n + 1 .. m : Take(k)[i] = c.buf[c.next + (i - n) - 1]
<1>1. Take(k) \in Seq(Byte) /\ Len(Take(k)) = m
  BY TakeOK
<1>2. PICK b \in Nat, d \in Nat, g \in Seq(Byte) : b = c.next /\ d = k - c.next /\ g = rd.got
  <2>1. ChannelOK(c) /\ rd.got \in Seq(Byte)
    BY DEF IInv, TypeOK, Reads
  <2>2. c.next \in Nat /\ k - c.next \in Nat
    BY <2>1, Fields
  <2> QED BY <2>1, <2>2
<1>3. PICK h : h = [i \in 1 .. d |-> c.buf[b + i - 1]]
  OBVIOUS
<1>4. Take(k) = g \o h
  BY <1>2, <1>3 DEF Take
<1>5. h \in Seq(Byte) /\ Len(h) = d
  <2>1. \A i \in 1 .. d : c.buf[b + i - 1] \in Byte
    <3>1. ChannelOK(c)
      BY DEF IInv
    <3>2. b + d <= Size /\ Size \in Nat
      <4>1. k <= c.fill /\ c.fill <= Size /\ c.next \in Nat /\ c.fill \in Nat /\ Size \in Nat
        BY <3>1, Fields
      <4>2. k \in Nat
        BY <4>1
      <4> QED BY <1>2, <4>1, <4>2
    <3>3. \A i \in 1 .. d : b + i - 1 \in 0 .. Size - 1
      BY <3>2
    <3> QED BY <3>1, <3>3, Fields DEF Slots
  <2>2. h \in [1 .. d -> Byte]
    BY <1>3, <2>1
  <2> QED BY <2>2
<1>6. n \in Nat /\ m \in Nat /\ n <= m /\ Len(g) = n /\ m = n + d
  <2>1. Len(g) \in Nat /\ Len(g) = n
    BY <1>2
  <2>2. m = n + d
    BY <1>2
  <2> QED BY <1>2, <2>1, <2>2
<1>7. \A i \in 1 .. n + d : (g \o h)[i] = IF i <= n THEN g[i] ELSE h[i - n]
  <2>1. \A i \in 1 .. Len(g) + Len(h) :
           (g \o h)[i] = IF i <= Len(g) THEN g[i] ELSE h[i - Len(g)]
    BY <1>2, <1>5, ConcatProperties
  <2> QED BY <1>5, <1>6, <2>1, Zenon
<1>8. \A i \in 1 .. n : Take(k)[i] = rd.got[i]
  <2>1. \A i \in 1 .. n : i \in 1 .. n + d /\ i <= n
    BY <1>6
  <2> QED BY <1>2, <1>4, <1>7, <2>1
<1>9. \A i \in n + 1 .. m : Take(k)[i] = c.buf[c.next + (i - n) - 1]
  <2>1. \A i \in n + 1 .. m : i \in 1 .. n + d /\ ~(i <= n) /\ i - n \in 1 .. d
    BY <1>6
  <2>2. \A i \in n + 1 .. m : Take(k)[i] = h[i - n]
    BY <1>4, <1>7, <2>1
  <2> QED BY <1>2, <1>3, <2>1, <2>2
<1> QED BY <1>1, <1>6, <1>8, <1>9

(* It is what there is to read.                                            *)
LEMMA TakeShows ==
    ASSUME Maps, pc \in {"copy", "raw"}, NEW k \in c.next .. c.fill
    PROVE  /\ c.offset + k = rd.from + Len(Take(k))
           /\ \A i \in 1 .. Len(Take(k)) : Take(k)[i] = ShownOf(c)[rd.from + i - 1]
<1>1. pc \in {"copy", "discard", "raw"}
  OBVIOUS
<1>2. IInv /\ ChannelOK(c) /\ (~c.dirty => Agrees(c))
  BY <1>1, Reading
<1>3. PICK n \in Nat, o \in Nat, b \in Nat, p \in Nat :
        n = Len(rd.got) /\ o = c.offset /\ b = c.next /\ p = rd.from
  BY <1>1, Reading, Fields
<1>4. o + b = p + n
  BY <1>1, <1>3, Reading DEF SoFar, Spot
<1>5. k \in Nat /\ k >= b /\ k <= c.fill
  BY <1>2, <1>3, Fields
<1>6. PICK m \in Nat : m = n + (k - b) /\ n <= m
  BY <1>5
<1>7. /\ Len(Take(k)) = m
      /\ \A i \in 1 .. n : Take(k)[i] = rd.got[i]
      /\ \A i \in n + 1 .. m : Take(k)[i] = c.buf[b + (i - n) - 1]
  <2>1. m = n + (k - c.next)
    BY <1>3, <1>6
  <2>2. /\ Len(Take(k)) = m
        /\ \A i \in 1 .. n : Take(k)[i] = rd.got[i]
        /\ \A i \in n + 1 .. m : Take(k)[i] = c.buf[c.next + (i - n) - 1]
    <3>1. IInv /\ n = Len(rd.got)
      BY <1>2, <1>3
    <3>2. /\ Len(Take(k)) = m
          /\ \A i \in 1 .. n : Take(k)[i] = rd.got[i]
          /\ \A i \in n + 1 .. m : Take(k)[i] = c.buf[c.next + (i - n) - 1]
      BY <2>1, <3>1, TakeAt, Zenon
    <3> QED BY <3>2
  <2> QED BY <1>3, <2>2, Zenon
<1>8. o + k = p + m
  BY <1>4, <1>5, <1>6
<1>9. ASSUME NEW i \in 1 .. m
      PROVE  Take(k)[i] = ShownOf(c)[p + i - 1]
  <2>1. CASE i <= n
    <3>1. i \in 1 .. n
      BY <2>1
    <3>2. rd.got[i] = ShownOf(c)[p + i - 1]
      BY <1>1, <1>3, <3>1, Reading DEF SoFar
    <3> QED BY <1>7, <3>1, <3>2
  <2>2. CASE i > n
    <3>1. PICK j \in Nat : j = b + (i - n) - 1 /\ j < k /\ o + j = p + i - 1
      <4>1. b + (i - n) - 1 \in Nat /\ b + (i - n) - 1 < k /\ o + (b + (i - n) - 1) = p + i - 1
        BY <1>4, <1>6, <2>2
      <4> QED BY <4>1
    <3>2. j < c.fill
      BY <1>2, <1>5, <3>1, Fields
    <3>3. ShownOf(c)[o + j] = c.buf[j]
      BY <1>2, <1>3, <3>2, BufferShows
    <3>4. i \in n + 1 .. m
      BY <2>2
    <3> QED BY <1>7, <3>1, <3>3, <3>4
  <2> QED BY <2>1, <2>2
<1> QED BY <1>3, <1>7, <1>8, <1>9

(* No EOL before k in the buffer is none before it in what there is to     *)
(* read.                                                                   *)
LEMMA NoEol ==
    ASSUME Maps, pc \in {"copy", "discard"}, NEW k \in c.next .. c.fill,
           \A i \in c.next .. k - 1 : c.buf[i] # EOL
    PROVE  /\ \A p \in rd.from .. (c.offset + k) - 1 : ShownOf(c)[p] # EOL
           /\ k < c.fill => /\ ShownOf(c)[c.offset + k] = c.buf[k]
                            /\ c.offset + k < VirtualEnd
           /\ c.offset + k \in Nat /\ rd.from <= c.offset + k /\ k \in Nat
<1>1. pc \in {"copy", "discard", "raw"} /\ pc # "raw"
  OBVIOUS
<1>2. /\ IInv /\ ChannelOK(c) /\ (~c.dirty => Agrees(c)) /\ SoFar
      /\ VirtualEnd = VirtualOf(c, <<>>)
  BY <1>1, Reading
<1>3. PICK o \in Nat, b \in Nat, f \in Nat, s \in Nat :
        o = c.offset /\ b = c.next /\ f = rd.from /\ s = c.fill
  BY <1>1, <1>2, Reading, Fields
<1>4. k \in Nat /\ b <= k /\ k <= s /\ f <= o + b
  BY <1>2, <1>3 DEF SoFar, Spot
<1>5. ASSUME NEW j \in Nat, j < s
      PROVE  ShownOf(c)[o + j] = c.buf[j] /\ o + j < VirtualEnd
  BY <1>2, <1>3, <1>5, BufferShows
<1>6. ASSUME NEW p \in f .. (o + k) - 1
      PROVE  ShownOf(c)[p] # EOL
  <2>1. CASE p < o + b
    <3>1. p \in rd.from .. Spot(c) - 1
      BY <1>3, <2>1 DEF Spot
    <3> QED BY <1>1, <1>2, <3>1 DEF SoFar
  <2>2. CASE p >= o + b
    <3>1. PICK j \in Nat : j = p - o /\ j \in b .. k - 1 /\ j < s /\ o + j = p
      <4>1. p - o \in Nat /\ p - o \in b .. k - 1 /\ p - o < s /\ o + (p - o) = p
        BY <1>4, <2>2
      <4> QED BY <4>1
    <3>2. c.buf[j] # EOL
      BY <1>3, <3>1
    <3> QED BY <1>5, <3>1, <3>2
  <2> QED BY <1>4, <2>1, <2>2
<1>7. o + k \in Nat /\ f <= o + k
  BY <1>4
<1> QED BY <1>3, <1>4, <1>5, <1>6, <1>7

(* A turn that copies a part of a line.                                    *)
LEMMA CopyLineIs ==
    ASSUME Maps, IInv', CopyLine
    PROVE  Maps' /\ UNCHANGED File!vars
<1>1. PICK k \in c.next .. c.next + Least(Wanted, c.fill - c.next) :
        LET stop == c.next + Least(Wanted, c.fill - c.next)
        IN  /\ EolBefore(k, stop)
            /\ c' = [c EXCEPT !.next = k]
            /\ rd' = [rd EXCEPT !.got = Take(k)]
            /\ pc' = IF k = stop /\ Len(Take(k)) < rd.max THEN "copy" ELSE "discard"
  BY DEF CopyLine
<1>2. /\ pc = "copy" /\ pc \in {"copy", "discard", "raw"} /\ pc \in {"copy", "raw"}
      /\ pc \in {"copy", "discard"} /\ pc # "raw"
      /\ c.next < c.fill /\ wr' = wr /\ reply' = reply /\ acc' = acc
  BY DEF CopyLine
<1>3. IInv /\ ChannelOK(c)
  BY <1>2, Reading
<1>4. PICK b \in Nat, f \in Nat, w \in Nat, n \in Nat, stop \in Nat :
        /\ b = c.next /\ f = c.fill /\ b < f /\ n = Len(rd.got) /\ w = rd.max /\ n <= w
        /\ stop = b + Least(w - n, f - b)
  <2>1. /\ c.next \in Nat /\ c.fill \in Nat /\ Len(rd.got) \in Nat /\ rd.max \in Nat
        /\ Len(rd.got) <= rd.max
    BY <1>2, <1>3, Reading, Fields
  <2>2. c.next + Least(rd.max - Len(rd.got), c.fill - c.next) \in Nat
    BY <1>2, <2>1 DEF Least
  <2> QED BY <1>2, <2>1, <2>2
<1>5. /\ stop = c.next + Least(Wanted, c.fill - c.next) /\ stop <= f
  BY <1>4 DEF Wanted, Least
<1>6. /\ k \in b .. stop /\ k \in Nat /\ k <= f /\ k >= b
      /\ EolBefore(k, stop) /\ c' = [c EXCEPT !.next = k] /\ rd' = [rd EXCEPT !.got = Take(k)]
      /\ pc' = IF k = stop /\ Len(Take(k)) < w THEN "copy" ELSE "discard"
  BY <1>1, <1>4, <1>5
<1>7. k \in c.next .. c.fill
  BY <1>4, <1>6
<1>8. /\ SameFile /\ WholeOK(c')
      /\ c'.next = k /\ c'.fill = c.fill /\ c'.offset = c.offset /\ c'.buf = c.buf
      /\ Spot(c') = c.offset + k /\ ShownOf(c') = ShownOf(c)
  BY <1>2, <1>3, <1>6, Reading, NextSame
<1>9. rd'.got = Take(k) /\ rd'.max = rd.max /\ rd'.from = rd.from
  <2>1. rd \in Reads
    BY <1>3 DEF IInv, TypeOK
  <2> QED BY <1>6, <2>1 DEF Reads
<1>10. PICK m \in Nat : m = Len(Take(k)) /\ m = n + (k - b)
  BY <1>3, <1>4, <1>7, TakeAt
<1>11. /\ c.offset + k = rd.from + m
       /\ \A i \in 1 .. m : Take(k)[i] = ShownOf(c)[rd.from + i - 1]
  BY <1>2, <1>7, <1>10, TakeShows
<1>12. \A p \in rd.from .. Spot(c') - 1 : ShownOf(c)[p] # EOL
  <2>1. \A i \in c.next .. k - 1 : c.buf[i] # EOL
    BY <1>6 DEF EolBefore
  <2>2. \A p \in rd.from .. (c.offset + k) - 1 : ShownOf(c)[p] # EOL
    BY <1>2, <1>7, <2>1, NoEol
  <2>3. PICK s : s = Spot(c') /\ s = c.offset + k
    BY <1>8
  <2>4. \A p \in rd.from .. s - 1 : ShownOf(c)[p] # EOL
    BY <2>2, <2>3
  <2> QED BY <2>3, <2>4
<1>13. rd.from \in Nat
  BY <1>2, Reading
<1>14. pc' = "discard" =>
          \/ Len(rd'.got) = rd'.max /\ Spot(c') >= rd'.from + rd'.max
          \/ Spot(c') = rd'.from + Len(rd'.got) /\ c'.next < c'.fill /\ c'.buf[c'.next] = EOL
  <2> SUFFICES ASSUME pc' = "discard"
               PROVE  \/ Len(rd'.got) = rd'.max /\ Spot(c') >= rd'.from + rd'.max
                      \/ Spot(c') = rd'.from + Len(rd'.got) /\ c'.next < c'.fill
                         /\ c'.buf[c'.next] = EOL
    OBVIOUS
  <2>1. ~(k = stop /\ m < w)
    BY <1>6, <1>10
  <2>2. CASE k = stop
    <3>1. m = w
      <4>1. ~(m < w)
        BY <2>1, <2>2
      <4>3. m = n + (stop - b) /\ stop = b + Least(w - n, f - b)
        BY <1>4, <1>10, <2>2
      <4>2. w \in Nat /\ n \in Nat /\ n <= w /\ f \in Nat /\ b \in Nat /\ b < f /\ m \in Nat
        BY <1>4, <1>10
      <4> QED BY <4>1, <4>2, <4>3 DEF Least
    <3>2. Spot(c') >= rd.from + w
      BY <1>8, <1>11, <1>13, <3>1
    <3> QED BY <1>4, <1>9, <1>10, <3>1, <3>2
  <2>3. CASE k # stop
    <3>1. k < stop
      BY <1>6, <2>3
    <3>2. c.buf[k] = EOL
      BY <1>6, <3>1 DEF EolBefore
    <3>3. k < f
      BY <1>5, <1>6, <3>1
    <3> QED BY <1>4, <1>8, <1>9, <1>10, <1>11, <3>2, <3>3
  <2> QED BY <2>2, <2>3
<1>15. pc' \in {"copy", "discard"}
  BY <1>6
<1>16. SoFar'
  <2>1. rd'.from <= Spot(c') /\ Spot(c') = rd'.from + Len(rd'.got)
    BY <1>8, <1>9, <1>10, <1>11, <1>13
  <2>2. /\ \A i \in 1 .. Len(rd'.got) : rd'.got[i] = ShownOf(c')[rd'.from + i - 1]
        /\ \A p \in rd'.from .. Spot(c') - 1 : ShownOf(c')[p] # EOL
    BY <1>8, <1>9, <1>10, <1>11, <1>12
  <2> QED BY <1>14, <2>1, <2>2 DEF SoFar
<1>17. (pc' = "raw" <=> pc = "raw") /\ pc' \in {"copy", "discard", "raw"}
  BY <1>2, <1>15
<1> QED BY <1>2, <1>8, <1>9, <1>16, <1>17, GoesOn

(* A turn that looks for the end of a line that is too long.               *)
LEMMA DiscardLineIs ==
    ASSUME Maps, IInv', DiscardLine
    PROVE  Maps' /\ (UNCHANGED File!vars \/ File!FinishRead)
<1>1. PICK k \in c.next .. c.fill :
        /\ EolBefore(k, c.fill)
        /\ IF k < c.fill
           THEN /\ c' = [c EXCEPT !.next = k + 1]
                /\ Return(Reply("data", rd.got))
           ELSE /\ c' = [c EXCEPT !.next = k]
                /\ UNCHANGED <<pc, rd, wr, reply>>
  BY DEF DiscardLine
<1>2. /\ pc = "discard" /\ pc \in {"copy", "discard", "raw"} /\ pc \in {"copy", "discard"}
      /\ pc # "raw" /\ c.next < c.fill /\ acc' = acc
  BY DEF DiscardLine
<1>3. /\ IInv /\ ChannelOK(c) /\ SoFar
      /\ VirtualEnd = VirtualOf(c, <<>>) /\ VirtualEnd \in Nat
  BY <1>2, Reading, SpotBelow
<1>4. PICK b \in Nat, f \in Nat, o \in Nat, p \in Nat, w \in Nat, n \in Nat :
        /\ b = c.next /\ f = c.fill /\ o = c.offset /\ p = rd.from /\ w = rd.max
        /\ n = Len(rd.got) /\ n <= w
  BY <1>2, <1>3, Reading, Fields
<1>5. k \in Nat /\ b <= k /\ k <= f /\ b < f
  BY <1>2, <1>4
<1>6. \A i \in c.next .. k - 1 : c.buf[i] # EOL
  BY <1>1 DEF EolBefore
<1>7. p <= o + b /\ ((n = w /\ o + b >= p + w) \/ (o + b = p + n /\ c.buf[b] = EOL))
  <2>1. /\ rd.from <= Spot(c)
        /\ \/ Len(rd.got) = rd.max /\ Spot(c) >= rd.from + rd.max
           \/ Spot(c) = rd.from + Len(rd.got) /\ c.buf[c.next] = EOL
    BY <1>2, <1>3 DEF SoFar
  <2>2. Spot(c) = o + b
    BY <1>4 DEF Spot
  <2>3. PICK q : q = Spot(c)
    OBVIOUS
  <2>4. q = o + b /\ p <= q
    BY <1>4, <2>1, <2>2, <2>3
  <2>5. (n = w /\ q >= p + w) \/ (q = p + n /\ c.buf[b] = EOL)
    BY <1>4, <2>1, <2>3, Zenon
  <2> QED BY <2>4, <2>5, Zenon
<1>8. /\ \A i \in rd.from .. (c.offset + k) - 1 : ShownOf(c)[i] # EOL
      /\ k < c.fill => ShownOf(c)[c.offset + k] = c.buf[k] /\ c.offset + k < VirtualEnd
  BY <1>2, <1>6, NoEol
<1>9. CASE k < c.fill
  <2>1. /\ c' = [c EXCEPT !.next = k + 1] /\ Return(Reply("data", rd.got))
        /\ c.buf[k] = EOL
    BY <1>1, <1>9 DEF EolBefore
  <2>2. PICK j \in Nat : j = k + 1
    BY <1>5
  <2>3. /\ SameFile /\ WholeOK(c') /\ Spot(c') = c.offset + j
    <3>1. c' = [c EXCEPT !.next = j] /\ WholeOK(c)
      BY <1>2, <2>1, <2>2, Reading
    <3> QED BY <1>3, <3>1, NextSame
  <2>4. PICK q \in Nat : q = o + k
    BY <1>5
  <2>5. /\ \A i \in rd.from .. q - 1 : ShownOf(c)[i] # EOL
        /\ ShownOf(c)[q] = EOL /\ q < VirtualEnd
    BY <1>4, <1>8, <1>9, <2>1, <2>4
  <2>6. p <= q /\ p < VirtualEnd /\ q <= VirtualEnd /\ q # VirtualEnd
    <3>1. p <= q
      BY <1>5, <1>7, <2>4
    <3> QED BY <1>3, <2>5, <3>1
  <2>7. n = q - p \/ (n = w /\ w <= q - p)
    <3>1. CASE n = w /\ o + b >= p + w
      <4>1. w <= q - p
        BY <1>5, <2>4, <3>1
      <4> QED BY <3>1, <4>1
    <3>2. CASE o + b = p + n /\ c.buf[b] = EOL
      <4>1. ~(b < k)
        <5>1. b < k => b \in c.next .. k - 1
          BY <1>4, <1>5
        <5> QED BY <1>6, <3>2, <5>1
      <4>2. k = b
        BY <1>5, <4>1
      <4>3. n = q - p
        BY <2>4, <3>2, <4>2
      <4> QED BY <4>3
    <3> QED BY <1>7, <3>1, <3>2
  <2>8. Spot(c') = q + 1
    BY <1>4, <1>5, <2>2, <2>3, <2>4
  <2>9. /\ rd.from < VirtualEnd /\ rd.from <= q /\ q <= VirtualEnd
        /\ q = VirtualEnd \/ ShownOf(c)[q] = EOL
        /\ Len(rd.got) = q - rd.from \/ (Len(rd.got) = rd.max /\ rd.max <= q - rd.from)
        /\ Spot(c') = IF q = VirtualEnd THEN q ELSE q + 1
    BY <1>4, <2>5, <2>6, <2>7, <2>8
  <2>10. File!ReadReturns
    BY <1>2, <2>1, <2>5, <2>9, ReturnsLine
  <2> QED BY <1>2, <2>1, <2>3, <2>10, ReadEnds
<1>10. CASE ~(k < c.fill)
  <2>1. c' = [c EXCEPT !.next = k] /\ pc' = pc /\ rd' = rd /\ wr' = wr /\ reply' = reply
    BY <1>1, <1>10
  <2>2. k = f
    BY <1>4, <1>5, <1>10
  <2>3. /\ SameFile /\ WholeOK(c') /\ Spot(c') = c.offset + k /\ ShownOf(c') = ShownOf(c)
    <3>1. WholeOK(c)
      BY <1>2, Reading
    <3> QED BY <1>3, <1>5, <2>1, <3>1, NextSame
  <2>4. n = w /\ o + b >= p + w
    <3>1. b \in c.next .. k - 1
      BY <1>4, <1>5, <2>2
    <3>2. c.buf[b] # EOL
      BY <1>6, <3>1
    <3> QED BY <1>7, <3>2
  <2>5. o + k >= p + w /\ p <= o + k
    BY <1>5, <1>7, <2>4
  <2>6. SoFar'
    <3>1. /\ rd'.from <= Spot(c') /\ Len(rd'.got) = rd'.max
          /\ Spot(c') >= rd'.from + rd'.max
      BY <1>4, <2>1, <2>3, <2>4, <2>5
    <3>2. /\ \A i \in 1 .. Len(rd'.got) : rd'.got[i] = ShownOf(c')[rd'.from + i - 1]
          /\ \A i \in rd'.from .. Spot(c') - 1 : ShownOf(c')[i] # EOL
      <4>1. \A i \in 1 .. Len(rd.got) : rd.got[i] = ShownOf(c)[rd.from + i - 1]
        BY <1>3 DEF SoFar
      <4>2. PICK s : s = Spot(c') /\ s = c.offset + k
        BY <2>3
      <4>3. \A i \in rd.from .. s - 1 : ShownOf(c)[i] # EOL
        BY <1>8, <4>2
      <4> QED BY <2>1, <2>3, <4>1, <4>2, <4>3
    <3>3. pc' = "discard"
      BY <1>2, <2>1
    <3> QED BY <3>1, <3>2, <3>3 DEF SoFar
  <2> QED BY <1>2, <2>1, <2>3, <2>6, GoesOn
<1> QED BY <1>9, <1>10

(* A turn of a raw read.                                                   *)
LEMMA CopyRawIs ==
    ASSUME Maps, IInv', CopyRaw
    PROVE  Maps' /\ (UNCHANGED File!vars \/ File!FinishRead)
<1>1. PICK k : /\ k = c.next + Least(Wanted, c.fill - c.next)
               /\ c' = [c EXCEPT !.next = k]
               /\ IF Len(Take(k)) = rd.max
                  THEN EndRead(Take(k))
                  ELSE /\ rd' = [rd EXCEPT !.got = Take(k)]
                       /\ UNCHANGED <<pc, wr, reply>>
  BY DEF CopyRaw
<1>2. /\ pc = "raw" /\ pc \in {"copy", "discard", "raw"} /\ pc \in {"copy", "raw"}
      /\ c.next < c.fill /\ acc' = acc
  BY DEF CopyRaw
<1>3. /\ IInv /\ ChannelOK(c) /\ SoFar
      /\ VirtualEnd = VirtualOf(c, <<>>) /\ VirtualEnd \in Nat
  BY <1>2, Reading, SpotBelow
<1>4. PICK b \in Nat, f \in Nat, o \in Nat, p \in Nat, w \in Nat, n \in Nat :
        /\ b = c.next /\ f = c.fill /\ o = c.offset /\ p = rd.from /\ w = rd.max
        /\ n = Len(rd.got) /\ n <= w /\ w > 0
  BY <1>2, <1>3, Reading, Fields
<1>5. b < f /\ k = b + Least(w - n, f - b)
  BY <1>1, <1>2, <1>4 DEF Wanted
<1>6. k \in Nat /\ b <= k /\ k <= f /\ n + (k - b) <= w
  <2>1. n <= w
    BY <1>4
  <2> QED BY <1>5, <2>1 DEF Least
<1>7. k \in c.next .. c.fill
  BY <1>4, <1>6
<1>8. /\ SameFile /\ WholeOK(c') /\ Spot(c') = c.offset + k /\ ShownOf(c') = ShownOf(c)
  <2>1. WholeOK(c)
    BY <1>2, Reading
  <2> QED BY <1>1, <1>3, <1>6, <2>1, NextSame
<1>9. PICK m \in Nat, g \in Seq(Byte) : m = Len(g) /\ m = n + (k - b) /\ g = Take(k)
  <2>1. Take(k) \in Seq(Byte) /\ Len(Take(k)) = Len(rd.got) + (k - c.next)
    BY <1>3, <1>7, TakeOK
  <2>2. Len(Take(k)) = n + (k - b)
    BY <1>4, <2>1
  <2>3. n + (k - b) \in Nat
    BY <1>6
  <2> QED BY <2>1, <2>2, <2>3
<1>10. /\ c.offset + k = rd.from + m
       /\ \A i \in 1 .. m : g[i] = ShownOf(c)[rd.from + i - 1]
  BY <1>2, <1>7, <1>9, TakeShows
<1>11. CASE m = w
  <2>1. Return(Reply("data", g))
    <3>1. EndRead(g)
      BY <1>1, <1>4, <1>9, <1>11
    <3>2. g # <<>>
      <4>1. Len(g) > 0
        BY <1>4, <1>9, <1>11
      <4> QED BY <4>1
    <3> QED BY <3>1, <3>2 DEF EndRead
  <2>2. c.offset + c.fill <= VirtualEnd
    BY <1>3, SpotBelow
  <2>3. o + k = p + m /\ o + f <= VirtualEnd
    BY <1>4, <1>10, <2>2
  <2>4. p < VirtualEnd
    <3>1. VirtualEnd \in Nat /\ w > 0 /\ o + f <= VirtualEnd /\ o + k = p + w /\ k <= f
      BY <1>3, <1>4, <1>6, <1>11, <2>3
    <3> QED BY <1>6, <3>1
  <2>5. /\ rd.from < VirtualEnd /\ Len(g) <= rd.max /\ Spot(c') = rd.from + Len(g)
        /\ Len(g) = rd.max
    BY <1>4, <1>8, <1>9, <1>10, <1>11, <2>4
  <2>6. \A i \in 1 .. Len(g) : g[i] = ShownOf(c)[rd.from + i - 1]
    BY <1>9, <1>10
  <2>7. File!ReadReturns
    BY <1>2, <1>8, <2>1, <2>5, <2>6, ReturnsBytes
  <2> QED BY <1>2, <1>8, <2>1, <2>7, ReadEnds
<1>12. CASE m # w
  <2>1. rd' = [rd EXCEPT !.got = g] /\ pc' = pc /\ wr' = wr /\ reply' = reply
    BY <1>1, <1>4, <1>9, <1>12
  <2>2. rd'.got = g /\ rd'.max = rd.max /\ rd'.from = rd.from
    <3>1. rd \in Reads
      BY <1>3 DEF IInv, TypeOK
    <3> QED BY <2>1, <3>1 DEF Reads
  <2>3. SoFar'
    <3>1. Spot(c') = rd'.from + Len(rd'.got) /\ rd'.from <= Spot(c')
      <4>1. rd'.from = p /\ Len(rd'.got) = m /\ Spot(c') = p + m
        BY <1>4, <1>8, <1>9, <1>10, <2>2
      <4> QED BY <4>1
    <3>2. \A i \in 1 .. Len(rd'.got) : rd'.got[i] = ShownOf(c')[rd'.from + i - 1]
      BY <1>8, <1>9, <1>10, <2>2
    <3>3. pc' = "raw"
      BY <1>2, <2>1
    <3> QED BY <3>1, <3>2, <3>3 DEF SoFar
  <2> QED BY <1>2, <1>8, <2>1, <2>2, <2>3, GoesOn
<1> QED BY <1>11, <1>12

-----------------------------------------------------------------------------
(* A channel that is writing, and the file it writes.                      *)
LEMMA Writing ==
    ASSUME Maps, pc = "write"
    PROVE  /\ IInv /\ ChannelOK(c) /\ WholeOK(c) /\ rd = NoRead
           /\ acc # "closed" /\ Oup
           /\ ~c.dirty => Agrees(c)
           /\ wr.line \in Seq(Byte) /\ wr.rest \in Seq(Byte) /\ wr.width \in Nat
           /\ wr.rest # <<>> => wr.width > 0
           /\ Unwritten = After(wr.line, wr.rest, wr.width)
           /\ Unwritten \in Seq(Byte) /\ Len(Unwritten) \in Nat
           /\ FileContent = ContentOf(c, Unwritten) /\ FileEnd = EndOf(c, Unwritten)
           /\ VirtualEnd = VirtualOf(c, Unwritten)
           /\ Position = Spot(c) + Len(Unwritten)
           /\ CallInProgress = [op |-> "write", max |-> 0]
<1>1. /\ IInv /\ ChannelOK(c) /\ WholeOK(c) /\ rd = NoRead
      /\ ~c.dirty => Agrees(c)
  BY DEF Maps, IInv, CleanOK, InWrite
<1>2. /\ Oup /\ wr.line \in Seq(Byte) /\ wr.rest \in Seq(Byte) /\ wr.width \in Nat
      /\ wr.width = 0 => wr.rest = <<>>
  BY <1>1, WriteFacts
<1>3. wr.rest # <<>> => wr.width > 0
  BY <1>2
<1>4. acc # "closed"
  BY <1>2 DEF Oup
<1>5. Unwritten = After(wr.line, wr.rest, wr.width)
  BY DEF Unwritten, After
<1>6. Unwritten \in Seq(Byte)
  <2>1. CASE wr.rest = <<>>
    BY <1>2, <1>5, <2>1 DEF After
  <2>2. CASE wr.rest # <<>>
    <3>1. LinesOf(wr.rest, wr.width) \in Seq(Byte)
      BY <1>2, <1>3, <2>2, LinesTyped
    <3> QED BY <1>2, <1>5, <2>2, <3>1 DEF After
  <2> QED BY <2>1, <2>2
<1>7. Len(Unwritten) \in Nat
  BY <1>6
<1>8. Position = Spot(c) + Len(Unwritten)
  BY DEF Position, Here, Spot
<1>9. CallInProgress = [op |-> "write", max |-> 0]
  BY <1>1 DEF CallInProgress, NoRead
<1> QED BY <1>1, <1>2, <1>3, <1>4, <1>5, <1>6, <1>7, <1>8, <1>9, Views

(* The same file before a step of a write and after it. *)
SameWritten ==
    /\ ContentOf(c', Unwritten') = ContentOf(c, Unwritten)
    /\ EndOf(c', Unwritten') = EndOf(c, Unwritten)
    /\ VirtualOf(c', Unwritten') = VirtualOf(c, Unwritten)
    /\ Spot(c') + Len(Unwritten') = Spot(c) + Len(Unwritten)

(* A write that goes on has changed nothing of the file.                   *)
LEMMA WritesOn ==
    ASSUME Maps, IInv', pc = "write", pc' = "write", UNCHANGED <<rd, reply, acc>>,
           WholeOK(c'), SameWritten
    PROVE  Maps' /\ UNCHANGED File!vars
<1>1. rd' = NoRead /\ acc' # "closed"
  BY Writing
<1>2. Maps'
  BY <1>1 DEF Maps, InRead, InWrite, Quiet, Shut, WholeOK
<1>3. /\ FileContent' = FileContent /\ FileEnd' = FileEnd /\ VirtualEnd' = VirtualEnd
  BY Writing, ViewsNext DEF SameWritten
<1>4. Position' = Spot(c') + Len(Unwritten')
  BY DEF Position, Here, Spot
<1>5. Position' = Position
  BY <1>4, Writing DEF SameWritten
<1>6. CallInProgress' = CallInProgress
  BY <1>1, Writing DEF CallInProgress, NoRead
<1> QED BY <1>2, <1>3, <1>5, <1>6 DEF File!vars

(* A write that fails, and says so.                                        *)
LEMMA WriteFails ==
    ASSUME Maps, IInv', pc = "write", Return(Failed), acc' = acc, WholeOK(c')
    PROVE  Maps' /\ File!Fail
<1>1. pc' = "idle" /\ rd' = NoRead /\ wr' = NoWrite
  BY DEF Return
<1>2. acc # "closed"
  BY Writing
<1>3. Maps'
  BY <1>1, <1>2, AtRest DEF Shut
<1> QED BY <1>2, <1>3, FailIs

(* u2 is what is left of u after its first n bytes, those of line. *)
Left(u, n, u2, line) ==
    /\ u \in Seq(Byte) /\ u2 \in Seq(Byte)
    /\ n \in 0 .. Len(u)
    /\ Len(u2) = Len(u) - n
    /\ \A i \in 1 .. Len(u2) : u2[i] = u[n + i]
    /\ \A i \in 1 .. n : line[i] = u[i]

(* What is left of a line once n bytes of it have gone.                     *)
LEMMA LeftOfLine ==
    ASSUME NEW line \in Seq(Byte), NEW n \in 0 .. Len(line)
    PROVE  Left(line, n, SubSeq(line, n + 1, Len(line)), line)
<1>1. PICK m \in Nat : m = Len(line) /\ n \in 0 .. m /\ n \in Nat /\ n <= m
  OBVIOUS
<1>2. PICK s \in Seq(Byte) : /\ s = SubSeq(line, n + 1, m) /\ Len(s) = m - n
                             /\ \A i \in 1 .. m - n : s[i] = line[n + i]
  <2>1. CASE n = m
    <3>1. SubSeq(line, n + 1, m) = <<>>
      BY <1>1, <2>1, SubSeqEmpty
    <3>2. <<>> \in Seq(Byte) /\ Len(<<>>) = 0
      OBVIOUS
    <3>3. m - n = 0 /\ \A i \in 1 .. m - n : FALSE
      BY <1>1, <2>1
    <3> QED BY <3>1, <3>2, <3>3
  <2>2. CASE n # m
    <3>1. n + 1 \in 1 .. Len(line) + 1 /\ m \in n + 1 - 1 .. Len(line)
      BY <1>1, <2>2
    <3>2. /\ SubSeq(line, n + 1, m) \in Seq(Byte) /\ Len(SubSeq(line, n + 1, m)) = m - n
          /\ \A i \in 1 .. m - n : SubSeq(line, n + 1, m)[i] = line[n + i]
      BY <1>1, <2>2
    <3> QED BY <3>2
  <2> QED BY <2>1, <2>2
<1> QED BY <1>1, <1>2 DEF Left

(* What is left of a sequence is left of one that begins with it.          *)
LEMMA LeftOfBoth ==
    ASSUME NEW line \in Seq(Byte), NEW rest \in Seq(Byte), NEW n, NEW left,
           Left(line, n, left, line)
    PROVE  Left(line \o rest, n, left \o rest, line)
<1>1. PICK m \in Nat, r \in Nat, k \in Nat :
        /\ m = Len(line) /\ r = Len(rest) /\ k = n /\ n <= m
        /\ Len(left) = m - k /\ left \in Seq(Byte)
        /\ \A i \in 1 .. m - k : left[i] = line[k + i]
  <2>1. /\ Len(line) \in Nat /\ Len(rest) \in Nat /\ left \in Seq(Byte)
        /\ n \in 0 .. Len(line)
        /\ Len(left) = Len(line) - n
        /\ \A i \in 1 .. Len(left) : left[i] = line[n + i]
    BY DEF Left
  <2>2. n \in Nat /\ n <= Len(line)
    BY <2>1
  <2>3. \A i \in 1 .. Len(line) - n : left[i] = line[n + i]
    BY <2>1, Zenon
  <2> QED BY <2>1, <2>2, <2>3, Zenon
<1>2. PICK a \in Seq(Byte) :
        /\ a = line \o rest /\ Len(a) = m + r
        /\ \A i \in 1 .. m + r : a[i] = IF i <= m THEN line[i] ELSE rest[i - m]
  <2>1. /\ line \o rest \in Seq(Byte) /\ Len(line \o rest) = Len(line) + Len(rest)
        /\ \A i \in 1 .. Len(line) + Len(rest) :
             (line \o rest)[i] = IF i <= Len(line) THEN line[i] ELSE rest[i - Len(line)]
    BY ConcatProperties
  <2> QED BY <1>1, <2>1, Zenon
<1>3. PICK l \in Nat : l = m - k
  BY <1>1
<1>4. PICK b \in Seq(Byte) :
        /\ b = left \o rest /\ Len(b) = l + r
        /\ \A i \in 1 .. l + r : b[i] = IF i <= l THEN left[i] ELSE rest[i - l]
  <2>1. /\ left \o rest \in Seq(Byte) /\ Len(left \o rest) = Len(left) + Len(rest)
        /\ \A i \in 1 .. Len(left) + Len(rest) :
             (left \o rest)[i] = IF i <= Len(left) THEN left[i] ELSE rest[i - Len(left)]
    BY <1>1, ConcatProperties
  <2>2. Len(left) = l
    BY <1>1, <1>3
  <2> QED BY <1>1, <2>1, <2>2, Zenon
<1>5. l + k = m /\ k \in 0 .. m + r /\ l + r = (m + r) - k /\ k <= m
  BY <1>1, <1>3
<1>6. ASSUME NEW i \in 1 .. l + r
      PROVE  b[i] = a[k + i]
  <2>1. i \in Nat /\ k + i \in 1 .. m + r
    BY <1>5
  <2>2. CASE i <= l
    <3>1. k + i <= m /\ i \in 1 .. m - k
      BY <1>3, <1>5, <2>1, <2>2
    <3>2. left[i] = line[k + i]
      BY <1>1, <3>1
    <3> QED BY <1>2, <1>4, <2>1, <2>2, <3>1, <3>2
  <2>3. CASE ~(i <= l)
    <3>1. ~(k + i <= m) /\ (k + i) - m = i - l
      BY <1>5, <2>1, <2>3
    <3>2. a[k + i] = rest[(k + i) - m] /\ b[i] = rest[i - l]
      BY <1>2, <1>4, <1>6, <2>1, <2>3, <3>1
    <3> QED BY <3>1, <3>2
  <2> QED BY <2>2, <2>3
<1>7. \A i \in 1 .. k : line[i] = a[i]
  <2>1. \A i \in 1 .. k : i \in 1 .. m + r /\ i <= m
    BY <1>5
  <2> QED BY <1>2, <2>1
<1>8. Left(a, k, b, line)
  BY <1>2, <1>4, <1>5, <1>6, <1>7 DEF Left
<1> QED BY <1>1, <1>2, <1>4, <1>8

(* What is left to write once n bytes of the line have gone.               *)
LEMMA WroteLeft ==
    ASSUME Maps, pc = "write", NEW n \in 0 .. Len(wr.line), Wrote(n)
    PROVE  Left(Unwritten, n, Unwritten', wr.line)
<1>1. PICK line \in Seq(Byte), rest \in Seq(Byte), w \in Nat :
        /\ line = wr.line /\ rest = wr.rest /\ w = wr.width
        /\ rest # <<>> => w > 0
        /\ Unwritten = After(line, rest, w)
  BY Writing
<1>2. PICK left : left = SubSeq(line, n + 1, Len(line))
  OBVIOUS
<1>3. wr'.line = left /\ wr'.rest = rest /\ wr'.width = w
  <2>1. wr \in Writes
    BY Writing DEF IInv, TypeOK
  <2>2. wr' = [wr EXCEPT !.line = left]
    BY <1>1, <1>2 DEF Wrote
  <2> QED BY <1>1, <2>1, <2>2 DEF Writes
<1>4. Unwritten' = After(left, rest, w)
  BY <1>3 DEF Unwritten, After
<1>5. Left(line, n, left, line)
  BY <1>1, <1>2, LeftOfLine
<1>6. CASE rest = <<>>
  BY <1>1, <1>4, <1>5, <1>6 DEF After
<1>7. CASE rest # <<>>
  <2>1. PICK l \in Seq(Byte) : l = LinesOf(rest, w)
    BY <1>1, <1>7, LinesTyped
  <2>2. Left(line \o l, n, left \o l, line)
    BY <1>5, LeftOfBoth
  <2> QED BY <1>1, <1>4, <1>7, <2>1, <2>2 DEF After
<1> QED BY <1>6, <1>7

(* While a line is unfinished there is something to write.                 *)
LEMMA SomethingLeft ==
    ASSUME Maps, pc = "write", wr.line # <<>>
    PROVE  Unwritten # <<>> /\ Len(wr.line) \in Nat /\ Len(wr.line) > 0
<1>1. PICK n \in Nat : n = Len(wr.line) /\ n > 0
  <2>1. PICK l \in Seq(Byte) : l = wr.line /\ l # <<>>
    BY Writing
  <2>2. Len(l) \in Nat /\ Len(l) > 0
    BY <2>1
  <2> QED BY <2>1, <2>2
<1>2. CASE wr.rest = <<>>
  BY <1>2, Writing DEF After
<1>3. CASE wr.rest # <<>>
  <2>1. PICK l \in Seq(Byte), r \in Seq(Byte) : l = wr.line /\ r = LinesOf(wr.rest, wr.width)
    BY <1>3, Writing, LinesTyped
  <2>2. Unwritten = l \o r
    BY <1>3, <2>1, Writing DEF After
  <2>3. Len(l \o r) = Len(l) + Len(r) /\ Len(l) \in Nat /\ Len(r) \in Nat
    BY ConcatProperties
  <2>4. Len(l \o r) > 0
    <3>1. Len(l) > 0
      BY <1>1, <2>1
    <3> QED BY <2>3, <3>1
  <2>5. l \o r # <<>>
    BY <2>4
  <2> QED BY <1>1, <2>2, <2>5
<1> QED BY <1>1, <1>2, <1>3

(* The same file, though seen in another channel or with less to write.    *)
Same(ch, u, ch2, u2) ==
    /\ ContentOf(ch2, u2) = ContentOf(ch, u)
    /\ EndOf(ch2, u2) = EndOf(ch, u)
    /\ VirtualOf(ch2, u2) = VirtualOf(ch, u)

(* While there is something to write, where the file ends.                 *)
LEMMA EndIs ==
    ASSUME NEW ch, ChannelOK(ch), NEW u \in Seq(Byte), u # <<>>
    PROVE  /\ EndOf(ch, u) = Greatest(IF ch.fill > 0 THEN Greatest(ch.eof, ch.offset + ch.fill)
                                      ELSE ch.eof, Spot(ch) + Len(u))
           /\ VirtualOf(ch, u) = EndOf(ch, u)
           /\ Held(ch, u) /\ Len(u) \in Nat /\ Len(u) > 0
<1>1. Held(ch, u)
  BY DEF Held
<1>2. Len(u) \in Nat /\ Len(u) > 0
  OBVIOUS
<1> QED BY <1>1, <1>2 DEF EndOf, BottomEnd, VirtualOf

(* A buffer filled from the file shows what the file does.                 *)
LEMMA LoadView ==
    ASSUME NEW ch, ChannelOK(ch), ch.fill = 0, NEW u \in Seq(Byte), u # <<>>,
           NEW ch2, ch2 = fillbuf(ch)
    PROVE  Same(ch, u, ch2, u) /\ Spot(ch2) = Spot(ch)
<1>1. /\ ChannelOK(ch2) /\ ch2.next = 0 /\ ch2.offset = ch.offset
      /\ ch2.eof = ch.eof /\ ch2.disk = ch.disk
      /\ ch2.fill > 0 => ch.offset + ch2.fill <= ch.eof
      /\ \A i \in Slots : ch.offset + i < ch.eof => ch2.buf[i] = ch.disk[ch.offset + i]
  BY FillOK
<1>2. ch.next = 0
  BY Fields
<1>3. Spot(ch2) = Spot(ch)
  BY <1>1, <1>2 DEF Spot
<1>4. \A i \in Cells : i \in Int
  BY BufferAssumption DEF Cells
<1>5. Held(ch, u) /\ Held(ch2, u)
  BY DEF Held
<1>6. \A i \in Cells : Cell(ch2, u, i) = Cell(ch, u, i)
  <2> SUFFICES ASSUME NEW i \in Cells PROVE Cell(ch2, u, i) = Cell(ch, u, i)
    OBVIOUS
  <2>1. CASE Spot(ch) <= i /\ i < Spot(ch) + Len(u)
    BY <1>3, <2>1 DEF Cell
  <2>2. CASE ~(Spot(ch) <= i /\ i < Spot(ch) + Len(u))
    <3>1. ~(ch.offset <= i /\ i < ch.offset + ch.fill)
      BY <1>4, Fields
    <3>2. Cell(ch, u, i) = ch.disk[i]
      BY <2>2, <3>1 DEF Cell
    <3>3. Cell(ch2, u, i) = IF ch.offset <= i /\ i < ch.offset + ch2.fill
                            THEN ch2.buf[i - ch.offset] ELSE ch.disk[i]
      BY <1>1, <1>3, <1>5, <2>2 DEF Cell
    <3>4. ch.offset <= i /\ i < ch.offset + ch2.fill => ch2.buf[i - ch.offset] = ch.disk[i]
      <4> SUFFICES ASSUME ch.offset <= i, i < ch.offset + ch2.fill
                   PROVE  ch2.buf[i - ch.offset] = ch.disk[i]
        OBVIOUS
      <4>1. PICK o \in Nat, f \in Nat, e \in Nat :
              o = ch.offset /\ f = ch2.fill /\ e = ch.eof /\ f <= Size /\ Size \in Nat
        <5>1. ch.offset \in Nat /\ ch.eof \in Nat /\ Size \in Nat
          BY Fields
        <5>2. ch2.fill \in 0 .. Size /\ ch2.fill \in Nat
          BY <1>1, Fields
        <5>3. ch2.fill <= Size
          BY <5>1, <5>2
        <5> QED BY <5>1, <5>2, <5>3
      <4>2. f > 0 /\ o + f <= e
        BY <1>1, <1>4, <4>1
      <4>3. i - o \in 0 .. Size - 1 /\ o + (i - o) = i /\ i < e
        BY <1>4, <4>1, <4>2
      <4>4. PICK j \in Slots : j = i - o /\ o + j = i /\ o + j < e
        BY <4>3 DEF Slots
      <4> QED BY <1>1, <4>1, <4>4
    <3> QED BY <3>2, <3>3, <3>4
  <2> QED BY <2>1, <2>2
<1>7. ContentOf(ch2, u) = ContentOf(ch, u)
  BY <1>1, <1>6, SameView
<1>8. EndOf(ch2, u) = EndOf(ch, u)
  <2>1. (IF ch2.fill > 0 THEN Greatest(ch2.eof, ch2.offset + ch2.fill) ELSE ch2.eof) = ch.eof
    <3>1. CASE ch2.fill > 0
      <4>1. PICK e \in Nat, s \in Nat : e = ch.eof /\ s = ch.offset + ch2.fill /\ s <= e
        BY <1>1, <3>1, Fields
      <4>2. Greatest(e, s) = e
        BY <4>1 DEF Greatest
      <4> QED BY <1>1, <3>1, <4>1, <4>2
    <3>2. CASE ~(ch2.fill > 0)
      BY <1>1, <3>2
    <3> QED BY <3>1, <3>2
  <2>2. (IF ch.fill > 0 THEN Greatest(ch.eof, ch.offset + ch.fill) ELSE ch.eof) = ch.eof
    OBVIOUS
  <2>3. EndOf(ch, u) = Greatest(ch.eof, Spot(ch) + Len(u))
    BY <2>2, EndIs
  <2>4. EndOf(ch2, u) = Greatest(ch.eof, Spot(ch2) + Len(u))
    BY <1>1, <2>1, EndIs
  <2> QED BY <1>3, <2>3, <2>4
<1>9. VirtualOf(ch2, u) = VirtualOf(ch, u)
  BY <1>1, <1>8, EndIs
<1> QED BY <1>3, <1>7, <1>8, <1>9 DEF Same

(* Bytes put into the buffer are in the file they were to be in.           *)
LEMMA PutView ==
    ASSUME NEW ch, ChannelOK(ch), NEW ch2, ChannelOK(ch2),
           NEW u, NEW n, NEW u2, NEW line, Left(u, n, u2, line), n > 0,
           ch2 = [ch EXCEPT !.buf = Copy(@, ch.next, n, line, 1),
                            !.next = @ + n,
                            !.fill = Greatest(@, ch.next + n),
                            !.dirty = TRUE]
    PROVE  Same(ch, u, ch2, u2) /\ Spot(ch2) = Spot(ch) + n
<1>1. /\ u \in Seq(Byte) /\ u2 \in Seq(Byte) /\ Len(u) \in Nat /\ Len(u2) \in Nat
      /\ n \in Nat /\ n <= Len(u) /\ Len(u2) = Len(u) - n
      /\ \A i \in 1 .. Len(u2) : u2[i] = u[n + i]
      /\ \A i \in 1 .. n : line[i] = u[i]
  BY DEF Left
<1>2. u # <<>>
  <2>1. Len(u) > 0
    BY <1>1
  <2> QED BY <2>1
<1>3. PICK b \in Nat, f \in Nat, o \in Nat, e \in Nat, l \in Nat, f2 \in Nat :
        /\ b = ch.next /\ f = ch.fill /\ o = ch.offset /\ e = ch.eof /\ l = Len(u) /\ b <= f
        /\ f2 = Greatest(f, b + n)
  <2>1. /\ ch.next \in Nat /\ ch.fill \in Nat /\ ch.offset \in Nat /\ ch.eof \in Nat
        /\ ch.next <= ch.fill
    BY Fields
  <2>2. Greatest(ch.fill, ch.next + n) \in Nat
    BY <1>1, <2>1 DEF Greatest
  <2> QED BY <1>1, <2>1, <2>2
<1>4. /\ ch2.next = b + n /\ ch2.fill = f2 /\ ch2.offset = o /\ ch2.eof = e
      /\ ch2.disk = ch.disk /\ ch2.dirty = TRUE
      /\ ch2.buf = Copy(ch.buf, b, n, line, 1)
  BY <1>3 DEF ChannelOK, Channel
<1>5. f2 >= f /\ f2 >= b + n /\ (f2 = f \/ f2 = b + n) /\ f2 > 0
  BY <1>1, <1>3 DEF Greatest
<1>6. Spot(ch) = o + b /\ Spot(ch2) = o + (b + n)
  BY <1>3, <1>4 DEF Spot
<1>7. Held(ch, u) /\ Held(ch2, u2)
  BY <1>2, <1>4, <1>5 DEF Held
<1>8. f2 <= Size /\ Size \in Nat
  <2>1. ch2.fill \in 0 .. Size /\ Size \in Nat
    BY Fields
  <2> QED BY <1>4, <2>1
<1>9. \A j \in Slots : ch2.buf[j] = IF b <= j /\ j < b + n THEN line[1 + (j - b)] ELSE ch.buf[j]
  <2>1. DOMAIN ch.buf = Slots
    BY Fields
  <2> QED BY <1>4, <2>1 DEF Copy
<1>10. \A i \in Cells : Cell(ch2, u2, i) = Cell(ch, u, i)
  <2> SUFFICES ASSUME NEW i \in Cells PROVE Cell(ch2, u2, i) = Cell(ch, u, i)
    OBVIOUS
  <2>1. i \in Int
    BY BufferAssumption DEF Cells
  <2>2. CASE o + (b + n) <= i /\ i < o + (b + l)
    <3>1. PICK j \in Nat : j = i - (o + (b + n)) + 1 /\ j \in 1 .. Len(u2) /\ n + j = i - (o + b) + 1
      <4>1. Len(u2) = l - n
        BY <1>1, <1>3
      <4>2. i - (o + (b + n)) + 1 \in 1 .. l - n /\ n + (i - (o + (b + n)) + 1) = i - (o + b) + 1
            /\ i - (o + (b + n)) + 1 \in Nat
        <5>1. n \in Nat
          BY <1>1
        <5> QED BY <2>1, <2>2, <5>1
      <4> QED BY <4>1, <4>2
    <3>2. Spot(ch2) <= i /\ i < Spot(ch2) + Len(u2) /\ i - Spot(ch2) + 1 = j
      <4>1. Len(u2) = l - n
        BY <1>1, <1>3
      <4>2. o + (b + n) <= i /\ i < (o + (b + n)) + (l - n)
        BY <1>1, <2>1, <2>2
      <4> QED BY <1>6, <3>1, <4>1, <4>2
    <3>3. Cell(ch2, u2, i) = u2[j]
      BY <3>2 DEF Cell
    <3>4. Spot(ch) <= i /\ i < Spot(ch) + Len(u) /\ i - Spot(ch) + 1 = n + j
      <4>1. o + b <= i /\ i < (o + b) + l
        BY <1>1, <2>1, <2>2
      <4> QED BY <1>3, <1>6, <3>1, <4>1
    <3>5. Cell(ch, u, i) = u[n + j]
      BY <3>4 DEF Cell
    <3> QED BY <1>1, <3>1, <3>3, <3>5
  <2>3. CASE o + b <= i /\ i < o + (b + n)
    <3>1. PICK j \in Slots : j = i - o /\ b <= j /\ j < b + n
      <4>1. f2 <= Size /\ Size \in Nat
        BY <1>8
      <4>2. i - o \in 0 .. Size - 1 /\ b <= i - o /\ i - o < b + n
        BY <1>1, <1>5, <2>1, <2>3, <4>1
      <4> QED BY <4>2 DEF Slots
    <3>2. PICK k \in 1 .. n : k = 1 + (j - b) /\ k = i - (o + b) + 1
      <4>1. 1 + (i - o - b) \in 1 .. n /\ 1 + (i - o - b) = i - (o + b) + 1
        BY <1>1, <2>1, <2>3
      <4> QED BY <3>1, <4>1
    <3>3. Spot(ch) <= i /\ i < Spot(ch) + Len(u) /\ i - Spot(ch) + 1 = k
      <4>1. o + b <= i /\ i < (o + b) + l
        BY <1>1, <1>3, <2>1, <2>3
      <4> QED BY <1>3, <1>6, <3>2, <4>1
    <3>4. Cell(ch, u, i) = u[k]
      BY <3>3 DEF Cell
    <3>5. ~(Spot(ch2) <= i /\ i < Spot(ch2) + Len(u2))
      <4>1. n \in Nat
        BY <1>1
      <4>2. ~(o + (b + n) <= i)
        BY <2>1, <2>3, <4>1
      <4> QED BY <1>6, <4>2
    <3>6. ch2.offset <= i /\ i < ch2.offset + ch2.fill
      <4>1. o <= i /\ i < o + f2
        BY <1>1, <1>5, <2>1, <2>3
      <4> QED BY <1>4, <4>1
    <3>7. Cell(ch2, u2, i) = ch2.buf[i - ch2.offset]
      BY <1>7, <3>5, <3>6 DEF Cell
    <3>8. ch2.buf[j] = line[k]
      BY <1>9, <3>1, <3>2
    <3> QED BY <1>1, <1>4, <3>1, <3>4, <3>7, <3>8
  <2>4. CASE ~(o + b <= i /\ i < o + (b + l))
    <3>1. ~(Spot(ch) <= i /\ i < Spot(ch) + Len(u))
      <4>1. ~(o + b <= i /\ i < (o + b) + l)
        BY <2>1, <2>4
      <4> QED BY <1>3, <1>6, <4>1
    <3>2. ~(Spot(ch2) <= i /\ i < Spot(ch2) + Len(u2))
      <4>1. Len(u2) = l - n
        BY <1>1, <1>3
      <4>2. ~(o + (b + n) <= i /\ i < (o + (b + n)) + (l - n))
        BY <1>1, <2>1, <2>4
      <4> QED BY <1>6, <4>1, <4>2
    <3>3. Cell(ch, u, i) = IF o <= i /\ i < o + f THEN ch.buf[i - o] ELSE ch.disk[i]
      BY <1>3, <1>7, <3>1 DEF Cell
    <3>4. Cell(ch2, u2, i) = IF o <= i /\ i < o + f2 THEN ch2.buf[i - o] ELSE ch.disk[i]
      BY <1>4, <1>7, <3>2 DEF Cell
    <3>5. n <= l
      BY <1>1, <1>3
    <3>6. o <= i /\ i < o + f2 <=> o <= i /\ i < o + f
      BY <1>1, <1>3, <1>5, <2>1, <2>4, <3>5
    <3>7. o <= i /\ i < o + f2 => ch2.buf[i - o] = ch.buf[i - o]
      <4> SUFFICES ASSUME o <= i, i < o + f2 PROVE ch2.buf[i - o] = ch.buf[i - o]
        OBVIOUS
      <4>1. f2 <= Size /\ Size \in Nat
        BY <1>8
      <4>2. i - o \in 0 .. Size - 1 /\ ~(b <= i - o /\ i - o < b + n)
        BY <1>1, <2>1, <2>4, <3>5, <4>1
      <4>3. PICK j \in Slots : j = i - o /\ ~(b <= j /\ j < b + n)
        BY <4>2 DEF Slots
      <4> QED BY <1>9, <4>3
    <3> QED BY <3>3, <3>4, <3>6, <3>7
  <2>5. o + b <= i /\ i < o + (b + l) => \/ o + (b + n) <= i /\ i < o + (b + l)
                                         \/ o + b <= i /\ i < o + (b + n)
    BY <1>1, <2>1
  <2> QED BY <2>2, <2>3, <2>4, <2>5
<1>11. ContentOf(ch2, u2) = ContentOf(ch, u)
  BY <1>1, <1>10, SameView
<1>12. EndOf(ch2, u2) = EndOf(ch, u)
  <2>1. EndOf(ch, u) = Greatest(IF f > 0 THEN Greatest(e, o + f) ELSE e, (o + b) + l)
    BY <1>1, <1>2, <1>3, <1>6, EndIs
  <2>2. EndOf(ch2, u2) = IF u2 = <<>> THEN Greatest(e, o + f2)
                         ELSE Greatest(Greatest(e, o + f2), (o + (b + n)) + (l - n))
    <3>1. Len(u2) = l - n
      BY <1>1, <1>3
    <3>2. BottomEnd(ch2, u2) = Greatest(e, o + f2)
      BY <1>4, <1>5, <1>7 DEF BottomEnd
    <3> QED BY <1>6, <3>1, <3>2 DEF EndOf
  <2>3. u2 = <<>> <=> l = n
    <3>1. u2 = <<>> <=> Len(u2) = 0
      BY <1>1
    <3>2. Len(u2) = l - n
      BY <1>1, <1>3
    <3> QED BY <1>1, <3>1, <3>2
  <2>4. n <= l /\ b <= f
    BY <1>1, <1>3
  <2>5. l = n => Greatest(e, o + f2)
                   = Greatest(IF f > 0 THEN Greatest(e, o + f) ELSE e, (o + b) + l)
    BY <1>1, <1>5, <2>4 DEF Greatest
  <2>6. Greatest(Greatest(e, o + f2), (o + (b + n)) + (l - n))
          = Greatest(IF f > 0 THEN Greatest(e, o + f) ELSE e, (o + b) + l)
    BY <1>1, <1>5, <2>4 DEF Greatest
  <2> QED BY <2>1, <2>2, <2>3, <2>5, <2>6
<1>13. VirtualOf(ch2, u2) = VirtualOf(ch, u)
  <2>1. VirtualOf(ch2, u2) = EndOf(ch2, u2)
    BY <1>7 DEF VirtualOf
  <2> QED BY <1>1, <1>2, <1>12, <2>1, EndIs
<1>14. Spot(ch2) = Spot(ch) + n
  <2>1. n \in Nat
    BY <1>1
  <2>2. o + (b + n) = (o + b) + n
    BY <2>1
  <2> QED BY <1>6, <2>2
<1> QED BY <1>11, <1>12, <1>13, <1>14 DEF Same

(* Bytes put past the buffer are in the file too, and what the buffer held *)
(* was where they have gone.                                               *)
LEMMA DirectView ==
    ASSUME NEW ch, ChannelOK(ch), ch.next = 0, NEW ch2, ChannelOK(ch2),
           NEW u, NEW n, NEW u2, NEW line, Left(u, n, u2, line), n >= Size,
           ch2.offset = ch.offset + n, ch2.next = 0, ch2.fill = 0,
           ch2.eof = Greatest(ch.eof, ch.offset + n),
           ch2.disk = Copy(ch.disk, ch.offset, n, line, 1)
    PROVE  Same(ch, u, ch2, u2) /\ Spot(ch2) = Spot(ch) + n
<1>1. /\ u \in Seq(Byte) /\ u2 \in Seq(Byte) /\ Len(u) \in Nat /\ Len(u2) \in Nat
      /\ n \in Nat /\ n <= Len(u) /\ Len(u2) = Len(u) - n
      /\ \A i \in 1 .. Len(u2) : u2[i] = u[n + i]
      /\ \A i \in 1 .. n : line[i] = u[i]
  BY DEF Left
<1>2. PICK f \in Nat, o \in Nat, e \in Nat, l \in Nat :
        f = ch.fill /\ o = ch.offset /\ e = ch.eof /\ l = Len(u) /\ f <= n /\ n > 0 /\ n <= l
  <2>1. /\ ch.fill \in Nat /\ ch.offset \in Nat /\ ch.eof \in Nat /\ ch.fill \in 0 .. Size
        /\ Size \in Nat /\ Size > 0
    BY Fields
  <2>2. ch.fill <= n /\ n > 0
    BY <1>1, <2>1
  <2> QED BY <1>1, <2>1, <2>2
<1>3. u # <<>>
  <2>1. Len(u) > 0
    BY <1>1, <1>2
  <2> QED BY <2>1
<1>4. /\ Spot(ch) = o /\ Spot(ch2) = o + n /\ Len(u2) = l - n
      /\ ch2.offset = o + n /\ ch2.eof = Greatest(e, o + n)
  BY <1>1, <1>2 DEF Spot
<1>5. \A i \in Cells : i \in Int
  BY BufferAssumption DEF Cells
<1>6. \A i \in Cells : ch2.disk[i] = IF o <= i /\ i < o + n THEN line[1 + (i - o)] ELSE ch.disk[i]
  <2>1. DOMAIN ch.disk = Cells
    BY Fields
  <2> QED BY <1>2, <2>1 DEF Copy
<1>7. \A i \in Cells : Cell(ch2, u2, i) = Cell(ch, u, i)
  <2> SUFFICES ASSUME NEW i \in Cells PROVE Cell(ch2, u2, i) = Cell(ch, u, i)
    OBVIOUS
  <2>1. i \in Int
    BY <1>5
  <2>2. ~(ch2.offset <= i /\ i < ch2.offset + ch2.fill)
    <3>1. ~(o + n <= i /\ i < (o + n) + 0)
      BY <1>1, <2>1
    <3> QED BY <1>4, <3>1
  <2>3. CASE o + n <= i /\ i < o + l
    <3>1. PICK j \in Nat : j = i - (o + n) + 1 /\ j \in 1 .. l - n /\ n + j = i - o + 1
      <4>1. /\ i - (o + n) + 1 \in 1 .. l - n /\ n + (i - (o + n) + 1) = i - o + 1
            /\ i - (o + n) + 1 \in Nat
        <5>1. n \in Nat
          BY <1>1
        <5> QED BY <2>1, <2>3, <5>1
      <4> QED BY <4>1
    <3>2. o + n <= i /\ i < (o + n) + (l - n) /\ o <= i
      BY <1>1, <1>2, <2>1, <2>3
    <3>3. Cell(ch2, u2, i) = u2[j]
      BY <1>4, <3>1, <3>2 DEF Cell
    <3>4. Cell(ch, u, i) = u[n + j]
      BY <1>2, <1>4, <2>3, <3>1, <3>2 DEF Cell
    <3> QED BY <1>1, <1>4, <3>1, <3>3, <3>4
  <2>4. CASE o <= i /\ i < o + n
    <3>1. PICK k \in 1 .. n : k = 1 + (i - o) /\ k = i - o + 1
      <4>1. 1 + (i - o) \in 1 .. n /\ 1 + (i - o) = i - o + 1
        BY <1>1, <2>1, <2>4
      <4> QED BY <4>1
    <3>2. i < o + l /\ ~(o + n <= i)
      BY <1>1, <1>2, <2>1, <2>4
    <3>3. Cell(ch, u, i) = u[k]
      BY <1>2, <1>4, <2>4, <3>1, <3>2 DEF Cell
    <3>4. Cell(ch2, u2, i) = ch2.disk[i]
      BY <1>4, <2>2, <3>2 DEF Cell
    <3>5. ch2.disk[i] = line[k]
      BY <1>6, <2>4, <3>1
    <3> QED BY <1>1, <3>1, <3>3, <3>4, <3>5
  <2>5. CASE ~(o <= i /\ i < o + l)
    <3>1. ~(o <= i /\ i < o + n) /\ ~(o + n <= i /\ i < (o + n) + (l - n))
          /\ ~(o <= i /\ i < o + f)
      BY <1>1, <1>2, <2>1, <2>5
    <3>2. Cell(ch, u, i) = ch.disk[i]
      BY <1>2, <1>4, <2>5, <3>1 DEF Cell
    <3>3. Cell(ch2, u2, i) = ch2.disk[i]
      BY <1>4, <2>2, <3>1 DEF Cell
    <3> QED BY <1>6, <3>1, <3>2, <3>3
  <2>6. o <= i /\ i < o + l => (o + n <= i /\ i < o + l) \/ (o <= i /\ i < o + n)
    BY <1>1, <2>1
  <2> QED BY <2>3, <2>4, <2>5, <2>6
<1>8. ContentOf(ch2, u2) = ContentOf(ch, u)
  BY <1>1, <1>7, SameView
<1>9. EndOf(ch, u) = Greatest(e, o + l)
  <2>1. EndOf(ch, u) = Greatest(IF f > 0 THEN Greatest(e, o + f) ELSE e, o + l)
    BY <1>1, <1>2, <1>3, <1>4, EndIs
  <2>2. Greatest(IF f > 0 THEN Greatest(e, o + f) ELSE e, o + l) = Greatest(e, o + l)
    <3>1. f <= l
      BY <1>1, <1>2
    <3> QED BY <3>1 DEF Greatest
  <2> QED BY <2>1, <2>2
<1>10. BottomEnd(ch2, u2) = Greatest(e, o + n)
  BY <1>4 DEF BottomEnd
<1>11. EndOf(ch2, u2) = Greatest(e, o + l) /\ VirtualOf(ch2, u2) = Greatest(e, o + l)
  <2>1. CASE u2 = <<>>
    <3>1. l = n
      <4>1. Len(u2) = 0
        BY <2>1
      <4> QED BY <1>1, <1>4, <4>1
    <3>2. EndOf(ch2, u2) = Greatest(e, o + n)
      BY <1>10, <2>1 DEF EndOf
    <3>3. ~Held(ch2, u2)
      BY <2>1 DEF Held
    <3>4. VirtualOf(ch2, u2) = Greatest(Greatest(e, o + n), (o + n) + 0)
      BY <1>4, <3>3 DEF VirtualOf
    <3>5. Greatest(Greatest(e, o + n), (o + n) + 0) = Greatest(e, o + n)
      BY <1>1 DEF Greatest
    <3> QED BY <3>1, <3>2, <3>4, <3>5
  <2>2. CASE u2 # <<>>
    <3>1. EndOf(ch2, u2) = Greatest(Greatest(e, o + n), (o + n) + (l - n))
      BY <1>4, <1>10, <2>2 DEF EndOf
    <3>2. Greatest(Greatest(e, o + n), (o + n) + (l - n)) = Greatest(e, o + l)
      <4>1. n <= l
        BY <1>2
      <4> QED BY <1>1, <4>1 DEF Greatest
    <3>3. VirtualOf(ch2, u2) = EndOf(ch2, u2)
      BY <2>2 DEF VirtualOf, Held
    <3> QED BY <3>1, <3>2, <3>3
  <2> QED BY <2>1, <2>2
<1>12. VirtualOf(ch, u) = EndOf(ch, u)
  BY <1>1, <1>3, EndIs
<1> QED BY <1>4, <1>8, <1>9, <1>11, <1>12 DEF Same

(* A write is to the file what RecordFile says of one.                     *)
LEMMA StartView ==
    ASSUME NEW ch, ChannelOK(ch), ~ch.dirty => Agrees(ch),
           NEW u \in Seq(Byte), u # <<>>, NEW i \in Cells
    PROVE  IF Spot(ch) <= i /\ i < Spot(ch) + Len(u)
           THEN ContentOf(ch, u)[i] = u[i - Spot(ch) + 1]
           ELSE i < EndOf(ch, <<>>) => ContentOf(ch, u)[i] = ContentOf(ch, <<>>)[i]
<1>1. ContentOf(ch, u)[i] = Cell(ch, u, i)
  BY ViewIs
<1>2. PICK v \in Seq(Byte) : v = <<>> /\ Len(v) = 0
  <2>1. <<>> \in Seq(Byte) /\ Len(<<>>) = 0
    OBVIOUS
  <2> QED BY <2>1
<1>3. ContentOf(ch, v)[i] = Cell(ch, v, i)
  BY ViewIs
<1>4. i \in Int
  BY BufferAssumption DEF Cells
<1>5. CASE Spot(ch) <= i /\ i < Spot(ch) + Len(u)
  BY <1>1, <1>5 DEF Cell
<1>6. CASE ~(Spot(ch) <= i /\ i < Spot(ch) + Len(u))
  <2> SUFFICES ASSUME i < EndOf(ch, <<>>)
               PROVE  ContentOf(ch, u)[i] = ContentOf(ch, <<>>)[i]
    BY <1>6
  <2>1. ~(Spot(ch) <= i /\ i < Spot(ch) + Len(v))
    BY <1>2, <1>4, Fields
  <2>2. Held(ch, u)
    BY DEF Held
  <2>3. Cell(ch, u, i) = IF ch.offset <= i /\ i < ch.offset + ch.fill
                         THEN ch.buf[i - ch.offset] ELSE ch.disk[i]
    BY <1>6, <2>2 DEF Cell
  <2>4. CASE ch.dirty
    <3>1. ch.offset <= i /\ i < ch.offset + ch.fill => Held(ch, v)
      BY <1>4, <2>4, Fields DEF Held
    <3>2. Cell(ch, v, i) = IF ch.offset <= i /\ i < ch.offset + ch.fill
                           THEN ch.buf[i - ch.offset] ELSE ch.disk[i]
      BY <2>1, <3>1 DEF Cell
    <3> QED BY <1>1, <1>2, <1>3, <2>3, <3>2
  <2>5. CASE ~ch.dirty
    <3>1. ContentOf(ch, <<>>) = ch.disk /\ EndOf(ch, <<>>) = ch.eof
      BY <2>5, CleanView
    <3>2. ch.offset <= i /\ i < ch.offset + ch.fill => ch.buf[i - ch.offset] = ch.disk[i]
      <4> SUFFICES ASSUME ch.offset <= i, i < ch.offset + ch.fill
                   PROVE  ch.buf[i - ch.offset] = ch.disk[i]
        OBVIOUS
      <4>1. PICK j \in Slots : j = i - ch.offset /\ j < ch.fill /\ ch.offset + j = i
        <5>1. i - ch.offset \in Slots /\ i - ch.offset < ch.fill /\ ch.offset + (i - ch.offset) = i
          BY <1>4, Fields DEF Slots
        <5> QED BY <5>1
      <4> QED BY <2>5, <3>1, <4>1 DEF Agrees
    <3> QED BY <1>1, <2>3, <3>1, <3>2
  <2> QED BY <2>4, <2>5, Fields
<1> QED BY <1>5, <1>6

(* The end of the file after a write: the old one, that of the bytes written, *)
(* or one that the channel had already.                                    *)
LEMMA StartEnd ==
    ASSUME NEW ch, ChannelOK(ch), NEW u \in Seq(Byte), u # <<>>,
           NEW e, e = EndOf(ch, u), NEW last, last = Spot(ch) + Len(u)
    PROVE  /\ e >= EndOf(ch, <<>>) /\ e >= last
           /\ e = last \/ e <= VirtualOf(ch, <<>>)
<1>1. PICK b \in Nat : /\ b = IF ch.fill > 0 THEN Greatest(ch.eof, ch.offset + ch.fill) ELSE ch.eof
                       /\ b >= ch.eof
                       /\ EndOf(ch, <<>>) <= b /\ b <= VirtualOf(ch, <<>>)
  <2>1. PICK x \in Nat, s \in Nat, f \in Nat :
          x = ch.eof /\ s = ch.offset + ch.fill /\ f = ch.fill
    BY Fields
  <2>2. EndOf(ch, <<>>) = (IF ch.dirty /\ f > 0 THEN Greatest(x, s) ELSE x)
    BY <2>1 DEF EndOf, BottomEnd, Held
  <2>3. VirtualOf(ch, <<>>) = Greatest(EndOf(ch, <<>>), s)
    BY <2>1, VirtualIs
  <2>4. PICK y \in Nat : y = EndOf(ch, <<>>) /\ (y = x \/ (f > 0 /\ y = Greatest(x, s)))
    <3>1. Greatest(x, s) \in Nat
      BY DEF Greatest
    <3> QED BY <2>2, <3>1
  <2>5. /\ (IF f > 0 THEN Greatest(x, s) ELSE x) \in Nat
        /\ (IF f > 0 THEN Greatest(x, s) ELSE x) >= x
        /\ y <= (IF f > 0 THEN Greatest(x, s) ELSE x)
        /\ (IF f > 0 THEN Greatest(x, s) ELSE x) <= Greatest(y, s)
    BY <2>4 DEF Greatest
  <2> QED BY <2>1, <2>3, <2>4, <2>5
<1>2. EndOf(ch, u) = Greatest(b, last) /\ last \in Nat
  BY <1>1, EndIs, Fields
<1>3. PICK x \in Nat, y \in Nat : x = EndOf(ch, <<>>) /\ y = VirtualOf(ch, <<>>)
  <2>1. <<>> \in Seq(Byte)
    OBVIOUS
  <2> QED BY <2>1, ViewTyped
<1>4. e = Greatest(b, last) /\ x <= b /\ b <= y
  BY <1>1, <1>2, <1>3
<1>5. e >= x /\ e >= last /\ (e = last \/ e <= y)
  BY <1>2, <1>4 DEF Greatest
<1> QED BY <1>3, <1>5

-----------------------------------------------------------------------------
(* A write takes effect when it is called, whatever it is to write.        *)
LEMMA WriteBegins ==
    ASSUME Maps, IInv', NEW data \in Seq(Byte), Unwritten' = data,
           acc # "closed", pc = "idle", Oup, pc' = "write",
           reply' = Reply("none", <<>>), UNCHANGED <<c, acc, rd>>
    PROVE  Maps' /\ File!StartWrite(data)
<1>1. /\ IInv /\ ChannelOK(c) /\ rd = NoRead /\ wr = NoWrite /\ WholeOK(c)
      /\ ~c.dirty => Agrees(c)
  BY DEF Maps, IInv, CleanOK, Quiet
<1>2. Maps'
  BY <1>1 DEF Maps, InRead, InWrite, Quiet, Shut, WholeOK
<1>3. /\ FileContent = ContentOf(c, <<>>) /\ FileEnd = EndOf(c, <<>>)
      /\ VirtualEnd = VirtualOf(c, <<>>) /\ Position = Spot(c)
  BY <1>1, RestViews
<1>4. /\ FileContent' = ContentOf(c, data) /\ FileEnd' = EndOf(c, data)
      /\ VirtualEnd' = VirtualOf(c, data)
  BY ViewsNext
<1>5. Position' = Spot(c) + Len(data)
  BY DEF Position, Here, Spot
<1>6. CallInProgress.op = "none"
  BY <1>1, NoneInProgress DEF File!NoCall
<1>7. CallInProgress' = [op |-> "write", max |-> 0]
  BY <1>1 DEF CallInProgress, NoRead
<1>8. reply' = File!Reply("none", <<>>)
  BY DEF Reply, File!Reply
<1>9. File!CanWrite
  BY DEF Oup, File!CanWrite
<1>10. CASE data = <<>>
  <2>1. Spot(c) \in Nat /\ Len(data) = 0
    BY <1>1, <1>10, Fields
  <2>2. Position' = Position
    BY <1>3, <1>5, <2>1
  <2>3. FileContent' = FileContent /\ FileEnd' = FileEnd /\ VirtualEnd' = VirtualEnd
    BY <1>3, <1>4, <1>10
  <2> QED BY <1>2, <1>6, <1>7, <1>8, <1>9, <1>10, <2>2, <2>3 DEF File!StartWrite
<1>11. CASE data # <<>>
  <2>1. FileContent' \in [File!Cells -> Byte]
    BY <1>1, <1>4, ViewTyped DEF File!Cells, Cells
  <2>2. \A i \in File!Cells :
          IF Position <= i /\ i < Position + Len(data)
          THEN FileContent'[i] = data[i - Position + 1]
          ELSE (i < FileEnd) => FileContent'[i] = FileContent[i]
    BY <1>1, <1>3, <1>4, <1>11, StartView DEF File!Cells, Cells
  <2>3. PICK e, last : e = EndOf(c, data) /\ last = Spot(c) + Len(data)
    OBVIOUS
  <2>4. /\ e >= EndOf(c, <<>>) /\ e >= last
        /\ e = last \/ e <= VirtualOf(c, <<>>)
    BY <1>1, <1>11, <2>3, StartEnd
  <2>5. File!Holds(FileContent', FileEnd', Position, data)
    BY <1>3, <1>4, <2>1, <2>2, <2>3, <2>4 DEF File!Holds
  <2>6. VirtualEnd' = FileEnd'
    BY <1>1, <1>4, <1>11, EndIs
  <2>7. Position' = Position + Len(data)
    BY <1>3, <1>5
  <2> QED BY <1>2, <1>6, <1>7, <1>8, <1>9, <1>11, <2>5, <2>6, <2>7 DEF File!StartWrite
<1> QED BY <1>10, <1>11

(* What is written is the record, or its lines.                            *)
LEMMA StartWriteIs ==
    ASSUME Maps, IInv', NEW rec \in Records, NEW width \in RecSizes \cup {0},
           StartWrite(rec, width)
    PROVE  Maps' /\ (File!StartWrite(rec)
                     \/ \E w \in RecSizes : File!StartWrite(File!AsLines(rec, w)))
<1>1. /\ acc # "closed" /\ pc = "idle" /\ Oup /\ pc' = "write"
      /\ wr' = [line |-> FirstLine(rec, width), rest |-> OtherLines(rec, width),
                width |-> width]
      /\ reply' = Reply("none", <<>>)
      /\ UNCHANGED <<c, acc, rd>>
  BY DEF StartWrite, Idle
<1>2. rec \in Seq(Byte)
  BY FileAssumption
<1>3. Unwritten' = After(FirstLine(rec, width), OtherLines(rec, width), width)
  BY <1>1 DEF Unwritten, After
<1>4. CASE width = 0
  <2>1. Unwritten' = rec
    BY <1>3, <1>4 DEF After, FirstLine, OtherLines
  <2> QED BY <1>1, <1>2, <2>1, WriteBegins
<1>5. CASE width # 0
  <2>1. width \in RecSizes /\ width \in Nat /\ width > 0
    BY <1>5, FileAssumption
  <2>2. PICK data \in Seq(Byte) : data = File!AsLines(rec, width)
    BY <1>2, <2>1, AsLinesIs
  <2>3. Unwritten' = data
    BY <1>2, <1>3, <2>1, <2>2, AsLinesIs
  <2>4. Maps' /\ File!StartWrite(data)
    BY <1>1, <2>3, WriteBegins
  <2> QED BY <2>1, <2>2, <2>4
<1> QED BY <1>4, <1>5

(* A full buffer goes out, and the file is the same.                       *)
LEMMA WriteFlushIs ==
    ASSUME Maps, IInv', WriteFlush
    PROVE  Maps' /\ (UNCHANGED File!vars \/ File!Fail)
<1>1. PICK n \in 0 .. Size :
        /\ WriteTakes(n, Pending(c))
        /\ c' = flush(c, n)
        /\ IF FlushErrs(c, n) THEN Return(Failed) ELSE UNCHANGED <<pc, rd, wr, reply>>
  BY DEF WriteFlush
<1>2. /\ pc = "write" /\ wr.line # <<>> /\ c.next = Size /\ acc' = acc
  BY DEF WriteFlush
<1>3. /\ IInv /\ ChannelOK(c) /\ WholeOK(c) /\ (~c.dirty => Agrees(c))
      /\ Unwritten \in Seq(Byte) /\ Len(Unwritten) \in Nat
  BY <1>2, Writing
<1>4. n \in 0 .. Pending(c)
  <2>1. Pending(c) \in Nat
    BY <1>3, Fields DEF Pending
  <2> QED BY <1>1, <1>3, <2>1, TakesOK
<1>5. /\ c'.fill = 0 /\ c'.next = 0 /\ c'.offset = c.offset + c.fill
  BY <1>1, <1>3, <1>4, FlushOK
<1>6. WholeOK(c')
  BY <1>5, BufferAssumption DEF WholeOK
<1>7. CASE FlushErrs(c, n)
  BY <1>1, <1>2, <1>6, <1>7, WriteFails
<1>8. CASE ~FlushErrs(c, n)
  <2>1. /\ pc' = "write" /\ UNCHANGED <<rd, reply, acc>> /\ Unwritten' = Unwritten
    BY <1>1, <1>2, <1>8 DEF Unwritten
  <2>2. n = Pending(c)
    BY <1>8 DEF FlushErrs
  <2>3. c.fill = Size /\ c.next = c.fill
    BY <1>2, <1>3, Fields
  <2>4. ~c.dirty => c.offset + c.fill <= c.eof
    BY <1>3, <2>3 DEF WholeOK
  <2>5. PICK u \in Seq(Byte) : u = Unwritten
    BY <1>3
  <2>6. u # <<>>
    BY <1>2, <2>5, SomethingLeft
  <2>7. /\ ContentOf(c', u) = ContentOf(c, u) /\ EndOf(c', u) = EndOf(c, u)
        /\ VirtualOf(c', u) = VirtualOf(c, u)
    BY <1>1, <1>3, <2>2, <2>3, <2>4, <2>6, FlushView
  <2>8. Spot(c') = Spot(c)
    BY <1>3, <1>5, <2>3, Fields DEF Spot
  <2>9. SameWritten
    BY <2>1, <2>5, <2>7, <2>8 DEF SameWritten
  <2> QED BY <1>2, <1>6, <2>1, <2>9, WritesOn
<1> QED BY <1>7, <1>8

(* Bytes go into the buffer, and the file is the same.                     *)
LEMMA WriteCopyIs ==
    ASSUME Maps, IInv', WriteCopy
    PROVE  Maps' /\ (UNCHANGED File!vars \/ File!Fail)
<1>1. PICK ok \in BOOLEAN :
        LET load == c.fill = 0 /\ Inp
            ch   == IF load THEN fillbuf(c) ELSE c
            n    == Fits(ch)
        IN  IF ok
            THEN /\ c' = [ch EXCEPT !.buf = Copy(@, ch.next, n, wr.line, 1),
                                    !.next = @ + n,
                                    !.fill = Greatest(@, ch.next + n),
                                    !.dirty = TRUE]
                 /\ Wrote(n)
                 /\ UNCHANGED <<pc, rd, reply>>
            ELSE c' = fsyncio(c) /\ Return(Failed)
  BY DEF WriteCopy
<1>2. pc = "write" /\ wr.line # <<>> /\ c.next # Size /\ acc' = acc
  BY DEF WriteCopy
<1>3. /\ IInv /\ ChannelOK(c) /\ WholeOK(c) /\ Unwritten \in Seq(Byte) /\ Len(Unwritten) \in Nat
  BY <1>2, Writing
<1>4. Len(wr.line) \in Nat /\ Len(wr.line) > 0 /\ Unwritten # <<>>
  BY <1>2, SomethingLeft
<1>5. CASE ~ok
  <2>1. c' = fsyncio(c) /\ Return(Failed)
    BY <1>1, <1>5
  <2>2. c'.fill = c.fill /\ c'.offset = c.offset /\ c'.eof = c.eof /\ c'.dirty = c.dirty
    BY <1>3, <2>1, FsyncOK
  <2>3. WholeOK(c')
    BY <1>3, <2>2 DEF WholeOK
  <2> QED BY <1>2, <2>1, <2>3, WriteFails
<1>6. CASE ok
  <2>1. PICK ch : ch = IF c.fill = 0 /\ Inp THEN fillbuf(c) ELSE c
    OBVIOUS
  <2>2. PICK n : n = Fits(ch)
    OBVIOUS
  <2>3. /\ c' = [ch EXCEPT !.buf = Copy(@, ch.next, n, wr.line, 1),
                           !.next = @ + n,
                           !.fill = Greatest(@, ch.next + n),
                           !.dirty = TRUE]
        /\ Wrote(n) /\ pc' = pc /\ rd' = rd /\ reply' = reply
    BY <1>1, <1>6, <2>1, <2>2
  <2>4. PICK u \in Seq(Byte) : u = Unwritten /\ u # <<>>
    BY <1>3, <1>4
  <2>5. ChannelOK(ch) /\ ch.next # Size /\ Same(c, u, ch, u) /\ Spot(ch) = Spot(c)
    <3>1. CASE c.fill = 0 /\ Inp
      <4>1. ch = fillbuf(c)
        BY <2>1, <3>1
      <4>2. ChannelOK(ch) /\ ch.next = 0
        BY <1>3, <4>1, FillOK
      <4>3. Same(c, u, ch, u) /\ Spot(ch) = Spot(c)
        BY <1>3, <2>4, <3>1, <4>1, LoadView
      <4> QED BY <4>2, <4>3, BufferAssumption
    <3>2. CASE ~(c.fill = 0 /\ Inp)
      <4>1. ch = c
        BY <2>1, <3>2
      <4> QED BY <1>2, <1>3, <4>1 DEF Same
    <3> QED BY <3>1, <3>2
  <2>6. n \in 0 .. Len(wr.line) /\ n > 0 /\ n \in Nat
    <3>1. ch.next \in 0 .. Size /\ Size \in Nat
      BY <2>5, Fields
    <3>2. PICK r \in Nat : r = Size - ch.next /\ r > 0
      BY <2>5, <3>1
    <3>3. n = Least(r, Len(wr.line))
      BY <2>2, <3>2 DEF Fits
    <3> QED BY <1>4, <3>2, <3>3 DEF Least
  <2>7. Left(u, n, Unwritten', wr.line)
    BY <1>2, <2>3, <2>4, <2>6, WroteLeft
  <2>8. PICK u2 : u2 = Unwritten'
    OBVIOUS
  <2>9. ChannelOK(c')
    BY DEF IInv
  <2>10. Same(ch, u, c', u2) /\ Spot(c') = Spot(ch) + n
    BY <2>3, <2>5, <2>6, <2>7, <2>8, <2>9, PutView
  <2>11. Spot(c') + Len(u2) = Spot(c) + Len(u)
    <3>1. Len(u2) = Len(u) - n
      BY <2>7, <2>8 DEF Left
    <3>2. PICK s \in Nat, l \in Nat : s = Spot(c) /\ l = Len(u)
      BY <1>3, Fields
    <3>3. (s + n) + (l - n) = s + l
      BY <2>6
    <3> QED BY <2>5, <2>10, <3>1, <3>2, <3>3
  <2>12. SameWritten
    BY <2>4, <2>5, <2>8, <2>10, <2>11 DEF Same, SameWritten
  <2>13. c'.dirty = TRUE
    BY <2>3, <2>5 DEF ChannelOK, Channel
  <2>14. WholeOK(c')
    BY <2>13 DEF WholeOK
  <2> QED BY <1>2, <2>3, <2>12, <2>14, WritesOn
<1> QED BY <1>5, <1>6

(* Whole buffers go past the buffer, and the file is the same.             *)
LEMMA WriteDirectIs ==
    ASSUME Maps, IInv', WriteDirect
    PROVE  Maps' /\ (UNCHANGED File!vars \/ File!Fail)
<1>1. PICK want, ch : want = (Len(wr.line) \div Size) * Size /\ ch = [fsyncio(c) EXCEPT !.fill = 0]
  OBVIOUS
<1>2. PICK n \in 0 .. want :
        /\ c' = [KWrite(ch, n, wr.line, 1) EXCEPT !.offset = @ + n, !.curpos = @ + n]
        /\ IF n # want THEN Return(Failed)
           ELSE Wrote(n) /\ UNCHANGED <<pc, rd, reply>>
  BY <1>1 DEF WriteDirect
<1>3. /\ pc = "write" /\ wr.line # <<>> /\ c.next = 0 /\ Len(wr.line) >= Size /\ acc' = acc
  BY DEF WriteDirect
<1>4. /\ IInv /\ ChannelOK(c) /\ Unwritten \in Seq(Byte) /\ Len(Unwritten) \in Nat
  BY <1>3, Writing
<1>5. PICK l \in Nat : l = Len(wr.line) /\ l > 0 /\ Unwritten # <<>> /\ l >= Size
  BY <1>3, SomethingLeft
<1>6. want \in Nat /\ want <= l /\ want >= Size /\ Size \in Nat /\ Size > 0 /\ n \in Nat
  <2>1. Size \in Nat /\ Size > 0
    BY BufferAssumption
  <2>2. PICK q \in Nat, r \in Nat : l = q * Size + r /\ r < Size /\ q = l \div Size
    BY <2>1, Divided
  <2>3. PICK p \in Nat : p = q * Size
    BY <2>1
  <2>4. q # 0
    <3> SUFFICES ASSUME q = 0 PROVE FALSE
      OBVIOUS
    <3>1. p = 0
      BY <2>1, <2>3
    <3> QED BY <1>5, <2>1, <2>2, <2>3, <3>1
  <2>5. p >= Size
    BY <2>1, <2>3, <2>4, Z3
  <2>6. p <= l
    BY <2>2, <2>3
  <2>7. want = p
    BY <1>1, <1>5, <2>2, <2>3
  <2> QED BY <1>2, <2>1, <2>5, <2>6, <2>7
<1>7. /\ ch \in Channel /\ ch.kpos = c.offset /\ ch.curpos = c.offset /\ ch.offset = c.offset
      /\ ch.disk = c.disk /\ ch.eof = c.eof /\ ch.fill = 0 /\ ch.next = 0
  <2>1. /\ fsyncio(c) \in Channel /\ fsyncio(c).kpos = c.offset
        /\ fsyncio(c).curpos = c.offset /\ fsyncio(c).offset = c.offset
        /\ fsyncio(c).disk = c.disk /\ fsyncio(c).eof = c.eof /\ fsyncio(c).next = c.next
    BY <1>4, FsyncOK
  <2>2. PICK s : s = fsyncio(c)
    OBVIOUS
  <2>3. ch = [s EXCEPT !.fill = 0] /\ 0 \in 0 .. Size
    BY <1>1, <1>6, <2>2
  <2> QED BY <1>3, <2>1, <2>2, <2>3 DEF Channel
<1>8. PICK k : k = KWrite(ch, n, wr.line, 1)
  OBVIOUS
<1>9. /\ k.disk = Copy(c.disk, c.offset, n, wr.line, 1)
      /\ k.eof = (IF n = 0 THEN c.eof ELSE Greatest(c.eof, c.offset + n))
      /\ k.offset = c.offset /\ k.fill = 0 /\ k.next = 0 /\ DOMAIN k = DOMAIN ch
  BY <1>7, <1>8 DEF KWrite, Channel
<1>10. c' = [k EXCEPT !.offset = @ + n, !.curpos = @ + n]
  BY <1>2, <1>8
<1>11. /\ c'.disk = k.disk /\ c'.eof = k.eof /\ c'.offset = c.offset + n
       /\ c'.fill = 0 /\ c'.next = 0
  BY <1>7, <1>9, <1>10 DEF Channel
<1>12. WholeOK(c')
  BY <1>6, <1>11 DEF WholeOK
<1>13. CASE n # want
  <2>1. Return(Failed)
    BY <1>2, <1>13
  <2> QED BY <1>3, <1>12, <2>1, WriteFails
<1>14. CASE n = want
  <2>1. Wrote(n) /\ pc' = pc /\ rd' = rd /\ reply' = reply
    BY <1>2, <1>14
  <2>2. n \in 0 .. Len(wr.line) /\ n # 0 /\ n >= Size
    BY <1>5, <1>6, <1>14
  <2>3. PICK u, u2 : u = Unwritten /\ u2 = Unwritten'
    OBVIOUS
  <2>4. Left(u, n, u2, wr.line)
    BY <1>3, <2>1, <2>2, <2>3, WroteLeft
  <2>5. ChannelOK(c')
    BY DEF IInv
  <2>6. c'.eof = Greatest(c.eof, c.offset + n)
    BY <1>9, <1>11, <2>2
  <2>7. Same(c, u, c', u2) /\ Spot(c') = Spot(c) + n
    BY <1>3, <1>4, <1>9, <1>11, <2>2, <2>4, <2>5, <2>6, DirectView
  <2>8. Spot(c') + Len(u2) = Spot(c) + Len(u)
    <3>1. Len(u2) = Len(u) - n
      BY <2>4 DEF Left
    <3>2. PICK s \in Nat, m \in Nat : s = Spot(c) /\ m = Len(u)
      BY <1>4, <2>3, Fields
    <3>3. (s + n) + (m - n) = s + m
      BY <1>6
    <3> QED BY <2>7, <3>1, <3>2, <3>3
  <2>9. SameWritten
    BY <2>3, <2>7, <2>8 DEF Same, SameWritten
  <2> QED BY <1>3, <1>12, <2>1, <2>9, WritesOn
<1> QED BY <1>13, <1>14

(* The next line is the first of those that are left; when none is, the    *)
(* record is in the file.                                                  *)
LEMMA WriteNextIs ==
    ASSUME Maps, IInv', WriteNext
    PROVE  Maps' /\ (UNCHANGED File!vars \/ File!FinishWrite)
<1>1. /\ pc = "write" /\ wr.line = <<>> /\ c' = c /\ acc' = acc
      /\ IF wr.rest = <<>>
         THEN Return(Reply("ok", <<>>))
         ELSE /\ wr' = [wr EXCEPT !.line = FirstLine(wr.rest, wr.width),
                                  !.rest = OtherLines(wr.rest, wr.width)]
              /\ UNCHANGED <<pc, rd, reply>>
  BY DEF WriteNext
<1>2. /\ IInv /\ ChannelOK(c) /\ WholeOK(c) /\ acc # "closed"
      /\ wr.rest \in Seq(Byte) /\ wr.width \in Nat
      /\ Unwritten = After(wr.line, wr.rest, wr.width)
  BY <1>1, Writing
<1>3. WholeOK(c')
  BY <1>1, <1>2
<1>4. CASE wr.rest = <<>>
  <2>1. pc' = "idle" /\ rd' = NoRead /\ wr' = NoWrite /\ reply' = Reply("ok", <<>>)
    BY <1>1, <1>4 DEF Return
  <2>2. Maps'
    BY <1>1, <1>2, <1>3, <2>1, AtRest DEF Shut
  <2>3. Unwritten = <<>> /\ Len(Unwritten) = 0 /\ Spot(c) \in Nat
    BY <1>1, <1>2, <1>4, Fields DEF After
  <2>4. /\ FileContent = ContentOf(c, <<>>) /\ FileEnd = EndOf(c, <<>>)
        /\ VirtualEnd = VirtualOf(c, <<>>) /\ Position = Spot(c)
    BY <1>1, <2>3, Writing
  <2>5. /\ FileContent' = ContentOf(c, <<>>) /\ FileEnd' = EndOf(c, <<>>)
        /\ VirtualEnd' = VirtualOf(c, <<>>) /\ Position' = Spot(c)
    BY <1>1, <1>2, <2>1, RestViewsNext
  <2>6. CallInProgress.op = "write" /\ CallInProgress' = File!NoCall
    BY <1>1, <2>1, Writing, NoneInProgress
  <2>7. reply' = File!Reply("ok", <<>>)
    BY <2>1 DEF Reply, File!Reply
  <2>8. File!FinishWrite
    BY <1>1, <2>4, <2>5, <2>6, <2>7 DEF File!FinishWrite
  <2> QED BY <2>2, <2>8
<1>5. CASE wr.rest # <<>>
  <2>1. pc' = "write" /\ rd' = rd /\ reply' = reply
    BY <1>1, <1>5
  <2>2. PICK rec \in Seq(Byte), w \in Nat : rec = wr.rest /\ w = wr.width /\ w > 0 /\ rec # <<>>
    BY <1>1, <1>2, <1>5, Writing
  <2>3. wr'.line = FirstLine(rec, w) /\ wr'.rest = OtherLines(rec, w) /\ wr'.width = w
    <3>1. wr \in Writes
      BY <1>2 DEF IInv, TypeOK
    <3>2. wr' = [wr EXCEPT !.line = FirstLine(rec, w), !.rest = OtherLines(rec, w)]
      BY <1>1, <1>5, <2>2
    <3> QED BY <2>2, <3>1, <3>2 DEF Writes
  <2>4. Unwritten' = After(FirstLine(rec, w), OtherLines(rec, w), w)
    BY <2>3 DEF Unwritten, After
  <2>5. PICK l \in Seq(Byte) : l = LinesOf(rec, w)
    BY <2>2, LinesTyped
  <2>6. Unwritten' = l
    <3>1. Unwritten' = File!AsLines(rec, w)
      BY <2>2, <2>4, AsLinesIs
    <3> QED BY <2>2, <2>5, <3>1, AsLinesIs
  <2>7. Unwritten = l
    <3>1. Unwritten = <<>> \o l
      BY <1>1, <1>2, <1>5, <2>2, <2>5 DEF After
    <3> QED BY <3>1
  <2>8. SameWritten
    BY <1>1, <2>6, <2>7 DEF SameWritten
  <2> QED BY <1>1, <1>3, <2>1, <2>8, WritesOn
<1> QED BY <1>4, <1>5

-----------------------------------------------------------------------------
(* Every step of the channel is one of the file, or none.                  *)
LEMMA NextMaps ==
    ASSUME Maps, [Next]_vars
    PROVE  Maps' /\ [File!Next]_File!vars
<1>1. IInv'
  BY NextInv DEF Maps
<1>2. CASE UNCHANGED vars
  <2>1. UNCHANGED <<c, acc, pc, rd, wr, reply>>
    BY <1>2 DEF vars
  <2>2. Maps'
    BY <1>1, <2>1 DEF Maps, InRead, InWrite, Quiet, Shut, WholeOK, SoFar
  <2>3. UNCHANGED <<FileContent, FileEnd, VirtualEnd, Position, CallInProgress>>
    BY <2>1 DEF FileContent, FileEnd, VirtualEnd, Position, CallInProgress,
                Buffered, BufferedEnd, InUse, Here, Unwritten
  <2> QED BY <2>1, <2>2, <2>3 DEF File!vars
<1>3. ASSUME NEW a \in Access, osopen(a)
      PROVE  Maps' /\ File!Next
  <2>1. Maps' /\ File!Open(a)
    BY <1>1, <1>3, OpenIs
  <2> QED BY <2>1 DEF File!Next, Access, File!Access
<1>4. CASE osclose
  BY <1>1, <1>4, CloseIs DEF File!Next
<1>5. ASSUME NEW off \in Int, NEW whence \in {0, 1, 2}, zysst(off, whence)
      PROVE  Maps' /\ File!Next
  <2>1. Maps' /\ ((\E target \in 0 .. MaxPos : File!Set(target)) \/ File!Fail)
    BY <1>1, <1>5, SetIs
  <2> QED BY <2>1 DEF File!Next
<1>6. ASSUME NEW phase \in {"copy", "raw"}, NEW max \in RecSizes, StartRead(phase, max)
      PROVE  Maps' /\ File!Next
  <2>1. Maps' /\ \E op \in {"line", "raw"} : File!StartRead(op, max)
    BY <1>1, <1>6, StartReadIs
  <2> QED BY <2>1 DEF File!Next
<1>7. ASSUME NEW rec \in Records, NEW width \in RecSizes \cup {0}, StartWrite(rec, width)
      PROVE  Maps' /\ File!Next
  <2>1. Maps' /\ (File!StartWrite(rec)
                  \/ \E w \in RecSizes : File!StartWrite(File!AsLines(rec, w)))
    BY <1>1, <1>7, StartWriteIs
  <2> QED BY <2>1 DEF File!Next
<1>8. CASE ReadTurn
  <2>1. CASE Refill
    BY <1>1, <2>1, RefillIs DEF File!Next
  <2>2. CASE CopyLine
    BY <1>1, <2>2, CopyLineIs
  <2>3. CASE DiscardLine
    BY <1>1, <2>3, DiscardLineIs DEF File!Next
  <2>4. CASE CopyRaw
    BY <1>1, <2>4, CopyRawIs DEF File!Next
  <2> QED BY <1>8, <2>1, <2>2, <2>3, <2>4 DEF ReadTurn
<1>9. CASE WriteTurn
  <2>1. CASE WriteFlush
    BY <1>1, <2>1, WriteFlushIs DEF File!Next
  <2>2. CASE WriteCopy
    BY <1>1, <2>2, WriteCopyIs DEF File!Next
  <2>3. CASE WriteDirect
    BY <1>1, <2>3, WriteDirectIs DEF File!Next
  <2>4. CASE WriteNext
    BY <1>1, <2>4, WriteNextIs DEF File!Next
  <2> QED BY <1>9, <2>1, <2>2, <2>3, <2>4 DEF WriteTurn
<1>10. CASE Call
  <2>1. CASE \E a \in Access : osopen(a)
    BY <1>3, <2>1
  <2>2. CASE zysrw
    <3>1. 0 \in Int /\ 0 \in {0, 1, 2}
      OBVIOUS
    <3> QED BY <1>5, <2>2, <3>1 DEF zysrw
  <2>3. CASE \E off \in 0 .. MaxPos : zysst(off, 0)
    <3>1. PICK off \in 0 .. MaxPos : zysst(off, 0)
      BY <2>3
    <3>2. off \in Int /\ 0 \in {0, 1, 2}
      BY BufferAssumption
    <3> QED BY <1>5, <3>1, <3>2
  <2>4. CASE \E off \in {-1, 0, 1}, whence \in {1, 2} : zysst(off, whence)
    <3>1. PICK off \in {-1, 0, 1}, whence \in {1, 2} : zysst(off, whence)
      BY <2>4
    <3>2. off \in Int /\ whence \in {0, 1, 2}
      OBVIOUS
    <3> QED BY <1>5, <3>1, <3>2
  <2>5. CASE \E phase \in {"copy", "raw"}, max \in RecSizes : StartRead(phase, max)
    BY <1>6, <2>5
  <2>6. CASE \E rec \in Records, width \in RecSizes \cup {0} : StartWrite(rec, width)
    BY <1>7, <2>6
  <2> QED BY <1>4, <1>10, <2>1, <2>2, <2>3, <2>4, <2>5, <2>6 DEF Call
<1> QED BY <1>2, <1>8, <1>9, <1>10 DEF Next

(* A buffered channel is a file: whatever the size of the buffer, the      *)
(* file, the records and the order of the calls, and whatever write() or   *)
(* read() fails, every record read is the one at the channel's position    *)
(* (each byte of it below the end of the file is the file's), no byte      *)
(* written is lost or misplaced, and a call that cannot keep to that says  *)
(* so (osread, oswrite, doset, osclose).  The one error that is not        *)
(* reported, that of the read() an open for append makes, costs no more    *)
(* than the position the channel starts at.                                *)
THEOREM FileSpecHolds == Spec => FileSpec
<1>1. Init => Maps /\ File!Init
  BY InitMaps
<1>2. Maps /\ [Next]_vars => Maps' /\ [File!Next]_File!vars
  BY NextMaps
<1> QED BY <1>1, <1>2, PTL DEF Spec, FileSpec, File!Spec
=============================================================================
