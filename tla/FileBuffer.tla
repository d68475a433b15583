------------------------------ MODULE FileBuffer ------------------------------
(***************************************************************************)
(* The buffer of an I/O channel and the open file beneath it: the fields   *)
(* of a bfblk (src/osint/spitio.h), the IO_DIR flag of its ioblk, and what *)
(* the kernel keeps for the descriptor.  Every operation on a channel is   *)
(* built from the four routines below: fsyncio, flush, fillbuf and doset.  *)
(*                                                                         *)
(* A channel is one record c:                                              *)
(*   c.disk, c.eof     bytes of the file and its length (kernel)           *)
(*   c.kpos            position of the descriptor (kernel)                 *)
(*   c.buf             bfblk.buf                                           *)
(*   c.fill, c.next    bytes in the buffer, next one to read or write      *)
(*   c.offset          file position of buf[0]                             *)
(*   c.curpos          where the program believes the descriptor is        *)
(*   c.dirty           IO_DIR: buf holds bytes that are not in the file    *)
(*                                                                         *)
(* The file is a seekable one (not a pipe, FIFO or terminal), so LSEEK to  *)
(* a position >= 0 succeeds and read() returns all that was asked for, up  *)
(* to the end of the file.  Cells at and beyond eof hold NUL: that is what *)
(* the kernel shows in a hole.                                             *)
(***************************************************************************)
EXTENDS Integers

CONSTANTS
    Size,      \* bfblk.size, the capacity of the buffer
    MaxPos,    \* bound on the length of the file and on every position
    Byte,      \* the bytes the properties tell apart
    NUL        \* the byte the kernel shows in a hole

ASSUME BufferAssumption ==
    /\ Size \in Nat \ {0}
    /\ MaxPos \in Nat
    /\ NUL \in Byte

Cells == 0 .. MaxPos - 1
Slots == 0 .. Size - 1

Channel ==
    [disk : [Cells -> Byte], eof : 0 .. MaxPos, kpos : Nat,
     buf : [Slots -> Byte], fill : 0 .. Size, next : 0 .. Size,
     offset : Nat, curpos : Nat, dirty : BOOLEAN]

Least(a, b) == IF a <= b THEN a ELSE b
Greatest(a, b) == IF a >= b THEN a ELSE b

(* dst with n elements of src, from index "from" on, laid down at "at". *)
Copy(dst, at, n, src, from) ==
    [i \in DOMAIN dst |->
        IF at <= i /\ i < at + n THEN src[from + (i - at)] ELSE dst[i]]

-----------------------------------------------------------------------------
(* The kernel.  write() takes n bytes of src, n being its return value (a  *)
(* return of -1 is the same as 0: nothing is transferred).                 *)
KWrite(c, n, src, from) ==
    [c EXCEPT !.disk = Copy(c.disk, c.kpos, n, src, from),
              !.eof  = IF n = 0 THEN @ ELSE Greatest(@, c.kpos + n),
              !.kpos = @ + n]

KSeek(c, p) == [c EXCEPT !.kpos = p]

(* What read(fd, ..., Size) returns at the descriptor's position. *)
Readable(c) == Greatest(0, Least(Size, c.eof - c.kpos))

-----------------------------------------------------------------------------
(* A bfblk as zysio() carves it: empty, at position 0, its buf holding     *)
(* whatever the heap block held before.                                    *)
Fresh(disk, eof, stale) ==
    [disk |-> disk, eof |-> eof, kpos |-> 0, buf |-> stale, fill |-> 0,
     next |-> 0, offset |-> 0, curpos |-> 0, dirty |-> FALSE]

(* Mutant of fsyncio: curpos is not told of the LSEEK. *)
fsyncioForgets(c) == IF c.offset = c.curpos THEN c ELSE KSeek(c, c.offset)

(* fsyncio: LSEEK to the buffer's offset unless curpos says it is there. *)
fsyncio(c) ==
    IF c.offset = c.curpos THEN c
    ELSE [KSeek(c, c.offset) EXCEPT !.curpos = c.offset]

(* flush: n is what write() returned.  The buffer is emptied and its offset *)
(* advanced by all of it, whatever n was.                                   *)
flush(c, n) ==
    LET synced  == fsyncio(c)
        written == IF c.fill = 0 THEN synced
                   ELSE [KWrite(synced, n, c.buf, 0) EXCEPT !.curpos = @ + n]
        cleaned == IF c.dirty THEN [written EXCEPT !.dirty = FALSE] ELSE c
    IN  [cleaned EXCEPT !.offset = @ + c.fill, !.next = 0, !.fill = 0]

(* What a flush has to write, and whether it reports an error. *)
Pending(c) == IF c.dirty THEN c.fill ELSE 0

FlushErrsIgnored(c, n) == FALSE   \* mutant: the count is dropped

FlushErrs(c, n) == n # Pending(c)

(* Mutant of fillbuf: it reads from wherever the descriptor is. *)
fillbufUnsynced(c) ==
    LET n == Readable(c)
    IN  [c EXCEPT !.buf = Copy(@, 0, n, c.disk, c.kpos),
                  !.next = 0, !.fill = n,
                  !.curpos = @ + n, !.kpos = @ + n]

(* fillbuf when read() succeeds; when it fails the state is fsyncio(c). *)
fillbuf(c) ==
    LET s == fsyncio(c)
        n == Readable(s)
    IN  [s EXCEPT !.buf = Copy(@, 0, n, s.disk, s.kpos),
                  !.next = 0, !.fill = n,
                  !.curpos = @ + n, !.kpos = @ + n]

(* The end of doset: the next position is set in a buffer just filled.      *)
(* Beyond what it holds only a file open for output is extended.            *)
PlaceExtending(c, next, oup) ==   \* mutant: any file is
    [c EXCEPT !.next = next, !.fill = Greatest(@, next)]

Place(c, next, oup) ==
    IF next <= c.fill THEN [c EXCEPT !.next = next]
    ELSE IF oup THEN [c EXCEPT !.next = next, !.fill = next]
    ELSE [c EXCEPT !.next = c.fill]

(* doset: reposition a channel.  oup is IO_OUP, n what write() returned if *)
(* the buffer had to be flushed, ok whether read() succeeded if it had to  *)
(* be filled.  whence 0, 1, 2: from the start, from here, from the end; the *)
(* last measures the file by seeking to its end (geteof).                  *)
(* ret is the new position, or -1.                                         *)
doset(c, oup, off, whence, n, ok) ==
    LET seen    == IF whence = 2
                   THEN [KSeek(c, c.eof) EXCEPT !.curpos = c.eof] ELSE c
        base    == CASE whence = 0 -> 0
                     [] whence = 1 -> c.offset + c.next
                     [] whence = 2 -> Greatest(c.eof, c.offset + c.fill)
        target  == Greatest(0, base + off)
        within  == c.offset <= target /\ target <= c.offset + c.fill
        flushed == flush(seen, n)
        at      == (target \div Size) * Size
        sought  == IF at = flushed.curpos
                   THEN [flushed EXCEPT !.offset = at]
                   ELSE [KSeek(flushed, at) EXCEPT !.offset = at, !.curpos = at]
        placed  == Place(fillbuf(sought), target - at, oup)
    IN  IF within
        THEN [c |-> [seen EXCEPT !.next = target - c.offset], ret |-> target]
        ELSE IF FlushErrs(c, n) THEN [c |-> flushed, ret |-> -1]
        ELSE IF ~ok THEN [c |-> sought, ret |-> -1]
        ELSE [c |-> placed, ret |-> placed.offset + placed.next]
=============================================================================
