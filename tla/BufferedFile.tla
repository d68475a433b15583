----------------------------- MODULE BufferedFile -----------------------------
(***************************************************************************)
(* An I/O channel over a buffered disk file: osopen, osread, oswrite,      *)
(* doset and osclose of src/osint, as zysin, zysou, zysst, zysrw and zysen *)
(* call them for INPUT, OUTPUT, SET, REWIND and ENDFILE.                   *)
(*                                                                         *)
(* osread and oswrite are loops around system calls: a call in progress is *)
(* a pc and its locals, and one action is one turn of one loop.            *)
(* A write() may come up short and a read() may fail (disk full, I/O       *)
(* error, a signal), at most MaxWriteFaults and MaxReadFaults times.       *)
(***************************************************************************)
EXTENDS FileBuffer, Sequences

CONSTANTS
    EOL,             \* the byte that ends a line
    Records,         \* the records the program may write
    RecSizes,        \* the record lengths (fcblk.rsz) a channel may have
    Stale,           \* what a new bfblk's buf may hold
    Files,           \* the files there may be to begin with: sequences of bytes
    MaxWriteFaults,
    MaxReadFaults,
    OpenMayFail      \* may the read() that osopen makes fail?

ASSUME FileAssumption ==
    /\ EOL \in Byte
    /\ Records \subseteq Seq(Byte)
    /\ RecSizes \subseteq Nat \ {0}
    /\ Stale \subseteq [Slots -> Byte]
    /\ Files \subseteq {s \in Seq(Byte) : Len(s) <= MaxPos}
    /\ MaxWriteFaults \in Nat
    /\ MaxReadFaults \in Nat
    /\ OpenMayFail \in BOOLEAN

VARIABLES
    c,         \* the channel and its file (FileBuffer)
    acc,       \* how the channel is open (flg1), or "closed"
    pc,        \* where the call in progress is
    rd,        \* osread: record length wanted, bytes moved, position at the call
    wr,        \* oswrite: rest of the line, rest of the record, line length
    reply,     \* what the last call returned
    wfaults, rfaults   \* faults the kernel may still inject

vars == <<c, acc, pc, rd, wr, reply, wfaults, rfaults>>

Access == {"input", "output", "append", "update"}
Inp == acc \in {"input", "update"}              \* IO_INP
Oup == acc \in {"output", "append", "update"}   \* IO_OUP

Idle == pc = "idle" /\ acc # "closed"

NoRead == [max |-> 0, got |-> <<>>, from |-> 0]
NoWrite == [line |-> <<>>, rest |-> <<>>, width |-> 0]

Reply(res, data) == [res |-> res, data |-> data, at |-> 0]
ReplyAt(p) == [res |-> "at", data |-> <<>>, at |-> p]

Reads == [max : Nat, got : Seq(Byte), from : Nat]
Writes == [line : Seq(Byte), rest : Seq(Byte), width : Nat]
Replies == [res : {"none", "ok", "data", "eof", "at", "error"},
            data : Seq(Byte), at : Nat]

TypeOK ==
    /\ c \in Channel
    /\ acc \in Access \cup {"closed"}
    /\ pc \in {"idle", "copy", "discard", "raw", "write"}
    /\ rd \in Reads
    /\ wr \in Writes
    /\ reply \in Replies
    /\ wfaults \in 0 .. MaxWriteFaults
    /\ rfaults \in 0 .. MaxReadFaults

(* Without a channel there is no buffer. *)
Closed(disk, eof) == Fresh(disk, eof, [i \in Slots |-> NUL])

Init ==
    /\ \E s \in Files :
          c = Closed([i \in Cells |-> IF i < Len(s) THEN s[i + 1] ELSE NUL],
                     Len(s))
    /\ acc = "closed"
    /\ pc = "idle"
    /\ rd = NoRead
    /\ wr = NoWrite
    /\ reply = Reply("none", <<>>)
    /\ wfaults = MaxWriteFaults
    /\ rfaults = MaxReadFaults

-----------------------------------------------------------------------------
(* The kernel's answers.  "ask" says whether the system call is made.      *)
WriteTakes(n, want) ==   \* write() of want bytes returns n
    /\ n \in IF wfaults > 0 THEN 0 .. want ELSE {want}
    /\ wfaults' = IF n = want THEN wfaults ELSE wfaults - 1

ReadWorks(ok, ask) ==
    /\ ok \in IF ask /\ rfaults > 0 THEN BOOLEAN ELSE {TRUE}
    /\ rfaults' = IF ok THEN rfaults ELSE rfaults - 1

Return(r) ==
    /\ pc' = "idle"
    /\ rd' = NoRead
    /\ wr' = NoWrite
    /\ reply' = r

Failed == Reply("error", <<>>)

-----------------------------------------------------------------------------
(* O_TRUNC: neither updating nor appending. *)
TruncatesAppend(a) == a \in {"output", "append"}   \* mutant: IO_APP overlooked

Truncates(a) == a = "output"

(* osopen of a new channel: zysio has carved a new bfblk.  An append       *)
(* channel is positioned by doset(0, 2), whose result is not looked at.    *)
OpenFile(a, stale, ok) ==
    LET ch == IF Truncates(a)
              THEN Fresh([i \in Cells |-> NUL], 0, stale)
              ELSE Fresh(c.disk, c.eof, stale)
    IN  IF a = "append" THEN doset(ch, TRUE, 0, 2, 0, ok).c ELSE ch

osopen(a) ==
    /\ acc = "closed"
    /\ acc' = a
    /\ \E stale \in Stale, ok \in BOOLEAN :
          /\ ReadWorks(ok, a = "append" /\ OpenMayFail)
          /\ c' = OpenFile(a, stale, ok)
    /\ reply' = Reply("ok", <<>>)
    /\ UNCHANGED <<pc, rd, wr, wfaults>>

(* osclose: only an output file is flushed.  Closing forgets the channel's *)
(* buffer: ENDFILE detaches it and the next INPUT or OUTPUT makes another. *)
osclose ==
    /\ Idle
    /\ \E n \in 0 .. Size :
          /\ WriteTakes(n, Pending(c))
          /\ LET ch == IF Oup THEN flush(c, n) ELSE c
             IN  c' = Closed(ch.disk, ch.eof)
          /\ Return(IF FlushErrs(c, n) THEN Failed ELSE Reply("ok", <<>>))
    /\ acc' = "closed"
    /\ UNCHANGED rfaults

(* zysst: SET. *)
zysst(off, whence) ==
    /\ Idle
    /\ \E n \in 0 .. Size, ok \in BOOLEAN :
          /\ WriteTakes(n, Pending(c))
          /\ ReadWorks(ok, TRUE)
          /\ LET done == doset(c, Oup, off, whence, n, ok)
             IN  /\ done.ret <= MaxPos
                 /\ c' = done.c
                 /\ Return(IF done.ret < 0 THEN Failed
                           ELSE ReplyAt(done.ret))
    /\ UNCHANGED acc

(* zysrw: REWIND, a move to the start whose position the program is not told. *)
zysrw == zysst(0, 0)

-----------------------------------------------------------------------------
(* osread, buffered.  "copy" and "discard" are the two phases of line      *)
(* mode, "raw" is raw mode.                                                *)
StartRead(phase, max) ==
    /\ Idle /\ Inp
    /\ pc' = phase
    /\ rd' = [max |-> max, got |-> <<>>, from |-> c.offset + c.next]
    /\ reply' = Reply("none", <<>>)
    /\ UNCHANGED <<c, acc, wr, wfaults, rfaults>>

WantedAfresh == rd.max   \* mutant: cnt is not taken off

Wanted == rd.max - Len(rd.got)

EndRead(got) == Return(IF got = <<>> THEN Reply("eof", <<>>)
                       ELSE Reply("data", got))

AtEndNever(ch) == FALSE   \* mutant: end of file is not looked for

AtEnd(ch) == ch.fill = 0   \* read() returned 0

(* The buffer is exhausted: flush it and fill it again. *)
Refill ==
    /\ pc \in {"copy", "discard", "raw"}
    /\ c.next >= c.fill
    /\ \E n \in 0 .. Size, ok \in BOOLEAN :
          /\ WriteTakes(n, Pending(c))
          /\ ReadWorks(ok, ~FlushErrs(c, n))
          /\ LET flushed == flush(c, n)
                 filled  == fillbuf(flushed)
             IN  IF FlushErrs(c, n) THEN c' = flushed /\ Return(Failed)
                 ELSE IF ~ok THEN c' = fsyncio(flushed) /\ Return(Failed)
                 ELSE /\ c' = filled
                      /\ IF AtEnd(filled) THEN EndRead(rd.got)
                         ELSE UNCHANGED <<pc, rd, wr, reply>>
    /\ UNCHANGED acc

(* k is the first index in the buffer, from next on and below stop, of an   *)
(* EOL; stop if there is none.                                             *)
EolBefore(k, stop) ==
    /\ k < stop => c.buf[k] = EOL
    /\ \A i \in c.next .. k - 1 : c.buf[i] # EOL

Take(k) == rd.got \o [i \in 1 .. k - c.next |-> c.buf[c.next + i - 1]]

CopyLine ==
    /\ pc = "copy"
    /\ c.next < c.fill
    /\ LET stop == c.next + Least(Wanted, c.fill - c.next)
       IN  \E k \in c.next .. stop :
              /\ EolBefore(k, stop)
              /\ c' = [c EXCEPT !.next = k]
              /\ rd' = [rd EXCEPT !.got = Take(k)]
              /\ pc' = IF k = stop /\ Len(Take(k)) < rd.max THEN "copy"
                       ELSE "discard"
    /\ UNCHANGED <<acc, wr, reply, wfaults, rfaults>>

DiscardLine ==
    /\ pc = "discard"
    /\ c.next < c.fill
    /\ \E k \in c.next .. c.fill :
          /\ EolBefore(k, c.fill)
          /\ IF k < c.fill
             THEN /\ c' = [c EXCEPT !.next = k + 1]
                  /\ Return(Reply("data", rd.got))
             ELSE /\ c' = [c EXCEPT !.next = k]
                  /\ UNCHANGED <<pc, rd, wr, reply>>
    /\ UNCHANGED <<acc, wfaults, rfaults>>

CopyRaw ==
    /\ pc = "raw"
    /\ c.next < c.fill
    /\ LET k == c.next + Least(Wanted, c.fill - c.next)
       IN  /\ c' = [c EXCEPT !.next = k]
           /\ IF Len(Take(k)) = rd.max
              THEN EndRead(Take(k))
              ELSE /\ rd' = [rd EXCEPT !.got = Take(k)]
                   /\ UNCHANGED <<pc, wr, reply>>
    /\ UNCHANGED <<acc, wfaults, rfaults>>

-----------------------------------------------------------------------------
(* oswrite, buffered.  A line-mode record is cut into lines of at most     *)
(* width bytes, an EOL after each; a raw one (width 0) is written whole.   *)
FirstLine(rec, width) ==
    IF width = 0 THEN rec
    ELSE SubSeq(rec, 1, Least(width, Len(rec))) \o <<EOL>>

OtherLines(rec, width) ==
    IF width = 0 THEN <<>> ELSE SubSeq(rec, width + 1, Len(rec))

(* A bound on the bytes a record takes in the file: its lines are one byte  *)
(* long or more, but for that of an empty record.                           *)
Extent(rec, width) == IF width = 0 THEN Len(rec) ELSE Greatest(1, 2 * Len(rec))

StartWrite(rec, width) ==
    /\ Idle /\ Oup
    /\ c.offset + c.next + Extent(rec, width) <= MaxPos
    /\ pc' = "write"
    /\ wr' = [line |-> FirstLine(rec, width), rest |-> OtherLines(rec, width),
              width |-> width]
    /\ reply' = Reply("none", <<>>)
    /\ UNCHANGED <<c, acc, rd, wfaults, rfaults>>

(* n bytes of the line have gone to the buffer or to the file. *)
Wrote(n) == wr' = [wr EXCEPT !.line = SubSeq(@, n + 1, Len(@))]

(* No room: the buffer is full and the write-in position is at its end. *)
WriteFlush ==
    /\ pc = "write" /\ wr.line # <<>>
    /\ c.next = Size
    /\ \E n \in 0 .. Size :
          /\ WriteTakes(n, Pending(c))
          /\ c' = flush(c, n)
          /\ IF FlushErrs(c, n) THEN Return(Failed)
             ELSE UNCHANGED <<pc, rd, wr, reply>>
    /\ UNCHANGED <<acc, rfaults>>

FitsAnything(ch) == Len(wr.line)   \* mutant: the space left is not looked at

Fits(ch) == Least(Size - ch.next, Len(wr.line))

(* Into the buffer.  An empty buffer of a file that is read as well is     *)
(* filled from the file first.                                             *)
WriteCopy ==
    /\ pc = "write" /\ wr.line # <<>>
    /\ c.next # Size
    /\ c.next > 0 \/ Len(wr.line) < Size
    /\ \E ok \in BOOLEAN :
          LET load == c.fill = 0 /\ Inp
              ch   == IF load THEN fillbuf(c) ELSE c
              n    == Fits(ch)
          IN  /\ ReadWorks(ok, load)
              /\ IF ok
                 THEN /\ c' = [ch EXCEPT
                                 !.buf = Copy(@, ch.next, n, wr.line, 1),
                                 !.next = @ + n,
                                 !.fill = Greatest(@, ch.next + n),
                                 !.dirty = TRUE]
                      /\ Wrote(n)
                      /\ UNCHANGED <<pc, rd, reply>>
                 ELSE c' = fsyncio(c) /\ Return(Failed)
    /\ UNCHANGED <<acc, wfaults>>

(* Past the buffer: as many whole buffers as the line has, straight to the *)
(* file.  What the buffer held is overwritten there.                       *)
WriteDirect ==
    /\ pc = "write" /\ wr.line # <<>>
    /\ c.next = 0 /\ Len(wr.line) >= Size
    /\ LET want == (Len(wr.line) \div Size) * Size
           ch   == [fsyncio(c) EXCEPT !.fill = 0]
       IN  \E n \in 0 .. want :
              /\ WriteTakes(n, want)
              /\ c' = [KWrite(ch, n, wr.line, 1) EXCEPT !.offset = @ + n,
                                                        !.curpos = @ + n]
              /\ IF n # want THEN Return(Failed)
                 ELSE Wrote(n) /\ UNCHANGED <<pc, rd, reply>>
    /\ UNCHANGED <<acc, rfaults>>

(* The line is out: the next one, or the end of the call. *)
WriteNext ==
    /\ pc = "write" /\ wr.line = <<>>
    /\ IF wr.rest = <<>>
       THEN Return(Reply("ok", <<>>))
       ELSE /\ wr' = [wr EXCEPT !.line = FirstLine(wr.rest, wr.width),
                                !.rest = OtherLines(wr.rest, wr.width)]
            /\ UNCHANGED <<pc, rd, reply>>
    /\ UNCHANGED <<c, acc, wfaults, rfaults>>

-----------------------------------------------------------------------------
(* The program's calls, and the turns of the loop of the one in progress. *)
Call ==
    \/ \E a \in Access : osopen(a)
    \/ osclose
    \/ zysrw
    \/ \E off \in 0 .. MaxPos : zysst(off, 0)
    \/ \E off \in {-1, 0, 1}, whence \in {1, 2} : zysst(off, whence)
    \/ \E phase \in {"copy", "raw"}, max \in RecSizes : StartRead(phase, max)
    \/ \E rec \in Records, width \in RecSizes \cup {0} : StartWrite(rec, width)

ReadTurn == Refill \/ CopyLine \/ DiscardLine \/ CopyRaw
WriteTurn == WriteFlush \/ WriteCopy \/ WriteDirect \/ WriteNext

Next == Call \/ ReadTurn \/ WriteTurn

Spec == Init /\ [][Next]_vars

(* The program runs the call it is in. *)
FairSpec == Spec /\ WF_vars(ReadTurn \/ WriteTurn)

-----------------------------------------------------------------------------
(* The channel as a RecordFile.  The file is the one on disk under the     *)
(* bytes in a dirty buffer, under the bytes a write has still to place.    *)
LinesOf(rec, width) ==
    LET total == Len(rec) + (Len(rec) + width - 1) \div width
    IN  [i \in 1 .. total |->
            IF i = total \/ i % (width + 1) = 0 THEN EOL
            ELSE rec[i - (i - 1) \div (width + 1)]]

Unwritten ==
    IF wr.rest = <<>> THEN wr.line ELSE wr.line \o LinesOf(wr.rest, wr.width)

Here == c.offset + c.next

InUse == (c.dirty /\ c.fill > 0) \/ Unwritten # <<>>

Buffered == IF InUse THEN Copy(c.disk, c.offset, c.fill, c.buf, 0) ELSE c.disk

BufferedEnd == IF InUse /\ c.fill > 0 THEN Greatest(c.eof, c.offset + c.fill)
               ELSE c.eof

FileContent ==
    IF Unwritten = <<>> THEN Buffered
    ELSE Copy(Buffered, Here, Len(Unwritten), Unwritten, 1)

FileEnd == IF Unwritten = <<>> THEN BufferedEnd
           ELSE Greatest(BufferedEnd, Here + Len(Unwritten))

VirtualEnd == IF InUse THEN FileEnd ELSE Greatest(c.eof, c.offset + c.fill)

Position == IF pc \in {"copy", "discard", "raw"} THEN rd.from
            ELSE Here + Len(Unwritten)

CallInProgress ==
    [op |-> CASE pc \in {"copy", "discard"} -> "line"
              [] pc = "raw" -> "raw"
              [] pc = "write" -> "write"
              [] pc = "idle" -> "none",
     max |-> rd.max]

File == INSTANCE RecordFile WITH
            content <- FileContent, eof <- FileEnd, vend <- VirtualEnd,
            pos <- Position, call <- CallInProgress,
            AppendMayMiss <- OpenMayFail

(* Every step of the channel is a step of the file it stands for, or none:  *)
(* no byte written is lost or misplaced, whatever is in the buffer, and     *)
(* every record read is the one at the channel's position: each byte of it  *)
(* below the end of the file is the file's (osread, oswrite, doset,         *)
(* osclose).                                                                *)
FileSpec == File!Spec

-----------------------------------------------------------------------------
(* The buffer's window on the file (flush.c, osread.c, doset.c): curpos,    *)
(* by which fsyncio decides whether to LSEEK, is where the descriptor       *)
(* really is, and the next byte is inside what the buffer holds.            *)
WindowInv ==
    /\ c.curpos = c.kpos
    /\ c.next <= c.fill
    /\ c.dirty => Oup

(* A buffer that is not dirty holds what the file holds (the buffer may be  *)
(* given up without being written), and one of a file open only for input   *)
(* ends no later than the file: nothing is read that is not there.          *)
CleanInv ==
    ~c.dirty =>
        /\ \A i \in Slots :
              i < c.fill /\ c.offset + i < c.eof => c.buf[i] = c.disk[c.offset + i]
        /\ ~Oup /\ c.fill > 0 => c.offset + c.fill <= c.eof

(* A record never outgrows the block it is read into (osread.c: recsiz), in *)
(* however many turns it is copied.                                         *)
RecordFits == pc \in {"copy", "discard", "raw"} => Len(rd.got) <= rd.max

(* A call on a channel never changes a file it was not opened to write, and *)
(* a file shrinks only when it is opened for output alone.                  *)
WritesOnlyOutput ==
    [][/\ ~Oup /\ acc' # "output" => UNCHANGED <<c.disk, c.eof>>
       /\ c'.eof < c.eof => acc = "closed" /\ acc' = "output"]_vars

(* What is read is a record of the file (sysin.c:10): a read that returns   *)
(* one leaves the channel no further than the end of the file.              *)
NoPhantom == reply.res = "data" => Position <= FileEnd

(* A file opened to append is written from its end on (osopen.c:119).       *)
AppendAtEnd ==
    [][acc = "closed" /\ acc' = "append" => Position' = FileEnd']_vars

(* Every call returns. *)
CallsReturn == pc # "idle" ~> pc = "idle"
=============================================================================
