---------------------------- MODULE StandardFiles ----------------------------
(***************************************************************************)
(* File descriptors 0 and 1 of spitbol: the routines that read standard    *)
(* input through its buffer, and that switch the two descriptors between   *)
(* what the shell provided, the source files, the include files and the -o *)
(* file (swcinp, save0, restore0, clrbuf, doset, zysif, swcoup).           *)
(*                                                                         *)
(* They are functions of a record io, what the kernel holds for the        *)
(* process and the globals of osint:                                       *)
(*   io.fds, io.desc   the open file of a descriptor; file and position of *)
(*                     an open file, which duplicates of a descriptor share *)
(*   io.buf            the bfblk of standard input                         *)
(*   io.shell          what the shell provides as standard input: "file",   *)
(*                     "pipe" or "tty", the terminal of descriptor 2       *)
(*   io.argv ...       the globals, under their names; inc is the stack    *)
(*                     inc_fd, inc_pos, its length nesting                 *)
(* A file is a sequence of lines, and a position counts lines.             *)
(***************************************************************************)
EXTENDS Integers, Sequences, FiniteSets, SequencesExt

CONSTANTS
    Disk,       \* the files: a function from names to sequences of lines
    BufLines,   \* lines that the buffer of standard input holds (1024 bytes)
    Depth,      \* INCLUDE_DEPTH and ccinm (9)
    Environment \* the environment, a function; SETL4PATH is a sequence of directories

(* A file name: directory ("" for none), base and extension.               *)
Name(dir, base, ext) == [dir |-> dir, base |-> base, ext |-> ext]
Shell   == Name("", "stdin", "")      \* standard input, as the shell provides it
Output  == Name("", "stdout", "")     \* standard output, likewise
Keyboard == Name("", "tty", "")      \* the terminal, where it is not standard input
Hyphen  == Name("", "-", "")
NoName  == Name("", "", "")

ASSUME FilesAssumption ==
    /\ Shell \in DOMAIN Disk
    /\ BufLines \in Nat \ {0} /\ Depth \in Nat \ {0}

Lines(f) == IF f \in DOMAIN Disk THEN [i \in 1 .. Len(Disk[f]) |-> <<f, i>>] ELSE <<>>
From(s, n) == SubSeq(s, n + 1, Len(s))
Smaller(a, b) == IF a <= b THEN a ELSE b
None == -1
NoLine == <<>>
------------------------------------------------------------------------------
(* The kernel.  A new descriptor is the lowest free one.                   *)
Fds == 0 .. 8 + Depth
Lowest(io) == CHOOSE n \in Fds : io.fds[n] = None /\ \A k \in 0 .. n - 1 : io.fds[k] # None

close(io, n) == IF n = None THEN io ELSE [io EXCEPT !.fds[n] = None]
dup(io, n) == IF n = None THEN io ELSE [io EXCEPT !.fds[Lowest(io)] = io.fds[n]]

FreeDesc(io) == CHOOSE d \in DOMAIN io.desc : \A n \in Fds : io.fds[n] # d

(* spit_open of a file that exists, or is created. *)
spit_open(io, f) ==
    LET d == FreeDesc(io)
    IN  [io EXCEPT !.fds[Lowest(io)] = d, !.desc[d] = [file |-> f, pos |-> 0]]

File(io, n) == io.desc[io.fds[n]].file
Position(io, n) == io.desc[io.fds[n]].pos
Seekable(io, n) == File(io, n) # Shell \/ io.shell = "file"
------------------------------------------------------------------------------
(* Standard input and its buffer.                                          *)
NoBuffer == [lines |-> <<>>, next |-> 0, offset |-> 0, curpos |-> None]

clrbufKeeps(io) == io                        \* mutant: the read-ahead stays

clrbuf(io) == [io EXCEPT !.buf = NoBuffer]

\* LSEEK of descriptor 0; on a pipe or terminal it fails and nothing changes.
LSEEK(io, pos) ==
    IF Seekable(io, 0)
    THEN [io EXCEPT !.desc[io.fds[0]].pos = pos, !.buf.curpos = pos] ELSE io

\* fillbuf, and flush of a buffer that is not dirty before it.  The LSEEK of
\* fsyncio may fail: its error is not looked at.
flushIn(io) == [io EXCEPT !.buf.offset = @ + Len(io.buf.lines),
                          !.buf.lines = <<>>, !.buf.next = 0]
\* A terminal gives a line at a time.
fillbuf(io) ==
    LET s == IF io.buf.offset = io.buf.curpos THEN io ELSE LSEEK(io, io.buf.offset)
        all == Lines(File(io, 0))
        size == IF File(io, 0) = Shell /\ io.shell = "tty" THEN 1 ELSE BufLines
        got == SubSeq(all, Position(s, 0) + 1, Smaller(Position(s, 0) + size, Len(all)))
    IN  [s EXCEPT !.desc[s.fds[0]].pos = @ + Len(got), !.buf.curpos = @ + Len(got),
                  !.buf.lines = got, !.buf.next = 0]

\* osread: the next line, or NoLine at the end of the file.
osread(io) ==
    LET s == IF io.buf.next >= Len(io.buf.lines) THEN fillbuf(flushIn(io)) ELSE io
    IN  IF s.buf.lines = <<>> THEN [io |-> s, line |-> NoLine]
        ELSE [io |-> [s EXCEPT !.buf.next = @ + 1], line |-> s.buf.lines[s.buf.next + 1]]

\* The common part of doset: to an absolute position.
MoveTo(io, target) ==
    LET b == io.buf
        at == (target \div BufLines) * BufLines
        f == flushIn(io)
        s == IF at = b.curpos THEN f ELSE LSEEK(f, at)
        filled == fillbuf([s EXCEPT !.buf.offset = at])
    IN  IF b.offset <= target /\ target <= b.offset + Len(b.lines)
        THEN [io EXCEPT !.buf.next = target - b.offset]
        ELSE IF at # b.curpos /\ ~Seekable(io, 0) THEN f
        ELSE [filled EXCEPT !.buf.next = Smaller(target - at, Len(filled.buf.lines))]

\* doset of standard input to the end of the file; geteof moves there, or fails
\* on a pipe and takes what is in the buffer for the end.
dosetEnd(io) ==
    LET b == io.buf
        e == LSEEK(io, Len(Lines(File(io, 0))))
    IN  IF Seekable(io, 0) THEN MoveTo(e, e.buf.curpos)
        ELSE [io EXCEPT !.buf.curpos = None, !.buf.next = Len(b.lines)]

\* The lines that reads of descriptor 0 will still give before its end of file.
Rest(io) ==
    LET b == io.buf
        at == b.offset + Len(b.lines)
        from == IF at = b.curpos \/ ~Seekable(io, 0) THEN Position(io, 0) ELSE at
    IN  IF io.fds[0] = None THEN <<>>
        ELSE From(b.lines, b.next) \o From(Lines(File(io, 0)), from)
------------------------------------------------------------------------------
(* Which file a name stands for.                                           *)
\* appendext without force: a name that has an extension keeps it and fails.
appendext(f, ext) == [f EXCEPT !.ext = ext]
Extended(f, ext) == IF f.ext = "" THEN <<appendext(f, ext)>> ELSE <<>>

\* What swcinp tries for a name on the command line.
SourceNames(io, cp) ==
    <<cp>> \o (IF io.executing THEN <<>>
               ELSE Extended(cp, ".spt")
                    \o (IF io.curfile = 1 THEN Extended(cp, ".spx") ELSE <<>>))

\* findenv; what is asked for is a sequence, of directories or of a value.
findenv(v) == IF v \in DOMAIN Environment THEN Environment[v] ELSE <<>>

\* initpath and trypath: the file in each directory of the search path.
trypath(f) ==
    LET path == findenv("SETL4PATH") IN [i \in DOMAIN path |-> [f EXCEPT !.dir = path[i]]]

\* What zysif tries for -INCLUDE: the name, the search path, the directory of
\* spitbol ("bin"), and that of the source file being read.  (The longer paths
\* it makes of a name that has a directory stand for no file.)
IncludeNames(io, f) ==
    <<f>> \o (IF f.dir # "" THEN <<>>
              ELSE trypath(f) \o <<[f EXCEPT !.dir = "bin"]>>
                   \o (IF io.sfn.dir = "" THEN <<>> ELSE <<[f EXCEPT !.dir = io.sfn.dir]>>))

Existing(names) == SelectSeq(names, LAMBDA f : f \in DOMAIN Disk)
------------------------------------------------------------------------------
(* Switching standard input.                                               *)
\* Descriptor 0 is made a duplicate of the shell's, saved at the first call.
ToShell(io) == dup(clrbuf(close(io, 0)), io.originp)

NextFileOnly(io) == [io EXCEPT !.curfile = @ + 1]     \* mutant: cmdcnt stays

NextFile(io) == [io EXCEPT !.cmdcnt = @ + 1, !.curfile = @ + 1]

\* swcinp: to the next source file or, once and at the end of them all, to the
\* shell's standard input.  status is "ok", "eof", or why it ends the process.
swcinp(io) ==
    LET a == [(IF io.originp = None THEN dup(io, 0) ELSE io)
                 EXCEPT !.sfn = Shell, !.originp = IF @ = None THEN Lowest(io) ELSE @]
        cp == io.argv[io.first + io.curfile]
        b == NextFile(a)
        c == clrbuf(close(b, 0))
        names == Existing(SourceNames(b, cp))
    IN  IF io.curfile < io.inpcnt
        THEN IF cp = Hyphen THEN [io |-> dup(c, c.originp), status |-> "ok"]
             ELSE IF names = <<>> THEN [io |-> c, status |-> "can't open"]
             ELSE [io |-> [spit_open(c, Head(names)) EXCEPT !.sfn = Head(names)],
                   status |-> "ok"]
        ELSE IF ~io.readshell0 THEN [io |-> a, status |-> "eof"]
        ELSE IF ~io.executing /\ io.inpcnt # 0 THEN [io |-> a, status |-> "no END"]
        ELSE [io |-> [ToShell(a) EXCEPT !.readshell0 = FALSE], status |-> "ok"]

\* save0 and restore0, around a command.
save0(io) == ToShell([dup(io, 0) EXCEPT !.save_fd0 = Lowest(io)])

restore0Leaks(io) == dup(clrbuf(close(io, 0)), io.save_fd0)   \* mutant: as before 1.13

restore0(io) == close(dup(clrbuf(close(io, 0)), io.save_fd0), io.save_fd0)

\* openprev: back to the file below on the stack of include files.
openprevForgets(io) ==          \* mutant: the position is not restored
    LET top == io.inc[Len(io.inc)]
    IN  clrbuf(close(dup([io EXCEPT !.inc = Front(@)], top.fd), top.fd))

openprev(io) ==
    LET top == io.inc[Len(io.inc)]
        s == clrbuf(close(dup([io EXCEPT !.inc = Front(@)], top.fd), top.fd))
    IN  MoveTo(s, top.pos)

\* Into an include file, if one is found and there is room.
IntoFile(io, f) ==
    LET b == io.buf
        pushed == clrbuf(close([dup(io, 0) EXCEPT
                     !.inc = Append(@, [fd |-> Lowest(io), pos |-> b.offset + b.next])], 0))
        names == Existing(IncludeNames(io, f))
    IN  IF names = <<>> THEN [io |-> openprev(pushed), found |-> FALSE]
        ELSE [io |-> spit_open(pushed, Head(names)), found |-> TRUE]

\* zysif with a name.
zysif(io, f) == IF Len(io.inc) = Depth THEN [io |-> io, found |-> FALSE] ELSE IntoFile(io, f)

\* zysif without one: back from an include file, if we are in one.
zysifEnd(io) == IF io.inc = <<>> THEN io ELSE openprev(close(io, 0))
------------------------------------------------------------------------------
(* Switching standard output.                                              *)
\* The -o file, or with a listing requested the one named for the source, or
\* nothing: then swcoup does nothing.
ListName(io) ==
    IF io.outptr = NoName
    THEN IF io.listing THEN [io.argv[io.first] EXCEPT !.ext = ".lst"] ELSE NoName
    ELSE IF io.outptr.ext = "" THEN [io.outptr EXCEPT !.ext = ".lst"] ELSE io.outptr

NoSwitch(io) == io.errflag \/ ListName(io) = NoName \/ io.outptr = Hyphen

\* State 1: the -o file is closed, the shell's output is back.
swcoup1NotClosed(io) == dup(io, io.origoup)               \* mutant
swcoup1(io) == close(dup(close(io, 1), io.origoup), io.origoup)

\* swcoup; ok is whether the -o file can be opened.  State 0 creates it, state 2
\* opens it again and moves to its end (oupeof).
swcoup(io, ok) ==
    LET t == [io EXCEPT !.oupState = @ + 1]
        c == close([dup(t, 1) EXCEPT !.origoup = Lowest(t)], 1)
        again == spit_open(close(t, 1), ListName(io))
    IN  CASE NoSwitch(io) -> io
          [] ~NoSwitch(io) /\ io.oupState = 0 ->
                IF ok THEN [spit_open(c, ListName(io)) EXCEPT !.printed.list = <<>>]
                ELSE [close(dup(c, c.origoup), c.origoup) EXCEPT !.errflag = TRUE]
          [] ~NoSwitch(io) /\ io.oupState = 1 -> swcoup1(t)
          [] ~NoSwitch(io) /\ io.oupState = 2 ->
                IF ok THEN [again EXCEPT !.desc[again.fds[1]].pos = Len(again.printed.list)]
                ELSE close(t, 1)
          [] OTHER -> t

\* oswrite of a line of standard output, as zyspr and zysou call it.  A line
\* written where descriptor 1 is closed is lost.
zyspr(io, line) ==
    IF io.fds[1] = None THEN io
    ELSE IF File(io, 1) = Output THEN [io EXCEPT !.printed.shell = Append(@, line)]
    ELSE LET at == Position(io, 1) + 1
         IN  [io EXCEPT !.desc[io.fds[1]].pos = at,
                        !.printed.list = [i \in 1 .. (IF at > Len(@) THEN at ELSE Len(@)) |->
                                             IF i = at THEN line ELSE @[i]]]
------------------------------------------------------------------------------
(* TERMINAL: descriptor 2, or the -T file.  Its buffer is empty between two  *)
(* lines, for a terminal gives one at a time.                               *)
zysri(io) ==
    LET all == Lines(File(io, 2))
        at == Position(io, 2)
    IN  IF at = Len(all) THEN [io |-> io, line |-> NoLine]
        ELSE [io |-> [io EXCEPT !.desc[io.fds[2]].pos = at + 1], line |-> all[at + 1]]

zyspi(io, line) ==
    CASE File(io, io.ttyfdn) \in {Shell, Keyboard} -> [io EXCEPT !.printed.terminal = Append(@, line)]
      [] File(io, io.ttyfdn) = Output              -> [io EXCEPT !.printed.shell = Append(@, line)]
      [] OTHER                                     -> [io EXCEPT !.printed.tty = Append(@, line)]

\* The -T file is opened at once, and stays open.
ttyoutfdnReuses(io, f) == [spit_open(io, f) EXCEPT !.ttyfdn = 1]     \* mutant: a fixed descriptor

ttyoutfdn(io, f) == [spit_open(io, f) EXCEPT !.ttyfdn = Lowest(io)]
==============================================================================
