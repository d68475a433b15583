------------------------------- MODULE Session -------------------------------
(***************************************************************************)
(* A run of spitbol from main to the end: the command line, the source and *)
(* include files the compiler reads, INPUT, CODE with -INCLUDE, HOST, and  *)
(* where the listing, the program's output and the statistics go.          *)
(*                                                                         *)
(* comp is the compiler's side (sbl.min): its stage, by its name there     *)
(* ("begin" when cmpil is done, "input" inside a zysrd of the program,     *)
(* "after" when sysax has been called, or why the process ended), its      *)
(* nesting of include files, the names it has included and whether it has  *)
(* met an error.                                                           *)
(***************************************************************************)
EXTENDS StandardFiles

CONSTANTS Starts,     \* command lines: argv, a sequence of [opts, name], and shell
          CodeNames,  \* the names that a running program may -INCLUDE with CODE
          MaxCalls    \* calls of CODE and HOST(1) in a run (a bound)

FileNames == [dir : STRING, base : STRING, ext : STRING]

\* No argument is the name of what the shell provides.
ASSUME SessionAssumption ==
    /\ MaxCalls \in Nat
    /\ \A start \in Starts :
         /\ start.argv \in Seq([opts : Seq(STRING), name : FileNames \ {Shell, Output, Keyboard}])
         /\ start.shell \in {"file", "pipe", "tty"}

VARIABLES io,      \* descriptors, buffer and globals of osint (StandardFiles)
          comp,    \* the compiler
          got,     \* the last line read, and a bit that changes with every line
          answer   \* what the last HOST returned

vars == <<io, comp, got, answer>>

HostFile == Name("/usr/lib", "spithost", "")

Kind(line) == Disk[line[1]][line[2]].kind
Included(line) == Disk[line[1]][line[2]].file
------------------------------------------------------------------------------
(* getargs.  An argument is a file name (opts empty) or a cluster of option *)
(* letters, of which the last may have its argument with it.               *)
\* filenamearg: the argument of -o or -T, in its cluster or the next one.
filenamearg(s, argv, inline, field) ==
    IF inline # NoName THEN [s EXCEPT ![field] = inline]
    ELSE IF s.i + 1 > Len(argv) THEN [s EXCEPT !.bad = TRUE]
    ELSE IF argv[s.i + 1].opts # <<>> THEN [s EXCEPT !.bad = TRUE]
    ELSE [s EXCEPT !.i = @ + 1, ![field] = argv[s.i + 1].name]

Option(s, argv, letter, inline) ==
    CASE s.bad -> s
      [] ~s.bad /\ letter = "l" -> [s EXCEPT !.listing = TRUE]
      [] ~s.bad /\ letter = "n" -> [s EXCEPT !.noexec = TRUE]
      [] ~s.bad /\ letter = "k" -> [s EXCEPT !.evenso = TRUE]
      [] ~s.bad /\ letter = "r" -> [s EXCEPT !.readshell0 = FALSE]
      [] ~s.bad /\ letter = "o" -> filenamearg(s, argv, inline, "outptr")
      [] ~s.bad /\ letter = "T" -> filenamearg(s, argv, inline, "ttyfile")
      [] ~s.bad /\ letter = "u" ->
            IF s.i + 1 > Len(argv) THEN [s EXCEPT !.bad = TRUE]
            ELSE [s EXCEPT !.i = @ + 1, !.uarg = argv[s.i + 1].name]
      [] OTHER -> [s EXCEPT !.bad = TRUE]

\* The letters of a cluster, one after the other.
Cluster(s, argv, arg) ==
    LET option[k \in 0 .. Len(arg.opts)] ==
            IF k = 0 THEN s ELSE Option(option[k - 1], argv, arg.opts[k], arg.name)
    IN  option[Len(arg.opts)]

\* getargs stops at the first file name; i is then its index.
Argument(s, argv, j) ==
    IF s.bad \/ s.found \/ j < s.i THEN s
    ELSE IF argv[j].opts = <<>> THEN [s EXCEPT !.found = TRUE]
    ELSE [Cluster(s, argv, argv[j]) EXCEPT !.i = @ + 1]

Unscanned == [i |-> 1, found |-> FALSE, bad |-> FALSE,
              outptr |-> NoName, ttyfile |-> NoName, uarg |-> NoName,
              readshell0 |-> TRUE, listing |-> FALSE, noexec |-> FALSE, evenso |-> FALSE]

getargs(argv) ==
    LET scanned[j \in 0 .. Len(argv)] ==
            IF j = 0 THEN Unscanned ELSE Argument(scanned[j - 1], argv, j)
    IN  scanned[Len(argv)]

\* The globals before main, and after getargs.  A terminal that is standard input
\* is descriptor 2 as well.
Globals(argv, shell, g) ==
    [fds |-> [n \in Fds |-> CASE n = 2 /\ shell = "tty" -> 0 [] n > 2 -> None [] OTHER -> n],
     desc |-> [d \in Fds |-> [file |-> CASE d = 0 -> Shell [] d = 2 -> Keyboard [] OTHER -> Output,
                              pos |-> 0]],
     buf |-> NoBuffer, shell |-> shell, ttyfdn |-> 2,
     argv |-> [j \in DOMAIN argv |-> IF argv[j].opts = <<>> THEN argv[j].name ELSE Hyphen],
     first |-> g.i, inpcnt |-> Len(argv) + 1 - g.i, cmdcnt |-> g.i, curfile |-> 0,
     uarg |-> g.uarg, outptr |-> g.outptr, listing |-> g.listing, noexec |-> g.noexec,
     evenso |-> g.evenso, readshell0 |-> g.readshell0, fromSource |-> ~g.readshell0,
     sfn |-> NoName, originp |-> None, save_fd0 |-> None, executing |-> FALSE, inc |-> <<>>,
     provide_name |-> TRUE, first_record |-> TRUE,
     oupState |-> 0, origoup |-> 1, errflag |-> FALSE,
     printed |-> [shell |-> <<>>, list |-> <<>>, terminal |-> <<>>, tty |-> <<>>]]

Init ==
    \E start \in Starts, ok \in BOOLEAN :
      LET g == getargs(start.argv)
          fresh == Globals(start.argv, start.shell, g)
      IN
      /\ ok \/ g.ttyfile # NoName
      /\ io = IF g.ttyfile # NoName /\ ok THEN ttyoutfdn(fresh, g.ttyfile) ELSE fresh
      /\ comp = [stage |-> CASE g.bad \/ ~ok -> "bad option"
                             [] g.found /\ ~g.bad /\ ok -> "main" [] OTHER -> "prompt",
                 cnind |-> 0, included |-> {}, errors |-> FALSE, calls |-> 0]
      /\ got = [line |-> NoLine, bit |-> 0]
      /\ answer = NoLine

Return(value) == answer' = value

\* main and setout: to the first source file, and to the -o file.  (What getsave
\* makes of a save file is in SaveFile.)
Main ==
    /\ comp.stage = "main"
    /\ \E ok \in BOOLEAN :
         LET w == swcinp([io EXCEPT !.sfn = io.argv[io.first]])
         IN  /\ io' = IF w.status = "ok" THEN swcoup(w.io, ok) ELSE w.io
             /\ comp' = [comp EXCEPT !.stage = IF w.status = "ok" THEN "stgic" ELSE w.status]
    /\ Return(<<>>) /\ UNCHANGED got
------------------------------------------------------------------------------
(* zysrd: one turn of its loop.  "again" is another turn; "name" reports a *)
(* new source file to the compiler; other results end the process.         *)
Result(s, kind, line) == [io |-> s, kind |-> kind, line |-> line]

\* A line: the #! line of a script makes it the only source file.
Record(r) ==
    IF io.first_record /\ Kind(r.line) = "#!"
    THEN Result([r.io EXCEPT !.first_record = FALSE, !.inpcnt = 1,
                             !.cmdcnt = Len(io.argv) + 1 - io.inpcnt + 1], "again", r.line)
    ELSE Result([r.io EXCEPT !.first_record = FALSE], "line", r.line)

\* The end of a source file.
NextSource(next) ==
    Result(next.io, CASE next.status # "ok" -> next.status
                      [] next.status = "ok" /\ io.executing -> "again"
                      [] OTHER -> "name", NoLine)

Turn(r) ==
    IF r.line # NoLine THEN Record(r)
    ELSE IF io.inc # <<>> THEN Result(r.io, "eof", NoLine) ELSE NextSource(swcinp(r.io))

zysrd ==
    IF io.provide_name THEN Result([io EXCEPT !.provide_name = FALSE], "name", NoLine)
    ELSE Turn(osread(io))

Got(r) == got' = IF r.kind = "line" THEN [line |-> r.line, bit |-> 1 - got.bit] ELSE got

\* What the compiler does after an error: it goes on, or CODE fails and forgets
\* that it is within an include file.
Error(c) ==
    IF c.stage = "stgic" THEN [c EXCEPT !.errors = TRUE]
    ELSE [c EXCEPT !.stage = "stgxt", !.cnind = 0]

\* -INCLUDE of f: ignored if the name has been seen.
Include(s, c, f) ==
    LET deeper == [c EXCEPT !.cnind = @ + 1, !.included = @ \cup {f}]
        z == zysif(s, f)
    IN  IF f \in c.included THEN [io |-> s, comp |-> c]
        ELSE IF deeper.cnind > Depth THEN [io |-> s, comp |-> Error(deeper)]
        ELSE [io |-> z.io, comp |-> IF z.found THEN deeper ELSE Error(deeper)]

\* The compiler is through with its text.
Through(c) == [c EXCEPT !.stage = IF c.stage \in {"stgic", "stgce"} THEN "begin" ELSE "stgxt"]

\* A line at the compiler.  Having read END it wants one more line, in case that
\* continues the END line, but only within an include file.
Compile(s, line) ==
    LET c == comp
        kind == Kind(line)
    IN  CASE c.stage \in {"stgce", "stgxe"} -> [io |-> s, comp |-> Through(c)]
          [] c.stage \in {"stgic", "stgxc"} /\ kind = "end" ->
                [io |-> s, comp |-> IF c.cnind = 0 THEN Through(c)
                                    ELSE [c EXCEPT !.stage = IF @ = "stgic" THEN "stgce" ELSE "stgxe"]]
          [] c.stage \in {"stgic", "stgxc"} /\ kind = "bad" -> [io |-> s, comp |-> Error(c)]
          [] c.stage \in {"stgic", "stgxc"} /\ kind = "include" -> Include(s, c, Included(line))
          [] OTHER -> [io |-> s, comp |-> c]

\* End of file at the compiler: back to the including file, or END is missing.
EndOfFile(s) ==
    LET up == [comp EXCEPT !.cnind = @ - 1]
    IN  IF comp.cnind = 0 THEN [io |-> s, comp |-> Through([comp EXCEPT !.errors = TRUE])]
        ELSE [io |-> zysifEnd(s),
              comp |-> IF up.cnind = 0 /\ up.stage # "stgic" THEN Through(up) ELSE up]

\* readr, with what the compiler does with the line: at the initial compilation
\* or in CODE, before END or just after it.
Compiled(r) ==
    CASE r.kind = "line" -> Compile(r.io, r.line)
      [] r.kind = "eof" -> EndOfFile(r.io)
      [] r.kind \in {"name", "again"} -> [io |-> r.io, comp |-> comp]
      [] OTHER -> [io |-> r.io, comp |-> [comp EXCEPT !.stage = r.kind]]

Readr ==
    /\ comp.stage \in {"stgic", "stgce", "stgxc", "stgxe"}
    /\ LET r == zysrd
       IN  /\ \E both \in {Compiled(r)} : io' = both.io /\ comp' = both.comp
           /\ Got(r)
    /\ Return(<<>>)

\* zysbx, up to its swcoup.
zysbx(s) ==
    IF s.readshell0
    THEN swcinp([dosetEnd(s) EXCEPT !.executing = TRUE, !.curfile = s.inpcnt]).io
    ELSE [s EXCEPT !.executing = TRUE]

\* The end of the compilation; the program is run unless -n or an error forbids.
Begin ==
    /\ comp.stage = "begin"
    /\ io' = swcoup(zysbx(io), TRUE)
    /\ comp' = [comp EXCEPT !.cnind = 0, !.stage =
                   IF io.noexec \/ (comp.errors /\ ~io.evenso) THEN "suppressed" ELSE "stgxt"]
    /\ Return(<<>>) /\ UNCHANGED got

\* INPUT in the program (or a channel on descriptor 0: zysin).
Input ==
    LET r == zysrd
    IN  /\ comp.stage \in {"stgxt", "input"}
        /\ io' = r.io
        /\ comp' = [comp EXCEPT !.stage = CASE r.kind = "again" -> "input"
                                            [] r.kind \in {"line", "eof", "name"} -> "stgxt"
                                            [] OTHER -> r.kind]
        /\ Got(r)
        /\ Return(<<>>)

\* CODE of a string that is an -INCLUDE of f.
Code(f) ==
    LET i == Include(io, [comp EXCEPT !.stage = "stgxc", !.calls = @ + 1], f)
    IN  /\ comp.stage = "stgxt" /\ comp.calls < MaxCalls
        /\ io' = i.io
        /\ comp' = IF i.comp.cnind = 0 THEN [i.comp EXCEPT !.stage = "stgxt"] ELSE i.comp
        /\ Return(<<>>) /\ UNCHANGED got

\* HOST(1, command): the command may read n lines of its standard input.
Command(n) ==
    LET s == save0(io)
        k == Smaller(n, Len(From(Lines(Shell), Position(s, 0))))
    IN  /\ comp.stage = "stgxt" /\ comp.calls < MaxCalls
        /\ io' = restore0([s EXCEPT !.desc[s.fds[0]].pos = @ + k])
        /\ comp' = [comp EXCEPT !.calls = @ + 1]
        /\ Return(<<>>)
        /\ UNCHANGED got

\* HOST(): what the host file says (all of it), or what spitbol makes up.
gethost == IF Lines(HostFile) # <<>> THEN Lines(HostFile) ELSE <<"x86-64:unix">>

\* HOST(4, v).
rdenv(v) == IF v \in DOMAIN Environment THEN findenv(v) ELSE <<>>

\* The calls of HOST that only ask: HOST() and HOST(4); HOST(0), -u or the
\* arguments from cmdcnt on; HOST(2, n), with n = HOST(3) or none of an argument;
\* HOST(3).  They change nothing; they are made before the other calls (a bound).
zyshs(s, function) ==
    CASE function = "host" -> {gethost}
      [] function = "0" -> {IF s.uarg # NoName THEN <<s.uarg>> ELSE From(s.argv, s.cmdcnt - 1)}
      [] function = "2" -> {<<s.argv[n]>> : n \in DOMAIN s.argv \cap {s.cmdcnt}} \cup {<<>>}
      [] function = "3" -> {<<s.cmdcnt>>}
      [] function = "4" -> {rdenv(v) : v \in {"SETL4PATH", "HOME"}}
Host ==
    /\ comp.stage = "stgxt" /\ comp.calls = 0
    /\ \E function \in {"host", "0", "2", "3", "4"} :
          \E value \in zyshs(io, function) : Return(<<function>> \o value)
    /\ UNCHANGED <<io, comp, got>>

\* The value of TERMINAL.
Terminal ==
    LET r == zysri(io)
    IN  /\ comp.stage = "stgxt" /\ comp.calls < MaxCalls
        /\ io' = r.io
        /\ comp' = [comp EXCEPT !.calls = @ + 1]
        /\ Return(<<"terminal", r.line>>)
        /\ UNCHANGED got

\* zyspr: a line of the listing, of the program's output or of the statistics
\* (one of each, a bound).
Write ==
    LET line == CASE comp.stage = "stgic" -> "listing"
                  [] comp.stage = "stgxt" -> "output"
                  [] OTHER -> "statistics"
    IN  /\ comp.stage \in {"stgic", "stgxt", "after"}
        /\ ~Contains(io.printed.shell \o io.printed.list, line)
        /\ io' = zyspr(io, line)
        /\ Return(<<>>) /\ UNCHANGED <<comp, got>>

\* An assignment to TERMINAL (one, a bound).
Say ==
    /\ comp.stage = "stgxt" /\ io.printed.terminal \o io.printed.tty = <<>>
    /\ io' = zyspi(io, "terminal")
    /\ Return(<<>>) /\ UNCHANGED <<comp, got>>

\* stopr: the program ends, or the compiler runs out of memory; sysax.
Stop ==
    /\ comp.stage \in {"stgic", "stgxt"}
    /\ \E ok \in BOOLEAN : io' = swcoup(io, ok)
    /\ comp' = [comp EXCEPT !.stage = "after"]
    /\ Return(<<>>) /\ UNCHANGED got

Next ==
    \/ Main \/ Readr \/ Begin \/ Input \/ Host \/ Terminal \/ Write \/ Say \/ Stop
    \/ \E f \in CodeNames : Code(f)
    \/ \E n \in 0 .. 1 : Command(n)

Spec == Init /\ [][Next]_vars
------------------------------------------------------------------------------
(***************************************************************************)
(* What is still to be read: the rest of the file at descriptor 0, of the  *)
(* files that include it, and of the source files after them.              *)
(***************************************************************************)
Unread(s, fd, pos) == From(Lines(File(s, fd)), IF Seekable(s, fd) THEN pos ELSE Position(s, fd))

\* The n files on top of the stack.
Stacked(s, n) == FlattenSeq([k \in 1 .. n |->
                    LET up == s.inc[Len(s.inc) + 1 - k] IN Unread(s, up.fd, up.pos)])

\* A later file is read from its start; so is the shell's standard input, unless
\* it is a pipe.  A name that is no file ends the process.
Later(s) ==
    LET argument(k) == s.argv[s.first + s.curfile + k - 1]
        names(f) == Existing(SourceNames([s EXCEPT !.curfile = 2], f))
        file(f)  == IF f = Hyphen THEN Shell ELSE IF names(f) = <<>> THEN NoName ELSE Head(names(f))
        files    == [k \in 1 .. s.inpcnt - s.curfile |-> file(argument(k))]
        none     == SelectInSeq(files, LAMBDA f : f = NoName)
        text(f)  == IF f = Shell THEN Unread(s, s.originp, 0) ELSE Lines(f)
        found    == IF none = 0 THEN files ELSE SubSeq(files, 1, none - 1)
    IN  FlattenSeq([k \in DOMAIN found |-> text(found[k])])

\* The compiler comes back to as many files as it believes it is nested in; at
\* the end of an include file INPUT gets no further.
Levels(s, c) == IF c.stage \in {"stgxt", "input"} THEN 0 ELSE Smaller(c.cnind, Len(s.inc))

Pending(s, c) ==
    Rest(s) \o Stacked(s, Levels(s, c)) \o (IF Levels(s, c) = Len(s.inc) THEN Later(s) ELSE <<>>)

\* text, or what a pipe leaves of it when the buffer is thrown away.
Kept(s, text, after) ==
    \/ after = text
    \/ /\ s.shell = "pipe"
       /\ \E n \in 1 .. BufLines : n <= Len(text) /\ after = From(text, n)

Ended == {"can't open", "no END", "bad option", "prompt", "suppressed"}

\* The file that -INCLUDE of f switches to in state (s, c), or NoName.
Target(s, c, f) ==
    IF f \in c.included \/ c.cnind + 1 > Depth \/ Existing(IncludeNames(s, f)) = <<>> THEN NoName
    ELSE Head(Existing(IncludeNames(s, f)))
------------------------------------------------------------------------------
\* The compiler, CODE and INPUT get every line of what is to be read, once and
\* in order; a #! line is skipped; an -INCLUDE line is followed by the lines of
\* its file and then by what came after it, whatever switches of descriptors and
\* moves of the buffer lie between.  Only from a pipe can an -INCLUDE lose lines.
\* What TERMINAL reads is gone for the rest, and nothing else is.
InOrder ==
    [][LET before  == Pending(io, comp)
           after   == Pending(io', comp')
           line    == got'.line
           reading == \/ comp.stage \in {"stgic", "stgce", "stgxc", "stgxe", "input"}
                      \/ comp.stage = "stgxt" /\ got' # got
           include == comp.stage \in {"stgic", "stgxc"} /\ Kind(line) = "include"
           lines   == IF include THEN Lines(Target(io, comp, Included(line))) ELSE <<>>
           failing == comp.stage \in {"stgxc", "stgxe"} /\ comp'.stage = "stgxt"
           terminal == answer' # <<>> /\ answer'[1] = "terminal"
       IN
         /\ terminal => after = SelectSeq(before, LAMBDA l : l # answer'[2])
         /\ reading /\ io'.printed = io.printed /\ comp'.stage \notin Ended \cup {"after"} =>
            IF got' = got
            THEN \/ after = before
                 \/ io.first_record /\ ~io'.first_record /\ after = Tail(before)
            ELSE /\ before # <<>> /\ line = Head(before)
                 /\ \/ after = lines \o Tail(before)
                    \/ include /\ ~Seekable(io, 0) /\ io.shell = "pipe"
                       /\ \E n \in 0 .. BufLines : after = lines \o From(Tail(before), n)
                    \/ failing /\ after = Rest(io')]_vars

\* When the program starts INPUT reads the shell's standard input from where
\* nobody has read it, or with -r what follows END; unless the program itself came
\* from there: then a file is read again from its start, and of a pipe what was
\* in the buffer is lost.
DataFollows ==
    comp.stage = "begin" /\ comp'.stage = "stgxt" =>
        LET after == Pending(io', comp')
            fromShell == File(io, 0) = Shell
        IN  CASE io.fromSource -> Len(io.inc) = 0 => after = Pending(io, comp)
              [] ~io.fromSource /\ (~fromShell \/ io.shell = "file") ->
                    io.inc = <<>> => after = Lines(Shell)
              [] OTHER -> io.inc = <<>> => Kept(io, Rest(io), after)

\* The open descriptors are the three of the shell, the duplicates of its standard
\* input and output, the -T file, and one for each file that waits for the end of an include
\* file: nothing leaks, and none is closed that is needed.
Descriptors ==
    comp.stage \notin {"main"} \cup Ended =>
        LET open == {n \in Fds : io.fds[n] # None}
            saved == IF io.oupState = 1 /\ ~io.errflag THEN {io.origoup} ELSE {}
            include == {io.inc[k].fd : k \in DOMAIN io.inc}
            tty == {io.ttyfdn} \ {2}
        IN  /\ Len(io.inc) <= Depth
            /\ {0, 2} \subseteq open
            /\ open \ {1} = ({0, 2, io.originp} \cup saved \cup include \cup tty) \ {1}
            /\ Cardinality({io.originp} \cup saved \cup include \cup tty)
                 = 1 + Cardinality(saved) + Len(io.inc) + Cardinality(tty)
            /\ 1 \notin open => io.oupState = 3
            /\ io.fds[io.originp] = 0

\* Unless an earlier one has left it within its file, CODE of an -INCLUDE puts the lines of the file, if it is found, before what the
\* program was going to read, and otherwise leaves that alone; from a pipe it can
\* lose what the buffer held.
CodeReads ==
    comp'.calls # comp.calls /\ comp'.included # comp.included /\ io.inc = <<>> =>
        LET before == Pending(io, comp)
            after  == Pending(io', comp')
            names  == comp'.included \ comp.included
            lines  == FoldSet(LAMBDA f, t : Lines(Target(io, comp, f)) \o t, <<>>, names)
        IN  \/ after = lines \o before
            \/ /\ ~Seekable(io, 0) /\ io.shell = "pipe"
               /\ \E n \in 1 .. BufLines : n <= Len(before) /\ after = lines \o From(before, n)

\* Whoever reads next, the program's INPUT or CODE, and whatever standard input
\* was switched to for it, goes on where it should, as the two say above.
Switches == [][DataFollows /\ CodeReads]_vars

\* With an -o file, or a listing, only the program writes to the shell's standard
\* output (swcoup.c:29), and nothing overwrites the listing: unless the file cannot
\* be opened, or the compiler runs out of memory.  TERMINAL keeps to the terminal or
\* its file.
OutputSeparated ==
    LET separate == comp.stage # "main" /\ ~NoSwitch(io)
    IN  /\ separate /\ (io.executing \/ comp.stage # "after") =>
              \A i \in DOMAIN io.printed.shell : io.printed.shell[i] = "output"
        /\ \A i \in DOMAIN io.printed.list :
              io.printed.list[i] = "listing" \/ (io.printed.list[i] = "statistics" /\ i = Len(io.printed.list))
        /\ ~separate => io.printed.list = <<>>
        /\ ToSet(io.printed.terminal \o io.printed.tty) \subseteq {"terminal"}
        /\ io.printed.tty # <<>> => io.ttyfdn # 2 /\ ~Contains(io.printed.shell, "terminal")

\* HOST(3) is the index of the first argument after the files the program came
\* from, so that HOST(2, HOST(3)) and HOST(0) give the program its arguments;
\* unless a #! line was the first one of a later file.
ArgumentsLeft ==
    comp.stage \in {"stgic", "stgce", "begin"} =>
        io.cmdcnt = io.first + io.curfile \/ (io.curfile > 1 /\ io.inpcnt = 1)
==============================================================================
