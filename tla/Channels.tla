------------------------------ MODULE Channels ------------------------------
(***************************************************************************)
(* INPUT, OUTPUT, DETACH, ENDFILE, and the closing of every channel at the *)
(* end of a run: the table of channels that ioput, dtach and s_enf         *)
(* (sbl.min) keep, the files and pipes that zysfc, zysio, osopen, ospipe   *)
(* and osclose open and close for it, and the processes that oswait waits  *)
(* for.                                                                    *)
(*                                                                         *)
(* What is in a file, and how a buffer gets there, is BufferedFile's: here *)
(* an ioblk has only a bit that says its buffer holds output.              *)
(*                                                                         *)
(* w is the storage of the program and the kernel's tables: chan, the      *)
(* trtrf block of a channel's vrblk (0: none); block, the fcblk (trfpt)    *)
(* and the variables on the chain (iochn) of a trtrf block; assoc, the trtrf *)
(* block of a variable's trblks; fcblk, the ioblk of an fcblk (0: none,    *)
(* or an address where there is none any more); iob; r_fcb, the chain of   *)
(* fcblks; fds, what a descriptor is; child.  A block nothing points to is *)
(* collected.                                                              *)
(***************************************************************************)
EXTENDS Integers, FiniteSetsExt, SequencesExt

CONSTANTS Chans,      \* names of channels (filearg1)
          Vars,       \* variables that are associated
          NoVar,      \* a first argument that is no name
          Calls,      \* calls of INPUT and OUTPUT: <<variable, direction, channel, argument>>,
                      \* the argument being [name, opts], with opts of [letter, num]
          Standard,   \* those with neither a channel nor an argument: <<variable, direction>>
          Alias,      \* what the command line or the environment says of a channel
          Null, Hyphen, \* the empty file name, and "-"
          Commands,   \* file names that start with "!"
          Terminals,  \* those of the descriptors 0, 1, 2 that are terminals
          MaxSize,    \* maxsize
          OpenFiles,  \* OPEN_FILES: the last descriptor a new process closes
          FdMax,      \* the last descriptor the kernel has
          Blocks, Fcbs, Iobs, Pids  \* how many of each there can be (bounds)

Dirs == {"in", "out"}
IsArgument(a) == a.opts \in Seq([letter : STRING, num : Int])

ASSUME ChannelsAssumption ==
  /\ Blocks \cup Fcbs \cup Iobs \cup Pids \subseteq Nat \ {0}
  /\ FdMax \in Nat /\ NoVar \notin Vars /\ Hyphen \notin Commands
  /\ \A call \in Calls : /\ call[1] \in Vars \cup {NoVar} /\ call[2] \in Dirs
                         /\ call[3] \in Chans /\ IsArgument(call[4])
  /\ \A call \in Standard : call[1] \in Vars /\ call[2] \in Dirs
  /\ \A c \in Chans : Alias[c] # Null => IsArgument(Alias[c])

Fds == 3..FdMax
Std == -1        \* association with standard input or output
Closed == -1     \* in fds; 0 is a file, p > 0 the pipe to process p

VARIABLES w,      \* the channels, the files and the processes
          op      \* the call that is waiting, where close_all is, or how spitbol ended

vars == <<w, op>>

NoIob == [file |-> Null, inp |-> FALSE, oup |-> FALSE, sys |-> FALSE, opn |-> FALSE, wrc |-> FALSE,
          pip |-> FALSE, ded |-> FALSE, fd |-> 0, pid |-> 0, dirty |-> FALSE]
NoBlock == [fcb |-> 0, iochn |-> {}]
NoChild == [state |-> "none", reads |-> FALSE, holds |-> {}]
------------------------------------------------------------------------------
(* Storage. *)
LiveBlocks(s) == (Range(s.chan) \cup UNION {Range(s.assoc[v]) : v \in Vars}) \ {0, Std}
LiveFcbs(s) == ({s.block[b].fcb : b \in LiveBlocks(s)} \cup Range(s.r_fcb)) \ {0}
LiveIobs(s) == {s.fcblk[f] : f \in LiveFcbs(s)} \ {0}
LivePids(s) == {s.iob[i].pid : i \in LiveIobs(s)}
                 \cup {p \in Pids : s.child[p].state \notin {"none", "reaped"}}

\* What cannot be reached is free for alloc; a process number that nobody has
\* written down and no process has is the kernel's to give again.
Collected(s) ==
    [s EXCEPT !.block = [b \in Blocks |-> IF b \in LiveBlocks(s) THEN @[b] ELSE NoBlock],
              !.fcblk = [f \in Fcbs |-> IF f \in LiveFcbs(s) THEN @[f] ELSE 0],
              !.iob   = [i \in Iobs |-> IF i \in LiveIobs(s) THEN @[i] ELSE NoIob],
              !.child = [p \in Pids |-> IF p \in LivePids(s) THEN @[p] ELSE NoChild]]
------------------------------------------------------------------------------
(* Files and processes: osopen, ospipe, osclose, oswait. *)
Yes(s) == [w |-> s, ok |-> TRUE]
No(s) == [w |-> s, ok |-> FALSE]
Free(s) == {d \in Fds : s.fds[d] = Closed}

\* The pipes whose write end a process made now is left with.
Inherited(s) == {s.fds[d] : d \in {e \in OpenFiles + 1..FdMax : s.fds[e] > 0}}
Kept(s) == {p \in Inherited(s) : s.child[p].reads}

\* A pipe and a process at its other end; pipe or fork may fail.
ospipe(s, i) ==
    LET r == Min(Free(s))
        parentfd == IF s.iob[i].inp THEN r ELSE Min(Free(s) \ {r})
        p == Min(Pids \ LivePids(s))
        t == [s EXCEPT !.fds[parentfd] = p,
                       !.iob[i].pid = p, !.iob[i].fd = parentfd, !.iob[i].opn = TRUE,
                       !.child[p] = [state |-> "running", reads |-> ~s.iob[i].inp, holds |-> {}]]
    IN  {No(s)} \cup
        IF (s.iob[i].inp /\ s.iob[i].oup) \/ Cardinality(Free(s)) < 2 \/ Pids \subseteq LivePids(s)
        THEN {} ELSE {Yes([t EXCEPT !.child[p].holds = Kept(t)])}

\* spit_open fails on a file that is not there, cannot be made, or when there
\* are no more descriptors.
OpenNow(s, i) ==
    LET b == s.iob[i]
        d == Min(Free(s))
        std == IF b.oup THEN 2 ELSE 0
    IN  CASE b.file \in Commands -> ospipe([s EXCEPT !.iob[i].pip = TRUE], i)
          [] b.file = Hyphen ->
                {Yes([s EXCEPT !.iob[i] = [b EXCEPT !.sys = TRUE, !.fd = std, !.opn = TRUE,
                                                    !.wrc = @ \/ (b.oup /\ std \in Terminals)]])}
          [] OTHER -> {No(s)} \cup
                IF Free(s) = {} THEN {}
                ELSE {Yes([s EXCEPT !.fds[d] = 0, !.iob[i].fd = d, !.iob[i].opn = TRUE])}

osopenAgain(s, i) ==  \* mutant: a file that is open is opened once more
    OpenNow(s, i)

osopen(s, i) == IF s.iob[i].opn THEN {Yes(s)} ELSE OpenNow(s, i)

\* Writing to a pipe that nobody reads any more is the end of spitbol (SIGPIPE).
Broken(s, i) == s.iob[i].pip /\ s.child[s.iob[i].pid].state # "running"

AwaitedDead(s, i) ==  \* mutant: waits for a process that is known to be dead
    LET b == s.iob[i] IN IF b.pip THEN b.pid ELSE 0

\* The process that osclose must wait for, if any.
Awaited(s, i) ==
    LET b == s.iob[i] IN IF b.pip /\ ~b.ded THEN b.pid ELSE 0

OfShell(s, i) == s.iob[i].sys /\ s.iob[i].fd \in 0..2

\* Each result has the process to wait for (0: none) and the number of errors;
\* killed says that the flush ended spitbol.
osclose(s, i) ==
    LET b == s.iob[i]
        p == Awaited(s, i)
        Result(t, pid, n) == [w |-> t, pid |-> pid, errs |-> n, killed |-> FALSE]
        errors == IF b.oup /\ b.dirty /\ ~b.pip THEN {0, 1} ELSE {0}
        shut == [s EXCEPT !.iob[i].opn = FALSE, !.iob[i].dirty = FALSE, !.iob[i].ded = FALSE,
                          !.iob[i].fd = 0, !.fds[b.fd] = Closed]
        quit == IF p # 0 /\ b.inp /\ s.child[p].state = "running"
                THEN [shut EXCEPT !.child[p].state = "killed"] ELSE shut
    IN  CASE ~b.opn -> {Result(s, 0, 0)}
          [] b.opn /\ b.dirty /\ Broken(s, i) -> {[Result(s, 0, 0) EXCEPT !.killed = TRUE]}
          [] b.opn /\ ~(b.dirty /\ Broken(s, i)) /\ OfShell(s, i) ->
                {Result([s EXCEPT !.iob[i].dirty = FALSE], 0, n) : n \in errors}
          [] OTHER -> {Result(quit, p, n + (IF s.fds[b.fd] = Closed THEN 1 ELSE 0)) : n \in errors}

MarkHead(s, p) ==     \* mutant: looks at the first fcblk of the chain only
    IF s.r_fcb # <<>> /\ s.fcblk[s.r_fcb[1]] # 0 /\ s.iob[s.fcblk[s.r_fcb[1]]].pid = p
    THEN [s EXCEPT !.iob[s.fcblk[s.r_fcb[1]]].ded = TRUE] ELSE s

\* oswait notes the death of a process it was not waiting for in the first
\* ioblk of the chain that is its.
Mark(s, p) ==
    LET its == {k \in DOMAIN s.r_fcb : s.fcblk[s.r_fcb[k]] # 0 /\ s.iob[s.fcblk[s.r_fcb[k]]].pid = p}
    IN  IF its = {} THEN s ELSE [s EXCEPT !.iob[s.fcblk[s.r_fcb[Min(its)]]].ded = TRUE]
------------------------------------------------------------------------------
(* zysfc and zysio: what the second argument asks for. *)
Allowed(o) ==
    \/ o.letter \in {"A", "C", "F", "I", "S", "U", "W", "X", "Y"}
    \/ o.letter \in {"B", "L", "Q", "R"} /\ o.num > 0 /\ o.num <= MaxSize

\* A, C, I, Q, S and X set what other modules or nobody tells apart; the limit of
\* a buffer (B), which leaves room for its head, is taken as maxsize.  Of several
\* descriptors (F) the last one counts.
sioarg(dir, opts) ==
    LET letters == {o.letter : o \in Range(opts)}
        fds == {k \in DOMAIN opts : opts[k].letter = "F"}
    IN  [ok  |-> \A o \in Range(opts) : Allowed(o),
         typ |-> opts # <<>>,
         fdn |-> IF fds = {} THEN 0 ELSE opts[Max(fds)].num,
         inp |-> dir = "in" \/ "U" \in letters,
         oup |-> dir = "out" \/ "U" \in letters,
         opn |-> fds # {},
         wrc |-> \/ letters \cap {"W", "Y"} # {}
                 \/ dir = "out" /\ \E k \in fds : opts[k].num \in Terminals]

\* The request: kind is "all" (fcblk, ioblk and buffer), "fcb" (a new fcblk for
\* the open ioblk), "none", or "exit" when zysfc fails; ill marks a channel that
\* is open the other way (IO_ILL).  With no file name, no descriptor and no
\* channel, the second argument is looked up under the channel's name.
zysfc(s, c, dir, fcb, given) ==
    LET lookup == fcb = 0 /\ given.name = Null /\ sioarg(dir, given.opts).ok
                    /\ ~sioarg(dir, given.opts).opn /\ Alias[c] # Null
        arg == IF lookup THEN Alias[c] ELSE given
        t == sioarg(dir, arg.opts)
        old == s.iob[s.fcblk[fcb]]
        named == arg.name # Null \/ t.opn
        wrong == \/ ~t.ok
                 \/ arg.name # Null /\ t.opn
                 \/ named /\ fcb # 0 /\ old.opn
                 \/ ~named /\ fcb = 0
    IN  [kind |-> CASE wrong -> "exit" [] ~wrong /\ named -> "all"
                    [] ~wrong /\ ~named /\ t.typ -> "fcb" [] OTHER -> "none",
         name |-> arg.name, t |-> t,
         ill |-> fcb # 0 /\ ~((t.inp /\ old.inp) \/ (t.oup /\ old.oup))]

\* The ioblk that zysio fills in.  Descriptor 1 is not buffered.
NewIob(q) ==
    [NoIob EXCEPT !.file = q.name, !.inp = q.t.inp, !.oup = q.t.oup, !.wrc = q.t.wrc \/ (q.t.opn /\ q.t.fdn = 1),
                  !.sys = q.t.opn, !.opn = q.t.opn, !.fd = q.t.fdn]
------------------------------------------------------------------------------
(* ioput. *)
\* The fcblk f of block b is new: cleared, and the block points to it.
NewFcb(s, b, f) == [s EXCEPT !.block[b].fcb = f, !.fcblk[f] = 0]

OnlyOneListed(s, f) ==     \* mutant: the new entry of the chain lacks its link
    IF f \in Range(s.r_fcb) THEN s.r_fcb ELSE <<f>>

\* iop23: the fcblk goes in front of the chain unless it is there.
Listed(s, f) ==
    IF f \in Range(s.r_fcb) THEN s.r_fcb ELSE <<f>> \o s.r_fcb

NameFirst(s, b, v) ==      \* mutant: a variable that is on another chain is not added
    s.block[b].iochn \cup IF \E a \in Blocks : v \in s.block[a].iochn THEN {} ELSE {v}

\* iop20: and the variable goes on the block's, unless it is there.
Named(s, b, v) == s.block[b].iochn \cup {v}

Associated(s, v, dir, b, f) ==
    [s EXCEPT !.assoc[v][dir] = b, !.block[b].iochn = Named(s, b, v), !.r_fcb = Listed(s, f)]

\* iop11 to iop25, for the fcblk f of block b; release says that r_iop is set:
\* if zysio fails, the trtrf block is taken out of the channel's chain.
Complete(s, v, c, dir, b, f, q, release) ==
    LET Failed(t, how) == [w |-> IF release THEN [t EXCEPT !.chan[c] = 0] ELSE t, reply |-> how]
        Opened(r) == CASE ~r.ok -> Failed(r.w, "fail")
                       [] r.ok /\ v = NoVar -> [w |-> r.w, reply |-> "error"]
                       [] OTHER -> [w |-> Associated(r.w, v, dir, b, f), reply |-> "ok"]
    IN  IF q.ill THEN {Failed(s, IF release THEN "error" ELSE "fail")}
        ELSE IF s.fcblk[f] = 0 THEN {[w |-> s, reply |-> "crash"], Opened(Yes(s))}
        ELSE {Opened(r) : r \in osopen(s, s.fcblk[f])}

\* The call for channel c: its results, each with the new storage and a reply.
\* A new fcblk that is not filled in because of IO_ILL stays in its block.  The
\* address that zysfc keeps (save_iob) is no root of the collector: when alloc
\* has moved the ioblk, the new fcblk leads to no ioblk.
ioput(s, v, dir, c, arg) ==
    LET b == s.chan[c]
        fcb == IF b = 0 THEN 0 ELSE s.block[b].fcb
        q == zysfc(s, c, dir, fcb, arg)
        nb == IF b = 0 THEN Min(Blocks \ LiveBlocks(s)) ELSE b
        f == Min(Fcbs \ LiveFcbs(s))
        i == Min(Iobs \ LiveIobs(s))
        t == [NewFcb(s, nb, f) EXCEPT !.chan[c] = nb]
    IN  IF fcb # 0 /\ s.fcblk[fcb] = 0 THEN {[w |-> s, reply |-> "crash"]}
        ELSE CASE q.kind = "exit" -> {[w |-> s, reply |-> "error"]}
               [] q.kind = "none" -> Complete(s, v, c, dir, b, fcb, q, TRUE)
               [] q.kind = "fcb" -> Complete(t, v, c, dir, nb, f, q, FALSE) \cup
                                    IF q.ill THEN {} ELSE Complete([t EXCEPT !.fcblk[f] = s.fcblk[fcb]],
                                                                   v, c, dir, nb, f, q, FALSE)
               [] q.kind = "all" -> IF q.ill THEN Complete(t, v, c, dir, nb, f, q, b = 0)
                                    ELSE Complete([t EXCEPT !.fcblk[f] = i, !.iob[i] = NewIob(q)],
                                                  v, c, dir, nb, f, q, b = 0)

\* There is storage for what a call may allocate (a bound).
Room(s) ==
    Blocks \ LiveBlocks(s) # {} /\ Fcbs \ LiveFcbs(s) # {} /\ Iobs \ LiveIobs(s) # {}
------------------------------------------------------------------------------
(* The actions. *)
Idle == [at |-> "idle", pid |-> 0, todo |-> <<>>, why |-> "none", chan |-> 0, errs |-> 0]

Nothing ==
    [chan |-> [c \in Chans |-> 0], block |-> [b \in Blocks |-> NoBlock],
     assoc |-> [v \in Vars |-> [d \in Dirs |-> 0]],
     fcblk |-> [f \in Fcbs |-> 0], iob |-> [i \in Iobs |-> NoIob], r_fcb |-> <<>>,
     fds |-> [d \in Fds |-> Closed], child |-> [p \in Pids |-> NoChild]]

Init == w = Nothing /\ op = Idle

\* The process ends: the kernel closes its descriptors.
Ends == {"exit", "crash", "killed"}
Gone(s) == [s EXCEPT !.fds = [d \in Fds |-> Closed]]

\* A call returns: "ok", by failing, with an error, or not at all.  What was the
\* program's is not kept when it is killed or crashes.
Answer(s, how) ==
    /\ w' = CASE how \in {"crash", "killed"} -> Nothing [] how = "exit" -> Gone(s) [] OTHER -> Collected(s)
    /\ op' = IF how \in Ends THEN [Idle EXCEPT !.at = how] ELSE Idle

Associate(v, dir, c, arg) ==
    /\ op.at = "idle" /\ Room(w)
    /\ \E r \in ioput(w, v, dir, c, arg) : Answer(r.w, r.reply)

\* INPUT(.V) and OUTPUT(.V).
AssociateStd(v, dir) ==
    /\ op.at = "idle"
    /\ Answer([w EXCEPT !.assoc[v][dir] = Std], "ok")

\* The block and ioblk that an association leads to; block 0 is no association.
Through(v, dir) == w.assoc[v][dir]
IobOf(b) == w.fcblk[w.block[b].fcb]

\* oswrite of a record that does not fill the buffer.  It does not ask whether
\* the ioblk is for output; what EJECT leaves in a buffer for input is no output.
oswrite(i) ==
    CASE i = 0 -> Answer(w, "crash")
      [] i # 0 /\ ~w.iob[i].opn -> Answer(w, "error")
      [] i # 0 /\ w.iob[i].opn /\ w.iob[i].wrc ->
            \E how \in CASE ~w.iob[i].oup /\ ~w.iob[i].sys -> {"error"}
                         [] Broken(w, i) -> {"killed"} [] OTHER -> {"ok", "error"} :
               Answer(w, how)
      [] OTHER -> Answer([w EXCEPT !.iob[i].dirty = w.iob[i].oup], "ok")

\* zysou: an assignment to a variable with an output association.
Write(v) ==
    /\ op.at = "idle" /\ Through(v, "out") > 0
    /\ oswrite(IobOf(Through(v, "out")))

\* s_ejc and zysef: a form feed, whichever way the channel is open.
Eject(c) ==
    /\ op.at = "idle"
    /\ IF w.chan[c] = 0 THEN Answer(w, "error") ELSE oswrite(IobOf(w.chan[c]))

\* zysin: the value of a variable with an input association.
Read(v) ==
    /\ op.at = "idle" /\ Through(v, "in") > 0
    /\ LET i == IobOf(Through(v, "in")) IN
         CASE i = 0 -> Answer(w, "crash")
           [] i # 0 /\ ~w.iob[i].opn -> Answer(w, "error")
           [] OTHER -> Answer(w, "ok")

\* Every association of the variables vs goes, and they from the chains of their blocks.
dtach(s, vs) ==
    [s EXCEPT !.assoc = [v \in Vars |-> IF v \in vs THEN [d \in Dirs |-> 0] ELSE @[v]],
              !.block = [a \in Blocks |-> [s.block[a] EXCEPT !.iochn = @ \ {v \in vs : a \in Range(s.assoc[v])}]]]

Detach(v) ==
    /\ op.at = "idle"
    /\ Answer(dtach(w, {v}), "ok")

\* Close the ioblk i and go on with d, which says what is left to do.
Close(i, d) ==
    \E r \in osclose(w, i) :
       IF r.killed THEN Answer(r.w, "killed")
       ELSE /\ w' = r.w
            /\ op' = [d EXCEPT !.at = IF r.pid = 0 THEN "closed" ELSE "waiting", !.pid = r.pid,
                               !.errs = @ + r.errs]

\* s_enf, up to the return of zysen.
Endfile(c) ==
    /\ op.at = "idle"
    /\ LET i == IF w.chan[c] = 0 THEN 0 ELSE IobOf(w.chan[c]) IN
         CASE w.chan[c] = 0 -> Answer(w, "error")
           [] w.chan[c] # 0 /\ i = 0 -> Answer(w, "crash")
           [] w.chan[c] # 0 /\ i # 0 /\ ~w.iob[i].opn -> Answer(w, "error")
           [] OTHER -> Close(i, [Idle EXCEPT !.why = "endfile", !.chan = w.chan[c]])

\* The rest of s_enf: the block leaves the channel, its fcblk the chain, and the
\* variables on its chain are detached.  An error leaves everything as it is.
EndfileDone ==
    /\ op.at = "closed" /\ op.why = "endfile"
    /\ LET b == op.chan
           s == [w EXCEPT !.chan = [c \in Chans |-> IF @[c] = b THEN 0 ELSE @[c]],
                          !.r_fcb = RemoveFirst(@, w.block[b].fcb)]
       IN IF op.errs > 0 THEN Answer(w, "error")
          ELSE Answer(dtach(s, w.block[b].iochn), "ok")

\* zysej closes every file and ends; zysxi closes them and executes a command.
CloseAll(why) ==
    /\ op.at = "idle"
    /\ op' = [Idle EXCEPT !.at = "closed", !.why = why, !.todo = w.r_fcb]
    /\ UNCHANGED w

CloseNext ==
    /\ op.at = "closed" /\ op.todo # <<>>
    /\ LET i == w.fcblk[Head(op.todo)] IN
         IF i = 0 THEN Answer(w, "crash")
         ELSE Close(i, [op EXCEPT !.todo = Tail(@), !.pid = 0])

\* The shell takes the place of spitbol, or cannot be executed: then the program
\* goes on, its files closed.
doexec == Answer(w, "exit") \/ Answer(w, "fail")

CloseAllDone ==
    /\ op.at = "closed" /\ op.todo = <<>>
    /\ \/ op.why = "chain" /\ doexec
       \/ op.why = "end" /\ Answer(w, "exit")

\* oswait: a process has ended, or there are none to wait for.
oswait ==
    /\ op.at = "waiting"
    /\ IF \A p \in Pids : w.child[p].state \in {"none", "reaped"}
       THEN op' = [op EXCEPT !.at = "closed"] /\ UNCHANGED w
       ELSE \E p \in Pids :
              /\ w.child[p].state = "zombie"
              /\ LET s == [w EXCEPT !.child[p].state = "reaped"] IN
                   IF p = op.pid THEN w' = s /\ op' = [op EXCEPT !.at = "closed"]
                   ELSE w' = Mark(s, p) /\ UNCHANGED op

\* A process ends, for whatever reason.
Exits(p) ==
    /\ op.at \notin Ends /\ w.child[p].state \in {"running", "killed"}
    /\ w' = [w EXCEPT !.child[p].state = "zombie", !.child[p].holds = {}]
    /\ UNCHANGED op

\* The pipe that process p reads has no writers any more.
AtEnd(p) ==
    /\ w.child[p].reads
    /\ \A d \in Fds : w.fds[d] # p
    /\ \A q \in Pids : p \notin w.child[q].holds

Next ==
    \/ \E call \in Calls : Associate(call[1], call[2], call[3], call[4])
    \/ \E call \in Standard : AssociateStd(call[1], call[2])
    \/ \E v \in Vars : Write(v) \/ Read(v) \/ Detach(v)
    \/ \E c \in Chans : Endfile(c) \/ Eject(c)
    \/ EndfileDone
    \/ \E why \in {"end", "chain"} : CloseAll(why)
    \/ CloseNext \/ CloseAllDone
    \/ oswait
    \/ \E p \in Pids : Exits(p)

Spec == Init /\ [][Next]_vars

\* spitbol goes on with a call it has begun; a process that has been told to quit,
\* or has come to the end of its input, ends.
Proceed == EndfileDone \/ CloseNext \/ CloseAllDone \/ oswait
MustExit(p) == (w.child[p].state = "killed" \/ AtEnd(p)) /\ Exits(p)

FairSpec == Spec /\ WF_vars(Proceed) /\ \A p \in Pids : WF_vars(MustExit(p))
------------------------------------------------------------------------------
(* Properties. *)
\* The programs whose channels all get on the chain r_fcb: the first argument of
\* INPUT and OUTPUT is always a name (it is looked at when the file is open), and
\* option F names one of the descriptors that every process starts with.
StartedWith(a) == \A k \in DOMAIN a.opts : a.opts[k].letter = "F" => a.opts[k].num \in 0..2
Suitable ==
    /\ \A call \in Calls : call[1] \in Vars /\ StartedWith(call[4])
    /\ \A c \in Chans : Alias[c] # Null => StartedWith(Alias[c])

Open == {i \in Iobs : w.iob[i].opn}

\* Descriptors: each one that is open belongs to one open ioblk that can still be
\* reached, and each open ioblk has its descriptor, with its own process at the
\* other end if it is a pipe: no descriptor is lost, closed twice or shared, by
\* whatever sequence of INPUT, OUTPUT and ENDFILE that fail half-way.
FdsOwned ==
    op.at \notin Ends =>
      /\ \A d \in Fds : w.fds[d] # Closed => \E i \in Open : w.iob[i].fd = d
      /\ \A i \in Open : w.iob[i].fd \in Fds =>
            /\ w.fds[w.iob[i].fd] = IF w.iob[i].pip THEN w.iob[i].pid ELSE 0
            /\ \A j \in Open \ {i} : w.iob[j].fd # w.iob[i].fd

\* Every variable that is associated with a channel is on the chain of its block,
\* where ENDFILE looks for those it must detach, however often the variable has
\* been associated with other channels and the channel with other files.
Detachable ==
    \A v \in Vars, dir \in Dirs :
       w.assoc[v][dir] > 0 => v \in w.block[w.assoc[v][dir]].iochn

\* oswait: the death of the process of an open pipe is noted in its ioblk,
\* whoever was being waited for when it was reaped; only then is it.
Remembered ==
    op.at \notin Ends => \A i \in Open : w.iob[i].pip =>
       (w.iob[i].ded <=> w.child[w.iob[i].pid].state = "reaped")

\* At the end of a run no output is left in a buffer: every ioblk that holds
\* output is found by close_all, whatever became of its channel.
FlushedAtEnd == op.at = "exit" => \A i \in Iobs : ~w.iob[i].dirty

\* ENDFILE and close_all return, in whatever order processes end: oswait does not
\* wait for one that cannot end because a pipe to it is held open, by spitbol or
\* by itself (ospipe.c:89: so long as no more than OPEN_FILES are open).
Closes == op.at \in {"closed", "waiting"} ~> op.at \in {"idle"} \cup Ends

\* A channel leaves the table only in ENDFILE: of an INPUT or OUTPUT that fails
\* sbl.min says "here if existing trblk ... do not release if sysio fails".
FailureKeeps ==
    [][op.why # "endfile" /\ op'.at = "idle" =>
         \A c \in Chans : w.chan[c] # 0 => w'.chan[c] = w.chan[c]]_vars
==============================================================================
