------------------------------- MODULE SaveFile -------------------------------
(***************************************************************************)
(* Save files: EXIT(-3) and EXIT(-4), and -y, write the memory of the      *)
(* running program to a temporary file that then takes the place of the    *)
(* old one (zysxi, putsave, openaout, wrtaout, closeaout); a later run of  *)
(* spitbol on that file reloads and relocates it (main, getsave).  Several *)
(* processes may save in one directory; a write, an open or a rename may   *)
(* fail; a process may die between any two system calls.                   *)
(*                                                                         *)
(* Memory is six sections of words, a word being a Byte of Lzw.  A heap    *)
(* starts with its static part, hshtb .. state, and goes on with its       *)
(* dynamic part, dnamb .. dnamp.                                           *)
(***************************************************************************)
EXTENDS Lzw, FiniteSets

CONSTANTS Proc,          \* processes that save
          Target,        \* names given to EXIT
          TempNames,     \* number of temporary names (10000 in the code)
          BuffSize,      \* bytes of the coder's buffer (2048)
          UargSize,      \* bytes of a -u string with its null character (128)
          NewBases,      \* addresses the heap may be reloaded at
          Starts         \* what the processes start from: mem, the memory of each,
                         \* exits, how often each calls EXIT (a bound), faults,
                         \* how many calls fail and processes die (a bound), and
                         \* left, temporary files of processes that have died

Temp  == 0 .. TempNames - 1
Names == Target \cup Temp

\* The memory of a program: words.
Memories == [uarg : Seq(Byte), stack : Seq(Byte), work : [1 .. 5 -> Byte],
             static : Seq(Byte), dyn : Seq(Byte), regs : [1 .. 1 -> Byte]]

ASSUME SaveAssumption ==
    /\ IsFiniteSet(Proc) /\ Proc # {} /\ IsFiniteSet(Target)
    /\ TempNames \in Nat \ {0} /\ Target \cap Temp = {}
    /\ BuffSize \in Nat \ {0} /\ UargSize \in Nat \ {0}
    /\ \A start \in Starts : /\ start.mem \in [Proc -> Memories]
                              /\ start.left \in SUBSET Temp
                              /\ start.faults \in Nat

NoFile == 0
Inode == 1 .. Cardinality(Proc) + Cardinality(Target) + TempNames

VARIABLES dir,       \* inode of a name, or NoFile
          disk,      \* contents of an inode: the header, then bytes
          proc,      \* the state of zysxi in each process
          loaded,    \* what the last reload came to
          faults,    \* failures that may still happen
          hist

vars == <<dir, disk, proc, loaded, faults, hist>>

(***************************************************************************)
(* Memory.  work is <<stbas, hshtb, dnamb, dnamp, flptr>>, flptr standing  *)
(* for the four pointers into the stack; regs is <<CP>>.                   *)
(***************************************************************************)
Word(x) == x % FirstCode
stbas(m) == m.work[1]
hshtb(m) == m.work[2]
dnamb(m) == m.work[3]
dnamp(m) == m.work[4]

\* unreloc and rereloc: pointers into the stack, and CP, to offsets and back.
unreloc(m) == [m EXCEPT !.work[5] = Word(@ - stbas(m) + FirstCode),
                        !.regs[1] = Word(@ - dnamb(m) + FirstCode)]
rerelocStack(m) == [m EXCEPT !.work[5] = Word(@ + stbas(m))]   \* mutant: CP stays an offset

rereloc(m) == [m EXCEPT !.work[5] = Word(@ + stbas(m)), !.regs[1] = Word(@ + dnamb(m))]

\* The -u string is cut to what uargbuf will hold.
Uarg(m) == SubSeq(m.uarg, 1, IF Len(m.uarg) < UargSize THEN Len(m.uarg) ELSE UargSize - 1)

Sections(m) == <<Uarg(m), m.stack, m.work, m.static, m.dyn, m.regs>>

relajDynamic(w, old, shift) ==        \* mutant: pointers to static data stay
    IF w \in dnamb(old) .. dnamp(old) THEN Word(w + shift + FirstCode) ELSE w

\* relaj: a pointer into the old static or dynamic region moves with it.
relaj(w, old, shift) ==
    IF w \in hshtb(old) .. dnamp(old) THEN Word(w + shift + FirstCode) ELSE w

\* MINIMAL reloc and the relaj of the stack, as getsave calls them: the words
\* of the stack and the static part, the pointers of the working section, and
\* of the dynamic part what its blocks say is a pointer (the odd words here).
Relocate(m, base) ==
    LET shift  == base - hshtb(m)
        Adj(s) == [i \in DOMAIN s |-> relaj(s[i], m, shift)]
    IN  [m EXCEPT !.stack = Adj(@), !.static = Adj(@),
                  !.work = [i \in DOMAIN @ |-> IF i \in 2 .. 4 THEN relaj(@[i], m, shift) ELSE @[i]],
                  !.dyn = [i \in DOMAIN @ |-> IF i % 2 = 1 THEN relaj(@[i], m, shift) ELSE @[i]]]

(***************************************************************************)
(* putsave.  Every write is listed with whether its result is looked at:   *)
(* compress passes on that of wrtaout when it does not compress, but       *)
(* output_code and docompress(0) drop it.                                  *)
(***************************************************************************)
OURMAGIC1   == -1
SaveVersion == -2
WorkSize    == 5        \* size of the working section, in the header as sec4size

\* docompress puts its tables above the heap, where sbrk() may have to add to
\* it: with no room for them the file is not compressed.
docompress(room) == IF room THEN LzwBits ELSE 0

Header(m, room) ==
    <<OURMAGIC1, SaveVersion, WorkSize, docompress(room), Len(Uarg(m)), Len(m.stack)>>
HeaderSize == 6

Compressed(m) == Packed(FlattenSeq([i \in 1 .. 6 |-> compress(Sections(m)[i])]))

Chunks(bytes) ==
    [i \in 1 .. (Len(bytes) + BuffSize - 1) \div BuffSize |->
        SubSeq(bytes, (i - 1) * BuffSize + 1,
               IF i * BuffSize < Len(bytes) THEN i * BuffSize ELSE Len(bytes))]

Writes(m, room) ==
    LET data == IF room THEN Chunks(Compressed(m))
                ELSE Sections(m)
    IN  <<[cells |-> Header(m, room), checked |-> TRUE]>>
        \o [i \in DOMAIN data |-> [cells |-> data[i], checked |-> ~room]]

\* A save file of memory m with nothing missing.
Complete(m, room) ==
    FlattenSeq([i \in DOMAIN Writes(m, room) |-> Writes(m, room)[i].cells])

(***************************************************************************)
(* getsave: what a file read in a new process comes to, its heap at base.  *)
(* "source": not a save file, compiled instead; "error": a message and     *)
(* exit(1); "wild" and "fatal": as in Lzw; "loaded": ready to restart.     *)
(***************************************************************************)
\* Section i of those read so far, got: the first sizes are in the header, the
\* others in the working section.
SectionSize(file, got, i) ==
    CASE i = 1 -> file[5]
      [] i = 2 -> file[6]
      [] i = 3 -> WorkSize
      [] i = 4 -> dnamb([work |-> got[3]]) - hshtb([work |-> got[3]])
      [] i = 5 -> dnamp([work |-> got[3]]) - dnamb([work |-> got[3]])
      [] i = 6 -> 1

Bytes(file) == SubSeq(file, HeaderSize + 1, Len(file))

\* rdaout of a section.
rdaout(r, bytes, size) ==
    LET out == SubSeq(bytes, r.pos + 1, IF r.pos + size < Len(bytes) THEN r.pos + size ELSE Len(bytes))
    IN  [status |-> IF Len(out) = size THEN "ok" ELSE "short",
         r |-> [r EXCEPT !.pos = @ + size], out |-> out]

\* One section, e, of those read so far.
With(g, e) == [status |-> e.status, r |-> e.r, got |-> Append(g.got, e.out)]

ReadSection(g, file, i) ==
    LET size == SectionSize(file, g.got, i)
    IN  CASE g.status # "ok" -> g
          [] g.status = "ok" /\ size < 0 -> [g EXCEPT !.status = "wild"]
          [] g.status = "ok" /\ size >= 0 ->
                With(g, IF file[4] # 0 THEN expand(g.r, Bytes(file), size)
                        ELSE rdaout(g.r, Bytes(file), size))

NotLoaded(status) == [status |-> status, mem |-> <<>>]

\* What sbrk() gives: not the heap, the heap alone, or the tables of expand too.
Room == {"none", "heap", "tables"}
doexpand(bits, memory) == bits = 0 \/ memory = "tables"

Memory(got) ==
    [uarg |-> got[1], stack |-> got[2], work |-> got[3],
     static |-> got[4], dyn |-> got[5], regs |-> got[6]]

\* Ready to restart; a -u string on the command line goes before the saved one.
Reloaded(m, base, uarg) ==
    [status |-> "loaded", mem |-> [Relocate(m, base) EXCEPT !.uarg = IF uarg = <<>> THEN @ ELSE uarg]]

\* All sections read, or those before an error.
Relocated(g, base, uarg) ==
    CASE g.status = "ok"    -> Reloaded(Memory(g.got), base, uarg)
      [] g.status = "short" -> NotLoaded("error")
      [] OTHER              -> NotLoaded(g.status)

getsave(file, base, memory, uarg) ==
    IF Len(file) < 1 \/ file[1] # OURMAGIC1 THEN NotLoaded("source")
    ELSE IF \/ Len(file) < HeaderSize
            \/ file[2] # SaveVersion \/ file[3] # WorkSize
            \/ file[4] \notin {0, LzwBits}
            \/ memory = "none" \/ ~doexpand(file[4], memory)
    THEN NotLoaded("error")
    ELSE Relocated(FoldLeft(LAMBDA s, i : ReadSection(s, file, i),
                            [status |-> "ok", r |-> NoBits @@ [pos |-> 0], got |-> <<>>],
                            Upto(6)),
                   base, uarg)
------------------------------------------------------------------------------
(***************************************************************************)
(* zysxi in process p.  pc names the system call that comes next.  hist    *)
(* is what the properties need to know of the past: the names under which  *)
(* a save succeeded, the names lost between unlink and rename, the files   *)
(* with a write that failed unseen or with a temporary name two processes  *)
(* use, and how many processes died with a temporary file.                 *)
(***************************************************************************)
Idle(m, exits) ==
    [pc |-> "idle", mem |-> m, image |-> m, saved |-> m, room |-> FALSE, ia |-> 0, fn |-> NoFile,
     n |-> 0, m |-> 0, fd |-> NoFile, pos |-> 0, todo |-> <<>>, retval |-> 0,
     result |-> "none", exits |-> exits]

\* Each name may have a save file from earlier.
Init ==
    \E old \in SUBSET Target, start \in Starts :
      LET files == old \cup start.left
          inode == CHOOSE g \in [files -> Inode] : \A a, b \in files : g[a] = g[b] => a = b
          m == start.mem[CHOOSE p \in Proc : TRUE]
      IN  /\ dir = [f \in Names |-> IF f \in files THEN inode[f] ELSE NoFile]
          /\ disk = [i \in Inode |-> IF \E f \in old : inode[f] = i
                                     THEN Complete(unreloc(m), FALSE) ELSE <<>>]
          /\ proc = [p \in Proc |-> Idle(start.mem[p], start.exits[p])]
          /\ loaded = NotLoaded("none")
          /\ faults = start.faults
          /\ hist = [saved |-> old, lost |-> {}, flawed |-> {}, died |-> Cardinality(start.left)]

Fault == faults > 0 /\ faults' = faults - 1

\* Return from zysxi: to the program after a failure or EXIT(-4), else the
\* process ends.
Return(q, result) ==
    [Idle(q.image, q.exits) EXCEPT
        !.pc = IF result = "ok" /\ q.ia # -4 THEN "gone" ELSE "idle",
        !.mem = q.mem, !.saved = q.saved, !.room = q.room, !.result = result]

\* zysxi: only a save file can be written (EXECFILE is 0): EXIT of 0 or more is
\* refused and changes nothing.  The clock gives the first temporary name to try,
\* the room above the heap whether to compress.
Exit(p) ==
    /\ proc[p].pc = "idle" /\ loaded.status = "none" /\ proc[p].exits > 0
    /\ \E ia \in {-3, -4}, fn \in Target, n \in Temp, room \in BOOLEAN :
          proc' = [proc EXCEPT ![p] =
                     [@ EXCEPT !.pc = "access", !.ia = ia, !.fn = fn, !.n = n, !.m = n,
                               !.room = room, !.result = "none", !.exits = @ - 1,
                               !.todo = Writes(unreloc(proc[p].mem), room)]]
    /\ UNCHANGED <<dir, disk, loaded, faults, hist>>

\* openaout, the search for a name: access() until a name is free, or until
\* all have been tried.
NextTemp(n) == (n + 1) % TempNames

AllTriedNever(q) == FALSE              \* mutant: the search has no end

AllTried(q) == NextTemp(q.n) = q.m

Access(p) ==
    LET q == proc[p]
    IN  /\ q.pc = "access"
        /\ proc' = [proc EXCEPT ![p] =
                       IF dir[q.n] = NoFile THEN [q EXCEPT !.pc = "open"]
                       ELSE IF AllTried(q) THEN [q EXCEPT !.pc = "put", !.retval = -1]
                       ELSE [q EXCEPT !.n = NextTemp(@)]]
        /\ UNCHANGED <<dir, disk, loaded, faults, hist>>

FreeInode == CHOOSE i \in Inode : /\ \A f \in Names : dir[f] # i
                                  /\ \A p \in Proc : proc[p].fd # i

\* Another process writes, or is about to rename, what has temporary name n:
\* it saw the name free before p did, or its file was deleted by a third.
Shared(p, n) ==
    \E r \in Proc \ {p} : /\ proc[r].n = n
                          /\ \/ proc[r].pc \in {"put", "write"} /\ proc[r].fd # NoFile
                             \/ proc[r].pc \in {"unlink", "rename"}

\* spit_open with O_CREAT and O_TRUNC: a file that has appeared under the name
\* since access() is emptied and shared.
Open(p) ==
    LET q == proc[p]
        new == dir[q.n] = NoFile
        i == IF new THEN FreeInode ELSE dir[q.n]
    IN  /\ q.pc = "open"
        /\ \/ /\ dir'  = [dir EXCEPT ![q.n] = i]
              /\ disk' = [disk EXCEPT ![i] = <<>>]
              /\ proc' = [proc EXCEPT ![p] = [q EXCEPT !.pc = "put", !.fd = i, !.pos = 0]]
              /\ hist' = [hist EXCEPT !.flawed = IF new /\ ~Shared(p, q.n) THEN @ \ {i} ELSE @ \cup {i}]
              /\ UNCHANGED faults
           \/ /\ Fault
              /\ proc' = [proc EXCEPT ![p] = [q EXCEPT !.pc = "put", !.retval = -1]]
              /\ UNCHANGED <<dir, disk, hist>>
        /\ UNCHANGED loaded

\* putsave up to its first write.  It is called though openaout has failed.
Put(p) ==
    LET q == proc[p]
        m == unreloc(q.mem)
    IN  /\ q.pc = "put"
        /\ proc' = [proc EXCEPT ![p] = [q EXCEPT !.pc = "write", !.mem = m, !.saved = m]]
        /\ UNCHANGED <<dir, disk, loaded, faults, hist>>

\* The contents of a file after cells are written at pos.
Overwrite(file, pos, cells) ==
    [i \in 1 .. (IF pos + Len(cells) > Len(file) THEN pos + Len(cells) ELSE Len(file)) |->
        IF i > pos /\ i <= pos + Len(cells) THEN cells[i - pos]
        ELSE IF i <= Len(file) THEN file[i] ELSE 0]

\* wrtaout after write() has stored the first k cells: its result is or'ed into
\* retval if the caller looks at it.
FailedIgnored(w, k) == FALSE           \* mutant: no result is looked at

Failed(w, k) == w.checked /\ k < Len(w.cells)

Wrote(q, k) ==
    [q EXCEPT !.todo = Tail(@), !.pos = @ + k,
              !.retval = IF Failed(Head(q.todo), k) THEN -2 ELSE @]

\* A write stores all it was given, less than that, or nothing at all, for want
\* of space.  Without a file of its own the process writes to aoutfd all the same:
\* -1 if the open failed, but the number it had before (0 at first) if no name was
\* free (wrtaout.c:49).  What has that number by then is none of these files, and
\* retval is an error already, whatever comes of it.
Write(p) ==
    LET q == proc[p]
        w == Head(q.todo)
        size == Len(w.cells)
        Store(k) == disk' = [disk EXCEPT ![q.fd] = Overwrite(@, q.pos, SubSeq(w.cells, 1, k))]
    IN  /\ q.pc = "write" /\ q.todo # <<>>
        /\ \/ /\ q.fd # NoFile /\ Store(size)
              /\ proc' = [proc EXCEPT ![p] = Wrote(q, size)]
              /\ UNCHANGED <<faults, hist>>
           \/ /\ q.fd # NoFile /\ Fault
              /\ \E k \in {0, size \div 2} :
                    Store(k) /\ proc' = [proc EXCEPT ![p] = Wrote(q, k)]
              /\ hist' = IF w.checked THEN hist ELSE [hist EXCEPT !.flawed = @ \cup {q.fd}]
           \/ /\ q.fd = NoFile
              /\ proc' = [proc EXCEPT ![p] = Wrote(q, 0)]
              /\ UNCHANGED <<disk, faults, hist>>
        /\ UNCHANGED <<dir, loaded>>

\* Back in zysxi: rereloc, then closeaout up to its first change of a name.
Close(p) ==
    LET q == proc[p]
    IN  /\ q.pc = "write" /\ q.todo = <<>>
        /\ proc' = [proc EXCEPT ![p] = [q EXCEPT !.mem = rereloc(@), !.fd = NoFile,
                       !.pc = IF q.retval = 0 THEN "unlink" ELSE "discard"]]
        /\ UNCHANGED <<dir, disk, loaded, faults, hist>>

\* closeaout: the old file goes, if there is one.
Unlink(p) ==
    /\ proc[p].pc = "unlink"
    /\ dir' = [dir EXCEPT ![proc[p].fn] = NoFile]
    /\ proc' = [proc EXCEPT ![p].pc = "rename"]
    /\ UNCHANGED <<disk, loaded, faults, hist>>

\* closeaout: the temporary file takes its name.  If it cannot, or is no longer
\* there, nothing has the name.
Rename(p) ==
    LET q == proc[p]
    IN  /\ q.pc = "rename"
        /\ \/ /\ dir[q.n] # NoFile
              /\ dir' = [dir EXCEPT ![q.fn] = dir[q.n], ![q.n] = NoFile]
              /\ proc' = [proc EXCEPT ![p] = Return(q, "ok")]
              /\ hist' = [hist EXCEPT !.saved = @ \cup {q.fn}, !.lost = @ \ {q.fn}]
              /\ UNCHANGED faults
           \/ /\ IF dir[q.n] = NoFile THEN UNCHANGED faults ELSE Fault
              /\ proc' = [proc EXCEPT ![p] = [q EXCEPT !.pc = "discard", !.retval = -1]]
              /\ hist' = [hist EXCEPT !.lost = @ \cup {q.fn}]
              /\ UNCHANGED dir
        /\ UNCHANGED <<disk, loaded>>

\* closeaout after a failure: whatever has the temporary name is deleted.
WithoutTarget(q) == [dir EXCEPT ![q.fn] = NoFile]         \* mutant: the wrong one is

WithoutTemp(q) == [dir EXCEPT ![q.n] = NoFile]

Discard(p) ==
    /\ proc[p].pc = "discard"
    /\ dir' = WithoutTemp(proc[p])
    /\ proc' = [proc EXCEPT ![p] = Return(@, "failed")]
    /\ UNCHANGED <<disk, loaded, faults, hist>>

\* The process dies: its memory is gone, the files are as they are.
Crash(p) ==
    LET q == proc[p]
    IN  /\ q.pc \notin {"idle", "gone"} /\ Fault
        /\ proc' = [proc EXCEPT ![p] = [Idle(q.image, 0) EXCEPT !.pc = "gone"]]
        /\ hist' = [hist EXCEPT !.died = @ + 1,
                                !.lost = IF q.pc = "rename" THEN @ \cup {q.fn} ELSE @]
        /\ UNCHANGED <<dir, disk, loaded>>

\* A new process is started on a file of a save's name, perhaps with -u and with
\* little memory, when no save is going on.
Load ==
    /\ loaded.status = "none"
    /\ \A p \in Proc : proc[p].pc \in {"idle", "gone"}
    /\ \E f \in Target, base \in NewBases, memory \in Room, uarg \in {<<>>, <<6>>} :
          /\ dir[f] # NoFile
          /\ loaded' = getsave(disk[dir[f]], base, memory, uarg)
                          @@ [file |-> f, base |-> base, memory |-> memory, uarg |-> uarg]
    /\ UNCHANGED <<dir, disk, proc, faults, hist>>

Next ==
    \/ \E p \in Proc : \/ Exit(p) \/ Access(p) \/ Open(p) \/ Put(p) \/ Write(p) \/ Close(p)
                       \/ Unlink(p) \/ Rename(p) \/ Discard(p) \/ Crash(p)
    \/ Load

\* A process in zysxi goes on; nobody has to call EXIT again.
Fairness ==
    \A p \in Proc : WF_vars(\/ Access(p) \/ Open(p) \/ Put(p) \/ Write(p) \/ Close(p)
                            \/ Unlink(p) \/ Rename(p) \/ Discard(p))

Spec == Init /\ [][Next]_vars /\ Fairness
------------------------------------------------------------------------------
\* What stands under a name given to EXIT only changes by a rename of a process
\* all of whose checked writes succeeded, and then is the whole image of that
\* process: unless one of its compressed writes failed unseen, or another
\* process used the same temporary name.
Replaced ==
    [][\A f \in Target :
        /\ dir'[f] \notin {dir[f], NoFile} =>
             \E p \in Proc : /\ proc[p].pc = "rename" /\ proc[p].fn = f
                             /\ \/ disk[dir'[f]] = Complete(proc[p].saved, proc[p].room)
                                \/ dir'[f] \in hist.flawed
        /\ dir'[f] = dir[f] /\ dir[f] # NoFile =>
             disk'[dir[f]] = disk[dir[f]] \/ dir[f] \in hist.flawed]_vars

\* A name under which a save has succeeded names a file ever after, except while
\* a process is between the unlink and the rename of closeaout, or after one
\* died or failed there; and temporary files do not pile up: there is one for
\* each process that is writing or has died.
Kept ==
    /\ \A f \in hist.saved \ hist.lost :
        dir[f] # NoFile \/ \E p \in Proc : proc[p].pc = "rename" /\ proc[p].fn = f
    /\ Cardinality({t \in Temp : dir[t] # NoFile})
        <= hist.died + Cardinality({p \in Proc : proc[p].pc \notin {"idle", "gone", "access", "open"}})

\* A program that goes on after EXIT, saved or not, has its memory as it was:
\* the pointers putsave has made offsets are pointers again.
Resumed == \A p \in Proc : proc[p].pc = "idle" => proc[p].mem = proc[p].image

\* zysxi comes back or ends the process, however many names are taken.
Ends == \A p \in Proc : proc[p].pc = "access" ~> proc[p].pc \in {"idle", "gone"}
==============================================================================
