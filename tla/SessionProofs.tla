---------------------------- MODULE SessionProofs ----------------------------
(***************************************************************************)
(* Proofs about Session, for any disk and environment, any size of the     *)
(* buffer, any depth of include files, any command lines of which no       *)
(* argument is a name of what the shell provides, and any number of calls. *)
(*                                                                         *)
(* None of the properties is inductive.  Which descriptors are open        *)
(* depends on what each of them is in use for and on no two uses sharing   *)
(* one (Held, Distinct): only then is the lowest free descriptor, which    *)
(* dup and open take, the one that was just closed (0 or 1) and never      *)
(* another's.  Where output goes depends on the file behind descriptor 1   *)
(* in every state of swcoup, and on its position (Listed, Alone).  Inv     *)
(* ties these to the stage of the run.                                     *)
(*                                                                         *)
(* First the kernel and the buffer; then what a change of one descriptor   *)
(* does, as relations of two states (Moves, Origin, Zero, Push, Pop, Outs) *)
(* that keep Wired; then swcinp, zysif, zysrd and swcoup as such           *)
(* relations; then each action, the command line, and the properties.      *)
(***************************************************************************)
EXTENDS Session, SequenceTheorems, Induction

-----------------------------------------------------------------------------
(***************************************************************************)
(* The inductive invariant.                                                *)
(***************************************************************************)
IoFields == {"fds", "desc", "buf", "shell", "ttyfdn", "argv", "first", "inpcnt", "cmdcnt",
             "curfile", "uarg", "outptr", "listing", "noexec", "evenso", "readshell0",
             "fromSource", "sfn", "originp", "save_fd0", "executing", "inc", "provide_name",
             "first_record", "oupState", "origoup", "errflag", "printed"}

\* The fields of t that may differ from those of s.
Frame(s, t, fields) == DOMAIN t = IoFields /\ \A f \in IoFields \ fields : t[f] = s[f]

\* The descriptors and the open files; a stack of include files.
Kernel(s) ==
    /\ DOMAIN s = IoFields
    /\ s.fds \in [Fds -> Fds \cup {None}]
    /\ DOMAIN s.desc = Fds /\ \A d \in Fds : DOMAIN s.desc[d] = {"file", "pos"}
IsStack(q) == \E S : q \in Seq(S)

\* The descriptors that are in use for something, but 0, 1 and 2.
IncFds(s) == {s.inc[k].fd : k \in DOMAIN s.inc}
Saved(s) == IF s.oupState = 1 /\ ~s.errflag THEN {s.origoup} ELSE {}
Tty(s) == {s.ttyfdn} \ {2}
Extra(s) == ({s.originp} \ {None}) \cup Saved(s) \cup IncFds(s) \cup Tty(s)

\* They, 0 and 2 are the ones that are open; each is in use for one thing.
Held(s) ==
    /\ Extra(s) \subseteq Fds \ {0, 1, 2}
    /\ \A n \in Fds \ {1} : s.fds[n] # None <=> n \in {0, 2} \cup Extra(s)
    /\ s.fds[1] = None => s.oupState = 3
Distinct(s) ==
    /\ IsStack(s.inc) /\ Len(s.inc) <= Depth
    /\ \A j, k \in DOMAIN s.inc : s.inc[j].fd = s.inc[k].fd => j = k
    /\ s.originp # None => s.originp \notin Saved(s) \cup IncFds(s) \cup Tty(s)
    /\ Saved(s) \cap (IncFds(s) \cup Tty(s)) = {} /\ IncFds(s) \cap Tty(s) = {}

\* What the shell provides: open file 0 is its input, open file 1 its output.
ShellFile(s) ==
    /\ IF s.originp = None THEN s.fds[0] = 0 ELSE s.fds[s.originp] = 0
    /\ s.desc[s.fds[2]].file \in {Shell, Keyboard}
    /\ s.ttyfdn # 2 => s.desc[s.fds[s.ttyfdn]].file \notin {Shell, Keyboard, Output}

\* Descriptor 1 has an open file for the listing that no other one shares, and is
\* at its end; or it has the shell's output.
Alone(s) ==
    /\ s.fds[1] \in Fds /\ \A n \in Fds \ {1} : s.fds[n] # s.fds[1]
    /\ s.desc[s.fds[1]].file = ListName(s) /\ s.desc[s.fds[1]].pos = Len(s.printed.list)
HasOutput(s, n) == n \in Fds /\ s.fds[n] = 1 /\ s.desc[1].file = Output
Listed(s) ==
    /\ NoSwitch(s) \/ s.oupState \in {0, 2} => HasOutput(s, 1)
    /\ ~NoSwitch(s) /\ s.oupState = 1 => Alone(s) /\ HasOutput(s, s.origoup)
    /\ ~NoSwitch(s) /\ s.oupState = 3 => s.fds[1] = None \/ Alone(s)
    /\ s.oupState \in 0 .. 3
    /\ s.errflag \in BOOLEAN /\ ListName(s) # Output

Wired(s) == Kernel(s) /\ Held(s) /\ Distinct(s) /\ ShellFile(s) /\ Listed(s)

\* The count of the arguments, while the program is read.
Counts(s) ==
    /\ s.curfile \in Nat \ {0} /\ {s.cmdcnt, s.inpcnt, s.first} \subseteq Int /\ Len(s.argv) \in Nat
    /\ s.first_record => s.inpcnt = Len(s.argv) + 1 - s.first
    /\ s.cmdcnt = s.first + s.curfile \/ (s.curfile > 1 /\ s.inpcnt = 1)

\* Where the run is: before main, while the program is read, while it runs, or after.
Reading == {"stgic", "stgce", "begin"}
Running == {"stgxt", "input", "stgxc", "stgxe"}
BeforeMain(s) ==
    /\ s.oupState = 0 /\ s.originp = None /\ s.curfile = 0 /\ ~s.errflag
    /\ s.first \in Nat \ {0} /\ Len(s.argv) \in Nat /\ s.first <= Len(s.argv)
    /\ s.cmdcnt = s.first /\ s.inpcnt = Len(s.argv) + 1 - s.first
    /\ s.printed = [shell |-> <<>>, list |-> <<>>, terminal |-> <<>>, tty |-> <<>>]
Staged(s, stage) ==
    /\ stage \in {"main"} \cup Reading \cup Running \cup {"after"}
    /\ stage = "main" => BeforeMain(s)
    /\ stage \in {"main"} \cup Reading => s.executing = FALSE
    /\ stage \in Reading => (NoSwitch(s) \/ s.oupState = 1) /\ Counts(s)
    /\ stage \in Running => s.executing = TRUE /\ (NoSwitch(s) \/ s.oupState = 2)
    /\ stage = "after" => NoSwitch(s) \/ s.oupState = 3 \/ (s.oupState = 2 /\ s.executing = FALSE)
    /\ stage # "main" => s.originp # None

\* What has been printed.
Words == {"listing", "output", "statistics"}
Prints(p) ==
    /\ DOMAIN p = {"shell", "list", "terminal", "tty"}
    /\ p.shell \in Seq(Words) /\ p.list \in Seq(Words)
    /\ p.terminal \in Seq({"terminal"}) /\ p.tty \in Seq({"terminal"})
    /\ \A i \in DOMAIN p.shell : p.shell[i] # "terminal"
    /\ \A i \in DOMAIN p.list : p.list[i] = "listing" \/ (p.list[i] = "statistics" /\ i = Len(p.list))
Separate(s, stage) == stage # "main" /\ ~NoSwitch(s)
Printed(s, stage) ==
    /\ Prints(s.printed)
    /\ stage # "after" => \A i \in DOMAIN s.printed.list : s.printed.list[i] = "listing"
    /\ Separate(s, stage) /\ (s.executing \/ stage # "after") =>
          \A i \in DOMAIN s.printed.shell : s.printed.shell[i] = "output"
    /\ ~Separate(s, stage) => s.printed.list = <<>>
    /\ s.printed.tty # <<>> => s.ttyfdn # 2

Good(s, stage) == Wired(s) /\ Staged(s, stage)
CompFields == {"stage", "cnind", "included", "errors", "calls"}
Holds(s, c) ==
    /\ DOMAIN c = CompFields
    /\ c.stage \notin Ended => Good(s, c.stage)
    /\ Printed(s, c.stage)
Inv == Holds(io, comp)

-----------------------------------------------------------------------------
(***************************************************************************)
(* The kernel.                                                             *)
(***************************************************************************)

\* There are more descriptors than 0, 1, 2, four more and the include files.
LEMMA FdsAre == /\ Depth \in Nat \ {0} /\ {0, 1, 2} \subseteq Fds /\ None \notin Fds /\ Fds \subseteq Nat
                /\ IsFiniteSet(Fds) /\ Cardinality(Fds) = 9 + Depth
<1>1. Depth \in Nat \ {0}
  BY FilesAssumption
<1>2. IsFiniteSet(0 .. 8 + Depth) /\ Cardinality(0 .. 8 + Depth) = 9 + Depth
  BY <1>1, FS_Interval
<1> QED BY <1>1, <1>2 DEF Fds, None

\* The set of at most seven descriptors and those of the include files is smaller.
LEMMA FewerThanFds ==
    ASSUME NEW h, DOMAIN h = 1 .. 7,
           NEW q, Len(q) \in Nat, DOMAIN q = 1 .. Len(q), Len(q) <= Depth
    PROVE  \E n \in Fds : (\A i \in 1 .. 7 : n # h[i]) /\ \A k \in DOMAIN q : n # q[k].fd
<1> DEFINE I == {q[k].fd : k \in DOMAIN q}
           a == h[1]
           b == h[2]
           c == h[3]
           d == h[4]
           e == h[5]
           f == h[6]
           g == h[7]
<1>1. IsFiniteSet(I) /\ Cardinality(I) \in Nat /\ Cardinality(I) <= Depth
  <2> DEFINE fd == [k \in 1 .. Len(q) |-> q[k].fd]
  <2>1. IsFiniteSet(1 .. Len(q)) /\ Cardinality(1 .. Len(q)) = Len(q)
    <3>1. PICK n \in Nat : n = Len(q)
      OBVIOUS
    <3>2. IsFiniteSet(1 .. n) /\ Cardinality(1 .. n) = IF 1 > n THEN 0 ELSE n - 1 + 1
      BY FS_Interval
    <3> QED BY <3>1, <3>2
  <2>2. fd \in Surjection(1 .. Len(q), I)
    BY DEF Surjection
  <2>3. IsFiniteSet(I) /\ Cardinality(I) <= Len(q)
    BY <2>1, <2>2, FS_Surjection
  <2> QED BY <2>3, FS_CardinalityType, FdsAre
<1> HIDE DEF I
<1> DEFINE S1 == I \cup {a}
           S2 == S1 \cup {b}
           S3 == S2 \cup {c}
           S4 == S3 \cup {d}
           S5 == S4 \cup {e}
           S6 == S5 \cup {f}
           S7 == S6 \cup {g}
<1>2. \A S, x : IsFiniteSet(S) => /\ IsFiniteSet(S \cup {x}) /\ Cardinality(S) \in Nat
                                  /\ Cardinality(S \cup {x}) \in Nat
                                  /\ Cardinality(S \cup {x}) <= Cardinality(S) + 1
  <2> SUFFICES ASSUME NEW S, NEW x, IsFiniteSet(S)
               PROVE  /\ IsFiniteSet(S \cup {x}) /\ Cardinality(S) \in Nat
                      /\ Cardinality(S \cup {x}) \in Nat /\ Cardinality(S \cup {x}) <= Cardinality(S) + 1
    OBVIOUS
  <2>1. IsFiniteSet(S \cup {x}) /\ Cardinality(S) \in Nat
        /\ Cardinality(S \cup {x}) = IF x \in S THEN Cardinality(S) ELSE Cardinality(S) + 1
    BY FS_AddElement, FS_CardinalityType
  <2> QED BY <2>1
<1>3. IsFiniteSet(S7) /\ Cardinality(S7) <= Cardinality(I) + 7 /\ Cardinality(S7) \in Nat
  <2>1. IsFiniteSet(S1) /\ Cardinality(S1) \in Nat /\ Cardinality(S1) <= Cardinality(I) + 1
    BY <1>1, <1>2
  <2> HIDE DEF S1
  <2>2. IsFiniteSet(S2) /\ Cardinality(S2) \in Nat /\ Cardinality(S2) <= Cardinality(S1) + 1
    BY <2>1, <1>2
  <2> HIDE DEF S2
  <2>3. IsFiniteSet(S3) /\ Cardinality(S3) \in Nat /\ Cardinality(S3) <= Cardinality(S2) + 1
    BY <2>2, <1>2
  <2> HIDE DEF S3
  <2>4. IsFiniteSet(S4) /\ Cardinality(S4) \in Nat /\ Cardinality(S4) <= Cardinality(S3) + 1
    BY <2>3, <1>2
  <2> HIDE DEF S4
  <2>5. IsFiniteSet(S5) /\ Cardinality(S5) \in Nat /\ Cardinality(S5) <= Cardinality(S4) + 1
    BY <2>4, <1>2
  <2> HIDE DEF S5
  <2>6. IsFiniteSet(S6) /\ Cardinality(S6) \in Nat /\ Cardinality(S6) <= Cardinality(S5) + 1
    BY <2>5, <1>2
  <2> HIDE DEF S6
  <2>7. IsFiniteSet(S7) /\ Cardinality(S7) \in Nat /\ Cardinality(S7) <= Cardinality(S6) + 1
    BY <2>6, <1>2
  <2> QED BY <1>1, <2>1, <2>2, <2>3, <2>4, <2>5, <2>6, <2>7, SMTT(40)
<1>4. ~(Fds \subseteq S7)
  <2>1. Cardinality(S7) < Cardinality(Fds)
    BY <1>1, <1>3, FdsAre
  <2>2. ASSUME Fds \subseteq S7 PROVE FALSE
    <3>1. Cardinality(Fds) <= Cardinality(S7)
      BY <2>2, <1>3, FS_Subset
    <3> HIDE DEF S7
    <3> QED BY <2>1, <3>1, <1>3, FdsAre
  <2> QED BY <2>2
<1>5. \A i \in 1 .. 7 : h[i] \in S7
  OBVIOUS
<1> QED BY <1>4, <1>5 DEF I

\* The lowest free descriptor, if there is one.
LEMMA LowestIs ==
    ASSUME NEW s, NEW n \in Fds, s.fds[n] = None
    PROVE  /\ Lowest(s) \in Fds /\ s.fds[Lowest(s)] = None
           /\ \A k \in 0 .. Lowest(s) - 1 : s.fds[k] # None
<1> DEFINE T == {k \in Fds : s.fds[k] = None}
           Is(k) == k \in Fds /\ s.fds[k] = None /\ \A j \in 0 .. k - 1 : s.fds[j] # None
<1>1. PICK m \in T : \A k \in T : m <= k
  <2>1. T \subseteq Nat /\ n \in T
    BY FdsAre
  <2> HIDE DEF T
  <2> QED BY <2>1, LeastNat
<1>2. ASSUME NEW j \in 0 .. m - 1 PROVE s.fds[j] # None
  <2>1. j \in Fds /\ j < m
    BY <1>1, FdsAre DEF Fds
  <2> QED BY <2>1, <1>1, FdsAre
<1>3. Is(m)
  BY <1>1, <1>2
<1>4. Is(CHOOSE k : Is(k))
  BY <1>3
<1>5. Lowest(s) = CHOOSE k : Is(k)
  BY DEF Lowest
<1> QED BY <1>4, <1>5

\* It is n if those below n are open.
LEMMA LowestHere ==
    ASSUME NEW s, NEW n \in Fds, s.fds[n] = None, \A k \in 0 .. n - 1 : s.fds[k] # None
    PROVE  Lowest(s) = n
<1>1. PICK m : m = Lowest(s)
  OBVIOUS
<1>2. m \in Fds /\ s.fds[m] = None /\ \A k \in 0 .. m - 1 : s.fds[k] # None
  BY <1>1, LowestIs
<1>3. m \in Nat /\ n \in Nat
  BY <1>2, FdsAre
<1>4. ~(m < n) /\ ~(n < m)
  BY <1>2, <1>3
<1> QED BY <1>1, <1>3, <1>4

\* While a descriptor is free, so is an open file: no descriptor has it.
LEMMA FreeDescIs ==
    ASSUME NEW s, Kernel(s), NEW n \in Fds, s.fds[n] = None
    PROVE  FreeDesc(s) \in Fds /\ \A k \in Fds : s.fds[k] # FreeDesc(s)
<1> DEFINE R == {s.fds[k] : k \in Fds \ {n}}
<1>1. IsFiniteSet(Fds \ {n}) /\ Cardinality(Fds \ {n}) = 8 + Depth
  BY FdsAre, FS_RemoveElement
<1>2. IsFiniteSet(R) /\ Cardinality(R) <= 8 + Depth
  <2> DEFINE h == [k \in Fds \ {n} |-> s.fds[k]]
  <2>1. h \in Surjection(Fds \ {n}, R)
    BY DEF Surjection
  <2> QED BY <1>1, <2>1, FS_Surjection
<1>3. PICK d \in Fds : d \notin R
  <2>1. ASSUME Fds \subseteq R PROVE FALSE
    <3>1. Cardinality(Fds) <= Cardinality(R) /\ Cardinality(R) \in Nat
      BY <1>2, <2>1, FS_Subset, FS_CardinalityType
    <3> HIDE DEF R
    <3> QED BY <1>2, <3>1, FdsAre
  <2> QED BY <2>1
<1>4. \A k \in Fds : s.fds[k] # d
  BY <1>3, FdsAre
<1> DEFINE Is(e) == e \in DOMAIN s.desc /\ \A k \in Fds : s.fds[k] # e
<1>5. Is(d)
  BY <1>3, <1>4 DEF Kernel
<1>6. Is(CHOOSE e : Is(e))
  BY <1>5
<1>7. FreeDesc(s) = CHOOSE e : Is(e)
  BY DEF FreeDesc
<1> QED BY <1>6, <1>7 DEF Kernel
-----------------------------------------------------------------------------
(***************************************************************************)
(* Reading.  It moves positions in open files that descriptor 1 does not   *)
(* have to itself, and the buffer.                                         *)
(***************************************************************************)
Moves(s, t) ==
    /\ Frame(s, t, {"buf", "desc", "save_fd0"})
    /\ DOMAIN t.desc = Fds
    /\ \A d \in Fds :
         /\ DOMAIN t.desc[d] = {"file", "pos"} /\ t.desc[d].file = s.desc[d].file
         /\ t.desc[d].pos = s.desc[d].pos \/ \E n \in Fds \ {1} : s.fds[n] = d

\* The record t is s with descriptor n's open file at another position, and
\* another buffer.
LEMMA Moved ==
    ASSUME NEW s, NEW t, NEW n \in Fds \ {1}, NEW p, Kernel(s), s.fds[n] # None,
           Frame(s, t, {"buf", "desc"}),
           t.desc = [s.desc EXCEPT ![s.fds[n]].pos = p]
    PROVE  Moves(s, t)
<1>1. s.fds[n] \in Fds /\ DOMAIN t.desc = Fds
  BY DEF Kernel
<1>2. Frame(s, t, {"buf", "desc", "save_fd0"})
  BY DEF Frame
<1>3. ASSUME NEW d \in Fds
      PROVE  /\ DOMAIN t.desc[d] = {"file", "pos"} /\ t.desc[d].file = s.desc[d].file
             /\ t.desc[d].pos = s.desc[d].pos \/ \E m \in Fds \ {1} : s.fds[m] = d
  <2>1. DOMAIN s.desc[d] = {"file", "pos"}
    BY DEF Kernel
  <2>2. t.desc[d] = IF d = s.fds[n] THEN [s.desc[d] EXCEPT !.pos = p] ELSE s.desc[d]
    BY <1>1 DEF Kernel
  <2> QED BY <2>1, <2>2
<1> QED BY <1>1, <1>2, <1>3 DEF Moves

\* Only the buffer changes.
LEMMA Buffered ==
    ASSUME NEW s, NEW t, Kernel(s), Frame(s, t, {"buf", "save_fd0"})
    PROVE  Moves(s, t)
<1>1. t.desc = s.desc
  BY DEF Frame, IoFields
<1>2. Frame(s, t, {"buf", "desc", "save_fd0"})
  BY DEF Frame
<1> QED BY <1>1, <1>2 DEF Moves, Kernel

\* Moves after moves.
LEMMA MovesKeep ==
    ASSUME NEW s, NEW t, Kernel(s), Moves(s, t)
    PROVE  Kernel(t) /\ t.fds = s.fds
<1>1. t.fds = s.fds /\ DOMAIN t = IoFields
  BY DEF Moves, Frame, IoFields
<1> QED BY <1>1 DEF Moves, Kernel

\* Moves compose.
LEMMA MovesOn ==
    ASSUME NEW s, NEW t, NEW u, Kernel(s), Moves(s, t), Moves(t, u)
    PROVE  Moves(s, u)
<1>1. t.fds = s.fds
  BY MovesKeep
<1>2. Frame(s, u, {"buf", "desc", "save_fd0"})
  BY DEF Moves, Frame
<1> QED BY <1>1, <1>2 DEF Moves

\* The buffer's operations move.
LEMMA SeekMoves ==
    ASSUME NEW s, NEW p, Kernel(s), s.fds[0] # None
    PROVE  Moves(s, LSEEK(s, p))
<1>1. CASE Seekable(s, 0)
  <2>1. PICK t : t = [s EXCEPT !.desc[s.fds[0]].pos = p, !.buf.curpos = p]
    OBVIOUS
  <2>2. Frame(s, t, {"buf", "desc"})
    BY <2>1 DEF Kernel, Frame, IoFields
  <2>3. t.desc = [s.desc EXCEPT ![s.fds[0]].pos = p]
    BY <2>1 DEF Kernel, IoFields
  <2>4. Moves(s, t)
    BY <2>2, <2>3, Moved, FdsAre
  <2> QED BY <1>1, <2>1, <2>4 DEF LSEEK
<1>2. CASE ~Seekable(s, 0)
  <2>1. LSEEK(s, p) = s
    BY <1>2 DEF LSEEK
  <2>2. Frame(s, s, {"buf", "save_fd0"})
    BY DEF Kernel, Frame
  <2> QED BY <2>1, <2>2, Buffered
<1> QED BY <1>1, <1>2

\* The routines of the buffer only move.
LEMMA FlushMoves ==
    ASSUME NEW s, Kernel(s)
    PROVE  Moves(s, flushIn(s))
<1>1. Frame(s, flushIn(s), {"buf", "save_fd0"})
  BY DEF Kernel, Frame, IoFields, flushIn
<1> QED BY <1>1, Buffered

\* clrbuf.
LEMMA ClearMoves ==
    ASSUME NEW s, Kernel(s)
    PROVE  Moves(s, clrbuf(s))
<1>1. Frame(s, clrbuf(s), {"buf", "save_fd0"})
  BY DEF Kernel, Frame, IoFields, clrbuf
<1> QED BY <1>1, Buffered

\* fillbuf, with its LSEEK.
LEMMA FillMoves ==
    ASSUME NEW s, Kernel(s), s.fds[0] # None
    PROVE  Moves(s, fillbuf(s))
<1>1. PICK r : r = IF s.buf.offset = s.buf.curpos THEN s ELSE LSEEK(s, s.buf.offset)
  OBVIOUS
<1>2. Moves(s, r)
  <2>1. Frame(s, s, {"buf", "save_fd0"})
    BY DEF Kernel, Frame
  <2> QED BY <1>1, <2>1, SeekMoves, Buffered
<1>3. Kernel(r) /\ r.fds[0] # None
  BY <1>2, MovesKeep
<1>4. PICK taken : fillbuf(s) = [r EXCEPT !.desc[r.fds[0]].pos = @ + Len(taken),
                                          !.buf.curpos = @ + Len(taken),
                                          !.buf.lines = taken, !.buf.next = 0]
  BY <1>1, Zenon DEF fillbuf
<1>5. PICK t : t = fillbuf(s)
  OBVIOUS
<1>6. Frame(r, t, {"buf", "desc"})
  BY <1>3, <1>4, <1>5 DEF Kernel, Frame, IoFields
<1>7. PICK p : p = r.desc[r.fds[0]].pos + Len(taken)
  OBVIOUS
<1>8. t.desc = [r.desc EXCEPT ![r.fds[0]].pos = p]
  BY <1>3, <1>4, <1>5, <1>7 DEF Kernel, IoFields
<1>9. Moves(r, t)
  BY <1>3, <1>6, <1>8, Moved, FdsAre
<1> QED BY <1>2, <1>5, <1>9, MovesOn

\* osread.
LEMMA ReadMoves ==
    ASSUME NEW s, Kernel(s), s.fds[0] # None
    PROVE  Moves(s, osread(s).io)
<1>1. PICK r : r = IF s.buf.next >= Len(s.buf.lines) THEN fillbuf(flushIn(s)) ELSE s
  OBVIOUS
<1>2. Moves(s, r)
  <2>1. Frame(s, s, {"buf", "save_fd0"})
    BY DEF Kernel, Frame
  <2>2. Moves(s, flushIn(s))
    BY FlushMoves
  <2>3. Kernel(flushIn(s)) /\ flushIn(s).fds[0] # None
    BY <2>2, MovesKeep
  <2>4. Moves(s, fillbuf(flushIn(s)))
    BY <2>2, <2>3, FillMoves, MovesOn
  <2> QED BY <1>1, <2>1, <2>4, Buffered
<1>3. Kernel(r)
  BY <1>2, MovesKeep
<1>4. osread(s) = IF r.buf.lines = <<>> THEN [io |-> r, line |-> NoLine]
                  ELSE [io |-> [r EXCEPT !.buf.next = @ + 1], line |-> r.buf.lines[r.buf.next + 1]]
  BY <1>1, Zenon DEF osread
<1>5. osread(s).io = r \/ osread(s).io = [r EXCEPT !.buf.next = @ + 1]
  BY <1>4
<1>6. Frame(r, osread(s).io, {"buf", "save_fd0"})
  BY <1>3, <1>5 DEF Kernel, Frame, IoFields
<1> QED BY <1>2, <1>3, <1>6, Buffered, MovesOn

\* doset to a position.
LEMMA MoveToMoves ==
    ASSUME NEW s, NEW target, Kernel(s), s.fds[0] # None
    PROVE  Moves(s, MoveTo(s, target))
<1>1. PICK b, at, f : b = s.buf /\ at = (target \div BufLines) * BufLines /\ f = flushIn(s)
  OBVIOUS
<1>2. PICK r : r = IF at = b.curpos THEN f ELSE LSEEK(f, at)
  OBVIOUS
<1>3. PICK o : o = [r EXCEPT !.buf.offset = at]
  OBVIOUS
<1>4. PICK filled : filled = fillbuf(o)
  OBVIOUS
<1>5. PICK t : t = MoveTo(s, target)
  OBVIOUS
<1>6. \/ t = [s EXCEPT !.buf.next = target - b.offset]
      \/ t = f
      \/ t = [filled EXCEPT !.buf.next = Smaller(target - at, Len(filled.buf.lines))]
  BY <1>1, <1>2, <1>3, <1>4, <1>5, Zenon DEF MoveTo
<1>7. Moves(s, f) /\ Kernel(f) /\ f.fds[0] # None
  BY <1>1, FlushMoves, MovesKeep
<1>8. Moves(s, r) /\ Kernel(r) /\ r.fds[0] # None
  BY <1>2, <1>7, SeekMoves, MovesOn, MovesKeep
<1>9. Moves(s, o) /\ Kernel(o) /\ o.fds[0] # None
  <2>1. Frame(r, o, {"buf", "save_fd0"})
    BY <1>3, <1>8 DEF Kernel, Frame, IoFields
  <2>2. Moves(r, o)
    BY <1>8, <2>1, Buffered
  <2> QED BY <1>8, <2>2, MovesOn, MovesKeep
<1>10. Moves(s, filled) /\ Kernel(filled)
  BY <1>4, <1>9, FillMoves, MovesOn, MovesKeep
<1>11. CASE t = [s EXCEPT !.buf.next = target - b.offset]
  <2>1. Frame(s, t, {"buf", "save_fd0"})
    BY <1>11 DEF Kernel, Frame, IoFields
  <2> QED BY <1>5, <2>1, Buffered
<1>12. CASE t = [filled EXCEPT !.buf.next = Smaller(target - at, Len(filled.buf.lines))]
  <2>1. Frame(filled, t, {"buf", "save_fd0"})
    BY <1>10, <1>12 DEF Kernel, Frame, IoFields
  <2> QED BY <1>5, <1>10, <2>1, Buffered, MovesOn
<1> QED BY <1>5, <1>6, <1>7, <1>11, <1>12

\* doset to the end of the file.
LEMMA EndMoves ==
    ASSUME NEW s, Kernel(s), s.fds[0] # None
    PROVE  Moves(s, dosetEnd(s))
<1>1. PICK e : e = LSEEK(s, Len(Lines(File(s, 0))))
  OBVIOUS
<1>2. Moves(s, e) /\ Kernel(e) /\ e.fds[0] # None
  BY <1>1, SeekMoves, MovesKeep
<1>3. PICK t : t = dosetEnd(s)
  OBVIOUS
<1>4. t = MoveTo(e, e.buf.curpos) \/ t = [s EXCEPT !.buf.curpos = None, !.buf.next = Len(s.buf.lines)]
  BY <1>1, <1>3, Zenon DEF dosetEnd
<1>5. CASE t = MoveTo(e, e.buf.curpos)
  BY <1>2, <1>3, <1>5, MoveToMoves, MovesOn
<1>6. CASE t = [s EXCEPT !.buf.curpos = None, !.buf.next = Len(s.buf.lines)]
  <2>1. Frame(s, t, {"buf", "save_fd0"})
    BY <1>6 DEF Kernel, Frame, IoFields
  <2> QED BY <1>3, <2>1, Buffered
<1> QED BY <1>4, <1>5, <1>6

\* So does the value of TERMINAL.
LEMMA TerminalMoves ==
    ASSUME NEW s, Kernel(s), s.fds[2] # None
    PROVE  Moves(s, zysri(s).io)
<1>1. PICK p : zysri(s).io = s \/ zysri(s).io = [s EXCEPT !.desc[s.fds[2]].pos = p]
  <2>1. CASE Position(s, 2) = Len(Lines(File(s, 2)))
    BY <2>1 DEF zysri
  <2>2. CASE Position(s, 2) # Len(Lines(File(s, 2)))
    BY <2>2 DEF zysri
  <2> QED BY <2>1, <2>2
<1>2. CASE zysri(s).io = s
  <2>1. Frame(s, s, {"buf", "save_fd0"})
    BY DEF Kernel, Frame
  <2> QED BY <1>2, <2>1, Buffered
<1>3. CASE zysri(s).io = [s EXCEPT !.desc[s.fds[2]].pos = p]
  <2>1. PICK t : t = [s EXCEPT !.desc[s.fds[2]].pos = p]
    OBVIOUS
  <2>2. Frame(s, t, {"buf", "desc"}) /\ t.desc = [s.desc EXCEPT ![s.fds[2]].pos = p]
    BY <2>1 DEF Kernel, Frame, IoFields
  <2>3. 2 \in Fds \ {1}
    BY FdsAre
  <2>4. Moves(s, t)
    BY <2>2, <2>3, Moved
  <2> QED BY <1>3, <2>1, <2>4
<1> QED BY <1>1, <1>2, <1>3
-----------------------------------------------------------------------------
(***************************************************************************)
(* What is done to the descriptors, and that each keeps them wired.        *)
(***************************************************************************)
\* The fields that what is done to standard input leaves alone.
OutputFields == {"printed", "argv", "first", "outptr", "listing", "oupState", "origoup", "errflag"}

\* The first call of swcinp: the shell's standard input is saved.
Origin(s, t) ==
    /\ s.originp = None
    /\ Frame(s, t, {"fds", "originp", "sfn"})
    /\ t.originp \in Fds /\ s.fds[t.originp] = None
    /\ t.fds = [s.fds EXCEPT ![t.originp] = s.fds[0]]

\* Descriptor 0 gets the open file of another one, or a new one.
Zero(s, t) ==
    /\ Frame(s, t, {"fds", "desc", "buf", "sfn", "save_fd0", "readshell0"})
    /\ t.fds[0] \in Fds /\ t.fds = [s.fds EXCEPT ![0] = t.fds[0]]
    /\ DOMAIN t.desc = Fds /\ \A d \in Fds : DOMAIN t.desc[d] = {"file", "pos"}
    /\ \/ t.desc = s.desc /\ \E n \in Fds \ {1} : s.fds[n] = t.fds[0]
       \/ /\ \A n \in Fds \ {0} : s.fds[n] # t.fds[0]
          /\ \A d \in Fds \ {t.fds[0]} : t.desc[d] = s.desc[d]

\* Descriptor 0 is saved on the stack, and taken off it.
Push(s, t) ==
    /\ Len(s.inc) < Depth
    /\ Frame(s, t, {"fds", "inc"})
    /\ \E top : /\ t.inc = Append(s.inc, top)
                /\ top.fd \in Fds /\ s.fds[top.fd] = None
                /\ t.fds = [s.fds EXCEPT ![top.fd] = s.fds[0]]
Pop(s, t) ==
    /\ s.inc # <<>>
    /\ Frame(s, t, {"fds", "inc"})
    /\ t.inc = Front(s.inc)
    /\ t.fds = [s.fds EXCEPT ![s.inc[Len(s.inc)].fd] = None]

\* The listing's name, and whether there is one.
LEMMA ListNameSame ==
    ASSUME NEW s, NEW t, Frame(s, t, IoFields \ OutputFields)
    PROVE  /\ ListName(t) = ListName(s) /\ t.errflag = s.errflag /\ t.outptr = s.outptr
           /\ t.oupState = s.oupState /\ t.origoup = s.origoup /\ t.printed = s.printed
<1>1. /\ t.argv = s.argv /\ t.first = s.first /\ t.outptr = s.outptr /\ t.listing = s.listing
      /\ t.oupState = s.oupState /\ t.origoup = s.origoup /\ t.printed = s.printed
      /\ t.errflag = s.errflag
  BY DEF Frame, IoFields, OutputFields
<1> QED BY <1>1 DEF ListName

\* Standard output is as it was, if its descriptors are.
LEMMA ListedKeep ==
    ASSUME NEW s, NEW t, Listed(s), Frame(s, t, IoFields \ OutputFields),
           t.fds[1] = s.fds[1],
           ~NoSwitch(s) /\ s.oupState = 1 => s.origoup # 0 /\ t.fds[s.origoup] = s.fds[s.origoup],
           \A n \in Fds \ {1} : t.fds[n] = s.fds[1] /\ s.fds[1] \in Fds =>
              \E k \in Fds \ {1} : s.fds[k] = s.fds[1],
           \A n \in Fds \ {0} : s.fds[n] \in Fds /\ t.fds[n] = s.fds[n] =>
              t.desc[s.fds[n]].file = s.desc[s.fds[n]].file,
           s.fds[1] \in Fds /\ (\A k \in Fds \ {1} : s.fds[k] # s.fds[1]) =>
              t.desc[s.fds[1]].pos = s.desc[s.fds[1]].pos
    PROVE  Listed(t)
<1>1. /\ ListName(t) = ListName(s) /\ t.errflag = s.errflag /\ t.outptr = s.outptr
      /\ t.oupState = s.oupState /\ t.origoup = s.origoup /\ t.printed = s.printed
  BY ListNameSame
<1>2. NoSwitch(t) <=> NoSwitch(s)
  BY <1>1 DEF NoSwitch
<1>3. ASSUME Alone(s) PROVE Alone(t)
  BY <1>1, <1>3, FdsAre DEF Alone
<1>4. ASSUME NEW n, n # 0, HasOutput(s, n), t.fds[n] = s.fds[n] PROVE HasOutput(t, n)
  BY <1>4, FdsAre DEF HasOutput
<1>5. HasOutput(s, 1) => HasOutput(t, 1)
  BY <1>4
<1>6. ~NoSwitch(s) /\ s.oupState = 1 /\ HasOutput(s, s.origoup) => HasOutput(t, t.origoup)
  BY <1>1, <1>4
<1>7. s.fds[1] = None => t.fds[1] = None
  OBVIOUS
<1> QED BY <1>1, <1>2, <1>3, <1>5, <1>6, <1>7 DEF Listed

\* The uses of the descriptors, when the fields that say so do not change.
LEMMA UsesSame ==
    ASSUME NEW s, NEW t, t.inc = s.inc, t.originp = s.originp, t.ttyfdn = s.ttyfdn,
           t.oupState = s.oupState, t.errflag = s.errflag, t.origoup = s.origoup
    PROVE  /\ IncFds(t) = IncFds(s) /\ Saved(t) = Saved(s) /\ Tty(t) = Tty(s) /\ Extra(t) = Extra(s)
           /\ (Distinct(s) => Distinct(t))
<1>1. IncFds(t) = IncFds(s) /\ Saved(t) = Saved(s) /\ Tty(t) = Tty(s)
  BY DEF IncFds, Saved, Tty
<1>2. Extra(t) = Extra(s)
  BY <1>1 DEF Extra
<1> QED BY <1>1, <1>2 DEF Distinct

\* What the wiring says of a descriptor in use.
LEMMA InUse ==
    ASSUME NEW s, Wired(s)
    PROVE  /\ \A n \in {0, 2} \cup Extra(s) : n \in Fds \ {1} /\ s.fds[n] \in Fds
           /\ \A n \in Extra(s) : n \notin {0, 1, 2}
           /\ 0 \in Fds /\ 1 \in Fds /\ 2 \in Fds /\ s.fds[0] \in Fds /\ s.fds[2] \in Fds
           /\ s.originp # None => s.originp \in Extra(s)
           /\ s.ttyfdn # 2 => s.ttyfdn \in Extra(s)
           /\ ~NoSwitch(s) /\ s.oupState = 1 => s.origoup \in Extra(s)
           /\ \A k \in DOMAIN s.inc : s.inc[k].fd \in Extra(s)
<1>1. Kernel(s) /\ Held(s)
  BY DEF Wired
<1>2. Extra(s) \subseteq Fds \ {0, 1, 2}
  BY <1>1 DEF Held
<1>3. \A n \in {0, 2} \cup Extra(s) : n \in Fds \ {1} /\ s.fds[n] # None
  BY <1>1, <1>2, FdsAre DEF Held
<1>4. \A n \in {0, 2} \cup Extra(s) : n \in Fds \ {1} /\ s.fds[n] \in Fds
  BY <1>1, <1>3 DEF Kernel
<1>5. s.originp # None => s.originp \in Extra(s)
  BY DEF Extra
<1>6. s.ttyfdn # 2 => s.ttyfdn \in Extra(s)
  BY DEF Extra, Tty
<1>7. ~NoSwitch(s) /\ s.oupState = 1 => s.origoup \in Extra(s)
  BY DEF Extra, Saved, NoSwitch
<1>8. \A k \in DOMAIN s.inc : s.inc[k].fd \in Extra(s)
  BY DEF Extra, IncFds
<1> QED BY <1>2, <1>4, <1>5, <1>6, <1>7, <1>8, FdsAre

\* Reading.
LEMMA WiredMoves ==
    ASSUME NEW s, NEW t, Wired(s), Moves(s, t)
    PROVE  Wired(t)
<1>1. Kernel(s) /\ Held(s) /\ Distinct(s) /\ ShellFile(s) /\ Listed(s)
  BY DEF Wired
<1>2. Kernel(t) /\ t.fds = s.fds
  BY <1>1, MovesKeep
<1>3. /\ t.inc = s.inc /\ t.originp = s.originp /\ t.ttyfdn = s.ttyfdn
      /\ t.oupState = s.oupState /\ t.errflag = s.errflag /\ t.origoup = s.origoup
  BY DEF Moves, Frame, IoFields
<1>4. Extra(t) = Extra(s) /\ Distinct(t)
  BY <1>1, <1>3, UsesSame
<1>5. Held(t)
  BY <1>1, <1>2, <1>3, <1>4 DEF Held
<1>6. \A d \in Fds : t.desc[d].file = s.desc[d].file
  BY DEF Moves
<1>7. \A n \in {0, 2} \cup Extra(s) : n \in Fds /\ s.fds[n] \in Fds
  <2>1. \A n \in {0, 2} \cup Extra(s) : n \in Fds \ {1} /\ s.fds[n] # None
    BY <1>1, FdsAre DEF Held
  <2> QED BY <2>1, <1>1 DEF Kernel
<1>8. ShellFile(t)
  <2>1. s.ttyfdn # 2 => s.ttyfdn \in Extra(s)
    BY DEF Extra, Tty
  <2> QED BY <1>1, <1>2, <1>3, <1>6, <1>7, <2>1 DEF ShellFile
<1>9. Listed(t)
  <2>1. Frame(s, t, IoFields \ OutputFields)
    BY DEF Moves, Frame, IoFields, OutputFields
  <2>2. s.fds[1] \in Fds /\ (\A k \in Fds \ {1} : s.fds[k] # s.fds[1]) =>
              t.desc[s.fds[1]].pos = s.desc[s.fds[1]].pos
    BY DEF Moves
  <2>3. ~NoSwitch(s) /\ s.oupState = 1 => s.origoup # 0
    BY InUse
  <2> QED BY <1>1, <1>2, <1>6, <2>1, <2>2, <2>3, ListedKeep
<1> QED BY <1>2, <1>4, <1>5, <1>8, <1>9 DEF Wired

\* A descriptor is free, none of those that are in use.
LEMMA OneFree ==
    ASSUME NEW s, Wired(s), s.fds[1] # None
    PROVE  /\ Lowest(s) \in Fds \ ({0, 1, 2} \cup Extra(s)) /\ s.fds[Lowest(s)] = None
           /\ \E n \in Fds : s.fds[n] = None
<1>1. Kernel(s) /\ Held(s) /\ Distinct(s)
  BY DEF Wired
<1>2. PICK S : s.inc \in Seq(S)
  BY <1>1 DEF Distinct, IsStack
<1>3. Len(s.inc) \in Nat /\ DOMAIN s.inc = 1 .. Len(s.inc) /\ Len(s.inc) <= Depth
  BY <1>1, <1>2 DEF Distinct
<1>4. PICK n \in Fds : n \notin {0, 1, 2, s.originp, s.origoup, s.ttyfdn} \cup {s.inc[k].fd : k \in DOMAIN s.inc}
  <2>1. PICK h, q : h = <<0, 1, 2, s.originp, s.origoup, s.ttyfdn, 0>> /\ q = s.inc
    OBVIOUS
  <2>2. Len(q) \in Nat /\ DOMAIN q = 1 .. Len(q) /\ Len(q) <= Depth /\ DOMAIN h = 1 .. 7
    BY <1>3, <2>1
  <2>3. \E n \in Fds : (\A i \in 1 .. 7 : n # h[i]) /\ \A k \in DOMAIN q : n # q[k].fd
    BY <2>2, FewerThanFds
  <2>4. h[1] = 0 /\ h[2] = 1 /\ h[3] = 2 /\ h[4] = s.originp /\ h[5] = s.origoup /\ h[6] = s.ttyfdn
    BY <2>1
  <2> QED BY <2>1, <2>3, <2>4
<1>5. n \notin Extra(s) /\ n \notin {0, 1, 2}
  BY <1>4 DEF Extra, Saved, IncFds, Tty
<1>6. s.fds[n] = None
  BY <1>1, <1>5 DEF Held
<1>7. Lowest(s) \in Fds /\ s.fds[Lowest(s)] = None
  BY <1>6, LowestIs
<1>8. s.fds[0] # None /\ s.fds[2] # None /\ \A k \in Extra(s) : s.fds[k] # None
  BY <1>1, FdsAre DEF Held
<1> QED BY <1>6, <1>7, <1>8

\* The fields that the wiring does not read.
OtherFields == {"buf", "shell", "inpcnt", "cmdcnt", "curfile", "uarg", "noexec", "evenso", "readshell0",
                "fromSource", "sfn", "save_fd0", "executing", "provide_name", "first_record"}

\* A step that changes only those fields keeps the wiring.
LEMMA WiredOthers ==
    ASSUME NEW s, NEW t, Wired(s), Frame(s, t, OtherFields)
    PROVE  Wired(t)
<1>1. Kernel(s) /\ Held(s) /\ Distinct(s) /\ ShellFile(s) /\ Listed(s)
  BY DEF Wired
<1>2. /\ t.fds = s.fds /\ t.desc = s.desc
      /\ t.inc = s.inc /\ t.originp = s.originp /\ t.ttyfdn = s.ttyfdn
      /\ t.oupState = s.oupState /\ t.errflag = s.errflag /\ t.origoup = s.origoup
  BY DEF Frame, IoFields, OtherFields
<1>3. Extra(t) = Extra(s) /\ Distinct(t)
  BY <1>1, <1>2, UsesSame
<1>4. Kernel(t)
  BY <1>1, <1>2 DEF Kernel, Frame
<1>5. Held(t) /\ ShellFile(t)
  BY <1>1, <1>2, <1>3 DEF Held, ShellFile
<1>6. Listed(t)
  <2>1. Frame(s, t, IoFields \ OutputFields)
    BY DEF Frame, IoFields, OutputFields, OtherFields
  <2>2. ~NoSwitch(s) /\ s.oupState = 1 => s.origoup # 0
    BY InUse
  <2>3. t.fds[1] = s.fds[1] /\ \A n \in Fds : t.fds[n] = s.fds[n] /\ t.desc[s.fds[n]] = s.desc[s.fds[n]]
    BY <1>2
  <2>4. t.desc[s.fds[1]] = s.desc[s.fds[1]] /\ t.fds[s.origoup] = s.fds[s.origoup]
    BY <1>2
  <2>5. Listed(s)
    BY <1>1
  <2> QED BY <2>1, <2>2, <2>3, <2>4, <2>5, ListedKeep
<1> QED BY <1>3, <1>4, <1>5, <1>6 DEF Wired

\* So does saving the shell's standard input,
LEMMA WiredOrigin ==
    ASSUME NEW s, NEW t, Wired(s), s.fds[1] # None, Origin(s, t)
    PROVE  Wired(t)
<1>1. Kernel(s) /\ Held(s) /\ Distinct(s) /\ ShellFile(s) /\ Listed(s)
  BY DEF Wired
<1>2. PICK m : m = t.originp
  OBVIOUS
<1>3. /\ t.desc = s.desc /\ t.inc = s.inc /\ t.ttyfdn = s.ttyfdn /\ t.printed = s.printed
      /\ t.oupState = s.oupState /\ t.errflag = s.errflag /\ t.origoup = s.origoup
      /\ DOMAIN t = IoFields
  BY DEF Origin, Frame, IoFields
<1>4. m \in Fds /\ s.fds[m] = None /\ s.originp = None /\ t.fds = [s.fds EXCEPT ![m] = s.fds[0]]
  BY <1>2 DEF Origin
<1>5. /\ 0 \in Fds /\ s.fds[0] \in Fds
      /\ \A n \in {0, 2} \cup Extra(s) : n \in Fds \ {1} /\ s.fds[n] \in Fds
      /\ \A n \in Extra(s) : n \notin {0, 1, 2}
  BY InUse
<1>6. m \notin {0, 1, 2} \cup Extra(s)
  BY <1>4, <1>5, FdsAre
<1>7. IncFds(t) = IncFds(s) /\ Saved(t) = Saved(s) /\ Tty(t) = Tty(s)
  BY <1>3 DEF IncFds, Saved, Tty
<1>8. Extra(t) = Extra(s) \cup {m} /\ m # None
  <2>1. m # None
    BY <1>4, FdsAre
  <2> QED BY <1>2, <1>4, <1>7, <2>1 DEF Extra
<1>9. Kernel(t)
  BY <1>1, <1>3, <1>4, <1>5 DEF Kernel
<1>10. Held(t)
  BY <1>1, <1>3, <1>4, <1>5, <1>6, <1>8, FdsAre DEF Held, Kernel
<1>11. Distinct(t)
  <2>1. m \notin Saved(s) \cup IncFds(s) \cup Tty(s)
    BY <1>6 DEF Extra
  <2> QED BY <1>1, <1>2, <1>3, <1>7, <2>1 DEF Distinct
<1>12. ShellFile(t)
  <2>1. s.ttyfdn # 2 => s.ttyfdn \in Extra(s)
    BY DEF Extra, Tty
  <2>2. t.fds[m] = s.fds[0] /\ s.fds[0] = 0 /\ \A n \in Fds \ {m} : t.fds[n] = s.fds[n]
    BY <1>1, <1>4 DEF Kernel, ShellFile
  <2>3. t.fds[2] = s.fds[2] /\ (s.ttyfdn # 2 => t.fds[s.ttyfdn] = s.fds[s.ttyfdn])
    BY <1>5, <1>6, <2>1, <2>2
  <2> QED BY <1>1, <1>2, <1>3, <1>8, <2>2, <2>3 DEF ShellFile
<1>13. Listed(t)
  <2>1. Frame(s, t, IoFields \ OutputFields)
    BY DEF Origin, Frame, IoFields, OutputFields
  <2>2. t.fds[1] = s.fds[1]
    BY <1>4, <1>6, FdsAre DEF Kernel
  <2>3. ~NoSwitch(s) /\ s.oupState = 1 => s.origoup # 0 /\ t.fds[s.origoup] = s.fds[s.origoup]
    <3>1. ~NoSwitch(s) /\ s.oupState = 1 => s.origoup \in Extra(s)
      BY InUse
    <3> QED BY <1>4, <1>5, <1>6, <3>1
  <2>4. \A n \in Fds \ {1} : t.fds[n] = s.fds[1] /\ s.fds[1] \in Fds =>
              \E k \in Fds \ {1} : s.fds[k] = s.fds[1]
    <3>1. \A n \in Fds : t.fds[n] = s.fds[n] \/ t.fds[n] = s.fds[0]
      BY <1>1, <1>4 DEF Kernel
    <3> QED BY <3>1, <1>5
  <2> QED BY <1>1, <1>3, <2>1, <2>2, <2>3, <2>4, ListedKeep
<1> QED BY <1>9, <1>10, <1>11, <1>12, <1>13 DEF Wired

\* switching descriptor 0,
LEMMA WiredZero ==
    ASSUME NEW s, NEW t, Wired(s), s.originp # None, Zero(s, t)
    PROVE  Wired(t)
<1>1. Kernel(s) /\ Held(s) /\ Distinct(s) /\ ShellFile(s) /\ Listed(s)
  BY DEF Wired
<1>2. PICK d : d = t.fds[0]
  OBVIOUS
<1>3. /\ t.inc = s.inc /\ t.ttyfdn = s.ttyfdn /\ t.originp = s.originp
      /\ t.oupState = s.oupState /\ t.errflag = s.errflag /\ t.origoup = s.origoup
      /\ DOMAIN t = IoFields
  BY DEF Zero, Frame, IoFields
<1>4. /\ d \in Fds /\ t.fds = [s.fds EXCEPT ![0] = d]
      /\ DOMAIN t.desc = Fds /\ \A e \in Fds : DOMAIN t.desc[e] = {"file", "pos"}
  BY <1>2 DEF Zero
<1>5. \/ t.desc = s.desc /\ \E n \in Fds \ {1} : s.fds[n] = d
      \/ (\A n \in Fds \ {0} : s.fds[n] # d) /\ \A e \in Fds \ {d} : t.desc[e] = s.desc[e]
  BY <1>2 DEF Zero
<1>6. /\ \A n \in Extra(s) : n \in Fds \ {0, 1, 2} /\ s.fds[n] \in Fds
      /\ 0 \in Fds /\ 2 \in Fds /\ s.fds[2] \in Fds
      /\ s.originp \in Extra(s) /\ (s.ttyfdn # 2 => s.ttyfdn \in Extra(s))
      /\ (~NoSwitch(s) /\ s.oupState = 1 => s.origoup \in Extra(s))
  BY InUse
<1>7. Extra(t) = Extra(s) /\ Distinct(t)
  BY <1>1, <1>3, UsesSame
<1>8. Kernel(t)
  BY <1>1, <1>3, <1>4 DEF Kernel
<1>9. \A n \in Fds \ {0} : t.fds[n] = s.fds[n]
  BY <1>1, <1>4 DEF Kernel
<1>10. Held(t)
  <2>1. d # None
    BY <1>4, FdsAre
  <2> QED BY <1>1, <1>2, <1>3, <1>7, <1>9, <2>1, FdsAre DEF Held
<1>11. \A n \in Fds \ {0} : s.fds[n] \in Fds => t.desc[s.fds[n]] = s.desc[s.fds[n]]
  BY <1>5
<1>12. ShellFile(t)
  <2>1. t.fds[s.originp] = s.fds[s.originp] /\ t.fds[2] = s.fds[2]
        /\ (s.ttyfdn # 2 => t.fds[s.ttyfdn] = s.fds[s.ttyfdn])
    BY <1>6, <1>9
  <2>2. t.desc[s.fds[2]] = s.desc[s.fds[2]]
        /\ (s.ttyfdn # 2 => t.desc[s.fds[s.ttyfdn]] = s.desc[s.fds[s.ttyfdn]])
    BY <1>6, <1>11
  <2> QED BY <1>1, <1>3, <2>1, <2>2 DEF ShellFile
<1>13. Listed(t)
  <2>1. Frame(s, t, IoFields \ OutputFields)
    BY DEF Zero, Frame, IoFields, OutputFields
  <2>2. t.fds[1] = s.fds[1]
    BY <1>9, FdsAre
  <2>3. ~NoSwitch(s) /\ s.oupState = 1 => s.origoup # 0 /\ t.fds[s.origoup] = s.fds[s.origoup]
    BY <1>6, <1>9
  <2>4. \A n \in Fds \ {1} : t.fds[n] = s.fds[1] /\ s.fds[1] \in Fds =>
              \E k \in Fds \ {1} : s.fds[k] = s.fds[1]
    BY <1>2, <1>5, <1>9, FdsAre
  <2>5. \A n \in Fds \ {0} : s.fds[n] \in Fds /\ t.fds[n] = s.fds[n] =>
              t.desc[s.fds[n]].file = s.desc[s.fds[n]].file
    BY <1>11
  <2>6. s.fds[1] \in Fds => t.desc[s.fds[1]] = s.desc[s.fds[1]]
    BY <1>11, FdsAre
  <2> QED BY <1>1, <2>1, <2>2, <2>3, <2>4, <2>5, <2>6, ListedKeep
<1> QED BY <1>7, <1>8, <1>10, <1>12, <1>13 DEF Wired

\* Stacks.
LEMMA StackPush ==
    ASSUME NEW q, IsStack(q), NEW x
    PROVE  /\ IsStack(Append(q, x)) /\ Len(q) \in Nat /\ DOMAIN q = 1 .. Len(q)
           /\ Len(Append(q, x)) = Len(q) + 1 /\ DOMAIN Append(q, x) = 1 .. Len(q) + 1
           /\ Append(q, x)[Len(q) + 1] = x /\ \A k \in 1 .. Len(q) : Append(q, x)[k] = q[k]
           /\ Front(Append(q, x)) = q
<1>1. PICK S : q \in Seq(S)
  BY DEF IsStack
<1>2. q \in Seq(S \cup {x}) /\ x \in S \cup {x}
  BY <1>1
<1>3. Append(q, x) \in Seq(S \cup {x})
  BY <1>2
<1>4. /\ Len(q) \in Nat /\ DOMAIN q = 1 .. Len(q)
      /\ Len(Append(q, x)) = Len(q) + 1 /\ DOMAIN Append(q, x) = 1 .. Len(q) + 1
      /\ Append(q, x)[Len(q) + 1] = x /\ \A k \in 1 .. Len(q) : Append(q, x)[k] = q[k]
  BY <1>1, <1>2
<1>5. PICK r : r = Append(q, x)
  OBVIOUS
<1>6. r \in Seq(S \cup {x}) /\ Len(r) - 1 = Len(q) /\ \A k \in 1 .. Len(q) : r[k] = q[k]
  BY <1>3, <1>4, <1>5
<1>7. SubSeq(r, 1, Len(q)) = q
  <2>1. SubSeq(r, 1, Len(q)) \in Seq(S \cup {x}) /\ Len(SubSeq(r, 1, Len(q))) = Len(q)
        /\ \A k \in 1 .. Len(q) : SubSeq(r, 1, Len(q))[k] = r[k]
    BY <1>4, <1>5, <1>6
  <2> QED BY <1>2, <1>4, <1>6, <2>1
<1>8. Front(r) = q
  BY <1>6, <1>7 DEF Front
<1> QED BY <1>3, <1>4, <1>5, <1>8 DEF IsStack

\* and without its last element.
LEMMA StackPop ==
    ASSUME NEW q, IsStack(q), q # <<>>
    PROVE  /\ IsStack(Front(q)) /\ Len(q) \in Nat \ {0} /\ DOMAIN q = 1 .. Len(q)
           /\ Len(Front(q)) = Len(q) - 1 /\ DOMAIN Front(q) = 1 .. Len(q) - 1
           /\ \A k \in 1 .. Len(q) - 1 : Front(q)[k] = q[k]
<1>1. PICK S : q \in Seq(S)
  BY DEF IsStack
<1>2. Len(q) \in Nat \ {0} /\ DOMAIN q = 1 .. Len(q)
  BY <1>1
<1>3. PICK r : r = SubSeq(q, 1, Len(q) - 1)
  OBVIOUS
<1>4. r \in Seq(S) /\ Len(r) = Len(q) - 1 /\ \A k \in 1 .. Len(q) - 1 : r[k] = q[k]
  BY <1>1, <1>2, <1>3
<1>5. Front(q) = r
  BY <1>3 DEF Front
<1>6. IsStack(r)
  BY <1>4 DEF IsStack
<1>7. DOMAIN r = 1 .. Len(q) - 1
  BY <1>4
<1> QED BY <1>2, <1>4, <1>5, <1>6, <1>7

\* putting descriptor 0 on the stack of include files,
LEMMA WiredPush ==
    ASSUME NEW s, NEW t, Wired(s), s.fds[1] # None, Push(s, t)
    PROVE  Wired(t)
<1>1. Kernel(s) /\ Held(s) /\ Distinct(s) /\ ShellFile(s) /\ Listed(s)
  BY DEF Wired
<1>2. PICK top : /\ t.inc = Append(s.inc, top)
                 /\ top.fd \in Fds /\ s.fds[top.fd] = None
                 /\ t.fds = [s.fds EXCEPT ![top.fd] = s.fds[0]]
  BY DEF Push
<1>3. /\ t.desc = s.desc /\ t.originp = s.originp /\ t.ttyfdn = s.ttyfdn /\ t.printed = s.printed
      /\ t.oupState = s.oupState /\ t.errflag = s.errflag /\ t.origoup = s.origoup
      /\ DOMAIN t = IoFields /\ Len(s.inc) < Depth
  BY DEF Push, Frame, IoFields
<1>4. /\ \A n \in {0, 2} \cup Extra(s) : n \in Fds \ {1} /\ s.fds[n] \in Fds
      /\ \A n \in Extra(s) : n \in Fds \ {0, 1, 2} /\ s.fds[n] \in Fds
      /\ 0 \in Fds /\ 1 \in Fds /\ 2 \in Fds /\ s.fds[2] \in Fds /\ s.fds[0] \in Fds
      /\ (s.originp # None => s.originp \in Extra(s)) /\ (s.ttyfdn # 2 => s.ttyfdn \in Extra(s))
      /\ (~NoSwitch(s) /\ s.oupState = 1 => s.origoup \in Extra(s))
  BY InUse
<1>5. PICK m : m = top.fd
  OBVIOUS
<1>6. m \in Fds /\ s.fds[m] = None /\ t.fds = [s.fds EXCEPT ![m] = s.fds[0]]
  BY <1>2, <1>5
<1>7. m \notin {0, 1, 2} \cup Extra(s)
  BY <1>4, <1>6, FdsAre
<1>8. /\ IsStack(t.inc) /\ Len(s.inc) \in Nat /\ DOMAIN s.inc = 1 .. Len(s.inc)
      /\ Len(t.inc) = Len(s.inc) + 1 /\ DOMAIN t.inc = 1 .. Len(s.inc) + 1
      /\ t.inc[Len(s.inc) + 1] = top /\ \A k \in 1 .. Len(s.inc) : t.inc[k] = s.inc[k]
  BY <1>1, <1>2, StackPush DEF Distinct
<1>9. IncFds(t) = IncFds(s) \cup {m}
  <2>1. PICK n : n = Len(s.inc)
    OBVIOUS
  <2>2. n \in Nat /\ DOMAIN s.inc = 1 .. n /\ DOMAIN t.inc = 1 .. n + 1
    BY <1>8, <2>1
  <2>3. t.inc[n + 1].fd = m /\ \A k \in 1 .. n : t.inc[k].fd = s.inc[k].fd
    BY <1>5, <1>8, <2>1
  <2>4. n + 1 \in 1 .. n + 1 /\ \A k \in 1 .. n + 1 : k = n + 1 \/ k \in 1 .. n
    BY <2>2
  <2>5. \A k \in 1 .. n : k \in 1 .. n + 1
    BY <2>2
  <2>6. IncFds(t) = {t.inc[k].fd : k \in 1 .. n + 1} /\ IncFds(s) = {s.inc[k].fd : k \in 1 .. n}
    BY <2>2 DEF IncFds
  <2> QED BY <2>3, <2>4, <2>5, <2>6
<1>10. Saved(t) = Saved(s) /\ Tty(t) = Tty(s)
  BY <1>3 DEF Saved, Tty
<1>11. Extra(t) = Extra(s) \cup {m}
  BY <1>3, <1>9, <1>10 DEF Extra
<1>12. Kernel(t)
  BY <1>1, <1>3, <1>4, <1>6 DEF Kernel
<1>13. t.fds[m] = s.fds[0] /\ \A n \in Fds \ {m} : t.fds[n] = s.fds[n]
  BY <1>1, <1>6 DEF Kernel
<1>14. Held(t)
  BY <1>1, <1>3, <1>4, <1>6, <1>7, <1>11, <1>13, FdsAre DEF Held
<1>15. Distinct(t)
  <2>1. m \notin Saved(s) \cup IncFds(s) \cup Tty(s) /\ m # s.originp
    BY <1>7, <1>4, <1>6, FdsAre DEF Extra
  <2>2. \A k \in 1 .. Len(s.inc) : s.inc[k].fd # m
    BY <2>1, <1>8 DEF IncFds
  <2>3. \A j, k \in DOMAIN t.inc : t.inc[j].fd = t.inc[k].fd => j = k
    <3> SUFFICES ASSUME NEW j \in DOMAIN t.inc, NEW k \in DOMAIN t.inc, t.inc[j].fd = t.inc[k].fd
                 PROVE  j = k
      OBVIOUS
    <3>1. CASE j \in 1 .. Len(s.inc) /\ k \in 1 .. Len(s.inc)
      BY <3>1, <1>1, <1>8 DEF Distinct
    <3>2. CASE ~(j \in 1 .. Len(s.inc) /\ k \in 1 .. Len(s.inc))
      <4>1. \A i \in DOMAIN t.inc : i \in 1 .. Len(s.inc) \/ i = Len(s.inc) + 1
        BY <1>8
      <4>2. \A i \in DOMAIN t.inc : (t.inc[i].fd = m) <=> (i = Len(s.inc) + 1)
        <5> SUFFICES ASSUME NEW i \in DOMAIN t.inc PROVE (t.inc[i].fd = m) <=> (i = Len(s.inc) + 1)
          OBVIOUS
        <5>1. CASE i \in 1 .. Len(s.inc)
          BY <5>1, <1>8, <2>2
        <5>2. CASE i = Len(s.inc) + 1
          BY <5>2, <1>5, <1>8
        <5> QED BY <4>1, <5>1, <5>2
      <4> QED BY <3>2, <4>1, <4>2
    <3> QED BY <3>1, <3>2
  <2>4. Len(t.inc) <= Depth
    BY <1>3, <1>8, FdsAre
  <2> QED BY <1>1, <1>3, <1>8, <1>9, <1>10, <2>1, <2>3, <2>4 DEF Distinct
<1>16. ShellFile(t)
  <2>1. t.fds[2] = s.fds[2] /\ t.fds[0] = s.fds[0] /\ (s.ttyfdn # 2 => t.fds[s.ttyfdn] = s.fds[s.ttyfdn])
    BY <1>4, <1>7, <1>13
  <2>2. s.originp # None => t.fds[s.originp] = s.fds[s.originp]
    BY <1>4, <1>7, <1>13
  <2> QED BY <1>1, <1>3, <2>1, <2>2 DEF ShellFile
<1>17. Listed(t)
  <2>1. Frame(s, t, IoFields \ OutputFields)
    BY DEF Push, Frame, IoFields, OutputFields
  <2>2. t.fds[1] = s.fds[1]
    BY <1>7, <1>13, <1>4
  <2>3. ~NoSwitch(s) /\ s.oupState = 1 => s.origoup # 0 /\ t.fds[s.origoup] = s.fds[s.origoup]
    BY <1>4, <1>7, <1>13
  <2>4. \A n \in Fds \ {1} : t.fds[n] = s.fds[1] /\ s.fds[1] \in Fds =>
            \E k \in Fds \ {1} : s.fds[k] = s.fds[1]
    BY <1>4, <1>13
  <2> QED BY <1>1, <1>3, <2>1, <2>2, <2>3, <2>4, ListedKeep
<1> QED BY <1>12, <1>14, <1>15, <1>16, <1>17 DEF Wired

\* and taking it from there.
LEMMA WiredPop ==
    ASSUME NEW s, NEW t, Wired(s), Pop(s, t)
    PROVE  Wired(t)
<1>1. Kernel(s) /\ Held(s) /\ Distinct(s) /\ ShellFile(s) /\ Listed(s)
  BY DEF Wired
<1>2. PICK m : m = s.inc[Len(s.inc)].fd
  OBVIOUS
<1>3. /\ t.desc = s.desc /\ t.originp = s.originp /\ t.ttyfdn = s.ttyfdn /\ t.printed = s.printed
      /\ t.oupState = s.oupState /\ t.errflag = s.errflag /\ t.origoup = s.origoup
      /\ DOMAIN t = IoFields
  BY DEF Pop, Frame, IoFields
<1>4. /\ \A n \in Extra(s) : n \in Fds \ {0, 1, 2} /\ s.fds[n] \in Fds
      /\ 0 \in Fds /\ 1 \in Fds /\ 2 \in Fds /\ s.fds[2] \in Fds /\ s.fds[0] \in Fds
      /\ (s.originp # None => s.originp \in Extra(s)) /\ (s.ttyfdn # 2 => s.ttyfdn \in Extra(s))
      /\ (~NoSwitch(s) /\ s.oupState = 1 => s.origoup \in Extra(s))
      /\ \A k \in DOMAIN s.inc : s.inc[k].fd \in Extra(s)
  BY InUse
<1>5. s.inc # <<>> /\ t.inc = Front(s.inc) /\ t.fds = [s.fds EXCEPT ![m] = None]
  BY <1>2 DEF Pop
<1>6. PICK n : n = Len(s.inc)
  OBVIOUS
<1>7. /\ IsStack(t.inc) /\ n \in Nat \ {0} /\ DOMAIN s.inc = 1 .. n
      /\ Len(t.inc) = n - 1 /\ DOMAIN t.inc = 1 .. n - 1
      /\ \A k \in 1 .. n - 1 : t.inc[k] = s.inc[k]
  BY <1>1, <1>5, <1>6, StackPop DEF Distinct
<1>8. /\ m \in Extra(s) /\ m \in IncFds(s)
      /\ \A k \in 1 .. n - 1 : s.inc[k].fd # m
  <2>1. n \in DOMAIN s.inc /\ s.inc[n].fd = m
    BY <1>2, <1>6, <1>7
  <2>2. \A k \in 1 .. n - 1 : k \in DOMAIN s.inc /\ k # n
    BY <1>7
  <2> QED BY <1>1, <1>4, <2>1, <2>2 DEF Distinct, IncFds
<1>9. IncFds(t) = IncFds(s) \ {m}
  <2>1. \A k \in 1 .. n : k = n \/ k \in 1 .. n - 1
    BY <1>7
  <2>2. IncFds(t) = {t.inc[k].fd : k \in 1 .. n - 1} /\ IncFds(s) = {s.inc[k].fd : k \in 1 .. n}
    BY <1>7 DEF IncFds
  <2>3. s.inc[n].fd = m /\ \A k \in 1 .. n - 1 : k \in 1 .. n /\ t.inc[k].fd = s.inc[k].fd /\ s.inc[k].fd # m
    BY <1>2, <1>6, <1>7, <1>8
  <2> QED BY <2>1, <2>2, <2>3
<1>10. Saved(t) = Saved(s) /\ Tty(t) = Tty(s)
  BY <1>3 DEF Saved, Tty
<1>11. m \notin Saved(s) \cup Tty(s) /\ m # s.originp
  BY <1>1, <1>4, <1>8, FdsAre DEF Distinct
<1>12. Extra(t) = Extra(s) \ {m}
  BY <1>3, <1>9, <1>10, <1>11 DEF Extra
<1>13. Kernel(t)
  BY <1>1, <1>3, <1>5 DEF Kernel
<1>14. t.fds[m] = None /\ m \in Fds \ {0, 1, 2} /\ \A k \in Fds \ {m} : t.fds[k] = s.fds[k]
  BY <1>1, <1>4, <1>5, <1>8 DEF Kernel
<1>15. Held(t)
  BY <1>1, <1>3, <1>4, <1>12, <1>14 DEF Held
<1>16. Distinct(t)
  <2>1. \A j \in 1 .. n - 1 : j \in DOMAIN s.inc
    BY <1>7
  <2>2. \A j, k \in DOMAIN t.inc : t.inc[j].fd = t.inc[k].fd => j = k
    BY <1>1, <1>7, <2>1 DEF Distinct
  <2>3. Len(t.inc) <= Depth
    BY <1>1, <1>6, <1>7, FdsAre DEF Distinct
  <2> QED BY <1>1, <1>3, <1>7, <1>9, <1>10, <2>2, <2>3 DEF Distinct
<1>17. ShellFile(t)
  <2>1. t.fds[2] = s.fds[2] /\ t.fds[0] = s.fds[0]
    BY <1>4, <1>14
  <2>2. s.ttyfdn # 2 => t.fds[s.ttyfdn] = s.fds[s.ttyfdn]
    <3>1. s.ttyfdn # 2 => s.ttyfdn \in Tty(s)
      BY DEF Tty
    <3> QED BY <1>4, <1>11, <1>14, <3>1
  <2>3. s.originp # None => t.fds[s.originp] = s.fds[s.originp]
    BY <1>4, <1>11, <1>14
  <2> QED BY <1>1, <1>3, <2>1, <2>2, <2>3 DEF ShellFile
<1>18. Listed(t)
  <2>1. Frame(s, t, IoFields \ OutputFields)
    BY DEF Pop, Frame, IoFields, OutputFields
  <2>2. t.fds[1] = s.fds[1]
    BY <1>4, <1>14
  <2>3. ~NoSwitch(s) /\ s.oupState = 1 => s.origoup # 0 /\ t.fds[s.origoup] = s.fds[s.origoup]
    <3>1. ~NoSwitch(s) /\ s.oupState = 1 => s.origoup \in Saved(s)
      BY DEF Saved, NoSwitch
    <3> QED BY <1>4, <1>11, <1>14, <3>1
  <2>4. \A k \in Fds \ {1} : t.fds[k] = s.fds[1] /\ s.fds[1] \in Fds =>
              \E j \in Fds \ {1} : s.fds[j] = s.fds[1]
    BY <1>14, FdsAre
  <2> QED BY <1>1, <1>3, <2>1, <2>2, <2>3, <2>4, ListedKeep
<1> QED BY <1>13, <1>15, <1>16, <1>17, <1>18 DEF Wired
-----------------------------------------------------------------------------
(***************************************************************************)
(* The routines that switch standard input.                                *)
(***************************************************************************)
InputFields == {"fds", "desc", "buf", "sfn", "save_fd0", "readshell0", "originp", "cmdcnt",
                "curfile", "inc"}

Switched(s, t) == Wired(t) /\ t.originp # None /\ Frame(s, t, InputFields) /\ t.fds[1] = s.fds[1]

\* The shell's standard input is saved the first time.
SavedFirst(s) == [(IF s.originp = None THEN dup(s, 0) ELSE s)
                     EXCEPT !.sfn = Shell, !.originp = IF @ = None THEN Lowest(s) ELSE @]

\* swcinp's first step.
LEMMA SavedFirstKeeps ==
    ASSUME NEW s, Wired(s), s.fds[1] # None
    PROVE  /\ Wired(SavedFirst(s)) /\ SavedFirst(s).originp # None
           /\ Frame(s, SavedFirst(s), {"fds", "originp", "sfn"}) /\ SavedFirst(s).fds[1] = s.fds[1]
<1>1. Kernel(s)
  BY DEF Wired
<1>2. PICK t : t = SavedFirst(s)
  OBVIOUS
<1>3. CASE s.originp = None
  <2>1. PICK m : m = Lowest(s)
    OBVIOUS
  <2>2. m \in Fds \ {0, 1, 2} /\ s.fds[m] = None /\ m # None /\ 1 \in Fds
    BY <2>1, OneFree, FdsAre
  <2>3. dup(s, 0) = [s EXCEPT !.fds[m] = s.fds[0]]
    BY <2>1 DEF dup, None
  <2>4. t = [[s EXCEPT !.fds[m] = s.fds[0]] EXCEPT !.sfn = Shell, !.originp = IF @ = None THEN m ELSE @]
    BY <1>2, <1>3, <2>1, <2>3, Zenon DEF SavedFirst
  <2>5. Frame(s, t, {"fds", "originp", "sfn"}) /\ t.originp = m /\ t.fds = [s.fds EXCEPT ![m] = s.fds[0]]
    BY <1>1, <1>3, <2>4 DEF Kernel, Frame, IoFields
  <2>6. Origin(s, t)
    BY <1>3, <2>2, <2>5 DEF Origin
  <2>7. t.fds[1] = s.fds[1]
    BY <1>1, <2>2, <2>5 DEF Kernel
  <2> QED BY <1>2, <2>2, <2>5, <2>6, <2>7, WiredOrigin
<1>4. CASE s.originp # None
  <2>1. t = [s EXCEPT !.sfn = Shell, !.originp = IF @ = None THEN Lowest(s) ELSE @]
    BY <1>2, <1>4 DEF SavedFirst
  <2>2. Frame(s, t, {"sfn"})
    BY <1>1, <1>4, <2>1 DEF Kernel, Frame, IoFields
  <2>3. Wired(t)
    <3>1. Frame(s, t, OtherFields)
      BY <2>2 DEF Frame, OtherFields
    <3> QED BY <3>1, WiredOthers
  <2>4. t.fds = s.fds /\ t.originp = s.originp /\ Frame(s, t, {"fds", "originp", "sfn"})
    BY <2>2 DEF Frame, IoFields
  <2> QED BY <1>2, <1>4, <2>3, <2>4
<1> QED BY <1>3, <1>4

\* Descriptor 0 closed, and the buffer thrown away.
Closed0(s) == clrbuf(close(s, 0))

\* Descriptor 0 is closed, and is then the lowest free one.
LEMMA Closed0Is ==
    ASSUME NEW s, Kernel(s)
    PROVE  /\ Kernel(Closed0(s)) /\ Frame(s, Closed0(s), {"fds", "buf"})
           /\ Closed0(s).fds = [s.fds EXCEPT ![0] = None] /\ Lowest(Closed0(s)) = 0
           /\ Closed0(s).fds[0] = None
<1>1. PICK t : t = Closed0(s)
  OBVIOUS
<1>2. Frame(s, t, {"fds", "buf"}) /\ t.fds = [s.fds EXCEPT ![0] = None]
  <2>1. close(s, 0) = [s EXCEPT !.fds[0] = None]
    BY DEF close, None
  <2>2. t = [[s EXCEPT !.fds[0] = None] EXCEPT !.buf = NoBuffer]
    BY <1>1, <2>1 DEF Closed0, clrbuf
  <2>3. Frame(s, t, {"fds", "buf"})
    BY <2>2 DEF Kernel, Frame, IoFields
  <2>4. t.fds = [s.fds EXCEPT ![0] = None]
    BY <2>2 DEF Kernel, IoFields
  <2> QED BY <2>3, <2>4
<1>3. 0 \in Fds /\ None \notin Fds
  BY FdsAre
<1>4. t.desc = s.desc /\ DOMAIN t = IoFields
  BY <1>2 DEF Frame, IoFields
<1>5. Kernel(t) /\ t.fds[0] = None
  BY <1>2, <1>3, <1>4 DEF Kernel
<1>6. Lowest(t) = 0
  BY <1>3, <1>5, LowestHere
<1> QED BY <1>1, <1>2, <1>5, <1>6

\* Descriptor 0 made a duplicate of descriptor n.
LEMMA DupOver ==
    ASSUME NEW s, Kernel(s), NEW n \in Fds \ {0}, s.fds[n] \in Fds
    PROVE  /\ Kernel(dup(Closed0(s), n)) /\ Frame(s, dup(Closed0(s), n), {"fds", "buf"})
           /\ dup(Closed0(s), n).fds = [s.fds EXCEPT ![0] = s.fds[n]]
<1>1. PICK c : c = Closed0(s)
  OBVIOUS
<1>2. /\ Kernel(c) /\ Frame(s, c, {"fds", "buf"})
      /\ c.fds = [s.fds EXCEPT ![0] = None] /\ Lowest(c) = 0
  BY <1>1, Closed0Is
<1>3. n # None /\ c.fds[n] = s.fds[n] /\ 0 \in Fds
  BY <1>2, FdsAre DEF Kernel
<1>4. PICK t : t = dup(c, n)
  OBVIOUS
<1>5. t = [c EXCEPT !.fds[0] = s.fds[n]]
  BY <1>2, <1>3, <1>4 DEF dup
<1>6. Frame(s, t, {"fds", "buf"}) /\ t.fds = [c.fds EXCEPT ![0] = s.fds[n]]
  BY <1>2, <1>5 DEF Kernel, Frame, IoFields
<1>7. t.fds = [s.fds EXCEPT ![0] = s.fds[n]]
  <2>1. t.fds = [[s.fds EXCEPT ![0] = None] EXCEPT ![0] = s.fds[n]]
    BY <1>2, <1>6
  <2> QED BY <1>3, <2>1 DEF Kernel
<1>8. t.desc = s.desc
  BY <1>6 DEF Frame, IoFields
<1>9. Kernel(t)
  <2>1. s.fds \in [Fds -> Fds \cup {None}] /\ DOMAIN s.desc = Fds
        /\ \A d \in Fds : DOMAIN s.desc[d] = {"file", "pos"}
    BY DEF Kernel
  <2>2. PICK h, v : h = s.fds /\ v = s.fds[n]
    OBVIOUS
  <2>3. h \in [Fds -> Fds \cup {None}] /\ v \in Fds \cup {None} /\ t.fds = [h EXCEPT ![0] = v]
    BY <1>7, <2>1, <2>2
  <2>4. t.fds \in [Fds -> Fds \cup {None}]
    BY <2>3
  <2>5. DOMAIN t = IoFields
    BY <1>6 DEF Frame
  <2> QED BY <1>8, <2>1, <2>4, <2>5 DEF Kernel
<1> QED BY <1>1, <1>4, <1>6, <1>7, <1>9

\* A duplicate of a descriptor in use is put there,
LEMMA DupZero ==
    ASSUME NEW s, Wired(s), NEW n \in Extra(s)
    PROVE  /\ Zero(s, dup(Closed0(s), n)) /\ Frame(s, dup(Closed0(s), n), {"fds", "buf"})
           /\ dup(Closed0(s), n).fds[1] = s.fds[1]
<1>1. Kernel(s)
  BY DEF Wired
<1>2. n \in Fds \ {0, 1, 2} /\ s.fds[n] \in Fds /\ 0 \in Fds /\ 1 \in Fds
  BY InUse
<1>3. PICK t : t = dup(Closed0(s), n)
  OBVIOUS
<1>4. Kernel(t) /\ Frame(s, t, {"fds", "buf"}) /\ t.fds = [s.fds EXCEPT ![0] = s.fds[n]]
  BY <1>1, <1>2, <1>3, DupOver
<1>5. t.fds[0] = s.fds[n] /\ t.fds[1] = s.fds[1]
  BY <1>1, <1>2, <1>4 DEF Kernel
<1>6. t.desc = s.desc
  BY <1>4 DEF Frame, IoFields
<1>7. Frame(s, t, {"fds", "desc", "buf", "sfn", "save_fd0", "readshell0"})
  BY <1>4 DEF Frame
<1>8. Zero(s, t)
  BY <1>1, <1>2, <1>4, <1>5, <1>6, <1>7 DEF Zero, Kernel
<1> QED BY <1>3, <1>4, <1>5, <1>8

\* or a file is opened there.
LEMMA OpenZero ==
    ASSUME NEW s, Wired(s), NEW f
    PROVE  /\ Zero(s, spit_open(Closed0(s), f)) /\ Frame(s, spit_open(Closed0(s), f), {"fds", "desc", "buf"})
           /\ spit_open(Closed0(s), f).fds[1] = s.fds[1]
<1>1. Kernel(s)
  BY DEF Wired
<1>2. PICK c : c = Closed0(s)
  OBVIOUS
<1>3. /\ Kernel(c) /\ Frame(s, c, {"fds", "buf"}) /\ c.fds[0] = None
      /\ c.fds = [s.fds EXCEPT ![0] = None] /\ Lowest(c) = 0
  BY <1>1, <1>2, Closed0Is
<1>4. PICK d : d = FreeDesc(c)
  OBVIOUS
<1>5. d \in Fds /\ \A k \in Fds : c.fds[k] # d
  BY <1>3, <1>4, FdsAre, FreeDescIs
<1>6. \A k \in Fds \ {0} : c.fds[k] = s.fds[k] /\ s.fds[k] # d
  BY <1>1, <1>3, <1>5 DEF Kernel
<1>7. PICK t : t = spit_open(c, f)
  OBVIOUS
<1>8. t = [c EXCEPT !.fds[0] = d, !.desc[d] = [file |-> f, pos |-> 0]]
  BY <1>3, <1>4, <1>7 DEF spit_open
<1>9. /\ Frame(s, t, {"fds", "desc", "buf"}) /\ t.fds = [c.fds EXCEPT ![0] = d]
      /\ t.desc = [c.desc EXCEPT ![d] = [file |-> f, pos |-> 0]]
  BY <1>3, <1>8 DEF Kernel, Frame, IoFields
<1>10. c.desc = s.desc
  BY <1>3 DEF Frame, IoFields
<1>11. t.fds = [s.fds EXCEPT ![0] = d] /\ t.fds[0] = d
  <2>1. t.fds = [[s.fds EXCEPT ![0] = None] EXCEPT ![0] = d]
    BY <1>3, <1>9
  <2> QED BY <1>1, <2>1, FdsAre DEF Kernel
<1>12. t.desc = [s.desc EXCEPT ![d] = [file |-> f, pos |-> 0]]
  BY <1>9, <1>10
<1>13. DOMAIN t.desc = Fds /\ (\A e \in Fds : DOMAIN t.desc[e] = {"file", "pos"})
       /\ \A e \in Fds \ {d} : t.desc[e] = s.desc[e]
  BY <1>1, <1>12 DEF Kernel
<1>14. Zero(s, t)
  <2>1. Frame(s, t, {"fds", "desc", "buf", "sfn", "save_fd0", "readshell0"})
    BY <1>9 DEF Frame
  <2> QED BY <1>5, <1>6, <1>11, <1>13, <2>1 DEF Zero
<1>15. t.fds[1] = s.fds[1]
  BY <1>1, <1>11, FdsAre DEF Kernel
<1> QED BY <1>2, <1>7, <1>9, <1>14, <1>15

\* What swcinp does to standard input; where it goes on it counts the file.
Counted(s, t) ==
    /\ s.curfile < s.inpcnt /\ t.curfile = s.curfile + 1 /\ t.cmdcnt = s.cmdcnt + 1

\* swcinp: its status, what it switches and what it counts.
LEMMA SwcinpSwitches ==
    ASSUME NEW s, Wired(s), s.fds[1] # None
    PROVE  /\ swcinp(s).status \in {"ok", "eof", "can't open", "no END"}
           /\ Frame(s, swcinp(s).io, InputFields)
           /\ swcinp(s).status \in {"ok", "eof"} => Switched(s, swcinp(s).io)
           /\ swcinp(s).status = "ok" =>
                \/ Counted(s, swcinp(s).io)
                \/ /\ s.executing \/ s.inpcnt = 0
                   /\ swcinp(s).io.curfile = s.curfile /\ swcinp(s).io.cmdcnt = s.cmdcnt
           /\ swcinp(s).status = "eof" =>
                   swcinp(s).io.curfile = s.curfile /\ swcinp(s).io.cmdcnt = s.cmdcnt
           /\ s.curfile < s.inpcnt => Counted(s, swcinp(s).io) \/ swcinp(s).status = "can't open"
           /\ s.curfile < s.inpcnt => swcinp(s).status \in {"ok", "can't open"}
           /\ ~(s.curfile < s.inpcnt) /\ s.executing => swcinp(s).status \in {"ok", "eof"}
<1>1. PICK a : a = SavedFirst(s)
  OBVIOUS
<1>2. PICK cp, b, c : cp = s.argv[s.first + s.curfile] /\ b = NextFile(a) /\ c = Closed0(b)
  OBVIOUS
<1>3. PICK names : names = Existing(SourceNames(b, cp))
  OBVIOUS
<1>4. PICK w : w = swcinp(s)
  OBVIOUS
<1>5. w = IF s.curfile < s.inpcnt
          THEN IF cp = Hyphen THEN [io |-> dup(c, c.originp), status |-> "ok"]
               ELSE IF names = <<>> THEN [io |-> c, status |-> "can't open"]
               ELSE [io |-> [spit_open(c, Head(names)) EXCEPT !.sfn = Head(names)], status |-> "ok"]
          ELSE IF ~s.readshell0 THEN [io |-> a, status |-> "eof"]
          ELSE IF ~s.executing /\ s.inpcnt # 0 THEN [io |-> a, status |-> "no END"]
          ELSE [io |-> [ToShell(a) EXCEPT !.readshell0 = FALSE], status |-> "ok"]
  BY <1>1, <1>2, <1>3, <1>4, Zenon DEF swcinp, SavedFirst, Closed0
<1>6. /\ Wired(a) /\ a.originp # None /\ Frame(s, a, {"fds", "originp", "sfn"})
      /\ a.fds[1] = s.fds[1]
  BY <1>1, SavedFirstKeeps
<1>7. Frame(a, b, {"cmdcnt", "curfile"}) /\ b.cmdcnt = a.cmdcnt + 1 /\ b.curfile = a.curfile + 1
  <2>1. DOMAIN a = IoFields
    BY <1>6 DEF Frame
  <2> QED BY <1>2, <2>1 DEF Frame, IoFields, NextFile
<1>8. /\ Wired(b) /\ b.originp # None /\ Frame(s, b, InputFields) /\ b.fds[1] = s.fds[1]
      /\ b.cmdcnt = s.cmdcnt + 1 /\ b.curfile = s.curfile + 1
  <2>1. Frame(a, b, OtherFields)
    BY <1>7 DEF Frame, OtherFields
  <2>2. a.cmdcnt = s.cmdcnt /\ a.curfile = s.curfile
    BY <1>6 DEF Frame, IoFields
  <2>3. b.originp = a.originp /\ b.fds = a.fds
    BY <1>7 DEF Frame, IoFields
  <2>4. Frame(s, b, InputFields)
    BY <1>6, <1>7 DEF Frame, InputFields
  <2> QED BY <1>6, <1>7, <2>1, <2>2, <2>3, <2>4, WiredOthers
<1>9. Kernel(b) /\ b.originp \in Extra(b)
  BY <1>8, InUse DEF Wired
<1>10. Frame(b, c, {"fds", "buf"}) /\ c.originp = b.originp
  <2>1. Frame(b, c, {"fds", "buf"})
    BY <1>2, <1>9, Closed0Is
  <2> QED BY <2>1 DEF Frame, IoFields
<1>11. CASE s.curfile < s.inpcnt /\ cp = Hyphen
  <2>1. PICK t : t = dup(c, c.originp)
    OBVIOUS
  <2>2. w.status = "ok" /\ w.io = t
    BY <1>5, <1>11, <2>1
  <2>3. Zero(b, t) /\ Frame(b, t, {"fds", "buf"}) /\ t.fds[1] = b.fds[1]
    BY <1>2, <1>8, <1>9, <1>10, <2>1, DupZero
  <2>4. Wired(t)
    BY <1>8, <2>3, WiredZero
  <2>5. Frame(s, t, InputFields) /\ t.originp = b.originp /\ t.cmdcnt = b.cmdcnt /\ t.curfile = b.curfile
    BY <1>8, <2>3 DEF Frame, InputFields, IoFields
  <2> QED BY <1>4, <1>8, <1>11, <2>2, <2>3, <2>4, <2>5 DEF Switched, Counted
<1>12. CASE s.curfile < s.inpcnt /\ cp # Hyphen /\ names = <<>>
  <2>1. w.status = "can't open" /\ w.io = c
    BY <1>5, <1>12
  <2>2. Frame(s, c, InputFields)
    BY <1>8, <1>10 DEF Frame, InputFields
  <2> QED BY <1>4, <1>12, <2>1, <2>2
<1>13. CASE s.curfile < s.inpcnt /\ cp # Hyphen /\ names # <<>>
  <2>1. PICK f : f = Head(names)
    OBVIOUS
  <2>2. PICK r, t : r = spit_open(c, f) /\ t = [r EXCEPT !.sfn = f]
    OBVIOUS
  <2>3. w.status = "ok" /\ w.io = t
    BY <1>5, <1>13, <2>1, <2>2
  <2>4. Zero(b, r) /\ Frame(b, r, {"fds", "desc", "buf"}) /\ r.fds[1] = b.fds[1]
    BY <1>2, <1>8, <2>2, OpenZero
  <2>5. Frame(r, t, {"sfn"})
    BY <2>2, <2>4 DEF Frame, IoFields
  <2>6. Wired(t)
    <3>1. Frame(r, t, OtherFields)
      BY <2>5 DEF Frame, OtherFields
    <3>2. Wired(r)
      BY <1>8, <2>4, WiredZero
    <3> QED BY <3>1, <3>2, WiredOthers
  <2>7. Frame(s, t, InputFields)
    BY <1>8, <2>4, <2>5 DEF Frame, InputFields
  <2>8. t.originp = b.originp /\ t.cmdcnt = b.cmdcnt /\ t.curfile = b.curfile /\ t.fds = r.fds
    BY <2>4, <2>5 DEF Frame, IoFields
  <2> QED BY <1>4, <1>8, <1>13, <2>3, <2>4, <2>6, <2>7, <2>8 DEF Switched, Counted
<1>14. CASE ~(s.curfile < s.inpcnt) /\ (~s.readshell0 \/ (~s.executing /\ s.inpcnt # 0))
  <2>1. w.io = a /\ w.status \in {"eof", "no END"} /\ (s.executing => w.status = "eof")
    BY <1>5, <1>14
  <2>2. Frame(s, a, InputFields) /\ a.cmdcnt = s.cmdcnt /\ a.curfile = s.curfile
    BY <1>6 DEF Frame, InputFields, IoFields
  <2> QED BY <1>4, <1>6, <1>14, <2>1, <2>2 DEF Switched
<1>15. CASE ~(s.curfile < s.inpcnt) /\ s.readshell0 /\ ~(~s.executing /\ s.inpcnt # 0)
  <2>1. PICK r, t : r = dup(Closed0(a), a.originp) /\ t = [r EXCEPT !.readshell0 = FALSE]
    OBVIOUS
  <2>2. ToShell(a) = r
    BY <2>1 DEF ToShell, Closed0
  <2>3. w.status = "ok" /\ w.io = t
    BY <1>5, <1>15, <2>1, <2>2
  <2>4. a.originp \in Extra(a)
    BY <1>6, InUse
  <2>5. Zero(a, r) /\ Frame(a, r, {"fds", "buf"}) /\ r.fds[1] = a.fds[1]
    BY <1>6, <2>1, <2>4, DupZero
  <2>6. Frame(r, t, {"readshell0"})
    BY <2>1, <2>5 DEF Frame, IoFields
  <2>7. Wired(t)
    <3>1. Frame(r, t, OtherFields)
      BY <2>6 DEF Frame, OtherFields
    <3>2. Wired(r)
      BY <1>6, <2>5, WiredZero
    <3> QED BY <3>1, <3>2, WiredOthers
  <2>8. Frame(s, t, InputFields)
    BY <1>6, <2>5, <2>6 DEF Frame, InputFields
  <2>9. t.originp = a.originp /\ t.fds = r.fds /\ t.cmdcnt = s.cmdcnt /\ t.curfile = s.curfile
    BY <1>6, <2>5, <2>6 DEF Frame, IoFields
  <2>10. s.executing \/ s.inpcnt = 0
    BY <1>15
  <2> QED BY <1>4, <1>6, <1>15, <2>3, <2>5, <2>7, <2>8, <2>9, <2>10 DEF Switched
<1> QED BY <1>11, <1>12, <1>13, <1>14, <1>15

\* What include files do to it.
NestFields == {"fds", "desc", "buf", "save_fd0", "inc"}

Nested(s, t) == Wired(t) /\ t.originp # None /\ Frame(s, t, NestFields) /\ t.fds[1] = s.fds[1]

\* Back to the file below: descriptor 0 is a duplicate of the one on the stack, which
\* is closed.
LEMMA OpenPrevSwitches ==
    ASSUME NEW s, Wired(s), s.originp # None, s.inc # <<>>, NEW c, c = close(s, 0) \/ c = Closed0(s)
    PROVE  Nested(s, openprev(c))
<1>1. Kernel(s) /\ Distinct(s)
  BY DEF Wired
<1>2. PICK top : top = s.inc[Len(s.inc)]
  OBVIOUS
<1>3. PICK m : m = top.fd
  OBVIOUS
<1>4. m \in Extra(s)
  <2>1. Len(s.inc) \in DOMAIN s.inc
    BY <1>1, StackPop DEF Distinct
  <2> QED BY <1>2, <1>3, <2>1, InUse
<1>5. m \in Fds \ {0, 1, 2} /\ s.fds[m] \in Fds /\ 0 \in Fds /\ 1 \in Fds /\ m # None
  BY <1>4, InUse, FdsAre
<1>6. PICK r : r = dup(Closed0(s), m)
  OBVIOUS
<1>7. Zero(s, r) /\ Frame(s, r, {"fds", "buf"}) /\ r.fds[1] = s.fds[1] /\ Wired(r)
  BY <1>4, <1>6, DupZero, WiredZero
<1>8. r.fds = [s.fds EXCEPT ![0] = s.fds[m]]
  BY <1>1, <1>5, <1>6, DupOver
<1>9. /\ Frame(s, c, {"fds", "buf"}) /\ c.fds = [s.fds EXCEPT ![0] = None]
      /\ c.inc = s.inc
  <2>1. CASE c = Closed0(s)
    BY <1>1, <2>1, Closed0Is DEF Frame, IoFields
  <2>2. CASE c = close(s, 0)
    <3>1. c = [s EXCEPT !.fds[0] = None]
      BY <2>2 DEF close, None
    <3> QED BY <1>1, <3>1 DEF Frame, IoFields, Kernel
  <2> QED BY <2>1, <2>2
<1>10. Kernel(c) /\ c.fds[0] = None
  <2>1. c.desc = s.desc
    BY <1>9 DEF Frame, IoFields
  <2> QED BY <1>1, <1>5, <1>9, <2>1 DEF Kernel, Frame
<1>11. PICK e : e = [c EXCEPT !.inc = Front(@)]
  OBVIOUS
<1>12. Frame(c, e, {"inc"}) /\ e.inc = Front(s.inc) /\ e.fds = c.fds
  BY <1>9, <1>10, <1>11 DEF Kernel, Frame, IoFields
<1>13. Lowest(e) = 0
  BY <1>5, <1>10, <1>12, LowestHere
<1>14. PICK u : u = clrbuf(close(dup(e, m), m))
  OBVIOUS
<1>15. /\ Frame(s, u, {"fds", "buf", "inc"}) /\ u.inc = Front(s.inc)
       /\ u.fds = [r.fds EXCEPT ![m] = None] /\ u.buf = NoBuffer
  <2>1. dup(e, m) = [e EXCEPT !.fds[0] = s.fds[m]]
    <3>1. e.fds[m] = s.fds[m]
      BY <1>1, <1>5, <1>9, <1>12 DEF Kernel
    <3> QED BY <1>5, <1>13, <3>1 DEF dup
  <2>2. PICK g : g = dup(e, m)
    OBVIOUS
  <2>3. Frame(e, g, {"fds"}) /\ g.fds = [e.fds EXCEPT ![0] = s.fds[m]]
    BY <1>12, <2>1, <2>2 DEF Frame, IoFields
  <2>4. close(g, m) = [g EXCEPT !.fds[m] = None]
    BY <1>5 DEF close
  <2>5. u = [[g EXCEPT !.fds[m] = None] EXCEPT !.buf = NoBuffer]
    BY <1>14, <2>2, <2>4 DEF clrbuf
  <2>6. /\ Frame(g, u, {"fds", "buf"}) /\ u.fds = [g.fds EXCEPT ![m] = None] /\ u.buf = NoBuffer
        /\ u.inc = g.inc
    BY <2>3, <2>5 DEF Frame, IoFields
  <2>7. g.inc = e.inc
    BY <2>3 DEF Frame, IoFields
  <2>8. Frame(s, u, {"fds", "buf", "inc"})
    BY <1>9, <1>12, <2>3, <2>6 DEF Frame
  <2>9. g.fds = r.fds
    BY <1>1, <1>5, <1>8, <1>9, <1>12, <2>3 DEF Kernel
  <2> QED BY <1>12, <2>6, <2>7, <2>8, <2>9
<1>16. Pop(r, u)
  <2>1. r.inc = s.inc
    BY <1>7 DEF Frame, IoFields
  <2>2. r.buf = NoBuffer
    <3>1. Closed0(s).buf = NoBuffer /\ DOMAIN Closed0(s) = IoFields
      <4>1. PICK q : q = close(s, 0)
        OBVIOUS
      <4>2. DOMAIN q = IoFields
        BY <1>1, <4>1 DEF close, Kernel
      <4> QED BY <4>1, <4>2 DEF Closed0, clrbuf, IoFields
    <3> QED BY <1>6, <3>1 DEF dup, IoFields
  <2>3. Frame(r, u, {"fds", "inc"})
    BY <1>7, <1>15, <2>2 DEF Frame
  <2> QED BY <1>2, <1>3, <1>15, <2>1, <2>3 DEF Pop
<1>17. Wired(u)
  BY <1>7, <1>16, WiredPop
<1>18. openprev(c) = MoveTo(u, top.pos)
  BY <1>2, <1>3, <1>9, <1>11, <1>14, Zenon DEF openprev
<1>19. PICK v : v = openprev(c)
  OBVIOUS
<1>20. Moves(u, v)
  <2>1. Kernel(u) /\ u.fds[0] # None
    BY <1>17, InUse, FdsAre DEF Wired
  <2> QED BY <1>18, <1>19, <2>1, MoveToMoves
<1>21. Wired(v)
  BY <1>17, <1>20, WiredMoves
<1>22. v.fds = u.fds /\ v.originp = u.originp /\ u.originp = s.originp
  BY <1>15, <1>20 DEF Moves, Frame, IoFields
<1>23. v.fds[1] = s.fds[1]
  <2>1. u.fds[1] = r.fds[1]
    BY <1>5, <1>7, <1>15 DEF Wired, Kernel
  <2> QED BY <1>7, <1>22, <2>1
<1>24. Frame(s, v, NestFields)
  BY <1>15, <1>20 DEF Moves, Frame, NestFields
<1> QED BY <1>19, <1>21, <1>22, <1>23, <1>24 DEF Nested

\* zysif without a name.
LEMMA IncludeEndSwitches ==
    ASSUME NEW s, Wired(s), s.originp # None
    PROVE  Nested(s, zysifEnd(s))
<1>1. CASE s.inc = <<>>
  <2>1. Frame(s, s, NestFields)
    BY DEF Wired, Kernel, Frame
  <2> QED BY <1>1, <2>1 DEF zysifEnd, Nested
<1>2. CASE s.inc # <<>>
  <2>1. PICK c : c = close(s, 0)
    OBVIOUS
  <2>2. Nested(s, openprev(c))
    BY <1>2, <2>1, OpenPrevSwitches
  <2> QED BY <1>2, <2>1, <2>2 DEF zysifEnd
<1> QED BY <1>1, <1>2

\* Into an include file: descriptor 0 goes onto the stack.
LEMMA IntoFileSwitches ==
    ASSUME NEW s, NEW f, Wired(s), s.originp # None, s.fds[1] # None, Len(s.inc) < Depth
    PROVE  Nested(s, IntoFile(s, f).io)
<1>1. Kernel(s) /\ Distinct(s)
  BY DEF Wired
<1>2. PICK m : m = Lowest(s)
  OBVIOUS
<1>3. m \in Fds \ {0, 1, 2} /\ s.fds[m] = None /\ m # None /\ 1 \in Fds
  BY <1>2, OneFree, FdsAre
<1>4. PICK top : top = [fd |-> m, pos |-> s.buf.offset + s.buf.next]
  OBVIOUS
<1>5. PICK p : p = [dup(s, 0) EXCEPT !.inc = Append(@, top)]
  OBVIOUS
<1>6. /\ Frame(s, p, {"fds", "inc"}) /\ p.inc = Append(s.inc, top)
      /\ p.fds = [s.fds EXCEPT ![m] = s.fds[0]]
  <2>1. dup(s, 0) = [s EXCEPT !.fds[m] = s.fds[0]]
    BY <1>2 DEF dup, None
  <2> QED BY <1>1, <1>5, <2>1 DEF Kernel, Frame, IoFields
<1>7. Push(s, p)
  <2>1. /\ p.inc = Append(s.inc, top) /\ top.fd \in Fds /\ s.fds[top.fd] = None
        /\ p.fds = [s.fds EXCEPT ![top.fd] = s.fds[0]]
    BY <1>3, <1>4, <1>6
  <2>2. Len(s.inc) < Depth /\ Frame(s, p, {"fds", "inc"})
    BY <1>6
  <2> QED BY <2>1, <2>2, Zenon DEF Push
<1>8. Wired(p) /\ p.originp = s.originp /\ p.fds[1] = s.fds[1]
  <2>1. p.originp = s.originp
    BY <1>6 DEF Frame, IoFields
  <2>2. p.fds[1] = s.fds[1]
    BY <1>1, <1>3, <1>6 DEF Kernel
  <2> QED BY <1>7, <2>1, <2>2, WiredPush
<1>9. PICK c, names : c = Closed0(p) /\ names = Existing(IncludeNames(s, f))
  OBVIOUS
<1>10. IntoFile(s, f) = IF names = <<>> THEN [io |-> openprev(c), found |-> FALSE]
                        ELSE [io |-> spit_open(c, Head(names)), found |-> TRUE]
  BY <1>2, <1>4, <1>5, <1>9, Zenon DEF IntoFile, Closed0
<1>11. Frame(s, p, NestFields)
  BY <1>6 DEF Frame, NestFields
<1>12. CASE names = <<>>
  <2>1. p.inc # <<>>
    <3>1. Len(p.inc) = Len(s.inc) + 1 /\ Len(s.inc) \in Nat
      BY <1>1, <1>6, StackPush DEF Distinct
    <3>2. Len(<<>>) = 0
      OBVIOUS
    <3> QED BY <3>1, <3>2
  <2>2. Nested(p, openprev(c))
    BY <1>8, <1>9, <2>1, OpenPrevSwitches
  <2>3. IntoFile(s, f).io = openprev(c)
    BY <1>10, <1>12
  <2>4. PICK v : v = openprev(c)
    OBVIOUS
  <2>5. Frame(s, v, NestFields)
    BY <1>11, <2>2, <2>4 DEF Nested, Frame
  <2> QED BY <1>8, <2>2, <2>3, <2>4, <2>5 DEF Nested
<1>13. CASE names # <<>>
  <2>1. PICK g : g = Head(names)
    OBVIOUS
  <2>2. PICK v : v = spit_open(c, g)
    OBVIOUS
  <2>3. IntoFile(s, f).io = v
    BY <1>10, <1>13, <2>1, <2>2
  <2>4. Zero(p, v) /\ Frame(p, v, {"fds", "desc", "buf"}) /\ v.fds[1] = p.fds[1]
    BY <1>8, <1>9, <2>2, OpenZero
  <2>5. Wired(v)
    BY <1>8, <2>4, WiredZero
  <2>6. Frame(s, v, NestFields) /\ v.originp = p.originp
    BY <1>11, <2>4 DEF Frame, NestFields, IoFields
  <2> QED BY <1>8, <2>3, <2>4, <2>5, <2>6 DEF Nested
<1> QED BY <1>12, <1>13

\* zysif with one.
LEMMA IncludeSwitches ==
    ASSUME NEW s, NEW f, Wired(s), s.originp # None, s.fds[1] # None
    PROVE  Nested(s, zysif(s, f).io)
<1>1. CASE Len(s.inc) = Depth
  <2>1. zysif(s, f).io = s
    BY <1>1 DEF zysif
  <2>2. Frame(s, s, NestFields)
    BY DEF Wired, Kernel, Frame
  <2> QED BY <2>1, <2>2 DEF Nested
<1>2. CASE Len(s.inc) # Depth
  <2>1. PICK S : s.inc \in Seq(S)
    BY DEF Wired, Distinct, IsStack
  <2>2. Len(s.inc) < Depth
    <3>1. Len(s.inc) \in Nat /\ Len(s.inc) <= Depth
      BY <2>1 DEF Wired, Distinct
    <3> QED BY <1>2, <3>1, FdsAre
  <2>3. zysif(s, f) = IntoFile(s, f)
    BY <1>2 DEF zysif
  <2> QED BY <2>2, <2>3, IntoFileSwitches
<1> QED BY <1>1, <1>2

\* A command: descriptor 0 is the shell's input meanwhile, of which it may read.
LEMMA CommandMoves ==
    ASSUME NEW s, Wired(s), s.originp # None, s.fds[1] # None, NEW p
    PROVE  Moves(s, restore0([save0(s) EXCEPT !.desc[save0(s).fds[0]].pos = p]))
<1>1. Kernel(s)
  BY DEF Wired
<1>2. PICK m : m = Lowest(s)
  OBVIOUS
<1>3. m \in Fds \ ({0, 1, 2} \cup Extra(s)) /\ s.fds[m] = None /\ m # None /\ 0 \in Fds
  BY <1>2, OneFree, FdsAre
<1>4. PICK o : o = s.originp
  OBVIOUS
<1>5. o \in Extra(s) /\ o \in Fds \ {0, 1, 2} /\ s.fds[o] \in Fds /\ o # m /\ s.fds[0] \in Fds
  BY <1>3, <1>4, InUse
<1>6. PICK e : e = [dup(s, 0) EXCEPT !.save_fd0 = m]
  OBVIOUS
<1>7. /\ Frame(s, e, {"fds", "save_fd0"}) /\ e.fds = [s.fds EXCEPT ![m] = s.fds[0]]
      /\ e.save_fd0 = m
  <2>1. dup(s, 0) = [s EXCEPT !.fds[m] = s.fds[0]]
    BY <1>2 DEF dup, None
  <2> QED BY <1>1, <1>6, <2>1 DEF Kernel, Frame, IoFields
<1>8. e.originp = o /\ e.desc = s.desc
  BY <1>4, <1>7 DEF Frame, IoFields
<1>9. Kernel(e) /\ e.fds[o] = s.fds[o] /\ e.fds[m] = s.fds[0]
  BY <1>1, <1>3, <1>5, <1>7, <1>8 DEF Kernel, Frame
<1>10. PICK q : q = save0(s)
  OBVIOUS
<1>11. q = dup(Closed0(e), o)
  BY <1>2, <1>6, <1>8, <1>10 DEF save0, ToShell, Closed0
<1>12. Kernel(q) /\ Frame(e, q, {"fds", "buf"}) /\ q.fds = [e.fds EXCEPT ![0] = s.fds[o]]
  BY <1>5, <1>9, <1>11, DupOver
<1>13. q.fds[0] = s.fds[o] /\ q.fds[m] = s.fds[0] /\ q.desc = s.desc /\ q.save_fd0 = m
  <2>1. q.fds[0] = s.fds[o] /\ q.fds[m] = s.fds[0]
    BY <1>3, <1>9, <1>12 DEF Kernel
  <2>2. q.desc = e.desc /\ q.save_fd0 = e.save_fd0
    BY <1>12 DEF Frame, IoFields
  <2> QED BY <1>7, <1>8, <2>1, <2>2
<1>14. PICK x : x = [q EXCEPT !.desc[q.fds[0]].pos = p]
  OBVIOUS
<1>15. Frame(q, x, {"desc"}) /\ x.desc = [s.desc EXCEPT ![s.fds[o]].pos = p]
  <2>1. Frame(q, x, {"desc"}) /\ x.desc = [q.desc EXCEPT ![q.fds[0]].pos = p]
    BY <1>12, <1>14 DEF Kernel, Frame, IoFields
  <2> QED BY <1>13, <2>1
<1>16. x.fds = q.fds /\ x.save_fd0 = m
  BY <1>13, <1>15 DEF Frame, IoFields
<1>17. Kernel(x)
  <2>1. DOMAIN x.desc = Fds /\ \A d \in Fds : DOMAIN x.desc[d] = {"file", "pos"}
    BY <1>1, <1>15 DEF Kernel
  <2> QED BY <1>12, <1>15, <1>16, <2>1 DEF Kernel, Frame
<1>18. PICK y : y = dup(Closed0(x), m)
  OBVIOUS
<1>19. Kernel(y) /\ Frame(x, y, {"fds", "buf"}) /\ y.fds = [x.fds EXCEPT ![0] = s.fds[0]]
  <2>1. m \in Fds \ {0} /\ x.fds[m] = s.fds[0] /\ x.fds[m] \in Fds
    BY <1>3, <1>5, <1>13, <1>16
  <2>2. /\ Kernel(dup(Closed0(x), m)) /\ Frame(x, dup(Closed0(x), m), {"fds", "buf"})
        /\ dup(Closed0(x), m).fds = [x.fds EXCEPT ![0] = x.fds[m]]
    BY <1>17, <2>1, DupOver
  <2> QED BY <1>18, <2>1, <2>2
<1>20. PICK z : z = restore0(x)
  OBVIOUS
<1>21. z = [y EXCEPT !.fds[m] = None]
  <2>1. z = close(y, m)
    BY <1>16, <1>18, <1>20 DEF restore0, Closed0
  <2> QED BY <1>3, <2>1 DEF close
<1>22. Frame(y, z, {"fds"}) /\ z.fds = [y.fds EXCEPT ![m] = None]
  BY <1>19, <1>21 DEF Kernel, Frame, IoFields
<1>23. z.fds = s.fds
  <2>1. z.fds = [[[[s.fds EXCEPT ![m] = s.fds[0]] EXCEPT ![0] = s.fds[o]] EXCEPT ![0] = s.fds[0]]
                    EXCEPT ![m] = None]
    BY <1>7, <1>12, <1>16, <1>19, <1>22
  <2> QED BY <1>1, <1>3, <2>1 DEF Kernel
<1>24. z.desc = x.desc
  BY <1>19, <1>22 DEF Frame, IoFields
<1>25. Frame(s, z, {"buf", "desc", "save_fd0"})
  BY <1>7, <1>12, <1>15, <1>19, <1>22, <1>23 DEF Frame
<1>26. \A d \in Fds : /\ DOMAIN z.desc[d] = {"file", "pos"} /\ z.desc[d].file = s.desc[d].file
                      /\ z.desc[d].pos = s.desc[d].pos \/ d = s.fds[o]
  <2> SUFFICES ASSUME NEW d \in Fds
               PROVE  /\ DOMAIN z.desc[d] = {"file", "pos"} /\ z.desc[d].file = s.desc[d].file
                      /\ z.desc[d].pos = s.desc[d].pos \/ d = s.fds[o]
    OBVIOUS
  <2>1. DOMAIN s.desc[d] = {"file", "pos"} /\ DOMAIN s.desc = Fds
    BY <1>1 DEF Kernel
  <2>2. z.desc[d] = IF d = s.fds[o] THEN [s.desc[d] EXCEPT !.pos = p] ELSE s.desc[d]
    BY <1>5, <1>15, <1>24, <2>1
  <2> QED BY <2>1, <2>2
<1>27. DOMAIN z.desc = Fds
  BY <1>1, <1>15, <1>24 DEF Kernel
<1>28. Moves(s, z)
  BY <1>5, <1>25, <1>26, <1>27 DEF Moves
<1> QED BY <1>10, <1>14, <1>20, <1>28
-----------------------------------------------------------------------------
(***************************************************************************)
(* Switching standard output.                                              *)
(***************************************************************************)
SwitchFields == {"fds", "desc", "oupState", "origoup", "errflag", "printed"}

\* What it does to the other descriptors: one is saved, or closed again.
Outs(s, t) ==
    /\ Frame(s, t, SwitchFields) /\ Kernel(t)
    /\ \A n \in Fds \ ({1} \cup Saved(s) \cup Saved(t)) : t.fds[n] = s.fds[n]
    /\ \A n \in Fds \ {1} : s.fds[n] \in Fds => t.desc[s.fds[n]] = s.desc[s.fds[n]]
    /\ \/ Saved(t) \subseteq Saved(s)
       \/ Saved(t) \subseteq Fds \ ({0, 1, 2} \cup Extra(s)) /\ Saved(s) = {}
    /\ \A n \in Saved(t) : t.fds[n] # None
    /\ \A n \in Saved(s) \ Saved(t) : t.fds[n] = None
    /\ t.fds[1] = None => t.oupState = 3

\* The other descriptors are as they should be after that.
LEMMA OutsKeep ==
    ASSUME NEW s, NEW t, Wired(s), Outs(s, t)
    PROVE  Held(t) /\ Distinct(t) /\ ShellFile(t)
<1>1. Kernel(s) /\ Held(s) /\ Distinct(s) /\ ShellFile(s)
  BY DEF Wired
<1>2. t.inc = s.inc /\ t.originp = s.originp /\ t.ttyfdn = s.ttyfdn
  BY DEF Outs, Frame, IoFields, SwitchFields
<1>3. IncFds(t) = IncFds(s) /\ Tty(t) = Tty(s)
  BY <1>2 DEF IncFds, Tty
<1>4. /\ \A n \in {0, 2} \cup Extra(s) : n \in Fds \ {1} /\ s.fds[n] \in Fds
      /\ \A n \in Extra(s) : n \in Fds \ {0, 1, 2} /\ s.fds[n] \in Fds
      /\ 0 \in Fds /\ 1 \in Fds /\ 2 \in Fds /\ s.fds[2] \in Fds /\ s.fds[0] \in Fds
      /\ (s.originp # None => s.originp \in Extra(s)) /\ (s.ttyfdn # 2 => s.ttyfdn \in Extra(s))
  BY InUse
<1>5. DEFINE others == ({s.originp} \ {None}) \cup IncFds(s) \cup Tty(s)
<1>6. Extra(s) = others \cup Saved(s) /\ Extra(t) = others \cup Saved(t)
  BY <1>2, <1>3 DEF Extra
<1>7. others \cap Saved(s) = {} /\ others \cap Saved(t) = {}
  <2>1. others \cap Saved(s) = {}
    BY <1>1 DEF Distinct
  <2> HIDE DEF others
  <2> QED BY <1>6, <2>1 DEF Outs
<1>8. Saved(t) \subseteq Fds \ {0, 1, 2}
  BY <1>4, <1>6 DEF Outs
<1>9. ASSUME NEW n \in Fds \ {1}
      PROVE  t.fds[n] # None <=> n \in {0, 2} \cup Extra(t)
  <2>1. s.fds[n] # None <=> n \in {0, 2} \cup Extra(s)
    BY <1>1 DEF Held
  <2> HIDE DEF others
  <2>2. CASE n \in Saved(t)
    BY <2>2, <1>6 DEF Outs
  <2>3. CASE n \in Saved(s) \ Saved(t)
    BY <2>3, <1>4, <1>6, <1>7 DEF Outs
  <2>4. CASE n \notin Saved(s) \cup Saved(t)
    BY <2>1, <2>4, <1>6 DEF Outs
  <2> QED BY <2>2, <2>3, <2>4
<1>10. Held(t)
  <2>1. Extra(t) \subseteq Fds \ {0, 1, 2}
    <3> HIDE DEF others
    <3> QED BY <1>4, <1>6, <1>8
  <2> QED BY <1>9, <2>1 DEF Held, Outs
<1>11. Distinct(t)
  <2>1. s.originp # None => s.originp \notin Saved(t) \cup IncFds(s) \cup Tty(s)
    BY <1>1, <1>7 DEF Distinct
  <2>2. Saved(t) \cap (IncFds(s) \cup Tty(s)) = {}
    BY <1>7
  <2> QED BY <1>1, <1>2, <1>3, <2>1, <2>2 DEF Distinct
<1>12. ASSUME NEW n \in others \cup {0, 2} PROVE t.fds[n] = s.fds[n] /\ t.desc[s.fds[n]] = s.desc[s.fds[n]]
  <2> HIDE DEF others
  <2>1. n \in Fds \ {1} /\ s.fds[n] \in Fds
    BY <1>4, <1>6
  <2>2. n \notin Saved(s) \cup Saved(t)
    BY <1>4, <1>6, <1>7, <1>8
  <2> QED BY <2>1, <2>2 DEF Outs
<1>13. ShellFile(t)
  <2>1. (s.originp # None => s.originp \in others) /\ (s.ttyfdn # 2 => s.ttyfdn \in others)
    BY DEF Tty
  <2> HIDE DEF others
  <2>2. t.fds[0] = s.fds[0] /\ t.fds[2] = s.fds[2] /\ t.desc[s.fds[2]] = s.desc[s.fds[2]]
    BY <1>12
  <2>3. s.originp # None => t.fds[s.originp] = s.fds[s.originp]
    BY <1>12, <2>1
  <2>4. s.ttyfdn # 2 => t.fds[s.ttyfdn] = s.fds[s.ttyfdn]
                        /\ t.desc[s.fds[s.ttyfdn]] = s.desc[s.fds[s.ttyfdn]]
    BY <1>12, <2>1
  <2> QED BY <1>1, <1>2, <2>2, <2>3, <2>4 DEF ShellFile
<1> QED BY <1>10, <1>11, <1>13

\* The listing's name does not change.
LEMMA NameSame ==
    ASSUME NEW s, NEW t, Frame(s, t, SwitchFields)
    PROVE  ListName(t) = ListName(s) /\ t.outptr = s.outptr
<1>1. t.argv = s.argv /\ t.first = s.first /\ t.outptr = s.outptr /\ t.listing = s.listing
  BY DEF Frame, IoFields, SwitchFields
<1> QED BY <1>1 DEF ListName

\* Descriptor 1, closed while 0 is open, is the lowest free one.
LEMMA LowestOne ==
    ASSUME NEW s, s.fds[1] = None, s.fds[0] # None
    PROVE  Lowest(s) = 1
<1>1. \A k \in 0 .. 1 - 1 : k = 0
  OBVIOUS
<1>2. 1 \in Fds
  BY FdsAre
<1> QED BY <1>1, <1>2, LowestHere

\* swcoup, case by case: with the listing's file (opened), from state 0, 1 and 2.
Save1(s) == close([dup([s EXCEPT !.oupState = @ + 1], 1)
                      EXCEPT !.origoup = Lowest([s EXCEPT !.oupState = @ + 1])], 1)
Listing1(s, ok) == IF ok THEN [spit_open(Save1(s), ListName(s)) EXCEPT !.printed.list = <<>>]
                   ELSE [close(dup(Save1(s), Save1(s).origoup), Save1(s).origoup) EXCEPT !.errflag = TRUE]
Again1(s) == spit_open(close([s EXCEPT !.oupState = @ + 1], 1), ListName(s))
Listing3(s, ok) == IF ok THEN [Again1(s) EXCEPT !.desc[Again1(s).fds[1]].pos = Len(Again1(s).printed.list)]
                   ELSE close([s EXCEPT !.oupState = @ + 1], 1)

\* swcoup is one of them.
LEMMA SwcoupIs ==
    ASSUME NEW s, NEW ok
    PROVE  /\ NoSwitch(s) => swcoup(s, ok) = s
           /\ ~NoSwitch(s) /\ s.oupState = 0 => swcoup(s, ok) = Listing1(s, ok)
           /\ ~NoSwitch(s) /\ s.oupState = 1 => swcoup(s, ok) = swcoup1([s EXCEPT !.oupState = @ + 1])
           /\ ~NoSwitch(s) /\ s.oupState = 2 => swcoup(s, ok) = Listing3(s, ok)
<1>1. PICK t, a, b, c : /\ t = [s EXCEPT !.oupState = @ + 1] /\ a = Listing1(s, ok)
                        /\ b = swcoup1([s EXCEPT !.oupState = @ + 1]) /\ c = Listing3(s, ok)
  OBVIOUS
<1>2. swcoup(s, ok) = CASE NoSwitch(s) -> s
                        [] ~NoSwitch(s) /\ s.oupState = 0 -> a
                        [] ~NoSwitch(s) /\ s.oupState = 1 -> b
                        [] ~NoSwitch(s) /\ s.oupState = 2 -> c
                        [] OTHER -> t
  BY <1>1, Zenon DEF swcoup, Listing1, Listing3, Save1, Again1
<1> QED BY <1>1, <1>2

\* The listing begins: descriptor 1 is saved and opened anew, if it can be.
LEMMA ListingBegins ==
    ASSUME NEW s, NEW ok, Wired(s), ~NoSwitch(s), s.oupState = 0, "list" \in DOMAIN s.printed
    PROVE  /\ Wired(swcoup(s, ok)) /\ Frame(s, swcoup(s, ok), SwitchFields)
           /\ swcoup(s, ok).oupState = 1
           /\ \/ /\ swcoup(s, ok).errflag = s.errflag
                 /\ swcoup(s, ok).printed = [s.printed EXCEPT !.list = <<>>]
              \/ swcoup(s, ok).errflag /\ swcoup(s, ok).printed = s.printed
<1>1. Kernel(s) /\ Held(s) /\ Distinct(s) /\ ShellFile(s) /\ Listed(s)
  BY DEF Wired
<1>2. s.fds[1] = 1 /\ s.desc[1].file = Output
  BY <1>1 DEF Listed, HasOutput
<1>3. PICK m : m = Lowest(s)
  OBVIOUS
<1>4. /\ m \in Fds \ ({0, 1, 2} \cup Extra(s)) /\ s.fds[m] = None /\ m # None
      /\ 0 \in Fds /\ 1 \in Fds /\ s.fds[0] \in Fds /\ None \notin Fds
  <2>1. s.fds[1] # None
    BY <1>2 DEF None
  <2> QED BY <1>3, <2>1, OneFree, InUse, FdsAre
<1>5. PICK c : c = Save1(s)
  OBVIOUS
<1>6. /\ Frame(s, c, {"fds", "oupState", "origoup"}) /\ c.oupState = 1 /\ c.origoup = m
      /\ c.fds = [s.fds EXCEPT ![m] = 1, ![1] = None]
  <2>1. PICK t : t = [s EXCEPT !.oupState = @ + 1]
    OBVIOUS
  <2>2. Frame(s, t, {"oupState"}) /\ t.oupState = 1 /\ t.fds = s.fds
    BY <1>1, <2>1 DEF Kernel, Frame, IoFields
  <2>3. Lowest(t) = m
    BY <1>3, <2>2 DEF Lowest
  <2>4. PICK u : u = [t EXCEPT !.fds[m] = 1]
    OBVIOUS
  <2>5. dup(t, 1) = u
    BY <1>2, <2>2, <2>3, <2>4 DEF dup, None
  <2>6. PICK v : v = [u EXCEPT !.origoup = m]
    OBVIOUS
  <2>7. c = close(v, 1)
    BY <1>5, <2>1, <2>3, <2>5, <2>6 DEF Save1
  <2>8. c = [v EXCEPT !.fds[1] = None]
    BY <2>7 DEF close, None
  <2>9. /\ Frame(t, u, {"fds"}) /\ u.fds = [s.fds EXCEPT ![m] = 1]
    BY <2>2, <2>4 DEF Frame, IoFields
  <2>10. Frame(u, v, {"origoup"}) /\ v.origoup = m /\ v.fds = u.fds
    BY <2>6, <2>9 DEF Frame, IoFields
  <2>11. Frame(v, c, {"fds"}) /\ c.fds = [v.fds EXCEPT ![1] = None]
    BY <2>8, <2>10 DEF Frame, IoFields
  <2>12. Frame(s, c, {"fds", "oupState", "origoup"}) /\ c.oupState = 1 /\ c.origoup = m
    BY <2>2, <2>9, <2>10, <2>11 DEF Frame, IoFields
  <2> QED BY <2>9, <2>10, <2>11, <2>12
<1>7. /\ c.fds[1] = None /\ c.fds[m] = 1 /\ c.fds[0] = s.fds[0] /\ c.fds[0] # None
      /\ \A n \in Fds \ {1, m} : c.fds[n] = s.fds[n]
  BY <1>1, <1>4, <1>6 DEF Kernel
<1>8. Lowest(c) = 1
  BY <1>7, LowestOne
<1>9. c.desc = s.desc /\ c.errflag = s.errflag /\ c.printed = s.printed
  BY <1>6 DEF Frame, IoFields
<1>10. Kernel(c)
  BY <1>1, <1>4, <1>6, <1>9 DEF Kernel, Frame
<1>11. PICK name : name = ListName(s)
  OBVIOUS
<1>12. PICK t : t = swcoup(s, ok)
  OBVIOUS
<1>13. t = IF ok THEN [spit_open(c, name) EXCEPT !.printed.list = <<>>]
           ELSE [close(dup(c, c.origoup), c.origoup) EXCEPT !.errflag = TRUE]
  <2>1. t = Listing1(s, ok)
    BY <1>12, SwcoupIs
  <2> QED BY <1>5, <1>11, <2>1 DEF Listing1
<1>14. s.errflag = FALSE /\ Saved(s) = {}
  BY <1>1 DEF NoSwitch, Listed, Saved
<1>15. CASE ok
  <2>1. PICK d : d = FreeDesc(c)
    OBVIOUS
  <2>2. d \in Fds /\ \A k \in Fds : c.fds[k] # d
    BY <1>4, <1>7, <1>10, <2>1, FreeDescIs
  <2>3. PICK o : o = spit_open(c, name)
    OBVIOUS
  <2>4. o = [c EXCEPT !.fds[1] = d, !.desc[d] = [file |-> name, pos |-> 0]]
    BY <1>8, <2>1, <2>3 DEF spit_open
  <2>5. /\ Frame(c, o, {"fds", "desc"}) /\ o.fds = [c.fds EXCEPT ![1] = d]
        /\ o.desc = [s.desc EXCEPT ![d] = [file |-> name, pos |-> 0]]
    BY <1>9, <1>10, <2>4 DEF Kernel, Frame, IoFields
  <2>6. t = [o EXCEPT !.printed.list = <<>>]
    BY <1>13, <1>15, <2>3
  <2>7. Frame(o, t, {"printed"}) /\ t.printed = [o.printed EXCEPT !.list = <<>>]
    BY <2>5, <2>6 DEF Frame, IoFields
  <2>8. o.printed = s.printed
    BY <1>9, <2>5 DEF Frame, IoFields
  <2>9. /\ Frame(s, t, SwitchFields) /\ t.oupState = 1 /\ t.origoup = m /\ t.errflag = s.errflag
        /\ t.printed = [s.printed EXCEPT !.list = <<>>] /\ t.fds = o.fds /\ t.desc = o.desc
    BY <1>6, <1>9, <2>5, <2>7, <2>8 DEF Frame, IoFields, SwitchFields
  <2>10. /\ t.fds[1] = d /\ t.fds[m] = 1 /\ \A n \in Fds \ {1, m} : t.fds[n] = s.fds[n]
    BY <1>4, <1>7, <1>10, <2>5, <2>9 DEF Kernel
  <2>11. /\ DOMAIN t.desc = Fds /\ t.desc[d] = [file |-> name, pos |-> 0]
         /\ \A e \in Fds \ {d} : t.desc[e] = s.desc[e]
    <3>1. PICK x, h : x = [file |-> name, pos |-> 0] /\ h = s.desc
      OBVIOUS
    <3>2. t.desc = [h EXCEPT ![d] = x]
      BY <2>5, <2>9, <3>1
    <3>3. DOMAIN h = Fds /\ d \in Fds
      BY <1>1, <2>2, <3>1 DEF Kernel
    <3>4. DOMAIN t.desc = Fds /\ t.desc[d] = x /\ \A e \in Fds \ {d} : t.desc[e] = h[e]
      BY <3>2, <3>3
    <3>5. t.desc[d] = [file |-> name, pos |-> 0]
      BY <3>1, <3>4
    <3>6. \A e \in Fds \ {d} : t.desc[e] = s.desc[e]
      <4> SUFFICES ASSUME NEW e \in Fds \ {d} PROVE t.desc[e] = s.desc[e]
        OBVIOUS
      <4> QED BY <3>1, <3>4
    <3> QED BY <3>4, <3>5, <3>6
  <2>12. Kernel(t)
    <3>1. t.fds \in [Fds -> Fds \cup {None}]
      <4>1. t.fds = [c.fds EXCEPT ![1] = d]
        BY <2>5, <2>9
      <4>2. c.fds \in [Fds -> Fds \cup {None}] /\ d \in Fds
        BY <1>10, <2>2 DEF Kernel
      <4>3. PICK h : h = c.fds
        OBVIOUS
      <4> QED BY <4>1, <4>2, <4>3
    <3>2. DOMAIN t = IoFields
      BY <2>9 DEF Frame
    <3>3. \A e \in Fds : DOMAIN t.desc[e] = {"file", "pos"}
      BY <1>1, <2>11 DEF Kernel
    <3> QED BY <2>11, <3>1, <3>2, <3>3 DEF Kernel
  <2>13. Saved(t) = {m}
    BY <1>14, <2>9 DEF Saved
  <2>14. Outs(s, t)
    <3>1. \A n \in Fds \ {1} : s.fds[n] \in Fds => t.desc[s.fds[n]] = s.desc[s.fds[n]]
      BY <1>4, <1>7, <2>2, <2>11
    <3>2. t.fds[1] # None /\ t.fds[m] # None
      BY <1>4, <2>2, <2>10
    <3> QED BY <1>4, <1>14, <2>9, <2>10, <2>12, <2>13, <3>1, <3>2 DEF Outs
  <2>15. Listed(t)
    <3>1. ListName(t) = name /\ name # Output
      BY <1>1, <1>11, <2>9, NameSame DEF Listed
    <3>2. d # 1
      BY <1>4, <1>7, <2>2
    <3>3. t.printed.list = <<>> /\ Len(t.printed.list) = 0
      BY <2>9
    <3>4. HasOutput(t, m)
      BY <1>2, <1>4, <2>10, <2>11, <3>2 DEF HasOutput
    <3>5. \A n \in Fds \ {1} : t.fds[n] # d
      BY <1>4, <1>7, <2>2, <2>10
    <3>6. Alone(t)
      BY <2>2, <2>10, <2>11, <3>1, <3>3, <3>5 DEF Alone
    <3>7. ~NoSwitch(t)
      BY <1>11, <2>9, <3>1, NameSame DEF NoSwitch
    <3>8. t.errflag \in BOOLEAN
      BY <1>1, <2>9 DEF Listed
    <3> QED BY <2>9, <3>1, <3>4, <3>6, <3>7, <3>8 DEF Listed
  <2>16. Wired(t)
    BY <2>12, <2>14, <2>15, OutsKeep DEF Wired
  <2> QED BY <1>12, <2>9, <2>16
<1>16. CASE ~ok
  <2>1. PICK u : u = dup(c, c.origoup)
    OBVIOUS
  <2>2. Frame(c, u, {"fds"}) /\ u.fds = [c.fds EXCEPT ![1] = 1]
    <3>1. u = [c EXCEPT !.fds[1] = 1]
      BY <1>4, <1>6, <1>7, <1>8, <2>1 DEF dup
    <3> QED BY <1>10, <3>1 DEF Kernel, Frame, IoFields
  <2>3. PICK v : v = close(u, m)
    OBVIOUS
  <2>4. Frame(u, v, {"fds"}) /\ v.fds = [u.fds EXCEPT ![m] = None]
    <3>1. v = [u EXCEPT !.fds[m] = None]
      BY <1>4, <2>3 DEF close
    <3> QED BY <2>2, <3>1 DEF Frame, IoFields
  <2>5. t = [v EXCEPT !.errflag = TRUE]
    BY <1>6, <1>13, <1>16, <2>1, <2>3
  <2>6. Frame(v, t, {"errflag"}) /\ t.errflag = TRUE
    BY <2>4, <2>5 DEF Frame, IoFields
  <2>7. /\ Frame(s, t, SwitchFields) /\ t.oupState = 1 /\ t.printed = s.printed
        /\ t.desc = s.desc /\ t.fds = v.fds
    BY <1>6, <1>9, <2>2, <2>4, <2>6 DEF Frame, IoFields, SwitchFields
  <2>8. t.fds[1] = 1 /\ t.fds[m] = None /\ \A n \in Fds \ {1, m} : t.fds[n] = s.fds[n]
    BY <1>4, <1>7, <1>10, <2>2, <2>4, <2>7 DEF Kernel
  <2>9. Kernel(t)
    <3>1. t.fds \in [Fds -> Fds \cup {None}]
      BY <1>4, <1>10, <2>2, <2>4, <2>7 DEF Kernel
    <3> QED BY <1>1, <2>7, <3>1 DEF Kernel, Frame
  <2>10. Saved(t) = {}
    BY <2>6 DEF Saved
  <2>11. t.fds[1] # None
    BY <2>8 DEF None
  <2>12. Outs(s, t)
    <3>1. \A n \in Fds \ {1} : t.fds[n] = s.fds[n]
      BY <1>4, <2>8
    <3> QED BY <1>14, <2>7, <2>9, <2>10, <2>11, <3>1 DEF Outs
  <2>13. Listed(t)
    <3>1. ListName(t) = name /\ name # Output
      BY <1>1, <1>11, <2>7, NameSame DEF Listed
    <3>2. NoSwitch(t)
      BY <2>6 DEF NoSwitch
    <3>3. HasOutput(t, 1)
      BY <1>2, <1>4, <2>7, <2>8 DEF HasOutput
    <3>4. t.errflag \in BOOLEAN
      BY <2>6, Zenon
    <3> QED BY <2>7, <3>1, <3>2, <3>3, <3>4 DEF Listed
  <2>14. Wired(t)
    BY <2>9, <2>12, <2>13, OutsKeep DEF Wired
  <2> QED BY <1>12, <2>6, <2>7, <2>14
<1> QED BY <1>15, <1>16

\* It ends: descriptor 1 is the saved one again.
LEMMA ListingEnds ==
    ASSUME NEW s, NEW ok, Wired(s), ~NoSwitch(s), s.oupState = 1
    PROVE  /\ Wired(swcoup(s, ok)) /\ Frame(s, swcoup(s, ok), SwitchFields)
           /\ swcoup(s, ok).oupState = 2
           /\ swcoup(s, ok).errflag = s.errflag /\ swcoup(s, ok).printed = s.printed
<1>1. Kernel(s) /\ Held(s) /\ Distinct(s) /\ ShellFile(s) /\ Listed(s)
  BY DEF Wired
<1>2. PICK m : m = s.origoup
  OBVIOUS
<1>3. /\ m \in Extra(s) /\ m \in Fds \ {0, 1, 2} /\ m # None /\ 0 \in Fds /\ 1 \in Fds
      /\ s.fds[0] \in Fds /\ None \notin Fds
  BY <1>2, InUse, FdsAre
<1>4. s.fds[m] = 1 /\ s.desc[1].file = Output
  BY <1>1, <1>2 DEF Listed, HasOutput
<1>5. PICK t : t = [s EXCEPT !.oupState = @ + 1]
  OBVIOUS
<1>6. Frame(s, t, {"oupState"}) /\ t.oupState = 2 /\ t.fds = s.fds
  BY <1>1, <1>5 DEF Kernel, Frame, IoFields
<1>7. PICK u : u = [t EXCEPT !.fds[1] = None]
  OBVIOUS
<1>8. close(t, 1) = u /\ Frame(t, u, {"fds"}) /\ u.fds = [s.fds EXCEPT ![1] = None] /\ u.origoup = m
  <2>1. close(t, 1) = u
    BY <1>7 DEF close, None
  <2>2. Frame(t, u, {"fds"}) /\ u.fds = [t.fds EXCEPT ![1] = None]
    BY <1>6, <1>7 DEF Frame, IoFields
  <2>3. u.origoup = m
    BY <1>2, <1>6, <2>2 DEF Frame, IoFields
  <2> QED BY <1>6, <2>1, <2>2, <2>3
<1>9. u.fds[1] = None /\ u.fds[0] # None /\ u.fds[m] = 1
  BY <1>1, <1>3, <1>4, <1>8 DEF Kernel
<1>10. PICK v : v = [u EXCEPT !.fds[1] = 1]
  OBVIOUS
<1>11. dup(u, m) = v /\ Frame(u, v, {"fds"}) /\ v.fds = [u.fds EXCEPT ![1] = 1]
  <2>1. Lowest(u) = 1
    BY <1>9, LowestOne
  <2>2. dup(u, m) = v
    BY <1>3, <1>9, <1>10, <2>1 DEF dup
  <2> QED BY <1>8, <1>10, <2>2 DEF Frame, IoFields
<1>12. PICK w : w = swcoup(s, ok)
  OBVIOUS
<1>13. w = [v EXCEPT !.fds[m] = None]
  <2>1. w = swcoup1(t)
    BY <1>5, <1>12, SwcoupIs
  <2>2. t.origoup = m
    BY <1>2, <1>6 DEF Frame, IoFields
  <2>3. w = close(v, m)
    BY <1>8, <1>11, <2>1, <2>2 DEF swcoup1
  <2> QED BY <1>3, <2>3 DEF close
<1>14. Frame(v, w, {"fds"}) /\ w.fds = [v.fds EXCEPT ![m] = None]
  BY <1>11, <1>13 DEF Frame, IoFields
<1>15. /\ Frame(s, w, SwitchFields) /\ w.oupState = 2 /\ w.errflag = s.errflag
       /\ w.printed = s.printed /\ w.desc = s.desc
  BY <1>6, <1>8, <1>11, <1>14 DEF Frame, IoFields, SwitchFields
<1>16. w.fds[1] = 1 /\ w.fds[m] = None /\ \A n \in Fds \ {1, m} : w.fds[n] = s.fds[n]
  BY <1>1, <1>3, <1>8, <1>11, <1>14 DEF Kernel
<1>17. Kernel(w)
  <2>1. w.fds \in [Fds -> Fds \cup {None}]
    BY <1>1, <1>3, <1>8, <1>11, <1>14 DEF Kernel
  <2> QED BY <1>1, <1>15, <2>1 DEF Kernel, Frame
<1>18. Saved(w) = {} /\ Saved(s) = {m}
  BY <1>1, <1>2, <1>15 DEF Saved, NoSwitch, Listed
<1>19. w.fds[1] # None
  BY <1>16 DEF None
<1>20. Outs(s, w)
  BY <1>15, <1>16, <1>17, <1>18, <1>19 DEF Outs
<1>21. Listed(w)
  <2>1. ListName(w) = ListName(s) /\ ListName(s) # Output /\ s.errflag \in BOOLEAN
    BY <1>1, <1>15, NameSame DEF Listed
  <2>2. HasOutput(w, 1)
    BY <1>3, <1>4, <1>15, <1>16 DEF HasOutput
  <2> QED BY <1>15, <2>1, <2>2 DEF Listed
<1>22. Wired(w)
  BY <1>17, <1>20, <1>21, OutsKeep DEF Wired
<1> QED BY <1>12, <1>15, <1>22

\* It is opened again, at its end, if it can be.
LEMMA ListingAgain ==
    ASSUME NEW s, NEW ok, Wired(s), ~NoSwitch(s), s.oupState = 2
    PROVE  /\ Wired(swcoup(s, ok)) /\ Frame(s, swcoup(s, ok), SwitchFields)
           /\ swcoup(s, ok).oupState = 3
           /\ swcoup(s, ok).errflag = s.errflag /\ swcoup(s, ok).printed = s.printed
<1>1. Kernel(s) /\ Held(s) /\ Distinct(s) /\ ShellFile(s) /\ Listed(s)
  BY DEF Wired
<1>2. 0 \in Fds /\ 1 \in Fds /\ s.fds[0] \in Fds /\ None \notin Fds
  BY InUse, FdsAre
<1>3. PICK t : t = [s EXCEPT !.oupState = @ + 1]
  OBVIOUS
<1>4. Frame(s, t, {"oupState"}) /\ t.oupState = 3 /\ t.fds = s.fds
  BY <1>1, <1>3 DEF Kernel, Frame, IoFields
<1>5. PICK u : u = [t EXCEPT !.fds[1] = None]
  OBVIOUS
<1>6. close(t, 1) = u /\ Frame(t, u, {"fds"}) /\ u.fds = [s.fds EXCEPT ![1] = None]
  <2>1. close(t, 1) = u
    BY <1>5 DEF close, None
  <2>2. Frame(t, u, {"fds"}) /\ u.fds = [t.fds EXCEPT ![1] = None]
    BY <1>4, <1>5 DEF Frame, IoFields
  <2> QED BY <1>4, <2>1, <2>2
<1>7. u.fds[1] = None /\ u.fds[0] # None /\ \A n \in Fds \ {1} : u.fds[n] = s.fds[n]
  BY <1>1, <1>2, <1>6 DEF Kernel
<1>8. /\ Frame(s, u, SwitchFields) /\ u.oupState = 3 /\ u.errflag = s.errflag
      /\ u.printed = s.printed /\ u.desc = s.desc
  BY <1>4, <1>6 DEF Frame, IoFields, SwitchFields
<1>9. Kernel(u)
  <2>1. u.fds \in [Fds -> Fds \cup {None}]
    BY <1>1, <1>6 DEF Kernel
  <2> QED BY <1>1, <1>8, <2>1 DEF Kernel, Frame
<1>10. PICK name : name = ListName(s)
  OBVIOUS
<1>11. name # Output /\ s.errflag \in BOOLEAN /\ Saved(s) = {}
  BY <1>1, <1>10 DEF Listed, Saved
<1>12. PICK w : w = swcoup(s, ok)
  OBVIOUS
<1>13. w = Listing3(s, ok)
  BY <1>12, SwcoupIs
<1>14. CASE ok
  <2>1. PICK d : d = FreeDesc(u)
    OBVIOUS
  <2>2. d \in Fds /\ \A k \in Fds : u.fds[k] # d
    BY <1>2, <1>7, <1>9, <2>1, FreeDescIs
  <2>3. PICK o : o = spit_open(u, name)
    OBVIOUS
  <2>4. o = [u EXCEPT !.fds[1] = d, !.desc[d] = [file |-> name, pos |-> 0]]
    <3>1. Lowest(u) = 1
      BY <1>7, LowestOne
    <3> QED BY <2>1, <2>3, <3>1 DEF spit_open
  <2>5. /\ Frame(u, o, {"fds", "desc"}) /\ o.fds = [u.fds EXCEPT ![1] = d]
        /\ o.desc = [s.desc EXCEPT ![d] = [file |-> name, pos |-> 0]]
    BY <1>8, <1>9, <2>4 DEF Kernel, Frame, IoFields
  <2>6. PICK p : p = Len(o.printed.list)
    OBVIOUS
  <2>7. w = [o EXCEPT !.desc[o.fds[1]].pos = p]
    <3>1. Again1(s) = o
      BY <1>3, <1>6, <1>10, <2>3 DEF Again1
    <3> QED BY <1>13, <1>14, <2>6, <3>1 DEF Listing3
  <2>8. Frame(o, w, {"desc"}) /\ w.desc = [o.desc EXCEPT ![o.fds[1]].pos = p]
    BY <2>5, <2>7 DEF Frame, IoFields
  <2>9. o.fds[1] = d
    BY <1>2, <1>9, <2>5 DEF Kernel
  <2>10. /\ Frame(s, w, SwitchFields) /\ w.oupState = 3 /\ w.errflag = s.errflag
         /\ w.printed = s.printed /\ w.fds = o.fds /\ o.printed = s.printed
    BY <1>8, <2>5, <2>8 DEF Frame, IoFields, SwitchFields
  <2>11. w.fds[1] = d /\ \A n \in Fds \ {1} : w.fds[n] = s.fds[n]
    BY <1>7, <1>9, <2>5, <2>9, <2>10 DEF Kernel
  <2>12. /\ DOMAIN w.desc = Fds /\ w.desc[d] = [file |-> name, pos |-> p]
         /\ \A e \in Fds \ {d} : w.desc[e] = s.desc[e]
    <3>1. DOMAIN o.desc = Fds /\ o.desc[d] = [file |-> name, pos |-> 0]
          /\ \A e \in Fds \ {d} : o.desc[e] = s.desc[e]
      BY <1>1, <2>2, <2>5 DEF Kernel
    <3>2. w.desc = [o.desc EXCEPT ![d] = [o.desc[d] EXCEPT !.pos = p]]
      BY <2>8, <2>9
    <3>3. [[file |-> name, pos |-> 0] EXCEPT !.pos = p] = [file |-> name, pos |-> p]
      OBVIOUS
    <3>4. d \in Fds /\ [o.desc[d] EXCEPT !.pos = p] = [file |-> name, pos |-> p]
      BY <2>2, <3>1, <3>3
    <3>5. PICK x, h : x = [file |-> name, pos |-> p] /\ h = o.desc
      OBVIOUS
    <3>6. w.desc = [h EXCEPT ![d] = x] /\ DOMAIN h = Fds
      BY <3>1, <3>2, <3>4, <3>5
    <3>7. DOMAIN w.desc = Fds /\ w.desc[d] = x /\ \A e \in Fds \ {d} : w.desc[e] = h[e]
      BY <3>4, <3>6
    <3>8. w.desc[d] = [file |-> name, pos |-> p]
      BY <3>5, <3>7
    <3>9. \A e \in Fds \ {d} : w.desc[e] = s.desc[e]
      <4> SUFFICES ASSUME NEW e \in Fds \ {d} PROVE w.desc[e] = s.desc[e]
        OBVIOUS
      <4>1. w.desc[e] = h[e] /\ o.desc[e] = s.desc[e]
        BY <3>1, <3>7
      <4> QED BY <3>5, <4>1
    <3> QED BY <3>7, <3>8, <3>9
  <2>13. Kernel(w)
    <3>1. w.fds \in [Fds -> Fds \cup {None}]
      <4>1. w.fds = [u.fds EXCEPT ![1] = d]
        BY <2>5, <2>10
      <4>2. u.fds \in [Fds -> Fds \cup {None}] /\ d \in Fds
        BY <1>9, <2>2 DEF Kernel
      <4>3. PICK h : h = u.fds
        OBVIOUS
      <4> QED BY <4>1, <4>2, <4>3
    <3>2. \A e \in Fds : DOMAIN w.desc[e] = {"file", "pos"}
      BY <1>1, <2>12 DEF Kernel
    <3> QED BY <2>10, <2>12, <3>1, <3>2 DEF Kernel, Frame
  <2>14. Saved(w) = {}
    BY <2>10 DEF Saved
  <2>15. Outs(s, w)
    <3>1. \A n \in Fds \ {1} : s.fds[n] \in Fds => w.desc[s.fds[n]] = s.desc[s.fds[n]]
      BY <1>7, <2>2, <2>12
    <3> QED BY <1>11, <2>10, <2>11, <2>13, <2>14, <3>1 DEF Outs
  <2>16. Listed(w)
    <3>1. ListName(w) = name
      BY <1>10, <2>10, NameSame
    <3>2. Alone(w)
      <4>1. \A n \in Fds \ {1} : w.fds[n] # d
        BY <1>7, <2>2, <2>11
      <4>2. w.desc[d].file = name /\ w.desc[d].pos = p
        BY <2>12
      <4> QED BY <2>2, <2>6, <2>10, <2>11, <3>1, <4>1, <4>2 DEF Alone
    <3>3. ~NoSwitch(w)
      BY <1>10, <2>10, <3>1, NameSame DEF NoSwitch
    <3> QED BY <1>11, <2>10, <3>1, <3>2, <3>3 DEF Listed
  <2>17. Wired(w)
    BY <2>13, <2>15, <2>16, OutsKeep DEF Wired
  <2> QED BY <1>12, <2>10, <2>17
<1>15. CASE ~ok
  <2>1. w = u
    BY <1>3, <1>6, <1>13, <1>15 DEF Listing3
  <2>2. Saved(u) = {}
    BY <1>8 DEF Saved
  <2>3. Outs(s, u)
    BY <1>7, <1>8, <1>9, <1>11, <2>2 DEF Outs
  <2>4. Listed(u)
    <3>1. ListName(u) = name /\ u.outptr = s.outptr
      BY <1>8, <1>10, NameSame
    <3>2. ~NoSwitch(u)
      BY <1>8, <1>10, <3>1 DEF NoSwitch
    <3> QED BY <1>7, <1>8, <1>11, <3>1, <3>2 DEF Listed
  <2>5. Wired(u)
    BY <1>9, <2>3, <2>4, OutsKeep DEF Wired
  <2> QED BY <1>8, <1>12, <2>1, <2>5
<1> QED BY <1>14, <1>15
-----------------------------------------------------------------------------
(***************************************************************************)
(* What is written.                                                        *)
(***************************************************************************)
\* Standard output gets a line, in the shell's output or the listing, where it
\* is at the end.
LEMMA WriteKeeps ==
    ASSUME NEW s, NEW line, Wired(s), Prints(s.printed)
    PROVE  /\ Wired(zyspr(s, line)) /\ Frame(s, zyspr(s, line), {"desc", "printed"})
           /\ \/ zyspr(s, line).printed = s.printed
              \/ /\ zyspr(s, line).printed = [s.printed EXCEPT !.shell = Append(@, line)]
                 /\ NoSwitch(s) \/ s.oupState \in {0, 2}
              \/ /\ zyspr(s, line).printed = [s.printed EXCEPT !.list = Append(@, line)]
                 /\ ~NoSwitch(s) /\ s.oupState \in {1, 3}
<1>1. Kernel(s) /\ Held(s) /\ Distinct(s) /\ ShellFile(s) /\ Listed(s)
  BY DEF Wired
<1>2. PICK t : t = zyspr(s, line)
  OBVIOUS
<1>3. PICK p : p = s.printed
  OBVIOUS
<1>4. DOMAIN p = {"shell", "list", "terminal", "tty"} /\ p.list \in Seq(Words)
  BY <1>3 DEF Prints
<1>5. CASE s.fds[1] = None
  <2>1. t = s
    BY <1>2, <1>5 DEF zyspr
  <2>2. Frame(s, s, {"desc", "printed"})
    BY <1>1 DEF Kernel, Frame
  <2> QED BY <1>2, <2>1, <2>2
<1>6. CASE s.fds[1] # None /\ s.desc[s.fds[1]].file = Output
  <2>1. t = [s EXCEPT !.printed.shell = Append(@, line)]
    BY <1>2, <1>6 DEF zyspr, File
  <2>2. Frame(s, t, {"printed"}) /\ t.printed = [p EXCEPT !.shell = Append(@, line)]
    BY <1>1, <1>3, <2>1 DEF Kernel, Frame, IoFields
  <2>3. t.printed.list = p.list
    BY <1>4, <2>2
  <2>4. NoSwitch(s) \/ s.oupState \in {0, 2}
    BY <1>1, <1>6 DEF Listed, Alone
  <2>5. /\ t.fds = s.fds /\ t.desc = s.desc
        /\ t.inc = s.inc /\ t.originp = s.originp /\ t.ttyfdn = s.ttyfdn
        /\ t.oupState = s.oupState /\ t.errflag = s.errflag /\ t.origoup = s.origoup
    BY <2>2 DEF Frame, IoFields
  <2>6. Extra(t) = Extra(s) /\ Distinct(t)
    BY <1>1, <2>5, UsesSame
  <2>7. Kernel(t)
    BY <1>1, <2>2, <2>5 DEF Kernel, Frame
  <2>8. Held(t) /\ ShellFile(t)
    BY <1>1, <2>5, <2>6 DEF Held, ShellFile
  <2>9. Listed(t)
    <3>1. Frame(s, t, SwitchFields)
      BY <2>2 DEF Frame, SwitchFields
    <3>2. ListName(t) = ListName(s) /\ t.outptr = s.outptr
      BY <3>1, NameSame
    <3>3. NoSwitch(t) <=> NoSwitch(s)
      BY <2>5, <3>2 DEF NoSwitch
    <3>4. Alone(s) => Alone(t)
      BY <1>3, <2>3, <2>5, <3>2 DEF Alone
    <3> QED BY <1>1, <2>5, <3>2, <3>3, <3>4 DEF Listed, HasOutput
  <2>10. Frame(s, t, {"desc", "printed"})
    BY <2>2 DEF Frame
  <2> QED BY <1>2, <1>3, <2>2, <2>4, <2>6, <2>7, <2>8, <2>9, <2>10 DEF Wired
<1>7. CASE s.fds[1] # None /\ s.desc[s.fds[1]].file # Output
  <2>1. PICK d : d = s.fds[1]
    OBVIOUS
  <2>2. ~NoSwitch(s) /\ s.oupState \in {1, 3} /\ Alone(s)
    BY <1>1, <1>7 DEF Listed, HasOutput
  <2>3. d \in Fds /\ (\A n \in Fds \ {1} : s.fds[n] # d) /\ s.desc[d].pos = Len(p.list)
    BY <1>3, <2>1, <2>2 DEF Alone
  <2>4. PICK n \in Nat : n = Len(p.list)
    BY <1>4
  <2>5. t = [s EXCEPT !.desc[d].pos = n + 1,
                      !.printed.list = [i \in 1 .. (IF n + 1 > Len(@) THEN n + 1 ELSE Len(@)) |->
                                           IF i = n + 1 THEN line ELSE @[i]]]
    <3>1. Position(s, 1) = n /\ File(s, 1) # Output
      BY <1>7, <2>1, <2>3, <2>4 DEF Position, File
    <3> QED BY <1>2, <1>7, <2>1, <3>1 DEF zyspr
  <2>6. PICK q : q = [i \in 1 .. n + 1 |-> IF i = n + 1 THEN line ELSE p.list[i]]
    OBVIOUS
  <2>7. q = [i \in 1 .. (IF n + 1 > Len(p.list) THEN n + 1 ELSE Len(p.list)) |->
                                           IF i = n + 1 THEN line ELSE p.list[i]]
    BY <2>4, <2>6
  <2>8. /\ Frame(s, t, {"desc", "printed"}) /\ t.desc = [s.desc EXCEPT ![d].pos = n + 1]
        /\ t.printed = [p EXCEPT !.list = q]
    <3>1. PICK u : u = [s EXCEPT !.desc[d].pos = n + 1]
      OBVIOUS
    <3>2. Frame(s, u, {"desc"}) /\ u.desc = [s.desc EXCEPT ![d].pos = n + 1] /\ u.printed = p
      BY <1>1, <1>3, <3>1 DEF Kernel, Frame, IoFields
    <3>3. t = [u EXCEPT !.printed.list = q]
      BY <2>5, <2>7, <3>1, <3>2
    <3> QED BY <3>2, <3>3 DEF Frame, IoFields
  <2>9. q = Append(p.list, line) /\ Len(q) = n + 1
    BY <1>4, <2>4, <2>6
  <2>10. /\ t.fds = s.fds
         /\ t.inc = s.inc /\ t.originp = s.originp /\ t.ttyfdn = s.ttyfdn
         /\ t.oupState = s.oupState /\ t.errflag = s.errflag /\ t.origoup = s.origoup
    BY <2>8 DEF Frame, IoFields
  <2>11. Extra(t) = Extra(s) /\ Distinct(t)
    BY <1>1, <2>10, UsesSame
  <2>12. /\ DOMAIN t.desc = Fds
         /\ \A e \in Fds : DOMAIN t.desc[e] = {"file", "pos"} /\ t.desc[e].file = s.desc[e].file
         /\ t.desc[d].pos = n + 1
    <3>1. ASSUME NEW e \in Fds
          PROVE  /\ DOMAIN t.desc[e] = {"file", "pos"} /\ t.desc[e].file = s.desc[e].file
                 /\ e = d => t.desc[e].pos = n + 1
      <4>1. DOMAIN s.desc[e] = {"file", "pos"} /\ DOMAIN s.desc = Fds
        BY <1>1 DEF Kernel
      <4>2. t.desc[e] = IF e = d THEN [s.desc[e] EXCEPT !.pos = n + 1] ELSE s.desc[e]
        BY <2>3, <2>8, <4>1
      <4> QED BY <4>1, <4>2
    <3>2. DOMAIN t.desc = Fds
      BY <1>1, <2>8 DEF Kernel
    <3> QED BY <2>3, <3>1, <3>2
  <2>13. Kernel(t)
    BY <1>1, <2>8, <2>10, <2>12 DEF Kernel, Frame
  <2>14. Held(t)
    BY <1>1, <2>10, <2>11 DEF Held
  <2>15. ShellFile(t)
    <3>1. s.fds[2] \in Fds /\ (s.ttyfdn # 2 => s.fds[s.ttyfdn] \in Fds)
      BY InUse
    <3> QED BY <1>1, <2>10, <2>12, <3>1 DEF ShellFile
  <2>16. Listed(t)
    <3>1. Frame(s, t, SwitchFields)
      BY <2>8 DEF Frame, SwitchFields
    <3>2. ListName(t) = ListName(s) /\ t.outptr = s.outptr
      BY <3>1, NameSame
    <3>3. ~NoSwitch(t)
      BY <2>2, <2>10, <3>2 DEF NoSwitch
    <3>4. t.printed.list = q
      BY <1>4, <2>8
    <3>5. Alone(t)
      BY <2>1, <2>2, <2>3, <2>9, <2>10, <2>12, <3>2, <3>4 DEF Alone
    <3>6. s.oupState = 1 => HasOutput(t, t.origoup)
      <4>1. s.oupState = 1 => HasOutput(s, s.origoup)
        BY <1>1, <2>2 DEF Listed
      <4>2. 1 \in Fds
        BY FdsAre
      <4> QED BY <2>10, <2>12, <4>1, <4>2 DEF HasOutput
    <3> QED BY <1>1, <2>2, <2>10, <3>2, <3>3, <3>5, <3>6 DEF Listed
  <2> QED BY <1>2, <1>3, <2>2, <2>8, <2>9, <2>11, <2>13, <2>14, <2>15, <2>16 DEF Wired
<1> QED BY <1>5, <1>6, <1>7

\* The names of what the shell provides.
LEMMA NamesDiffer == Shell # Output /\ Keyboard # Output /\ NoName # Output /\ Hyphen # Output
<1>1. Shell.base = "stdin" /\ Output.base = "stdout" /\ Keyboard.base = "tty" /\ NoName.base = ""
      /\ Hyphen.base = "-"
  BY DEF Shell, Output, Keyboard, NoName, Hyphen, Name
<1> QED BY <1>1

\* TERMINAL gets one, on the terminal or in its file.
LEMMA SayKeeps ==
    ASSUME NEW s, NEW line, Wired(s), Prints(s.printed)
    PROVE  /\ Wired(zyspi(s, line)) /\ Frame(s, zyspi(s, line), {"printed"})
           /\ \/ zyspi(s, line).printed = [s.printed EXCEPT !.terminal = Append(@, line)]
              \/ zyspi(s, line).printed = [s.printed EXCEPT !.tty = Append(@, line)] /\ s.ttyfdn # 2
<1>1. Kernel(s) /\ Held(s) /\ Distinct(s) /\ ShellFile(s) /\ Listed(s)
  BY DEF Wired
<1>2. PICK t : t = zyspi(s, line)
  OBVIOUS
<1>3. PICK p : p = s.printed
  OBVIOUS
<1>4. DOMAIN p = {"shell", "list", "terminal", "tty"}
  BY <1>3 DEF Prints
<1>5. PICK f : f = File(s, s.ttyfdn)
  OBVIOUS
<1>6. (s.ttyfdn = 2 => f \in {Shell, Keyboard}) /\ (s.ttyfdn # 2 => f \notin {Shell, Keyboard, Output})
  BY <1>1, <1>5 DEF ShellFile, File
<1>7. PICK a, b, c : /\ a = [s EXCEPT !.printed.terminal = Append(@, line)]
                     /\ b = [s EXCEPT !.printed.shell = Append(@, line)]
                     /\ c = [s EXCEPT !.printed.tty = Append(@, line)]
  OBVIOUS
<1>8. t = CASE f \in {Shell, Keyboard} -> a [] f = Output -> b [] OTHER -> c
  BY <1>2, <1>5, <1>7, Zenon DEF zyspi
<1>9. t = a \/ (t = c /\ s.ttyfdn # 2)
  <2>1. CASE s.ttyfdn = 2
    <3>1. f \in {Shell, Keyboard} /\ f # Output
      BY <1>6, <2>1, NamesDiffer
    <3> QED BY <1>8, <3>1
  <2>2. CASE s.ttyfdn # 2
    <3>1. f \notin {Shell, Keyboard} /\ f # Output
      BY <1>6, <2>2
    <3> QED BY <1>8, <2>2, <3>1
  <2> QED BY <2>1, <2>2
<1>10. /\ Frame(s, t, {"printed"})
       /\ \/ t.printed = [p EXCEPT !.terminal = Append(@, line)]
          \/ t.printed = [p EXCEPT !.tty = Append(@, line)] /\ s.ttyfdn # 2
  BY <1>1, <1>3, <1>7, <1>9 DEF Kernel, Frame, IoFields
<1>11. t.printed.list = p.list
  BY <1>4, <1>10
<1>12. /\ t.fds = s.fds /\ t.desc = s.desc
       /\ t.inc = s.inc /\ t.originp = s.originp /\ t.ttyfdn = s.ttyfdn
       /\ t.oupState = s.oupState /\ t.errflag = s.errflag /\ t.origoup = s.origoup
  BY <1>10 DEF Frame, IoFields
<1>13. Extra(t) = Extra(s) /\ Distinct(t)
  BY <1>1, <1>12, UsesSame
<1>14. Kernel(t)
  BY <1>1, <1>10, <1>12 DEF Kernel, Frame
<1>15. Held(t) /\ ShellFile(t)
  BY <1>1, <1>12, <1>13 DEF Held, ShellFile
<1>16. Listed(t)
  <2>1. Frame(s, t, SwitchFields)
    BY <1>10 DEF Frame, SwitchFields
  <2>2. ListName(t) = ListName(s) /\ t.outptr = s.outptr
    BY <2>1, NameSame
  <2>3. NoSwitch(t) <=> NoSwitch(s)
    BY <1>12, <2>2 DEF NoSwitch
  <2>4. Alone(s) => Alone(t)
    BY <1>3, <1>11, <1>12, <2>2 DEF Alone
  <2> QED BY <1>1, <1>12, <2>2, <2>3, <2>4 DEF Listed, HasOutput
<1> QED BY <1>2, <1>3, <1>10, <1>13, <1>14, <1>15, <1>16 DEF Wired
-----------------------------------------------------------------------------
(***************************************************************************)
(* Reading a line, at whatever depth of files, and what it does to the     *)
(* counts.                                                                 *)
(***************************************************************************)
ReadFields == InputFields \cup {"first_record", "inpcnt", "provide_name"}

Reads(s, t) ==
    /\ Wired(t) /\ t.originp # None /\ t.fds[1] = s.fds[1] /\ Frame(s, t, ReadFields)
    /\ Counts(s) => Counts(t)

\* The counts are those of six fields.
LEMMA CountsSame ==
    ASSUME NEW s, NEW t, Counts(s), t.curfile = s.curfile, t.cmdcnt = s.cmdcnt, t.inpcnt = s.inpcnt,
           t.first = s.first, t.argv = s.argv, t.first_record = s.first_record
    PROVE  Counts(t)
  BY DEF Counts

\* Reads compose.
LEMMA ReadsOn ==
    ASSUME NEW s, NEW t, NEW u, Reads(s, t), Reads(t, u)
    PROVE  Reads(s, u)
<1>1. Frame(s, u, ReadFields)
  BY DEF Reads, Frame
<1> QED BY <1>1 DEF Reads

\* Moves within files are reads of that kind,
LEMMA ReadsMoves ==
    ASSUME NEW s, NEW t, Wired(s), s.originp # None, Moves(s, t)
    PROVE  Reads(s, t)
<1>1. Wired(t)
  BY WiredMoves
<1>2. /\ t.originp = s.originp /\ t.fds = s.fds
      /\ t.curfile = s.curfile /\ t.cmdcnt = s.cmdcnt /\ t.inpcnt = s.inpcnt
      /\ t.first = s.first /\ t.argv = s.argv /\ t.first_record = s.first_record
  BY DEF Moves, Frame, IoFields
<1>3. Frame(s, t, ReadFields)
  BY DEF Moves, Frame, ReadFields, InputFields
<1> QED BY <1>1, <1>2, <1>3, CountsSame DEF Reads

\* and so are switches to and from an include file.
LEMMA ReadsNested ==
    ASSUME NEW s, NEW t, Nested(s, t)
    PROVE  Reads(s, t)
<1>1. /\ t.curfile = s.curfile /\ t.cmdcnt = s.cmdcnt /\ t.inpcnt = s.inpcnt
      /\ t.first = s.first /\ t.argv = s.argv /\ t.first_record = s.first_record
  BY DEF Nested, Frame, IoFields, NestFields
<1>2. Frame(s, t, ReadFields)
  BY DEF Nested, Frame, ReadFields, InputFields, NestFields
<1> QED BY <1>1, <1>2, CountsSame DEF Reads, Nested

\* The next source file is counted.
LEMMA ReadsSwcinp ==
    ASSUME NEW s, Wired(s), s.fds[1] # None, swcinp(s).status \in {"ok", "eof"}
    PROVE  Reads(s, swcinp(s).io)
<1>1. PICK w : w = swcinp(s)
  OBVIOUS
<1>2. PICK t : t = w.io
  OBVIOUS
<1>3. Switched(s, t)
  BY <1>1, <1>2, SwcinpSwitches
<1>4. Counted(s, t) \/ (t.curfile = s.curfile /\ t.cmdcnt = s.cmdcnt)
  BY <1>1, <1>2, SwcinpSwitches
<1>5. /\ t.inpcnt = s.inpcnt /\ t.first = s.first /\ t.argv = s.argv
      /\ t.first_record = s.first_record
  BY <1>3 DEF Switched, Frame, IoFields, InputFields
<1>6. Frame(s, t, ReadFields)
  BY <1>3 DEF Switched, Frame, ReadFields
<1>7. ASSUME Counts(s) PROVE Counts(t)
  <2>1. CASE Counted(s, t)
    <3>1. s.curfile \in Nat \ {0} /\ {s.cmdcnt, s.inpcnt, s.first} \subseteq Int
      BY <1>7 DEF Counts
    <3>2. s.curfile < s.inpcnt /\ t.curfile = s.curfile + 1 /\ t.cmdcnt = s.cmdcnt + 1
      BY <2>1 DEF Counted
    <3>3. s.cmdcnt = s.first + s.curfile
      BY <1>7, <3>1, <3>2 DEF Counts
    <3>4. t.curfile \in Nat \ {0} /\ t.cmdcnt \in Int /\ t.cmdcnt = t.first + t.curfile
      BY <1>5, <3>1, <3>2, <3>3
    <3> QED BY <1>5, <1>7, <3>4 DEF Counts
  <2>2. CASE t.curfile = s.curfile /\ t.cmdcnt = s.cmdcnt
    BY <1>5, <1>7, <2>2, CountsSame
  <2> QED BY <1>4, <2>1, <2>2
<1> QED BY <1>1, <1>2, <1>3, <1>6, <1>7 DEF Reads, Switched

\* zysrd.
LineKinds == {"line", "eof", "again", "name"}

\* Whatever zysrd returns, it has only read, or ends the process.
LEMMA ZysrdReads ==
    ASSUME Wired(io), io.originp # None, io.fds[1] # None
    PROVE  /\ zysrd.kind \in LineKinds \cup {"can't open", "no END"}
           /\ Frame(io, zysrd.io, ReadFields)
           /\ zysrd.kind \in LineKinds => Reads(io, zysrd.io)
<1>1. PICK r : r = zysrd
  OBVIOUS
<1>2. Kernel(io) /\ DOMAIN io = IoFields /\ io.fds[0] # None
  BY InUse, FdsAre DEF Wired, Kernel
<1>3. CASE io.provide_name
  <2>1. PICK t : t = [io EXCEPT !.provide_name = FALSE]
    OBVIOUS
  <2>2. r = Result(t, "name", NoLine)
    BY <1>1, <1>3, <2>1 DEF zysrd
  <2>3. r.io = t /\ r.kind = "name"
    BY <2>2 DEF Result
  <2>4. Frame(io, t, {"provide_name"})
    BY <1>2, <2>1 DEF Frame, IoFields
  <2>5. Wired(t)
    <3>1. Frame(io, t, OtherFields)
      BY <2>4 DEF Frame, OtherFields
    <3> QED BY <3>1, WiredOthers
  <2>6. /\ t.originp = io.originp /\ t.fds = io.fds
        /\ t.curfile = io.curfile /\ t.cmdcnt = io.cmdcnt /\ t.inpcnt = io.inpcnt
        /\ t.first = io.first /\ t.argv = io.argv /\ t.first_record = io.first_record
    BY <2>4 DEF Frame, IoFields
  <2>7. Frame(io, t, ReadFields)
    BY <2>4 DEF Frame, ReadFields
  <2>8. Reads(io, t)
    BY <2>5, <2>6, <2>7, CountsSame DEF Reads
  <2> QED BY <1>1, <2>3, <2>7, <2>8 DEF LineKinds
<1>4. CASE ~io.provide_name
  <2>1. PICK o : o = osread(io)
    OBVIOUS
  <2>2. PICK s : s = o.io
    OBVIOUS
  <2>3. Reads(io, s) /\ Wired(s) /\ s.originp # None /\ s.fds[1] # None
    <3>1. Moves(io, s)
      BY <1>2, <2>1, <2>2, ReadMoves
    <3> QED BY <3>1, ReadsMoves DEF Reads
  <2>4. r = Turn(o)
    BY <1>1, <1>4, <2>1 DEF zysrd
  <2>5. CASE o.line # NoLine
    <3>1. r = Record(o)
      BY <2>4, <2>5 DEF Turn
    <3>2. PICK t : t = r.io
      OBVIOUS
    <3>3. CASE io.first_record /\ Kind(o.line) = "#!"
      <4>1. t = [s EXCEPT !.first_record = FALSE, !.inpcnt = 1,
                          !.cmdcnt = Len(io.argv) + 1 - io.inpcnt + 1]
            /\ r.kind = "again"
        BY <2>2, <3>1, <3>2, <3>3 DEF Record, Result
      <4>2. /\ Frame(s, t, {"first_record", "inpcnt", "cmdcnt"}) /\ t.first_record = FALSE
            /\ t.inpcnt = 1 /\ t.cmdcnt = Len(io.argv) + 1 - io.inpcnt + 1
        BY <2>3, <4>1 DEF Reads, Frame, IoFields
      <4>3. Wired(t)
        <5>1. Frame(s, t, OtherFields)
          BY <4>2 DEF Frame, OtherFields
        <5> QED BY <2>3, <5>1, WiredOthers
      <4>4. t.originp = s.originp /\ t.fds = s.fds /\ t.curfile = s.curfile /\ t.first = s.first
            /\ t.argv = s.argv
        BY <4>2 DEF Frame, IoFields
      <4>5. Frame(io, t, ReadFields)
        BY <2>3, <4>2 DEF Reads, Frame, ReadFields, InputFields
      <4>6. ASSUME Counts(io) PROVE Counts(t)
        <5>1. Counts(s)
          BY <2>3, <4>6 DEF Reads
        <5>2. s.first = io.first /\ s.argv = io.argv
          BY <2>3 DEF Reads, Frame, IoFields, ReadFields, InputFields
        <5>3. {io.cmdcnt, io.inpcnt, io.first} \subseteq Int /\ Len(io.argv) \in Nat
              /\ io.inpcnt = Len(io.argv) + 1 - io.first
          BY <3>3, <4>6 DEF Counts
        <5>4. t.cmdcnt = io.first + 1
          BY <4>2, <5>3
        <5>5. t.curfile \in Nat \ {0}
          BY <4>4, <5>1 DEF Counts
        <5>6. t.cmdcnt = t.first + t.curfile \/ (t.curfile > 1 /\ t.inpcnt = 1)
          BY <4>2, <4>4, <5>2, <5>3, <5>4, <5>5
        <5> QED BY <4>2, <4>4, <5>2, <5>3, <5>4, <5>5, <5>6 DEF Counts
      <4>7. Reads(io, t)
        BY <2>3, <4>3, <4>4, <4>5, <4>6 DEF Reads
      <4> QED BY <1>1, <3>2, <4>1, <4>5, <4>7 DEF LineKinds
    <3>4. CASE ~(io.first_record /\ Kind(o.line) = "#!")
      <4>1. t = [s EXCEPT !.first_record = FALSE] /\ r.kind = "line"
        BY <2>2, <3>1, <3>2, <3>4 DEF Record, Result
      <4>2. Frame(s, t, {"first_record"}) /\ t.first_record = FALSE
        BY <2>3, <4>1 DEF Reads, Frame, IoFields
      <4>3. Wired(t)
        <5>1. Frame(s, t, OtherFields)
          BY <4>2 DEF Frame, OtherFields
        <5> QED BY <2>3, <5>1, WiredOthers
      <4>4. /\ t.originp = s.originp /\ t.fds = s.fds
            /\ t.curfile = s.curfile /\ t.cmdcnt = s.cmdcnt /\ t.inpcnt = s.inpcnt
            /\ t.first = s.first /\ t.argv = s.argv
        BY <4>2 DEF Frame, IoFields
      <4>5. Frame(s, t, ReadFields)
        BY <4>2 DEF Frame, ReadFields
      <4>6. Counts(s) => Counts(t)
        BY <4>2, <4>4 DEF Counts
      <4>7. Reads(s, t)
        BY <2>3, <4>3, <4>4, <4>5, <4>6 DEF Reads
      <4>8. Reads(io, t)
        BY <2>3, <4>7, ReadsOn
      <4> QED BY <1>1, <3>2, <4>1, <4>8 DEF LineKinds, Reads
    <3> QED BY <3>3, <3>4
  <2>6. CASE o.line = NoLine /\ io.inc # <<>>
    <3>1. r.io = s /\ r.kind = "eof"
      BY <2>2, <2>4, <2>6 DEF Turn, Result
    <3> QED BY <1>1, <2>3, <3>1 DEF LineKinds, Reads
  <2>7. CASE o.line = NoLine /\ io.inc = <<>>
    <3>1. PICK w : w = swcinp(s)
      OBVIOUS
    <3>2. r = NextSource(w)
      BY <2>2, <2>4, <2>7, <3>1 DEF Turn
    <3>3. w.status \in {"ok", "eof", "can't open", "no END"} /\ Frame(s, w.io, InputFields)
      BY <2>3, <3>1, SwcinpSwitches
    <3>4. PICK k : k = CASE w.status # "ok" -> w.status
                         [] w.status = "ok" /\ io.executing -> "again"
                         [] OTHER -> "name"
      OBVIOUS
    <3>5. r = Result(w.io, k, NoLine)
      BY <3>2, <3>4, Zenon DEF NextSource
    <3>6. r.io = w.io /\ r.kind = k
      BY <3>5 DEF Result
    <3>7. /\ k \in LineKinds \cup {"can't open", "no END"}
          /\ k \in LineKinds => w.status \in {"ok", "eof"}
      BY <3>3, <3>4 DEF LineKinds
    <3>8. Frame(io, w.io, ReadFields)
      BY <2>3, <3>3 DEF Reads, Frame, ReadFields
    <3>9. w.status \in {"ok", "eof"} => Reads(io, w.io)
      BY <2>3, <3>1, ReadsSwcinp, ReadsOn
    <3> QED BY <1>1, <3>6, <3>7, <3>8, <3>9
  <2> QED BY <2>5, <2>6, <2>7
<1> QED BY <1>3, <1>4
-----------------------------------------------------------------------------
(***************************************************************************)
(* The compiler.                                                           *)
(***************************************************************************)
\* Where readr can lead it.
Leads(a, b) ==
    /\ a \in {"stgic", "stgce"} => b \in {"stgic", "stgce", "begin"}
    /\ a \in {"stgxc", "stgxe"} => b \in {"stgxc", "stgxe", "stgxt"}
AtCompiler == {"stgic", "stgce", "stgxc", "stgxe"}

\* After an error the compiler goes on, or CODE fails.
LEMMA ErrorLeads ==
    ASSUME NEW c, DOMAIN c = CompFields
    PROVE  /\ DOMAIN Error(c) = CompFields
           /\ Error(c).stage = IF c.stage = "stgic" THEN "stgic" ELSE "stgxt"
  BY DEF Error, CompFields

\* At the end of its text the compilation ends, or CODE returns.
LEMMA ThroughLeads ==
    ASSUME NEW c, DOMAIN c = CompFields
    PROVE  /\ DOMAIN Through(c) = CompFields
           /\ Through(c).stage = IF c.stage \in {"stgic", "stgce"} THEN "begin" ELSE "stgxt"
  BY DEF Through, CompFields

\* -INCLUDE, found or not.
LEMMA IncludeLeads ==
    ASSUME NEW s, NEW c, NEW f, Wired(s), s.originp # None, s.fds[1] # None, DOMAIN c = CompFields
    PROVE  /\ Nested(s, Include(s, c, f).io) /\ DOMAIN Include(s, c, f).comp = CompFields
           /\ \/ Include(s, c, f).comp.stage = c.stage
              \/ Include(s, c, f).comp.stage = IF c.stage = "stgic" THEN "stgic" ELSE "stgxt"
<1>1. PICK deeper : deeper = [c EXCEPT !.cnind = @ + 1, !.included = @ \cup {f}]
  OBVIOUS
<1>2. PICK z : z = zysif(s, f)
  OBVIOUS
<1>3. PICK i : i = Include(s, c, f)
  OBVIOUS
<1>4. i = IF f \in c.included THEN [io |-> s, comp |-> c]
          ELSE IF deeper.cnind > Depth THEN [io |-> s, comp |-> Error(deeper)]
          ELSE [io |-> z.io, comp |-> IF z.found THEN deeper ELSE Error(deeper)]
  BY <1>1, <1>2, <1>3, Zenon DEF Include
<1>5. DOMAIN deeper = CompFields /\ deeper.stage = c.stage
  BY <1>1 DEF CompFields
<1>6. /\ DOMAIN Error(deeper) = CompFields
      /\ Error(deeper).stage = IF c.stage = "stgic" THEN "stgic" ELSE "stgxt"
  BY <1>5, ErrorLeads
<1>7. Nested(s, s)
  <2>1. Frame(s, s, NestFields)
    BY DEF Wired, Kernel, Frame
  <2> QED BY <2>1 DEF Nested
<1>8. Nested(s, z.io)
  BY <1>2, IncludeSwitches
<1>9. i.io = s \/ i.io = z.io
  BY <1>4
<1>10. i.comp = c \/ i.comp = deeper \/ i.comp = Error(deeper)
  BY <1>4
<1> QED BY <1>3, <1>5, <1>6, <1>7, <1>8, <1>9, <1>10

\* A line at the compiler.
LEMMA CompileLeads ==
    ASSUME NEW s, NEW line, Wired(s), s.originp # None, s.fds[1] # None, DOMAIN comp = CompFields,
           comp.stage \in AtCompiler
    PROVE  /\ Nested(s, Compile(s, line).io) /\ DOMAIN Compile(s, line).comp = CompFields
           /\ Leads(comp.stage, Compile(s, line).comp.stage)
<1>1. PICK r : r = Compile(s, line)
  OBVIOUS
<1>2. PICK i : i = Include(s, comp, Included(line))
  OBVIOUS
<1>3. PICK e : e = IF comp.cnind = 0 THEN Through(comp)
                   ELSE [comp EXCEPT !.stage = IF @ = "stgic" THEN "stgce" ELSE "stgxe"]
  OBVIOUS
<1>4. r = CASE comp.stage \in {"stgce", "stgxe"} -> [io |-> s, comp |-> Through(comp)]
            [] comp.stage \in {"stgic", "stgxc"} /\ Kind(line) = "end" -> [io |-> s, comp |-> e]
            [] comp.stage \in {"stgic", "stgxc"} /\ Kind(line) = "bad" -> [io |-> s, comp |-> Error(comp)]
            [] comp.stage \in {"stgic", "stgxc"} /\ Kind(line) = "include" -> i
            [] OTHER -> [io |-> s, comp |-> comp]
  BY <1>1, <1>2, <1>3, Zenon DEF Compile
<1>5. /\ DOMAIN Through(comp) = CompFields
      /\ Through(comp).stage = IF comp.stage \in {"stgic", "stgce"} THEN "begin" ELSE "stgxt"
  BY ThroughLeads
<1>6. /\ DOMAIN Error(comp) = CompFields
      /\ Error(comp).stage = IF comp.stage = "stgic" THEN "stgic" ELSE "stgxt"
  BY ErrorLeads
<1>7. /\ Nested(s, i.io) /\ DOMAIN i.comp = CompFields
      /\ i.comp.stage = comp.stage \/ i.comp.stage = IF comp.stage = "stgic" THEN "stgic" ELSE "stgxt"
  BY <1>2, IncludeLeads
<1>8. Nested(s, s)
  <2>1. Frame(s, s, NestFields)
    BY DEF Wired, Kernel, Frame
  <2> QED BY <2>1 DEF Nested
<1>9. CASE comp.stage \in {"stgce", "stgxe"}
  <2>1. r = [io |-> s, comp |-> Through(comp)]
    BY <1>4, <1>9
  <2> QED BY <1>1, <1>5, <1>8, <1>9, <2>1 DEF Leads
<1>10. CASE comp.stage \in {"stgic", "stgxc"} /\ Kind(line) = "end"
  <2>1. r = [io |-> s, comp |-> e]
    BY <1>4, <1>10
  <2>2. DOMAIN e = CompFields /\ Leads(comp.stage, e.stage)
    <3>1. CASE comp.cnind = 0
      BY <1>3, <1>5, <1>10, <3>1 DEF Leads
    <3>2. CASE comp.cnind # 0
      BY <1>3, <1>10, <3>2 DEF Leads, CompFields
    <3> QED BY <3>1, <3>2
  <2> QED BY <1>1, <1>8, <2>1, <2>2
<1>11. CASE comp.stage \in {"stgic", "stgxc"} /\ Kind(line) = "bad"
  <2>1. r = [io |-> s, comp |-> Error(comp)]
    BY <1>4, <1>11
  <2> QED BY <1>1, <1>6, <1>8, <1>11, <2>1 DEF Leads
<1>12. CASE comp.stage \in {"stgic", "stgxc"} /\ Kind(line) = "include"
  <2>1. r = i
    BY <1>4, <1>12
  <2> QED BY <1>1, <1>7, <1>12, <2>1 DEF Leads
<1>13. CASE comp.stage \in {"stgic", "stgxc"} /\ Kind(line) \notin {"end", "bad", "include"}
  <2>1. r = [io |-> s, comp |-> comp]
    BY <1>4, <1>13
  <2> QED BY <1>1, <1>8, <1>13, <2>1 DEF Leads
<1> QED BY <1>9, <1>10, <1>11, <1>12, <1>13 DEF AtCompiler

\* End of file at the compiler.
LEMMA EndOfFileLeads ==
    ASSUME NEW s, Wired(s), s.originp # None, DOMAIN comp = CompFields, comp.stage \in AtCompiler
    PROVE  /\ Nested(s, EndOfFile(s).io) /\ DOMAIN EndOfFile(s).comp = CompFields
           /\ Leads(comp.stage, EndOfFile(s).comp.stage)
<1>1. PICK r : r = EndOfFile(s)
  OBVIOUS
<1>2. PICK up, down : up = [comp EXCEPT !.cnind = @ - 1] /\ down = [comp EXCEPT !.errors = TRUE]
  OBVIOUS
<1>3. r = IF comp.cnind = 0 THEN [io |-> s, comp |-> Through(down)]
          ELSE [io |-> zysifEnd(s),
                comp |-> IF up.cnind = 0 /\ up.stage # "stgic" THEN Through(up) ELSE up]
  BY <1>1, <1>2, Zenon DEF EndOfFile
<1>4. DOMAIN up = CompFields /\ up.stage = comp.stage /\ DOMAIN down = CompFields /\ down.stage = comp.stage
  BY <1>2 DEF CompFields
<1>5. /\ DOMAIN Through(up) = CompFields /\ DOMAIN Through(down) = CompFields
      /\ Through(up).stage = IF comp.stage \in {"stgic", "stgce"} THEN "begin" ELSE "stgxt"
      /\ Through(down).stage = IF comp.stage \in {"stgic", "stgce"} THEN "begin" ELSE "stgxt"
  BY <1>4, ThroughLeads
<1>6. r.io = s \/ r.io = zysifEnd(s)
  BY <1>3
<1>7. Nested(s, s) /\ Nested(s, zysifEnd(s))
  <2>1. Frame(s, s, NestFields)
    BY DEF Wired, Kernel, Frame
  <2> QED BY <2>1, IncludeEndSwitches DEF Nested
<1>8. r.comp = Through(down) \/ r.comp = Through(up) \/ r.comp = up
  BY <1>3
<1> QED BY <1>1, <1>4, <1>5, <1>6, <1>7, <1>8 DEF Leads, AtCompiler

\* A line, an end of file or an error at the compiler.
LEMMA CompiledLeads ==
    ASSUME NEW r, DOMAIN comp = CompFields, comp.stage \in AtCompiler, io.fds[1] # None,
           r.kind \in LineKinds \cup {"can't open", "no END"}, Frame(io, r.io, ReadFields),
           r.kind \in LineKinds => Reads(io, r.io)
    PROVE  /\ DOMAIN Compiled(r).comp = CompFields /\ Frame(io, Compiled(r).io, ReadFields)
           /\ \/ Compiled(r).comp.stage \in Ended
              \/ Leads(comp.stage, Compiled(r).comp.stage) /\ Reads(io, Compiled(r).io)
<1>1. PICK b, a, c : /\ b = Compiled(r) /\ a = Compile(r.io, r.line) /\ c = EndOfFile(r.io)
  OBVIOUS
<1>2. b = CASE r.kind = "line" -> a
            [] r.kind = "eof" -> c
            [] r.kind \in {"name", "again"} -> [io |-> r.io, comp |-> comp]
            [] OTHER -> [io |-> r.io, comp |-> [comp EXCEPT !.stage = r.kind]]
  BY <1>1, Zenon DEF Compiled
<1>3. CASE r.kind \in LineKinds
  <2>1. PICK s : s = r.io
    OBVIOUS
  <2>2. Reads(io, s) /\ Wired(s) /\ s.originp # None /\ s.fds[1] # None
    BY <1>3, <2>1 DEF Reads
  <2>3. ASSUME NEW d, Nested(s, d.io), DOMAIN d.comp = CompFields, Leads(comp.stage, d.comp.stage), b = d
        PROVE  /\ DOMAIN b.comp = CompFields /\ Frame(io, b.io, ReadFields)
               /\ Leads(comp.stage, b.comp.stage) /\ Reads(io, b.io)
    BY <2>2, <2>3, ReadsNested, ReadsOn DEF Reads
  <2>4. CASE r.kind = "line"
    <3>1. Nested(s, a.io) /\ DOMAIN a.comp = CompFields /\ Leads(comp.stage, a.comp.stage)
      BY <1>1, <2>1, <2>2, CompileLeads
    <3>2. b = a
      BY <1>2, <2>4
    <3> QED BY <1>1, <2>3, <3>1, <3>2
  <2>5. CASE r.kind = "eof"
    <3>1. Nested(s, c.io) /\ DOMAIN c.comp = CompFields /\ Leads(comp.stage, c.comp.stage)
      BY <1>1, <2>1, <2>2, EndOfFileLeads
    <3>2. b = c
      BY <1>2, <2>5
    <3> QED BY <1>1, <2>3, <3>1, <3>2
  <2>6. CASE r.kind \in {"name", "again"}
    <3>1. b = [io |-> s, comp |-> comp]
      BY <1>2, <2>1, <2>6
    <3>2. Leads(comp.stage, comp.stage)
      BY DEF Leads, AtCompiler
    <3>3. b.comp = comp /\ b.io = s
      BY <3>1
    <3>4. Frame(io, s, ReadFields)
      BY <2>2 DEF Reads
    <3> QED BY <1>1, <2>2, <3>2, <3>3, <3>4
  <2> QED BY <1>3, <2>4, <2>5, <2>6 DEF LineKinds
<1>4. CASE r.kind \in {"can't open", "no END"}
  <2>1. b = [io |-> r.io, comp |-> [comp EXCEPT !.stage = r.kind]]
    BY <1>2, <1>4
  <2>2. DOMAIN b.comp = CompFields /\ b.comp.stage = r.kind /\ b.io = r.io
    BY <2>1 DEF CompFields
  <2> QED BY <1>1, <1>4, <2>2 DEF Ended
<1> QED BY <1>3, <1>4
-----------------------------------------------------------------------------
(***************************************************************************)
(* The actions.                                                            *)
(***************************************************************************)
LEMMA FrameSame ==
    ASSUME NEW s, NEW t, Frame(s, t, ReadFields \cup {"executing"})
    PROVE  /\ ListName(t) = ListName(s) /\ (NoSwitch(t) <=> NoSwitch(s)) /\ t.oupState = s.oupState
           /\ t.printed = s.printed /\ t.ttyfdn = s.ttyfdn /\ t.errflag = s.errflag
<1>1. Frame(s, t, IoFields \ OutputFields)
  BY DEF Frame, IoFields, OutputFields, ReadFields, InputFields
<1>2. /\ ListName(t) = ListName(s) /\ t.errflag = s.errflag /\ t.outptr = s.outptr
      /\ t.oupState = s.oupState /\ t.printed = s.printed
  BY <1>1, ListNameSame
<1>3. t.ttyfdn = s.ttyfdn
  BY DEF Frame, IoFields, ReadFields, InputFields
<1> QED BY <1>2, <1>3 DEF NoSwitch

\* Descriptor 1 is open until the statistics.
LEMMA OneOpen ==
    ASSUME NEW s, NEW stage, Good(s, stage), stage # "after"
    PROVE  s.fds[1] # None
<1>1. NoSwitch(s) \/ s.oupState \in {0, 1, 2}
  BY DEF Good, Staged, BeforeMain, Reading, Running
<1>2. CASE NoSwitch(s)
  BY <1>2, FdsAre DEF Good, Wired, Listed, HasOutput
<1>3. CASE s.oupState \in {0, 1, 2}
  BY <1>3 DEF Good, Wired, Held
<1> QED BY <1>1, <1>2, <1>3

\* What has been printed stays right as long as nothing is.
LEMMA PrintedKeeps ==
    ASSUME NEW s, NEW t, NEW a, NEW b, Printed(s, a), a \notin {"main", "after"}, b # "main",
           t.printed = s.printed, NoSwitch(t) <=> NoSwitch(s), t.ttyfdn = s.ttyfdn
    PROVE  Printed(t, b)
  BY DEF Printed, Separate

\* A step that reads keeps the invariant.
LEMMA ReadingKeeps ==
    ASSUME NEW s, NEW t, NEW c, NEW d, Holds(s, c), Frame(s, t, ReadFields), DOMAIN d = CompFields,
           c.stage \in Reading \cup Running,
           \/ d.stage \in Ended
           \/ Reads(s, t) /\ \/ c.stage \in Reading /\ d.stage \in Reading
                             \/ c.stage \in Running /\ d.stage \in Running
    PROVE  Holds(t, d)
<1>1. Good(s, c.stage) /\ Printed(s, c.stage)
  BY DEF Holds, Reading, Running, Ended
<1>2. /\ NoSwitch(t) <=> NoSwitch(s)
      /\ t.oupState = s.oupState /\ t.printed = s.printed /\ t.ttyfdn = s.ttyfdn
      /\ t.executing = s.executing
  <2>1. Frame(s, t, ReadFields \cup {"executing"}) /\ t.executing = s.executing
    BY DEF Frame, IoFields, ReadFields, InputFields
  <2> QED BY <2>1, FrameSame
<1>3. Printed(t, d.stage)
  <2>1. c.stage \notin {"main", "after"} /\ d.stage # "main"
    BY DEF Reading, Running, Ended
  <2> QED BY <1>1, <1>2, <2>1, PrintedKeeps
<1>4. ASSUME d.stage \notin Ended PROVE Good(t, d.stage)
  <2>1. Reads(s, t)
    BY <1>4
  <2>2. Staged(s, c.stage)
    BY <1>1 DEF Good
  <2>3. CASE c.stage \in Reading /\ d.stage \in Reading
    <3>1. d.stage \notin {"main", "after"} \cup Running
      BY <2>3 DEF Reading, Running
    <3> QED BY <1>2, <2>1, <2>2, <2>3, <3>1 DEF Good, Staged, Reads
  <2>4. CASE c.stage \in Running /\ d.stage \in Running
    <3>1. d.stage \notin {"main", "after"} \cup Reading
      BY <2>4 DEF Reading, Running
    <3> QED BY <1>2, <2>1, <2>2, <2>4, <3>1 DEF Good, Staged, Reads
  <2> QED BY <1>4, <2>3, <2>4
<1> QED BY <1>3, <1>4 DEF Holds

\* The compiler reads,
LEMMA ReadrKeeps == ASSUME Inv, Readr PROVE Inv'
<1>1. Holds(io, comp) /\ comp.stage \in AtCompiler
  BY DEF Inv, Readr, AtCompiler
<1>2. Good(io, comp.stage) /\ io.originp # None /\ Wired(io) /\ io.fds[1] # None /\ DOMAIN comp = CompFields
  <2>1. Good(io, comp.stage) /\ comp.stage # "after" /\ comp.stage # "main"
    BY <1>1 DEF Holds, AtCompiler, Ended
  <2> QED BY <1>1, <2>1, OneOpen DEF Good, Staged, Holds
<1>3. PICK r : r = zysrd
  OBVIOUS
<1>4. io' = Compiled(r).io /\ comp' = Compiled(r).comp
  BY <1>3 DEF Readr
<1>5. /\ r.kind \in LineKinds \cup {"can't open", "no END"}
      /\ Frame(io, r.io, ReadFields)
      /\ r.kind \in LineKinds => Reads(io, r.io)
  BY <1>2, <1>3, ZysrdReads
<1>6. PICK b : b = Compiled(r)
  OBVIOUS
<1>7. /\ DOMAIN b.comp = CompFields /\ Frame(io, b.io, ReadFields)
      /\ \/ b.comp.stage \in Ended
         \/ Leads(comp.stage, b.comp.stage) /\ Reads(io, b.io)
  BY <1>1, <1>2, <1>5, <1>6, CompiledLeads
<1>8. Holds(b.io, b.comp)
  <2>1. comp.stage \in Reading \cup Running
    BY <1>1 DEF AtCompiler, Reading, Running
  <2>2. Leads(comp.stage, b.comp.stage) => \/ comp.stage \in Reading /\ b.comp.stage \in Reading
                                           \/ comp.stage \in Running /\ b.comp.stage \in Running
    BY <1>1 DEF AtCompiler, Leads, Reading, Running
  <2> QED BY <1>1, <1>7, <2>1, <2>2, ReadingKeeps
<1> QED BY <1>4, <1>6, <1>8 DEF Inv

\* the program reads,
LEMMA InputKeeps == ASSUME Inv, Input PROVE Inv'
<1>1. Holds(io, comp) /\ comp.stage \in {"stgxt", "input"}
  BY DEF Inv, Input
<1>2. io.originp # None /\ Wired(io) /\ io.fds[1] # None /\ DOMAIN comp = CompFields
  <2>1. Good(io, comp.stage) /\ comp.stage # "after" /\ comp.stage # "main"
    BY <1>1 DEF Holds, Ended
  <2> QED BY <1>1, <2>1, OneOpen DEF Good, Staged, Holds
<1>3. PICK r : r = zysrd
  OBVIOUS
<1>4. io' = r.io /\ comp' = [comp EXCEPT !.stage = CASE r.kind = "again" -> "input"
                                            [] r.kind \in {"line", "eof", "name"} -> "stgxt"
                                            [] OTHER -> r.kind]
  BY <1>3 DEF Input
<1>5. /\ r.kind \in LineKinds \cup {"can't open", "no END"}
      /\ Frame(io, r.io, ReadFields)
      /\ r.kind \in LineKinds => Reads(io, r.io)
  BY <1>2, <1>3, ZysrdReads
<1>6. DOMAIN comp' = CompFields /\ \/ comp'.stage \in {"input", "stgxt"} /\ r.kind \in LineKinds
                                   \/ comp'.stage \in {"can't open", "no END"}
  BY <1>2, <1>4, <1>5 DEF CompFields, LineKinds
<1>7. PICK d, t : d = comp' /\ t = io'
  OBVIOUS
<1>8. Holds(t, d)
  <2>1. comp.stage \in Running
    BY <1>1 DEF Running
  <2>2. \/ d.stage \in Ended
        \/ Reads(io, t) /\ d.stage \in Running
    BY <1>4, <1>5, <1>6, <1>7 DEF Running, Ended
  <2>3. Frame(io, t, ReadFields) /\ DOMAIN d = CompFields
    BY <1>4, <1>5, <1>6, <1>7
  <2> QED BY <1>1, <2>1, <2>2, <2>3, ReadingKeeps
<1> QED BY <1>7, <1>8 DEF Inv

\* CODE includes a file,
LEMMA CodeKeeps == ASSUME Inv, NEW f, Code(f) PROVE Inv'
<1>1. Holds(io, comp) /\ comp.stage = "stgxt"
  BY DEF Inv, Code
<1>2. io.originp # None /\ Wired(io) /\ io.fds[1] # None /\ DOMAIN comp = CompFields
  <2>1. Good(io, comp.stage) /\ comp.stage # "after" /\ comp.stage # "main"
    BY <1>1 DEF Holds, Ended
  <2> QED BY <1>1, <2>1, OneOpen DEF Good, Staged, Holds
<1>3. PICK c : c = [comp EXCEPT !.stage = "stgxc", !.calls = @ + 1]
  OBVIOUS
<1>4. PICK i : i = Include(io, c, f)
  OBVIOUS
<1>5. io' = i.io /\ comp' = IF i.comp.cnind = 0 THEN [i.comp EXCEPT !.stage = "stgxt"] ELSE i.comp
  BY <1>3, <1>4 DEF Code
<1>6. DOMAIN c = CompFields /\ c.stage = "stgxc"
  BY <1>2, <1>3 DEF CompFields
<1>7. /\ Nested(io, i.io) /\ DOMAIN i.comp = CompFields
      /\ i.comp.stage \in {"stgxc", "stgxt"}
  BY <1>2, <1>4, <1>6, IncludeLeads
<1>8. DOMAIN comp' = CompFields /\ comp'.stage \in {"stgxc", "stgxt"}
  BY <1>5, <1>7 DEF CompFields
<1>9. PICK d, t : d = comp' /\ t = io'
  OBVIOUS
<1>10. Holds(t, d)
  <2>1. Reads(io, t) /\ Frame(io, t, ReadFields)
    BY <1>5, <1>7, <1>9, ReadsNested DEF Reads
  <2>2. comp.stage \in Running /\ d.stage \in Running
    BY <1>1, <1>8, <1>9 DEF Running
  <2> QED BY <1>1, <1>8, <1>9, <2>1, <2>2, ReadingKeeps
<1> QED BY <1>9, <1>10 DEF Inv

\* HOST(1) runs a command,
LEMMA CommandKeeps == ASSUME Inv, NEW n, Command(n) PROVE Inv'
<1>1. Holds(io, comp) /\ comp.stage = "stgxt"
  BY DEF Inv, Command
<1>2. io.originp # None /\ Wired(io) /\ io.fds[1] # None /\ DOMAIN comp = CompFields
  <2>1. Good(io, comp.stage) /\ comp.stage # "after" /\ comp.stage # "main"
    BY <1>1 DEF Holds, Ended
  <2> QED BY <1>1, <2>1, OneOpen DEF Good, Staged, Holds
<1>3. PICK p : io' = restore0([save0(io) EXCEPT !.desc[save0(io).fds[0]].pos = p])
  BY DEF Command
<1>4. Moves(io, io')
  BY <1>2, <1>3, CommandMoves
<1>5. comp' = [comp EXCEPT !.calls = @ + 1]
  BY DEF Command
<1>6. PICK d, t : d = comp' /\ t = io'
  OBVIOUS
<1>7. DOMAIN d = CompFields /\ d.stage = "stgxt"
  BY <1>1, <1>2, <1>5, <1>6 DEF CompFields
<1>8. Holds(t, d)
  <2>1. Reads(io, t) /\ Frame(io, t, ReadFields)
    BY <1>2, <1>4, <1>6, ReadsMoves DEF Reads
  <2>2. comp.stage \in Running /\ d.stage \in Running
    BY <1>1, <1>7 DEF Running
  <2> QED BY <1>1, <1>7, <2>1, <2>2, ReadingKeeps
<1> QED BY <1>6, <1>8 DEF Inv

\* and TERMINAL is read.
LEMMA TerminalKeeps == ASSUME Inv, Terminal PROVE Inv'
<1>1. Holds(io, comp) /\ comp.stage = "stgxt"
  BY DEF Inv, Terminal
<1>2. io.originp # None /\ Wired(io) /\ DOMAIN comp = CompFields
  BY <1>1 DEF Holds, Good, Staged, Ended
<1>3. io' = zysri(io).io /\ comp' = [comp EXCEPT !.calls = @ + 1]
  BY DEF Terminal
<1>4. Moves(io, io')
  <2>1. Kernel(io) /\ io.fds[2] # None
    BY <1>2, InUse, FdsAre DEF Wired
  <2> QED BY <1>3, <2>1, TerminalMoves
<1>5. PICK d, t : d = comp' /\ t = io'
  OBVIOUS
<1>6. DOMAIN d = CompFields /\ d.stage = "stgxt"
  BY <1>1, <1>2, <1>3, <1>5 DEF CompFields
<1>7. Holds(t, d)
  <2>1. Reads(io, t) /\ Frame(io, t, ReadFields)
    BY <1>2, <1>4, <1>5, ReadsMoves DEF Reads
  <2>2. comp.stage \in Running /\ d.stage \in Running
    BY <1>1, <1>6 DEF Running
  <2> QED BY <1>1, <1>6, <2>1, <2>2, ReadingKeeps
<1> QED BY <1>5, <1>7 DEF Inv

\* TERMINAL is written to.
LEMMA SayStep == ASSUME Inv, Say PROVE Inv'
<1>1. Holds(io, comp) /\ comp.stage = "stgxt" /\ comp' = comp
  BY DEF Inv, Say
<1>2. Good(io, "stgxt") /\ Wired(io) /\ Staged(io, "stgxt") /\ Printed(io, "stgxt") /\ Prints(io.printed)
  <2>1. Good(io, "stgxt") /\ Printed(io, "stgxt")
    BY <1>1 DEF Holds, Ended
  <2> QED BY <2>1 DEF Good, Printed
<1>3. PICK s, t : s = io /\ t = io'
  OBVIOUS
<1>4. t = zyspi(s, "terminal")
  BY <1>3 DEF Say
<1>5. /\ Wired(t) /\ Frame(s, t, {"printed"})
      /\ \/ t.printed = [s.printed EXCEPT !.terminal = Append(@, "terminal")]
         \/ t.printed = [s.printed EXCEPT !.tty = Append(@, "terminal")] /\ s.ttyfdn # 2
  <2>1. Wired(s) /\ Prints(s.printed)
    BY <1>2, <1>3
  <2>2. /\ Wired(zyspi(s, "terminal")) /\ Frame(s, zyspi(s, "terminal"), {"printed"})
        /\ \/ zyspi(s, "terminal").printed = [s.printed EXCEPT !.terminal = Append(@, "terminal")]
           \/ zyspi(s, "terminal").printed = [s.printed EXCEPT !.tty = Append(@, "terminal")] /\ s.ttyfdn # 2
    BY <2>1, SayKeeps
  <2> QED BY <1>4, <2>2, Zenon
<1>6. /\ ListName(t) = ListName(s) /\ t.outptr = s.outptr /\ t.errflag = s.errflag
      /\ t.executing = s.executing /\ t.oupState = s.oupState /\ t.originp = s.originp
      /\ t.ttyfdn = s.ttyfdn
  <2>1. Frame(s, t, SwitchFields)
    BY <1>5 DEF Frame, SwitchFields
  <2> QED BY <1>5, <2>1, NameSame DEF Frame, IoFields
<1>7. NoSwitch(t) <=> NoSwitch(s)
  BY <1>6 DEF NoSwitch
<1>8. Staged(t, "stgxt")
  BY <1>2, <1>3, <1>6, <1>7 DEF Staged, Reading, Running
<1>9. Printed(t, "stgxt")
  <2>1. PICK p, q : p = s.printed /\ q = t.printed
    OBVIOUS
  <2>2. Prints(p)
    BY <1>2, <1>3, <2>1
  <2>3. /\ DOMAIN q = {"shell", "list", "terminal", "tty"} /\ q.shell = p.shell /\ q.list = p.list
        /\ q.terminal = p.terminal \/ q.terminal = Append(p.terminal, "terminal")
        /\ q.tty = p.tty \/ (q.tty = Append(p.tty, "terminal") /\ s.ttyfdn # 2)
    BY <1>5, <2>1, <2>2 DEF Prints
  <2>4. q.terminal \in Seq({"terminal"}) /\ q.tty \in Seq({"terminal"})
    <3>1. PICK S, e : S = {"terminal"} /\ e = "terminal"
      OBVIOUS
    <3>2. p.terminal \in Seq(S) /\ p.tty \in Seq(S) /\ e \in S
      BY <2>2, <3>1 DEF Prints
    <3>3. Append(p.terminal, e) \in Seq(S) /\ Append(p.tty, e) \in Seq(S)
      BY <3>2, AppendProperties
    <3>4. q.terminal \in Seq(S) /\ q.tty \in Seq(S)
      BY <2>3, <3>1, <3>2, <3>3
    <3> QED BY <3>1, <3>4
  <2>5. Prints(q)
    BY <2>2, <2>3, <2>4 DEF Prints
  <2>6. q.tty # <<>> => t.ttyfdn # 2
    BY <1>2, <1>3, <1>6, <2>1, <2>3 DEF Printed
  <2>7. Separate(t, "stgxt") <=> Separate(s, "stgxt")
    BY <1>7 DEF Separate
  <2> QED BY <1>2, <1>3, <1>6, <2>1, <2>3, <2>5, <2>6, <2>7 DEF Printed
<1>10. Holds(t, comp)
  BY <1>1, <1>5, <1>8, <1>9 DEF Holds, Good
<1> QED BY <1>1, <1>3, <1>10 DEF Inv

\* HOST only asks.
LEMMA HostStep == ASSUME Inv, Host PROVE Inv'
  BY DEF Inv, Host

\* The program ends, or the compiler gives up.
LEMMA StopStep == ASSUME Inv, Stop PROVE Inv'
<1>1. Holds(io, comp) /\ comp.stage \in {"stgic", "stgxt"} /\ comp' = [comp EXCEPT !.stage = "after"]
  BY DEF Inv, Stop
<1>2. PICK a, c : a = comp.stage /\ c = comp'
  OBVIOUS
<1>3. PICK s, t : s = io /\ t = io'
  OBVIOUS
<1>4. Wired(s) /\ Staged(s, a) /\ Printed(s, a) /\ DOMAIN c = CompFields /\ c.stage = "after"
  <2>1. Good(s, a) /\ Printed(s, a) /\ DOMAIN comp = CompFields
    BY <1>1, <1>2, <1>3 DEF Holds, Ended
  <2> QED BY <1>1, <1>2, <2>1 DEF Good, CompFields
<1>5. PICK ok : t = swcoup(s, ok)
  BY <1>3 DEF Stop
<1>6. /\ a = "stgic" => (NoSwitch(s) \/ s.oupState = 1) /\ s.executing = FALSE
      /\ a = "stgxt" => NoSwitch(s) \/ s.oupState = 2
      /\ s.originp # None /\ a \in {"stgic", "stgxt"}
  BY <1>1, <1>2, <1>4 DEF Staged, Reading, Running
<1>7. CASE NoSwitch(s)
  <2>1. t = s
    BY <1>5, <1>7, SwcoupIs
  <2>2. Staged(t, "after")
    BY <1>6, <1>7, <2>1 DEF Staged, Reading, Running
  <2>3. Printed(t, "after")
    BY <1>4, <1>6, <2>1, PrintedKeeps
  <2> QED BY <1>2, <1>3, <1>4, <2>1, <2>2, <2>3 DEF Inv, Holds, Good
<1>8. CASE ~NoSwitch(s)
  <2>1. /\ Wired(t) /\ Frame(s, t, SwitchFields) /\ t.errflag = s.errflag /\ t.printed = s.printed
        /\ t.oupState = IF a = "stgic" THEN 2 ELSE 3
    <3>1. CASE a = "stgic"
      BY <1>4, <1>5, <1>6, <1>8, <3>1, ListingEnds
    <3>2. CASE a = "stgxt"
      BY <1>4, <1>5, <1>6, <1>8, <3>2, ListingAgain
    <3> QED BY <1>6, <3>1, <3>2
  <2>2. /\ ListName(t) = ListName(s) /\ t.outptr = s.outptr
        /\ t.executing = s.executing /\ t.originp = s.originp /\ t.ttyfdn = s.ttyfdn
    BY <2>1, NameSame DEF Frame, IoFields, SwitchFields
  <2>3. NoSwitch(t) <=> NoSwitch(s)
    BY <2>1, <2>2 DEF NoSwitch
  <2>4. Staged(t, "after")
    BY <1>6, <2>1, <2>2 DEF Staged, Reading, Running
  <2>5. Printed(t, "after")
    BY <1>4, <1>6, <2>1, <2>2, <2>3, PrintedKeeps
  <2> QED BY <1>2, <1>3, <1>4, <2>1, <2>4, <2>5 DEF Inv, Holds, Good
<1> QED BY <1>7, <1>8

\* What a line adds to what has been printed.
LEMMA Longer ==
    ASSUME NEW S, NEW q \in Seq(S), NEW e \in S
    PROVE  /\ Append(q, e) \in Seq(S) /\ Append(q, e) # <<>>
           /\ \A i \in DOMAIN Append(q, e) :
                 (i \in DOMAIN q /\ Append(q, e)[i] = q[i])
                 \/ (i = Len(Append(q, e)) /\ Append(q, e)[i] = e)
<1>1. Len(q) \in Nat /\ DOMAIN q = 1 .. Len(q)
  OBVIOUS
<1>2. PICK r : r = Append(q, e)
  OBVIOUS
<1>3. /\ r \in Seq(S) /\ r # <<>> /\ Len(r) = Len(q) + 1
      /\ \A i \in 1 .. Len(q) : r[i] = q[i]
      /\ r[Len(q) + 1] = e
  BY <1>2, AppendProperties
<1>4. DOMAIN r = 1 .. Len(q) + 1
  BY <1>3
<1> QED BY <1>1, <1>2, <1>3, <1>4

\* A line that neither of two sequences contains.
LEMMA InNeither ==
    ASSUME NEW q \in Seq(Words), NEW r \in Seq(Words), NEW e, ~Contains(q \o r, e)
    PROVE  \A i \in DOMAIN r : r[i] # e
<1>1. Len(q) \in Nat /\ Len(r) \in Nat /\ DOMAIN r = 1 .. Len(r)
  OBVIOUS
<1>2. Len(q \o r) = Len(q) + Len(r) /\ \A i \in 1 .. Len(r) : (q \o r)[Len(q) + i] = r[i]
  BY <1>1
<1>3. \A i \in 1 .. Len(q \o r) : (q \o r)[i] # e
  BY DEF Contains
<1>4. ASSUME NEW i \in 1 .. Len(r) PROVE Len(q) + i \in 1 .. Len(q \o r)
  BY <1>1, <1>2
<1> QED BY <1>1, <1>2, <1>3, <1>4

\* A line is written.
LEMMA WriteStep == ASSUME Inv, Write PROVE Inv'
<1>1. Holds(io, comp) /\ comp.stage \in {"stgic", "stgxt", "after"} /\ comp' = comp
  BY DEF Inv, Write
<1>2. PICK a, line : /\ a = comp.stage
                     /\ line = CASE comp.stage = "stgic" -> "listing"
                                 [] comp.stage = "stgxt" -> "output"
                                 [] OTHER -> "statistics"
  OBVIOUS
<1>3. PICK s, t : s = io /\ t = io'
  OBVIOUS
<1>4. t = zyspr(s, line) /\ ~Contains(s.printed.shell \o s.printed.list, line)
  BY <1>2, <1>3 DEF Write
<1>5. /\ a \in {"stgic", "stgxt", "after"} /\ line \in Words /\ line # "terminal"
      /\ a = "stgic" => line = "listing"
      /\ a = "stgxt" => line = "output"
      /\ a = "after" => line = "statistics"
  <2>1. line = CASE a = "stgic" -> "listing" [] a = "stgxt" -> "output" [] OTHER -> "statistics"
    BY <1>2, Zenon
  <2>2. /\ a = "stgic" => line = "listing"
        /\ a = "stgxt" => line = "output"
        /\ a = "after" => line = "statistics"
    BY <2>1
  <2>3. a \in {"stgic", "stgxt", "after"}
    BY <1>1, <1>2
  <2>4. line \in Words
    <3>1. line = "listing" \/ line = "output" \/ line = "statistics"
      BY <2>2, <2>3
    <3> QED BY <3>1 DEF Words
  <2>5. line # "terminal"
    BY <2>2, <2>3
  <2> QED BY <2>2, <2>3, <2>4, <2>5
<1>6. Wired(s) /\ Staged(s, a) /\ Printed(s, a) /\ Prints(s.printed) /\ DOMAIN comp = CompFields
  <2>1. Good(s, a) /\ Printed(s, a) /\ DOMAIN comp = CompFields
    BY <1>1, <1>2, <1>3, <1>5 DEF Holds, Ended
  <2> QED BY <2>1 DEF Good, Printed
<1>7. PICK p, q : p = s.printed /\ q = t.printed
  OBVIOUS
<1>8. /\ Wired(t) /\ Frame(s, t, {"desc", "printed"})
      /\ \/ q = p
         \/ q = [p EXCEPT !.shell = Append(@, line)] /\ (NoSwitch(s) \/ s.oupState \in {0, 2})
         \/ q = [p EXCEPT !.list = Append(@, line)] /\ ~NoSwitch(s) /\ s.oupState \in {1, 3}
  <2>1. PICK u : u = zyspr(s, line)
    OBVIOUS
  <2>2. /\ Wired(u) /\ Frame(s, u, {"desc", "printed"})
        /\ \/ u.printed = s.printed
           \/ /\ u.printed = [s.printed EXCEPT !.shell = Append(@, line)]
              /\ NoSwitch(s) \/ s.oupState \in {0, 2}
           \/ /\ u.printed = [s.printed EXCEPT !.list = Append(@, line)]
              /\ ~NoSwitch(s) /\ s.oupState \in {1, 3}
    BY <1>6, <2>1, WriteKeeps
  <2> QED BY <1>4, <1>7, <2>1, <2>2
<1>9. /\ ListName(t) = ListName(s) /\ t.outptr = s.outptr /\ t.errflag = s.errflag
      /\ t.executing = s.executing /\ t.oupState = s.oupState /\ t.originp = s.originp
      /\ t.ttyfdn = s.ttyfdn
      /\ t.first_record = s.first_record /\ t.inpcnt = s.inpcnt /\ t.cmdcnt = s.cmdcnt
      /\ t.curfile = s.curfile /\ t.first = s.first /\ t.argv = s.argv
  <2>1. Frame(s, t, SwitchFields)
    BY <1>8 DEF Frame, SwitchFields
  <2> QED BY <1>8, <2>1, NameSame DEF Frame, IoFields
<1>10. (NoSwitch(t) <=> NoSwitch(s)) /\ (Counts(s) => Counts(t))
  BY <1>9, CountsSame DEF NoSwitch
<1>11. Staged(t, a)
  <2>1. a # "main"
    BY <1>5
  <2> QED BY <1>6, <1>9, <1>10, <2>1 DEF Staged
<1>12. /\ DOMAIN p = {"shell", "list", "terminal", "tty"}
       /\ p.shell \in Seq(Words) /\ p.list \in Seq(Words)
       /\ \A i \in DOMAIN p.shell : p.shell[i] # "terminal"
       /\ \A i \in DOMAIN p.list : p.list[i] = "listing" \/ (p.list[i] = "statistics" /\ i = Len(p.list))
       /\ p.terminal \in Seq({"terminal"}) /\ p.tty \in Seq({"terminal"})
  BY <1>6, <1>7 DEF Prints
<1>13. Printed(t, a)
  <2>1. Separate(t, a) <=> Separate(s, a)
    BY <1>10 DEF Separate
  <2>2. Separate(s, a) <=> ~NoSwitch(s)
    BY <1>5 DEF Separate
  <2>3. /\ a # "after" => \A i \in DOMAIN p.list : p.list[i] = "listing"
        /\ Separate(s, a) /\ (s.executing \/ a # "after") =>
              \A i \in DOMAIN p.shell : p.shell[i] = "output"
        /\ ~Separate(s, a) => p.list = <<>>
        /\ p.tty # <<>> => s.ttyfdn # 2
    BY <1>6, <1>7 DEF Printed
  <2>4. CASE q = p
    BY <1>6, <1>7, <1>9, <2>1, <2>3, <2>4 DEF Printed
  <2>5. CASE q = [p EXCEPT !.shell = Append(@, line)] /\ (NoSwitch(s) \/ s.oupState \in {0, 2})
    <3>1. /\ DOMAIN q = {"shell", "list", "terminal", "tty"} /\ q.shell = Append(p.shell, line)
          /\ q.list = p.list /\ q.terminal = p.terminal /\ q.tty = p.tty
      BY <1>12, <2>5
    <3>2. /\ q.shell \in Seq(Words)
          /\ \A i \in DOMAIN q.shell : (i \in DOMAIN p.shell /\ q.shell[i] = p.shell[i]) \/ q.shell[i] = line
      BY <1>5, <1>12, <3>1, Longer
    <3>3. Prints(q)
      BY <1>5, <1>12, <3>1, <3>2 DEF Prints
    <3>4. Separate(s, a) /\ (s.executing \/ a # "after") => line = "output"
      BY <1>5, <1>6, <2>2, <2>5 DEF Staged, Reading
    <3>5. Separate(s, a) /\ (s.executing \/ a # "after") =>
              \A i \in DOMAIN q.shell : q.shell[i] = "output"
      BY <2>3, <3>2, <3>4
    <3> QED BY <1>7, <1>9, <2>1, <2>3, <3>1, <3>3, <3>5 DEF Printed
  <2>6. CASE q = [p EXCEPT !.list = Append(@, line)] /\ ~NoSwitch(s) /\ s.oupState \in {1, 3}
    <3>1. /\ DOMAIN q = {"shell", "list", "terminal", "tty"} /\ q.list = Append(p.list, line)
          /\ q.shell = p.shell /\ q.terminal = p.terminal /\ q.tty = p.tty
      BY <1>12, <2>6
    <3>2. /\ q.list \in Seq(Words)
          /\ \A i \in DOMAIN q.list : (i \in DOMAIN p.list /\ q.list[i] = p.list[i])
                                      \/ (i = Len(q.list) /\ q.list[i] = line)
      BY <1>5, <1>12, <3>1, Longer
    <3>3. a # "stgxt"
      BY <1>6, <2>6 DEF Staged, Running
    <3>4. \A i \in DOMAIN p.list : p.list[i] = "listing"
      <4>1. CASE a = "after"
        <5>1. \A i \in DOMAIN p.list : p.list[i] # "statistics"
          BY <1>4, <1>5, <1>7, <1>12, <4>1, InNeither
        <5> QED BY <1>12, <5>1
      <4>2. CASE a # "after"
        BY <2>3, <4>2
      <4> QED BY <4>1, <4>2
    <3>5. \A i \in DOMAIN q.list : q.list[i] = "listing" \/ (q.list[i] = "statistics" /\ i = Len(q.list))
      BY <1>5, <3>2, <3>3, <3>4
    <3>6. a # "after" => \A i \in DOMAIN q.list : q.list[i] = "listing"
      BY <1>5, <3>2, <3>3, <3>4
    <3>7. Prints(q)
      BY <1>12, <3>1, <3>2, <3>5 DEF Prints
    <3>8. Separate(t, a)
      BY <2>1, <2>2, <2>6
    <3> QED BY <1>7, <1>9, <2>1, <2>3, <3>1, <3>6, <3>7, <3>8 DEF Printed
  <2> QED BY <1>8, <2>4, <2>5, <2>6
<1>14. Holds(t, comp)
  BY <1>2, <1>6, <1>8, <1>11, <1>13 DEF Holds, Good
<1> QED BY <1>1, <1>3, <1>14 DEF Inv

\* The end of the compilation.
LEMMA ZysbxKeeps ==
    ASSUME NEW s, Wired(s), s.originp # None, s.fds[1] # None, s.inpcnt \in Int
    PROVE  /\ Wired(zysbx(s)) /\ zysbx(s).originp # None /\ zysbx(s).executing = TRUE
           /\ Frame(s, zysbx(s), ReadFields \cup {"executing"})
<1>1. Kernel(s) /\ s.fds[0] # None
  BY InUse, FdsAre DEF Wired
<1>2. PICK x : x = zysbx(s)
  OBVIOUS
<1>3. CASE s.readshell0
  <2>1. PICK d : d = dosetEnd(s)
    OBVIOUS
  <2>2. Moves(s, d)
    BY <1>1, <2>1, EndMoves
  <2>3. Wired(d) /\ Kernel(d) /\ d.fds = s.fds /\ Frame(s, d, ReadFields)
    <3>1. Wired(d) /\ Kernel(d)
      BY <2>2, WiredMoves DEF Wired
    <3>2. d.fds = s.fds /\ Frame(s, d, ReadFields)
      BY <1>1, <2>2, MovesKeep DEF Moves, Frame, ReadFields, InputFields
    <3> QED BY <3>1, <3>2
  <2>4. PICK e : e = [d EXCEPT !.executing = TRUE, !.curfile = s.inpcnt]
    OBVIOUS
  <2>5. /\ Frame(d, e, {"executing", "curfile"}) /\ e.executing = TRUE /\ e.curfile = s.inpcnt
        /\ e.inpcnt = s.inpcnt /\ e.fds = d.fds
    <3>1. Frame(d, e, {"executing", "curfile"}) /\ e.executing = TRUE /\ e.curfile = s.inpcnt
      BY <2>3, <2>4 DEF Kernel, Frame, IoFields
    <3>2. d.inpcnt = s.inpcnt
      BY <2>2 DEF Moves, Frame, IoFields
    <3> QED BY <3>1, <3>2 DEF Frame, IoFields
  <2>6. Wired(e)
    <3>1. Frame(d, e, OtherFields)
      BY <2>5 DEF Frame, OtherFields
    <3> QED BY <2>3, <3>1, WiredOthers
  <2>7. swcinp(e).status \in {"ok", "eof"} /\ Switched(e, swcinp(e).io)
    <3>1. ~(e.curfile < e.inpcnt) /\ e.fds[1] # None
      BY <2>3, <2>5
    <3>2. swcinp(e).status \in {"ok", "eof"}
      BY <2>5, <2>6, <3>1, SwcinpSwitches
    <3> QED BY <2>6, <3>1, <3>2, SwcinpSwitches
  <2>8. x = swcinp(e).io
    BY <1>2, <1>3, <2>1, <2>4 DEF zysbx
  <2>9. Wired(x) /\ x.originp # None /\ Frame(e, x, InputFields)
    BY <2>7, <2>8 DEF Switched
  <2>10. Frame(s, x, ReadFields \cup {"executing"}) /\ x.executing = TRUE
    <3>1. Frame(s, e, ReadFields \cup {"executing"})
      BY <2>3, <2>5 DEF Frame, ReadFields, InputFields
    <3>2. x.executing = TRUE
      BY <2>5, <2>9 DEF Frame, IoFields, InputFields
    <3> QED BY <2>9, <3>1, <3>2 DEF Frame, ReadFields
  <2> QED BY <1>2, <2>9, <2>10
<1>4. CASE ~s.readshell0
  <2>1. x = [s EXCEPT !.executing = TRUE]
    BY <1>2, <1>4 DEF zysbx
  <2>2. Frame(s, x, {"executing"}) /\ x.executing = TRUE
    BY <1>1, <2>1 DEF Kernel, Frame, IoFields
  <2>3. x.originp = s.originp
    BY <2>2 DEF Frame, IoFields
  <2>4. Wired(x)
    <3>1. Frame(s, x, OtherFields)
      BY <2>2 DEF Frame, OtherFields
    <3> QED BY <3>1, WiredOthers
  <2>5. Frame(s, x, ReadFields \cup {"executing"})
    BY <2>2 DEF Frame
  <2> QED BY <1>2, <2>2, <2>3, <2>4, <2>5
<1> QED BY <1>3, <1>4

\* The program starts, or the run is suppressed.
LEMMA BeginStep == ASSUME Inv, Begin PROVE Inv'
<1>1. Holds(io, comp) /\ comp.stage = "begin"
  BY DEF Inv, Begin
<1>2. PICK s, t, c : s = io /\ t = io' /\ c = comp'
  OBVIOUS
<1>3. /\ Wired(s) /\ Staged(s, "begin") /\ Printed(s, "begin") /\ s.fds[1] # None
      /\ DOMAIN comp = CompFields
  <2>1. Good(s, "begin") /\ Printed(s, "begin") /\ DOMAIN comp = CompFields
    BY <1>1, <1>2 DEF Holds, Ended
  <2> QED BY <2>1, OneOpen DEF Good
<1>4. PICK stage : stage = IF s.noexec \/ (comp.errors /\ ~s.evenso) THEN "suppressed" ELSE "stgxt"
  OBVIOUS
<1>5. DOMAIN c = CompFields /\ c.stage = stage /\ stage \in {"suppressed", "stgxt"}
  <2>1. c = [comp EXCEPT !.cnind = 0, !.stage = stage]
    BY <1>2, <1>4 DEF Begin
  <2> QED BY <1>3, <1>4, <2>1 DEF CompFields
<1>6. PICK x : x = zysbx(s)
  OBVIOUS
<1>7. t = swcoup(x, TRUE)
  BY <1>2, <1>6 DEF Begin
<1>8. s.originp # None /\ s.inpcnt \in Int /\ (NoSwitch(s) \/ s.oupState = 1)
  BY <1>3 DEF Staged, Reading, Counts
<1>9. /\ Wired(x) /\ x.originp # None /\ x.executing = TRUE
      /\ Frame(s, x, ReadFields \cup {"executing"})
  BY <1>3, <1>6, <1>8, ZysbxKeeps
<1>10. /\ NoSwitch(x) <=> NoSwitch(s)
       /\ x.oupState = s.oupState /\ x.printed = s.printed /\ x.ttyfdn = s.ttyfdn
  BY <1>9, FrameSame
<1>11. /\ Wired(t) /\ t.originp # None /\ t.executing = TRUE /\ (NoSwitch(t) \/ t.oupState = 2)
       /\ NoSwitch(t) <=> NoSwitch(s)
       /\ t.printed = s.printed /\ t.ttyfdn = s.ttyfdn
  <2>1. CASE NoSwitch(x)
    <3>1. t = x
      BY <1>7, <2>1, SwcoupIs
    <3> QED BY <1>9, <1>10, <2>1, <3>1
  <2>2. CASE ~NoSwitch(x)
    <3>1. /\ Wired(t) /\ Frame(x, t, SwitchFields) /\ t.oupState = 2
          /\ t.errflag = x.errflag /\ t.printed = x.printed
      BY <1>7, <1>8, <1>9, <1>10, <2>2, ListingEnds
    <3>2. /\ ListName(t) = ListName(x) /\ t.outptr = x.outptr
          /\ t.executing = x.executing /\ t.originp = x.originp /\ t.ttyfdn = x.ttyfdn
      BY <3>1, NameSame DEF Frame, IoFields, SwitchFields
    <3>3. NoSwitch(t) <=> NoSwitch(x)
      BY <3>1, <3>2 DEF NoSwitch
    <3> QED BY <1>9, <1>10, <3>1, <3>2, <3>3
  <2> QED BY <2>1, <2>2
<1>12. Staged(t, "stgxt")
  BY <1>11 DEF Staged, Reading, Running
<1>13. Printed(t, stage)
  BY <1>3, <1>5, <1>11, PrintedKeeps
<1>14. Holds(t, c)
  BY <1>5, <1>11, <1>12, <1>13 DEF Holds, Good, Ended
<1> QED BY <1>2, <1>14 DEF Inv

\* Where nothing has been printed.
LEMMA PrintedNothing ==
    ASSUME NEW s, NEW stage,
           s.printed = [shell |-> <<>>, list |-> <<>>, terminal |-> <<>>, tty |-> <<>>]
    PROVE  Printed(s, stage) /\ "list" \in DOMAIN s.printed /\ [s.printed EXCEPT !.list = <<>>] = s.printed
<1>1. PICK p : p = s.printed
  OBVIOUS
<1>2. /\ DOMAIN p = {"shell", "list", "terminal", "tty"}
      /\ p.shell = <<>> /\ p.list = <<>> /\ p.terminal = <<>> /\ p.tty = <<>>
      /\ [p EXCEPT !.list = <<>>] = p
  BY <1>1
<1>3. Prints(p)
  BY <1>2 DEF Prints
<1> QED BY <1>1, <1>2, <1>3 DEF Printed

\* The first source file, and the listing.
LEMMA MainStep == ASSUME Inv, Main PROVE Inv'
<1>1. Holds(io, comp) /\ comp.stage = "main"
  BY DEF Inv, Main
<1>2. PICK s, t, c : s = io /\ t = io' /\ c = comp'
  OBVIOUS
<1>3. /\ Wired(s) /\ BeforeMain(s) /\ s.executing = FALSE /\ s.fds[1] # None
      /\ DOMAIN comp = CompFields
  <2>1. Good(s, "main") /\ DOMAIN comp = CompFields
    BY <1>1, <1>2 DEF Holds, Ended
  <2> QED BY <2>1, OneOpen DEF Good, Staged
<1>4. PICK a : a = [s EXCEPT !.sfn = s.argv[s.first]]
  OBVIOUS
<1>5. PICK w, ok : /\ w = swcinp(a)
                   /\ t = IF w.status = "ok" THEN swcoup(w.io, ok) ELSE w.io
                   /\ c = [comp EXCEPT !.stage = IF w.status = "ok" THEN "stgic" ELSE w.status]
  BY <1>2, <1>4 DEF Main
<1>6. Frame(s, a, {"sfn"}) /\ Wired(a) /\ a.fds[1] # None
  <2>1. Frame(s, a, {"sfn"})
    BY <1>3, <1>4 DEF Wired, Kernel, Frame, IoFields
  <2>2. Frame(s, a, OtherFields)
    BY <2>1 DEF Frame, OtherFields
  <2> QED BY <1>3, <2>1, <2>2, WiredOthers DEF Frame, IoFields
<1>7. PICK u : u = w.io
  OBVIOUS
<1>8. /\ w.status \in {"ok", "can't open"} /\ Frame(a, u, InputFields)
      /\ w.status = "ok" => Switched(a, u) /\ Counted(a, u)
  <2>1. a.curfile < a.inpcnt
    <3>1. a.curfile = s.curfile /\ a.inpcnt = s.inpcnt
      BY <1>6 DEF Frame, IoFields
    <3> QED BY <1>3, <3>1 DEF BeforeMain
  <2>2. w.status \in {"ok", "can't open"} /\ Frame(a, u, InputFields)
    BY <1>5, <1>6, <1>7, <2>1, SwcinpSwitches
  <2>3. ASSUME w.status = "ok" PROVE Switched(a, u) /\ Counted(a, u)
    BY <1>5, <1>6, <1>7, <2>1, <2>3, SwcinpSwitches
  <2> QED BY <2>2, <2>3
<1>9. /\ u.printed = s.printed /\ u.errflag = s.errflag /\ u.oupState = s.oupState
      /\ u.executing = s.executing /\ u.first = s.first /\ u.argv = s.argv /\ u.inpcnt = s.inpcnt
      /\ a.cmdcnt = s.cmdcnt /\ a.curfile = s.curfile /\ u.ttyfdn = s.ttyfdn
  BY <1>6, <1>8 DEF Frame, IoFields, InputFields
<1>10. s.printed = [shell |-> <<>>, list |-> <<>>, terminal |-> <<>>, tty |-> <<>>]
  BY <1>3 DEF BeforeMain
<1>11. DOMAIN c = CompFields /\ c.stage = IF w.status = "ok" THEN "stgic" ELSE w.status
  BY <1>3, <1>5 DEF CompFields
<1>12. CASE w.status # "ok"
  <2>1. t = u /\ c.stage = "can't open"
    BY <1>5, <1>7, <1>8, <1>11, <1>12
  <2>2. Printed(t, c.stage)
    BY <1>9, <1>10, <2>1, PrintedNothing
  <2> QED BY <1>2, <1>11, <2>1, <2>2 DEF Inv, Holds, Ended
<1>13. CASE w.status = "ok"
  <2>1. t = swcoup(u, ok) /\ c.stage = "stgic"
    BY <1>5, <1>7, <1>11, <1>13
  <2>2. Wired(u) /\ u.originp # None
    BY <1>8, <1>13 DEF Switched
  <2>3. u.executing = FALSE /\ u.oupState = 0 /\ Counts(u)
    <3>1. /\ s.first \in Nat \ {0} /\ Len(s.argv) \in Nat /\ s.cmdcnt = s.first
          /\ s.inpcnt = Len(s.argv) + 1 - s.first /\ s.curfile = 0 /\ s.oupState = 0
      BY <1>3 DEF BeforeMain
    <3>2. u.curfile = 1 /\ u.cmdcnt = u.first + 1
      BY <1>8, <1>9, <1>13, <3>1 DEF Counted
    <3> QED BY <1>3, <1>9, <3>1, <3>2 DEF Counts
  <2>4. /\ Wired(t) /\ t.originp # None /\ t.executing = FALSE /\ (NoSwitch(t) \/ t.oupState = 1)
        /\ Counts(t) /\ t.printed = s.printed
    <3>1. CASE NoSwitch(u)
      <4>1. t = u
        BY <2>1, <3>1, SwcoupIs
      <4> QED BY <1>9, <2>2, <2>3, <3>1, <4>1
    <3>2. CASE ~NoSwitch(u)
      <4>1. "list" \in DOMAIN u.printed /\ [u.printed EXCEPT !.list = <<>>] = u.printed
        BY <1>9, <1>10, PrintedNothing
      <4>2. /\ Wired(t) /\ Frame(u, t, SwitchFields) /\ t.oupState = 1
            /\ t.printed = [u.printed EXCEPT !.list = <<>>] \/ t.printed = u.printed
        BY <2>1, <2>2, <2>3, <3>2, <4>1, ListingBegins
      <4>3. /\ t.curfile = u.curfile /\ t.cmdcnt = u.cmdcnt /\ t.inpcnt = u.inpcnt
            /\ t.first = u.first /\ t.argv = u.argv /\ t.first_record = u.first_record
            /\ t.executing = u.executing /\ t.originp = u.originp
        BY <4>2 DEF Frame, IoFields, SwitchFields
      <4>4. Counts(t)
        BY <2>3, <4>3, CountsSame
      <4> QED BY <1>9, <2>2, <2>3, <4>1, <4>2, <4>3, <4>4
    <3> QED BY <3>1, <3>2
  <2>5. Staged(t, "stgic")
    BY <2>4 DEF Staged, Reading, Running
  <2>6. Printed(t, "stgic")
    BY <1>10, <2>4, PrintedNothing
  <2> QED BY <1>2, <1>11, <2>1, <2>4, <2>5, <2>6 DEF Inv, Holds, Good
<1> QED BY <1>8, <1>12, <1>13
-----------------------------------------------------------------------------
(***************************************************************************)
(* The command line.                                                       *)
(***************************************************************************)
Names == (FileNames \ {Shell, Output, Keyboard}) \cup {NoName}
Arguments == Seq([opts : Seq(STRING), name : FileNames \ {Shell, Output, Keyboard}])

\* What getargs has found out; a file name is one of the arguments.
ArgStates(n) ==
    {s \in [i : Nat \ {0}, found : BOOLEAN, bad : BOOLEAN, outptr : Names, ttyfile : Names, uarg : Names,
            readshell0 : BOOLEAN, listing : BOOLEAN, noexec : BOOLEAN, evenso : BOOLEAN] :
        s.found => s.i <= n}
Seeking(n) == {s \in ArgStates(n) : s.found = FALSE}

\* What an argument is.
LEMMA ArgumentIs ==
    ASSUME NEW argv \in Arguments, NEW j \in 1 .. Len(argv)
    PROVE  argv[j].opts \in Seq(STRING) /\ argv[j].name \in Names
<1>1. PICK X : X = [opts : Seq(STRING), name : FileNames \ {Shell, Output, Keyboard}]
  OBVIOUS
<1>2. argv \in Seq(X)
  BY <1>1 DEF Arguments
<1>3. argv[j] \in X
  BY <1>2
<1> QED BY <1>1, <1>3 DEF Names

\* An option takes the next argument.
LEMMA TakesName ==
    ASSUME NEW n, NEW s \in Seeking(n), NEW k \in Nat \ {0}, NEW name \in Names
    PROVE  /\ [s EXCEPT !.i = k, !.outptr = name] \in Seeking(n)
           /\ [s EXCEPT !.i = k, !.ttyfile = name] \in Seeking(n)
           /\ [s EXCEPT !.i = k, !.uarg = name] \in Seeking(n)
<1>1. [s EXCEPT !.i = k, !.outptr = name] \in Seeking(n)
  BY DEF Seeking, ArgStates
<1>2. [s EXCEPT !.i = k, !.ttyfile = name] \in Seeking(n)
  BY DEF Seeking, ArgStates
<1>3. [s EXCEPT !.i = k, !.uarg = name] \in Seeking(n)
  BY DEF Seeking, ArgStates
<1> QED BY <1>1, <1>2, <1>3

\* -o and -T.
LEMMA FilenameArg ==
    ASSUME NEW argv \in Arguments, NEW s \in Seeking(Len(argv)), NEW inline \in Names,
           NEW field, field = "outptr" \/ field = "ttyfile"
    PROVE  filenamearg(s, argv, inline, field) \in Seeking(Len(argv))
<1>1. PICK n : n = Len(argv) /\ n \in Nat
  BY DEF Arguments
<1>2. PICK r : r = filenamearg(s, argv, inline, field)
  OBVIOUS
<1>3. CASE r = [s EXCEPT ![field] = inline]
  BY <1>1, <1>2, <1>3 DEF Seeking, ArgStates
<1>4. CASE r = [s EXCEPT !.bad = TRUE]
  BY <1>1, <1>2, <1>4 DEF Seeking, ArgStates
<1>5. CASE s.i + 1 <= n /\ r = [s EXCEPT !.i = @ + 1, ![field] = argv[s.i + 1].name]
  <2>1. s.i \in Nat \ {0}
    BY DEF Seeking, ArgStates
  <2>2. PICK name \in Names : name = argv[s.i + 1].name
    BY <1>1, <1>5, <2>1, ArgumentIs
  <2>3. PICK k \in Nat \ {0} : k = s.i + 1
    BY <2>1
  <2>4. r = [s EXCEPT !.i = k, ![field] = name]
    BY <1>5, <2>2, <2>3
  <2>5. CASE field = "outptr"
    <3>1. [s EXCEPT !.i = k, !.outptr = name] \in Seeking(Len(argv))
      BY TakesName
    <3> QED BY <1>2, <2>4, <2>5, <3>1
  <2>6. CASE field = "ttyfile"
    <3>1. [s EXCEPT !.i = k, !.ttyfile = name] \in Seeking(Len(argv))
      BY TakesName
    <3> QED BY <1>2, <2>4, <2>6, <3>1
  <2> QED BY <2>5, <2>6
<1>6. s.i \in Nat
  BY DEF Seeking, ArgStates
<1> QED BY <1>1, <1>2, <1>3, <1>4, <1>5, <1>6 DEF filenamearg

\* Any option.
LEMMA OptionIs ==
    ASSUME NEW argv \in Arguments, NEW s \in Seeking(Len(argv)), NEW letter, NEW inline \in Names
    PROVE  Option(s, argv, letter, inline) \in Seeking(Len(argv))
<1>1. PICK n : n = Len(argv) /\ n \in Nat
  BY DEF Arguments
<1>2. s.i \in Nat \ {0} /\ s.found = FALSE
  BY DEF Seeking, ArgStates
<1>3. PICK r, u, a, b : /\ r = Option(s, argv, letter, inline)
                        /\ u = IF s.i + 1 > Len(argv) THEN [s EXCEPT !.bad = TRUE]
                               ELSE [s EXCEPT !.i = @ + 1, !.uarg = argv[s.i + 1].name]
                        /\ a = filenamearg(s, argv, inline, "outptr")
                        /\ b = filenamearg(s, argv, inline, "ttyfile")
  OBVIOUS
<1>4. /\ [s EXCEPT !.listing = TRUE] \in Seeking(Len(argv))
      /\ [s EXCEPT !.noexec = TRUE] \in Seeking(Len(argv))
      /\ [s EXCEPT !.evenso = TRUE] \in Seeking(Len(argv))
      /\ [s EXCEPT !.readshell0 = FALSE] \in Seeking(Len(argv))
      /\ [s EXCEPT !.bad = TRUE] \in Seeking(Len(argv))
  BY <1>1 DEF Seeking, ArgStates
<1>5. a \in Seeking(Len(argv)) /\ b \in Seeking(Len(argv))
  BY <1>3, FilenameArg DEF Names
<1>6. u \in Seeking(Len(argv))
  <2>1. CASE s.i + 1 > Len(argv)
    BY <1>3, <1>4, <2>1
  <2>2. CASE ~(s.i + 1 > Len(argv))
    <3>1. PICK name \in Names : name = argv[s.i + 1].name
      BY <1>1, <1>2, <2>2, ArgumentIs
    <3>2. PICK k \in Nat \ {0} : k = s.i + 1
      BY <1>2
    <3>3. u = [s EXCEPT !.i = k, !.uarg = name]
      BY <1>3, <2>2, <3>1, <3>2
    <3> QED BY <3>3, TakesName
  <2> QED BY <2>1, <2>2
<1>7. PICK c1, c2, c3, c4, c5 : /\ c1 = [s EXCEPT !.listing = TRUE] /\ c2 = [s EXCEPT !.noexec = TRUE]
                                /\ c3 = [s EXCEPT !.evenso = TRUE] /\ c4 = [s EXCEPT !.readshell0 = FALSE]
                                /\ c5 = [s EXCEPT !.bad = TRUE]
  OBVIOUS
<1>8. r = CASE s.bad -> s
            [] ~s.bad /\ letter = "l" -> c1
            [] ~s.bad /\ letter = "n" -> c2
            [] ~s.bad /\ letter = "k" -> c3
            [] ~s.bad /\ letter = "r" -> c4
            [] ~s.bad /\ letter = "o" -> a
            [] ~s.bad /\ letter = "T" -> b
            [] ~s.bad /\ letter = "u" -> u
            [] OTHER -> c5
  BY <1>3, <1>7, Zenon DEF Option
<1>9. r \in {s, c1, c2, c3, c4, a, b, u, c5}
  BY <1>8
<1> QED BY <1>3, <1>4, <1>5, <1>6, <1>7, <1>9

\* A cluster of options, by induction on its letters.
LEMMA ClusterIs ==
    ASSUME NEW argv \in Arguments, NEW s \in Seeking(Len(argv)), NEW j \in 1 .. Len(argv)
    PROVE  Cluster(s, argv, argv[j]) \in Seeking(Len(argv))
<1>1. PICK arg, S : arg = argv[j] /\ S = Seeking(Len(argv))
  OBVIOUS
<1>2. arg.opts \in Seq(STRING) /\ arg.name \in Names
  BY <1>1, ArgumentIs
<1>3. PICK n \in Nat : n = Len(arg.opts)
  BY <1>2
<1> DEFINE f == [x \in S \X (1 .. n) |-> Option(x[1], argv, arg.opts[x[2]], arg.name)]
           Is(h) == h = [k \in 0 .. n |->
                           IF k = 0 THEN s ELSE Option(h[k - 1], argv, arg.opts[k], arg.name)]
           option == CHOOSE h : Is(h)
<1>4. \A x \in S, k \in 1 .. n : Option(x, argv, arg.opts[k], arg.name) \in S
  BY <1>1, <1>2, OptionIs
<1>5. IsStep(f, S, n)
  <2>1. ASSUME NEW x \in S \X (1 .. n) PROVE Option(x[1], argv, arg.opts[x[2]], arg.name) \in S
    BY <1>4
  <2> QED BY <2>1 DEF IsStep
<1>6. \A x \in S, k \in 1 .. n : f[<<x, k>>] = Option(x, argv, arg.opts[k], arg.name)
  OBVIOUS
<1>7. PICK g \in [0 .. n -> S] : Iterates(g, f, n, s)
  <2> HIDE DEF f
  <2> QED BY <1>1, <1>5, Iteration
<1>8. Is(g)
  <2> HIDE DEF f
  <2>1. ASSUME NEW k \in 1 .. n PROVE g[k] = Option(g[k - 1], argv, arg.opts[k], arg.name)
    <3>1. k - 1 \in 0 .. n
      OBVIOUS
    <3>2. g[k - 1] \in S
      BY <3>1
    <3> QED BY <1>6, <1>7, <3>2 DEF Iterates
  <2>2. \A k \in 0 .. n : g[k] = IF k = 0 THEN s ELSE Option(g[k - 1], argv, arg.opts[k], arg.name)
    BY <1>7, <2>1 DEF Iterates
  <2> QED BY <2>2
<1>9. Is(option)
  BY <1>8
<1>10. Cluster(s, argv, arg) = option[n]
  BY <1>3 DEF Cluster
<1>11. option[0] = s /\ \A k \in 1 .. n : option[k] = Option(option[k - 1], argv, arg.opts[k], arg.name)
  <2> HIDE DEF option
  <2>1. \A k \in 0 .. n : option[k] = IF k = 0 THEN s ELSE Option(option[k - 1], argv, arg.opts[k], arg.name)
    BY <1>9
  <2>2. 0 \in 0 .. n /\ \A k \in 1 .. n : k \in 0 .. n /\ k # 0
    OBVIOUS
  <2> QED BY <2>1, <2>2
<1>12. option[n] \in S
  <2> HIDE DEF option, f, Is
  <2>1. \A k \in 1 .. n : option[k - 1] \in S => option[k] \in S
    BY <1>4, <1>11
  <2>2. option[0] \in S
    BY <1>1, <1>11
  <2>3. \A k \in 0 .. n : option[k] \in S
    BY <2>1, <2>2, Stays
  <2> QED BY <2>3
<1> QED BY <1>1, <1>10, <1>12

\* An argument.
LEMMA ArgumentKeeps ==
    ASSUME NEW argv \in Arguments, NEW s \in ArgStates(Len(argv)), NEW j \in 1 .. Len(argv)
    PROVE  Argument(s, argv, j) \in ArgStates(Len(argv))
<1>1. PICK n : n = Len(argv) /\ n \in Nat
  BY DEF Arguments
<1>2. s.i \in Nat \ {0} /\ s.found \in BOOLEAN
  BY DEF ArgStates
<1>3. CASE s.bad \/ s.found \/ j < s.i
  BY <1>3 DEF Argument
<1>4. CASE ~(s.bad \/ s.found \/ j < s.i)
  <2>1. CASE argv[j].opts = <<>>
    <3>1. Argument(s, argv, j) = [s EXCEPT !.found = TRUE]
      BY <1>4, <2>1 DEF Argument
    <3>2. j <= n /\ s.i <= n
      BY <1>1, <1>2, <1>4
    <3> QED BY <1>1, <3>1, <3>2 DEF ArgStates
  <2>2. CASE argv[j].opts # <<>>
    <3>1. PICK r : r = Cluster(s, argv, argv[j])
      OBVIOUS
    <3>2. s \in Seeking(Len(argv))
      BY <1>2, <1>4 DEF Seeking
    <3>3. r \in Seeking(Len(argv))
      BY <3>1, <3>2, ClusterIs
    <3>4. Argument(s, argv, j) = [r EXCEPT !.i = @ + 1]
      BY <1>4, <2>2, <3>1 DEF Argument
    <3> QED BY <3>3, <3>4 DEF Seeking, ArgStates
  <2> QED BY <2>1, <2>2
<1> QED BY <1>3, <1>4

\* getargs, by induction on the arguments.
LEMMA GetargsIs ==
    ASSUME NEW argv \in Arguments
    PROVE  getargs(argv) \in ArgStates(Len(argv))
<1>1. PICK S : S = ArgStates(Len(argv))
  OBVIOUS
<1>2. PICK n \in Nat : n = Len(argv)
  BY DEF Arguments
<1> DEFINE f == [x \in S \X (1 .. n) |-> Argument(x[1], argv, x[2])]
           Is(h) == h = [j \in 0 .. n |-> IF j = 0 THEN Unscanned ELSE Argument(h[j - 1], argv, j)]
           scanned == CHOOSE h : Is(h)
<1>3. \A x \in S, j \in 1 .. n : Argument(x, argv, j) \in S
  BY <1>1, <1>2, ArgumentKeeps
<1>4. Unscanned \in S
  BY <1>1 DEF Unscanned, ArgStates, Names
<1>5. IsStep(f, S, n)
  <2>1. ASSUME NEW x \in S \X (1 .. n) PROVE Argument(x[1], argv, x[2]) \in S
    BY <1>3
  <2> QED BY <2>1 DEF IsStep
<1>6. \A x \in S, j \in 1 .. n : f[<<x, j>>] = Argument(x, argv, j)
  OBVIOUS
<1>7. PICK g \in [0 .. n -> S] : Iterates(g, f, n, Unscanned)
  <2> HIDE DEF f
  <2> QED BY <1>4, <1>5, Iteration
<1>8. Is(g)
  <2> HIDE DEF f
  <2>1. ASSUME NEW j \in 1 .. n PROVE g[j] = Argument(g[j - 1], argv, j)
    <3>1. j - 1 \in 0 .. n
      OBVIOUS
    <3>2. g[j - 1] \in S
      BY <3>1
    <3> QED BY <1>6, <1>7, <3>2 DEF Iterates
  <2>2. \A j \in 0 .. n : g[j] = IF j = 0 THEN Unscanned ELSE Argument(g[j - 1], argv, j)
    BY <1>7, <2>1 DEF Iterates
  <2> QED BY <2>2
<1>9. Is(scanned)
  BY <1>8
<1>10. getargs(argv) = scanned[n]
  BY <1>2 DEF getargs
<1>11. scanned[0] = Unscanned /\ \A j \in 1 .. n : scanned[j] = Argument(scanned[j - 1], argv, j)
  <2> HIDE DEF scanned
  <2>1. \A j \in 0 .. n : scanned[j] = IF j = 0 THEN Unscanned ELSE Argument(scanned[j - 1], argv, j)
    BY <1>9
  <2>2. 0 \in 0 .. n /\ \A j \in 1 .. n : j \in 0 .. n /\ j # 0
    OBVIOUS
  <2> QED BY <2>1, <2>2
<1>12. scanned[n] \in S
  <2> HIDE DEF scanned, f, Is
  <2>1. \A j \in 1 .. n : scanned[j - 1] \in S => scanned[j] \in S
    BY <1>3, <1>11
  <2>2. scanned[0] \in S
    BY <1>4, <1>11
  <2>3. \A j \in 0 .. n : scanned[j] \in S
    BY <2>1, <2>2, Stays
  <2> QED BY <2>3
<1> QED BY <1>1, <1>10, <1>12

\* The state that main finds: three descriptors, and nothing printed.
Fresh(s) ==
    /\ Kernel(s) /\ s.fds[0] = 0 /\ s.fds[1] = 1 /\ s.fds[2] \in {0, 2}
    /\ \A n \in Fds \ {0, 1, 2} : s.fds[n] = None
    /\ s.desc[0].file = Shell /\ s.desc[1].file = Output /\ s.desc[2].file = Keyboard
    /\ s.inc = <<>> /\ s.originp = None /\ s.ttyfdn = 2 /\ s.oupState = 0 /\ s.errflag = FALSE

\* Such a state is wired.
LEMMA FreshWired ==
    ASSUME NEW s, Fresh(s), ListName(s) # Output
    PROVE  Wired(s)
<1>1. Extra(s) = {} /\ Saved(s) = {} /\ IncFds(s) = {} /\ Tty(s) = {}
  <2>1. Saved(s) = {} /\ IncFds(s) = {} /\ Tty(s) = {}
    BY DEF Fresh, Saved, IncFds, Tty
  <2> QED BY <2>1 DEF Fresh, Extra
<1>2. {0, 1, 2} \subseteq Fds /\ None \notin Fds
  BY FdsAre
<1>3. Held(s)
  BY <1>1, <1>2 DEF Fresh, Held
<1>4. Distinct(s)
  <2>1. <<>> \in Seq({}) /\ Len(<<>>) = 0 /\ DOMAIN <<>> = {}
    OBVIOUS
  <2>2. IsStack(s.inc)
    BY <2>1 DEF IsStack, Fresh
  <2> QED BY <1>1, <2>1, <2>2, FdsAre DEF Distinct, Fresh
<1>5. ShellFile(s)
  BY DEF Fresh, ShellFile
<1>6. Listed(s)
  <2>1. s.errflag \in BOOLEAN
    BY Zenon DEF Fresh
  <2> QED BY <1>2, <2>1 DEF Fresh, Listed, HasOutput
<1> QED BY <1>3, <1>4, <1>5, <1>6 DEF Wired, Fresh

\* With a -T file.
LEMMA TtyWired ==
    ASSUME NEW s, NEW f, Fresh(s), ListName(s) # Output, f \notin {Shell, Keyboard, Output}
    PROVE  Wired(ttyoutfdn(s, f)) /\ Frame(s, ttyoutfdn(s, f), {"fds", "desc", "ttyfdn"})
<1>1. PICK t : t = ttyoutfdn(s, f)
  OBVIOUS
<1>2. {0, 1, 2, 3} \subseteq Fds /\ None \notin Fds
  BY FdsAre DEF Fds
<1>3. Lowest(s) = 3 /\ s.fds[3] = None
  <2>1. \A k \in 0 .. 3 - 1 : k \in {0, 1, 2}
    OBVIOUS
  <2>2. s.fds[0] # None /\ s.fds[1] # None /\ s.fds[2] # None /\ s.fds[3] = None
    BY <1>2 DEF Fresh, None
  <2>3. \A k \in 0 .. 3 - 1 : s.fds[k] # None
    BY <2>1, <2>2
  <2> QED BY <1>2, <2>2, <2>3, LowestHere
<1>4. PICK d : d = FreeDesc(s)
  OBVIOUS
<1>5. d \in Fds /\ \A k \in Fds : s.fds[k] # d
  BY <1>2, <1>3, <1>4, FreeDescIs DEF Fresh
<1>6. PICK o : o = [s EXCEPT !.fds[3] = d, !.desc[d] = [file |-> f, pos |-> 0]]
  OBVIOUS
<1>7. t = [o EXCEPT !.ttyfdn = 3]
  BY <1>1, <1>3, <1>4, <1>6 DEF ttyoutfdn, spit_open
<1>8. /\ Frame(s, o, {"fds", "desc"}) /\ o.fds = [s.fds EXCEPT ![3] = d]
      /\ o.desc = [s.desc EXCEPT ![d] = [file |-> f, pos |-> 0]]
  BY <1>6 DEF Fresh, Kernel, Frame, IoFields
<1>9. Frame(o, t, {"ttyfdn"}) /\ t.ttyfdn = 3
  BY <1>7, <1>8 DEF Frame, IoFields
<1>10. Frame(s, t, {"fds", "desc", "ttyfdn"}) /\ t.fds = o.fds /\ t.desc = o.desc
  BY <1>8, <1>9 DEF Frame, IoFields
<1>11. /\ t.fds[3] = d /\ \A n \in Fds \ {3} : t.fds[n] = s.fds[n]
       /\ DOMAIN t.desc = Fds /\ t.desc[d] = [file |-> f, pos |-> 0]
       /\ \A e \in Fds \ {d} : t.desc[e] = s.desc[e]
  BY <1>2, <1>5, <1>8, <1>10 DEF Fresh, Kernel
<1>12. /\ t.inc = <<>> /\ t.originp = None /\ t.oupState = 0 /\ t.errflag = FALSE
       /\ ListName(t) = ListName(s)
  <2>1. t.inc = s.inc /\ t.originp = s.originp /\ t.oupState = s.oupState /\ t.errflag = s.errflag
        /\ t.argv = s.argv /\ t.first = s.first /\ t.outptr = s.outptr /\ t.listing = s.listing
    BY <1>10 DEF Frame, IoFields
  <2> QED BY <2>1 DEF ListName, Fresh
<1>13. Kernel(t)
  <2>1. t.fds \in [Fds -> Fds \cup {None}]
    BY <1>2, <1>5, <1>8, <1>10 DEF Fresh, Kernel
  <2>2. \A e \in Fds : DOMAIN t.desc[e] = {"file", "pos"}
    BY <1>5, <1>11 DEF Fresh, Kernel
  <2>3. DOMAIN t = IoFields
    BY <1>10 DEF Frame
  <2> QED BY <1>11, <2>1, <2>2, <2>3 DEF Kernel
<1>14. Extra(t) = {3} /\ Saved(t) = {} /\ IncFds(t) = {} /\ Tty(t) = {3}
  <2>1. Saved(t) = {} /\ IncFds(t) = {} /\ Tty(t) = {3}
    BY <1>9, <1>12 DEF Saved, IncFds, Tty
  <2> QED BY <1>12, <2>1 DEF Extra
<1>15. t.fds[0] = 0 /\ t.fds[1] = 1 /\ t.fds[2] = s.fds[2] /\ d # 0 /\ d # 1 /\ d # s.fds[2]
  BY <1>2, <1>5, <1>11 DEF Fresh
<1>16. Held(t)
  <2>1. \A n \in Fds \ {1} : t.fds[n] # None <=> n \in {0, 2} \cup Extra(t)
    BY <1>2, <1>5, <1>11, <1>14, <1>15 DEF Fresh
  <2> QED BY <1>2, <1>14, <1>15, <2>1 DEF Held
<1>17. Distinct(t)
  <2>1. <<>> \in Seq({}) /\ Len(<<>>) = 0 /\ DOMAIN <<>> = {}
    OBVIOUS
  <2>2. IsStack(t.inc)
    BY <1>12, <2>1 DEF IsStack
  <2> QED BY <1>12, <1>14, <2>1, <2>2, FdsAre DEF Distinct
<1>18. ShellFile(t)
  <2>1. t.desc[t.fds[2]].file \in {Shell, Keyboard}
    BY <1>2, <1>11, <1>15 DEF Fresh
  <2>2. t.desc[t.fds[3]].file = f
    BY <1>11
  <2> QED BY <1>9, <1>12, <1>15, <2>1, <2>2 DEF ShellFile
<1>19. Listed(t)
  <2>1. HasOutput(t, 1)
    BY <1>2, <1>11, <1>15 DEF Fresh, HasOutput
  <2>2. t.errflag \in BOOLEAN
    BY <1>12, Zenon
  <2> QED BY <1>12, <2>1, <2>2 DEF Listed
<1> QED BY <1>1, <1>10, <1>13, <1>16, <1>17, <1>18, <1>19 DEF Wired

\* A file name has an extension, if an empty one.
LEMMA NamesAre == "ext" \in DOMAIN Hyphen /\ \A f \in Names : "ext" \in DOMAIN f
<1>1. "ext" \in DOMAIN Hyphen
  BY DEF Hyphen, Name
<1>2. "ext" \in DOMAIN NoName
  BY DEF NoName, Name
<1>3. ASSUME NEW f \in FileNames PROVE "ext" \in DOMAIN f
  BY DEF FileNames
<1> QED BY <1>1, <1>2, <1>3 DEF Names

\* What getargs leaves.
LEMMA GlobalsFresh ==
    ASSUME NEW argv \in Arguments, NEW shell, NEW g \in ArgStates(Len(argv))
    PROVE  /\ Fresh(Globals(argv, shell, g))
           /\ Globals(argv, shell, g).printed =
                 [shell |-> <<>>, list |-> <<>>, terminal |-> <<>>, tty |-> <<>>]
           /\ Globals(argv, shell, g).executing = FALSE
           /\ g.found => /\ BeforeMain(Globals(argv, shell, g))
                         /\ ListName(Globals(argv, shell, g)) # Output
<1>1. PICK s : s = Globals(argv, shell, g)
  OBVIOUS
<1>2. /\ DOMAIN s = IoFields
      /\ s.fds = [n \in Fds |-> CASE n = 2 /\ shell = "tty" -> 0 [] n > 2 -> None [] OTHER -> n]
      /\ s.desc = [d \in Fds |-> [file |-> CASE d = 0 -> Shell [] d = 2 -> Keyboard [] OTHER -> Output,
                                  pos |-> 0]]
      /\ s.argv = [j \in DOMAIN argv |-> IF argv[j].opts = <<>> THEN argv[j].name ELSE Hyphen]
      /\ s.first = g.i /\ s.inpcnt = Len(argv) + 1 - g.i /\ s.cmdcnt = g.i /\ s.curfile = 0
      /\ s.outptr = g.outptr
      /\ s.inc = <<>> /\ s.originp = None /\ s.ttyfdn = 2 /\ s.oupState = 0 /\ s.errflag = FALSE
      /\ s.executing = FALSE
      /\ s.printed = [shell |-> <<>>, list |-> <<>>, terminal |-> <<>>, tty |-> <<>>]
  BY <1>1 DEF Globals, IoFields
<1>3. {0, 1, 2} \subseteq Fds /\ None \notin Fds /\ Fds \subseteq Nat
  BY FdsAre
<1>4. /\ s.fds[0] = 0 /\ s.fds[1] = 1 /\ s.fds[2] \in {0, 2}
      /\ \A n \in Fds \ {0, 1, 2} : s.fds[n] = None
      /\ s.fds \in [Fds -> Fds \cup {None}]
  <2>1. s.fds[0] = 0 /\ s.fds[1] = 1
    BY <1>2, <1>3
  <2>2. s.fds[2] \in {0, 2}
    BY <1>2, <1>3
  <2>3. \A n \in Fds \ {0, 1, 2} : n > 2 /\ n # 2
    BY <1>3
  <2>4. \A n \in Fds \ {0, 1, 2} : s.fds[n] = None
    BY <1>2, <2>3
  <2>5. \A n \in Fds : s.fds[n] \in Fds \cup {None}
    BY <1>3, <2>1, <2>2, <2>4
  <2>6. s.fds = [n \in Fds |-> s.fds[n]]
    BY <1>2
  <2> QED BY <2>1, <2>2, <2>4, <2>5, <2>6
<1>5. /\ DOMAIN s.desc = Fds /\ \A d \in Fds : DOMAIN s.desc[d] = {"file", "pos"}
      /\ s.desc[0].file = Shell /\ s.desc[1].file = Output /\ s.desc[2].file = Keyboard
  BY <1>2, <1>3
<1>6. Fresh(s)
  BY <1>2, <1>4, <1>5 DEF Fresh, Kernel
<1>7. PICK n \in Nat : n = Len(argv)
  BY DEF Arguments
<1>8. DOMAIN s.argv = 1 .. n /\ Len(s.argv) = n
  <2>1. DOMAIN argv = 1 .. n
    BY <1>7 DEF Arguments
  <2>2. DOMAIN s.argv = 1 .. n
    BY <1>2, <2>1
  <2> QED BY <1>2, <1>7, <2>1, <2>2
<1>9. ASSUME g.found PROVE BeforeMain(s) /\ ListName(s) # Output
  <2>1. g.i \in 1 .. n /\ g.outptr \in Names
    BY <1>7, <1>9 DEF ArgStates
  <2>2. BeforeMain(s)
    BY <1>2, <1>7, <1>8, <2>1 DEF BeforeMain
  <2>3. PICK a, b : a = [s.argv[s.first] EXCEPT !.ext = ".lst"] /\ b = [s.outptr EXCEPT !.ext = ".lst"]
    OBVIOUS
  <2>4. a.ext = ".lst"
    <3>1. s.argv[s.first] = Hyphen \/ s.argv[s.first] = argv[g.i].name
      BY <1>2, <1>7, <1>8, <2>1
    <3>2. argv[g.i].name \in Names
      BY <1>7, <2>1, ArgumentIs
    <3>3. "ext" \in DOMAIN s.argv[s.first]
      BY <3>1, <3>2, NamesAre
    <3> QED BY <2>3, <3>3
  <2>5. b.ext = ".lst"
    <3> QED BY <1>2, <2>1, <2>3, NamesAre
  <2>6. Output.ext = "" /\ NoName # Output
    BY NamesDiffer DEF Output, Name
  <2>7. a # Output /\ b # Output
    BY <2>4, <2>5, <2>6
  <2>8. s.outptr = NoName \/ s.outptr # Output
    BY <1>2, <2>1 DEF Names
  <2>9. ListName(s) = IF s.outptr = NoName
                      THEN IF s.listing THEN a ELSE NoName
                      ELSE IF s.outptr.ext = "" THEN b ELSE s.outptr
    BY <2>3, Zenon DEF ListName
  <2> QED BY <2>2, <2>6, <2>7, <2>8, <2>9
<1> QED BY <1>1, <1>2, <1>6, <1>9

\* The invariant holds at the start,
LEMMA InitHolds == ASSUME Init PROVE Inv
<1> DEFINE from(start, ok, g, s) ==
             /\ io = IF g.ttyfile # NoName /\ ok THEN ttyoutfdn(s, g.ttyfile) ELSE s
             /\ comp = [stage |-> CASE g.bad \/ ~ok -> "bad option"
                                    [] g.found /\ ~g.bad /\ ok -> "main" [] OTHER -> "prompt",
                        cnind |-> 0, included |-> {}, errors |-> FALSE, calls |-> 0]
<1>0. PICK start \in Starts, ok \in BOOLEAN :
        from(start, ok, getargs(start.argv), Globals(start.argv, start.shell, getargs(start.argv)))
  BY Zenon DEF Init
<1>1. PICK g, s : /\ g = getargs(start.argv) /\ s = Globals(start.argv, start.shell, g)
                  /\ from(start, ok, g, s)
  <2> HIDE DEF from
  <2> QED BY <1>0
<1>2. start.argv \in Arguments
  BY SessionAssumption DEF Arguments
<1>3. g \in ArgStates(Len(start.argv))
  BY <1>1, <1>2, GetargsIs
<1>4. /\ Fresh(s) /\ s.executing = FALSE
      /\ s.printed = [shell |-> <<>>, list |-> <<>>, terminal |-> <<>>, tty |-> <<>>]
      /\ g.found => BeforeMain(s) /\ ListName(s) # Output
  BY <1>1, <1>2, <1>3, GlobalsFresh
<1>5. PICK stage : stage = CASE g.bad \/ ~ok -> "bad option"
                             [] g.found /\ ~g.bad /\ ok -> "main" [] OTHER -> "prompt"
  OBVIOUS
<1>6. DOMAIN comp = CompFields /\ comp.stage = stage
  BY <1>1, <1>5 DEF CompFields
<1>7. stage \in Ended \/ (stage = "main" /\ g.found)
  BY <1>5 DEF Ended
<1>8. CASE io = s
  <2>1. Printed(io, stage)
    BY <1>4, <1>8, PrintedNothing
  <2>2. ASSUME stage \notin Ended PROVE Good(io, stage)
    <3>1. stage = "main" /\ g.found
      BY <1>7, <2>2
    <3>2. Wired(io)
      BY <1>4, <1>8, <3>1, FreshWired
    <3> QED BY <1>4, <1>8, <3>1, <3>2 DEF Good, Staged, Reading, Running
  <2> QED BY <1>6, <2>1, <2>2 DEF Inv, Holds
<1>9. CASE io = ttyoutfdn(s, g.ttyfile) /\ g.ttyfile # NoName
  <2>1. g.ttyfile \notin {Shell, Keyboard, Output}
    BY <1>3, <1>9 DEF ArgStates, Names
  <2>2. io.printed = s.printed
    BY <1>9 DEF ttyoutfdn, spit_open
  <2>3. Printed(io, stage)
    BY <1>4, <2>2, PrintedNothing
  <2>4. ASSUME stage \notin Ended PROVE Good(io, stage)
    <3>1. stage = "main" /\ g.found
      BY <1>7, <2>4
    <3>2. Wired(io) /\ Frame(s, io, {"fds", "desc", "ttyfdn"})
      BY <1>4, <1>9, <2>1, <3>1, TtyWired
    <3>3. /\ io.oupState = s.oupState /\ io.originp = s.originp /\ io.curfile = s.curfile
          /\ io.errflag = s.errflag /\ io.first = s.first /\ io.argv = s.argv
          /\ io.cmdcnt = s.cmdcnt /\ io.inpcnt = s.inpcnt /\ io.executing = s.executing
      BY <3>2 DEF Frame, IoFields
    <3>4. BeforeMain(io)
      BY <1>4, <2>2, <3>1, <3>3 DEF BeforeMain
    <3> QED BY <1>4, <3>1, <3>2, <3>3, <3>4 DEF Good, Staged, Reading, Running
  <2> QED BY <1>6, <2>3, <2>4 DEF Inv, Holds
<1> QED BY <1>1, <1>8, <1>9

\* every step keeps it,
LEMMA NextHolds == ASSUME Inv, [Next]_vars PROVE Inv'
<1>1. CASE UNCHANGED vars
  BY <1>1 DEF vars, Inv
<1>2. CASE Main
  BY <1>2, MainStep
<1>3. CASE Readr
  BY <1>3, ReadrKeeps
<1>4. CASE Begin
  BY <1>4, BeginStep
<1>5. CASE Input
  BY <1>5, InputKeeps
<1>6. CASE Host
  BY <1>6, HostStep
<1>7. CASE Terminal
  BY <1>7, TerminalKeeps
<1>8. CASE Write
  BY <1>8, WriteStep
<1>9. CASE Say
  BY <1>9, SayStep
<1>10. CASE Stop
  BY <1>10, StopStep
<1>11. CASE \E f \in CodeNames : Code(f)
  BY <1>11, CodeKeeps
<1>12. CASE \E n \in 0 .. 1 : Command(n)
  BY <1>12, CommandKeeps
<1> QED BY <1>1, <1>2, <1>3, <1>4, <1>5, <1>6, <1>7, <1>8, <1>9, <1>10, <1>11, <1>12 DEF Next

\* and so it always holds: for any disk, search path and buffer size, any depth of
\* include files, any command lines whose arguments are files of their own, and any
\* number of calls.
THEOREM Invariance == Spec => []Inv
<1>1. Init => Inv
  BY InitHolds
<1>2. Inv /\ [Next]_vars => Inv'
  BY NextHolds
<1> QED BY <1>1, <1>2, PTL DEF Spec

\* An injective sequence has as many values as its length.
LEMMA AsManyAsLong ==
    ASSUME NEW S, NEW q \in Seq(S), \A j, k \in DOMAIN q : q[j].fd = q[k].fd => j = k
    PROVE  /\ IsFiniteSet({q[k].fd : k \in DOMAIN q})
           /\ Cardinality({q[k].fd : k \in DOMAIN q}) = Len(q)
<1>1. PICK n \in Nat : n = Len(q) /\ DOMAIN q = 1 .. n
  OBVIOUS
<1>2. PICK T : T = {q[k].fd : k \in DOMAIN q}
  OBVIOUS
<1> DEFINE f == [k \in 1 .. n |-> q[k].fd]
<1>3. f \in [1 .. n -> T]
  BY <1>1, <1>2
<1>4. \A j, k \in 1 .. n : f[j] = f[k] => j = k
  BY <1>1
<1>5. \A t \in T : \E k \in 1 .. n : f[k] = t
  BY <1>1, <1>2
<1>6. f \in Bijection(1 .. n, T)
  <2> HIDE DEF f
  <2>1. IsInjective(f)
    BY <1>3, <1>4 DEF IsInjective
  <2> QED BY <1>3, <1>5, <2>1 DEF Bijection, Injection, Surjection
<1>7. ExistsBijection(1 .. n, T)
  BY <1>6 DEF ExistsBijection
<1>8. Cardinality(T) = n
  BY <1>7, FS_CountingElements
<1>9. IsFiniteSet(T)
  <2>1. IsFiniteSet(1 .. n)
    BY FS_Interval
  <2> QED BY <1>7, <2>1, FS_Bijection
<1> QED BY <1>1, <1>2, <1>8, <1>9

\* Disjoint sets, put together.
LEMMA Together ==
    ASSUME NEW A, NEW B, IsFiniteSet(A), IsFiniteSet(B), A \cap B = {}
    PROVE  IsFiniteSet(A \cup B) /\ Cardinality(A \cup B) = Cardinality(A) + Cardinality(B)
<1>1. IsFiniteSet(A \cup B) /\ Cardinality(A \cup B) = Cardinality(A) + Cardinality(B) - Cardinality(A \cap B)
  BY FS_Union
<1>2. Cardinality(A \cap B) = 0
  BY FS_EmptySet
<1>3. Cardinality(A) \in Nat /\ Cardinality(B) \in Nat
  BY FS_CardinalityType
<1> QED BY <1>1, <1>2, <1>3

\* Every open descriptor is one of the shell's, the duplicate of its standard input,
\* the saved standard output, the -T file's or an including file's; these differ from
\* each other, so that none is left open and none closed that is needed: for any disk,
\* any command line, any depth of include files and any number of calls.
THEOREM DescriptorsHold == Spec => []Descriptors
<1>1. ASSUME Inv PROVE Descriptors
  <2> SUFFICES ASSUME comp.stage \notin {"main"} \cup Ended
               PROVE  Descriptors
    BY DEF Descriptors
  <2>1. PICK s : s = io
    OBVIOUS
  <2>2. Wired(s) /\ s.originp # None
    BY <1>1, <2>1 DEF Inv, Holds, Good, Staged
  <2>3. Held(s) /\ Distinct(s) /\ ShellFile(s)
    BY <2>2 DEF Wired
  <2>4. PICK A, B, C, D : A = {s.originp} /\ B = Saved(s) /\ C = IncFds(s) /\ D = Tty(s)
    OBVIOUS
  <2>5. Extra(s) = A \cup B \cup C \cup D
    BY <2>2, <2>4 DEF Extra
  <2>6. {0, 1, 2} \subseteq Fds /\ Extra(s) \subseteq Fds \ {0, 1, 2} /\ s.fds[0] # None /\ s.fds[2] # None
    BY <2>2, <2>3, InUse, FdsAre DEF Held
  <2>7. PICK open : open = {n \in Fds : s.fds[n] # None}
    OBVIOUS
  <2>8. {0, 2} \subseteq open /\ open \ {1} = ({0, 2} \cup A \cup B \cup C \cup D) \ {1}
    <3>1. \A n \in Fds \ {1} : n \in open <=> n \in {0, 2} \cup Extra(s)
      BY <2>3, <2>7 DEF Held
    <3>2. open \subseteq Fds
      BY <2>7
    <3> QED BY <2>5, <2>6, <2>7, <3>1, <3>2
  <2>9. /\ IsFiniteSet(A) /\ Cardinality(A) = 1
        /\ IsFiniteSet(C) /\ Cardinality(C) = Len(s.inc)
        /\ IsFiniteSet(B) /\ IsFiniteSet(D)
    <3>1. IsFiniteSet(C) /\ Cardinality(C) = Len(s.inc)
      BY <2>3, <2>4, AsManyAsLong DEF Distinct, IsStack, IncFds
    <3>2. IsFiniteSet(A) /\ Cardinality(A) = 1
      BY <2>4, FS_Singleton
    <3>3. IsFiniteSet(B)
      BY <2>4, FS_Singleton, FS_EmptySet DEF Saved
    <3>4. IsFiniteSet(D)
      <4>1. IsFiniteSet({s.ttyfdn})
        BY FS_Singleton
      <4> QED BY <2>4, <4>1, FS_Subset DEF Tty
    <3> QED BY <3>1, <3>2, <3>3, <3>4
  <2>10. A \cap B = {} /\ (A \cup B) \cap C = {} /\ (A \cup B \cup C) \cap D = {}
    BY <2>2, <2>3, <2>4 DEF Distinct
  <2>11. Cardinality(A \cup B \cup C \cup D) = 1 + Cardinality(B) + Len(s.inc) + Cardinality(D)
    <3>1. IsFiniteSet(A \cup B) /\ Cardinality(A \cup B) = 1 + Cardinality(B)
      BY <2>9, <2>10, Together
    <3>2. Cardinality(B) \in Nat /\ Cardinality(C) \in Nat /\ Cardinality(D) \in Nat
      BY <2>9, FS_CardinalityType
    <3>3. PICK E : E = A \cup B
      OBVIOUS
    <3>4. IsFiniteSet(E \cup C) /\ Cardinality(E \cup C) = Cardinality(E) + Cardinality(C)
      BY <2>9, <2>10, <3>1, <3>3, Together
    <3>5. PICK F : F = E \cup C
      OBVIOUS
    <3>6. Cardinality(F \cup D) = Cardinality(F) + Cardinality(D)
      BY <2>9, <2>10, <3>3, <3>4, <3>5, Together
    <3> QED BY <2>9, <3>1, <3>2, <3>3, <3>4, <3>5, <3>6
  <2>12. Len(s.inc) <= Depth /\ (1 \notin open => s.oupState = 3) /\ s.fds[s.originp] = 0
    BY <2>2, <2>3, <2>6, <2>7 DEF Held, Distinct, ShellFile
  <2>13. /\ open = {n \in Fds : io.fds[n] # None}
         /\ A = {io.originp}
         /\ B = IF io.oupState = 1 /\ ~io.errflag THEN {io.origoup} ELSE {}
         /\ C = {io.inc[k].fd : k \in DOMAIN io.inc} /\ D = {io.ttyfdn} \ {2}
    BY <2>1, <2>4, <2>7 DEF Saved, IncFds, Tty
  <2>14. {0, 2, s.originp} \cup B \cup C \cup D = {0, 2} \cup A \cup B \cup C \cup D
    BY <2>4
  <2> QED BY <2>1, <2>4, <2>8, <2>11, <2>12, <2>13, <2>14, Zenon DEF Descriptors
<1> QED BY <1>1, Invariance, PTL

\* With a listing or an -o file that can be opened, only the program's own output is
\* on the shell's standard output, the listing file has the listing and then at
\* most the statistics, which never overwrite it, and TERMINAL keeps to itself.
THEOREM OutputSeparatedHolds == Spec => []OutputSeparated
<1>1. ASSUME Inv PROVE OutputSeparated
  <2>1. Printed(io, comp.stage) /\ Prints(io.printed)
    BY <1>1 DEF Inv, Holds, Printed
  <2>2. PICK p : p = io.printed
    OBVIOUS
  <2>3. PICK S : S = {"terminal"}
    OBVIOUS
  <2>4. p.terminal \in Seq(S) /\ p.tty \in Seq(S)
    BY <2>1, <2>2, <2>3 DEF Prints
  <2>5. ToSet(p.terminal \o p.tty) \subseteq S
    <3>1. PICK q \in Seq(S) : q = p.terminal \o p.tty
      BY <2>4, ConcatProperties
    <3>2. \A i \in DOMAIN q : q[i] \in S
      OBVIOUS
    <3> QED BY <3>1, <3>2 DEF ToSet
  <2>6. ~Contains(p.shell, "terminal")
    <3>1. DOMAIN p.shell = 1 .. Len(p.shell)
      BY <2>1, <2>2 DEF Prints
    <3> QED BY <2>1, <2>2, <3>1 DEF Contains, Prints
  <2> QED BY <2>1, <2>2, <2>3, <2>5, <2>6 DEF OutputSeparated, Printed, Prints, Separate
<1> QED BY <1>1, Invariance, PTL

\* While the program is read, HOST(3) is the index of the argument after the source
\* files read so far, or the one a #! line has set.
THEOREM ArgumentsLeftHolds == Spec => []ArgumentsLeft
<1>1. ASSUME Inv PROVE ArgumentsLeft
  <2> SUFFICES ASSUME comp.stage \in Reading
               PROVE  ArgumentsLeft
    BY DEF ArgumentsLeft, Reading
  <2>1. Counts(io)
    BY <1>1 DEF Inv, Holds, Good, Staged, Reading, Ended
  <2> QED BY <2>1 DEF Counts, ArgumentsLeft
<1> QED BY <1>1, Invariance, PTL
=============================================================================
