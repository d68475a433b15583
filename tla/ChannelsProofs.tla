--------------------------- MODULE ChannelsProofs ---------------------------
(***************************************************************************)
(* Proofs about Channels, for any channels, variables, files and commands, *)
(* any number of descriptors, blocks and processes, and any calls that are *)
(* Suitable (Channels says which, and why others are not).                 *)
(*                                                                         *)
(* None of the properties is inductive.  That no descriptor is shared, and *)
(* no output lost, depends on which ioblks the chain and the table can     *)
(* still reach (OnChain, Reached), on no two blocks of the table leading   *)
(* to the same one (Apart), and on what each ioblk says of its descriptor  *)
(* and its process (Sane).  While ENDFILE or the end of the run closes an  *)
(* ioblk, and while sysio fills one in, one ioblk or one process is an     *)
(* exception, which Files takes as a parameter.  Inv says all of it.       *)
(*                                                                         *)
(* First the operators on sets and sequences and the collector; then what  *)
(* becomes of the table and of one ioblk, each as a relation of two states *)
(* (Made, Opens, Shuts, Marks) that keeps Table or Files; then each action *)
(* as such relations; then the properties.                                 *)
(***************************************************************************)
EXTENDS Channels, SequenceTheorems, Induction

------------------------------------------------------------------------------
(* The inductive invariant. *)
Ats == {"idle", "closed", "waiting", "exit", "crash", "killed"}
ChildStates == {"none", "running", "killed", "zombie", "reaped"}
Fields == {"chan", "block", "assoc", "fcblk", "iob", "r_fcb", "fds", "child"}
IobFields == {"file", "inp", "oup", "sys", "opn", "wrc", "pip", "ded", "fd", "pid", "dirty"}

IobType(b) ==
    /\ DOMAIN b = IobFields
    /\ b.inp \in BOOLEAN /\ b.oup \in BOOLEAN /\ b.sys \in BOOLEAN /\ b.opn \in BOOLEAN
    /\ b.pip \in BOOLEAN /\ b.ded \in BOOLEAN /\ b.dirty \in BOOLEAN
    /\ b.fd \in 0..2 \cup Fds /\ b.pid \in Pids \cup {0}

\* The types of the storage.
Shape(s) ==
    /\ DOMAIN s = Fields
    /\ s.chan \in [Chans -> Blocks \cup {0}]
    /\ s.block \in [Blocks -> [fcb : Fcbs \cup {0}, iochn : SUBSET Vars]]
    /\ s.assoc \in [Vars -> [Dirs -> Blocks \cup {0, Std}]]
    /\ s.fcblk \in [Fcbs -> Iobs \cup {0}]
    /\ DOMAIN s.iob = Iobs /\ \A i \in Iobs : IobType(s.iob[i])
    /\ s.r_fcb \in Seq(Fcbs)
    /\ s.fds \in [Fds -> Pids \cup {0, Closed}]
    /\ DOMAIN s.child = Pids
    /\ \A p \in Pids : /\ DOMAIN s.child[p] = {"state", "reads", "holds"}
                       /\ s.child[p].state \in ChildStates

\* Block b is in use; fcblk f is on the chain; ioblk i can be reached.
Live(s, b) ==
    /\ b \in Blocks
    /\ (\E c \in Chans : s.chan[c] = b) \/ (\E v \in Vars, d \in Dirs : s.assoc[v][d] = b)
Chained(s, i) == \E k \in DOMAIN s.r_fcb : s.fcblk[s.r_fcb[k]] = i
Reached(s, i) == Chained(s, i) \/ \E b \in Blocks : Live(s, b) /\ s.fcblk[s.block[b].fcb] = i

\* Every block in use has its own fcblk, and no two lead to the same ioblk.
Filled(s) == \A b \in Blocks : Live(s, b) => s.block[b].fcb # 0
Apart(s) ==
    \A a, b \in Blocks : Live(s, a) /\ Live(s, b) /\ a # b =>
       /\ s.block[a].fcb # s.block[b].fcb
       /\ s.fcblk[s.block[a].fcb] = 0 \/ s.fcblk[s.block[a].fcb] # s.fcblk[s.block[b].fcb]
Attached(s) ==
    \A v \in Vars, d \in Dirs : s.assoc[v][d] > 0 => v \in s.block[s.assoc[v][d]].iochn

\* Every ioblk that is open, but x, is on the chain; none but those hold output.
OnChain(s, x) ==
    /\ \A i \in Iobs : s.iob[i].opn /\ i # x => Chained(s, i)
    /\ \A i \in Iobs : s.iob[i].dirty => s.iob[i].opn

\* What an ioblk says of its descriptor and its process, while p is waited for.
Opened(s, i, p) ==
    LET b == s.iob[i] IN b.opn =>
       /\ b.fd \in Fds \/ (b.sys /\ b.fd \in 0..2)
       /\ b.fd \in Fds => s.fds[b.fd] = IF b.pip THEN b.pid ELSE 0
       /\ b.pip => /\ b.pid # 0 /\ b.pid # p /\ s.child[b.pid].state # "none"
                   /\ b.ded <=> s.child[b.pid].state = "reaped"
Shut(s, i, p) ==
    LET b == s.iob[i] IN ~b.opn =>
       /\ ~b.ded /\ ~b.dirty
       /\ b.pid # 0 /\ b.pid # p => s.child[b.pid].state \in {"none", "reaped"}
Sane(s, i, p) ==
    /\ s.iob[i].pid # 0 => s.iob[i].pip
    /\ s.iob[i].pip => s.iob[i].file \in Commands
    /\ Opened(s, i, p) /\ Shut(s, i, p)
AllSane(s, p) == \A i \in Iobs : Reached(s, i) => Sane(s, i, p)

\* A descriptor belongs to one open ioblk, a process to one ioblk.
Owned(s) ==
    /\ \A d \in Fds : s.fds[d] # Closed => \E i \in Iobs : s.iob[i].opn /\ s.iob[i].fd = d
    /\ \A i, j \in Iobs : s.iob[i].opn /\ s.iob[j].opn /\ i # j /\ s.iob[i].fd \in Fds =>
          s.iob[i].fd # s.iob[j].fd
OwnPid(s) ==
    \A i, j \in Iobs : Reached(s, i) /\ Reached(s, j) /\ i # j /\ s.iob[i].pid # 0 =>
       s.iob[i].pid # s.iob[j].pid

\* With ioblk x not on the chain yet, and while process p is waited for.
Table(s) == Filled(s) /\ Apart(s) /\ Attached(s)
Files(s, x, p) == OnChain(s, x) /\ AllSane(s, p) /\ Owned(s) /\ OwnPid(s)

\* A call that is waiting or has come back.
Closing == op.at \in {"closed", "waiting"}
AwaitedNow == IF op.at = "waiting" THEN op.pid ELSE 0
OpType ==
    /\ DOMAIN op = {"at", "pid", "todo", "why", "chan", "errs"}
    /\ op.at \in Ats /\ op.todo \in Seq(Fcbs)
    /\ op.at = "waiting" => op.pid # 0
    /\ Closing => op.why \in {"endfile", "end", "chain"}

\* ENDFILE: what is left of the channel's file are descriptors of the shell.
EndfileInv ==
    Closing /\ op.why = "endfile" =>
      /\ \E c \in Chans : w.chan[c] = op.chan
      /\ op.chan \in Blocks /\ op.todo = <<>>
      /\ \E i \in Iobs : i = w.fcblk[w.block[op.chan].fcb]
                           /\ (w.iob[i].opn => w.iob[i].fd \notin Fds)

\* close_all: the output that is left is in the ioblks that it has yet to close.
CloseAllInv ==
    Closing /\ op.why # "endfile" =>
      \A i \in Iobs : w.iob[i].dirty => \E k \in DOMAIN op.todo : w.fcblk[op.todo[k]] = i

Inv ==
    /\ Shape(w) /\ OpType /\ Table(w)
    /\ op.at \notin Ends => Files(w, 0, AwaitedNow)
    /\ EndfileInv /\ CloseAllInv
    /\ op.at = "exit" => \A i \in Iobs : ~w.iob[i].dirty
------------------------------------------------------------------------------
(* The model's operators on sets and sequences. *)
LEMMA LeastIn ==
    ASSUME NEW T, T \subseteq Nat, T # {}
    PROVE  Min(T) \in T
<1>1. \E m \in T : \A k \in T : m <= k
  BY LeastNat
<1> QED BY <1>1 DEF Min

\* Max gives a member of a set of positions.
LEMMA GreatestIn ==
    ASSUME NEW n \in Nat, NEW T, T \subseteq 1 .. n, T # {}
    PROVE  Max(T) \in T
<1> DEFINE below == {n - k : k \in T}
<1>1. below \subseteq Nat /\ below # {}
  <2>1. \A k \in T : k \in 1 .. n /\ n - k \in Nat
    OBVIOUS
  <2> QED BY <2>1
<1>2. PICK m \in below : \A j \in below : m <= j
  BY <1>1, LeastNat
<1>3. PICK k \in T : m = n - k
  OBVIOUS
<1>4. \A j \in T : k >= j
  <2> SUFFICES ASSUME NEW j \in T PROVE k >= j
    OBVIOUS
  <2>1. n - k <= n - j
    BY <1>2, <1>3
  <2> QED BY <2>1
<1> QED BY <1>4 DEF Max

\* What the options ask for: types, and the descriptor that option F names.
LEMMA SioargType ==
    ASSUME NEW dir, NEW a, IsArgument(a), StartedWith(a), NEW t, t = sioarg(dir, a.opts)
    PROVE  /\ t.ok \in BOOLEAN /\ t.typ \in BOOLEAN /\ t.inp \in BOOLEAN /\ t.oup \in BOOLEAN
           /\ t.opn \in BOOLEAN /\ t.fdn \in 0 .. 2
<1> DEFINE fds == {k \in DOMAIN a.opts : a.opts[k].letter = "F"}
<1>1. Len(a.opts) \in Nat /\ DOMAIN a.opts = 1 .. Len(a.opts)
  BY DEF IsArgument
<1>2. fds # {} => Max(fds) \in fds
  <2>1. fds \subseteq 1 .. Len(a.opts)
    BY <1>1
  <2> HIDE DEF fds
  <2> QED BY <1>1, <2>1, GreatestIn
<1>3. fds # {} => a.opts[Max(fds)].num \in 0 .. 2
  <2> SUFFICES ASSUME fds # {} PROVE a.opts[Max(fds)].num \in 0 .. 2
    OBVIOUS
  <2>1. PICK k \in DOMAIN a.opts : k = Max(fds) /\ a.opts[k].letter = "F"
    BY <1>2
  <2> QED BY <2>1 DEF StartedWith
<1>4. t.fdn = IF fds = {} THEN 0 ELSE a.opts[Max(fds)].num
  BY DEF sioarg
<1>5. t.fdn \in 0 .. 2
  BY <1>3, <1>4
<1> QED BY <1>5 DEF sioarg

\* The first occurrence of an element goes, and nothing else.
LEMMA RemoveFirstIs ==
    ASSUME NEW S, NEW q \in Seq(S), NEW e, NEW r, r = RemoveFirst(q, e)
    PROVE  /\ r \in Seq(S)
           /\ \A k \in DOMAIN q : q[k] # e => \E j \in DOMAIN r : r[j] = q[k]
           /\ \A j \in DOMAIN r : \E k \in DOMAIN q : q[k] = r[j]
<1>1. CASE ~ \E i \in 1 .. Len(q) : q[i] = e
  BY <1>1 DEF RemoveFirst
<1>2. CASE \E i \in 1 .. Len(q) : q[i] = e
  <2> DEFINE I == {i \in 1 .. Len(q) : q[i] = e}
  <2>1. PICK m \in 1 .. Len(q) : m = Min(I) /\ q[m] = e
    <3>1. I \subseteq Nat /\ I # {}
      BY <1>2
    <3>2. Min(I) \in I
      BY <3>1, LeastIn
    <3> QED BY <3>2
  <2>2. r = SubSeq(q, 1, m - 1) \o SubSeq(q, m + 1, Len(q))
    <3>1. SelectInSeq(q, LAMBDA v : v = e) = m
      BY <1>2, <2>1 DEF SelectInSeq
    <3> QED BY <1>2, <3>1 DEF RemoveFirst, RemoveAt
  <2>3. PICK a, b : /\ a = SubSeq(q, 1, m - 1) /\ b = SubSeq(q, m + 1, Len(q)) /\ r = a \o b
    BY <2>2
  <2>4. /\ a \in Seq(S) /\ Len(a) = m - 1 /\ \A k \in 1 .. m - 1 : a[k] = q[k]
        /\ b \in Seq(S) /\ Len(b) = Len(q) - m /\ \A k \in 1 .. Len(q) - m : b[k] = q[m + 1 + k - 1]
    <3>1. /\ m \in Int /\ m - 1 \in Int /\ m + 1 \in Int /\ Len(q) \in Int
          /\ \A i \in 1 .. m - 1 : q[i] \in S
          /\ \A i \in m + 1 .. Len(q) : q[i] \in S
      OBVIOUS
    <3>2. /\ a \in Seq(S) /\ Len(a) = IF 1 <= m - 1 THEN m - 1 - 1 + 1 ELSE 0
          /\ \A k \in 1 .. m - 1 - 1 + 1 : a[k] = q[1 + k - 1]
      BY <2>3, <3>1, SubSeqProperties
    <3>3. /\ b \in Seq(S) /\ Len(b) = IF m + 1 <= Len(q) THEN Len(q) - (m + 1) + 1 ELSE 0
          /\ \A k \in 1 .. Len(q) - (m + 1) + 1 : b[k] = q[m + 1 + k - 1]
      BY <2>3, <3>1, SubSeqProperties
    <3>4. Len(a) = m - 1 /\ Len(b) = Len(q) - m
      BY <3>2, <3>3
    <3>5. \A k \in 1 .. m - 1 : a[k] = q[k]
      BY <3>2
    <3> QED BY <3>2, <3>3, <3>4, <3>5
  <2>5. /\ r \in Seq(S) /\ Len(r) = Len(q) - 1 /\ DOMAIN r = 1 .. Len(q) - 1
        /\ \A k \in 1 .. m - 1 : r[k] = q[k]
        /\ \A k \in m .. Len(q) - 1 : r[k] = q[k + 1]
    <3>1. /\ r \in Seq(S) /\ Len(r) = Len(q) - 1
          /\ \A k \in 1 .. m - 1 : r[k] = a[k]
          /\ \A k \in m .. Len(q) - 1 : r[k] = b[k - Len(a)]
      <4>1. /\ r \in Seq(S) /\ Len(r) = Len(a) + Len(b)
            /\ \A k \in 1 .. Len(a) + Len(b) : r[k] = IF k <= Len(a) THEN a[k] ELSE b[k - Len(a)]
        <5>1. a \in Seq(S) /\ b \in Seq(S) /\ r = a \o b
          BY <2>3, <2>4
        <5> QED BY <5>1, ConcatProperties
      <4>2. Len(a) + Len(b) = Len(q) - 1
        BY <2>4
      <4>3. \A k \in 1 .. m - 1 : k \in 1 .. Len(q) - 1 /\ k <= Len(a)
        BY <2>4
      <4>4. \A k \in m .. Len(q) - 1 : k \in 1 .. Len(q) - 1 /\ ~(k <= Len(a))
        BY <2>4
      <4> QED BY <4>1, <4>2, <4>3, <4>4
    <3>2. ASSUME NEW k \in m .. Len(q) - 1 PROVE r[k] = q[k + 1]
      <4>1. k - (m - 1) \in 1 .. Len(q) - m /\ m + 1 + (k - (m - 1)) - 1 = k + 1
        BY <2>1
      <4>2. r[k] = b[k - (m - 1)]
        BY <2>4, <3>1
      <4> QED BY <2>4, <4>1, <4>2
    <3>3. \A k \in 1 .. m - 1 : r[k] = q[k]
      BY <2>4, <3>1
    <3> QED BY <3>1, <3>2, <3>3
  <2>6. ASSUME NEW k \in DOMAIN q, q[k] # e PROVE \E j \in DOMAIN r : r[j] = q[k]
    <3>1. k # m /\ k \in 1 .. Len(q)
      BY <2>1, <2>6
    <3>2. CASE k < m
      BY <2>1, <2>5, <3>1, <3>2
    <3>3. CASE k > m
      <4>1. k - 1 \in m .. Len(q) - 1 /\ k - 1 + 1 = k /\ k - 1 \in DOMAIN r
        BY <2>1, <2>5, <3>1, <3>3
      <4> QED BY <2>5, <4>1
    <3> QED BY <2>1, <3>1, <3>2, <3>3
  <2>7. ASSUME NEW j \in DOMAIN r PROVE \E k \in DOMAIN q : q[k] = r[j]
    <3>1. CASE j < m
      BY <2>1, <2>5, <3>1
    <3>2. CASE j >= m
      <4>1. j + 1 \in DOMAIN q /\ j \in m .. Len(q) - 1
        BY <2>1, <2>5, <3>2
      <4> QED BY <2>5, <4>1
    <3> QED BY <2>1, <2>5, <3>1, <3>2
  <2> QED BY <2>5, <2>6, <2>7
<1> QED BY <1>1, <1>2
------------------------------------------------------------------------------
(* What is in use, and the collector. *)
LEMMA LiveBlocksAre ==
    ASSUME NEW s, Shape(s), NEW b
    PROVE  b \in LiveBlocks(s) <=> Live(s, b)
<1>1. ASSUME Live(s, b) PROVE b \in LiveBlocks(s)
  <2>1. b # 0 /\ b # Std /\ b \in Blocks
    BY <1>1, ChannelsAssumption DEF Live, Std
  <2>2. CASE \E c \in Chans : s.chan[c] = b
    BY <2>1, <2>2 DEF LiveBlocks, Range, Shape
  <2>3. CASE \E v \in Vars, d \in Dirs : s.assoc[v][d] = b
    <3>1. PICK v \in Vars, d \in Dirs : s.assoc[v][d] = b
      BY <2>3
    <3>2. b \in Range(s.assoc[v])
      BY <3>1 DEF Range, Shape
    <3> QED BY <2>1, <3>2 DEF LiveBlocks
  <2> QED BY <1>1, <2>2, <2>3 DEF Live
<1>2. ASSUME b \in LiveBlocks(s) PROVE Live(s, b)
  <2>1. b # 0 /\ b # Std /\ (b \in Range(s.chan) \/ \E v \in Vars : b \in Range(s.assoc[v]))
    BY <1>2 DEF LiveBlocks
  <2>2. (\E c \in Chans : s.chan[c] = b) \/ (\E v \in Vars, d \in Dirs : s.assoc[v][d] = b)
    BY <2>1 DEF Range, Shape
  <2>3. b \in Blocks
    BY <2>1, <2>2 DEF Shape
  <2> QED BY <2>2, <2>3 DEF Live
<1> QED BY <1>1, <1>2

\* An fcblk is in use if it is on the chain, or a block in use has it.
LEMMA LiveFcbsAre ==
    ASSUME NEW s, Shape(s), NEW f
    PROVE  f \in LiveFcbs(s) <=>
              /\ f \in Fcbs
              /\ \/ \E k \in DOMAIN s.r_fcb : s.r_fcb[k] = f
                 \/ \E b \in Blocks : Live(s, b) /\ s.block[b].fcb = f
<1>1. f \in LiveFcbs(s) <=>
        f # 0 /\ (f \in Range(s.r_fcb) \/ \E b \in LiveBlocks(s) : s.block[b].fcb = f)
  BY DEF LiveFcbs
<1>2. f \in Range(s.r_fcb) <=> \E k \in DOMAIN s.r_fcb : s.r_fcb[k] = f
  BY DEF Range
<1>3. (\E b \in LiveBlocks(s) : s.block[b].fcb = f) <=> \E b \in Blocks : Live(s, b) /\ s.block[b].fcb = f
  BY LiveBlocksAre DEF Live
<1>4. \A k \in DOMAIN s.r_fcb : s.r_fcb[k] \in Fcbs
  BY DEF Shape
<1>5. \A b \in Blocks : s.block[b].fcb \in Fcbs \cup {0}
  BY DEF Shape
<1>6. 0 \notin Fcbs
  BY ChannelsAssumption
<1> QED BY <1>1, <1>2, <1>3, <1>4, <1>5, <1>6

\* An ioblk is in use if an fcblk in use leads to it.
LEMMA LiveIobsAre ==
    ASSUME NEW s, Shape(s), Filled(s), NEW i \in Iobs
    PROVE  i \in LiveIobs(s) <=> Reached(s, i)
<1>1. i # 0
  BY ChannelsAssumption
<1>2. i \in LiveIobs(s) <=> \E f \in LiveFcbs(s) : s.fcblk[f] = i
  BY <1>1 DEF LiveIobs
<1>3. ASSUME i \in LiveIobs(s) PROVE Reached(s, i)
  BY <1>2, <1>3, LiveFcbsAre DEF Reached, Chained
<1>4. ASSUME Chained(s, i) PROVE i \in LiveIobs(s)
  <2>1. PICK k \in DOMAIN s.r_fcb : s.fcblk[s.r_fcb[k]] = i
    BY <1>4 DEF Chained
  <2>2. s.r_fcb[k] \in Fcbs
    BY DEF Shape
  <2> QED BY <1>2, <2>1, <2>2, LiveFcbsAre
<1>5. ASSUME NEW b \in Blocks, Live(s, b), s.fcblk[s.block[b].fcb] = i PROVE i \in LiveIobs(s)
  <2>1. s.block[b].fcb \in Fcbs
    BY <1>5 DEF Shape, Filled
  <2> QED BY <1>2, <1>5, <2>1, LiveFcbsAre
<1> QED BY <1>3, <1>4, <1>5 DEF Reached

\* A process number that no ioblk and no process has any more may be given again.
LEMMA LivePidsHas ==
    ASSUME NEW s, Shape(s), Filled(s), NEW p \in Pids
    PROVE  /\ \A i \in Iobs : Reached(s, i) /\ s.iob[i].pid = p => p \in LivePids(s)
           /\ p \notin LivePids(s) => s.child[p].state \in {"none", "reaped"}
<1>1. \A i \in Iobs : Reached(s, i) /\ s.iob[i].pid = p => p \in LivePids(s)
  BY LiveIobsAre DEF LivePids
<1>2. p \notin LivePids(s) => s.child[p].state \in {"none", "reaped"}
  BY DEF LivePids
<1> QED BY <1>1, <1>2

\* A collection, field by field.
Collection(s, t) ==
    /\ DOMAIN t = Fields
    /\ t.chan = s.chan /\ t.assoc = s.assoc /\ t.r_fcb = s.r_fcb /\ t.fds = s.fds
    /\ t.block = [b \in Blocks |-> IF Live(s, b) THEN s.block[b] ELSE NoBlock]
    /\ t.fcblk = [f \in Fcbs |-> IF f \in LiveFcbs(s) THEN s.fcblk[f] ELSE 0]
    /\ t.iob   = [i \in Iobs |-> IF Reached(s, i) THEN s.iob[i] ELSE NoIob]
    /\ t.child = [p \in Pids |-> IF p \in LivePids(s) THEN s.child[p] ELSE NoChild]

\* What Collected gives.
LEMMA CollectedIs ==
    ASSUME NEW s, Shape(s), Filled(s), NEW t, t = Collected(s)
    PROVE  Collection(s, t)
<1>1. /\ DOMAIN t = Fields
      /\ t.chan = s.chan /\ t.assoc = s.assoc /\ t.r_fcb = s.r_fcb /\ t.fds = s.fds
      /\ t.block = [b \in Blocks |-> IF b \in LiveBlocks(s) THEN s.block[b] ELSE NoBlock]
      /\ t.fcblk = [f \in Fcbs |-> IF f \in LiveFcbs(s) THEN s.fcblk[f] ELSE 0]
      /\ t.iob   = [i \in Iobs |-> IF i \in LiveIobs(s) THEN s.iob[i] ELSE NoIob]
      /\ t.child = [p \in Pids |-> IF p \in LivePids(s) THEN s.child[p] ELSE NoChild]
  BY DEF Collected, Shape, Fields
<1>2. t.block = [b \in Blocks |-> IF Live(s, b) THEN s.block[b] ELSE NoBlock]
  BY <1>1, LiveBlocksAre
<1>3. t.iob = [i \in Iobs |-> IF Reached(s, i) THEN s.iob[i] ELSE NoIob]
  BY <1>1, LiveIobsAre
<1> QED BY <1>1, <1>2, <1>3 DEF Collection

\* What it keeps in use.
LEMMA CollectedReach ==
    ASSUME NEW s, Shape(s), Filled(s), NEW t, Collection(s, t)
    PROVE  /\ \A b : Live(t, b) <=> Live(s, b)
           /\ \A i \in Iobs : Chained(t, i) <=> Chained(s, i)
           /\ \A i \in Iobs : Reached(t, i) <=> Reached(s, i)
<1>1. \A b : Live(t, b) <=> Live(s, b)
  BY DEF Live, Collection
<1>2. \A k \in DOMAIN s.r_fcb : t.fcblk[s.r_fcb[k]] = s.fcblk[s.r_fcb[k]]
  <2> SUFFICES ASSUME NEW k \in DOMAIN s.r_fcb PROVE t.fcblk[s.r_fcb[k]] = s.fcblk[s.r_fcb[k]]
    OBVIOUS
  <2>1. s.r_fcb[k] \in Fcbs
    BY DEF Shape
  <2>2. s.r_fcb[k] \in LiveFcbs(s)
    BY <2>1, LiveFcbsAre
  <2> QED BY <2>1, <2>2 DEF Collection
<1>3. \A i \in Iobs : Chained(t, i) <=> Chained(s, i)
  BY <1>2 DEF Chained, Collection
<1>4. \A b \in Blocks : Live(s, b) => t.fcblk[t.block[b].fcb] = s.fcblk[s.block[b].fcb]
  <2> SUFFICES ASSUME NEW b \in Blocks, Live(s, b) PROVE t.fcblk[t.block[b].fcb] = s.fcblk[s.block[b].fcb]
    OBVIOUS
  <2>1. s.block[b].fcb \in Fcbs
    BY DEF Shape, Filled
  <2>2. s.block[b].fcb \in LiveFcbs(s)
    BY <2>1, LiveFcbsAre
  <2> QED BY <2>1, <2>2 DEF Collection
<1> QED BY <1>1, <1>3, <1>4 DEF Reached

\* The collector keeps the types.
LEMMA CollectedShape ==
    ASSUME NEW s, Shape(s), Filled(s), NEW t, Collection(s, t)
    PROVE  Shape(t)
<1>1. t.block \in [Blocks -> [fcb : Fcbs \cup {0}, iochn : SUBSET Vars]]
  <2>1. NoBlock \in [fcb : Fcbs \cup {0}, iochn : SUBSET Vars]
    BY DEF NoBlock
  <2> QED BY <2>1 DEF Shape, Collection
<1>2. t.fcblk \in [Fcbs -> Iobs \cup {0}]
  BY DEF Shape, Collection
<1>3. \A i \in Iobs : IobType(t.iob[i])
  <2>1. IobType(NoIob)
    BY DEF IobType, NoIob, IobFields
  <2>2. \A i \in Iobs : t.iob[i] = s.iob[i] \/ t.iob[i] = NoIob
    BY DEF Collection
  <2>3. \A i \in Iobs : IobType(s.iob[i])
    BY DEF Shape
  <2> QED BY <2>1, <2>2, <2>3
<1>4. \A p \in Pids : DOMAIN t.child[p] = {"state", "reads", "holds"} /\ t.child[p].state \in ChildStates
  <2>1. \A p \in Pids : t.child[p] = s.child[p] \/ t.child[p] = NoChild
    BY DEF Collection
  <2>2. DOMAIN NoChild = {"state", "reads", "holds"} /\ NoChild.state \in ChildStates
    BY DEF NoChild, ChildStates
  <2> QED BY <2>1, <2>2 DEF Shape
<1>5. /\ DOMAIN t = Fields /\ t.chan = s.chan /\ t.assoc = s.assoc /\ t.r_fcb = s.r_fcb /\ t.fds = s.fds
      /\ DOMAIN t.iob = Iobs /\ DOMAIN t.child = Pids
  BY DEF Collection
<1> QED BY <1>1, <1>2, <1>3, <1>4, <1>5 DEF Shape

\* The collector keeps the table: what is in use is as it was.
LEMMA CollectedTable ==
    ASSUME NEW s, Shape(s), Table(s), NEW t, Collection(s, t)
    PROVE  Table(t)
<1>1. /\ \A b : Live(t, b) <=> Live(s, b)
      /\ \A b \in Blocks : Live(s, b) => t.block[b] = s.block[b]
  BY CollectedReach DEF Table, Collection
<1>2. \A b \in Blocks : Live(s, b) => t.fcblk[s.block[b].fcb] = s.fcblk[s.block[b].fcb]
  <2> SUFFICES ASSUME NEW b \in Blocks, Live(s, b) PROVE t.fcblk[s.block[b].fcb] = s.fcblk[s.block[b].fcb]
    OBVIOUS
  <2>1. s.block[b].fcb \in Fcbs
    BY DEF Shape, Table, Filled
  <2>2. s.block[b].fcb \in LiveFcbs(s)
    BY <2>1, LiveFcbsAre
  <2> QED BY <2>1, <2>2 DEF Collection
<1>3. Filled(t)
  BY <1>1 DEF Table, Filled
<1>4. Apart(t)
  BY <1>1, <1>2 DEF Table, Apart
<1>5. Attached(t)
  <2> SUFFICES ASSUME NEW v \in Vars, NEW d \in Dirs, s.assoc[v][d] > 0
               PROVE  v \in t.block[s.assoc[v][d]].iochn
    BY DEF Attached, Collection
  <2>1. s.assoc[v][d] \in Blocks /\ Live(s, s.assoc[v][d])
    BY DEF Shape, Live, Std
  <2> QED BY <1>1, <2>1 DEF Table, Attached
<1> QED BY <1>3, <1>4, <1>5 DEF Table

\* The ioblk x that may not be on the chain is out of reach, and has no descriptor
\* to lose.
LEMMA CollectedFiles ==
    ASSUME NEW s, Shape(s), Filled(s), NEW t, Collection(s, t), NEW x, Files(s, x, 0),
           x \in Iobs => ~Reached(s, x) /\ (s.iob[x].opn => s.iob[x].fd \notin Fds)
    PROVE  Files(t, 0, 0)
<1>1. /\ \A i \in Iobs : Chained(t, i) <=> Chained(s, i)
      /\ \A i \in Iobs : Reached(t, i) <=> Reached(s, i)
  BY CollectedReach
<1>2. \A i \in Iobs : t.iob[i] = IF Reached(s, i) THEN s.iob[i] ELSE NoIob
  BY DEF Collection
<1>3. ~NoIob.opn /\ NoIob.pid = 0 /\ ~NoIob.dirty
  BY DEF NoIob
<1>4. \A i \in Iobs : t.iob[i].opn => s.iob[i].opn /\ Chained(s, i) /\ t.iob[i] = s.iob[i]
  BY <1>2, <1>3 DEF Files, OnChain
<1>5. \A i \in Iobs : s.iob[i].opn /\ s.iob[i].fd \in Fds => t.iob[i] = s.iob[i]
  BY <1>2 DEF Files, OnChain, Reached
<1>6. OnChain(t, 0)
  <2>1. \A i \in Iobs : t.iob[i].dirty => t.iob[i].opn
    BY <1>2, <1>3 DEF Files, OnChain
  <2> QED BY <1>1, <1>4, <2>1 DEF OnChain
<1>7. AllSane(t, 0)
  <2> SUFFICES ASSUME NEW i \in Iobs, Reached(s, i) PROVE Sane(t, i, 0)
    BY <1>1 DEF AllSane
  <2>1. t.iob[i] = s.iob[i] /\ Sane(s, i, 0) /\ t.fds = s.fds
    BY <1>2 DEF Files, AllSane, Collection
  <2>2. s.iob[i].pid \in Pids \cup {0}
    BY DEF Shape, IobType
  <2>3. s.iob[i].pid # 0 => t.child[s.iob[i].pid] = s.child[s.iob[i].pid]
    BY <2>2, LivePidsHas DEF Collection
  <2> QED BY <2>1, <2>3 DEF Sane, Opened, Shut
<1>8. Owned(t)
  <2>1. t.fds = s.fds
    BY DEF Collection
  <2>2. \A d \in Fds : t.fds[d] # Closed => \E i \in Iobs : t.iob[i].opn /\ t.iob[i].fd = d
    BY <1>5, <2>1 DEF Files, Owned
  <2> QED BY <1>4, <2>2 DEF Files, Owned
<1>9. OwnPid(t)
  BY <1>1, <1>2 DEF Files, OwnPid
<1> QED BY <1>6, <1>7, <1>8, <1>9 DEF Files
------------------------------------------------------------------------------
(* How a call answers. *)
LEMMA NothingSound ==
    Shape(Nothing) /\ Table(Nothing) /\ \A i \in Iobs : ~Nothing.iob[i].dirty
<1>1. /\ DOMAIN Nothing = Fields
      /\ Nothing.chan = [c \in Chans |-> 0] /\ Nothing.block = [b \in Blocks |-> NoBlock]
      /\ Nothing.assoc = [v \in Vars |-> [d \in Dirs |-> 0]]
      /\ Nothing.fcblk = [f \in Fcbs |-> 0] /\ Nothing.iob = [i \in Iobs |-> NoIob]
      /\ Nothing.r_fcb = <<>> /\ Nothing.fds = [d \in Fds |-> Closed]
      /\ Nothing.child = [p \in Pids |-> NoChild]
  BY DEF Nothing, Fields
<1>2. NoBlock \in [fcb : Fcbs \cup {0}, iochn : SUBSET Vars]
  BY DEF NoBlock
<1>3. IobType(NoIob) /\ ~NoIob.dirty
  BY DEF IobType, NoIob, IobFields
<1>4. DOMAIN NoChild = {"state", "reads", "holds"} /\ NoChild.state \in ChildStates
  BY DEF NoChild, ChildStates
<1>5. Shape(Nothing)
  <2>1. Nothing.r_fcb \in Seq(Fcbs)
    BY <1>1
  <2> QED BY <1>1, <1>2, <1>3, <1>4, <2>1 DEF Shape
<1>6. \A b : ~Live(Nothing, b)
  BY <1>1, ChannelsAssumption DEF Live
<1>7. Table(Nothing)
  BY <1>1, <1>6 DEF Table, Filled, Apart, Attached
<1> QED BY <1>1, <1>3, <1>5, <1>7

\* Before the first call there are no files.
LEMMA FilesNothing == Files(Nothing, 0, 0)
<1>1. /\ Nothing.fcblk = [f \in Fcbs |-> 0] /\ Nothing.iob = [i \in Iobs |-> NoIob]
      /\ Nothing.r_fcb = <<>> /\ Nothing.fds = [d \in Fds |-> Closed]
  BY DEF Nothing
<1>2. ~NoIob.opn /\ NoIob.pid = 0 /\ ~NoIob.ded /\ ~NoIob.dirty /\ ~NoIob.pip
  BY DEF NoIob
<1>3. \A i \in Iobs : Sane(Nothing, i, 0)
  BY <1>1, <1>2 DEF Sane, Opened, Shut
<1>4. OnChain(Nothing, 0) /\ Owned(Nothing) /\ OwnPid(Nothing)
  BY <1>1, <1>2 DEF OnChain, Owned, OwnPid
<1> QED BY <1>3, <1>4 DEF Files, AllSane

\* The type of a program that is not in a call.
LEMMA IdleType ==
    /\ Idle.at = "idle" /\ DOMAIN Idle = {"at", "pid", "todo", "why", "chan", "errs"}
    /\ Idle.todo = <<>> /\ Idle.todo \in Seq(Fcbs)
BY DEF Idle

\* The invariant holds when a call leaves the storage s to the collector.
LEMMA AnswerInv ==
    ASSUME NEW s, Shape(s), Table(s), NEW x, Files(s, x, 0),
           x \in Iobs => ~Reached(s, x) /\ (s.iob[x].opn => s.iob[x].fd \notin Fds),
           NEW how \in {"ok", "error", "fail"}, Answer(s, how)
    PROVE  Inv'
<1>1. w' = Collected(s) /\ op' = Idle
  BY DEF Answer, Ends
<1>2. Filled(s)
  BY DEF Table
<1>3. Collection(s, w')
  BY <1>1, <1>2, CollectedIs
<1>4. Shape(w') /\ Table(w') /\ Files(w', 0, 0)
  BY <1>2, <1>3, CollectedShape, CollectedTable, CollectedFiles
<1>5. OpType'
  BY <1>1, IdleType DEF OpType, Closing, Ats
<1>6. AwaitedNow' = 0 /\ ~Closing' /\ op'.at = "idle"
  BY <1>1, IdleType DEF AwaitedNow, Closing
<1> QED BY <1>4, <1>5, <1>6 DEF Inv, EndfileInv, CloseAllInv

\* Or when the program is gone.
LEMMA EndInv ==
    ASSUME NEW s, NEW how \in {"crash", "killed"}, Answer(s, how)
    PROVE  Inv'
<1>1. w' = Nothing /\ op' = [Idle EXCEPT !.at = how]
  BY DEF Answer, Ends
<1>2. DOMAIN op' = {"at", "pid", "todo", "why", "chan", "errs"} /\ op'.at = how /\ op'.todo = <<>>
  BY <1>1, IdleType
<1>3. OpType' /\ ~Closing' /\ op'.at \in Ends /\ op'.at # "exit"
  BY <1>2 DEF OpType, Closing, Ats, Ends
<1> QED BY <1>1, <1>3, NothingSound DEF Inv, EndfileInv, CloseAllInv
------------------------------------------------------------------------------
(* What becomes of the table. *)
\* Files speaks of the chain and of what is reached, and of no more of the table.
LEMMA FilesKept ==
    ASSUME NEW s, NEW t, NEW x, NEW p, Files(s, x, p),
           t.iob = s.iob, t.fds = s.fds, t.child = s.child,
           \A i \in Iobs : Chained(s, i) => Chained(t, i),
           \A i \in Iobs : Reached(t, i) => Reached(s, i)
    PROVE  Files(t, x, p)
<1>1. OnChain(t, x)
  BY DEF Files, OnChain
<1>2. AllSane(t, p)
  BY DEF Files, AllSane, Sane, Opened, Shut
<1>3. Owned(t) /\ OwnPid(t)
  BY DEF Files, Owned, OwnPid
<1> QED BY <1>1, <1>2, <1>3 DEF Files

\* The block b of channel c gets the fcblk f, which leads to i: to no ioblk, to a
\* new one, or to the one that the block has led to.
Made(s, t, c, b, f, i) ==
    /\ t.chan = [s.chan EXCEPT ![c] = b]
    /\ t.block = [s.block EXCEPT ![b].fcb = f]
    /\ t.fcblk = [s.fcblk EXCEPT ![f] = i]
    /\ t.assoc = s.assoc /\ t.r_fcb = s.r_fcb
Makes(s, c, b, f, i) ==
    /\ c \in Chans /\ b \in Blocks /\ f \in Fcbs /\ f \notin LiveFcbs(s)
    /\ b = s.chan[c] \/ (s.chan[c] = 0 /\ b \notin LiveBlocks(s))
    /\ i \in Iobs \cup {0}
    /\ i \in Iobs => \/ ~Reached(s, i)
                     \/ b = s.chan[c] /\ i = s.fcblk[s.block[b].fcb]

\* Whatever the new fcblk leads to, the table stays one: no two blocks share an ioblk.
LEMMA MadeTable ==
    ASSUME NEW s, Shape(s), Table(s), NEW t, NEW c, NEW b, NEW f, NEW i,
           Made(s, t, c, b, f, i), Makes(s, c, b, f, i)
    PROVE  /\ \A a : Live(t, a) <=> Live(s, a) \/ a = b
           /\ \A j \in Iobs : Chained(t, j) <=> Chained(s, j)
           /\ \A j \in Iobs : Reached(t, j) => Reached(s, j) \/ j = i
           /\ i \in Iobs => Reached(t, i)
           /\ t.block[b].fcb = f /\ t.fcblk[f] = i /\ t.chan[c] = b
           /\ Table(t)
<1> USE DEF Made, Makes
<1>0. /\ s.chan \in [Chans -> Blocks \cup {0}] /\ s.fcblk \in [Fcbs -> Iobs \cup {0}]
      /\ s.block \in [Blocks -> [fcb : Fcbs \cup {0}, iochn : SUBSET Vars]]
      /\ s.assoc \in [Vars -> [Dirs -> Blocks \cup {0, Std}]]
      /\ b # 0 /\ f # 0 /\ 0 \notin Iobs
  BY ChannelsAssumption DEF Shape
<1>1. /\ t.block[b].fcb = f /\ t.block[b].iochn = s.block[b].iochn
      /\ t.fcblk[f] = i /\ t.chan[c] = b
      /\ \A a \in Blocks : a # b => t.block[a] = s.block[a]
      /\ \A g \in Fcbs : g # f => t.fcblk[g] = s.fcblk[g]
      /\ \A e \in Chans : e # c => t.chan[e] = s.chan[e]
  BY <1>0
<1>2. \A a : Live(t, a) <=> Live(s, a) \/ a = b
  <2>1. Live(t, b)
    BY <1>1 DEF Live
  <2>2. \A a : a # b => (Live(t, a) <=> Live(s, a))
    <3> SUFFICES ASSUME NEW a, a # b PROVE Live(t, a) <=> Live(s, a)
      OBVIOUS
    <3>1. a \in Blocks => a # 0
      BY ChannelsAssumption
    <3>2. a \in Blocks => ((\E e \in Chans : t.chan[e] = a) <=> (\E e \in Chans : s.chan[e] = a))
      BY <1>1, <3>1
    <3> QED BY <3>2 DEF Live
  <2> QED BY <2>1, <2>2
<1>3. \A k \in DOMAIN s.r_fcb : t.fcblk[s.r_fcb[k]] = s.fcblk[s.r_fcb[k]]
  <2> SUFFICES ASSUME NEW k \in DOMAIN s.r_fcb PROVE t.fcblk[s.r_fcb[k]] = s.fcblk[s.r_fcb[k]]
    OBVIOUS
  <2>1. s.r_fcb[k] \in Fcbs /\ s.r_fcb[k] # f
    BY LiveFcbsAre DEF Shape
  <2> QED BY <1>1, <2>1
<1>4. \A j \in Iobs : Chained(t, j) <=> Chained(s, j)
  BY <1>3 DEF Chained
<1>5. \A a \in Blocks : Live(s, a) => s.block[a].fcb \in Fcbs /\ s.block[a].fcb # f
  BY <1>0, LiveFcbsAre DEF Table, Filled
<1>6. \A a \in Blocks : Live(s, a) /\ a # b => t.fcblk[t.block[a].fcb] = s.fcblk[s.block[a].fcb]
  BY <1>1, <1>5
<1>7. \A j \in Iobs : Reached(t, j) => Reached(s, j) \/ j = i
  BY <1>1, <1>2, <1>4, <1>6 DEF Reached
<1>8. i \in Iobs => Reached(t, i)
  BY <1>1, <1>2 DEF Reached
<1>9. Filled(t)
  BY <1>0, <1>1, <1>2 DEF Table, Filled
<1>10. Apart(t)
  <2> SUFFICES ASSUME NEW a \in Blocks, Live(s, a), a # b
               PROVE  /\ t.block[a].fcb # f
                      /\ t.fcblk[t.block[a].fcb] = 0 \/ t.fcblk[t.block[a].fcb] # i
                      /\ \A e \in Blocks : Live(s, e) /\ e # b /\ a # e =>
                            /\ t.block[a].fcb # t.block[e].fcb
                            /\ t.fcblk[t.block[a].fcb] = 0 \/ t.fcblk[t.block[a].fcb] # t.fcblk[t.block[e].fcb]
    <3>1. \A a, e \in Blocks : Live(t, a) /\ Live(t, e) /\ a # e =>
             \/ Live(s, a) /\ a # b /\ e = b
             \/ Live(s, e) /\ e # b /\ a = b
             \/ Live(s, a) /\ Live(s, e) /\ a # b /\ e # b
      BY <1>2
    <3> QED BY <1>1, <3>1 DEF Apart
  <2>1. t.block[a].fcb # f /\ t.fcblk[t.block[a].fcb] = s.fcblk[s.block[a].fcb] /\ t.block[a] = s.block[a]
    BY <1>1, <1>5, <1>6
  <2>2. s.fcblk[s.block[a].fcb] = 0 \/ s.fcblk[s.block[a].fcb] # i
    <3>1. CASE i = 0
      BY <3>1
    <3>2. CASE i \in Iobs /\ ~Reached(s, i)
      BY <3>2 DEF Reached
    <3>3. CASE i \in Iobs /\ b = s.chan[c] /\ i = s.fcblk[s.block[b].fcb]
      <4>1. Live(s, b)
        BY <3>3 DEF Live
      <4> QED BY <3>3, <4>1 DEF Table, Apart
    <3> QED BY <3>1, <3>2, <3>3
  <2>3. ASSUME NEW e \in Blocks, Live(s, e), e # b, a # e
        PROVE  /\ t.block[a].fcb # t.block[e].fcb
               /\ t.fcblk[t.block[a].fcb] = 0 \/ t.fcblk[t.block[a].fcb] # t.fcblk[t.block[e].fcb]
    BY <1>1, <1>6, <2>1, <2>3 DEF Table, Apart
  <2> QED BY <2>1, <2>2, <2>3
<1>11. Attached(t)
  <2> SUFFICES ASSUME NEW v \in Vars, NEW d \in Dirs, s.assoc[v][d] > 0
               PROVE  v \in t.block[s.assoc[v][d]].iochn
    BY DEF Attached
  <2>1. s.assoc[v][d] \in Blocks
    BY DEF Shape, Std
  <2>2. v \in s.block[s.assoc[v][d]].iochn
    BY DEF Table, Attached
  <2> QED BY <1>1, <2>1, <2>2
<1> QED BY <1>1, <1>2, <1>4, <1>7, <1>8, <1>9, <1>10, <1>11 DEF Table

\* The types of the table with a new fcblk.
LEMMA MadeShape ==
    ASSUME NEW s, Shape(s), NEW t, NEW c, NEW b, NEW f, NEW i,
           Made(s, t, c, b, f, i), Makes(s, c, b, f, i)
    PROVE  /\ t.chan \in [Chans -> Blocks \cup {0}]
           /\ t.block \in [Blocks -> [fcb : Fcbs \cup {0}, iochn : SUBSET Vars]]
           /\ t.assoc \in [Vars -> [Dirs -> Blocks \cup {0, Std}]]
           /\ t.fcblk \in [Fcbs -> Iobs \cup {0}]
           /\ t.r_fcb \in Seq(Fcbs)
BY DEF Made, Makes, Shape

\* A channel leaves the table.
LEMMA Released ==
    ASSUME NEW s, Shape(s), Table(s), NEW c \in Chans, NEW t, t = [s EXCEPT !.chan[c] = 0],
           Files(s, 0, 0)
    PROVE  Shape(t) /\ Table(t) /\ Files(t, 0, 0)
<1>1. /\ DOMAIN t = Fields /\ t.chan = [s.chan EXCEPT ![c] = 0] /\ t.block = s.block /\ t.assoc = s.assoc
      /\ t.fcblk = s.fcblk /\ t.iob = s.iob /\ t.r_fcb = s.r_fcb /\ t.fds = s.fds /\ t.child = s.child
  BY DEF Shape, Fields
<1>2. Shape(t)
  BY <1>1 DEF Shape
<1>3. \A a : Live(t, a) => Live(s, a)
  <2>1. \A a \in Blocks : a # 0
    BY ChannelsAssumption
  <2>2. \A e \in Chans : t.chan[e] = s.chan[e] \/ t.chan[e] = 0
    BY <1>1 DEF Shape
  <2> QED BY <1>1, <2>1, <2>2 DEF Live
<1>4. \A i \in Iobs : Chained(s, i) => Chained(t, i)
  BY <1>1 DEF Chained
<1>5. \A i \in Iobs : Reached(t, i) => Reached(s, i)
  BY <1>1, <1>3 DEF Reached, Chained
<1>6. Table(t)
  BY <1>1, <1>3 DEF Table, Filled, Apart, Attached
<1> QED BY <1>1, <1>2, <1>4, <1>5, <1>6, FilesKept
------------------------------------------------------------------------------
(* What becomes of an ioblk that is opened. *)
\* A new ioblk i, filled in with n.
LEMMA FilesNew ==
    ASSUME NEW s, Shape(s), Files(s, 0, 0), NEW t, NEW i \in Iobs, NEW n,
           t.iob = [s.iob EXCEPT ![i] = n], t.fds = s.fds, t.child = s.child, ~Reached(s, i),
           \A j \in Iobs : Chained(s, j) => Chained(t, j),
           \A j \in Iobs : Reached(t, j) => Reached(s, j) \/ j = i,
           n.opn => n.sys /\ n.fd \in 0..2,
           ~n.pip, n.pid = 0, ~n.ded, ~n.dirty
    PROVE  Files(t, i, 0)
<1>1. t.iob[i] = n /\ \A j \in Iobs : j # i => t.iob[j] = s.iob[j]
  BY DEF Shape
<1>2. ~s.iob[i].opn
  BY ChannelsAssumption DEF Files, OnChain, Reached
<1>3. \A j \in Iobs : j # i => j # 0 /\ (t.iob[j].opn => Chained(t, j))
  BY <1>1, ChannelsAssumption DEF Files, OnChain
<1>4. AllSane(t, 0)
  <2>1. Sane(t, i, 0)
    <3>1. 0..2 \cap Fds = {}
      BY DEF Fds
    <3> QED BY <1>1, <3>1 DEF Sane, Opened, Shut
  <2>2. ASSUME NEW j \in Iobs, Reached(t, j), j # i PROVE Sane(t, j, 0)
    BY <1>1, <2>2 DEF Files, AllSane, Sane, Opened, Shut
  <2> QED BY <2>1, <2>2 DEF AllSane
<1>5. Owned(t)
  <2>1. \A d \in Fds : d \notin 0..2
    BY DEF Fds
  <2>2. \A d \in Fds : t.fds[d] # Closed => \E j \in Iobs : t.iob[j].opn /\ t.iob[j].fd = d
    BY <1>1, <1>2 DEF Files, Owned
  <2>3. ASSUME NEW j \in Iobs, NEW k \in Iobs, t.iob[j].opn, t.iob[k].opn, j # k, t.iob[j].fd \in Fds
        PROVE  t.iob[j].fd # t.iob[k].fd
    BY <1>1, <2>1, <2>3 DEF Files, Owned
  <2> QED BY <2>2, <2>3 DEF Owned
<1>6. OwnPid(t)
  BY <1>1 DEF Files, OwnPid
<1> QED BY <1>3, <1>4, <1>5, <1>6 DEF Files, OnChain

\* The table stays as it is.
SameTable(s, t) ==
    /\ DOMAIN t = Fields /\ t.chan = s.chan /\ t.block = s.block /\ t.assoc = s.assoc
    /\ t.fcblk = s.fcblk /\ t.r_fcb = s.r_fcb

\* With the same table, the same can be reached.
LEMMA SameReach ==
    ASSUME NEW s, NEW t, SameTable(s, t)
    PROVE  /\ \A b : Live(t, b) <=> Live(s, b)
           /\ \A i : Chained(t, i) <=> Chained(s, i)
           /\ \A i : Reached(t, i) <=> Reached(s, i)
           /\ Table(s) => Table(t)
<1>1. \A b : Live(t, b) <=> Live(s, b)
  BY DEF SameTable, Live
<1>2. \A i : Chained(t, i) <=> Chained(s, i)
  BY DEF SameTable, Chained
<1>3. \A i : Reached(t, i) <=> Reached(s, i)
  BY <1>1, <1>2 DEF SameTable, Reached
<1>4. Table(s) => Table(t)
  BY <1>1 DEF SameTable, Table, Filled, Apart, Attached
<1> QED BY <1>1, <1>2, <1>3, <1>4

\* The ioblk i, which is not open, is opened and becomes n: on a descriptor of
\* the shell, on a new descriptor d for a file, or on one for a pipe to process p.
OpensShell(s, t, n) ==
    n.sys /\ n.fd \in 0..2 /\ ~n.pip /\ n.pid = 0 /\ t.fds = s.fds /\ t.child = s.child
OpensFile(s, t, n, d) ==
    /\ n.fd = d /\ ~n.pip /\ n.pid = 0
    /\ t.fds = [s.fds EXCEPT ![d] = 0] /\ t.child = s.child
OpensPipe(s, t, n, d, p) ==
    /\ n.fd = d /\ n.pip /\ n.pid = p /\ n.file \in Commands
    /\ p \in Pids /\ \A j \in Iobs : Reached(s, j) => s.iob[j].pid # p
    /\ t.fds = [s.fds EXCEPT ![d] = p]
    /\ DOMAIN t.child = Pids /\ DOMAIN t.child[p] = {"state", "reads", "holds"}
    /\ t.child[p].state = "running" /\ \A q \in Pids : q # p => t.child[q] = s.child[q]
Opens(s, t, i, n) ==
    /\ SameTable(s, t) /\ t.iob = [s.iob EXCEPT ![i] = n]
    /\ IobType(n) /\ n.opn /\ ~n.ded /\ ~n.dirty
    /\ \/ OpensShell(s, t, n)
       \/ \E d \in Fds : /\ s.fds[d] = Closed
                         /\ OpensFile(s, t, n, d) \/ \E p \in Pids : OpensPipe(s, t, n, d, p)

\* An ioblk that is opened has its type.
LEMMA OpensShape ==
    ASSUME NEW s, Shape(s), NEW t, NEW i \in Iobs, NEW n, Opens(s, t, i, n)
    PROVE  Shape(t)
<1>1. DOMAIN t.iob = Iobs /\ \A j \in Iobs : IobType(t.iob[j])
  BY DEF Opens, Shape
<1>2. t.fds \in [Fds -> Pids \cup {0, Closed}]
  <2>1. s.fds \in [Fds -> Pids \cup {0, Closed}]
    BY DEF Shape
  <2>2. CASE t.fds = s.fds
    BY <2>1, <2>2
  <2>3. CASE \E d \in Fds, p \in Pids \cup {0} : t.fds = [s.fds EXCEPT ![d] = p]
    BY <2>1, <2>3
  <2>4. ASSUME NEW d \in Fds, OpensFile(s, t, n, d)
        PROVE  \E e \in Fds, p \in Pids \cup {0} : t.fds = [s.fds EXCEPT ![e] = p]
    BY <2>4 DEF OpensFile
  <2>5. ASSUME NEW d \in Fds, NEW p \in Pids, OpensPipe(s, t, n, d, p)
        PROVE  \E e \in Fds, q \in Pids \cup {0} : t.fds = [s.fds EXCEPT ![e] = q]
    BY <2>5 DEF OpensPipe
  <2> QED BY <2>2, <2>3, <2>4, <2>5 DEF Opens, OpensShell
<1>3. /\ DOMAIN t.child = Pids
      /\ \A p \in Pids : /\ DOMAIN t.child[p] = {"state", "reads", "holds"}
                         /\ t.child[p].state \in ChildStates
  <2>1. CASE t.child = s.child
    BY <2>1 DEF Shape
  <2>2. CASE \E d \in Fds, p \in Pids : OpensPipe(s, t, n, d, p)
    BY <2>2 DEF OpensPipe, Shape, ChildStates
  <2> QED BY <2>1, <2>2 DEF Opens, OpensShell, OpensFile
<1>4. SameTable(s, t)
  BY DEF Opens
<1> QED BY <1>1, <1>2, <1>3, <1>4 DEF Shape, SameTable

\* Opening an ioblk keeps the files: its descriptor and its process are nobody else's.
LEMMA OpensFiles ==
    ASSUME NEW s, Shape(s), NEW t, NEW i \in Iobs, NEW n, Opens(s, t, i, n),
           ~s.iob[i].opn, Files(s, i, 0)
    PROVE  Files(t, i, 0)
<1>0. /\ \A j \in Iobs : Chained(t, j) <=> Chained(s, j)
      /\ \A j \in Iobs : Reached(t, j) <=> Reached(s, j)
  BY SameReach DEF Opens
<1>1. t.iob[i] = n /\ \A j \in Iobs : j # i => t.iob[j] = s.iob[j]
  BY DEF Opens, Shape
<1>2. \A j \in Iobs : s.iob[j].opn => Chained(s, j) /\ Reached(s, j) /\ j # i
  BY DEF Files, OnChain, Reached
<1>3. OnChain(t, i)
  <2>1. \A j \in Iobs : t.iob[j].dirty => t.iob[j].opn
    BY <1>1 DEF Files, OnChain, Opens
  <2> QED BY <1>0, <1>1, <1>2, <2>1 DEF OnChain
<1>4. 0 \notin Pids /\ Closed \notin Pids /\ Closed # 0 /\ 0..2 \cap Fds = {}
  BY ChannelsAssumption DEF Closed, Fds
<1>5. ASSUME OpensShell(s, t, n) PROVE Files(t, i, 0)
  <2>1. Sane(t, i, 0)
    BY <1>1, <1>4, <1>5 DEF Sane, Opened, Shut, OpensShell, Opens
  <2>2. \A j \in Iobs : Reached(t, j) /\ j # i => Sane(t, j, 0)
    BY <1>0, <1>1, <1>5 DEF Files, AllSane, Sane, Opened, Shut, OpensShell
  <2>3. Owned(t)
    <3>1. t.fds = s.fds /\ n.fd \notin Fds
      BY <1>4, <1>5 DEF OpensShell
    <3>2. \A d \in Fds : t.fds[d] # Closed => \E j \in Iobs : t.iob[j].opn /\ t.iob[j].fd = d
      BY <1>1, <1>2, <3>1 DEF Files, Owned
    <3>3. ASSUME NEW j \in Iobs, NEW k \in Iobs, t.iob[j].opn, t.iob[k].opn, j # k, t.iob[j].fd \in Fds
          PROVE  t.iob[j].fd # t.iob[k].fd
      BY <1>1, <3>1, <3>3 DEF Files, Owned
    <3> QED BY <3>2, <3>3 DEF Owned
  <2>4. OwnPid(t)
    BY <1>0, <1>1, <1>5 DEF Files, OwnPid, OpensShell
  <2> QED BY <1>3, <2>1, <2>2, <2>3, <2>4 DEF Files, AllSane
<1>6. ASSUME NEW d \in Fds, s.fds[d] = Closed,
             OpensFile(s, t, n, d) \/ \E p \in Pids : OpensPipe(s, t, n, d, p)
      PROVE  Files(t, i, 0)
  <2>1. /\ t.fds[d] # Closed /\ \A e \in Fds : e # d => t.fds[e] = s.fds[e]
        /\ n.fd = d
        /\ t.fds[d] = IF n.pip THEN n.pid ELSE 0
    <3>1. s.fds \in [Fds -> Pids \cup {0, Closed}]
      BY DEF Shape
    <3>2. CASE OpensFile(s, t, n, d)
      BY <1>4, <3>1, <3>2 DEF OpensFile
    <3>3. ASSUME NEW p \in Pids, OpensPipe(s, t, n, d, p)
          PROVE  /\ n.fd = d /\ n.pip /\ n.pid = p /\ p # Closed
                 /\ t.fds = [s.fds EXCEPT ![d] = p]
      BY <1>4, <3>3 DEF OpensPipe
    <3>4. CASE \E p \in Pids : OpensPipe(s, t, n, d, p)
      BY <3>1, <3>3, <3>4
    <3> QED BY <1>6, <3>2, <3>4
  <2>2. \A j \in Iobs : s.iob[j].opn => s.iob[j].fd # d
    <3> SUFFICES ASSUME NEW j \in Iobs, s.iob[j].opn, s.iob[j].fd = d PROVE FALSE
      OBVIOUS
    <3>1. Opened(s, j, 0) /\ (s.iob[j].pip => s.iob[j].pid \in Pids)
      BY <1>2 DEF Files, AllSane, Sane, Opened, Shape, IobType
    <3>2. s.fds[d] = 0 \/ s.fds[d] \in Pids
      BY <3>1 DEF Opened
    <3> QED BY <1>4, <1>6, <3>2
  <2>3. Owned(t)
    <3>1. \A e \in Fds : t.fds[e] # Closed => \E j \in Iobs : t.iob[j].opn /\ t.iob[j].fd = e
      <4> SUFFICES ASSUME NEW e \in Fds, t.fds[e] # Closed
                   PROVE  \E j \in Iobs : t.iob[j].opn /\ t.iob[j].fd = e
        OBVIOUS
      <4>1. CASE e = d
        BY <1>1, <2>1, <4>1 DEF Opens
      <4>2. CASE e # d
        BY <1>1, <1>2, <2>1, <4>2 DEF Files, Owned
      <4> QED BY <4>1, <4>2
    <3>2. ASSUME NEW j \in Iobs, NEW k \in Iobs, t.iob[j].opn, t.iob[k].opn, j # k, t.iob[j].fd \in Fds
          PROVE  t.iob[j].fd # t.iob[k].fd
      <4>1. CASE j = i
        BY <1>1, <2>1, <2>2, <3>2, <4>1
      <4>2. CASE k = i
        BY <1>1, <2>1, <2>2, <3>2, <4>2
      <4>3. CASE j # i /\ k # i
        BY <1>1, <3>2, <4>3 DEF Files, Owned
      <4> QED BY <4>1, <4>2, <4>3
    <3> QED BY <3>1, <3>2 DEF Owned
  <2>4. ASSUME OpensFile(s, t, n, d) PROVE AllSane(t, 0) /\ OwnPid(t)
    <3>1. Sane(t, i, 0)
      BY <1>1, <2>1, <2>4 DEF Sane, Opened, Shut, OpensFile, Opens
    <3>2. ASSUME NEW j \in Iobs, Reached(t, j), j # i PROVE Sane(t, j, 0)
      <4>1. Sane(s, j, 0) /\ t.iob[j] = s.iob[j] /\ t.child = s.child
        BY <1>0, <1>1, <2>4, <3>2 DEF Files, AllSane, OpensFile
      <4>2. s.iob[j].opn /\ s.iob[j].fd \in Fds => t.fds[s.iob[j].fd] = s.fds[s.iob[j].fd]
        BY <2>1, <2>2
      <4> QED BY <4>1, <4>2 DEF Sane, Opened, Shut
    <3>3. OwnPid(t)
      BY <1>0, <1>1, <2>4 DEF Files, OwnPid, OpensFile
    <3> QED BY <3>1, <3>2, <3>3 DEF AllSane
  <2>5. ASSUME NEW p \in Pids, OpensPipe(s, t, n, d, p) PROVE AllSane(t, 0) /\ OwnPid(t)
    <3>1. Sane(t, i, 0)
      <4>1. /\ n.pid = p /\ n.pip /\ n.file \in Commands /\ t.child[p].state = "running"
            /\ t.iob[i] = n /\ n.opn /\ ~n.ded /\ n.fd = d /\ t.fds[d] = n.pid
        BY <1>1, <2>1, <2>5 DEF OpensPipe, Opens
      <4> QED BY <1>4, <4>1 DEF Sane, Opened, Shut
    <3>2. ASSUME NEW j \in Iobs, Reached(t, j), j # i PROVE Sane(t, j, 0)
      <4>1. Sane(s, j, 0) /\ t.iob[j] = s.iob[j] /\ s.iob[j].pid # p /\ s.iob[j].pid \in Pids \cup {0}
        BY <1>0, <1>1, <2>5, <3>2 DEF Files, AllSane, OpensPipe, Shape, IobType
      <4>2. s.iob[j].opn /\ s.iob[j].fd \in Fds => t.fds[s.iob[j].fd] = s.fds[s.iob[j].fd]
        BY <2>1, <2>2
      <4>3. s.iob[j].pid # 0 => t.child[s.iob[j].pid] = s.child[s.iob[j].pid]
        BY <2>5, <4>1 DEF OpensPipe
      <4> QED BY <4>1, <4>2, <4>3 DEF Sane, Opened, Shut
    <3>3. OwnPid(t)
      BY <1>0, <1>1, <2>5 DEF Files, OwnPid, OpensPipe
    <3> QED BY <3>1, <3>2, <3>3 DEF AllSane
  <2> QED BY <1>3, <1>6, <2>3, <2>4, <2>5 DEF Files
<1> QED BY <1>5, <1>6 DEF Opens
------------------------------------------------------------------------------
(* osopen. *)
LEMMA FreeFds ==
    ASSUME NEW s
    PROVE  /\ Free(s) \subseteq Fds /\ \A d \in Free(s) : s.fds[d] = Closed
           /\ Free(s) # {} => Min(Free(s)) \in Free(s)
           /\ ~(Cardinality(Free(s)) < 2) =>
                 /\ Free(s) # {}
                 /\ \A d \in Free(s) : Min(Free(s) \ {d}) \in Free(s)
<1>1. Free(s) \subseteq Fds /\ Fds \subseteq Nat /\ IsFiniteSet(Fds)
  <2>1. FdMax \in Nat
    BY ChannelsAssumption
  <2>2. IsFiniteSet(3 .. FdMax)
    BY <2>1, FS_Interval
  <2>3. 3 .. FdMax \subseteq Nat
    BY <2>1
  <2> QED BY <2>2, <2>3 DEF Free, Fds
<1>2. IsFiniteSet(Free(s))
  BY <1>1, FS_Subset
<1>3. Free(s) # {} => Min(Free(s)) \in Free(s)
  <2>1. Free(s) \subseteq Nat
    BY <1>1
  <2> QED BY <2>1, LeastIn
<1>4. ASSUME ~(Cardinality(Free(s)) < 2)
      PROVE  Free(s) # {} /\ \A d \in Free(s) : Min(Free(s) \ {d}) \in Free(s)
  <2>1. Free(s) # {}
    BY <1>4, FS_EmptySet
  <2>2. ASSUME NEW d \in Free(s) PROVE Min(Free(s) \ {d}) \in Free(s)
    <3>1. Free(s) # {d}
      <4>1. Cardinality({d}) = 1
        BY FS_Singleton
      <4> QED BY <1>4, <4>1
    <3>2. Free(s) \ {d} # {} /\ Free(s) \ {d} \subseteq Nat
      BY <1>1, <2>2, <3>1
    <3>3. Min(Free(s) \ {d}) \in Free(s) \ {d}
      BY <3>2, LeastIn
    <3> QED BY <3>3
  <2> QED BY <2>1, <2>2
<1> QED BY <1>1, <1>3, <1>4 DEF Free

\* An attempt at a pipe that fails.
Tried(s, t, i) ==
    /\ SameTable(s, t) /\ t.fds = s.fds /\ t.child = s.child
    /\ t.iob = [s.iob EXCEPT ![i] = [s.iob[i] EXCEPT !.pip = TRUE]]
    /\ s.iob[i].file \in Commands

\* So does a pipe that could not be made.
LEMMA TriedSound ==
    ASSUME NEW s, Shape(s), NEW i \in Iobs, NEW t, Tried(s, t, i), ~s.iob[i].opn, Files(s, i, 0)
    PROVE  Shape(t) /\ Files(t, 0, 0)
<1>1. PICK n : n = [s.iob[i] EXCEPT !.pip = TRUE]
  OBVIOUS
<1>2. t.iob[i] = n /\ \A j \in Iobs : j # i => t.iob[j] = s.iob[j]
  BY <1>1 DEF Tried, Shape
<1>3. /\ IobType(n) /\ ~n.opn /\ n.pip /\ n.file = s.iob[i].file /\ n.pid = s.iob[i].pid
      /\ n.ded = s.iob[i].ded /\ n.dirty = s.iob[i].dirty
  BY <1>1 DEF Shape, IobType, IobFields
<1>4. Shape(t)
  <2>1. DOMAIN t.iob = Iobs /\ \A j \in Iobs : IobType(t.iob[j])
    BY <1>2, <1>3 DEF Tried, Shape
  <2> QED BY <2>1 DEF Tried, SameTable, Shape
<1>5. /\ \A j \in Iobs : Chained(t, j) <=> Chained(s, j)
      /\ \A j \in Iobs : Reached(t, j) <=> Reached(s, j)
  BY SameReach DEF Tried
<1>6. OnChain(t, 0)
  BY <1>2, <1>3, <1>5 DEF Files, OnChain
<1>7. AllSane(t, 0)
  <2>1. ASSUME Reached(t, i) PROVE Sane(t, i, 0)
    BY <1>2, <1>3, <1>5, <2>1 DEF Files, AllSane, Sane, Opened, Shut, Tried
  <2>2. ASSUME NEW j \in Iobs, Reached(t, j), j # i PROVE Sane(t, j, 0)
    BY <1>2, <1>5, <2>2 DEF Files, AllSane, Sane, Opened, Shut, Tried
  <2> QED BY <2>1, <2>2 DEF AllSane
<1>8. Owned(t)
  <2>1. \A j \in Iobs : t.iob[j].opn = s.iob[j].opn /\ (s.iob[j].opn => t.iob[j] = s.iob[j])
    BY <1>2, <1>3 DEF Shape, IobType
  <2> QED BY <2>1 DEF Files, Owned, Tried
<1>9. OwnPid(t)
  <2>1. \A j \in Iobs : t.iob[j].pid = s.iob[j].pid
    BY <1>2, <1>3
  <2> QED BY <1>5, <2>1 DEF Files, OwnPid
<1> QED BY <1>4, <1>6, <1>7, <1>8, <1>9 DEF Files

\* What a file, a descriptor of the shell and a pipe do to the storage.
FileOpened(s, i, d) == [s EXCEPT !.fds[d] = 0, !.iob[i].fd = d, !.iob[i].opn = TRUE]
ShellOpened(s, i) ==
    [s EXCEPT !.iob[i] = [s.iob[i] EXCEPT !.sys = TRUE, !.fd = IF s.iob[i].oup THEN 2 ELSE 0, !.opn = TRUE,
                                          !.wrc = @ \/ (s.iob[i].oup /\ (IF s.iob[i].oup THEN 2 ELSE 0) \in Terminals)]]
Piped(s, i) == [s EXCEPT !.iob[i].pip = TRUE]
PipeOpened(s, i, d, p) ==
    [s EXCEPT !.fds[d] = p,
              !.iob[i].pid = p, !.iob[i].fd = d, !.iob[i].opn = TRUE,
              !.child[p] = [state |-> "running", reads |-> ~s.iob[i].inp, holds |-> {}]]
Holding(s, p, h) == [s EXCEPT !.child[p].holds = h]

\* osopen of a file.
LEMMA FileOpenedOpens ==
    ASSUME NEW s, Shape(s), NEW i \in Iobs, NEW d \in Fds, s.fds[d] = Closed,
           ~s.iob[i].pip, s.iob[i].pid = 0, ~s.iob[i].ded, ~s.iob[i].dirty
    PROVE  \E n : Opens(s, FileOpened(s, i, d), i, n)
<1>1. PICK n, t : /\ n = [s.iob[i] EXCEPT !.fd = d, !.opn = TRUE]
                  /\ t = FileOpened(s, i, d)
  OBVIOUS
<1>2. IobType(n) /\ n.opn /\ ~n.ded /\ ~n.dirty /\ n.fd = d /\ ~n.pip /\ n.pid = 0
  BY <1>1 DEF Shape, IobType, IobFields
<1>3. /\ SameTable(s, t) /\ t.iob = [s.iob EXCEPT ![i] = n]
      /\ t.fds = [s.fds EXCEPT ![d] = 0] /\ t.child = s.child
  BY <1>1 DEF FileOpened, SameTable, Shape, Fields
<1> QED BY <1>1, <1>2, <1>3 DEF Opens, OpensFile

\* osopen of "-", a descriptor that the shell opened.
LEMMA ShellOpenedOpens ==
    ASSUME NEW s, Shape(s), NEW i \in Iobs,
           ~s.iob[i].pip, s.iob[i].pid = 0, ~s.iob[i].ded, ~s.iob[i].dirty
    PROVE  \E n : Opens(s, ShellOpened(s, i), i, n)
<1>1. PICK n, t :
         /\ n = [s.iob[i] EXCEPT !.sys = TRUE, !.fd = IF s.iob[i].oup THEN 2 ELSE 0, !.opn = TRUE,
                                 !.wrc = @ \/ (s.iob[i].oup /\ (IF s.iob[i].oup THEN 2 ELSE 0) \in Terminals)]
         /\ t = ShellOpened(s, i)
  OBVIOUS
<1>2. IobType(n) /\ n.opn /\ ~n.ded /\ ~n.dirty /\ n.sys /\ n.fd \in 0..2 /\ ~n.pip /\ n.pid = 0
  <2>1. DOMAIN n = IobFields
    BY <1>1 DEF Shape, IobType
  <2>2. n.fd = (IF s.iob[i].oup THEN 2 ELSE 0) /\ n.fd \in 0..2
    BY <1>1 DEF Shape, IobType, IobFields
  <2>3. /\ n.inp = s.iob[i].inp /\ n.oup = s.iob[i].oup /\ n.sys = TRUE /\ n.opn = TRUE
        /\ n.pip = s.iob[i].pip /\ n.ded = s.iob[i].ded /\ n.dirty = s.iob[i].dirty /\ n.pid = s.iob[i].pid
    BY <1>1 DEF Shape, IobType, IobFields
  <2> QED BY <2>1, <2>2, <2>3 DEF Shape, IobType
<1>3. /\ SameTable(s, t) /\ t.iob = [s.iob EXCEPT ![i] = n]
      /\ t.fds = s.fds /\ t.child = s.child
  BY <1>1 DEF ShellOpened, SameTable, Shape, Fields
<1> QED BY <1>1, <1>2, <1>3 DEF Opens, OpensShell

\* osopen of a command: its process has no ioblk yet.
LEMMA PipeOpenedOpens ==
    ASSUME NEW s, Shape(s), NEW i \in Iobs, NEW d \in Fds, s.fds[d] = Closed, NEW p \in Pids, NEW h,
           \A j \in Iobs : Reached(s, j) => s.iob[j].pid # p,
           s.iob[i].file \in Commands, ~s.iob[i].ded, ~s.iob[i].dirty
    PROVE  \E n : Opens(s, Holding(PipeOpened(Piped(s, i), i, d, p), p, h), i, n)
<1>1. PICK n, s1, s2, t :
         /\ n = [s.iob[i] EXCEPT !.pip = TRUE, !.pid = p, !.fd = d, !.opn = TRUE]
         /\ s1 = Piped(s, i) /\ s2 = PipeOpened(s1, i, d, p) /\ t = Holding(s2, p, h)
  OBVIOUS
<1>2. /\ IobType(n) /\ n.opn /\ ~n.ded /\ ~n.dirty /\ n.fd = d /\ n.pip /\ n.pid = p
      /\ n.file \in Commands
  BY <1>1 DEF Shape, IobType, IobFields
<1>3. /\ SameTable(s, s1) /\ s1.iob = [s.iob EXCEPT ![i] = [s.iob[i] EXCEPT !.pip = TRUE]]
      /\ s1.fds = s.fds /\ s1.child = s.child
  BY <1>1 DEF Piped, SameTable, Shape, Fields
<1>4. /\ SameTable(s1, s2) /\ s2.fds = [s.fds EXCEPT ![d] = p]
      /\ s2.iob = [s1.iob EXCEPT ![i] = [s1.iob[i] EXCEPT !.pid = p, !.fd = d, !.opn = TRUE]]
      /\ s2.child = [s.child EXCEPT ![p] = [state |-> "running", reads |-> ~s1.iob[i].inp, holds |-> {}]]
  <2>1. DOMAIN s1 = Fields /\ s1.fds = s.fds /\ s1.child = s.child
    BY <1>3 DEF SameTable
  <2> HIDE <1>3
  <2> QED BY <1>1, <2>1 DEF PipeOpened, SameTable, Fields
<1>5. /\ SameTable(s2, t) /\ t.fds = s2.fds /\ t.iob = s2.iob
      /\ t.child = [s2.child EXCEPT ![p] = [s2.child[p] EXCEPT !.holds = h]]
  <2>1. DOMAIN s2 = Fields
    BY <1>4 DEF SameTable
  <2> QED BY <1>1, <2>1 DEF Holding, SameTable, Fields
<1>6. SameTable(s, t)
  BY <1>3, <1>4, <1>5 DEF SameTable
<1>7. t.iob = [s.iob EXCEPT ![i] = n]
  <2>1. s1.iob[i] = [s.iob[i] EXCEPT !.pip = TRUE]
    BY <1>3 DEF Shape
  <2>2. [s1.iob[i] EXCEPT !.pid = p, !.fd = d, !.opn = TRUE] = n
    BY <1>1, <2>1
  <2>3. t.iob = [s1.iob EXCEPT ![i] = n]
    BY <1>4, <1>5, <2>2
  <2> QED BY <1>3, <2>3
<1>8. /\ DOMAIN t.child = Pids /\ DOMAIN t.child[p] = {"state", "reads", "holds"}
      /\ t.child[p].state = "running" /\ \A q \in Pids : q # p => t.child[q] = s.child[q]
  <2>1. DOMAIN s.child = Pids
    BY DEF Shape
  <2>2. s2.child[p] = [state |-> "running", reads |-> ~s1.iob[i].inp, holds |-> {}]
    BY <1>4, <2>1
  <2> QED BY <1>4, <1>5, <2>1, <2>2
<1>9. OpensPipe(s, t, n, d, p)
  BY <1>2, <1>4, <1>5, <1>8 DEF OpensPipe
<1> QED BY <1>1, <1>2, <1>6, <1>7, <1>9 DEF Opens

\* The results of osopen: the ioblk was open, is opened now, or is not.
LEMMA osopenIs ==
    ASSUME NEW s, Shape(s), Filled(s), NEW i \in Iobs, Sane(s, i, 0), NEW r \in osopen(s, i)
    PROVE  /\ r.ok => \/ s.iob[i].opn /\ r.w = s
                      \/ ~s.iob[i].opn /\ \E n : Opens(s, r.w, i, n)
           /\ ~r.ok => ~s.iob[i].opn /\ (r.w = s \/ Tried(s, r.w, i))
<1> DEFINE b == s.iob[i]
           Result == /\ r.ok => \E n : Opens(s, r.w, i, n)
                     /\ ~r.ok => r.w = s \/ Tried(s, r.w, i)
<1>1. CASE b.opn
  BY <1>1 DEF osopen, Yes
<1>2. ASSUME ~b.opn PROVE Result
  <2>1. ~b.ded /\ ~b.dirty /\ (b.file \notin Commands => ~b.pip /\ b.pid = 0)
    BY <1>2 DEF Sane, Shut
  <2>2. r \in OpenNow(s, i)
    BY <1>2 DEF osopen
  <2>3. CASE b.file \in Commands
    <3>1. PICK s1 : s1 = Piped(s, i)
      OBVIOUS
    <3>2. /\ SameTable(s, s1) /\ s1.fds = s.fds /\ s1.child = s.child
          /\ s1.iob = [s.iob EXCEPT ![i] = [s.iob[i] EXCEPT !.pip = TRUE]]
      BY <3>1 DEF Piped, SameTable, Shape, Fields
    <3>3. Tried(s, s1, i)
      BY <2>3, <3>2 DEF Tried
    <3>4. r \in ospipe(s1, i)
      BY <2>2, <2>3, <3>1, ChannelsAssumption DEF OpenNow, Piped
    <3>5. CASE r = No(s1)
      BY <3>3, <3>5 DEF No
    <3>6. CASE r # No(s1)
      <4> DEFINE D == IF s1.iob[i].inp THEN Min(Free(s1)) ELSE Min(Free(s1) \ {Min(Free(s1))})
                 P == Min(Pids \ LivePids(s1))
                 H == Kept(PipeOpened(s1, i, D, P))
      <4>1. /\ ~(Cardinality(Free(s1)) < 2) /\ ~(Pids \subseteq LivePids(s1))
            /\ r = Yes(Holding(PipeOpened(s1, i, D, P), P, H))
        <5>1. r \in {No(s1)} \cup
                IF (s1.iob[i].inp /\ s1.iob[i].oup) \/ Cardinality(Free(s1)) < 2 \/ Pids \subseteq LivePids(s1)
                THEN {} ELSE {Yes(Holding(PipeOpened(s1, i, D, P), P, H))}
          BY <3>4, Zenon DEF ospipe, PipeOpened, Holding
        <5> HIDE DEF D, P, H
        <5> QED BY <3>6, <5>1
      <4>2. PICK d, p, h : /\ d \in {Min(Free(s1)), Min(Free(s1) \ {Min(Free(s1))})}
                           /\ p = Min(Pids \ LivePids(s1))
                           /\ r = Yes(Holding(PipeOpened(s1, i, d, p), p, h))
        <5>1. D \in {Min(Free(s1)), Min(Free(s1) \ {Min(Free(s1))})}
          OBVIOUS
        <5>2. P = Min(Pids \ LivePids(s1))
          OBVIOUS
        <5> HIDE DEF D, P, H
        <5> QED BY <4>1, <5>1, <5>2
      <4> HIDE DEF D, P, H
      <4>3. d \in Fds /\ s.fds[d] = Closed
        <5>1. d \in Free(s1)
          BY <4>1, <4>2, FreeFds
        <5> QED BY <3>2, <5>1 DEF Free
      <4>4. p \in Pids /\ p \notin LivePids(s1)
        <5>1. Pids \ LivePids(s1) \subseteq Nat /\ Pids \ LivePids(s1) # {}
          BY <4>1, ChannelsAssumption
        <5>2. p \in Pids \ LivePids(s1)
          BY <4>2, <5>1, LeastIn
        <5> QED BY <5>2
      <4>5. \A j \in Iobs : Reached(s, j) => s.iob[j].pid # p
        <5>1. Shape(s1) /\ Filled(s1)
          <6>1. \A j \in Iobs : IobType(s1.iob[j])
            <7>1. \A j \in Iobs : IobType(s.iob[j])
              BY DEF Shape
            <7>2. IobType([s.iob[i] EXCEPT !.pip = TRUE])
              BY <7>1 DEF IobType, IobFields
            <7>3. \A j \in Iobs : s1.iob[j] = s.iob[j] \/ s1.iob[j] = [s.iob[i] EXCEPT !.pip = TRUE]
              BY <3>2 DEF Shape
            <7> QED BY <7>1, <7>2, <7>3
          <6>2. Shape(s1)
            BY <3>2, <6>1 DEF Shape, SameTable
          <6>3. Filled(s1)
            BY <3>2, SameReach DEF Filled, SameTable
          <6> QED BY <6>2, <6>3
        <5>2. ASSUME NEW j \in Iobs, Reached(s, j) PROVE s.iob[j].pid # p
          <6>1. Reached(s1, j)
            BY <3>2, <5>2, SameReach
          <6>2. s1.iob[j].pid = s.iob[j].pid
            BY <3>2 DEF Shape, IobType, IobFields
          <6> QED BY <4>4, <5>1, <6>1, <6>2, LivePidsHas
        <5> QED BY <5>2
      <4>6. \E n : Opens(s, Holding(PipeOpened(Piped(s, i), i, d, p), p, h), i, n)
        BY <2>1, <2>3, <4>3, <4>4, <4>5, PipeOpenedOpens
      <4> QED BY <3>1, <4>2, <4>6 DEF Yes
    <3> QED BY <3>5, <3>6
  <2>4. CASE b.file \notin Commands /\ b.file = Hyphen
    <3>1. r = Yes(ShellOpened(s, i))
      BY <2>2, <2>4 DEF OpenNow, ShellOpened
    <3>2. \E n : Opens(s, ShellOpened(s, i), i, n)
      BY <2>1, <2>4, ShellOpenedOpens
    <3> QED BY <3>1, <3>2 DEF Yes
  <2>5. CASE b.file \notin Commands /\ b.file # Hyphen
    <3>1. r = No(s) \/ (Free(s) # {} /\ r = Yes(FileOpened(s, i, Min(Free(s)))))
      BY <2>2, <2>5 DEF OpenNow, FileOpened
    <3>2. CASE r = No(s)
      BY <3>2 DEF No
    <3>3. ASSUME Free(s) # {}, r = Yes(FileOpened(s, i, Min(Free(s)))) PROVE Result
      <4>1. PICK d \in Fds : d = Min(Free(s)) /\ s.fds[d] = Closed
        BY <3>3, FreeFds
      <4>2. \E n : Opens(s, FileOpened(s, i, d), i, n)
        BY <2>1, <2>5, <4>1, FileOpenedOpens
      <4> QED BY <3>3, <4>1, <4>2 DEF Yes
    <3> QED BY <3>1, <3>2, <3>3
  <2> QED BY <2>3, <2>4, <2>5
<1> QED BY <1>1, <1>2

\* Whatever osopen does, the storage stays sound.
LEMMA osopenSound ==
    ASSUME NEW s, Shape(s), Table(s), NEW i \in Iobs, Reached(s, i), Files(s, i, 0), NEW r \in osopen(s, i)
    PROVE  /\ Shape(r.w) /\ Table(r.w)
           /\ SameTable(s, r.w)
           /\ r.ok => Files(r.w, i, 0)
           /\ ~r.ok => Files(r.w, 0, 0)
<1>1. Sane(s, i, 0) /\ Filled(s)
  BY DEF Files, AllSane, Table
<1>2. /\ r.ok => \/ s.iob[i].opn /\ r.w = s
                 \/ ~s.iob[i].opn /\ \E n : Opens(s, r.w, i, n)
      /\ ~r.ok => ~s.iob[i].opn /\ (r.w = s \/ Tried(s, r.w, i))
  BY <1>1, osopenIs
<1>3. SameTable(s, s)
  BY DEF SameTable, Shape
<1>4. ASSUME r.w = s, r.ok \/ ~s.iob[i].opn
      PROVE  SameTable(s, r.w) /\ Shape(r.w) /\ (r.ok => Files(r.w, i, 0)) /\ (~r.ok => Files(r.w, 0, 0))
  <2>1. ~s.iob[i].opn => OnChain(s, 0)
    BY DEF Files, OnChain
  <2> QED BY <1>2, <1>3, <1>4, <2>1 DEF Files
<1>5. ASSUME NEW n, Opens(s, r.w, i, n), ~s.iob[i].opn
      PROVE  SameTable(s, r.w) /\ Shape(r.w) /\ Files(r.w, i, 0)
  BY <1>5, OpensShape, OpensFiles DEF Opens
<1>6. ASSUME Tried(s, r.w, i), ~s.iob[i].opn
      PROVE  SameTable(s, r.w) /\ Shape(r.w) /\ Files(r.w, 0, 0)
  BY <1>6, TriedSound DEF Tried
<1>7. SameTable(s, r.w) => Table(r.w)
  BY SameReach
<1> QED BY <1>2, <1>4, <1>5, <1>6, <1>7
------------------------------------------------------------------------------
(* ioput. *)
LEMMA ListedIs ==
    ASSUME NEW s, s.r_fcb \in Seq(Fcbs), NEW f \in Fcbs, NEW r, r = Listed(s, f)
    PROVE  /\ r \in Seq(Fcbs)
           /\ \A k \in DOMAIN r : r[k] = f \/ \E j \in DOMAIN s.r_fcb : s.r_fcb[j] = r[k]
           /\ \A j \in DOMAIN s.r_fcb : \E k \in DOMAIN r : r[k] = s.r_fcb[j]
           /\ \E k \in DOMAIN r : r[k] = f
<1>1. CASE f \in Range(s.r_fcb)
  BY <1>1 DEF Listed, Range
<1>2. CASE f \notin Range(s.r_fcb)
  <2>1. PICK q : q = s.r_fcb /\ q \in Seq(Fcbs)
    OBVIOUS
  <2>2. r = <<f>> \o q
    BY <1>2, <2>1 DEF Listed
  <2>3. /\ r \in Seq(Fcbs) /\ Len(r) = Len(q) + 1 /\ r[1] = f
        /\ \A k \in 1 .. Len(q) : r[k + 1] = q[k]
    BY <2>1, <2>2
  <2>4. DOMAIN r = 1 .. Len(q) + 1 /\ DOMAIN q = 1 .. Len(q) /\ Len(q) \in Nat
    BY <2>1, <2>3
  <2>5. \A k \in DOMAIN r : k = 1 \/ k - 1 \in 1 .. Len(q)
    BY <2>4
  <2>6. \A k \in DOMAIN r : r[k] = f \/ \E j \in DOMAIN q : q[j] = r[k]
    <3> SUFFICES ASSUME NEW k \in DOMAIN r, k # 1 PROVE \E j \in DOMAIN q : q[j] = r[k]
      BY <2>3
    <3>1. k - 1 \in 1 .. Len(q) /\ (k - 1) + 1 = k
      BY <2>4, <2>5
    <3>2. r[k] = q[k - 1]
      BY <2>3, <3>1
    <3> QED BY <2>4, <3>1, <3>2
  <2>7. \A j \in DOMAIN q : j + 1 \in DOMAIN r /\ r[j + 1] = q[j]
    BY <2>3, <2>4
  <2>8. 1 \in DOMAIN r
    BY <2>4
  <2> QED BY <2>1, <2>3, <2>6, <2>7, <2>8
<1> QED BY <1>1, <1>2

\* iop19 to iop25: with its fcblk on the chain, the ioblk is no exception any more.
LEMMA AssociatedSound ==
    ASSUME NEW s, Shape(s), Table(s), NEW v \in Vars, NEW dir \in Dirs, NEW b \in Blocks, Live(s, b),
           NEW f \in Fcbs, f = s.block[b].fcb, Files(s, s.fcblk[f], 0),
           NEW t, t = Associated(s, v, dir, b, f)
    PROVE  Shape(t) /\ Table(t) /\ Files(t, 0, 0)
<1>1. /\ DOMAIN t = Fields /\ t.chan = s.chan /\ t.fcblk = s.fcblk /\ t.iob = s.iob
      /\ t.fds = s.fds /\ t.child = s.child
      /\ t.r_fcb = Listed(s, f)
      /\ t.assoc = [s.assoc EXCEPT ![v][dir] = b]
      /\ t.block = [s.block EXCEPT ![b].iochn = s.block[b].iochn \cup {v}]
  BY DEF Associated, Named, Shape, Fields
<1>2. /\ s.block \in [Blocks -> [fcb : Fcbs \cup {0}, iochn : SUBSET Vars]]
      /\ s.assoc \in [Vars -> [Dirs -> Blocks \cup {0, Std}]]
      /\ s.r_fcb \in Seq(Fcbs)
  BY DEF Shape
<1>3. /\ t.r_fcb \in Seq(Fcbs)
      /\ \A k \in DOMAIN t.r_fcb : t.r_fcb[k] = f \/ \E j \in DOMAIN s.r_fcb : s.r_fcb[j] = t.r_fcb[k]
      /\ \A j \in DOMAIN s.r_fcb : \E k \in DOMAIN t.r_fcb : t.r_fcb[k] = s.r_fcb[j]
      /\ \E k \in DOMAIN t.r_fcb : t.r_fcb[k] = f
  <2>1. PICK r : r = Listed(s, f)
    OBVIOUS
  <2>2. /\ r \in Seq(Fcbs)
        /\ \A k \in DOMAIN r : r[k] = f \/ \E j \in DOMAIN s.r_fcb : s.r_fcb[j] = r[k]
        /\ \A j \in DOMAIN s.r_fcb : \E k \in DOMAIN r : r[k] = s.r_fcb[j]
        /\ \E k \in DOMAIN r : r[k] = f
    BY <1>2, <2>1, ListedIs
  <2> QED BY <1>1, <2>1, <2>2
<1>4. /\ t.block \in [Blocks -> [fcb : Fcbs \cup {0}, iochn : SUBSET Vars]]
      /\ t.block[b].fcb = f /\ t.block[b].iochn = s.block[b].iochn \cup {v}
      /\ \A a \in Blocks : a # b => t.block[a] = s.block[a]
  BY <1>1, <1>2
<1>5. /\ t.assoc \in [Vars -> [Dirs -> Blocks \cup {0, Std}]]
      /\ t.assoc[v][dir] = b
      /\ \A u \in Vars, d \in Dirs : u # v \/ d # dir => t.assoc[u][d] = s.assoc[u][d]
  BY <1>1, <1>2
<1>6. Shape(t)
  BY <1>1, <1>3, <1>4, <1>5 DEF Shape
<1>7. \A a : Live(t, a) => Live(s, a)
  <2>1. \A u \in Vars, d \in Dirs : t.assoc[u][d] = s.assoc[u][d] \/ t.assoc[u][d] = b
    BY <1>5
  <2> QED BY <1>1, <2>1 DEF Live
<1>8. \A a \in Blocks : t.block[a].fcb = s.block[a].fcb
  BY <1>4
<1>9. Table(t)
  <2>1. Filled(t) /\ Apart(t)
    BY <1>1, <1>7, <1>8 DEF Table, Filled, Apart
  <2>2. Attached(t)
    <3> SUFFICES ASSUME NEW u \in Vars, NEW d \in Dirs, t.assoc[u][d] > 0
                 PROVE  u \in t.block[t.assoc[u][d]].iochn
      BY DEF Attached
    <3>1. CASE u = v /\ d = dir
      BY <1>4, <1>5, <3>1
    <3>2. CASE u # v \/ d # dir
      <4>1. t.assoc[u][d] = s.assoc[u][d] /\ s.assoc[u][d] \in Blocks
        BY <1>2, <1>5, <3>2 DEF Std
      <4>2. u \in s.block[s.assoc[u][d]].iochn
        BY <4>1 DEF Table, Attached
      <4> QED BY <1>4, <4>1, <4>2
    <3> QED BY <3>1, <3>2
  <2> QED BY <2>1, <2>2 DEF Table
<1>10. \A j \in Iobs : Chained(t, j) <=> Chained(s, j) \/ j = s.fcblk[f]
  <2>1. ASSUME NEW j \in Iobs, NEW k \in DOMAIN t.r_fcb, s.fcblk[t.r_fcb[k]] = j
        PROVE  Chained(s, j) \/ j = s.fcblk[f]
    <3>1. t.r_fcb[k] = f \/ \E m \in DOMAIN s.r_fcb : s.r_fcb[m] = t.r_fcb[k]
      BY <1>3
    <3> QED BY <2>1, <3>1 DEF Chained
  <2>4. ASSUME NEW j \in Iobs, NEW k \in DOMAIN s.r_fcb, s.fcblk[s.r_fcb[k]] = j
        PROVE  Chained(t, j)
    <3>1. \E m \in DOMAIN t.r_fcb : t.r_fcb[m] = s.r_fcb[k]
      BY <1>3
    <3> QED BY <1>1, <2>4, <3>1 DEF Chained
  <2>5. \E m \in DOMAIN t.r_fcb : t.r_fcb[m] = f
    BY <1>3
  <2>6. \A j \in Iobs : j = s.fcblk[f] => Chained(t, j)
    BY <1>1, <2>5 DEF Chained
  <2>7. \A j \in Iobs : Chained(t, j) => Chained(s, j) \/ j = s.fcblk[f]
    BY <1>1, <2>1 DEF Chained
  <2>8. \A j \in Iobs : Chained(s, j) => Chained(t, j)
    BY <2>4 DEF Chained
  <2> QED BY <2>6, <2>7, <2>8
<1>11. \A j \in Iobs : Reached(t, j) => Reached(s, j)
  <2>1. \A j \in Iobs : j = s.fcblk[f] => Reached(s, j)
    BY DEF Reached
  <2> QED BY <1>1, <1>7, <1>8, <1>10, <2>1 DEF Reached
<1>12. Files(t, s.fcblk[f], 0)
  BY <1>1, <1>10, <1>11, FilesKept
<1>13. OnChain(t, 0)
  BY <1>10, <1>12 DEF Files, OnChain
<1> QED BY <1>6, <1>9, <1>12, <1>13 DEF Files

\* What ioput leaves behind, unless it crashes.
Sound(r) ==
    /\ r.reply \in {"ok", "error", "fail", "crash"}
    /\ r.reply # "crash" => Shape(r.w) /\ Table(r.w) /\ Files(r.w, 0, 0)

\* sysio and what follows it, whether it fails or not.
LEMMA CompleteSound ==
    ASSUME NEW s, Shape(s), Table(s), NEW v \in Vars, NEW c \in Chans, NEW dir \in Dirs,
           NEW b \in Blocks, Live(s, b), NEW f \in Fcbs, f = s.block[b].fcb,
           NEW q, q.ill \in BOOLEAN, NEW release,
           Files(s, s.fcblk[f], 0), q.ill => Files(s, 0, 0),
           NEW res \in Complete(s, v, c, dir, b, f, q, release)
    PROVE  Sound(res)
<1> DEFINE Failed(t, how) == [w |-> IF release THEN [t EXCEPT !.chan[c] = 0] ELSE t, reply |-> how]
<1>1. ASSUME NEW t, Shape(t), Table(t), Files(t, 0, 0), NEW how \in {"fail", "error"}
      PROVE  Sound(Failed(t, how))
  <2>1. PICK u : u = [t EXCEPT !.chan[c] = 0]
    OBVIOUS
  <2>2. Shape(u) /\ Table(u) /\ Files(u, 0, 0)
    BY <1>1, <2>1, Released
  <2> QED BY <1>1, <2>1, <2>2 DEF Sound
<1>2. ASSUME NEW r, Shape(r.w), Table(r.w), Live(r.w, b), f = r.w.block[b].fcb,
             Files(r.w, r.w.fcblk[f], 0)
      PROVE  Sound([w |-> Associated(r.w, v, dir, b, f), reply |-> "ok"])
  <2>1. PICK t : t = Associated(r.w, v, dir, b, f)
    OBVIOUS
  <2>2. Shape(t) /\ Table(t) /\ Files(t, 0, 0)
    BY <1>2, <2>1, AssociatedSound
  <2> QED BY <2>1, <2>2 DEF Sound
<1>3. v # NoVar
  BY ChannelsAssumption
<1>4. CASE q.ill
  <2>1. res = Failed(s, IF release THEN "error" ELSE "fail")
    BY <1>4 DEF Complete
  <2>2. (IF release THEN "error" ELSE "fail") \in {"fail", "error"}
    OBVIOUS
  <2> HIDE DEF Failed
  <2> QED BY <1>1, <1>4, <2>1, <2>2
<1>5. CASE ~q.ill /\ s.fcblk[f] = 0
  <2>1. \/ res = [w |-> s, reply |-> "crash"]
        \/ res = [w |-> Associated(s, v, dir, b, f), reply |-> "ok"]
    BY <1>3, <1>5 DEF Complete, Yes
  <2>2. Sound([w |-> s, reply |-> "crash"])
    BY DEF Sound
  <2>3. PICK r : r = Yes(s)
    OBVIOUS
  <2>4. r.w = s
    BY <2>3 DEF Yes
  <2>5. Sound([w |-> Associated(s, v, dir, b, f), reply |-> "ok"])
    BY <1>2, <2>4
  <2> QED BY <2>1, <2>2, <2>5
<1>6. CASE ~q.ill /\ s.fcblk[f] # 0
  <2>1. PICK r \in osopen(s, s.fcblk[f]) :
           res = IF ~r.ok THEN Failed(r.w, "fail")
                 ELSE [w |-> Associated(r.w, v, dir, b, f), reply |-> "ok"]
    BY <1>3, <1>6 DEF Complete
  <2>2. s.fcblk[f] \in Iobs
    BY <1>6 DEF Shape
  <2>3. Reached(s, s.fcblk[f])
    BY DEF Reached
  <2>4. /\ Shape(r.w) /\ Table(r.w) /\ SameTable(s, r.w)
        /\ r.ok => Files(r.w, s.fcblk[f], 0)
        /\ ~r.ok => Files(r.w, 0, 0)
    BY <2>2, <2>3, osopenSound
  <2>5. Live(r.w, b) /\ f = r.w.block[b].fcb /\ r.w.fcblk[f] = s.fcblk[f]
    BY <2>4, SameReach DEF SameTable
  <2>6. CASE ~r.ok
    <3> HIDE DEF Failed
    <3> QED BY <1>1, <2>1, <2>4, <2>6
  <2>7. CASE r.ok
    <3>1. Sound([w |-> Associated(r.w, v, dir, b, f), reply |-> "ok"])
      BY <1>2, <2>4, <2>5, <2>7
    <3> QED BY <2>1, <2>7, <3>1
  <2> QED BY <2>6, <2>7
<1> QED BY <1>4, <1>5, <1>6
\* What zysfc asks for.
LEMMA zysfcIs ==
    ASSUME Suitable, NEW s, NEW c \in Chans, NEW dir, NEW fcb, NEW given, IsArgument(given), StartedWith(given),
           NEW q, q = zysfc(s, c, dir, fcb, given)
    PROVE  /\ q.kind \in {"exit", "all", "fcb", "none"} /\ q.ill \in BOOLEAN
           /\ q.kind \in {"fcb", "none"} => fcb # 0
           /\ q.t.inp \in BOOLEAN /\ q.t.oup \in BOOLEAN /\ q.t.opn \in BOOLEAN /\ q.t.fdn \in 0..2
<1>1. PICK arg : /\ arg = given \/ (Alias[c] # Null /\ arg = Alias[c])
                 /\ q.t = sioarg(dir, arg.opts)
  BY DEF zysfc
<1>2. IsArgument(arg) /\ StartedWith(arg)
  BY <1>1, ChannelsAssumption DEF Suitable
<1>3. q.t.inp \in BOOLEAN /\ q.t.oup \in BOOLEAN /\ q.t.opn \in BOOLEAN /\ q.t.fdn \in 0..2
  BY <1>1, <1>2, SioargType
<1>4. q.ill \in BOOLEAN
  BY DEF zysfc
<1>5. /\ q.kind \in {"exit", "all", "fcb", "none"}
      /\ q.kind \in {"fcb", "none"} => fcb # 0
  BY DEF zysfc
<1> QED BY <1>3, <1>4, <1>5

\* The block nb of channel c gets the new fcblk f.
Begun(s, c, nb, f) == [NewFcb(s, nb, f) EXCEPT !.chan[c] = nb]
Leading(t, f, i) == [t EXCEPT !.fcblk[f] = i]
LeadingNew(t, f, i, n) == [t EXCEPT !.fcblk[f] = i, !.iob[i] = n]

\* A new fcblk that leads to no ioblk.
LEMMA BegunIs ==
    ASSUME NEW s, Shape(s), NEW c \in Chans, NEW b \in Blocks, NEW f \in Fcbs, NEW t, t = Begun(s, c, b, f)
    PROVE  /\ Made(s, t, c, b, f, 0)
           /\ DOMAIN t = Fields /\ t.iob = s.iob /\ t.fds = s.fds /\ t.child = s.child
<1>1. /\ t.chan = [s.chan EXCEPT ![c] = b] /\ t.block = [s.block EXCEPT ![b].fcb = f]
      /\ t.fcblk = [s.fcblk EXCEPT ![f] = 0] /\ t.assoc = s.assoc /\ t.r_fcb = s.r_fcb
      /\ DOMAIN t = Fields /\ t.iob = s.iob /\ t.fds = s.fds /\ t.child = s.child
  BY DEF Begun, NewFcb, Shape, Fields
<1> QED BY <1>1 DEF Made

\* A new fcblk that leads to an ioblk there is.
LEMMA LeadingIs ==
    ASSUME NEW s, NEW t, NEW c, NEW b, NEW f, Made(s, t, c, b, f, 0),
           DOMAIN t = Fields, t.iob = s.iob, t.fds = s.fds, t.child = s.child,
           NEW i, NEW u, u = Leading(t, f, i)
    PROVE  /\ Made(s, u, c, b, f, i)
           /\ DOMAIN u = Fields /\ u.iob = s.iob /\ u.fds = s.fds /\ u.child = s.child
<1>1. /\ u.chan = t.chan /\ u.block = t.block /\ u.assoc = t.assoc /\ u.r_fcb = t.r_fcb
      /\ u.fcblk = [t.fcblk EXCEPT ![f] = i]
      /\ DOMAIN u = Fields /\ u.iob = t.iob /\ u.fds = t.fds /\ u.child = t.child
  BY DEF Leading, Fields
<1>2. t.fcblk = [s.fcblk EXCEPT ![f] = 0]
  BY DEF Made
<1>3. u.fcblk = [s.fcblk EXCEPT ![f] = i]
  BY <1>1, <1>2
<1> QED BY <1>1, <1>3 DEF Made

\* A new fcblk that leads to a new ioblk.
LEMMA LeadingNewIs ==
    ASSUME NEW s, NEW t, NEW c, NEW b, NEW f, Made(s, t, c, b, f, 0),
           DOMAIN t = Fields, t.iob = s.iob, t.fds = s.fds, t.child = s.child,
           NEW i, NEW n, NEW u, u = LeadingNew(t, f, i, n)
    PROVE  /\ Made(s, u, c, b, f, i)
           /\ DOMAIN u = Fields /\ u.iob = [s.iob EXCEPT ![i] = n] /\ u.fds = s.fds /\ u.child = s.child
<1>1. /\ u.chan = t.chan /\ u.block = t.block /\ u.assoc = t.assoc /\ u.r_fcb = t.r_fcb
      /\ u.fcblk = [t.fcblk EXCEPT ![f] = i]
      /\ DOMAIN u = Fields /\ u.iob = [t.iob EXCEPT ![i] = n] /\ u.fds = t.fds /\ u.child = t.child
  BY DEF LeadingNew, Fields
<1>2. t.fcblk = [s.fcblk EXCEPT ![f] = 0]
  BY DEF Made
<1>3. u.fcblk = [s.fcblk EXCEPT ![f] = i]
  BY <1>1, <1>2
<1> QED BY <1>1, <1>3 DEF Made

\* The storage as sysio finds it is sound, but for the ioblk that is not on the chain yet.
Ready(s, c, b, f) ==
    /\ Shape(s) /\ Table(s) /\ Live(s, b) /\ b \in Blocks /\ f \in Fcbs /\ f = s.block[b].fcb
    /\ Files(s, s.fcblk[f], 0)

\* With a new fcblk for an ioblk that can be reached, sysio finds everything in order.
LEMMA ReadyOld ==
    ASSUME NEW s, Shape(s), Table(s), Files(s, 0, 0), NEW c, NEW b, NEW f, NEW i,
           Makes(s, c, b, f, i), i \in Iobs => Reached(s, i),
           NEW u, Made(s, u, c, b, f, i),
           DOMAIN u = Fields, u.iob = s.iob, u.fds = s.fds, u.child = s.child
    PROVE  Ready(u, c, b, f) /\ Files(u, 0, 0)
<1>1. /\ \A a : Live(u, a) <=> Live(s, a) \/ a = b
      /\ \A j \in Iobs : Chained(u, j) <=> Chained(s, j)
      /\ \A j \in Iobs : Reached(u, j) => Reached(s, j) \/ j = i
      /\ u.block[b].fcb = f /\ u.fcblk[f] = i
      /\ Table(u)
  BY MadeTable
<1>2. Shape(u)
  BY MadeShape DEF Shape
<1>3. Files(u, 0, 0)
  BY <1>1, FilesKept
<1>4. Files(u, u.fcblk[f], 0)
  <2>1. OnChain(u, u.fcblk[f])
    BY <1>3, ChannelsAssumption DEF Files, OnChain
  <2> QED BY <1>3, <2>1 DEF Files
<1> QED BY <1>1, <1>2, <1>3, <1>4 DEF Ready, Makes

\* With a new ioblk, which may be open, it finds all but that one in order.
LEMMA ReadyNew ==
    ASSUME NEW s, Shape(s), Table(s), Files(s, 0, 0), NEW c, NEW b, NEW f, NEW i \in Iobs, NEW q,
           Makes(s, c, b, f, i), ~Reached(s, i),
           q.t.inp \in BOOLEAN, q.t.oup \in BOOLEAN, q.t.opn \in BOOLEAN, q.t.fdn \in 0..2,
           NEW u, Made(s, u, c, b, f, i),
           DOMAIN u = Fields, u.iob = [s.iob EXCEPT ![i] = NewIob(q)], u.fds = s.fds, u.child = s.child
    PROVE  Ready(u, c, b, f)
<1>1. /\ \A a : Live(u, a) <=> Live(s, a) \/ a = b
      /\ \A j \in Iobs : Chained(u, j) <=> Chained(s, j)
      /\ \A j \in Iobs : Reached(u, j) => Reached(s, j) \/ j = i
      /\ u.block[b].fcb = f /\ u.fcblk[f] = i
      /\ Table(u)
  BY MadeTable
<1>2. PICK n : n = NewIob(q)
  OBVIOUS
<1>3. /\ IobType(n) /\ ~n.pip /\ n.pid = 0 /\ ~n.ded /\ ~n.dirty
      /\ n.opn => n.sys /\ n.fd \in 0..2
  BY <1>2 DEF NewIob, NoIob, IobType, IobFields
<1>4. Shape(u)
  <2>1. DOMAIN u.iob = Iobs /\ \A j \in Iobs : IobType(u.iob[j])
    BY <1>2, <1>3 DEF Shape
  <2>2. /\ u.chan \in [Chans -> Blocks \cup {0}]
        /\ u.block \in [Blocks -> [fcb : Fcbs \cup {0}, iochn : SUBSET Vars]]
        /\ u.assoc \in [Vars -> [Dirs -> Blocks \cup {0, Std}]]
        /\ u.fcblk \in [Fcbs -> Iobs \cup {0}]
        /\ u.r_fcb \in Seq(Fcbs)
    BY MadeShape
  <2> QED BY <2>1, <2>2 DEF Shape
<1>5. Files(u, i, 0)
  BY <1>1, <1>2, <1>3, FilesNew
<1> QED BY <1>1, <1>4, <1>5 DEF Ready, Makes

Prepared(s, c, b, f, q) == Ready(s, c, b, f) /\ q.ill \in BOOLEAN /\ (q.ill => Files(s, 0, 0))

\* From there CompleteSound goes on.
LEMMA PreparedSound ==
    ASSUME NEW s, NEW v \in Vars, NEW c \in Chans, NEW dir \in Dirs, NEW b, NEW f, NEW q,
           Prepared(s, c, b, f, q), NEW release, NEW res \in Complete(s, v, c, dir, b, f, q, release)
    PROVE  Sound(res)
BY CompleteSound DEF Prepared, Ready

\* The new fcblk f leads to the ioblk i of the old one, or to a new ioblk.
LEMMA PreparedOld ==
    ASSUME NEW s, Shape(s), Table(s), Files(s, 0, 0), NEW c, NEW b, NEW f, NEW i \in Iobs,
           Makes(s, c, b, f, i), Reached(s, i),
           NEW t, Made(s, t, c, b, f, 0),
           DOMAIN t = Fields, t.iob = s.iob, t.fds = s.fds, t.child = s.child,
           NEW q, q.ill \in BOOLEAN
    PROVE  Prepared(Leading(t, f, i), c, b, f, q)
<1>1. PICK u : u = Leading(t, f, i)
  OBVIOUS
<1>2. /\ Made(s, u, c, b, f, i)
      /\ DOMAIN u = Fields /\ u.iob = s.iob /\ u.fds = s.fds /\ u.child = s.child
  BY <1>1, LeadingIs
<1>3. Ready(u, c, b, f) /\ Files(u, 0, 0)
  BY <1>2, ReadyOld
<1> QED BY <1>1, <1>3 DEF Prepared

\* The new fcblk f leads to a new ioblk i, which option F may have opened.
LEMMA PreparedNew ==
    ASSUME NEW s, Shape(s), Table(s), Files(s, 0, 0), NEW c, NEW b, NEW f, NEW i \in Iobs,
           Makes(s, c, b, f, i), ~Reached(s, i),
           NEW t, Made(s, t, c, b, f, 0),
           DOMAIN t = Fields, t.iob = s.iob, t.fds = s.fds, t.child = s.child,
           NEW q, q.ill \in BOOLEAN, ~q.ill,
           q.t.inp \in BOOLEAN, q.t.oup \in BOOLEAN, q.t.opn \in BOOLEAN, q.t.fdn \in 0..2
    PROVE  Prepared(LeadingNew(t, f, i, NewIob(q)), c, b, f, q)
<1>1. PICK n, u : n = NewIob(q) /\ u = LeadingNew(t, f, i, n)
  OBVIOUS
<1>2. /\ Made(s, u, c, b, f, i)
      /\ DOMAIN u = Fields /\ u.iob = [s.iob EXCEPT ![i] = n] /\ u.fds = s.fds /\ u.child = s.child
  BY <1>1, LeadingNewIs
<1>3. Ready(u, c, b, f)
  BY <1>1, <1>2, ReadyNew
<1> QED BY <1>1, <1>3 DEF Prepared

\* INPUT and OUTPUT leave the storage sound, whichever way they end.
LEMMA ioputSound ==
    ASSUME Suitable, NEW s, Shape(s), Table(s), Files(s, 0, 0), Room(s),
           NEW v \in Vars, NEW dir \in Dirs, NEW c \in Chans, NEW arg, IsArgument(arg), StartedWith(arg),
           NEW res \in ioput(s, v, dir, c, arg)
    PROVE  Sound(res)
<1> DEFINE b == s.chan[c]
           fcb == IF b = 0 THEN 0 ELSE s.block[b].fcb
           q == zysfc(s, c, dir, fcb, arg)
           nb == IF b = 0 THEN Min(Blocks \ LiveBlocks(s)) ELSE b
           f == Min(Fcbs \ LiveFcbs(s))
           i == Min(Iobs \ LiveIobs(s))
           t == Begun(s, c, nb, f)
           KeptF == Complete(t, v, c, dir, nb, f, q, FALSE) \cup
                       IF q.ill THEN {} ELSE Complete(Leading(t, f, s.fcblk[fcb]), v, c, dir, nb, f, q, FALSE)
           NewF == IF q.ill THEN Complete(t, v, c, dir, nb, f, q, b = 0)
                   ELSE Complete(LeadingNew(t, f, i, NewIob(q)), v, c, dir, nb, f, q, b = 0)
<1>1. /\ b = s.chan[c] /\ fcb = (IF b = 0 THEN 0 ELSE s.block[b].fcb)
      /\ q = zysfc(s, c, dir, fcb, arg)
      /\ nb = (IF b = 0 THEN Min(Blocks \ LiveBlocks(s)) ELSE b)
      /\ f = Min(Fcbs \ LiveFcbs(s)) /\ i = Min(Iobs \ LiveIobs(s))
      /\ t = Begun(s, c, nb, f)
  OBVIOUS
<1>2. /\ q.kind \in {"exit", "all", "fcb", "none"} /\ q.ill \in BOOLEAN
      /\ q.kind \in {"fcb", "none"} => fcb # 0
      /\ q.t.inp \in BOOLEAN /\ q.t.oup \in BOOLEAN /\ q.t.opn \in BOOLEAN /\ q.t.fdn \in 0..2
  BY <1>1, zysfcIs
<1>3. res \in IF fcb # 0 /\ s.fcblk[fcb] = 0 THEN {[w |-> s, reply |-> "crash"]}
              ELSE CASE q.kind = "exit" -> {[w |-> s, reply |-> "error"]}
                     [] q.kind = "none" -> Complete(s, v, c, dir, b, fcb, q, TRUE)
                     [] q.kind = "fcb" -> KeptF
                     [] q.kind = "all" -> NewF
  BY Zenon DEF ioput, Begun, Leading, LeadingNew
<1>4. q.kind = "fcb" => fcb # 0
  BY DEF zysfc
<1>5. \/ res = [w |-> s, reply |-> "crash"]
      \/ res = [w |-> s, reply |-> "error"]
      \/ q.kind = "none" /\ res \in Complete(s, v, c, dir, b, fcb, q, TRUE)
      \/ q.kind = "fcb" /\ s.fcblk[fcb] # 0 /\ res \in KeptF
      \/ q.kind = "all" /\ res \in NewF
  <2> HIDE DEF b, fcb, q, nb, f, i, t, KeptF, NewF
  <2>1. CASE fcb # 0 /\ s.fcblk[fcb] = 0
    BY <1>3, <2>1
  <2>2. CASE ~(fcb # 0 /\ s.fcblk[fcb] = 0)
    <3>1. PICK X : X = CASE q.kind = "exit" -> {[w |-> s, reply |-> "error"]}
                     [] q.kind = "none" -> Complete(s, v, c, dir, b, fcb, q, TRUE)
                     [] q.kind = "fcb" -> KeptF
                     [] q.kind = "all" -> NewF
      OBVIOUS
    <3>2. res \in X
      BY <1>3, <2>2, <3>1, Zenon
    <3>3. CASE q.kind = "exit"
      BY <3>1, <3>2, <3>3
    <3>4. CASE q.kind = "none"
      BY <3>1, <3>2, <3>4
    <3>5. CASE q.kind = "fcb"
      BY <1>4, <2>2, <3>1, <3>2, <3>5
    <3>6. CASE q.kind = "all"
      BY <3>1, <3>2, <3>6
    <3> QED BY <1>2, <3>3, <3>4, <3>5, <3>6
  <2> QED BY <2>1, <2>2
<1>6. res \in KeptF =>
        \/ res \in Complete(t, v, c, dir, nb, f, q, FALSE)
        \/ ~q.ill /\ res \in Complete(Leading(t, f, s.fcblk[fcb]), v, c, dir, nb, f, q, FALSE)
  <2> HIDE DEF b, fcb, q, nb, f, i, t
  <2> QED OBVIOUS
<1>7. res \in NewF =>
        \/ res \in Complete(t, v, c, dir, nb, f, q, b = 0)
        \/ ~q.ill /\ res \in Complete(LeadingNew(t, f, i, NewIob(q)), v, c, dir, nb, f, q, b = 0)
  <2> HIDE DEF b, fcb, q, nb, f, i, t
  <2> QED OBVIOUS
<1> HIDE DEF b, fcb, q, nb, f, i, t
<1>8. nb \in Blocks /\ (nb = s.chan[c] \/ (s.chan[c] = 0 /\ nb \notin LiveBlocks(s)))
  <2>1. CASE b = 0
    <3>1. Blocks \ LiveBlocks(s) \subseteq Nat /\ Blocks \ LiveBlocks(s) # {}
      BY ChannelsAssumption DEF Room
    <3>2. Min(Blocks \ LiveBlocks(s)) \in Blocks \ LiveBlocks(s)
      BY <3>1, LeastIn
    <3> QED BY <1>1, <2>1, <3>2
  <2>2. CASE b # 0
    BY <1>1, <2>2 DEF Shape
  <2> QED BY <2>1, <2>2
<1>9. f \in Fcbs /\ f \notin LiveFcbs(s)
  <2>1. Fcbs \ LiveFcbs(s) \subseteq Nat /\ Fcbs \ LiveFcbs(s) # {}
    BY ChannelsAssumption DEF Room
  <2>2. Min(Fcbs \ LiveFcbs(s)) \in Fcbs \ LiveFcbs(s)
    BY <2>1, LeastIn
  <2> QED BY <1>1, <2>2
<1>10. i \in Iobs /\ ~Reached(s, i)
  <2>1. Iobs \ LiveIobs(s) \subseteq Nat /\ Iobs \ LiveIobs(s) # {}
    BY ChannelsAssumption DEF Room
  <2>2. Min(Iobs \ LiveIobs(s)) \in Iobs \ LiveIobs(s)
    BY <2>1, LeastIn
  <2>3. i \in Iobs /\ i \notin LiveIobs(s)
    BY <1>1, <2>2
  <2> QED BY <2>3, LiveIobsAre DEF Table
<1>11. 0 \notin Iobs
  BY ChannelsAssumption
<1>12. /\ Made(s, t, c, nb, f, 0)
       /\ DOMAIN t = Fields /\ t.iob = s.iob /\ t.fds = s.fds /\ t.child = s.child
  BY <1>1, <1>8, <1>9, BegunIs
<1>13. Makes(s, c, nb, f, 0)
  BY <1>8, <1>9, <1>11 DEF Makes
<1>14. Ready(t, c, nb, f) /\ Files(t, 0, 0)
  BY <1>11, <1>12, <1>13, ReadyOld
<1>15. \/ res = [w |-> s, reply |-> "crash"]
       \/ res = [w |-> s, reply |-> "error"]
       \/ q.kind = "none" /\ res \in Complete(s, v, c, dir, b, fcb, q, TRUE)
       \/ q.kind = "fcb" /\ res \in Complete(t, v, c, dir, nb, f, q, FALSE)
       \/ /\ q.kind = "fcb" /\ ~q.ill /\ s.fcblk[fcb] # 0
          /\ res \in Complete(Leading(t, f, s.fcblk[fcb]), v, c, dir, nb, f, q, FALSE)
       \/ res \in Complete(t, v, c, dir, nb, f, q, b = 0)
       \/ ~q.ill /\ res \in Complete(LeadingNew(t, f, i, NewIob(q)), v, c, dir, nb, f, q, b = 0)
  <2> HIDE DEF KeptF, NewF
  <2> QED BY <1>5, <1>6, <1>7, Zenon
<1>16. CASE res = [w |-> s, reply |-> "crash"]
  BY <1>16 DEF Sound
<1>17. CASE res = [w |-> s, reply |-> "error"]
  BY <1>17 DEF Sound
<1>18. fcb # 0 => b \in Blocks /\ Live(s, b) /\ fcb = s.block[b].fcb /\ fcb \in Fcbs
  BY <1>1 DEF Shape, Live
<1>19. CASE q.kind = "none" /\ res \in Complete(s, v, c, dir, b, fcb, q, TRUE)
  <2>1. Files(s, s.fcblk[fcb], 0)
    BY <1>11 DEF Files, OnChain
  <2>2. Prepared(s, c, b, fcb, q)
    BY <1>2, <1>18, <1>19, <2>1 DEF Prepared, Ready
  <2> QED BY <1>19, <2>2, PreparedSound
<1>20. CASE res \in Complete(t, v, c, dir, nb, f, q, FALSE) \/ res \in Complete(t, v, c, dir, nb, f, q, b = 0)
  <2>1. Prepared(t, c, nb, f, q)
    BY <1>2, <1>14 DEF Prepared
  <2> QED BY <1>20, <2>1, PreparedSound
<1>21. CASE /\ q.kind = "fcb" /\ ~q.ill /\ s.fcblk[fcb] # 0
            /\ res \in Complete(Leading(t, f, s.fcblk[fcb]), v, c, dir, nb, f, q, FALSE)
  <2>1. PICK x : x = s.fcblk[fcb]
    OBVIOUS
  <2>2. x \in Iobs /\ Reached(s, x) /\ nb = s.chan[c] /\ x = s.fcblk[s.block[nb].fcb]
    BY <1>1, <1>2, <1>18, <1>21, <2>1 DEF Shape, Reached
  <2>3. Makes(s, c, nb, f, x)
    BY <1>8, <1>9, <2>2 DEF Makes
  <2>4. Prepared(Leading(t, f, x), c, nb, f, q)
    <3>1. x \in Iobs /\ Reached(s, x) /\ q.ill \in BOOLEAN
      BY <1>2, <2>2
    <3> QED BY <1>12, <2>3, <3>1, PreparedOld
  <2>5. res \in Complete(Leading(t, f, x), v, c, dir, nb, f, q, FALSE)
    BY <1>21, <2>1
  <2> QED BY <2>4, <2>5, PreparedSound
<1>22. CASE /\ ~q.ill
            /\ res \in Complete(LeadingNew(t, f, i, NewIob(q)), v, c, dir, nb, f, q, b = 0)
  <2>1. Makes(s, c, nb, f, i)
    BY <1>8, <1>9, <1>10 DEF Makes
  <2>2. Prepared(LeadingNew(t, f, i, NewIob(q)), c, nb, f, q)
    BY <1>2, <1>10, <1>12, <1>22, <2>1, PreparedNew
  <2> QED BY <1>22, <2>2, PreparedSound
<1> QED BY <1>15, <1>16, <1>17, <1>19, <1>20, <1>21, <1>22
------------------------------------------------------------------------------
(* The actions of an idle program. *)
LEMMA IdleSound ==
    ASSUME Inv, op.at = "idle"
    PROVE  Shape(w) /\ Table(w) /\ Files(w, 0, 0)
BY DEF Inv, AwaitedNow, Ends

\* The invariant holds when a call leaves files in order.
LEMMA SoundAnswer ==
    ASSUME NEW s, Shape(s), Table(s), Files(s, 0, 0), NEW how \in {"ok", "error", "fail"}, Answer(s, how)
    PROVE  Inv'
<1>1. 0 \notin Iobs
  BY ChannelsAssumption
<1> QED BY <1>1, AnswerInv

\* INPUT and OUTPUT keep the invariant.
LEMMA AssociateInv ==
    ASSUME Suitable, Inv, NEW call \in Calls, Associate(call[1], call[2], call[3], call[4])
    PROVE  Inv'
<1>1. PICK v, dir, c, arg : v = call[1] /\ dir = call[2] /\ c = call[3] /\ arg = call[4]
  OBVIOUS
<1>2. /\ v \in Vars /\ dir \in Dirs /\ c \in Chans
      /\ IsArgument(arg) /\ StartedWith(arg)
  BY <1>1, ChannelsAssumption DEF Suitable
<1>3. op.at = "idle" /\ Room(w)
  BY DEF Associate
<1>4. PICK r \in ioput(w, v, dir, c, arg) : Answer(r.w, r.reply)
  BY <1>1 DEF Associate
<1>5. Sound(r)
  BY <1>2, <1>3, <1>4, IdleSound, ioputSound
<1>6. CASE r.reply = "crash"
  BY <1>4, <1>6, EndInv
<1>7. CASE r.reply # "crash"
  BY <1>4, <1>5, <1>7, SoundAnswer DEF Sound
<1> QED BY <1>6, <1>7

\* Storage with fewer associations.
LEMMA FewerLive ==
    ASSUME NEW s, Shape(s), Table(s), NEW t, t.fcblk = s.fcblk,
           \A a \in Blocks : t.block[a].fcb = s.block[a].fcb,
           \A a : Live(t, a) => Live(s, a)
    PROVE  Filled(t) /\ Apart(t)
BY DEF Table, Filled, Apart, Live

\* INPUT(.V) and OUTPUT(.V) keep it: fewer blocks are in use.
LEMMA AssociateStdInv ==
    ASSUME Inv, NEW v \in Vars, NEW dir \in Dirs, AssociateStd(v, dir)
    PROVE  Inv'
<1>1. op.at = "idle" /\ Shape(w) /\ Table(w) /\ Files(w, 0, 0)
  BY IdleSound DEF AssociateStd
<1>2. PICK t : t = [w EXCEPT !.assoc[v][dir] = Std] /\ Answer(t, "ok")
  BY DEF AssociateStd
<1>3. /\ DOMAIN t = Fields /\ t.assoc = [w.assoc EXCEPT ![v][dir] = Std]
      /\ t.chan = w.chan /\ t.block = w.block /\ t.fcblk = w.fcblk /\ t.iob = w.iob
      /\ t.r_fcb = w.r_fcb /\ t.fds = w.fds /\ t.child = w.child
  BY <1>1, <1>2 DEF Shape, Fields
<1>4. /\ t.assoc \in [Vars -> [Dirs -> Blocks \cup {0, Std}]]
      /\ \A u \in Vars, d \in Dirs : t.assoc[u][d] = w.assoc[u][d] \/ t.assoc[u][d] = Std
  BY <1>1, <1>3 DEF Shape
<1>5. Shape(t)
  BY <1>1, <1>3, <1>4 DEF Shape
<1>6. \A a : Live(t, a) => Live(w, a)
  <2>1. Std \notin Blocks
    BY ChannelsAssumption DEF Std
  <2> QED BY <1>3, <1>4, <2>1 DEF Live
<1>7. Table(t)
  <2>1. Filled(t) /\ Apart(t)
    BY <1>1, <1>3, <1>6, FewerLive
  <2>2. Attached(t)
    BY <1>1, <1>3, <1>4 DEF Table, Attached, Std
  <2> QED BY <2>1, <2>2 DEF Table
<1>8. Files(t, 0, 0)
  <2>1. \A i \in Iobs : (Chained(w, i) => Chained(t, i)) /\ (Reached(t, i) => Reached(w, i))
    BY <1>3, <1>6 DEF Chained, Reached
  <2> QED BY <1>1, <1>3, <2>1, FilesKept
<1> QED BY <1>2, <1>5, <1>7, <1>8, SoundAnswer

\* The buffer of an ioblk that is open is written to, or written out.
LEMMA DirtySound ==
    ASSUME NEW s, Shape(s), Table(s), Files(s, 0, 0), NEW i \in Iobs, s.iob[i].opn,
           NEW x \in BOOLEAN, NEW t, t = [s EXCEPT !.iob[i].dirty = x]
    PROVE  /\ Shape(t) /\ Table(t) /\ Files(t, 0, 0) /\ SameTable(s, t)
           /\ t.iob[i].fd = s.iob[i].fd
           /\ \A j \in Iobs : j # i => t.iob[j] = s.iob[j]
<1>1. PICK n : n = [s.iob[i] EXCEPT !.dirty = x]
  OBVIOUS
<1>2. /\ IobType(n) /\ n.opn /\ n.sys = s.iob[i].sys /\ n.fd = s.iob[i].fd /\ n.pip = s.iob[i].pip
      /\ n.pid = s.iob[i].pid /\ n.ded = s.iob[i].ded /\ n.file = s.iob[i].file /\ n.dirty = x
  BY <1>1 DEF Shape, IobType, IobFields
<1>3. SameTable(s, t) /\ t.iob = [s.iob EXCEPT ![i] = n] /\ t.fds = s.fds /\ t.child = s.child
  BY <1>1 DEF SameTable, Shape, Fields
<1>4. t.iob[i] = n /\ \A j \in Iobs : j # i => t.iob[j] = s.iob[j]
  BY <1>3 DEF Shape
<1>5. Shape(t)
  <2>1. DOMAIN t.iob = Iobs /\ \A j \in Iobs : IobType(t.iob[j])
    BY <1>2, <1>3, <1>4 DEF Shape
  <2> QED BY <1>3, <2>1 DEF Shape, SameTable
<1>6. /\ \A j : Chained(t, j) <=> Chained(s, j)
      /\ \A j : Reached(t, j) <=> Reached(s, j)
      /\ Table(t)
  BY <1>3, SameReach
<1>7. OnChain(t, 0)
  BY <1>2, <1>4, <1>6 DEF Files, OnChain
<1>8. AllSane(t, 0)
  <2> SUFFICES ASSUME NEW j \in Iobs, Reached(s, j) PROVE Sane(t, j, 0)
    BY <1>6 DEF AllSane
  <2>1. Sane(s, j, 0)
    BY DEF Files, AllSane
  <2>2. CASE j = i
    BY <1>2, <1>3, <1>4, <2>1, <2>2 DEF Sane, Opened, Shut
  <2>3. CASE j # i
    BY <1>3, <1>4, <2>1, <2>3 DEF Sane, Opened, Shut
  <2> QED BY <2>2, <2>3
<1>9. \A j \in Iobs : t.iob[j].opn = s.iob[j].opn /\ t.iob[j].fd = s.iob[j].fd /\ t.iob[j].pid = s.iob[j].pid
  BY <1>2, <1>4
<1>10. Owned(t) /\ OwnPid(t)
  BY <1>3, <1>6, <1>9 DEF Files, Owned, OwnPid
<1> QED BY <1>2, <1>3, <1>4, <1>5, <1>6, <1>7, <1>8, <1>10 DEF Files


\* A write keeps it: only an ioblk that is open gets output.
LEMMA oswriteInv ==
    ASSUME Inv, op.at = "idle", NEW i \in Iobs \cup {0}, oswrite(i)
    PROVE  Inv'
<1>1. Shape(w) /\ Table(w) /\ Files(w, 0, 0)
  BY IdleSound
<1>2. CASE i = 0
  <2>1. Answer(w, "crash")
    BY <1>2 DEF oswrite
  <2> QED BY <2>1, EndInv
<1>3. CASE i # 0 /\ ~w.iob[i].opn
  <2>1. Answer(w, "error")
    BY <1>3 DEF oswrite
  <2> QED BY <1>1, <2>1, SoundAnswer
<1>4. CASE i # 0 /\ w.iob[i].opn /\ w.iob[i].wrc
  <2>1. \E how \in {"error", "killed", "ok"} : Answer(w, how)
    BY <1>4 DEF oswrite
  <2> QED BY <1>1, <2>1, SoundAnswer, EndInv
<1>5. CASE i # 0 /\ w.iob[i].opn /\ ~w.iob[i].wrc
  <2>1. PICK x, t : x = w.iob[i].oup /\ t = [w EXCEPT !.iob[i].dirty = x]
    OBVIOUS
  <2>2. Answer(t, "ok")
    BY <1>5, <2>1 DEF oswrite
  <2>3. Shape(t) /\ Table(t) /\ Files(t, 0, 0)
    <3>1. x \in BOOLEAN /\ i \in Iobs
      BY <1>1, <1>5, <2>1 DEF Shape, IobType
    <3> QED BY <1>1, <1>5, <2>1, <3>1, DirtySound
  <2> QED BY <2>2, <2>3, SoundAnswer
<1> QED BY <1>2, <1>3, <1>4, <1>5

\* An assignment to an associated variable keeps it.
LEMMA WriteInv ==
    ASSUME Inv, NEW v \in Vars, Write(v)
    PROVE  Inv'
<1>1. op.at = "idle" /\ Through(v, "out") > 0 /\ Shape(w) /\ Table(w)
  BY IdleSound DEF Write
<1>2. PICK b : b = Through(v, "out") /\ oswrite(IobOf(b))
  BY DEF Write
<1>3. b \in Blocks /\ Live(w, b)
  BY <1>1, <1>2 DEF Through, Shape, Dirs, Std, Live
<1>4. IobOf(b) \in Iobs \cup {0}
  BY <1>1, <1>3 DEF IobOf, Shape, Table, Filled
<1> QED BY <1>1, <1>2, <1>4, oswriteInv

\* EJECT keeps it.
LEMMA EjectInv ==
    ASSUME Inv, NEW c \in Chans, Eject(c)
    PROVE  Inv'
<1>1. op.at = "idle" /\ Shape(w) /\ Table(w) /\ Files(w, 0, 0)
  BY IdleSound DEF Eject
<1>2. CASE w.chan[c] = 0
  BY <1>1, <1>2, SoundAnswer DEF Eject
<1>3. CASE w.chan[c] # 0
  <2>1. PICK b : b = w.chan[c] /\ oswrite(IobOf(b))
    BY <1>3 DEF Eject
  <2>2. b \in Blocks /\ Live(w, b)
    BY <1>1, <1>3, <2>1 DEF Shape, Live
  <2>3. IobOf(b) \in Iobs \cup {0}
    BY <1>1, <2>2 DEF IobOf, Shape, Table, Filled
  <2> QED BY <1>1, <2>1, <2>3, oswriteInv
<1> QED BY <1>2, <1>3

\* So does the value of an associated variable.
LEMMA ReadInv ==
    ASSUME Inv, NEW v \in Vars, Read(v)
    PROVE  Inv'
<1>1. op.at = "idle" /\ Shape(w) /\ Table(w) /\ Files(w, 0, 0)
  BY IdleSound DEF Read
<1>2. \E how \in {"crash", "error", "ok"} : Answer(w, how)
  BY DEF Read
<1> QED BY <1>1, <1>2, SoundAnswer, EndInv

\* Variables are detached.
LEMMA dtachIs ==
    ASSUME NEW s, Shape(s), Attached(s), NEW vs, NEW t, t = dtach(s, vs)
    PROVE  /\ Shape(t) /\ Attached(t)
           /\ t.chan = s.chan /\ t.fcblk = s.fcblk /\ t.r_fcb = s.r_fcb
           /\ t.iob = s.iob /\ t.fds = s.fds /\ t.child = s.child
           /\ \A v \in Vars, d \in Dirs : t.assoc[v][d] = IF v \in vs THEN 0 ELSE s.assoc[v][d]
           /\ \A a \in Blocks : t.block[a].fcb = s.block[a].fcb
<1>1. /\ DOMAIN t = Fields /\ t.chan = s.chan /\ t.fcblk = s.fcblk /\ t.r_fcb = s.r_fcb
      /\ t.iob = s.iob /\ t.fds = s.fds /\ t.child = s.child
      /\ t.assoc = [v \in Vars |-> IF v \in vs THEN [d \in Dirs |-> 0] ELSE s.assoc[v]]
      /\ t.block = [a \in Blocks |-> [s.block[a] EXCEPT !.iochn = s.block[a].iochn \ {v \in vs : a \in Range(s.assoc[v])}]]
  BY DEF dtach, Shape, Fields
<1>2. /\ s.block \in [Blocks -> [fcb : Fcbs \cup {0}, iochn : SUBSET Vars]]
      /\ s.assoc \in [Vars -> [Dirs -> Blocks \cup {0, Std}]]
  BY DEF Shape
<1>3. \A v \in Vars, d \in Dirs : t.assoc[v][d] = IF v \in vs THEN 0 ELSE s.assoc[v][d]
  BY <1>1
<1>4. t.assoc \in [Vars -> [Dirs -> Blocks \cup {0, Std}]]
  BY <1>1, <1>2
<1>5. \A a \in Blocks : /\ t.block[a].fcb = s.block[a].fcb
                        /\ t.block[a] \in [fcb : Fcbs \cup {0}, iochn : SUBSET Vars]
                        /\ \A v : v \in s.block[a].iochn /\ v \notin vs => v \in t.block[a].iochn
  BY <1>1, <1>2
<1>6. t.block \in [Blocks -> [fcb : Fcbs \cup {0}, iochn : SUBSET Vars]]
  BY <1>1, <1>5
<1>7. Shape(t)
  BY <1>1, <1>4, <1>6 DEF Shape
<1>8. Attached(t)
  <2> SUFFICES ASSUME NEW v \in Vars, NEW d \in Dirs, t.assoc[v][d] > 0
               PROVE  v \in t.block[t.assoc[v][d]].iochn
    BY DEF Attached
  <2>1. v \notin vs /\ t.assoc[v][d] = s.assoc[v][d]
    BY <1>3
  <2>2. s.assoc[v][d] \in Blocks
    BY <1>2, <2>1 DEF Std
  <2>3. v \in s.block[s.assoc[v][d]].iochn
    BY <2>1 DEF Attached
  <2> QED BY <1>5, <2>1, <2>2, <2>3
<1> QED BY <1>1, <1>3, <1>5, <1>7, <1>8

\* DETACH keeps it.
LEMMA DetachInv ==
    ASSUME Inv, NEW v \in Vars, Detach(v)
    PROVE  Inv'
<1>1. op.at = "idle" /\ Shape(w) /\ Table(w) /\ Files(w, 0, 0)
  BY IdleSound DEF Detach
<1>2. PICK t : t = dtach(w, {v}) /\ Answer(t, "ok")
  BY DEF Detach
<1>3. /\ Shape(t) /\ Attached(t)
      /\ t.chan = w.chan /\ t.fcblk = w.fcblk /\ t.r_fcb = w.r_fcb
      /\ t.iob = w.iob /\ t.fds = w.fds /\ t.child = w.child
      /\ \A u \in Vars, d \in Dirs : t.assoc[u][d] = IF u \in {v} THEN 0 ELSE w.assoc[u][d]
      /\ \A a \in Blocks : t.block[a].fcb = w.block[a].fcb
  BY <1>1, <1>2, dtachIs DEF Table
<1>4. \A a : Live(t, a) => Live(w, a)
  <2>1. 0 \notin Blocks
    BY ChannelsAssumption
  <2> QED BY <1>3, <2>1 DEF Live
<1>5. Table(t)
  BY <1>1, <1>3, <1>4, FewerLive DEF Table
<1>6. Files(t, 0, 0)
  <2>1. \A i \in Iobs : (Chained(w, i) => Chained(t, i)) /\ (Reached(t, i) => Reached(w, i))
    BY <1>3, <1>4 DEF Chained, Reached
  <2> QED BY <1>1, <1>3, <2>1, FilesKept
<1> QED BY <1>2, <1>3, <1>5, <1>6, SoundAnswer
------------------------------------------------------------------------------
(* Closing. *)

\* The descriptor of ioblk i is closed, and process p, if it is to be waited for,
\* may be told to quit.
Shuts(s, t, i, p) ==
    LET b == s.iob[i] IN
      /\ SameTable(s, t) /\ b.opn /\ b.fd \in Fds
      /\ t.iob = [s.iob EXCEPT ![i] = [b EXCEPT !.opn = FALSE, !.dirty = FALSE, !.ded = FALSE, !.fd = 0]]
      /\ t.fds = [s.fds EXCEPT ![b.fd] = Closed]
      /\ p = IF b.pip /\ ~b.ded THEN b.pid ELSE 0
      /\ \/ t.child = s.child
         \/ p # 0 /\ t.child = [s.child EXCEPT ![p].state = "killed"]

\* An ioblk that is closed has its type.
LEMMA ShutsShape ==
    ASSUME NEW s, Shape(s), NEW i \in Iobs, NEW t, NEW p, Shuts(s, t, i, p)
    PROVE  Shape(t) /\ p \in Pids \cup {0}
<1>1. PICK n : n = [s.iob[i] EXCEPT !.opn = FALSE, !.dirty = FALSE, !.ded = FALSE, !.fd = 0]
  OBVIOUS
<1>2. IobType(n) /\ IobType(s.iob[i])
  BY <1>1 DEF Shape, IobType, IobFields
<1>3. DOMAIN t.iob = Iobs /\ \A j \in Iobs : IobType(t.iob[j])
  BY <1>1, <1>2 DEF Shape, Shuts
<1>4. t.fds \in [Fds -> Pids \cup {0, Closed}]
  BY DEF Shape, Shuts
<1>5. p \in Pids \cup {0}
  BY <1>2 DEF Shuts, IobType
<1>6. /\ DOMAIN t.child = Pids
      /\ \A q \in Pids : /\ DOMAIN t.child[q] = {"state", "reads", "holds"}
                         /\ t.child[q].state \in ChildStates
  <2>1. CASE t.child = s.child
    BY <2>1 DEF Shape
  <2>2. CASE p # 0 /\ t.child = [s.child EXCEPT ![p].state = "killed"]
    BY <1>5, <2>2 DEF Shape, ChildStates
  <2> QED BY <2>1, <2>2 DEF Shuts
<1> QED BY <1>3, <1>4, <1>5, <1>6 DEF Shape, Shuts, SameTable

\* Closing an ioblk keeps the files, but for the process p that is now waited for.
LEMMA ShutsFiles ==
    ASSUME NEW s, Shape(s), Files(s, 0, 0), NEW i \in Iobs, NEW t, NEW p, Shuts(s, t, i, p)
    PROVE  /\ Files(t, 0, p)
           /\ ~t.iob[i].opn /\ \A j \in Iobs : t.iob[j].dirty => s.iob[j].dirty /\ j # i
<1>1. PICK b, n : /\ b = s.iob[i]
                  /\ n = [b EXCEPT !.opn = FALSE, !.dirty = FALSE, !.ded = FALSE, !.fd = 0]
  OBVIOUS
<1>2. /\ IobType(b) /\ b.opn /\ b.fd \in Fds
      /\ ~n.opn /\ ~n.dirty /\ ~n.ded /\ n.pid = b.pid /\ n.pip = b.pip /\ n.file = b.file
  BY <1>1 DEF Shape, Shuts, IobType, IobFields
<1>3. t.iob[i] = n /\ \A j \in Iobs : j # i => t.iob[j] = s.iob[j]
  BY <1>1 DEF Shuts, Shape
<1>4. /\ \A j : Chained(t, j) <=> Chained(s, j)
      /\ \A j : Reached(t, j) <=> Reached(s, j)
  BY SameReach DEF Shuts
<1>5. i # 0 /\ Chained(s, i) /\ Reached(s, i) /\ Sane(s, i, 0)
  BY <1>1, <1>2, ChannelsAssumption DEF Files, OnChain, AllSane, Reached
<1>6. /\ t.fds[b.fd] = Closed /\ \A d \in Fds : d # b.fd => t.fds[d] = s.fds[d]
      /\ p = IF b.pip /\ ~b.ded THEN b.pid ELSE 0
  BY <1>1, <1>2 DEF Shuts, Shape
<1>7. \A q \in Pids : q # p => t.child[q] = s.child[q]
  BY DEF Shuts, Shape
<1>8. OnChain(t, 0)
  BY <1>2, <1>3, <1>4 DEF Files, OnChain
<1>9. ASSUME NEW j \in Iobs, Reached(s, j) PROVE Sane(t, j, p)
  <2>1. Sane(s, j, 0) /\ IobType(s.iob[j])
    BY <1>9 DEF Files, AllSane, Shape
  <2>2. CASE j = i
    <3>1. b.pid # 0 /\ b.pid # p => b.pid \in Pids /\ s.child[b.pid].state = "reaped"
      BY <1>1, <1>2, <1>5, <1>6 DEF Sane, Opened, IobType
    <3>2. Shut(t, i, p)
      BY <1>2, <1>3, <1>7, <3>1 DEF Shut
    <3>3. Opened(t, i, p)
      BY <1>2, <1>3 DEF Opened
    <3> QED BY <1>1, <1>2, <1>3, <1>5, <2>2, <3>2, <3>3 DEF Sane
  <2>3. CASE j # i
    <3>1. t.iob[j] = s.iob[j]
      BY <1>3, <2>3
    <3>2. s.iob[j].pid # 0 => s.iob[j].pid \in Pids /\ s.iob[j].pid # b.pid
      BY <1>1, <1>5, <1>9, <2>1, <2>3 DEF Files, OwnPid, IobType
    <3>3. s.iob[j].pid # 0 => s.iob[j].pid # p /\ t.child[s.iob[j].pid] = s.child[s.iob[j].pid]
      BY <1>6, <1>7, <3>2
    <3>4. s.iob[j].opn /\ s.iob[j].fd \in Fds => s.iob[j].fd # b.fd
      BY <1>1, <1>2, <2>3 DEF Files, Owned
    <3>5. Opened(t, j, p)
      BY <1>6, <2>1, <3>1, <3>3, <3>4 DEF Sane, Opened
    <3>6. Shut(t, j, p)
      BY <2>1, <3>1, <3>3 DEF Sane, Shut
    <3> QED BY <2>1, <3>1, <3>5, <3>6 DEF Sane
  <2> QED BY <2>2, <2>3
<1>10. AllSane(t, p)
  BY <1>4, <1>9 DEF AllSane
<1>11. Owned(t)
  <2>1. ASSUME NEW d \in Fds, t.fds[d] # Closed PROVE \E j \in Iobs : t.iob[j].opn /\ t.iob[j].fd = d
    <3>1. d # b.fd /\ s.fds[d] # Closed
      BY <1>6, <2>1
    <3>2. PICK j \in Iobs : s.iob[j].opn /\ s.iob[j].fd = d
      BY <3>1 DEF Files, Owned
    <3> QED BY <1>1, <1>3, <3>1, <3>2
  <2>2. \A j \in Iobs : t.iob[j].opn => t.iob[j] = s.iob[j]
    BY <1>2, <1>3
  <2> QED BY <2>1, <2>2 DEF Files, Owned
<1>12. OwnPid(t)
  <2>1. \A j \in Iobs : t.iob[j].pid = s.iob[j].pid
    BY <1>1, <1>2, <1>3
  <2> QED BY <1>4, <2>1 DEF Files, OwnPid
<1>13. \A j \in Iobs : t.iob[j].dirty => s.iob[j].dirty /\ j # i
  BY <1>2, <1>3
<1> QED BY <1>2, <1>3, <1>8, <1>10, <1>11, <1>12, <1>13 DEF Files

\* osclose, case by case.
ShutDown(s, i, p) ==
    LET b == s.iob[i]
        shut == [s EXCEPT !.iob[i].opn = FALSE, !.iob[i].dirty = FALSE, !.iob[i].ded = FALSE,
                          !.iob[i].fd = 0, !.fds[b.fd] = Closed]
    IN  IF p # 0 /\ b.inp /\ s.child[p].state = "running"
        THEN [shut EXCEPT !.child[p].state = "killed"] ELSE shut

WrittenOut(s, i) == [s EXCEPT !.iob[i].dirty = FALSE]

\* osclose of an ioblk whose descriptor is not of the shell.
LEMMA ShutDownShuts ==
    ASSUME NEW s, Shape(s), NEW i \in Iobs, s.iob[i].opn, s.iob[i].fd \in Fds, NEW p, p = Awaited(s, i)
    PROVE  Shuts(s, ShutDown(s, i, p), i, p)
<1>1. PICK t, u : /\ u = [s EXCEPT !.iob[i].opn = FALSE, !.iob[i].dirty = FALSE, !.iob[i].ded = FALSE,
                                   !.iob[i].fd = 0, !.fds[s.iob[i].fd] = Closed]
                  /\ t = ShutDown(s, i, p)
  OBVIOUS
<1>2. /\ SameTable(s, u) /\ u.child = s.child
      /\ u.iob = [s.iob EXCEPT ![i] = [s.iob[i] EXCEPT !.opn = FALSE, !.dirty = FALSE, !.ded = FALSE, !.fd = 0]]
      /\ u.fds = [s.fds EXCEPT ![s.iob[i].fd] = Closed]
  BY <1>1 DEF SameTable, Shape, Fields
<1>3. \/ t = u
      \/ p # 0 /\ t = [u EXCEPT !.child[p].state = "killed"]
  BY <1>1 DEF ShutDown
<1>4. p = IF s.iob[i].pip /\ ~s.iob[i].ded THEN s.iob[i].pid ELSE 0
  BY DEF Awaited
<1>5. CASE t = u
  BY <1>1, <1>2, <1>4, <1>5 DEF Shuts
<1>6. CASE p # 0 /\ t = [u EXCEPT !.child[p].state = "killed"]
  <2>1. /\ SameTable(u, t) /\ t.child = [u.child EXCEPT ![p].state = "killed"]
        /\ t.iob = u.iob /\ t.fds = u.fds
    BY <1>2, <1>6 DEF SameTable, Fields
  <2> QED BY <1>1, <1>2, <1>4, <1>6, <2>1 DEF Shuts, SameTable
<1> QED BY <1>3, <1>5, <1>6

\* What osclose leaves behind when it returns.
ClosesOne(s, r, i) ==
    /\ r.killed = FALSE
    /\ Shape(r.w) /\ SameTable(s, r.w) /\ Files(r.w, 0, r.pid)
    /\ r.w.iob[i].opn => r.w.iob[i].fd \notin Fds
    /\ \A j \in Iobs : r.w.iob[j].dirty => s.iob[j].dirty /\ j # i

\* osclose, unless it ends spitbol, shuts the ioblk or flushes it.
LEMMA oscloseSound ==
    ASSUME NEW s, Shape(s), Table(s), Files(s, 0, 0), NEW i \in Iobs, NEW r \in osclose(s, i)
    PROVE  r.killed = TRUE \/ ClosesOne(s, r, i)
<1> DEFINE b == s.iob[i]
           p == Awaited(s, i)
<1>1. CASE ~b.opn
  <2>1. r.w = s /\ r.pid = 0 /\ r.killed = FALSE
    BY <1>1 DEF osclose
  <2> QED BY <1>1, <2>1 DEF ClosesOne, Files, OnChain, SameTable, Shape
<1>2. CASE b.opn /\ b.dirty /\ Broken(s, i)
  BY <1>2 DEF osclose
<1>3. CASE b.opn /\ ~(b.dirty /\ Broken(s, i)) /\ OfShell(s, i)
  <2>1. PICK x, t : x = FALSE /\ t = WrittenOut(s, i)
    OBVIOUS
  <2>2. r.w = WrittenOut(s, i) /\ r.pid = 0 /\ r.killed = FALSE
    <3>1. \E n : r = [w |-> [s EXCEPT !.iob[i].dirty = FALSE], pid |-> 0, errs |-> n, killed |-> FALSE]
      BY <1>3 DEF osclose
    <3> QED BY <3>1 DEF WrittenOut
  <2>3. r.w = t
    BY <2>1, <2>2
  <2>4. x \in BOOLEAN /\ t = [s EXCEPT !.iob[i].dirty = x]
    BY <2>1 DEF WrittenOut
  <2>5. /\ Shape(t) /\ Table(t) /\ Files(t, 0, 0) /\ SameTable(s, t)
        /\ t.iob[i].fd = s.iob[i].fd
        /\ \A j \in Iobs : j # i => t.iob[j] = s.iob[j]
    <3>1. s.iob[i].opn
      BY <1>3
    <3> QED BY <2>4, <3>1, DirtySound
  <2>6. s.iob[i].fd \notin Fds
    BY <1>3 DEF OfShell, Fds
  <2>7. ~t.iob[i].dirty
    BY <2>1 DEF WrittenOut, Shape, IobType, IobFields
  <2> QED BY <2>2, <2>3, <2>5, <2>6, <2>7 DEF ClosesOne
<1>4. CASE b.opn /\ ~(b.dirty /\ Broken(s, i)) /\ ~OfShell(s, i)
  <2>1. r.w = ShutDown(s, i, p) /\ r.pid = p /\ r.killed = FALSE
    BY <1>4 DEF osclose, ShutDown
  <2>2. b.fd \in Fds
    BY <1>4, ChannelsAssumption DEF Files, OnChain, AllSane, Reached, Sane, Opened, OfShell
  <2>3. Shuts(s, r.w, i, r.pid)
    BY <1>4, <2>1, <2>2, ShutDownShuts
  <2>4. Shape(r.w) /\ Files(r.w, 0, r.pid) /\ ~r.w.iob[i].opn
        /\ \A j \in Iobs : r.w.iob[j].dirty => s.iob[j].dirty /\ j # i
    BY <2>3, ShutsShape, ShutsFiles
  <2> QED BY <2>1, <2>3, <2>4 DEF ClosesOne, Shuts
<1> QED BY <1>1, <1>2, <1>3, <1>4

\* What Close is told to go on with: the block of the channel, for ENDFILE; for
\* close_all, where the output is that is left.
Continues(d, i) ==
    /\ DOMAIN d = {"at", "pid", "todo", "why", "chan", "errs"} /\ d.todo \in Seq(Fcbs)
    /\ d.why \in {"endfile", "end", "chain"}
    /\ d.why = "endfile" => /\ \E c \in Chans : w.chan[c] = d.chan
                            /\ d.chan \in Blocks /\ d.todo = <<>> /\ i = IobOf(d.chan)
    /\ d.why # "endfile" =>
          \A j \in Iobs : w.iob[j].dirty => j = i \/ \E k \in DOMAIN d.todo : w.fcblk[d.todo[k]] = j

\* Closing one ioblk of the call d keeps the invariant.
LEMMA CloseInv ==
    ASSUME Shape(w), Table(w), Files(w, 0, 0), NEW i \in Iobs, NEW d, Continues(d, i), Close(i, d)
    PROVE  Inv'
<1>1. PICK r \in osclose(w, i) :
         IF r.killed THEN Answer(r.w, "killed")
         ELSE /\ w' = r.w
              /\ op' = [d EXCEPT !.at = IF r.pid = 0 THEN "closed" ELSE "waiting", !.pid = r.pid,
                                 !.errs = d.errs + r.errs]
  BY DEF Close
<1>2. r.killed = TRUE \/ ClosesOne(w, r, i)
  BY oscloseSound
<1>3. CASE r.killed = TRUE
  <2>1. Answer(r.w, "killed")
    BY <1>1, <1>3
  <2> QED BY <2>1, EndInv
<1>4. CASE ClosesOne(w, r, i)
  <2>1. /\ w' = r.w
        /\ op' = [d EXCEPT !.at = IF r.pid = 0 THEN "closed" ELSE "waiting", !.pid = r.pid,
                           !.errs = d.errs + r.errs]
    BY <1>1, <1>4 DEF ClosesOne
  <2>2. /\ DOMAIN op' = {"at", "pid", "todo", "why", "chan", "errs"}
        /\ op'.at = (IF r.pid = 0 THEN "closed" ELSE "waiting") /\ op'.pid = r.pid
        /\ op'.todo = d.todo /\ op'.why = d.why /\ op'.chan = d.chan
    BY <2>1 DEF Continues
  <2>3. /\ Shape(w') /\ SameTable(w, w') /\ Files(w', 0, r.pid)
        /\ w'.iob[i].opn => w'.iob[i].fd \notin Fds
        /\ \A j \in Iobs : w'.iob[j].dirty => w.iob[j].dirty /\ j # i
    BY <1>4, <2>1 DEF ClosesOne
  <2>4. OpType' /\ AwaitedNow' = r.pid /\ Closing' /\ op'.at \notin Ends
    BY <2>2 DEF OpType, Ats, AwaitedNow, Closing, Ends, Continues
  <2>5. Table(w')
    BY <2>3, SameReach
  <2>6. EndfileInv'
    BY <2>2, <2>3 DEF EndfileInv, Continues, SameTable, IobOf
  <2>7. CloseAllInv'
    BY <2>2, <2>3 DEF CloseAllInv, Continues, SameTable
  <2>8. op'.at # "exit"
    BY <2>2
  <2> QED BY <2>3, <2>4, <2>5, <2>6, <2>7, <2>8 DEF Inv
<1> QED BY <1>2, <1>3, <1>4

\* ENDFILE, up to the return of zysen, keeps it.
LEMMA EndfileKept ==
    ASSUME Inv, NEW c \in Chans, Endfile(c)
    PROVE  Inv'
<1>1. op.at = "idle" /\ Shape(w) /\ Table(w) /\ Files(w, 0, 0)
  BY IdleSound DEF Endfile
<1>2. PICK i : i = IF w.chan[c] = 0 THEN 0 ELSE IobOf(w.chan[c])
  OBVIOUS
<1>3. CASE w.chan[c] = 0
  <2>1. Answer(w, "error")
    BY <1>3 DEF Endfile
  <2> QED BY <1>1, <2>1, SoundAnswer
<1>4. CASE w.chan[c] # 0 /\ i = 0
  <2>1. Answer(w, "crash")
    BY <1>2, <1>4 DEF Endfile
  <2> QED BY <2>1, EndInv
<1>5. CASE w.chan[c] # 0 /\ i # 0 /\ ~w.iob[i].opn
  <2>1. Answer(w, "error")
    BY <1>2, <1>5 DEF Endfile
  <2> QED BY <1>1, <2>1, SoundAnswer
<1>6. CASE w.chan[c] # 0 /\ i # 0 /\ w.iob[i].opn
  <2>1. PICK d : d = [Idle EXCEPT !.why = "endfile", !.chan = w.chan[c]]
    OBVIOUS
  <2>2. Close(i, d)
    BY <1>2, <1>6, <2>1 DEF Endfile
  <2>3. w.chan[c] \in Blocks /\ Live(w, w.chan[c])
    BY <1>1, <1>6 DEF Shape, Live
  <2>4. i \in Iobs /\ i = IobOf(w.chan[c])
    BY <1>1, <1>2, <1>6, <2>3 DEF IobOf, Shape, Table, Filled
  <2>5. /\ DOMAIN d = {"at", "pid", "todo", "why", "chan", "errs"} /\ d.todo = <<>> /\ d.todo \in Seq(Fcbs)
        /\ d.why = "endfile" /\ d.chan = w.chan[c]
    BY <2>1, IdleType DEF Idle
  <2>6. Continues(d, i)
    BY <2>3, <2>4, <2>5 DEF Continues
  <2> QED BY <1>1, <2>2, <2>4, <2>6, CloseInv
<1> QED BY <1>3, <1>4, <1>5, <1>6

\* When no process is waited for, the files are in order.
LEMMA ClosedSound ==
    ASSUME Inv, op.at = "closed"
    PROVE  Shape(w) /\ Table(w) /\ Files(w, 0, 0)
BY DEF Inv, AwaitedNow, Ends

\* The rest of ENDFILE keeps it: what leaves the chain of fcblks is not open.
LEMMA EndfileDoneInv ==
    ASSUME Inv, EndfileDone
    PROVE  Inv'
<1>1. /\ op.at = "closed" /\ op.why = "endfile" /\ Shape(w) /\ Table(w) /\ Files(w, 0, 0)
  BY ClosedSound DEF EndfileDone
<1>2. CASE op.errs > 0
  <2>1. Answer(w, "error")
    BY <1>2 DEF EndfileDone
  <2> QED BY <1>1, <2>1, SoundAnswer
<1>3. CASE ~(op.errs > 0)
  <2>1. PICK b, f, x, s, t :
           /\ b = op.chan /\ f = w.block[b].fcb /\ x = w.fcblk[f]
           /\ s = [w EXCEPT !.chan = [c \in Chans |-> IF w.chan[c] = b THEN 0 ELSE w.chan[c]],
                            !.r_fcb = RemoveFirst(w.r_fcb, f)]
           /\ t = dtach(s, w.block[b].iochn) /\ Answer(t, "ok")
    BY <1>3 DEF EndfileDone
  <2>2. /\ b \in Blocks /\ Live(w, b) /\ x \in Iobs
        /\ w.iob[x].opn => w.iob[x].fd \notin Fds
    BY <1>1, <2>1 DEF Inv, Closing, EndfileInv, Live
  <2>3. f \in Fcbs /\ f = w.block[b].fcb
    BY <1>1, <2>1, <2>2 DEF Shape, Table, Filled
  <2>4. /\ DOMAIN s = Fields /\ s.block = w.block /\ s.assoc = w.assoc /\ s.fcblk = w.fcblk
        /\ s.iob = w.iob /\ s.fds = w.fds /\ s.child = w.child
        /\ s.chan = [c \in Chans |-> IF w.chan[c] = b THEN 0 ELSE w.chan[c]]
        /\ s.r_fcb = RemoveFirst(w.r_fcb, f)
    BY <1>1, <2>1 DEF Shape, Fields
  <2>5. /\ s.r_fcb \in Seq(Fcbs)
        /\ \A k \in DOMAIN w.r_fcb : w.r_fcb[k] # f => \E j \in DOMAIN s.r_fcb : s.r_fcb[j] = w.r_fcb[k]
        /\ \A j \in DOMAIN s.r_fcb : \E k \in DOMAIN w.r_fcb : w.r_fcb[k] = s.r_fcb[j]
    <3>1. PICK r, q : r = s.r_fcb /\ q = w.r_fcb
      OBVIOUS
    <3>2. q \in Seq(Fcbs) /\ r = RemoveFirst(q, f)
      BY <1>1, <2>4, <3>1 DEF Shape
    <3>3. /\ r \in Seq(Fcbs)
          /\ \A k \in DOMAIN q : q[k] # f => \E j \in DOMAIN r : r[j] = q[k]
          /\ \A j \in DOMAIN r : \E k \in DOMAIN q : q[k] = r[j]
      BY <3>2, RemoveFirstIs
    <3> QED BY <3>1, <3>3
  <2>6. Shape(s)
    BY <1>1, <2>4, <2>5 DEF Shape
  <2>7. Attached(s)
    BY <1>1, <2>4 DEF Table, Attached
  <2>8. /\ Shape(t) /\ Attached(t)
        /\ t.chan = s.chan /\ t.fcblk = s.fcblk /\ t.r_fcb = s.r_fcb
        /\ t.iob = s.iob /\ t.fds = s.fds /\ t.child = s.child
        /\ \A v \in Vars, d \in Dirs : t.assoc[v][d] = IF v \in w.block[b].iochn THEN 0 ELSE s.assoc[v][d]
        /\ \A a \in Blocks : t.block[a].fcb = s.block[a].fcb
    <3>1. PICK vs : vs = w.block[b].iochn
      OBVIOUS
    <3>2. t = dtach(s, vs)
      BY <2>1, <3>1
    <3>3. /\ Shape(t) /\ Attached(t)
          /\ t.chan = s.chan /\ t.fcblk = s.fcblk /\ t.r_fcb = s.r_fcb
          /\ t.iob = s.iob /\ t.fds = s.fds /\ t.child = s.child
          /\ \A v \in Vars, d \in Dirs : t.assoc[v][d] = IF v \in vs THEN 0 ELSE s.assoc[v][d]
          /\ \A a \in Blocks : t.block[a].fcb = s.block[a].fcb
      BY <2>6, <2>7, <3>2, dtachIs
    <3> QED BY <3>1, <3>3
  <2>9. \A a : Live(t, a) => Live(w, a) /\ a # b
    <3>1. 0 \notin Blocks /\ \A a \in Blocks : a > 0
      BY ChannelsAssumption
    <3>2. \A v \in Vars, d \in Dirs : w.assoc[v][d] = b => v \in w.block[b].iochn
      BY <1>1, <2>2, <3>1 DEF Table, Attached
    <3> QED BY <2>4, <2>8, <3>1, <3>2 DEF Live
  <2>10. Table(t)
    BY <1>1, <2>4, <2>8, <2>9, FewerLive DEF Table
  <2>11. \A j \in Iobs : Chained(t, j) => Chained(w, j)
    BY <2>4, <2>5, <2>8 DEF Chained
  <2>12. \A j \in Iobs : Chained(w, j) /\ j # x => Chained(t, j)
    <3> SUFFICES ASSUME NEW j \in Iobs, j # x, NEW k \in DOMAIN w.r_fcb, w.fcblk[w.r_fcb[k]] = j
                 PROVE  Chained(t, j)
      BY DEF Chained
    <3>1. PICK m \in DOMAIN s.r_fcb : s.r_fcb[m] = w.r_fcb[k]
      BY <2>1, <2>5
    <3> QED BY <2>4, <2>8, <3>1 DEF Chained
  <2>13. \A j \in Iobs : Reached(t, j) => Reached(w, j)
    BY <2>4, <2>8, <2>9, <2>11 DEF Reached
  <2>14. Reached(t, x) => Chained(t, x)
    <3>1. \A a \in Blocks : Live(w, a) /\ a # b => w.fcblk[w.block[a].fcb] # x
      BY <1>1, <2>1, <2>2, ChannelsAssumption DEF Table, Apart
    <3> QED BY <2>4, <2>8, <2>9, <3>1 DEF Reached
  <2>15. OnChain(t, IF Chained(t, x) THEN 0 ELSE x)
    BY <1>1, <2>2, <2>4, <2>8, <2>12, ChannelsAssumption DEF Files, OnChain
  <2>16. AllSane(t, 0)
    BY <1>1, <2>4, <2>8, <2>13 DEF Files, AllSane, Sane, Opened, Shut
  <2>17. Owned(t) /\ OwnPid(t)
    BY <1>1, <2>4, <2>8, <2>13 DEF Files, Owned, OwnPid
  <2>18. CASE Chained(t, x)
    <3>1. Files(t, 0, 0)
      BY <2>15, <2>16, <2>17, <2>18 DEF Files
    <3> QED BY <2>1, <2>8, <2>10, <3>1, SoundAnswer
  <2>19. CASE ~Chained(t, x)
    <3>1. Files(t, x, 0)
      BY <2>15, <2>16, <2>17, <2>19 DEF Files
    <3>2. ~Reached(t, x) /\ (t.iob[x].opn => t.iob[x].fd \notin Fds)
      BY <2>2, <2>4, <2>8, <2>14, <2>19
    <3> QED BY <2>1, <2>8, <2>10, <3>1, <3>2, AnswerInv
  <2> QED BY <2>18, <2>19
<1> QED BY <1>2, <1>3


\* The beginning of close_all keeps it: every ioblk that holds output is on the chain.
LEMMA CloseAllKept ==
    ASSUME Inv, NEW why \in {"end", "chain"}, CloseAll(why)
    PROVE  Inv'
<1>1. /\ op.at = "idle" /\ Shape(w) /\ Table(w) /\ Files(w, 0, 0)
      /\ w' = w /\ op' = [Idle EXCEPT !.at = "closed", !.why = why, !.todo = w.r_fcb]
  BY IdleSound DEF CloseAll
<1>2. /\ DOMAIN op' = {"at", "pid", "todo", "why", "chan", "errs"} /\ op'.at = "closed"
      /\ op'.todo = w.r_fcb /\ op'.why = why
  BY <1>1, IdleType
<1>3. w.r_fcb \in Seq(Fcbs)
  BY <1>1 DEF Shape
<1>4. OpType' /\ AwaitedNow' = 0 /\ Closing' /\ op'.why # "endfile" /\ op'.at # "exit"
  BY <1>2, <1>3 DEF OpType, AwaitedNow, Closing, Ats
<1>5. \A i \in Iobs : w'.iob[i].dirty => \E k \in DOMAIN op'.todo : w'.fcblk[op'.todo[k]] = i
  BY <1>1, <1>2, ChannelsAssumption DEF Files, OnChain, Chained
<1> QED BY <1>1, <1>4, <1>5 DEF Inv, EndfileInv, CloseAllInv

\* What is on a chain, but for its head, is on its tail.
LEMMA TailIs ==
    ASSUME NEW S, NEW q \in Seq(S), q # <<>>
    PROVE  /\ Head(q) \in S /\ Tail(q) \in Seq(S) /\ Head(q) = q[1]
           /\ \A k \in DOMAIN q : k # 1 => \E j \in DOMAIN Tail(q) : Tail(q)[j] = q[k]
<1>1. /\ Len(q) \in Nat /\ Len(q) > 0 /\ DOMAIN q = 1 .. Len(q)
      /\ Tail(q) \in Seq(S) /\ Len(Tail(q)) = Len(q) - 1 /\ DOMAIN Tail(q) = 1 .. Len(q) - 1
      /\ \A j \in 1 .. Len(q) - 1 : Tail(q)[j] = q[j + 1]
      /\ Head(q) = q[1] /\ q[1] \in S
  OBVIOUS
<1>2. ASSUME NEW k \in DOMAIN q, k # 1 PROVE \E j \in DOMAIN Tail(q) : Tail(q)[j] = q[k]
  <2>1. k - 1 \in 1 .. Len(q) - 1 /\ (k - 1) + 1 = k
    BY <1>1, <1>2
  <2> QED BY <1>1, <2>1
<1> QED BY <1>1, <1>2

\* Each step of close_all keeps it.
LEMMA CloseNextInv ==
    ASSUME Inv, CloseNext
    PROVE  Inv'
<1>1. /\ op.at = "closed" /\ op.todo # <<>> /\ Shape(w) /\ Table(w) /\ Files(w, 0, 0)
      /\ OpType /\ EndfileInv /\ CloseAllInv
  BY ClosedSound DEF CloseNext, Inv
<1>2. PICK q, i : q = op.todo /\ i = w.fcblk[Head(q)]
  OBVIOUS
<1>3. q \in Seq(Fcbs) /\ q # <<>>
  BY <1>1, <1>2 DEF OpType
<1>4. /\ Head(q) \in Fcbs /\ Tail(q) \in Seq(Fcbs) /\ Head(q) = q[1]
      /\ \A k \in DOMAIN q : k # 1 => \E j \in DOMAIN Tail(q) : Tail(q)[j] = q[k]
  BY <1>3, TailIs
<1>5. i \in Iobs \cup {0}
  BY <1>1, <1>2, <1>4 DEF Shape
<1>6. CASE i = 0
  <2>1. Answer(w, "crash")
    BY <1>2, <1>6 DEF CloseNext
  <2> QED BY <2>1, EndInv
<1>7. CASE i # 0
  <2>1. PICK d : d = [op EXCEPT !.todo = Tail(q), !.pid = 0] /\ Close(i, d)
    BY <1>2, <1>7 DEF CloseNext
  <2>2. /\ DOMAIN d = {"at", "pid", "todo", "why", "chan", "errs"}
        /\ d.todo = Tail(q) /\ d.why = op.why
    BY <1>1, <2>1 DEF OpType
  <2>3. op.why # "endfile" /\ op.why \in {"endfile", "end", "chain"}
    BY <1>1 DEF EndfileInv, Closing, OpType
  <2>4. ASSUME NEW j \in Iobs, w.iob[j].dirty, j # i
        PROVE  \E k \in DOMAIN d.todo : w.fcblk[d.todo[k]] = j
    <3>1. PICK k \in DOMAIN q : w.fcblk[q[k]] = j
      BY <1>1, <1>2, <2>3, <2>4 DEF CloseAllInv, Closing
    <3>2. k # 1
      BY <1>2, <1>4, <2>4, <3>1
    <3> QED BY <1>4, <2>2, <3>1, <3>2
  <2>5. Continues(d, i)
    BY <1>4, <2>2, <2>3, <2>4 DEF Continues
  <2> QED BY <1>1, <1>5, <1>7, <2>1, <2>5, CloseInv
<1> QED BY <1>6, <1>7

\* The end of a run keeps it, if no output is left.
LEMMA ExitInv ==
    ASSUME Shape(w), Table(w), \A i \in Iobs : ~w.iob[i].dirty, Answer(w, "exit")
    PROVE  Inv'
<1>1. w' = Gone(w) /\ op' = [Idle EXCEPT !.at = "exit"]
  BY DEF Answer, Ends
<1>2. DOMAIN op' = {"at", "pid", "todo", "why", "chan", "errs"} /\ op'.at = "exit" /\ op'.todo = <<>>
  BY <1>1, IdleType
<1>3. OpType' /\ ~Closing' /\ op'.at \in Ends
  BY <1>2 DEF OpType, Closing, Ats, Ends
<1>4. SameTable(w, w') /\ w'.iob = w.iob /\ w'.child = w.child /\ w'.fds = [d \in Fds |-> Closed]
  BY <1>1 DEF Gone, SameTable, Shape, Fields
<1>5. Shape(w')
  BY <1>4 DEF Shape, SameTable
<1>6. Table(w')
  BY <1>4, SameReach
<1> QED BY <1>3, <1>4, <1>5, <1>6 DEF Inv, EndfileInv, CloseAllInv

\* The end of close_all keeps it.
LEMMA CloseAllDoneInv ==
    ASSUME Inv, CloseAllDone
    PROVE  Inv'
<1>1. /\ op.at = "closed" /\ op.todo = <<>> /\ op.why # "endfile" /\ Shape(w) /\ Table(w) /\ Files(w, 0, 0)
      /\ Answer(w, "exit") \/ Answer(w, "fail")
  BY ClosedSound DEF CloseAllDone, doexec
<1>2. \A i \in Iobs : ~w.iob[i].dirty
  BY <1>1 DEF Inv, CloseAllInv, Closing
<1> QED BY <1>1, <1>2, ExitInv, SoundAnswer

\* The process q is no more, and the ioblk m, if there is one, remembers it.
LEMMA ReapedFiles ==
    ASSUME NEW s, Shape(s), NEW p, Files(s, 0, p), NEW q \in Pids, s.child[q].state = "zombie",
           NEW t, t = [s EXCEPT !.child[q].state = "reaped"]
    PROVE  Shape(t) /\ SameTable(s, t) /\ (q = p => Files(t, 0, 0))
<1>1. /\ SameTable(s, t) /\ t.iob = s.iob /\ t.fds = s.fds
      /\ t.child = [s.child EXCEPT ![q].state = "reaped"]
  BY DEF SameTable, Shape, Fields
<1>2. /\ t.child[q].state = "reaped" /\ \A r \in Pids : r # q => t.child[r] = s.child[r]
      /\ DOMAIN t.child = Pids
      /\ \A r \in Pids : /\ DOMAIN t.child[r] = {"state", "reads", "holds"}
                         /\ t.child[r].state \in ChildStates
  BY <1>1 DEF Shape, ChildStates
<1>3. Shape(t)
  BY <1>1, <1>2 DEF Shape, SameTable
<1>4. ASSUME q = p PROVE Files(t, 0, 0)
  <2>1. /\ \A j : Chained(t, j) <=> Chained(s, j)
        /\ \A j : Reached(t, j) <=> Reached(s, j)
    BY <1>1, SameReach
  <2>2. ASSUME NEW j \in Iobs, Reached(s, j) PROVE Sane(t, j, 0)
    <3>1. Sane(s, j, p) /\ s.iob[j].pid \in Pids \cup {0} /\ 0 \notin Pids
      BY <2>2, ChannelsAssumption DEF Files, AllSane, Shape, IobType
    <3>2. Opened(t, j, 0)
      BY <1>1, <1>2, <1>4, <3>1 DEF Sane, Opened
    <3>3. Shut(t, j, 0)
      BY <1>1, <1>2, <1>4, <3>1 DEF Sane, Shut
    <3> QED BY <1>1, <3>1, <3>2, <3>3 DEF Sane
  <2>3. OnChain(t, 0) /\ Owned(t) /\ OwnPid(t)
    BY <1>1, <2>1 DEF Files, OnChain, Owned, OwnPid
  <2> QED BY <2>1, <2>2, <2>3 DEF Files, AllSane
<1> QED BY <1>1, <1>3, <1>4

\* oswait finds no ioblk of process q on the chain, or marks one.
Marks(s, q, t) ==
    \/ t = s /\ \A j \in Iobs : Chained(s, j) => s.iob[j].pid # q
    \/ \E m \in Iobs : Chained(s, m) /\ s.iob[m].pid = q /\ t = [s EXCEPT !.iob[m].ded = TRUE]

\* oswait marks an ioblk of the process that has ended, if there is one on the chain.
LEMMA MarkIs ==
    ASSUME NEW s, Shape(s), NEW q
    PROVE  Marks(s, q, Mark(s, q))
<1>0. PICK t : t = Mark(s, q)
  OBVIOUS
<1>1. PICK its : its = {k \in DOMAIN s.r_fcb : s.fcblk[s.r_fcb[k]] # 0 /\ s.iob[s.fcblk[s.r_fcb[k]]].pid = q}
  OBVIOUS
<1>2. t = IF its = {} THEN s ELSE [s EXCEPT !.iob[s.fcblk[s.r_fcb[Min(its)]]].ded = TRUE]
  BY <1>0, <1>1, Zenon DEF Mark
<1>3. CASE its = {}
  BY <1>0, <1>1, <1>2, <1>3, ChannelsAssumption DEF Chained, Marks
<1>4. CASE its # {}
  <2>1. its \subseteq Nat
    BY <1>1 DEF Shape
  <2>2. PICK k : k = Min(its) /\ k \in its
    BY <1>4, <2>1, LeastIn
  <2>3. PICK m : m = s.fcblk[s.r_fcb[k]]
    OBVIOUS
  <2>4. k \in DOMAIN s.r_fcb /\ m # 0 /\ s.iob[m].pid = q
    BY <1>1, <2>2, <2>3
  <2>5. m \in Iobs
    BY <2>3, <2>4 DEF Shape
  <2>6. t = [s EXCEPT !.iob[m].ded = TRUE]
    BY <1>2, <1>4, <2>2, <2>3
  <2>7. \E j \in Iobs : Chained(s, j) /\ s.iob[j].pid = q /\ t = [s EXCEPT !.iob[j].ded = TRUE]
    BY <2>3, <2>4, <2>5, <2>6 DEF Chained
  <2> QED BY <1>0, <2>7 DEF Marks
<1> QED BY <1>3, <1>4

\* The files are in order when a process that is not waited for has been reaped.
LEMMA MarkedFiles ==
    ASSUME NEW s, Shape(s), NEW p, Files(s, 0, p), NEW q \in Pids, s.child[q].state = "zombie", q # p,
           NEW t, t = [s EXCEPT !.child[q].state = "reaped"], NEW u, u = Mark(t, q)
    PROVE  /\ Shape(u) /\ SameTable(s, u) /\ Files(u, 0, p)
           /\ \A j \in Iobs : u.iob[j].dirty = s.iob[j].dirty /\ u.iob[j].opn = s.iob[j].opn
                                /\ u.iob[j].fd = s.iob[j].fd
<1>1. /\ Shape(t) /\ SameTable(s, t) /\ t.iob = s.iob /\ t.fds = s.fds
      /\ t.child = [s.child EXCEPT ![q].state = "reaped"]
  <2>1. Shape(t) /\ SameTable(s, t)
    BY ReapedFiles
  <2>2. t.iob = s.iob /\ t.fds = s.fds /\ t.child = [s.child EXCEPT ![q].state = "reaped"]
    BY DEF Shape, Fields
  <2> QED BY <2>1, <2>2
<1>2. t.child[q].state = "reaped" /\ \A r \in Pids : r # q => t.child[r] = s.child[r]
  BY <1>1 DEF Shape
<1>3. /\ \A j : Chained(t, j) <=> Chained(s, j)
      /\ \A j : Reached(t, j) <=> Reached(s, j)
  BY <1>1, SameReach
<1>4. 0 \notin Pids /\ 0 \notin Iobs
  BY ChannelsAssumption
\* The ioblk of a process that is not reaped yet is open.
<1>5. \A j \in Iobs : Reached(s, j) /\ s.iob[j].pid = q => s.iob[j].opn /\ s.iob[j].pip /\ Chained(s, j)
  BY <1>4 DEF Files, AllSane, Sane, Shut, OnChain
<1>6. ASSUME NEW j \in Iobs, Reached(s, j), s.iob[j].pid # q PROVE Sane(t, j, p)
  <2>1. Sane(s, j, p) /\ s.iob[j].pid \in Pids \cup {0}
    BY <1>6 DEF Files, AllSane, Shape, IobType
  <2> QED BY <1>1, <1>2, <1>4, <1>6, <2>1 DEF Sane, Opened, Shut
<1>7. CASE u = t /\ \A j \in Iobs : Chained(t, j) => t.iob[j].pid # q
  <2>1. AllSane(u, p)
    BY <1>1, <1>3, <1>5, <1>6, <1>7 DEF AllSane
  <2>2. u.iob = s.iob /\ u.fds = s.fds
    BY <1>1, <1>7
  <2>3. /\ \A j : Chained(u, j) <=> Chained(s, j)
        /\ \A j : Reached(u, j) <=> Reached(s, j)
    BY <1>3, <1>7
  <2>4. OnChain(u, 0)
    BY <2>2, <2>3 DEF Files, OnChain
  <2>5. Owned(u) /\ OwnPid(u)
    BY <2>2, <2>3 DEF Files, Owned, OwnPid
  <2> QED BY <1>1, <1>7, <2>1, <2>4, <2>5 DEF Files
<1>8. CASE \E m \in Iobs : Chained(t, m) /\ t.iob[m].pid = q /\ u = [t EXCEPT !.iob[m].ded = TRUE]
  <2>1. PICK m \in Iobs : Chained(t, m) /\ t.iob[m].pid = q /\ u = [t EXCEPT !.iob[m].ded = TRUE]
    BY <1>8
  <2>2. PICK n : n = [s.iob[m] EXCEPT !.ded = TRUE]
    OBVIOUS
  <2>3. /\ IobType(n) /\ n.opn = s.iob[m].opn /\ n.sys = s.iob[m].sys /\ n.fd = s.iob[m].fd
        /\ n.pip = s.iob[m].pip /\ n.pid = s.iob[m].pid /\ n.file = s.iob[m].file
        /\ n.dirty = s.iob[m].dirty /\ n.ded
    BY <2>2 DEF Shape, IobType, IobFields
  <2>4. SameTable(t, u) /\ u.iob = [s.iob EXCEPT ![m] = n] /\ u.fds = s.fds /\ u.child = t.child
    BY <1>1, <2>1, <2>2 DEF SameTable, Shape, Fields
  <2>5. u.iob[m] = n /\ \A j \in Iobs : j # m => u.iob[j] = s.iob[j]
    BY <2>4 DEF Shape
  <2>6. Reached(s, m) /\ s.iob[m].pid = q /\ s.iob[m].opn /\ s.iob[m].pip
    BY <1>1, <1>3, <1>5, <2>1 DEF Reached
  <2>7. Shape(u)
    <3>1. DOMAIN u.iob = Iobs /\ \A j \in Iobs : IobType(u.iob[j])
      BY <2>3, <2>4, <2>5 DEF Shape
    <3> QED BY <1>1, <2>4, <3>1 DEF Shape, SameTable
  <2>8. SameTable(s, u)
    BY <1>1, <2>4 DEF SameTable
  <2>9. /\ \A j : Chained(u, j) <=> Chained(s, j)
        /\ \A j : Reached(u, j) <=> Reached(s, j)
    BY <2>8, SameReach
  <2>10. Sane(u, m, p)
    <3>1. Sane(s, m, p)
      BY <2>6 DEF Files, AllSane
    <3>2. /\ u.iob[m] = n /\ n.opn /\ n.pid = q /\ n.pip /\ u.child[q].state = "reaped"
          /\ u.fds = s.fds /\ n.ded
      BY <1>2, <2>3, <2>4, <2>5, <2>6
    <3>3. Opened(u, m, p)
      BY <1>4, <2>3, <2>6, <3>1, <3>2 DEF Sane, Opened
    <3>4. Shut(u, m, p)
      BY <3>2 DEF Shut
    <3> QED BY <2>3, <3>1, <3>2, <3>3, <3>4 DEF Sane
  <2>11. ASSUME NEW j \in Iobs, Reached(s, j), j # m PROVE Sane(u, j, p)
    <3>1. s.iob[j].pid # q
      BY <1>4, <2>6, <2>11 DEF Files, OwnPid
    <3>2. Sane(t, j, p)
      BY <1>6, <2>11, <3>1
    <3>3. t.iob[j] = u.iob[j] /\ u.fds = t.fds /\ u.child = t.child
      BY <1>1, <2>4, <2>5, <2>11
    <3>4. Opened(u, j, p)
      BY <3>2, <3>3 DEF Sane, Opened
    <3>5. Shut(u, j, p)
      BY <3>2, <3>3 DEF Sane, Shut
    <3> QED BY <3>2, <3>3, <3>4, <3>5 DEF Sane
  <2>12. AllSane(u, p)
    BY <2>9, <2>10, <2>11 DEF AllSane
  <2>13. \A j \in Iobs : u.iob[j].dirty = s.iob[j].dirty /\ u.iob[j].opn = s.iob[j].opn
                           /\ u.iob[j].fd = s.iob[j].fd /\ u.iob[j].pid = s.iob[j].pid
    BY <2>3, <2>5
  <2>14. OnChain(u, 0)
    BY <2>9, <2>13 DEF Files, OnChain
  <2>15. Owned(u) /\ OwnPid(u)
    BY <2>4, <2>9, <2>13 DEF Files, Owned, OwnPid
  <2> QED BY <2>7, <2>8, <2>12, <2>13, <2>14, <2>15 DEF Files
<1>9. Marks(t, q, u)
  BY <1>1, MarkIs
<1> QED BY <1>7, <1>8, <1>9 DEF Marks

\* What ENDFILE and close_all have yet to do stays as it is.
LEMMA StillClosing ==
    ASSUME Inv, Closing, op'.why = op.why, op'.chan = op.chan, op'.todo = op.todo, SameTable(w, w'),
           \A j \in Iobs : w'.iob[j].dirty = w.iob[j].dirty /\ w'.iob[j].opn = w.iob[j].opn
                             /\ w'.iob[j].fd = w.iob[j].fd
    PROVE  EndfileInv' /\ CloseAllInv' /\ Table(w')
<1>1. Table(w')
  BY SameReach DEF Inv
<1>2. EndfileInv'
  BY DEF Inv, EndfileInv, SameTable
<1>3. CloseAllInv'
  BY DEF Inv, CloseAllInv, SameTable
<1> QED BY <1>1, <1>2, <1>3

\* oswait keeps the invariant.
LEMMA oswaitInv ==
    ASSUME Inv, oswait
    PROVE  Inv'
<1>1. /\ op.at = "waiting" /\ Closing /\ Shape(w) /\ Table(w) /\ Files(w, 0, op.pid) /\ OpType
  BY DEF oswait, Inv, Closing, AwaitedNow, Ends
<1>2. /\ op' = [op EXCEPT !.at = "closed"] \/ op' = op
      /\ op'.why = op.why /\ op'.chan = op.chan /\ op'.todo = op.todo
  BY <1>1 DEF oswait, OpType
<1>3. OpType' /\ op'.at \notin Ends /\ Closing' /\ op'.at # "exit"
  BY <1>1, <1>2 DEF OpType, Ends, Closing, Ats
<1>4. CASE op' = [op EXCEPT !.at = "closed"] /\ w' = w /\ \A p \in Pids : w.child[p].state \in {"none", "reaped"}
  <2>1. op'.at = "closed" /\ AwaitedNow' = 0
    BY <1>1, <1>4 DEF OpType, AwaitedNow
  <2>2. ASSUME NEW j \in Iobs, Reached(w, j) PROVE Sane(w, j, 0)
    <3>1. Sane(w, j, op.pid) /\ w.iob[j].pid \in Pids \cup {0}
      BY <1>1, <2>2 DEF Files, AllSane, Shape, IobType
    <3> QED BY <1>4, <3>1 DEF Sane, Opened, Shut
  <2>3. Files(w', 0, 0)
    BY <1>1, <1>4, <2>2 DEF Files, AllSane
  <2>4. EndfileInv' /\ CloseAllInv' /\ Table(w')
    BY <1>1, <1>2, <1>4, StillClosing DEF SameTable, Shape
  <2> QED BY <1>1, <1>3, <1>4, <2>1, <2>3, <2>4 DEF Inv
<1>5. ASSUME NEW p \in Pids, NEW s, w.child[p].state = "zombie", s = [w EXCEPT !.child[p].state = "reaped"],
             \/ p = op.pid /\ w' = s /\ op' = [op EXCEPT !.at = "closed"]
             \/ p # op.pid /\ w' = Mark(s, p) /\ op' = op
      PROVE  Inv'
  <2>1. CASE p = op.pid /\ w' = s /\ op' = [op EXCEPT !.at = "closed"]
    <3>1. op'.at = "closed" /\ AwaitedNow' = 0
      BY <1>1, <2>1 DEF OpType, AwaitedNow
    <3>2. Shape(s) /\ SameTable(w, s) /\ Files(s, 0, 0)
      BY <1>1, <1>5, <2>1, ReapedFiles
    <3>3. s.iob = w.iob
      BY <1>1, <1>5 DEF Shape, Fields
    <3>4. EndfileInv' /\ CloseAllInv' /\ Table(w')
      BY <1>1, <1>2, <2>1, <3>2, <3>3, StillClosing
    <3> QED BY <1>1, <1>3, <2>1, <3>1, <3>2, <3>4 DEF Inv
  <2>2. CASE p # op.pid /\ w' = Mark(s, p) /\ op' = op
    <3>1. PICK u : u = Mark(s, p)
      OBVIOUS
    <3>2. /\ Shape(u) /\ SameTable(w, u) /\ Files(u, 0, op.pid)
          /\ \A j \in Iobs : u.iob[j].dirty = w.iob[j].dirty /\ u.iob[j].opn = w.iob[j].opn
                               /\ u.iob[j].fd = w.iob[j].fd
      BY <1>1, <1>5, <2>2, <3>1, MarkedFiles
    <3>3. w' = u /\ AwaitedNow' = op.pid
      BY <1>1, <2>2, <3>1 DEF AwaitedNow
    <3>4. EndfileInv' /\ CloseAllInv' /\ Table(w')
      BY <1>1, <1>2, <3>2, <3>3, StillClosing
    <3> QED BY <1>3, <3>2, <3>3, <3>4 DEF Inv
  <2> QED BY <1>5, <2>1, <2>2
<1>6. CASE ~ \A p \in Pids : w.child[p].state \in {"none", "reaped"}
  <2>1. PICK p \in Pids, s \in {[w EXCEPT !.child[r].state = "reaped"] : r \in Pids} :
           /\ w.child[p].state = "zombie" /\ s = [w EXCEPT !.child[p].state = "reaped"]
           /\ IF p = op.pid THEN w' = s /\ op' = [op EXCEPT !.at = "closed"]
              ELSE w' = Mark(s, p) /\ UNCHANGED op
    BY <1>6 DEF oswait
  <2> QED BY <1>5, <2>1
<1> QED BY <1>4, <1>6 DEF oswait


\* A process that ends keeps it.
LEMMA ExitsInv ==
    ASSUME Inv, NEW p \in Pids, Exits(p)
    PROVE  Inv'
<1>1. /\ Shape(w) /\ Table(w) /\ Files(w, 0, AwaitedNow) /\ op.at \notin Ends /\ op' = op
      /\ w.child[p].state \in {"running", "killed"}
      /\ w' = [w EXCEPT !.child[p].state = "zombie", !.child[p].holds = {}]
  BY DEF Exits, Inv
<1>2. /\ SameTable(w, w') /\ w'.iob = w.iob /\ w'.fds = w.fds
      /\ w'.child = [w.child EXCEPT ![p] = [w.child[p] EXCEPT !.state = "zombie", !.holds = {}]]
  BY <1>1 DEF SameTable, Shape, Fields
<1>3. /\ w'.child[p].state = "zombie" /\ \A q \in Pids : q # p => w'.child[q] = w.child[q]
      /\ DOMAIN w'.child = Pids
      /\ \A q \in Pids : /\ DOMAIN w'.child[q] = {"state", "reads", "holds"}
                         /\ w'.child[q].state \in ChildStates
  BY <1>1, <1>2 DEF Shape, ChildStates
<1>4. Shape(w')
  BY <1>1, <1>2, <1>3 DEF Shape, SameTable
<1>5. /\ \A j : Chained(w', j) <=> Chained(w, j)
      /\ \A j : Reached(w', j) <=> Reached(w, j)
      /\ Table(w')
  BY <1>1, <1>2, SameReach
<1>6. ASSUME NEW j \in Iobs, Reached(w, j) PROVE Sane(w', j, AwaitedNow)
  <2>1. Sane(w, j, AwaitedNow) /\ w.iob[j].pid \in Pids \cup {0}
    BY <1>1, <1>6 DEF Files, AllSane, Shape, IobType
  <2>2. Opened(w', j, AwaitedNow)
    BY <1>1, <1>2, <1>3, <2>1 DEF Sane, Opened
  <2>3. Shut(w', j, AwaitedNow)
    BY <1>1, <1>2, <1>3, <2>1 DEF Sane, Shut
  <2> QED BY <1>2, <2>1, <2>2, <2>3 DEF Sane
<1>7. Files(w', 0, AwaitedNow)
  BY <1>1, <1>2, <1>5, <1>6 DEF Files, OnChain, AllSane, Owned, OwnPid
<1>8. AwaitedNow' = AwaitedNow /\ OpType' /\ op'.at # "exit"
  <2>1. OpType' /\ op'.at # "exit"
    BY <1>1 DEF Inv, OpType, Closing, Ends
  <2>2. AwaitedNow' = AwaitedNow
    BY <1>1 DEF AwaitedNow
  <2> QED BY <2>1, <2>2
<1>9. EndfileInv' /\ CloseAllInv'
  BY <1>1, <1>2 DEF Inv, Closing, EndfileInv, CloseAllInv, SameTable
<1> QED BY <1>4, <1>5, <1>7, <1>8, <1>9 DEF Inv
------------------------------------------------------------------------------
(* The theorems. *)

\* The invariant holds at first.
LEMMA InitInv == Init => Inv
<1> SUFFICES ASSUME Init PROVE Inv
  OBVIOUS
<1>1. w = Nothing /\ op = Idle
  BY DEF Init
<1>2. Shape(w) /\ Table(w) /\ Files(w, 0, 0)
  BY <1>1, NothingSound, FilesNothing
<1>3. OpType /\ op.at = "idle" /\ AwaitedNow = 0
  BY <1>1, IdleType DEF OpType, Closing, AwaitedNow, Ats
<1> QED BY <1>2, <1>3 DEF Inv, EndfileInv, CloseAllInv, Closing

\* Every step keeps it.
LEMMA NextInv == Suitable /\ Inv /\ [Next]_vars => Inv'
<1> SUFFICES ASSUME Suitable, Inv, [Next]_vars PROVE Inv'
  OBVIOUS
<1>1. CASE \E call \in Calls : Associate(call[1], call[2], call[3], call[4])
  BY <1>1, AssociateInv
<1>2. CASE \E call \in Standard : AssociateStd(call[1], call[2])
  <2>1. PICK call \in Standard : AssociateStd(call[1], call[2])
    BY <1>2
  <2>2. call[1] \in Vars /\ call[2] \in Dirs
    BY ChannelsAssumption
  <2> QED BY <2>1, <2>2, AssociateStdInv
<1>3. CASE \E v \in Vars : Write(v) \/ Read(v) \/ Detach(v)
  BY <1>3, WriteInv, ReadInv, DetachInv
<1>4. CASE \E c \in Chans : Endfile(c) \/ Eject(c)
  BY <1>4, EndfileKept, EjectInv
<1>5. CASE EndfileDone
  BY <1>5, EndfileDoneInv
<1>6. CASE \E why \in {"end", "chain"} : CloseAll(why)
  BY <1>6, CloseAllKept
<1>7. CASE CloseNext
  BY <1>7, CloseNextInv
<1>8. CASE CloseAllDone
  BY <1>8, CloseAllDoneInv
<1>9. CASE oswait
  BY <1>9, oswaitInv
<1>10. CASE \E p \in Pids : Exits(p)
  BY <1>10, ExitsInv
<1>11. CASE UNCHANGED vars
  <2>1. w' = w /\ op' = op
    BY <1>11 DEF vars
  <2> QED BY <2>1 DEF Inv, Shape, OpType, Table, Filled, Apart, Attached, Live, Files, OnChain, Chained,
                      AllSane, Reached, Sane, Opened, Shut, Owned, OwnPid, AwaitedNow, Closing,
                      EndfileInv, CloseAllInv
<1> QED BY <1>1, <1>2, <1>3, <1>4, <1>5, <1>6, <1>7, <1>8, <1>9, <1>10, <1>11 DEF Next

\* The invariant holds: what the table, the files and a call in progress say of each
\* other, after any sequence of calls.
THEOREM Invariance == Suitable => (Spec => []Inv)
<1>1. Init => Inv
  BY InitInv
<1>2. Suitable /\ Inv /\ [Next]_vars => Inv'
  BY NextInv
<1>3. ASSUME Suitable PROVE Spec => []Inv
  <2>1. Inv /\ [Next]_vars => Inv'
    BY <1>2, <1>3
  <2> QED BY <1>1, <2>1, PTL DEF Spec
<1> QED BY <1>3

\* Each descriptor that is open belongs to one open ioblk, and each open ioblk has
\* its descriptor: osopen, ospipe and osclose neither lose nor share any, whichever
\* part of INPUT or OUTPUT fails.
THEOREM FdsOwnedHolds == Suitable => (Spec => []FdsOwned)
<1>1. Inv => FdsOwned
  <2> SUFFICES ASSUME Inv, op.at \notin Ends PROVE FdsOwned
    BY DEF FdsOwned
  <2>1. Files(w, 0, AwaitedNow)
    BY DEF Inv
  <2>2. \A i \in Open : i \in Iobs /\ w.iob[i].opn /\ Sane(w, i, AwaitedNow)
    BY <2>1, ChannelsAssumption DEF Open, Files, OnChain, AllSane, Reached
  <2>3. \A d \in Fds : w.fds[d] # Closed => \E i \in Open : w.iob[i].fd = d
    BY <2>1 DEF Open, Files, Owned
  <2>4. \A i \in Open : w.iob[i].fd \in Fds => \A j \in Open \ {i} : w.iob[j].fd # w.iob[i].fd
    BY <2>1 DEF Open, Files, Owned
  <2>5. \A i \in Open : w.iob[i].fd \in Fds => w.fds[w.iob[i].fd] = IF w.iob[i].pip THEN w.iob[i].pid ELSE 0
    BY <2>2 DEF Sane, Opened
  <2> QED BY <2>3, <2>4, <2>5 DEF FdsOwned
<1>2. ASSUME Suitable PROVE Spec => []FdsOwned
  <2>1. Spec => []Inv
    BY <1>2, Invariance
  <2> QED BY <1>1, <2>1, PTL
<1> QED BY <1>2

\* Every associated variable is on the chain of its block, where s_enf looks for
\* those to detach.
THEOREM DetachableHolds == Suitable => (Spec => []Detachable)
<1>1. Inv => Detachable
  BY DEF Inv, Table, Attached, Detachable
<1>2. ASSUME Suitable PROVE Spec => []Detachable
  <2>1. Spec => []Inv
    BY <1>2, Invariance
  <2> QED BY <1>1, <2>1, PTL
<1> QED BY <1>2

\* oswait notes the death of a process in the ioblk of its pipe, and of no other.
THEOREM RememberedHolds == Suitable => (Spec => []Remembered)
<1>1. Inv => Remembered
  <2> SUFFICES ASSUME Inv, op.at \notin Ends, NEW i \in Open, w.iob[i].pip
               PROVE  w.iob[i].ded <=> w.child[w.iob[i].pid].state = "reaped"
    BY DEF Remembered
  <2>1. Sane(w, i, AwaitedNow) /\ w.iob[i].opn
    BY ChannelsAssumption DEF Inv, Files, OnChain, AllSane, Reached, Open
  <2> QED BY <2>1 DEF Sane, Opened
<1>2. ASSUME Suitable PROVE Spec => []Remembered
  <2>1. Spec => []Inv
    BY <1>2, Invariance
  <2> QED BY <1>1, <2>1, PTL
<1> QED BY <1>2

\* close_all leaves no output in a buffer: every ioblk that holds some is on r_fcb.
THEOREM FlushedAtEndHolds == Suitable => (Spec => []FlushedAtEnd)
<1>1. Inv => FlushedAtEnd
  BY DEF Inv, FlushedAtEnd
<1>2. ASSUME Suitable PROVE Spec => []FlushedAtEnd
  <2>1. Spec => []Inv
    BY <1>2, Invariance
  <2> QED BY <1>1, <2>1, PTL
<1> QED BY <1>2
=============================================================================
