------------------------------ MODULE CallsProofs ------------------------------
(***************************************************************************)
(* That control always finds its way back through what is stacked, until   *)
(* one of faults happens: the properties of Calls follow from an           *)
(* invariant, Inv, that every step keeps that adds nothing to faults.  It  *)
(* says of every failure offset up to flptr what the words below it are    *)
(* (Linked): those of a bracket, of an evaluation, of a call or of a       *)
(* trace, and that the place they lead back to can go on from what is      *)
(* below them (Context), whatever happens above.                           *)
(***************************************************************************)
EXTENDS Calls, Induction, FiniteSetTheorems

-----------------------------------------------------------------------------
(***************************************************************************)
(* The inductive invariant.                                                *)
(***************************************************************************)
Places  == [at : {"body", "goto", "trace"}, path : Seq(Nat) \ {<<>>}]
Offsets == {<<"cdfal">>, <<"exflc">>, <<"zero">>} \cup ({"gof", "fif"} \X Complex)
           \cup ({"bracket"} \X Blocks \X Places)
Words   == ({"val"} \X Values) \cup ({"adr"} \X Nat) \cup ({"off"} \X Offsets)
           \cup ({"blk"} \X (Blocks \cup {trxdc})) \cup ({"cp"} \X Places)
           \cup ({"pf"} \X Functions) \cup {Other}

\* What the failure offset is where flptr is, at place c of block b.
Awaited(b, c) ==
    IF Len(c.path) > 1 THEN <<"bracket", b, Close(c)>>
    ELSE IF b = trxdc THEN <<"zero">>
    ELSE IF b \in Exprs THEN <<"exflc">>
    ELSE IF c.at = "goto" THEN <<"fif", b>> ELSE FailOffset(b)

\* Place c of block b can go on, when flptr is q and n the top of stack s.
Clean(s, q, n) == \A i \in q + 1 .. n : s[i][1] # "off"
Context(s, b, c, q, n) ==
    /\ b \in Blocks \cup {trxdc} /\ c \in Places /\ q \in Nat \ {0} /\ n \in Nat
    /\ q + Count(c) <= n
    /\ Len(c.path) > 1 \/ b \notin Stmts => n = q + Count(c)
    /\ b = trxdc => Len(c.path) = 1
    /\ s[q] = Off(Awaited(b, c))
    /\ \A i \in n - Count(c) + 1 .. n : s[i][1] = "val"
    /\ Clean(s, q, n)

\* The frame of a call ends at p; the last one before p is at m.
IsCall(s, p) == p > 1 /\ s[p][1] = "off" /\ s[p - 1][1] = "pf"
LastCall(s, m, p) ==
    /\ m \in 0 .. p - 1 /\ (m # 0 => IsCall(s, m))
    /\ \A i \in m + 1 .. p - 1 : ~IsCall(s, i)
CallsTo(s, n) == {p \in 1 .. n : IsCall(s, p)}

\* What the words below a failure offset, at p, are.
Bracketed(s, p) ==
    /\ p > 2 /\ s[p - 1][1] = "adr" /\ s[p - 1][2] \in 1 .. p - 2
    /\ s[s[p - 1][2]][1] = "off" /\ Clean(s, s[p - 1][2], p - 1)
Evaluated(s, p) ==
    /\ p > 6 /\ s[p - 1] = Other /\ s[p - 2][1] = "adr" /\ s[p - 3][1] = "cp" /\ s[p - 4][1] = "blk"
    /\ s[p - 5] = Other /\ s[p - 4][2] \in Blocks
    /\ Context(s, s[p - 4][2], s[p - 3][2], s[p - 2][2], p - 6)
Size(f) == Len(Names[f]) - 1
Called(s, p) ==
    /\ p > 8 /\ s[p - 1][1] = "pf" /\ s[p - 1][2] \in Functions
    /\ s[p - 2][1] = "adr" /\ s[p - 3][1] = "adr" /\ s[p - 4][1] = "cp" /\ s[p - 5][1] = "blk"
    /\ s[p - 6][1] = "val" /\ s[p - 7] = Other /\ Size(s[p - 1][2]) < p - 8
    /\ \A i \in p - 7 - Size(s[p - 1][2]) .. p - 8 : s[i][1] = "val"
    /\ LastCall(s, s[p - 3][2], p)
    /\ Context(s, s[p - 5][2], s[p - 4][2], s[p - 2][2], p - 8 - Size(s[p - 1][2]))
Traced(s, p) ==
    /\ p > 8 /\ s[p - 1][1] = "adr" /\ s[p - 2][1] = "cp" /\ s[p - 3][1] = "blk"
    /\ \A i \in p - 7 .. p - 4 : s[i] = Other
    /\ s[p - 3][2] \in Blocks
    /\ Context(s, s[p - 3][2], s[p - 2][2], s[p - 1][2], p - 8)

\* Failure offset o may be at p; and goes on in block b.
Meets(s, p, o) ==
    /\ o[1] = "bracket" => Bracketed(s, p) /\ Context(s, o[2], o[3], s[p - 1][2], p - 2)
    /\ o = <<"exflc">> => Evaluated(s, p)
    /\ o = <<"zero">> => Traced(s, p)
Leads(b, o) ==
    \/ b \in Simple /\ o = <<"cdfal">>
    \/ b \in Complex /\ o = <<"gof", b>>
    \/ b \in Stmts /\ o = <<"fif", b>>
    \/ b \in Exprs /\ o = <<"exflc">>
    \/ b = trxdc /\ o = <<"zero">>
    \/ o[1] = "bracket" /\ o[2] = b

\* Every failure offset of the stack up to flptr fl.
Linked(s, p) ==
    /\ p = 1 \/ Bracketed(s, p) \/ Evaluated(s, p) \/ Called(s, p) \/ Traced(s, p)
    /\ Meets(s, p, s[p][2])
Chained(s, fl) ==
    /\ fl \in 1 .. Len(s) /\ s[fl][1] = "off"
    /\ \A p \in 1 .. fl : s[p][1] = "off" => Linked(s, p)

Typed ==
    /\ prog \in Programs /\ stack \in Seq(Words)
    /\ flptr <= prog.stack /\ Len(stack) <= prog.stack + 1
    /\ r_cod \in Blocks \cup {trxdc} /\ cp \in Places
    /\ vars \in [Vars -> Values] /\ kverl \in Nat /\ r_sxc \in Stmts \cup {None}
    /\ kvtra \in BOOLEAN /\ level \in Nat
    /\ r_cnt = NoError \/ r_cnt \in [blk : Blocks \cup {trxdc}, off : Offsets, at : Places]

Calling ==
    /\ LastCall(stack, flprt, flptr + 1)
    /\ kvfnc = Cardinality(CallsTo(stack, flptr)) /\ kvfnc <= prog.level

\* What each routine finds.
AtInterrupt ==
    r_cod \in Stmts /\ cp = Start("body") /\ stack[flptr] = Off(FailOffset(r_cod))
AtError == Leads(r_cod, stack[flptr][2]) /\ (r_cod = trxdc => stage = "xt" /\ r_sxc = None)
Landed == Len(stack) = flptr
AtBracket ==
    Landed /\ Bracketed(stack, flptr) /\ Context(stack, r_cod, cp, stack[flptr - 1][2], flptr - 2)
Controlled ==
    \/ ctl = "run" /\ Context(stack, r_cod, cp, flptr, Len(stack))
    \/ ctl = "interrupt" /\ AtInterrupt
    \/ ctl = "exfal" /\ Leads(r_cod, stack[flptr][2])
    \/ ctl \in {"error", "syntax"} /\ AtError
    \/ ctl = "err07" /\ AtError /\ kverl > 0
    \/ ctl = "continue" /\ AtError /\ r_cnt # NoError /\ r_cnt.blk = r_cod /\ stack[flptr] = Off(r_cnt.off)
    \/ ctl = "end" /\ Landed /\ r_cod \in Simple /\ stack[flptr] = Off(<<"cdfal">>)
    \/ ctl = "gof" /\ Landed /\ r_cod \in Complex /\ stack[flptr] = Off(<<"gof", r_cod>>) /\ cp = Start("goto")
    \/ ctl = "fex" /\ Landed /\ r_cod \in Exprs /\ Evaluated(stack, flptr)
    \/ ctl = "txr" /\ Landed /\ r_cod = trxdc
    \/ ctl = "bracket" /\ AtBracket
    \/ ctl = "stop"

\* Where stage says that an error is to be looked for.
Evaluates(p) == stack[p][1] = "off" /\ Evaluated(stack, p) /\ stack[p - 2] = Adr(gtcef) /\ stack[p - 4] = Blk(r_gtc)
InStage ==
    \/ stage = "xt"
    \/ stage \in {"ev", "xc"} /\ ctl = "syntax" /\ gtcef = flptr /\ r_gtc = r_cod /\ flptr # flprt
    \/ stage = "ee" /\ \E p \in 1 .. flptr : Evaluates(p)

\* The frame of a trace, and that of its function.
IsTrace(s, p) == s[p] = Off(<<"zero">>)
TraceCall(s, p, q) == p < q - 5 /\ IsCall(s, q) /\ s[q - 2] = Adr(p) /\ s[q - 5] = Blk(trxdc)
TracesAre(s, fl, b, on, traced) ==
    /\ on => traced /\ \A p \in 1 .. fl : ~IsTrace(s, p)
    /\ traced /\ ~on <=> \E p \in 1 .. fl : IsTrace(s, p)
    /\ \A p, q \in 1 .. fl : IsTrace(s, p) /\ IsTrace(s, q) => p = q
    /\ IsTrace(s, fl) <=> b = trxdc
    /\ \A p \in 1 .. fl - 1 : IsTrace(s, p) => \E q \in 1 .. fl : TraceCall(s, p, q)
    /\ \A i \in 1 .. Len(s) : s[i] = Blk(trxdc) => i + 5 <= fl /\ IsCall(s, i + 5)
InTrace == TracesAre(stack, flptr, r_cod, kvtra, prog.trace)

\* Where CONTINUE would go is still there.
InTrap ==
    /\ r_cnt # NoError /\ level # 0 =>
          level <= flptr /\ stack[level][1] = "off" /\ Leads(r_cnt.blk, r_cnt.off) /\ Meets(stack, level, r_cnt.off)
    /\ r_cnt # NoError /\ r_cnt.blk = trxdc => ctl = "continue"
    /\ kvert = "interrupt" =>
          /\ ctl = "err07" => AtInterrupt
          /\ r_cnt # NoError /\ ctl \notin {"err07", "stop"} =>
                r_cnt.blk \in Stmts /\ r_cnt.at = Start("body") /\ r_cnt.off = FailOffset(r_cnt.blk)

Inv == /\ Typed /\ Chained(stack, flptr) /\ Calling /\ Controlled
       /\ InStage /\ InTrace /\ InTrap
-----------------------------------------------------------------------------
(***************************************************************************)
(* Places in the code, words of the stack and failure offsets.             *)
(***************************************************************************)

\* The blocks are of three kinds, and trxdc and None are none of them.
LEMMA BlocksAre ==
    /\ Simple \cap Complex = {} /\ Exprs \cap Stmts = {} /\ trxdc \notin Blocks /\ None \notin Blocks
    /\ Simple \subseteq Stmts /\ Complex \subseteq Stmts /\ Stmts \subseteq Blocks /\ Exprs \subseteq Blocks
    /\ Blocks = Stmts \cup Exprs /\ Stmts = Simple \cup Complex
  BY CallsAssumption DEF Blocks, Stmts

\* A place with another path.
LEMMA PathSet ==
    ASSUME NEW c \in Places, NEW x
    PROVE  [c EXCEPT !.path = x] = [at |-> c.at, path |-> x]
<1>1. c = [at |-> c.at, path |-> c.path]
  BY DEF Places
<1> QED BY <1>1

\* Two sequences that begin alike.
LEMMA SamePrefix ==
    ASSUME NEW S, NEW a \in Seq(S), NEW b \in Seq(S), NEW n \in Nat, n <= Len(a), n <= Len(b),
           \A i \in 1 .. n : a[i] = b[i]
    PROVE  SubSeq(a, 1, n) = SubSeq(b, 1, n)
<1>1. SubSeq(a, 1, n) \in Seq(S) /\ SubSeq(b, 1, n) \in Seq(S) /\ Len(SubSeq(a, 1, n)) = n /\ Len(SubSeq(b, 1, n)) = n
  OBVIOUS
<1>2. \A i \in 1 .. n : SubSeq(a, 1, n)[i] = a[i] /\ SubSeq(b, 1, n)[i] = b[i]
  OBVIOUS
<1>3. PICK u \in Seq(S) : u = SubSeq(a, 1, n)
  BY <1>1
<1>4. PICK v \in Seq(S) : v = SubSeq(b, 1, n)
  BY <1>1
<1>5. u \in Seq(S) /\ v \in Seq(S) /\ Len(u) = n /\ Len(v) = n
  BY <1>1, <1>3, <1>4
<1>6. \A i \in 1 .. n : u[i] = v[i]
  BY <1>2, <1>3, <1>4
<1>7. u = v
  BY <1>5, <1>6
<1> QED BY <1>3, <1>4, <1>7

\* A place has operands before it in each bracket; to add to those of the last one
\* leaves the rest.
LEMMA PlaceOperands ==
    ASSUME NEW c \in Places, NEW n \in Int, Count(c) + n >= 0
    PROVE  /\ Operands(c, n) \in Places /\ Count(Operands(c, n)) = Count(c) + n
           /\ Operands(c, n).at = c.at /\ Len(Operands(c, n).path) = Len(c.path)
           /\ \A b : Awaited(b, Operands(c, n)) = Awaited(b, c)
<1> DEFINE p == c.path
           k == Len(c.path)
           d == Operands(c, n)
<1>1. c = [at |-> c.at, path |-> p] /\ c.at \in {"body", "goto", "trace"} /\ p \in Seq(Nat) /\ p # <<>>
  BY DEF Places
<1>2. k \in Nat \ {0} /\ p \in [1 .. k -> Nat] /\ k \in 1 .. k /\ p[k] + n \in Nat
  BY <1>1 DEF Count
<1>3. d.at = c.at /\ d.path = [p EXCEPT ![k] = p[k] + n] /\ d = [at |-> c.at, path |-> d.path]
  BY <1>1 DEF Operands
<1>4. d.path \in Seq(Nat) /\ Len(d.path) = k /\ d.path # <<>>
  BY <1>1, <1>2, <1>3
<1>5. Count(d) = Count(c) + n
  BY <1>2, <1>3, <1>4 DEF Count
<1>6. d \in Places
  BY <1>1, <1>3, <1>4 DEF Places
<1>7. k > 1 => Close(d) = Close(c)
  <2>1. SubSeq(d.path, 1, k - 1) = SubSeq(p, 1, k - 1)
    <3>1. \A i \in 1 .. k - 1 : d.path[i] = p[i]
      BY <1>2, <1>3
    <3>2. PICK a, b, n0 : a = d.path /\ b = p /\ n0 = k - 1
      OBVIOUS
    <3>3. a \in Seq(Nat) /\ b \in Seq(Nat) /\ n0 \in Nat /\ n0 <= Len(a) /\ n0 <= Len(b) /\ \A i \in 1 .. n0 : a[i] = b[i]
      BY <1>1, <1>2, <1>4, <3>1, <3>2
    <3> HIDE DEF d, p, k
    <3> QED BY <3>2, <3>3, SamePrefix
  <2>2. Front(d.path) = Front(p)
    BY <1>4, <2>1 DEF Front
  <2>3. Close(d) = [at |-> d.at, path |-> Front(d.path)] /\ Close(c) = [at |-> c.at, path |-> Front(p)]
    BY <1>6, PathSet DEF Close
  <2> QED BY <1>3, <2>2, <2>3
<1>8. \A b : Awaited(b, d) = Awaited(b, c)
  BY <1>3, <1>4, <1>7 DEF Awaited
<1> QED BY <1>3, <1>4, <1>5, <1>6, <1>8

\* To add none.
LEMMA NoOperands ==
    ASSUME NEW c \in Places PROVE Operands(c, 0) = c /\ Count(c) \in Nat /\ Len(c.path) \in Nat \ {0}
<1>1. c = [at |-> c.at, path |-> c.path] /\ c.path \in Seq(Nat) /\ c.path # <<>>
  BY DEF Places
<1>2. Len(c.path) \in Nat \ {0} /\ Len(c.path) \in 1 .. Len(c.path) /\ Count(c) \in Nat
  BY <1>1 DEF Count
<1>3. [c.path EXCEPT ![Len(c.path)] = @ + 0] = c.path
  BY <1>1, <1>2
<1> QED BY <1>1, <1>2, <1>3 DEF Operands

\* A bracket is opened.
LEMMA PlaceOpen ==
    ASSUME NEW c \in Places
    PROVE  Open(c) \in Places /\ Len(Open(c).path) > 1 /\ Close(Open(c)) = c /\ Count(Open(c)) = 0
<1>1. c = [at |-> c.at, path |-> c.path] /\ c.path \in Seq(Nat) /\ c.path # <<>> /\ c.at \in {"body", "goto", "trace"}
  BY DEF Places
<1>2. Open(c) = [at |-> c.at, path |-> Append(c.path, 0)] /\ Open(c).path = Append(c.path, 0)
  BY PathSet DEF Open
<1>3. Append(c.path, 0) \in Seq(Nat) /\ Len(Append(c.path, 0)) = Len(c.path) + 1 /\ Len(c.path) \in Nat \ {0}
  BY <1>1
<1>4. Front(Append(c.path, 0)) = c.path
  BY <1>1, <1>3 DEF Front
<1>5. Append(c.path, 0)[Len(c.path) + 1] = 0 /\ Append(c.path, 0) # <<>>
  BY <1>1, <1>3
<1>6. Open(c) \in Places /\ Len(Open(c).path) > 1 /\ Count(Open(c)) = 0
  BY <1>1, <1>2, <1>3, <1>5 DEF Count, Places
<1>7. Close(Open(c)) = c
  BY <1>1, <1>2, <1>4, <1>6, PathSet DEF Close
<1> QED BY <1>6, <1>7

\* A bracket is closed.
LEMMA PlaceClose ==
    ASSUME NEW c \in Places, Len(c.path) > 1
    PROVE  Close(c) \in Places
<1>1. c = [at |-> c.at, path |-> c.path] /\ c.path \in Seq(Nat) /\ c.path # <<>> /\ c.at \in {"body", "goto", "trace"}
  BY DEF Places
<1>2. Front(c.path) \in Seq(Nat) /\ Len(Front(c.path)) = Len(c.path) - 1
  BY <1>1 DEF Front
<1>3. Front(c.path) # <<>>
  BY <1>1, <1>2
<1>4. Close(c) = [at |-> c.at, path |-> Front(c.path)]
  BY PathSet DEF Close
<1> QED BY <1>1, <1>2, <1>3, <1>4 DEF Places

\* The first place of a body, a failure goto or trxdc.
LEMMA PlaceStart ==
    ASSUME NEW at \in {"body", "goto", "trace"}
    PROVE  /\ Start(at) \in Places /\ Count(Start(at)) = 0 /\ Len(Start(at).path) = 1
           /\ Start(at).at = at /\ Start(at).path = <<0>>
<1>1. <<0>> \in Seq(Nat) /\ Len(<<0>>) = 1 /\ <<0>>[1] = 0 /\ <<0>> # <<>>
  OBVIOUS
<1> QED BY <1>1 DEF Start, Places, Count

\* What is stacked is a word.
LEMMA WordsAre ==
    /\ \A v \in Values : Val(v) \in Words
    /\ \A a \in Nat : Adr(a) \in Words
    /\ \A o \in Offsets : Off(o) \in Words
    /\ \A b \in Blocks \cup {trxdc} : Blk(b) \in Words
    /\ \A c \in Places : Cp(c) \in Words
    /\ \A f \in Functions : Pf(f) \in Words
    /\ Other \in Words
  BY DEF Words, Val, Adr, Off, Blk, Cp, Pf

\* What a word is, its kind tells.
LEMMA WordKinds ==
    ASSUME NEW w \in Words
    PROVE  /\ w[1] \in {"val", "adr", "off", "blk", "cp", "pf", "other"}
           /\ w[1] = "val" => w = Val(w[2]) /\ w[2] \in Values
           /\ w[1] = "adr" => w = Adr(w[2]) /\ w[2] \in Nat
           /\ w[1] = "off" => w = Off(w[2]) /\ w[2] \in Offsets
           /\ w[1] = "blk" => w = Blk(w[2]) /\ w[2] \in Blocks \cup {trxdc}
           /\ w[1] = "cp" => w = Cp(w[2]) /\ w[2] \in Places
           /\ w[1] = "pf" => w = Pf(w[2]) /\ w[2] \in Functions
           /\ w[1] = "other" => w = Other
<1>1. CASE w \in {"val"} \X Values
  BY <1>1 DEF Val
<1>2. CASE w \in {"adr"} \X Nat
  BY <1>2 DEF Adr
<1>3. CASE w \in {"off"} \X Offsets
  BY <1>3 DEF Off
<1>4. CASE w \in {"blk"} \X (Blocks \cup {trxdc})
  BY <1>4 DEF Blk
<1>5. CASE w \in {"cp"} \X Places
  BY <1>5 DEF Cp
<1>6. CASE w \in {"pf"} \X Functions
  BY <1>6 DEF Pf
<1>7. CASE w = Other
  BY <1>7 DEF Other
<1> QED BY <1>1, <1>2, <1>3, <1>4, <1>5, <1>6, <1>7 DEF Words

\* The parts of a word.
LEMMA WordParts ==
    /\ \A v : Val(v)[1] = "val" /\ Val(v)[2] = v
    /\ \A a : Adr(a)[1] = "adr" /\ Adr(a)[2] = a
    /\ \A o : Off(o)[1] = "off" /\ Off(o)[2] = o
    /\ \A b : Blk(b)[1] = "blk" /\ Blk(b)[2] = b
    /\ \A c : Cp(c)[1] = "cp" /\ Cp(c)[2] = c
    /\ \A f : Pf(f)[1] = "pf" /\ Pf(f)[2] = f
    /\ Other[1] = "other"
  BY DEF Val, Adr, Off, Blk, Cp, Pf, Other

\* The failure offsets there are.
LEMMA OffsetsAre ==
    /\ <<"cdfal">> \in Offsets /\ <<"exflc">> \in Offsets /\ <<"zero">> \in Offsets
    /\ \A b \in Complex : <<"gof", b>> \in Offsets /\ <<"fif", b>> \in Offsets
    /\ \A b \in Blocks, c \in Places : <<"bracket", b, c>> \in Offsets
    /\ \A b \in Stmts : FailOffset(b) \in Offsets
  BY DEF Offsets, FailOffset, Stmts

\* The end of a bracket is at a place of a block.
LEMMA OffsetKinds ==
    ASSUME NEW o \in Offsets, o[1] = "bracket"
    PROVE  o[2] \in Blocks /\ o[3] \in Places /\ o = <<"bracket", o[2], o[3]>>
<1>1. CASE o \in {<<"cdfal">>, <<"exflc">>, <<"zero">>}
  BY <1>1
<1>2. CASE o \in {"gof", "fif"} \X Complex
  BY <1>2
<1>3. CASE o \in {"bracket"} \X Blocks \X Places
  BY <1>3
<1> QED BY <1>1, <1>2, <1>3 DEF Offsets

\* The parts of a failure offset.
LEMMA OffsetParts ==
    /\ <<"cdfal">>[1] = "cdfal" /\ <<"exflc">>[1] = "exflc" /\ <<"zero">>[1] = "zero"
    /\ \A b : <<"gof", b>>[1] = "gof" /\ <<"gof", b>>[2] = b
    /\ \A b : <<"fif", b>>[1] = "fif" /\ <<"fif", b>>[2] = b
    /\ \A b, c : <<"bracket", b, c>>[1] = "bracket" /\ <<"bracket", b, c>>[2] = b /\ <<"bracket", b, c>>[3] = c
    /\ \A b : FailOffset(b)[1] \in {"cdfal", "gof"}
  BY DEF FailOffset

-----------------------------------------------------------------------------
(***************************************************************************)
(* What is said of a stack up to a place is true of every stack that is    *)
(* the same up to there.                                                   *)
(***************************************************************************)
Same(s, t, n) == \A i \in 1 .. n : t[i] = s[i]

\* A place can go on with the same words.
LEMMA SameContext ==
    ASSUME NEW s, NEW t, NEW b, NEW c, NEW q, NEW n, Context(s, b, c, q, n), Same(s, t, n)
    PROVE  Context(t, b, c, q, n)
<1>1. q \in 1 .. n /\ n \in Nat /\ Count(c) \in Nat /\ q + Count(c) <= n
  BY NoOperands DEF Context
<1>2. \A i \in n - Count(c) + 1 .. n : t[i] = s[i]
  BY <1>1 DEF Same
<1>3. \A i \in q + 1 .. n : t[i] = s[i]
  BY <1>1 DEF Same
<1>4. t[q] = s[q]
  BY <1>1 DEF Same
<1> QED BY <1>2, <1>3, <1>4 DEF Context, Clean

\* A bracket is one with the same words below.
LEMMA SameBracketed ==
    ASSUME NEW s, NEW t, NEW p \in Nat, Bracketed(s, p), Same(s, t, p - 1)
    PROVE  Bracketed(t, p)
<1>1. p > 2 /\ p - 1 \in 1 .. p - 1 /\ t[p - 1] = s[p - 1]
  BY DEF Bracketed, Same
<1>2. PICK q \in 1 .. p - 2 : q = s[p - 1][2]
  BY DEF Bracketed
<1>3. \A i \in q .. p - 1 : t[i] = s[i]
  BY <1>1, <1>2 DEF Same
<1>4. t[q] = s[q] /\ \A i \in q + 1 .. p - 1 : t[i] = s[i]
  BY <1>1, <1>2, <1>3
<1> QED BY <1>1, <1>2, <1>4 DEF Bracketed, Clean

\* So is an evaluation.
LEMMA SameEvaluated ==
    ASSUME NEW s, NEW t, NEW p \in Nat, Evaluated(s, p), Same(s, t, p - 1)
    PROVE  Evaluated(t, p)
<1>1. p > 6 /\ \A i \in p - 5 .. p - 1 : t[i] = s[i]
  BY DEF Evaluated, Same
<1>2. t[p - 1] = s[p - 1] /\ t[p - 2] = s[p - 2] /\ t[p - 3] = s[p - 3] /\ t[p - 4] = s[p - 4] /\ t[p - 5] = s[p - 5]
  BY <1>1
<1>3. Same(s, t, p - 6)
  BY <1>1 DEF Same
<1>4. Context(s, s[p - 4][2], s[p - 3][2], s[p - 2][2], p - 6)
  BY DEF Evaluated
<1>5. Context(t, s[p - 4][2], s[p - 3][2], s[p - 2][2], p - 6)
  BY <1>3, <1>4, SameContext
<1> QED BY <1>1, <1>2, <1>5 DEF Evaluated

\* So is a trace.
LEMMA SameTraced ==
    ASSUME NEW s, NEW t, NEW p \in Nat, Traced(s, p), Same(s, t, p - 1)
    PROVE  Traced(t, p)
<1>1. p > 8 /\ \A i \in p - 7 .. p - 1 : t[i] = s[i]
  BY DEF Traced, Same
<1>2. t[p - 1] = s[p - 1] /\ t[p - 2] = s[p - 2] /\ t[p - 3] = s[p - 3] /\ \A i \in p - 7 .. p - 4 : t[i] = s[i]
  BY <1>1
<1>3. Same(s, t, p - 8)
  BY <1>1 DEF Same
<1>4. Context(s, s[p - 3][2], s[p - 2][2], s[p - 1][2], p - 8)
  BY DEF Traced
<1>5. Context(t, s[p - 3][2], s[p - 2][2], s[p - 1][2], p - 8)
  BY <1>3, <1>4, SameContext
<1> QED BY <1>1, <1>2, <1>5 DEF Traced

\* A call is one with the same words below, whatever the offset.
LEMMA SameCall ==
    ASSUME NEW s, NEW t, NEW p \in Nat, Same(s, t, p - 1), s[p][1] = "off", t[p][1] = "off"
    PROVE  IsCall(s, p) <=> IsCall(t, p)
<1>1. p > 1 => p - 1 \in 1 .. p - 1
  OBVIOUS
<1> QED BY <1>1 DEF IsCall, Same

\* The calls up to a place.
LEMMA SameCalls ==
    ASSUME NEW s, NEW t, NEW n \in Nat, Same(s, t, n)
    PROVE  \A p \in 1 .. n : IsCall(s, p) <=> IsCall(t, p)
<1>1. ASSUME NEW p \in 1 .. n PROVE IsCall(s, p) <=> IsCall(t, p)
  <2>1. p > 1 => p - 1 \in 1 .. n
    OBVIOUS
  <2> QED BY <2>1 DEF IsCall, Same
<1> QED BY <1>1

\* The last call before a place.
LEMMA SameLastCall ==
    ASSUME NEW s, NEW t, NEW p \in Nat \ {0}, NEW m, LastCall(s, m, p), Same(s, t, p - 1)
    PROVE  LastCall(t, m, p)
<1>1. m \in 0 .. p - 1 /\ (m # 0 => m \in 1 .. p - 1) /\ \A i \in m + 1 .. p - 1 : i \in 1 .. p - 1
  BY DEF LastCall
<1>2. \A i \in 1 .. p - 1 : IsCall(s, i) <=> IsCall(t, i)
  BY SameCalls
<1> QED BY <1>1, <1>2 DEF LastCall

\* The last call up to flptr fl.
LEMMA LastOf ==
    ASSUME NEW s, NEW k, NEW fl \in Nat
    PROVE  LastCall(s, k, fl + 1) <=>
              k \in 0 .. fl /\ (k # 0 => IsCall(s, k)) /\ \A i \in k + 1 .. fl : ~IsCall(s, i)
<1>1. fl + 1 - 1 = fl
  OBVIOUS
<1> QED BY <1>1 DEF LastCall

\* How much a call keeps of the values of its names.
LEMMA SizeIs ==
    \A f \in Functions :
       /\ Size(f) \in Nat /\ Len(Names[f]) = 1 + Len(Params[f]) + Len(Locals[f])
       /\ Names[f] \in Seq(Vars)
       /\ Len(Params[f]) \in Nat /\ Len(Locals[f]) \in Nat
<1> SUFFICES ASSUME NEW f \in Functions
             PROVE  /\ Size(f) \in Nat /\ Len(Names[f]) = 1 + Len(Params[f]) + Len(Locals[f])
                    /\ Names[f] \in Seq(Vars)
                    /\ Len(Params[f]) \in Nat /\ Len(Locals[f]) \in Nat
  OBVIOUS
<1>1. Params[f] \in Seq(Vars) /\ Locals[f] \in Seq(Vars) /\ <<f>> \in Seq(Vars) /\ Len(<<f>>) = 1
  BY CallsAssumption
<1>2. <<f>> \o Params[f] \in Seq(Vars) /\ Len(<<f>> \o Params[f]) = 1 + Len(Params[f])
  BY <1>1
<1>3. Names[f] = <<f>> \o Params[f] \o Locals[f]
  BY DEF Names
<1>4. Names[f] \in Seq(Vars) /\ Len(Names[f]) = 1 + Len(Params[f]) + Len(Locals[f])
  BY <1>1, <1>2, <1>3
<1>5. Len(Params[f]) \in Nat /\ Len(Locals[f]) \in Nat
  BY <1>1
<1>6. ASSUME NEW a \in Nat, NEW b \in Nat PROVE 1 + a + b - 1 \in Nat
  OBVIOUS
<1>7. Size(f) = 1 + Len(Params[f]) + Len(Locals[f]) - 1
  BY <1>4 DEF Size
<1> QED BY <1>4, <1>5, <1>6, <1>7

\* A frame of a call is one with the same words below.
LEMMA SameCalled ==
    ASSUME NEW s, NEW t, NEW p \in Nat, Called(s, p), Same(s, t, p - 1)
    PROVE  Called(t, p)
<1>1. PICK k \in Nat : k = Size(s[p - 1][2]) /\ k < p - 8
  BY SizeIs DEF Called
<1>2. p > 8 /\ \A i \in p - 7 - k .. p - 1 : t[i] = s[i]
  BY <1>1 DEF Called, Same
<1>3. t[p - 1] = s[p - 1] /\ t[p - 2] = s[p - 2] /\ t[p - 3] = s[p - 3] /\ t[p - 4] = s[p - 4] /\ t[p - 5] = s[p - 5]
      /\ t[p - 6] = s[p - 6] /\ t[p - 7] = s[p - 7] /\ \A i \in p - 7 - k .. p - 8 : t[i] = s[i]
  BY <1>1, <1>2
<1>4. Same(s, t, p - 8 - k)
  BY <1>1, <1>2 DEF Same
<1>5. Context(s, s[p - 5][2], s[p - 4][2], s[p - 2][2], p - 8 - k)
  BY <1>1 DEF Called
<1>6. Context(t, s[p - 5][2], s[p - 4][2], s[p - 2][2], p - 8 - k)
  BY <1>4, <1>5, SameContext
<1>7. LastCall(t, s[p - 3][2], p)
  BY <1>2, SameLastCall DEF Called
<1> QED BY <1>1, <1>3, <1>6, <1>7 DEF Called

\* A failure offset may be where the words below are the same.
LEMMA SameMeets ==
    ASSUME NEW s, NEW t, NEW p \in Nat \ {0}, NEW o, Meets(s, p, o), Same(s, t, p - 1)
    PROVE  Meets(t, p, o)
<1>1. ASSUME o[1] = "bracket"
      PROVE  Bracketed(t, p) /\ Context(t, o[2], o[3], t[p - 1][2], p - 2)
  <2>1. Bracketed(s, p) /\ Context(s, o[2], o[3], s[p - 1][2], p - 2) /\ p > 2
    BY <1>1 DEF Meets, Bracketed
  <2>2. Same(s, t, p - 2) /\ t[p - 1] = s[p - 1]
    BY <2>1 DEF Same
  <2> QED BY <2>1, <2>2, SameBracketed, SameContext
<1> QED BY <1>1, SameEvaluated, SameTraced DEF Meets

\* So it is linked there.
LEMMA SameLinked ==
    ASSUME NEW s, NEW t, NEW p \in Nat \ {0}, Linked(s, p), Same(s, t, p - 1), Meets(t, p, t[p][2])
    PROVE  Linked(t, p)
  BY SameBracketed, SameEvaluated, SameCalled, SameTraced DEF Linked

-----------------------------------------------------------------------------
(***************************************************************************)
(* The chain of the failure offsets.                                       *)
(***************************************************************************)

\* A stack that is the same below flptr, with an offset there that may be there.
LEMMA ChainTop ==
    ASSUME NEW s, NEW t, NEW fl, Chained(s, fl), Len(t) \in Nat, fl <= Len(t), Same(s, t, fl - 1),
           Len(s) \in Nat,
           t[fl][1] = "off", Meets(t, fl, t[fl][2])
    PROVE  Chained(t, fl)
<1>1. fl \in Nat \ {0} /\ fl \in 1 .. Len(s) /\ fl \in 1 .. Len(t) /\ Linked(s, fl)
  BY DEF Chained
<1>2. ASSUME NEW p \in 1 .. fl, t[p][1] = "off" PROVE Linked(t, p)
  <2>1. CASE p = fl
    BY <1>1, <2>1, SameLinked
  <2>2. CASE p # fl
    <3>1. p \in 1 .. fl - 1 /\ t[p] = s[p] /\ Same(s, t, p - 1) /\ p \in Nat \ {0}
      BY <1>1, <2>2 DEF Same
    <3>2. Linked(s, p)
      BY <1>2, <3>1 DEF Chained
    <3>3. Meets(t, p, t[p][2])
      BY <3>1, <3>2, SameMeets DEF Linked
    <3> QED BY <3>1, <3>2, <3>3, SameLinked
  <2> QED BY <2>1, <2>2
<1> QED BY <1>1, <1>2 DEF Chained

\* A stack that is the same up to flptr.
LEMMA ChainSame ==
    ASSUME NEW s, NEW t, NEW fl, Chained(s, fl), Len(s) \in Nat, Len(t) \in Nat, fl <= Len(t), Same(s, t, fl)
    PROVE  Chained(t, fl)
<1>1. fl \in Nat \ {0} /\ s[fl][1] = "off" /\ Linked(s, fl)
  BY DEF Chained
<1>2. t[fl] = s[fl] /\ Same(s, t, fl - 1)
  BY <1>1 DEF Same
<1>3. Meets(t, fl, t[fl][2])
  BY <1>1, <1>2, SameMeets DEF Linked
<1> QED BY <1>1, <1>2, <1>3, ChainTop

\* One offset more, above flptr, and none between.
LEMMA ChainPush ==
    ASSUME NEW s, NEW t, NEW fl, NEW gl \in Nat, Chained(s, fl), Len(s) \in Nat, Len(t) \in Nat,
           fl < gl, gl <= Len(t), Same(s, t, fl - 1), t[fl][1] = "off", Meets(t, fl, t[fl][2]),
           t[gl][1] = "off", Clean(t, fl, gl - 1), Linked(t, gl)
    PROVE  Chained(t, gl)
<1>1. Chained(t, fl) /\ fl \in Nat \ {0} /\ gl \in 1 .. Len(t)
  <2>1. fl \in 1 .. Len(s)
    BY DEF Chained
  <2>2. fl \in Nat \ {0} /\ fl <= Len(t) /\ gl \in 1 .. Len(t)
    BY <2>1
  <2>3. Chained(t, fl)
    BY <2>2, ChainTop
  <2> QED BY <2>2, <2>3
<1>2. ASSUME NEW p \in 1 .. gl, t[p][1] = "off" PROVE Linked(t, p)
  <2>1. p \in 1 .. fl \/ p = gl
    BY <1>1, <1>2 DEF Clean
  <2> QED BY <1>1, <1>2, <2>1 DEF Chained
<1> QED BY <1>1, <1>2 DEF Chained

\* The chain up to any of its offsets.
LEMMA ChainPop ==
    ASSUME NEW s, NEW fl, Chained(s, fl), Len(s) \in Nat, NEW q \in 1 .. fl, s[q][1] = "off"
    PROVE  Chained(s, q) /\ Linked(s, q) /\ Meets(s, q, s[q][2])
<1>1. fl \in 1 .. Len(s) /\ q \in 1 .. Len(s) /\ \A p \in 1 .. q : p \in 1 .. fl
  BY DEF Chained
<1> QED BY <1>1 DEF Chained, Linked

-----------------------------------------------------------------------------
(***************************************************************************)
(* Where execution can go on.                                              *)
(***************************************************************************)

\* What a place that can go on is.
LEMMA ContextTypes ==
    ASSUME NEW s, NEW b, NEW c, NEW q, NEW n, Context(s, b, c, q, n)
    PROVE  /\ b \in Blocks \cup {trxdc} /\ c \in Places /\ q \in Nat \ {0} /\ n \in Nat /\ Count(c) \in Nat
           /\ Len(c.path) \in Nat \ {0} /\ q + Count(c) <= n /\ q \in 1 .. n
<1>1. b \in Blocks \cup {trxdc} /\ c \in Places /\ q \in Nat \ {0} /\ n \in Nat /\ q + Count(c) <= n
  BY DEF Context
<1>2. Count(c) \in Nat /\ Len(c.path) \in Nat \ {0}
  BY <1>1, NoOperands
<1> QED BY <1>1, <1>2

\* An operand is stacked.
LEMMA ContextPush ==
    ASSUME NEW s, NEW t, NEW b, NEW c, NEW q, NEW n, Context(s, b, c, q, n), Same(s, t, n),
           t[n + 1][1] = "val"
    PROVE  Context(t, b, Operands(c, 1), q, n + 1)
<1> PICK d : d = Operands(c, 1)
  OBVIOUS
<1>1. Context(t, b, c, q, n)
  BY SameContext
<1>2. b \in Blocks \cup {trxdc} /\ c \in Places /\ q \in Nat \ {0} /\ n \in Nat /\ Count(c) \in Nat /\ q + Count(c) <= n
  BY ContextTypes
<1>3. d \in Places /\ Count(d) = Count(c) + 1 /\ Len(d.path) = Len(c.path) /\ Awaited(b, d) = Awaited(b, c)
  BY <1>2, PlaceOperands
<1>4. \A i \in n + 1 - Count(d) + 1 .. n + 1 : t[i][1] = "val"
  <2>1. \A i \in n - Count(c) + 1 .. n : t[i][1] = "val"
    BY <1>1 DEF Context
  <2>2. ASSUME NEW i \in n + 1 - Count(d) + 1 .. n + 1 PROVE i = n + 1 \/ i \in n - Count(c) + 1 .. n
    BY <1>2, <1>3
  <2> QED BY <2>1, <2>2
<1>5. Clean(t, q, n + 1)
  <2>1. \A i \in q + 1 .. n + 1 : i = n + 1 \/ i \in q + 1 .. n
    BY <1>2
  <2>2. Clean(t, q, n)
    BY <1>1 DEF Context
  <2> QED BY <2>1, <2>2 DEF Clean
<1>6. t[q] = Off(Awaited(b, d))
  BY <1>1, <1>3 DEF Context
<1>7. Len(c.path) > 1 \/ b \notin Stmts => n = q + Count(c)
  BY DEF Context
<1>8. b = trxdc => Len(c.path) = 1
  BY DEF Context
<1>9. n + 1 \in Nat /\ q + Count(d) <= n + 1 /\ (n = q + Count(c) => n + 1 = q + Count(d))
  BY <1>2, <1>3
<1>10. /\ b \in Blocks \cup {trxdc} /\ d \in Places /\ q \in Nat \ {0} /\ n + 1 \in Nat /\ q + Count(d) <= n + 1
       /\ (b = trxdc => Len(d.path) = 1)
  BY <1>2, <1>3, <1>8, <1>9
<1>11. Len(d.path) > 1 \/ b \notin Stmts => n + 1 = q + Count(d)
  BY <1>3, <1>7, <1>9
<1>12. Context(t, b, d, q, n + 1)
  BY <1>2, <1>3, <1>4, <1>5, <1>6, <1>10, <1>11, SMTT(30) DEF Context
<1> QED BY <1>12

\* Operands are popped.
LEMMA ContextPop ==
    ASSUME NEW s, NEW b, NEW c, NEW q, NEW n, Context(s, b, c, q, n), NEW k \in Nat, k <= Count(c)
    PROVE  /\ Context(s, b, Operands(c, -k), q, n - k) /\ q <= n - k
           /\ \A i \in n - k + 1 .. n : s[i][1] = "val"
<1> PICK d : d = Operands(c, -k)
  OBVIOUS
<1>2. b \in Blocks \cup {trxdc} /\ c \in Places /\ q \in Nat \ {0} /\ n \in Nat /\ Count(c) \in Nat /\ q + Count(c) <= n
  BY ContextTypes
<1>3. d \in Places /\ Count(d) = Count(c) - k /\ Len(d.path) = Len(c.path) /\ Awaited(b, d) = Awaited(b, c)
  <2>1. -k \in Int /\ Count(c) + (-k) >= 0 /\ Count(c) + (-k) = Count(c) - k
    BY <1>2
  <2> QED BY <1>2, <2>1, PlaceOperands
<1>4. \A i \in n - Count(c) + 1 .. n : s[i][1] = "val"
  BY DEF Context
<1>5. \A i \in n - k - Count(d) + 1 .. n - k : s[i][1] = "val"
  BY <1>2, <1>3, <1>4
<1>6. Clean(s, q, n - k)
  <2>1. \A i \in q + 1 .. n - k : i \in q + 1 .. n
    BY <1>2
  <2>2. Clean(s, q, n)
    BY DEF Context
  <2> QED BY <2>1, <2>2 DEF Clean
<1>7. s[q] = Off(Awaited(b, d))
  BY <1>3 DEF Context
<1>8. Len(c.path) > 1 \/ b \notin Stmts => n = q + Count(c)
  BY DEF Context
<1>9. b = trxdc => Len(c.path) = 1
  BY DEF Context
<1>10. n - k \in Nat /\ q + Count(d) <= n - k /\ (n = q + Count(c) => n - k = q + Count(d)) /\ q <= n - k
  BY <1>2, <1>3
<1>11. \A i \in n - k + 1 .. n : s[i][1] = "val"
  BY <1>2, <1>4
<1>12. Context(s, b, d, q, n - k)
  BY <1>2, <1>3, <1>5, <1>6, <1>7, <1>8, <1>9, <1>10 DEF Context
<1> QED BY <1>10, <1>11, <1>12

\* A statement begins.
LEMMA ContextStart ==
    ASSUME NEW s, NEW b \in Stmts, NEW q \in Nat \ {0}, NEW n \in Nat, q <= n, s[q] = Off(FailOffset(b)), Clean(s, q, n)
    PROVE  Context(s, b, Start("body"), q, n)
<1>1. PICK d : d = Start("body")
  OBVIOUS
<1>2. d \in Places /\ Count(d) = 0 /\ Len(d.path) = 1 /\ d.at = "body" /\ ~(Len(d.path) > 1)
  <2>1. ~(1 > 1)
    OBVIOUS
  <2> QED BY <1>1, <2>1, PlaceStart
<1>3. b \in Blocks /\ b # trxdc /\ b \notin Exprs
  BY BlocksAre
<1>4. Awaited(b, d) = FailOffset(b)
  BY <1>2, <1>3 DEF Awaited
<1>5. \A i \in n - Count(d) + 1 .. n : s[i][1] = "val"
  BY <1>2
<1>6. q + Count(d) <= n
  BY <1>2
<1>7. Context(s, b, d, q, n)
  BY <1>2, <1>3, <1>4, <1>5, <1>6 DEF Context
<1> QED BY <1>1, <1>7

\* A bracket opens at its offset.
LEMMA ContextOpen ==
    ASSUME NEW s, NEW b \in Blocks, NEW c, NEW p \in Nat,
           Bracketed(s, p), Context(s, b, c, s[p - 1][2], p - 2),
           s[p] = Off(<<"bracket", b, c>>)
    PROVE  Linked(s, p) /\ Context(s, b, Open(c), p, p) /\ Open(c) \in Places
<1>1. c \in Places /\ p > 2
  BY DEF Context, Bracketed
<1>2. PICK d : d = Open(c) /\ d \in Places /\ Len(d.path) > 1 /\ Close(d) = c /\ Count(d) = 0
  BY <1>1, PlaceOpen
<1>3. Awaited(b, d) = <<"bracket", b, c>>
  BY <1>2 DEF Awaited
<1>4. b # trxdc
  BY BlocksAre
<1>5. (\A i \in p - 0 + 1 .. p : s[i][1] = "val") /\ Clean(s, p, p) /\ p + 0 <= p /\ p = p + 0 /\ p \in Nat \ {0}
  BY <1>1 DEF Clean
<1>6. Context(s, b, d, p, p)
  BY <1>2, <1>3, <1>4, <1>5 DEF Context
<1>7. PICK o : o = <<"bracket", b, c>> /\ o[1] = "bracket" /\ o[2] = b /\ o[3] = c /\ s[p][2] = o
  BY WordParts, OffsetParts
<1>8. o # <<"exflc">> /\ o # <<"zero">>
  BY <1>7, OffsetParts
<1>9. Meets(s, p, s[p][2])
  BY <1>7, <1>8 DEF Meets
<1> QED BY <1>2, <1>6, <1>9 DEF Linked

-----------------------------------------------------------------------------
(***************************************************************************)
(* Moves of flptr that no call and no trace begins or ends with.           *)
(***************************************************************************)
Lower(fl, gl) == IF fl < gl THEN fl ELSE gl
Move(s, fl, t, gl) ==
    /\ fl \in 1 .. Len(s) /\ gl \in 1 .. Len(t)
    /\ Same(s, t, Lower(fl, gl) - 1)
    /\ s[Lower(fl, gl)][1] = "off" /\ t[Lower(fl, gl)][1] = "off"
    /\ IsTrace(s, Lower(fl, gl)) <=> IsTrace(t, Lower(fl, gl))
    /\ fl < gl => ~IsTrace(s, fl)
    /\ \A p \in Lower(fl, gl) + 1 .. fl : ~IsCall(s, p) /\ ~IsTrace(s, p)
    /\ \A p \in Lower(fl, gl) + 1 .. gl : ~IsCall(t, p) /\ ~IsTrace(t, p)
    /\ \A i \in 1 .. Len(t) : t[i] = Blk(trxdc) => i <= Len(s) /\ s[i] = Blk(trxdc)

\* They leave the calls.
LEMMA MoveCalls ==
    ASSUME NEW s, NEW fl, NEW t, NEW gl, Len(s) \in Nat, Len(t) \in Nat, Move(s, fl, t, gl)
    PROVE  /\ \A m : LastCall(s, m, fl + 1) => LastCall(t, m, gl + 1)
           /\ CallsTo(t, gl) = CallsTo(s, fl)
           /\ \A p \in 1 .. Lower(fl, gl) : IsCall(s, p) <=> IsCall(t, p)
<1>1. PICK m \in Nat \ {0} : m = Lower(fl, gl) /\ m <= fl /\ m <= gl /\ fl \in Nat /\ gl \in Nat
  BY DEF Lower, Move
<1>2. /\ Same(s, t, m - 1) /\ s[m][1] = "off" /\ t[m][1] = "off"
      /\ \A p \in m + 1 .. fl : ~IsCall(s, p)
      /\ \A p \in m + 1 .. gl : ~IsCall(t, p)
  BY <1>1 DEF Move
<1>3. ASSUME NEW p \in 1 .. m PROVE IsCall(s, p) <=> IsCall(t, p)
  <2>1. CASE p = m
    BY <1>1, <1>2, <2>1, SameCall
  <2>2. CASE p # m
    <3>1. m - 1 \in Nat /\ p \in 1 .. m - 1
      BY <2>2
    <3> QED BY <1>2, <3>1, SameCalls
  <2> QED BY <2>1, <2>2
<1>4. ASSUME NEW k, LastCall(s, k, fl + 1) PROVE LastCall(t, k, gl + 1)
  <2>1. k \in 0 .. fl /\ (k # 0 => IsCall(s, k)) /\ \A i \in k + 1 .. fl : ~IsCall(s, i)
    BY <1>1, <1>4, LastOf
  <2>2. k \in 0 .. m
    BY <1>1, <1>2, <2>1
  <2>3. k # 0 => IsCall(t, k)
    BY <1>3, <2>1, <2>2
  <2>4. ASSUME NEW i \in k + 1 .. gl PROVE ~IsCall(t, i)
    <3>1. i \in 1 .. m \/ i \in m + 1 .. gl
      BY <1>1, <2>2
    <3>2. i \in 1 .. m => i \in k + 1 .. fl
      BY <1>1, <2>2
    <3> QED BY <1>2, <1>3, <2>1, <3>1, <3>2
  <2>5. k \in 0 .. gl
    BY <1>1, <2>2
  <2> QED BY <1>1, <2>3, <2>4, <2>5, LastOf
<1>5. ASSUME NEW p PROVE p \in CallsTo(t, gl) <=> p \in CallsTo(s, fl)
  <2>1. p \in 1 .. gl /\ IsCall(t, p) <=> p \in 1 .. m /\ IsCall(t, p)
    BY <1>1, <1>2
  <2>2. p \in 1 .. fl /\ IsCall(s, p) <=> p \in 1 .. m /\ IsCall(s, p)
    BY <1>1, <1>2
  <2> QED BY <1>3, <2>1, <2>2 DEF CallsTo
<1>6. CallsTo(t, gl) \subseteq 1 .. gl /\ CallsTo(s, fl) \subseteq 1 .. fl
  BY DEF CallsTo
<1> QED BY <1>1, <1>3, <1>4, <1>5

\* So flprt and &FNCLEVEL are what they were.
LEMMA MoveCalling ==
    ASSUME Calling, Len(stack) \in Nat, Len(stack') \in Nat, Move(stack, flptr, stack', flptr'),
           UNCHANGED <<flprt, kvfnc, prog>>
    PROVE  Calling'
<1>1. LastCall(stack', flprt, flptr' + 1) /\ CallsTo(stack', flptr') = CallsTo(stack, flptr)
  BY MoveCalls DEF Calling
<1> QED BY <1>1 DEF Calling

\* They leave the traces.
LEMMA MoveTraces ==
    ASSUME NEW s, NEW fl, NEW t, NEW gl, Len(s) \in Nat, Len(t) \in Nat, Move(s, fl, t, gl),
           NEW b, NEW d, NEW on, NEW traced, TracesAre(s, fl, b, on, traced), IsTrace(t, gl) <=> d = trxdc
    PROVE  TracesAre(t, gl, d, on, traced)
<1>1. PICK m \in Nat \ {0} : m = Lower(fl, gl) /\ m <= fl /\ m <= gl /\ fl \in Nat /\ gl \in Nat
                             /\ (m = fl \/ m = gl) /\ (m # fl => gl < fl) /\ (m # gl => fl < gl)
  BY DEF Lower, Move
<1>2. /\ Same(s, t, m - 1) /\ s[m][1] = "off" /\ t[m][1] = "off" /\ (IsTrace(s, m) <=> IsTrace(t, m))
      /\ \A p \in m + 1 .. fl : ~IsCall(s, p) /\ ~IsTrace(s, p)
      /\ \A p \in m + 1 .. gl : ~IsCall(t, p) /\ ~IsTrace(t, p)
      /\ \A i \in 1 .. Len(t) : t[i] = Blk(trxdc) => i <= Len(s) /\ s[i] = Blk(trxdc)
      /\ fl < gl => ~IsTrace(s, fl)
      /\ fl <= Len(s) /\ gl <= Len(t)
  BY <1>1 DEF Move
<1>3. \A p \in 1 .. m : IsCall(s, p) <=> IsCall(t, p)
  BY <1>1, MoveCalls
<1>4. ASSUME NEW p \in 1 .. m PROVE IsTrace(s, p) <=> IsTrace(t, p)
  <2>1. p = m \/ t[p] = s[p]
    BY <1>2 DEF Same
  <2> QED BY <1>2, <2>1 DEF IsTrace
<1>5. \A p \in 1 .. fl : IsTrace(s, p) => p \in 1 .. m
  BY <1>1, <1>2
<1>6. \A p \in 1 .. gl : IsTrace(t, p) => p \in 1 .. m
  BY <1>1, <1>2
<1>7. \A p \in 1 .. m : p \in 1 .. fl /\ p \in 1 .. gl
  BY <1>1
<1>8. /\ on => traced /\ \A p \in 1 .. fl : ~IsTrace(s, p)
      /\ traced /\ ~on <=> \E p \in 1 .. fl : IsTrace(s, p)
      /\ \A p, q \in 1 .. fl : IsTrace(s, p) /\ IsTrace(s, q) => p = q
      /\ \A p \in 1 .. fl - 1 : IsTrace(s, p) => \E q \in 1 .. fl : TraceCall(s, p, q)
      /\ \A i \in 1 .. Len(s) : s[i] = Blk(trxdc) => i + 5 <= fl /\ IsCall(s, i + 5)
  BY DEF TracesAre
<1>9. (\E p \in 1 .. fl : IsTrace(s, p)) <=> (\E p \in 1 .. gl : IsTrace(t, p))
  BY <1>4, <1>5, <1>6, <1>7
<1>10. (\A p \in 1 .. fl : ~IsTrace(s, p)) => (\A p \in 1 .. gl : ~IsTrace(t, p))
  BY <1>4, <1>6, <1>7
<1>11. \A p, q \in 1 .. gl : IsTrace(t, p) /\ IsTrace(t, q) => p = q
  BY <1>4, <1>6, <1>7, <1>8
<1>12. ASSUME NEW p \in 1 .. gl - 1, IsTrace(t, p) PROVE \E q \in 1 .. gl : TraceCall(t, p, q)
  <2>1. p \in 1 .. m /\ IsTrace(s, p)
    <3>1. p \in 1 .. gl
      BY <1>1
    <3> QED BY <1>4, <1>6, <1>12, <3>1
  <2>2. p \in 1 .. fl - 1
    <3>1. p # fl
      BY <1>1, <1>2, <1>12, <2>1
    <3> QED BY <1>1, <2>1, <3>1
  <2>3. PICK q \in 1 .. fl : TraceCall(s, p, q)
    BY <1>8, <2>1, <2>2
  <2>4. q \in 1 .. m
    BY <1>1, <1>2, <2>3 DEF TraceCall
  <2>5. q - 2 \in 1 .. m - 1 /\ q - 5 \in 1 .. m - 1
    <3>1. p < q - 5
      BY <2>3 DEF TraceCall
    <3> QED BY <1>1, <2>1, <2>4, <3>1
  <2>6. t[q - 2] = s[q - 2] /\ t[q - 5] = s[q - 5]
    BY <1>2, <2>5 DEF Same
  <2>7. TraceCall(t, p, q)
    BY <1>3, <2>3, <2>4, <2>6 DEF TraceCall
  <2> QED BY <1>7, <2>4, <2>7
<1>13. ASSUME NEW i \in 1 .. Len(t), t[i] = Blk(trxdc) PROVE i + 5 <= gl /\ IsCall(t, i + 5)
  <2>1. i \in 1 .. Len(s) /\ s[i] = Blk(trxdc)
    BY <1>2, <1>13
  <2>2. i + 5 <= fl /\ IsCall(s, i + 5)
    BY <1>8, <2>1
  <2>3. i + 5 \in 1 .. m
    BY <1>1, <1>2, <2>2
  <2> QED BY <1>1, <1>3, <2>2, <2>3
<1> QED BY <1>8, <1>9, <1>10, <1>11, <1>12, <1>13 DEF TracesAre

-----------------------------------------------------------------------------
(***************************************************************************)
(* What the invariant says of the registers; steps that leave the stack.   *)
(***************************************************************************)

\* flptr points to a failure offset, which is linked.
LEMMA Basics ==
    ASSUME Inv
    PROVE  /\ Len(stack) \in Nat /\ flptr \in 1 .. Len(stack) /\ flptr \in Nat \ {0} /\ flprt \in 0 .. flptr
           /\ flptr <= Len(stack) /\ stack \in Seq(Words)
           /\ \A i \in 1 .. Len(stack) : stack[i] \in Words
           /\ stack[flptr][1] = "off" /\ stack[flptr] = Off(stack[flptr][2]) /\ stack[flptr][2] \in Offsets
           /\ Linked(stack, flptr) /\ Meets(stack, flptr, stack[flptr][2])
           /\ r_cod \in Blocks \cup {trxdc} /\ cp \in Places
<1>1. stack \in Seq(Words) /\ r_cod \in Blocks \cup {trxdc} /\ cp \in Places
  BY DEF Inv, Typed
<1>2. Len(stack) \in Nat /\ \A i \in 1 .. Len(stack) : stack[i] \in Words
  BY <1>1
<1>3. flptr \in 1 .. Len(stack) /\ stack[flptr][1] = "off"
  BY DEF Inv, Chained
<1>4. flptr \in Nat \ {0} /\ flptr \in 1 .. flptr /\ flptr <= Len(stack)
  BY <1>2, <1>3
<1>5. Linked(stack, flptr) /\ Meets(stack, flptr, stack[flptr][2])
  BY <1>3, <1>4 DEF Inv, Chained, Linked
<1>6. stack[flptr] = Off(stack[flptr][2]) /\ stack[flptr][2] \in Offsets
  BY <1>2, <1>3, WordKinds
<1>7. flprt \in 0 .. flptr
  <2>1. LastCall(stack, flprt, flptr + 1)
    BY DEF Inv, Calling
  <2> QED BY <1>4, <2>1, LastOf
<1> QED BY <1>1, <1>2, <1>3, <1>4, <1>5, <1>6, <1>7

\* What a failure goes on with is of the block being executed.
LEMMA AwaitedLeads ==
    ASSUME NEW b \in Blocks, NEW c \in Places
    PROVE  Leads(b, Awaited(b, c))
<1>1. CASE Len(c.path) > 1
  BY <1>1, OffsetParts DEF Awaited, Leads
<1>2. CASE ~(Len(c.path) > 1)
  <2>1. b # trxdc /\ (b \in Exprs \/ b \in Simple \/ b \in Complex) /\ (b \in Simple \/ b \in Complex => b \in Stmts)
        /\ (b \in Simple => b \notin Complex)
    BY BlocksAre
  <2>2. Awaited(b, c) = IF b \in Exprs THEN <<"exflc">> ELSE IF c.at = "goto" THEN <<"fif", b>> ELSE FailOffset(b)
    BY <1>2, <2>1 DEF Awaited
  <2> QED BY <2>1, <2>2 DEF Leads, FailOffset
<1> QED BY <1>1, <1>2

\* What holds while a code word is executed.
LEMMA Running ==
    ASSUME Inv, Executing
    PROVE  /\ ctl = "run" /\ r_cod \in Blocks /\ Context(stack, r_cod, cp, flptr, Len(stack))
           /\ Leads(r_cod, stack[flptr][2]) /\ stack[flptr] = Off(Awaited(r_cod, cp))
           /\ Clean(stack, flptr, Len(stack)) /\ ~IsTrace(stack, flptr)
           /\ stage \in {"xt", "ee"} /\ Count(cp) \in Nat
<1>1. ctl = "run" /\ r_cod # trxdc
  BY DEF Executing
<1>2. Context(stack, r_cod, cp, flptr, Len(stack))
  BY <1>1 DEF Inv, Controlled
<1>3. r_cod \in Blocks /\ cp \in Places /\ Count(cp) \in Nat
  BY <1>1, <1>2, ContextTypes
<1>4. stack[flptr] = Off(Awaited(r_cod, cp)) /\ Clean(stack, flptr, Len(stack))
  BY <1>2 DEF Context
<1>5. stack[flptr][2] = Awaited(r_cod, cp)
  BY <1>4, WordParts
<1>6. Leads(r_cod, stack[flptr][2])
  BY <1>3, <1>5, AwaitedLeads
<1>7. ~IsTrace(stack, flptr)
  BY <1>1 DEF Inv, InTrace, TracesAre
<1>8. stage \in {"xt", "ee"}
  BY <1>1 DEF Inv, InStage
<1> QED BY <1>1, <1>2, <1>3, <1>4, <1>6, <1>7, <1>8

\* What holds when a statement has come to its goto.
LEMMA Ending ==
    ASSUME Inv, AtEnd
    PROVE  /\ ctl \in {"run", "end"} /\ r_cod \in Stmts /\ Leads(r_cod, stack[flptr][2])
           /\ Clean(stack, flptr, Len(stack)) /\ ~IsTrace(stack, flptr) /\ stage \in {"xt", "ee"}
<1>1. CASE ctl = "end"
  <2>1. Len(stack) = flptr /\ r_cod \in Simple /\ stack[flptr] = Off(<<"cdfal">>)
    BY <1>1 DEF Inv, Controlled, Landed
  <2>2. r_cod \in Stmts /\ r_cod # trxdc
    BY <2>1, BlocksAre
  <2>3. Leads(r_cod, stack[flptr][2])
    BY <2>1, WordParts DEF Leads
  <2>4. Clean(stack, flptr, Len(stack))
    BY <2>1, Basics DEF Clean
  <2>5. ~IsTrace(stack, flptr)
    BY <2>2 DEF Inv, InTrace, TracesAre
  <2>6. stage \in {"xt", "ee"}
    BY <1>1 DEF Inv, InStage
  <2> QED BY <1>1, <2>2, <2>3, <2>4, <2>5, <2>6
<1>2. CASE ctl # "end"
  <2>1. Executing /\ r_cod \in Stmts
    BY <1>2 DEF AtEnd
  <2> QED BY <2>1, Running
<1> QED BY <1>1, <1>2

\* The level of the error that CONTINUE would go back to.
Ghost ==
    /\ prog' = prog
    /\ level' = IF r_cnt' = NoError THEN 0
                ELSE IF ctl = "err07" THEN flptr
                ELSE IF flptr' < level THEN 0 ELSE level

\* The words below l are the same, and a failure offset there stays one.
Kept(s, t, l) == Same(s, t, l - 1) /\ (s[l][1] = "off" => t[l][1] = "off")

\* The lower of two.
LEMMA LowerIs ==
    ASSUME NEW fl \in Nat \ {0}, NEW gl \in Nat \ {0}
    PROVE  /\ Lower(fl, gl) \in Nat \ {0} /\ Lower(fl, gl) <= fl /\ Lower(fl, gl) <= gl
           /\ \A l \in Nat : l <= fl /\ l <= gl => l <= Lower(fl, gl)
           /\ fl <= gl => Lower(fl, gl) = fl
           /\ gl <= fl => Lower(fl, gl) = gl
  BY DEF Lower

\* CONTINUE can still go where it could.
LEMMA LevelTrap ==
    ASSUME InTrap, level \in Nat, Ghost, UNCHANGED r_cnt, flptr \in Nat \ {0}, flptr' \in Nat \ {0}, ctl # "err07",
           \A l \in 1 .. Lower(flptr, flptr') : Kept(stack, stack', l), r_cnt # NoError, level' # 0
    PROVE  /\ level' <= flptr' /\ stack'[level'][1] = "off" /\ Leads(r_cnt.blk, r_cnt.off)
           /\ Meets(stack', level', r_cnt.off)
<1>1. level' = level /\ level \in Nat \ {0} /\ ~(flptr' < level)
  BY DEF Ghost
<1>2. level <= flptr /\ stack[level][1] = "off" /\ Leads(r_cnt.blk, r_cnt.off) /\ Meets(stack, level, r_cnt.off)
  BY <1>1 DEF InTrap
<1>3. level <= flptr'
  BY <1>1
<1>4. level \in 1 .. Lower(flptr, flptr')
  BY <1>1, <1>2, <1>3, LowerIs
<1>5. Same(stack, stack', level - 1) /\ stack'[level][1] = "off"
  BY <1>2, <1>4 DEF Kept
<1>6. PICK t, l : t = stack' /\ l = level
  OBVIOUS
<1>7. Meets(t, l, r_cnt.off)
  BY <1>1, <1>2, <1>5, <1>6, SameMeets
<1> QED BY <1>1, <1>2, <1>3, <1>5, <1>6, <1>7

\* And the trap is as it was.
LEMMA TrapStays ==
    ASSUME InTrap, level \in Nat, Ghost, UNCHANGED <<r_cnt, kvert>>, flptr \in Nat \ {0}, flptr' \in Nat \ {0},
           ctl \notin {"continue", "err07", "stop"}, ctl' # "err07",
           \A l \in 1 .. Lower(flptr, flptr') : Kept(stack, stack', l)
    PROVE  InTrap'
<1>1. r_cnt # NoError /\ level' # 0 =>
          /\ level' <= flptr' /\ stack'[level'][1] = "off" /\ Leads(r_cnt.blk, r_cnt.off)
          /\ Meets(stack', level', r_cnt.off)
  BY LevelTrap
<1>2. r_cnt # NoError => r_cnt.blk # trxdc
  BY DEF InTrap
<1>3. kvert = "interrupt" /\ r_cnt # NoError =>
          r_cnt.blk \in Stmts /\ r_cnt.at = Start("body") /\ r_cnt.off = FailOffset(r_cnt.blk)
  BY DEF InTrap
<1> QED BY <1>1, <1>2, <1>3 DEF InTrap

\* Moves keep failure offsets.
LEMMA MoveKept ==
    ASSUME NEW s, NEW fl, NEW t, NEW gl, Len(s) \in Nat, Len(t) \in Nat, Move(s, fl, t, gl)
    PROVE  fl \in Nat \ {0} /\ gl \in Nat \ {0} /\ \A l \in 1 .. Lower(fl, gl) : Kept(s, t, l)
<1>1. fl \in Nat \ {0} /\ gl \in Nat \ {0}
  BY DEF Move
<1>2. PICK m \in Nat \ {0} : m = Lower(fl, gl)
  BY <1>1, LowerIs
<1>3. Same(s, t, m - 1) /\ t[m][1] = "off"
  BY <1>2 DEF Move
<1>4. ASSUME NEW l \in 1 .. m PROVE Kept(s, t, l)
  <2>1. Same(s, t, l - 1)
    BY <1>3 DEF Same
  <2>2. l = m \/ l \in 1 .. m - 1
    OBVIOUS
  <2> QED BY <1>3, <2>1, <2>2 DEF Kept, Same
<1> QED BY <1>1, <1>2, <1>4

\* A step that moves flptr.
LEMMA Moves ==
    ASSUME Inv, Ghost, UNCHANGED <<flprt, kvfnc, kvtra>>,
           Move(stack, flptr, stack', flptr'), IsTrace(stack', flptr') <=> r_cod' = trxdc,
           Typed', Chained(stack', flptr'), Controlled', InStage', InTrap'
    PROVE  Inv'
<1>1. Len(stack) \in Nat /\ Len(stack') \in Nat
  BY Basics DEF Inv, Typed
<1>2. Calling'
  BY <1>1, MoveCalling DEF Inv, Ghost
<1>3. InTrace'
  <2>1. TracesAre(stack, flptr, r_cod, kvtra, prog.trace)
    BY DEF Inv, InTrace
  <2>2. PICK t, gl, d : t = stack' /\ gl = flptr' /\ d = r_cod'
    OBVIOUS
  <2>3. TracesAre(t, gl, d, kvtra, prog.trace)
    BY <1>1, <2>1, <2>2, MoveTraces
  <2>4. kvtra' = kvtra /\ prog' = prog
    BY DEF Ghost
  <2> QED BY <2>2, <2>3, <2>4 DEF InTrace
<1> QED BY <1>2, <1>3 DEF Inv

\* And leaves the traps.
LEMMA Ordinary ==
    ASSUME Inv, Ghost, UNCHANGED <<flprt, kvfnc, kvtra, kvert, r_cnt>>,
           ctl \notin {"continue", "err07", "stop"}, ctl' # "err07",
           Move(stack, flptr, stack', flptr'), IsTrace(stack', flptr') <=> r_cod' = trxdc,
           Typed', Chained(stack', flptr'), Controlled', InStage'
    PROVE  Inv'
<1>1. Len(stack) \in Nat /\ Len(stack') \in Nat /\ level \in Nat
  BY Basics DEF Inv, Typed
<1>2. PICK t, gl : t = stack' /\ gl = flptr'
  OBVIOUS
<1>3. flptr \in Nat \ {0} /\ gl \in Nat \ {0} /\ \A l \in 1 .. Lower(flptr, gl) : Kept(stack, t, l)
  BY <1>1, <1>2, MoveKept
<1>4. InTrap'
  BY <1>1, <1>2, <1>3, TrapStays DEF Inv
<1> QED BY <1>4, Moves

\* To stay is to move.
LEMMA NoMove ==
    ASSUME Inv
    PROVE  Move(stack, flptr, stack, flptr)
<1>1. Len(stack) \in Nat /\ flptr \in 1 .. Len(stack) /\ flptr \in Nat \ {0} /\ stack[flptr][1] = "off"
  BY Basics
<1>2. Lower(flptr, flptr) = flptr
  BY DEF Lower
<1>3. ~(flptr < flptr) /\ (\A p \in flptr + 1 .. flptr : FALSE)
  BY <1>1
<1> QED BY <1>1, <1>2, <1>3 DEF Move, Same

\* A step that leaves the stack and the pointers to it.
LEMMA Idle ==
    ASSUME Inv, Ghost, UNCHANGED <<stack, regs, kvfnc, kvtra, kvert, r_cnt, kverl>>,
           vars' \in [Vars -> Values], r_sxc' \in Stmts \cup {None},
           ctl \notin {"continue", "err07", "stop"}, ctl' # "err07", Controlled', InStage'
    PROVE  Inv'
<1>1. stack' = stack /\ flptr' = flptr /\ flprt' = flprt /\ r_cod' = r_cod /\ cp' = cp
  BY DEF regs
<1>2. Move(stack, flptr, stack', flptr')
  BY <1>1, NoMove
<1>3. IsTrace(stack', flptr') <=> r_cod' = trxdc
  BY <1>1 DEF Inv, InTrace, TracesAre
<1>4. Chained(stack', flptr')
  BY <1>1 DEF Inv
<1>5. level' \in Nat
  BY Basics DEF Ghost, Inv, Typed
<1>6. Typed'
  BY <1>1, <1>5 DEF Inv, Typed, Ghost
<1> QED BY <1>1, <1>2, <1>3, <1>4, <1>6, Ordinary

\* The stage stays true.
LEMMA StageStays ==
    ASSUME Inv, UNCHANGED <<stack, flptr, comp>>, ctl # "syntax"
    PROVE  InStage'
<1>1. stage' = stage /\ gtcef' = gtcef /\ r_gtc' = r_gtc
  BY DEF comp
<1>2. stage = "xt" \/ (stage = "ee" /\ \E p \in 1 .. flptr : Evaluates(p))
  BY DEF Inv, InStage
<1>3. (\E p \in 1 .. flptr : Evaluates(p)) => (\E p \in 1 .. flptr : Evaluates(p))'
  BY <1>1 DEF Evaluates
<1> QED BY <1>1, <1>2, <1>3 DEF InStage

\* An error is one of the block being executed.
LEMMA ErrorFrom ==
    ASSUME Inv, r_cod \in Blocks, Leads(r_cod, stack[flptr][2]), UNCHANGED <<stack, flptr, r_cod>>
    PROVE  AtError'
<1>1. r_cod # trxdc
  BY BlocksAre
<1> QED BY <1>1 DEF AtError

\* o_ass.
LEMMA AssignKeeps == ASSUME Inv, Ghost, UNCHANGED kvtra, NEW v \in Vars, Assign(v) PROVE Inv'
<1>1. /\ Executing /\ Count(cp) > 0 /\ vars' = [vars EXCEPT ![v] = stack[Len(stack)][2]]
      /\ UNCHANGED <<stack, regs, comp, kvfnc, kvert, r_cnt, kverl, r_sxc, ctl>>
  BY DEF Assign, traps
<1>2. ctl = "run" /\ Context(stack, r_cod, cp, flptr, Len(stack)) /\ Count(cp) \in Nat
  BY <1>1, Running
<1>3. stack[Len(stack)][1] = "val"
  <2>1. Len(stack) \in Nat /\ Len(stack) \in Len(stack) - Count(cp) + 1 .. Len(stack)
    BY <1>1, <1>2, Basics
  <2> QED BY <1>2, <2>1 DEF Context
<1>4. stack[Len(stack)][2] \in Values
  <2>1. stack[Len(stack)] \in Words
    BY Basics
  <2> QED BY <1>3, <2>1, WordKinds
<1>5. vars' \in [Vars -> Values] /\ r_sxc' \in Stmts \cup {None}
  BY <1>1, <1>4 DEF Inv, Typed
<1>6. Controlled'
  <2>1. stack' = stack /\ r_cod' = r_cod /\ cp' = cp /\ flptr' = flptr /\ ctl' = "run"
    BY <1>1, <1>2 DEF regs
  <2> QED BY <1>2, <2>1 DEF Controlled
<1>7. InStage'
  BY <1>1, <1>2, StageStays DEF regs
<1> QED BY <1>1, <1>2, <1>5, <1>6, <1>7, Idle

\* s_stx.
LEMMA SetExitKeeps ==
    ASSUME Inv, Ghost, UNCHANGED kvtra, NEW b \in prog.traps \cup {None}, SetExit(b) PROVE Inv'
<1>1. /\ Executing /\ r_sxc' = b
      /\ UNCHANGED <<stack, regs, comp, kvfnc, kvert, r_cnt, kverl, vars, ctl>>
  BY DEF SetExit
<1>2. ctl = "run" /\ Context(stack, r_cod, cp, flptr, Len(stack))
  BY <1>1, Running
<1>3. r_sxc' \in Stmts \cup {None}
  BY <1>1, CallsAssumption DEF Inv, Typed
<1>4. vars' \in [Vars -> Values]
  BY <1>1 DEF Inv, Typed
<1>5. Controlled'
  <2>1. stack' = stack /\ r_cod' = r_cod /\ cp' = cp /\ flptr' = flptr /\ ctl' = "run"
    BY <1>1, <1>2 DEF regs
  <2> QED BY <1>2, <2>1 DEF Controlled
<1>6. InStage'
  BY <1>1, <1>2, StageStays DEF regs
<1> QED BY <1>1, <1>2, <1>3, <1>4, <1>5, <1>6, Idle

\* A code word that fails or is in error; a goto that is.
LEMMA FailKeeps ==
    ASSUME Inv, Ghost, UNCHANGED kvtra, Fails \/ Errs \/ Undefined \/ Stop PROVE Inv'
<1>1. /\ Executing \/ AtEnd
      /\ ctl' \in {"exfal", "error", "stop"}
      /\ UNCHANGED <<stack, regs, comp, kvfnc, kvert, r_cnt, kverl, vars, r_sxc>>
  BY DEF Fails, Errs, Undefined, Stop, traps
<1>2. ctl \in {"run", "end"} /\ r_cod \in Blocks /\ Leads(r_cod, stack[flptr][2])
  BY <1>1, Running, Ending, BlocksAre
<1>3. stack' = stack /\ r_cod' = r_cod /\ cp' = cp /\ flptr' = flptr
  BY <1>1 DEF regs
<1>4. AtError'
  BY <1>2, <1>3, ErrorFrom
<1>5. Controlled'
  BY <1>1, <1>2, <1>3, <1>4 DEF Controlled
<1>6. InStage'
  BY <1>1, <1>2, <1>3, StageStays
<1>7. vars' \in [Vars -> Values] /\ r_sxc' \in Stmts \cup {None}
  BY <1>1 DEF Inv, Typed
<1>8. ctl \notin {"continue", "err07", "stop"} /\ ctl' # "err07"
  BY <1>1, <1>2
<1> QED BY <1>1, <1>5, <1>6, <1>7, <1>8, Idle

\* gtcod and gtexp of a string: what they leave of the stage, they leave to the error
\* that the compiler has met.
LEMMA CompileKeeps ==
    ASSUME Inv, Ghost, UNCHANGED kvtra, faults' = {},
           NEW outcome \in {"compiled", "error", "unconvertible"},
           \/ Code(outcome) /\ outcome # "unconvertible"
           \/ Convert(outcome)
           \/ EvalBad /\ outcome = "error"
    PROVE  Inv'
<1>1. PICK st \in {"xc", "ev"} :
          /\ Executing /\ Compile(st, outcome) /\ outcome # "unconvertible"
          /\ ctl' = (IF outcome = "compiled" THEN "run" ELSE "syntax")
          /\ UNCHANGED <<stack, regs, kvfnc, vars, traps>>
  <2>1. CASE Code(outcome) /\ outcome # "unconvertible"
    BY <2>1 DEF Code
  <2>2. CASE Convert(outcome)
    <3>1. Compile("ev", outcome)
      BY <2>2 DEF Convert
    <3>2. outcome # "unconvertible"
      BY <3>1 DEF Compile, NotCompiled, Met
    <3> QED BY <2>2, <3>2 DEF Convert
  <2>3. CASE EvalBad /\ outcome = "error"
    BY <2>3 DEF EvalBad
  <2> QED BY <2>1, <2>2, <2>3
<1>9. outcome = "error" => flptr # flprt
  BY <1>1 DEF Compile, NotCompiled, Met
<1>2. /\ ctl = "run" /\ Context(stack, r_cod, cp, flptr, Len(stack)) /\ r_cod \in Blocks
      /\ Leads(r_cod, stack[flptr][2])
  BY <1>1, Running
<1>3. /\ stack' = stack /\ r_cod' = r_cod /\ cp' = cp /\ flptr' = flptr /\ flprt' = flprt
      /\ UNCHANGED <<kvert, r_cnt, kverl, r_sxc>>
  BY <1>1 DEF regs, traps
<1>4. AtError'
  BY <1>2, <1>3, ErrorFrom
<1>5. Controlled'
  BY <1>1, <1>2, <1>3, <1>4 DEF Controlled
<1>6. InStage'
  <2>1. CASE outcome = "compiled"
    BY <1>1, <2>1 DEF Compile, Staged, InStage
  <2>2. CASE outcome # "compiled"
    BY <1>1, <1>3, <1>9, <2>2 DEF Compile, Staged, InStage
  <2> QED BY <2>1, <2>2
<1>7. vars' \in [Vars -> Values] /\ r_sxc' \in Stmts \cup {None}
  BY <1>1, <1>3 DEF Inv, Typed
<1>8. ctl \notin {"continue", "err07", "stop"} /\ ctl' # "err07"
  BY <1>1, <1>2
<1> QED BY <1>1, <1>3, <1>5, <1>6, <1>7, <1>8, Idle

-----------------------------------------------------------------------------
(***************************************************************************)
(* Parts of stacks, and moves of three kinds.                              *)
(***************************************************************************)

\* A stack up to a place.
LEMMA PrefixIs ==
    ASSUME NEW s \in Seq(Words), NEW a \in Nat, a <= Len(s)
    PROVE  SubSeq(s, 1, a) \in Seq(Words) /\ Len(SubSeq(s, 1, a)) = a /\ Same(s, SubSeq(s, 1, a), a)
<1>1. Len(s) \in Nat /\ 1 \in 1 .. a + 1 /\ 1 - 1 \in Nat
  OBVIOUS
<1>2. SubSeq(s, 1, a) \in Seq(Words) /\ Len(SubSeq(s, 1, a)) = a
      /\ \A i \in 1 .. a : SubSeq(s, 1, a)[i] = s[i]
  BY <1>1
<1> QED BY <1>2 DEF Same

\* What is left when the stack is cut.
LEMMA CutIs ==
    ASSUME stack \in Seq(Words), NEW a \in Nat, a <= Len(stack)
    PROVE  Cut(a) \in Seq(Words) /\ Len(Cut(a)) = a /\ Same(stack, Cut(a), a)
<1>1. Cut(a) = SubSeq(stack, 1, a)
  BY DEF Cut
<1> QED BY <1>1, PrefixIs

\* Words are pushed.
LEMMA PushIs ==
    ASSUME NEW s \in Seq(Words), NEW u \in Seq(Words)
    PROVE  /\ s \o u \in Seq(Words) /\ Len(s \o u) = Len(s) + Len(u) /\ Same(s, s \o u, Len(s))
           /\ \A i \in 1 .. Len(u) : (s \o u)[Len(s) + i] = u[i]
           /\ \A i \in Len(s) + 1 .. Len(s) + Len(u) : (s \o u)[i] = u[i - Len(s)]
<1>1. Len(s) \in Nat /\ Len(u) \in Nat
  OBVIOUS
<1>2. s \o u \in Seq(Words) /\ Len(s \o u) = Len(s) + Len(u)
  OBVIOUS
<1>3. \A i \in 1 .. Len(s) + Len(u) : (s \o u)[i] = IF i <= Len(s) THEN s[i] ELSE u[i - Len(s)]
  OBVIOUS
<1>4. \A i \in Len(s) + 1 .. Len(s) + Len(u) : (s \o u)[i] = u[i - Len(s)]
  BY <1>1, <1>3
<1>5. \A i \in 1 .. Len(s) : (s \o u)[i] = s[i]
  BY <1>1, <1>3
<1>6. ASSUME NEW i \in 1 .. Len(u) PROVE (s \o u)[Len(s) + i] = u[i]
  <2>1. Len(s) + i \in Len(s) + 1 .. Len(s) + Len(u) /\ Len(s) + i - Len(s) = i
    BY <1>1
  <2> QED BY <1>4, <2>1
<1> QED BY <1>2, <1>4, <1>5, <1>6 DEF Same

\* One word is pushed.
LEMMA AppendIs ==
    ASSUME NEW s \in Seq(Words), NEW w \in Words
    PROVE  Append(s, w) \in Seq(Words) /\ Len(Append(s, w)) = Len(s) + 1 /\ Same(s, Append(s, w), Len(s))
           /\ Append(s, w)[Len(s) + 1] = w
  BY DEF Same

\* One word is changed.
LEMMA ExceptIs ==
    ASSUME NEW s \in Seq(Words), NEW j \in 1 .. Len(s), NEW w \in Words
    PROVE  \E t \in Seq(Words) : t = [s EXCEPT ![j] = w] /\ Len(t) = Len(s) /\ t[j] = w /\ Same(s, t, j - 1)
<1>1. Len(s) \in Nat /\ s \in [1 .. Len(s) -> Words]
  OBVIOUS
<1>2. [s EXCEPT ![j] = w] \in Seq(Words) /\ Len([s EXCEPT ![j] = w]) = Len(s)
  OBVIOUS
<1>3. [s EXCEPT ![j] = w][j] = w
  BY <1>1
<1>4. \A i \in 1 .. j - 1 : i \in 1 .. Len(s) /\ i # j
  BY <1>1
<1>5. Same(s, [s EXCEPT ![j] = w], j - 1)
  BY <1>1, <1>4 DEF Same
<1> QED BY <1>2, <1>3, <1>5

\* Two words.
LEMMA PairIs ==
    ASSUME NEW x \in Words, NEW y \in Words
    PROVE  \E u \in Seq(Words) : u = <<x, y>> /\ Len(u) = 2 /\ u[1] = x /\ u[2] = y
<1>1. <<x, y>> \in Seq(Words) /\ Len(<<x, y>>) = 2 /\ <<x, y>>[1] = x /\ <<x, y>>[2] = y
  OBVIOUS
<1> QED BY <1>1

\* Words that are not trxdc.
LEMMA NotBlock ==
    /\ \A w : w[1] # "blk" => w # Blk(trxdc)
    /\ \A b \in Blocks : Blk(b) # Blk(trxdc)
<1>1. ASSUME NEW w, w = Blk(trxdc) PROVE w[1] = "blk" /\ w[2] = trxdc
  BY <1>1, WordParts
<1>2. ASSUME NEW b \in Blocks, Blk(b) = Blk(trxdc) PROVE FALSE
  <2>1. Blk(b)[2] = b /\ Blk(trxdc)[2] = trxdc
    BY WordParts
  <2> QED BY <1>2, <2>1, BlocksAre
<1> QED BY <1>1, <1>2

\* Failure offsets that are not of a trace.
LEMMA NotTrace ==
    /\ \A s, p : IsTrace(s, p) => s[p][1] = "off" /\ s[p][2] = <<"zero">>
    /\ \A s, p, o : s[p] = Off(o) /\ o # <<"zero">> => ~IsTrace(s, p)
    /\ \A b \in Blocks : \A o : Leads(b, o) => o # <<"zero">>
    /\ \A b : FailOffset(b) # <<"zero">>
<1>1. ASSUME NEW s, NEW p, IsTrace(s, p) PROVE s[p][1] = "off" /\ s[p][2] = <<"zero">>
  BY <1>1, WordParts DEF IsTrace
<1>2. ASSUME NEW s, NEW p, NEW o, s[p] = Off(o), IsTrace(s, p) PROVE o = <<"zero">>
  <2>1. Off(o)[2] = o /\ Off(<<"zero">>)[2] = <<"zero">>
    BY WordParts
  <2> QED BY <1>2, <2>1 DEF IsTrace
<1>3. ASSUME NEW b \in Blocks, NEW o, Leads(b, o), o = <<"zero">> PROVE FALSE
  <2>1. o[1] = "zero" /\ b # trxdc
    BY <1>3, OffsetParts, BlocksAre
  <2> QED BY <1>3, <2>1, OffsetParts DEF Leads
<1>4. ASSUME NEW b, FailOffset(b) = <<"zero">> PROVE FALSE
  BY <1>4, OffsetParts
<1> QED BY <1>1, <1>2, <1>3, <1>4

\* flptr stays.
LEMMA MoveFlat ==
    ASSUME NEW s, NEW t, NEW fl \in Nat \ {0}, Len(s) \in Nat, Len(t) \in Nat, fl <= Len(s), fl <= Len(t),
           Same(s, t, fl - 1), s[fl][1] = "off", t[fl][1] = "off", IsTrace(s, fl) <=> IsTrace(t, fl),
           \A i \in fl + 1 .. Len(t) : t[i] = Blk(trxdc) => i <= Len(s) /\ s[i] = Blk(trxdc)
    PROVE  Move(s, fl, t, fl)
<1>1. Lower(fl, fl) = fl /\ ~(fl < fl) /\ (\A p \in fl + 1 .. fl : FALSE) /\ fl \in 1 .. Len(s) /\ fl \in 1 .. Len(t)
  BY DEF Lower
<1>2. ASSUME NEW i \in 1 .. Len(t), t[i] = Blk(trxdc) PROVE i <= Len(s) /\ s[i] = Blk(trxdc)
  <2>1. i # fl
    BY <1>2, NotBlock
  <2>2. i \in 1 .. fl - 1 \/ i \in fl + 1 .. Len(t)
    BY <2>1
  <2> QED BY <1>2, <2>2 DEF Same
<1> QED BY <1>1, <1>2 DEF Move

\* It goes down.
LEMMA MoveDown ==
    ASSUME NEW s, NEW t, NEW fl \in Nat \ {0}, NEW gl \in Nat \ {0}, Len(s) \in Nat, Len(t) \in Nat,
           gl <= fl, fl <= Len(s), gl <= Len(t), Same(s, t, gl), s[gl][1] = "off",
           \A p \in gl + 1 .. fl : ~IsCall(s, p) /\ ~IsTrace(s, p),
           \A i \in gl + 1 .. Len(t) : t[i] = Blk(trxdc) => i <= Len(s) /\ s[i] = Blk(trxdc)
    PROVE  Move(s, fl, t, gl)
<1>1. Lower(fl, gl) = gl /\ ~(fl < gl) /\ (\A p \in gl + 1 .. gl : FALSE) /\ fl \in 1 .. Len(s) /\ gl \in 1 .. Len(t)
  BY DEF Lower
<1>2. ASSUME NEW i \in 1 .. Len(t), t[i] = Blk(trxdc) PROVE i <= Len(s) /\ s[i] = Blk(trxdc)
  <2>2. i \in 1 .. gl \/ i \in gl + 1 .. Len(t)
    OBVIOUS
  <2> QED BY <1>2, <2>2 DEF Same
<1>3. t[gl] = s[gl] /\ Same(s, t, gl - 1)
  BY DEF Same
<1>4. IsTrace(s, gl) <=> IsTrace(t, gl)
  BY <1>3 DEF IsTrace
<1> QED BY <1>1, <1>2, <1>3, <1>4 DEF Move

\* It goes up.
LEMMA MoveUp ==
    ASSUME NEW s, NEW t, NEW fl \in Nat \ {0}, NEW gl \in Nat, Len(s) \in Nat, Len(t) \in Nat,
           fl < gl, fl <= Len(s), gl <= Len(t), Same(s, t, fl), s[fl][1] = "off", ~IsTrace(s, fl),
           \A p \in fl + 1 .. gl : ~IsCall(t, p) /\ ~IsTrace(t, p),
           \A i \in fl + 1 .. Len(t) : t[i] = Blk(trxdc) => i <= Len(s) /\ s[i] = Blk(trxdc)
    PROVE  Move(s, fl, t, gl)
<1>1. Lower(fl, gl) = fl /\ (\A p \in fl + 1 .. fl : FALSE) /\ fl \in 1 .. Len(s) /\ gl \in 1 .. Len(t)
  BY DEF Lower
<1>2. ASSUME NEW i \in 1 .. Len(t), t[i] = Blk(trxdc) PROVE i <= Len(s) /\ s[i] = Blk(trxdc)
  <2>2. i \in 1 .. fl \/ i \in fl + 1 .. Len(t)
    OBVIOUS
  <2> QED BY <1>2, <2>2 DEF Same
<1>3. t[fl] = s[fl] /\ Same(s, t, fl - 1)
  BY DEF Same
<1>4. IsTrace(s, fl) <=> IsTrace(t, fl)
  BY <1>3 DEF IsTrace
<1> QED BY <1>1, <1>2, <1>3, <1>4 DEF Move

\* The evaluation of the stage is still there.
LEMMA StageKept ==
    ASSUME UNCHANGED comp, stage = "xt" \/ (stage = "ee" /\ \E p \in 1 .. flptr : Evaluates(p)),
           flptr \in Nat, flptr' \in Nat \ {0},
           \A p \in 1 .. flptr : stack[p][1] = "off" /\ Evaluated(stack, p) => p <= flptr' /\ Kept(stack, stack', p)
    PROVE  InStage'
<1>1. stage' = stage /\ gtcef' = gtcef /\ r_gtc' = r_gtc
  BY DEF comp
<1>2. CASE stage = "xt"
  BY <1>1, <1>2 DEF InStage
<1>3. CASE stage = "ee" /\ \E p \in 1 .. flptr : Evaluates(p)
  <2>1. PICK p \in 1 .. flptr : Evaluates(p)
    BY <1>3
  <2>2. stack[p][1] = "off" /\ Evaluated(stack, p) /\ stack[p - 2] = Adr(gtcef) /\ stack[p - 4] = Blk(r_gtc)
    BY <2>1 DEF Evaluates
  <2>3. p <= flptr' /\ Same(stack, stack', p - 1) /\ stack'[p][1] = "off" /\ p > 6 /\ p \in 1 .. flptr'
    BY <2>2 DEF Kept, Evaluated
  <2>4. PICK t : t = stack'
    OBVIOUS
  <2>5. Evaluated(t, p)
    BY <2>2, <2>3, <2>4, SameEvaluated
  <2>6. t[p - 2] = stack[p - 2] /\ t[p - 4] = stack[p - 4]
    <3>1. p - 2 \in 1 .. p - 1 /\ p - 4 \in 1 .. p - 1
      BY <2>3
    <3> QED BY <2>3, <2>4, <3>1 DEF Same
  <2>7. Evaluates(p)'
    BY <1>1, <2>2, <2>3, <2>4, <2>5, <2>6 DEF Evaluates
  <2> QED BY <1>1, <1>3, <2>3, <2>7 DEF InStage
<1> QED BY <1>2, <1>3

\* What the stage is where no compiler is in error.
LEMMA Staging ==
    ASSUME Inv, stage # "ev", stage # "xc" PROVE stage = "xt" \/ (stage = "ee" /\ \E p \in 1 .. flptr : Evaluates(p))
  BY DEF Inv, InStage

\* It is, when the words are the same up to flptr.
LEMMA StageAbove ==
    ASSUME Inv, UNCHANGED comp, stage \in {"xt", "ee"}, flptr' \in Nat, flptr <= flptr', Same(stack, stack', flptr - 1),
           stack'[flptr][1] = "off"
    PROVE  InStage'
<1>1. flptr \in Nat \ {0}
  BY Basics
<1>2. ASSUME NEW p \in 1 .. flptr, stack[p][1] = "off" PROVE p <= flptr' /\ Kept(stack, stack', p)
  <2>1. Same(stack, stack', p - 1)
    BY <1>1 DEF Same
  <2>2. p = flptr \/ p \in 1 .. flptr - 1
    BY <1>1
  <2>3. stack'[p][1] = "off"
    BY <1>2, <2>2 DEF Same
  <2> QED BY <1>1, <2>1, <2>3 DEF Kept
<1>3. stage = "xt" \/ (stage = "ee" /\ \E p \in 1 .. flptr : Evaluates(p))
  BY Staging
<1> QED BY <1>1, <1>2, <1>3, StageKept

\* It is, when no evaluation is among the words that go.
LEMMA StageBelow ==
    ASSUME Inv, UNCHANGED comp, stage \in {"xt", "ee"}, flptr' \in Nat \ {0}, flptr' <= flptr, Same(stack, stack', flptr'),
           \A p \in flptr' + 1 .. flptr : stack[p][1] = "off" => ~Evaluated(stack, p)
    PROVE  InStage'
<1>1. flptr \in Nat \ {0}
  BY Basics
<1>2. ASSUME NEW p \in 1 .. flptr, stack[p][1] = "off", Evaluated(stack, p) PROVE p <= flptr' /\ Kept(stack, stack', p)
  <2>1. PICK g \in Nat \ {0} : g = flptr'
    OBVIOUS
  <2>2. ~(p \in g + 1 .. flptr)
    BY <1>2, <2>1
  <2>3. p \in 1 .. g
    <3>1. p \in Nat \ {0} /\ p <= flptr /\ flptr \in Nat
      BY <1>1
    <3>2. p > g => p \in g + 1 .. flptr
      BY <3>1
    <3> QED BY <2>2, <3>1, <3>2
  <2>4. stack'[p] = stack[p] /\ Same(stack, stack', p - 1)
    BY <2>1, <2>3 DEF Same
  <2> QED BY <1>2, <2>1, <2>3, <2>4 DEF Kept
<1>3. stage = "xt" \/ (stage = "ee" /\ \E p \in 1 .. flptr : Evaluates(p))
  BY Staging
<1> QED BY <1>1, <1>2, <1>3, StageKept

-----------------------------------------------------------------------------
(***************************************************************************)
(* Operands and brackets.                                                  *)
(***************************************************************************)

\* A step that leaves the values, the limit of errors and the trap.
LEMMA TypedStays ==
    ASSUME Inv, Ghost, UNCHANGED <<vars, kverl, r_sxc, kvtra>>,
           r_cnt' = r_cnt \/ r_cnt' = NoError, stack' \in Seq(Words),
           flptr' <= prog.stack, Len(stack') <= prog.stack + 1, r_cod' \in Blocks \cup {trxdc}, cp' \in Places
    PROVE  Typed'
<1>1. level' \in Nat
  <2>1. flptr \in Nat /\ level \in Nat
    BY Basics DEF Inv, Typed
  <2> QED BY <2>1 DEF Ghost
<1> QED BY <1>1 DEF Inv, Typed, Ghost

\* A step that leaves flptr, and the words below it.
LEMMA FlatKeeps ==
    ASSUME Inv, Ghost, UNCHANGED <<flptr, flprt, comp, kvfnc, vars, kverl, r_sxc, kvtra>>,
           r_cnt' = r_cnt \/ r_cnt' = NoError, kvert' = kvert \/ r_cnt' = NoError,
           stage \in {"xt", "ee"}, ctl \notin {"err07", "stop"}, ctl = "continue" => r_cnt' = NoError, ctl' # "err07",
           stack' \in Seq(Words), flptr <= Len(stack'), Len(stack') <= prog.stack + 1,
           Same(stack, stack', flptr - 1), stack'[flptr][1] = "off", Meets(stack', flptr, stack'[flptr][2]),
           r_cod' \in Blocks \cup {trxdc}, cp' \in Places,
           IsTrace(stack', flptr) <=> r_cod' = trxdc, r_cod' = trxdc <=> r_cod = trxdc,
           \A i \in flptr + 1 .. Len(stack') : stack'[i] = Blk(trxdc) => i <= Len(stack) /\ stack[i] = Blk(trxdc),
           Controlled'
    PROVE  Inv'
<1>1. /\ Len(stack) \in Nat /\ flptr \in Nat \ {0} /\ flptr <= Len(stack) /\ stack[flptr][1] = "off"
      /\ level \in Nat /\ flptr <= prog.stack /\ Chained(stack, flptr)
  BY Basics DEF Inv, Typed
<1>2. PICK t : t = stack' /\ t \in Seq(Words) /\ Len(t) \in Nat /\ flptr <= Len(t)
               /\ Same(stack, t, flptr - 1) /\ t[flptr][1] = "off" /\ Meets(t, flptr, t[flptr][2])
  OBVIOUS
<1>3. IsTrace(stack, flptr) <=> IsTrace(t, flptr)
  BY <1>2 DEF Inv, InTrace, TracesAre
<1>4. Move(stack, flptr, t, flptr)
  BY <1>1, <1>2, <1>3, MoveFlat
<1>5. Chained(t, flptr)
  BY <1>1, <1>2, ChainTop
<1>6. Typed'
  BY <1>1, TypedStays
<1>7. InStage'
  <2>1. flptr' = flptr /\ flptr <= flptr' /\ flptr' \in Nat
    BY <1>1
  <2> QED BY <2>1, StageAbove
<1>8. InTrap'
  <2>1. CASE r_cnt' = NoError
    BY <2>1 DEF InTrap
  <2>2. CASE r_cnt' # NoError
    <3>1. r_cnt' = r_cnt /\ kvert' = kvert /\ ctl # "continue"
      BY <2>2
    <3>2. \A l \in 1 .. Lower(flptr, flptr') : Kept(stack, stack', l)
      <4>1. flptr \in Nat \ {0} /\ \A l \in 1 .. Lower(flptr, flptr) : Kept(stack, t, l)
        BY <1>1, <1>2, <1>4, MoveKept
      <4> QED BY <1>2, <4>1
    <3> QED BY <1>1, <3>1, <3>2, TrapStays DEF Inv
  <2> QED BY <2>1, <2>2
<1>9. Move(stack, flptr, stack', flptr') /\ Chained(stack', flptr') /\ (IsTrace(stack', flptr') <=> r_cod' = trxdc)
  BY <1>2, <1>4, <1>5
<1> QED BY <1>6, <1>7, <1>8, <1>9, Moves

\* An operand.
LEMMA OperandKeeps ==
    ASSUME Inv, Ghost, UNCHANGED kvtra, NEW v \in prog.values, Operand(v) PROVE Inv'
<1>1. /\ Executing /\ Room(1) /\ stack' = Append(stack, Val(v)) /\ cp' = Operands(cp, 1)
      /\ UNCHANGED <<flptr, flprt, r_cod, comp, kvfnc, vars, kverl, kvert, r_sxc, r_cnt, ctl>>
  BY DEF Operand, traps
<1>2. /\ ctl = "run" /\ r_cod \in Blocks /\ Context(stack, r_cod, cp, flptr, Len(stack)) /\ stage \in {"xt", "ee"}
      /\ ~IsTrace(stack, flptr) /\ r_cod # trxdc
  BY <1>1, Running DEF Executing
<1>3. /\ Len(stack) \in Nat /\ flptr \in Nat \ {0} /\ flptr <= Len(stack) /\ stack[flptr][1] = "off" /\ stack \in Seq(Words)
      /\ Meets(stack, flptr, stack[flptr][2])
  BY Basics
<1>4. Val(v) \in Words
  BY WordsAre DEF Inv, Typed, Values
<1>5. PICK t \in Seq(Words) : t = stack' /\ Len(t) = Len(stack) + 1 /\ Same(stack, t, Len(stack)) /\ t[Len(stack) + 1] = Val(v)
  BY <1>1, <1>3, <1>4, AppendIs
<1>6. Same(stack, t, flptr - 1) /\ t[flptr] = stack[flptr] /\ t[flptr][1] = "off"
  BY <1>3, <1>5 DEF Same
<1>7. Meets(t, flptr, t[flptr][2])
  BY <1>3, <1>6, SameMeets
<1>8. ~IsTrace(t, flptr)
  BY <1>2, <1>6 DEF IsTrace
<1>9. Context(t, r_cod, Operands(cp, 1), flptr, Len(stack) + 1)
  <2>1. t[Len(stack) + 1][1] = "val"
    BY <1>5, WordParts
  <2> QED BY <1>2, <1>5, <2>1, ContextPush
<1>10. Controlled'
  BY <1>1, <1>2, <1>5, <1>9 DEF Controlled
<1>11. cp' \in Places
  BY <1>1, <1>9, ContextTypes
<1>12. \A i \in flptr + 1 .. Len(t) : t[i] = Blk(trxdc) => i <= Len(stack) /\ stack[i] = Blk(trxdc)
  <2>1. t[Len(stack) + 1] # Blk(trxdc)
    BY <1>5, WordParts, NotBlock
  <2>2. \A i \in flptr + 1 .. Len(t) : i = Len(stack) + 1 \/ i \in 1 .. Len(stack)
    BY <1>3, <1>5
  <2> QED BY <1>5, <2>1, <2>2 DEF Same
<1>13. Len(t) <= prog.stack + 1 /\ flptr <= Len(t)
  <2>1. prog.stack \in Nat
    BY CallsAssumption DEF Inv, Typed
  <2> QED BY <1>1, <1>3, <1>5, <2>1 DEF Room
<1>14. ctl \notin {"err07", "stop", "continue"} /\ ctl' # "err07" /\ r_cod' # trxdc /\ r_cod' \in Blocks
  BY <1>1, <1>2
<1> QED BY <1>1, <1>2, <1>5, <1>6, <1>7, <1>8, <1>10, <1>11, <1>12, <1>13, <1>14, FlatKeeps

\* o_nta and o_sla.
LEMMA OpenBracketKeeps ==
    ASSUME Inv, Ghost, UNCHANGED kvtra, OpenBracket PROVE Inv'
<1>1. /\ Executing /\ Room(2) /\ cp' = Open(cp) /\ flptr' = Len(stack) + 2
      /\ stack' = stack \o <<Adr(flptr), Off(<<"bracket", r_cod, cp>>)>>
      /\ UNCHANGED <<flprt, r_cod, comp, kvfnc, vars, kverl, kvert, r_sxc, r_cnt, ctl>>
  BY DEF OpenBracket, traps
<1>2. /\ ctl = "run" /\ r_cod \in Blocks /\ Context(stack, r_cod, cp, flptr, Len(stack)) /\ stage \in {"xt", "ee"}
      /\ ~IsTrace(stack, flptr) /\ r_cod # trxdc /\ Clean(stack, flptr, Len(stack))
  BY <1>1, Running DEF Executing
<1>3. /\ Len(stack) \in Nat /\ flptr \in Nat \ {0} /\ flptr <= Len(stack) /\ stack[flptr][1] = "off" /\ stack \in Seq(Words)
      /\ Meets(stack, flptr, stack[flptr][2]) /\ cp \in Places
  BY Basics
<1>4. PICK n \in Nat : n = Len(stack)
  BY <1>3
<1>5. PICK o : o = <<"bracket", r_cod, cp>>
  OBVIOUS
<1>6. o \in Offsets /\ o[1] = "bracket"
  BY <1>2, <1>3, <1>5, OffsetsAre, OffsetParts
<1>7. PICK u \in Seq(Words) : u = <<Adr(flptr), Off(o)>> /\ Len(u) = 2 /\ u[1] = Adr(flptr) /\ u[2] = Off(o)
  <2>1. Adr(flptr) \in Words /\ Off(o) \in Words
    BY <1>3, <1>6, WordsAre
  <2> QED BY <2>1, PairIs
<1>8. PICK t \in Seq(Words) : t = stack' /\ Len(t) = n + 2 /\ Same(stack, t, n) /\ t[n + 1] = Adr(flptr) /\ t[n + 2] = Off(o)
  <2>1. stack' = stack \o u
    BY <1>1, <1>5, <1>7
  <2>2. Len(stack \o u) = n + 2 /\ Same(stack, stack \o u, n) /\ stack \o u \in Seq(Words)
        /\ \A i \in 1 .. 2 : (stack \o u)[n + i] = u[i]
    BY <1>3, <1>4, <1>7, PushIs
  <2>3. 1 \in 1 .. 2 /\ 2 \in 1 .. 2
    OBVIOUS
  <2>4. (stack \o u)[n + 1] = u[1] /\ (stack \o u)[n + 2] = u[2]
    BY <2>2, <2>3, Zenon
  <2>5. PICK t : t = stack'
    OBVIOUS
  <2>6. t = stack \o u
    BY <2>1, <2>5
  <2>7. t[n + 1] = Adr(flptr) /\ t[n + 2] = Off(o)
    BY <1>7, <2>4, <2>6
  <2>8. t \in Seq(Words) /\ Len(t) = n + 2 /\ Same(stack, t, n)
    BY <2>2, <2>6, Zenon
  <2> QED BY <2>5, <2>7, <2>8
<1>9. t[n + 1][1] = "adr" /\ t[n + 1][2] = flptr /\ t[n + 2][1] = "off" /\ t[n + 2][2] = o
  BY <1>8, WordParts
<1>10. Same(stack, t, flptr) /\ Same(stack, t, flptr - 1) /\ t[flptr] = stack[flptr] /\ t[flptr][1] = "off"
  BY <1>3, <1>4, <1>8 DEF Same
<1>11. Clean(t, flptr, n + 1)
  <2>1. \A i \in flptr + 1 .. n + 1 : i = n + 1 \/ (i \in flptr + 1 .. n /\ i \in 1 .. n)
    BY <1>3
  <2> QED BY <1>2, <1>4, <1>8, <1>9, <2>1 DEF Clean, Same
<1>12. PICK p \in Nat : p = n + 2 /\ p > 2 /\ p - 1 = n + 1 /\ p - 2 = n
  BY <1>3, <1>4
<1>13. Bracketed(t, p)
  BY <1>3, <1>4, <1>9, <1>10, <1>11, <1>12 DEF Bracketed
<1>14. Context(t, r_cod, cp, t[p - 1][2], p - 2)
  <2>1. Context(stack, r_cod, cp, flptr, n)
    BY <1>2, <1>4
  <2>2. Context(t, r_cod, cp, flptr, n)
    BY <1>8, <2>1, SameContext
  <2> QED BY <1>9, <1>12, <2>2
<1>15. Linked(t, p) /\ Context(t, r_cod, Open(cp), p, p) /\ Open(cp) \in Places
  BY <1>2, <1>5, <1>8, <1>12, <1>13, <1>14, ContextOpen
<1>16. Chained(t, p)
  <2>1. Chained(stack, flptr)
    BY DEF Inv
  <2>2. Meets(t, flptr, t[flptr][2])
    BY <1>3, <1>10, SameMeets
  <2>3. flptr < p /\ p <= Len(t) /\ Len(t) \in Nat /\ Clean(t, flptr, p - 1) /\ t[p][1] = "off"
    BY <1>3, <1>4, <1>8, <1>9, <1>11, <1>12
  <2> QED BY <1>3, <1>10, <1>15, <2>1, <2>2, <2>3, ChainPush
<1>17. Move(stack, flptr, t, p)
  <2>1. ASSUME NEW i \in flptr + 1 .. p PROVE ~IsCall(t, i) /\ ~IsTrace(t, i)
    <3>1. CASE i = p
      <4>1. ~IsCall(t, i)
        BY <1>9, <1>12, <3>1 DEF IsCall
      <4>2. o # <<"zero">>
        BY <1>6, OffsetParts
      <4>3. ~IsTrace(t, i)
        BY <1>8, <1>12, <3>1, <4>2, NotTrace
      <4> QED BY <4>1, <4>3
    <3>2. CASE i # p
      <4>1. i \in flptr + 1 .. n + 1
        BY <1>12, <3>2
      <4>2. t[i][1] # "off"
        BY <1>11, <4>1 DEF Clean
      <4> QED BY <4>2, NotTrace DEF IsCall
    <3> QED BY <3>1, <3>2
  <2>2. ASSUME NEW i \in flptr + 1 .. Len(t), t[i] = Blk(trxdc) PROVE i <= Len(stack) /\ stack[i] = Blk(trxdc)
    <3>1. i # n + 1 /\ i # n + 2
      BY <1>9, <2>2, NotBlock
    <3>2. i \in 1 .. n
      BY <1>3, <1>8, <3>1
    <3> QED BY <1>4, <1>8, <2>2, <3>2 DEF Same
  <2>3. flptr < p /\ p <= Len(t) /\ Len(t) \in Nat
    BY <1>3, <1>4, <1>8, <1>12
  <2> QED BY <1>2, <1>3, <1>10, <2>1, <2>2, <2>3, MoveUp
<1>18. IsTrace(t, p) <=> r_cod' = trxdc
  <2>1. o # <<"zero">>
    BY <1>6, OffsetParts
  <2> QED BY <1>1, <1>2, <1>8, <1>12, <2>1, NotTrace
<1>19. Typed'
  <2>1. prog.stack \in Nat
    BY CallsAssumption DEF Inv, Typed
  <2>2. p <= prog.stack /\ Len(t) <= prog.stack + 1
    BY <1>1, <1>4, <1>8, <1>12, <2>1 DEF Room
  <2>3. flptr' = p /\ r_cod' \in Blocks \cup {trxdc} /\ cp' \in Places
    BY <1>1, <1>2, <1>4, <1>12, <1>15
  <2> QED BY <1>1, <1>8, <2>2, <2>3, TypedStays
<1>20. Controlled'
  <2>1. flptr' = p /\ Len(t) = p
    BY <1>1, <1>4, <1>8, <1>12
  <2> QED BY <1>1, <1>2, <1>8, <1>15, <2>1 DEF Controlled
<1>21. InStage'
  <2>1. flptr' \in Nat /\ flptr <= flptr'
    BY <1>1, <1>3
  <2> QED BY <1>1, <1>2, <1>8, <1>10, <2>1, StageAbove
<1>22. flptr' = p
  BY <1>1, <1>4, <1>12
<1>23. ctl \notin {"continue", "err07", "stop"} /\ ctl' # "err07"
  BY <1>1, <1>2
<1>24. Move(stack, flptr, stack', flptr') /\ Chained(stack', flptr') /\ (IsTrace(stack', flptr') <=> r_cod' = trxdc)
  BY <1>8, <1>16, <1>17, <1>18, <1>22
<1> QED BY <1>1, <1>19, <1>20, <1>21, <1>23, <1>24, Ordinary

\* Where the offset of a bracket says that the one below it is.
LEMMA BracketEnds ==
    ASSUME Inv, Bracketed(stack, flptr), ~IsTrace(stack, flptr),
           NEW b, NEW c, Context(stack, b, c, stack[flptr - 1][2], flptr - 2)
    PROVE  \E q \in Nat \ {0} :
              /\ q = stack[flptr - 1][2] /\ q <= flptr - 2 /\ stack[q][1] = "off" /\ Chained(stack, q)
              /\ stack[flptr - 1] = Adr(q) /\ Leads(b, stack[q][2])
              /\ \A p \in q + 1 .. flptr : ~IsCall(stack, p) /\ ~IsTrace(stack, p)
              /\ \A p \in q + 1 .. flptr : stack[p][1] = "off" => ~Evaluated(stack, p)
<1>1. /\ Len(stack) \in Nat /\ flptr \in Nat \ {0} /\ flptr <= Len(stack) /\ \A i \in 1 .. Len(stack) : stack[i] \in Words
  BY Basics
<1>2. PICK q \in 1 .. flptr - 2 : q = stack[flptr - 1][2]
  BY DEF Bracketed
<1>3. /\ flptr > 2 /\ stack[flptr - 1][1] = "adr" /\ stack[q][1] = "off" /\ Clean(stack, q, flptr - 1)
  BY <1>2 DEF Bracketed
<1>4. q \in Nat \ {0} /\ q <= flptr - 2 /\ q \in 1 .. flptr
  BY <1>1, <1>2
<1>5. Chained(stack, q)
  BY <1>1, <1>3, <1>4, ChainPop DEF Inv
<1>6. stack[flptr - 1] = Adr(q)
  <2>1. stack[flptr - 1] \in Words
    BY <1>1, <1>3
  <2> QED BY <1>2, <1>3, <2>1, WordKinds
<1>7. Leads(b, stack[q][2])
  <2>1. /\ b \in Blocks \cup {trxdc} /\ c \in Places /\ stack[q] = Off(Awaited(b, c)) /\ Len(c.path) \in Nat
        /\ b = trxdc => Len(c.path) = 1
    BY <1>2, ContextTypes DEF Context
  <2>2. stack[q][2] = Awaited(b, c)
    BY <2>1, WordParts
  <2>3. CASE b = trxdc
    <3>0. ~(1 > 1)
      OBVIOUS
    <3>1. ~(Len(c.path) > 1)
      <4>1. Len(c.path) = 1
        BY <2>1, <2>3, Zenon
      <4> QED BY <3>0, <4>1, Zenon
    <3> QED BY <2>2, <2>3, <3>1 DEF Leads, Awaited
  <2>4. CASE b # trxdc
    BY <2>1, <2>2, <2>4, AwaitedLeads
  <2> QED BY <2>3, <2>4
<1>8. stack[flptr - 1][1] # "pf" /\ stack[flptr - 1] # Other
  BY <1>3, WordParts
<1>9. ASSUME NEW p \in q + 1 .. flptr PROVE ~IsCall(stack, p) /\ ~IsTrace(stack, p) /\ (stack[p][1] = "off" => ~Evaluated(stack, p))
  <2>1. CASE p = flptr
    BY <1>8, <2>1 DEF IsCall, Evaluated
  <2>2. CASE p # flptr
    <3>1. p \in q + 1 .. flptr - 1
      BY <1>1, <1>4, <2>2
    <3>2. stack[p][1] # "off"
      BY <1>3, <3>1 DEF Clean
    <3> QED BY <3>2, NotTrace DEF IsCall
  <2> QED BY <2>1, <2>2
<1> QED BY <1>2, <1>3, <1>4, <1>5, <1>6, <1>7, <1>9

\* flptr goes down to it.
LEMMA BracketKeeps ==
    ASSUME Inv, Ghost, UNCHANGED <<flprt, comp, kvfnc, vars, kverl, kvert, r_sxc, r_cnt, kvtra>>,
           stage \in {"xt", "ee"}, ctl \in {"run", "bracket"}, ctl' # "err07", r_cod' = r_cod, r_cod \in Blocks,
           NEW q \in Nat \ {0}, flptr' = q, q <= flptr - 2, stack[q][1] = "off", Chained(stack, q),
           Leads(r_cod, stack[q][2]),
           \A p \in q + 1 .. flptr : ~IsCall(stack, p) /\ ~IsTrace(stack, p),
           \A p \in q + 1 .. flptr : stack[p][1] = "off" => ~Evaluated(stack, p),
           stack' \in Seq(Words), Len(stack') \in q .. Len(stack), Same(stack, stack', q),
           \A i \in q + 1 .. Len(stack') : stack'[i] = stack[i] \/ stack'[i][1] = "val",
           cp' \in Places, Controlled'
    PROVE  Inv'
<1>1. /\ Len(stack) \in Nat /\ flptr \in Nat \ {0} /\ flptr <= Len(stack)
      /\ flptr <= prog.stack /\ Len(stack) <= prog.stack + 1
  BY Basics DEF Inv, Typed
<1>2. PICK t : t = stack' /\ t \in Seq(Words) /\ Len(t) \in Nat /\ q <= Len(t) /\ Len(t) <= Len(stack)
               /\ Same(stack, t, q) /\ \A i \in q + 1 .. Len(t) : t[i] = stack[i] \/ t[i][1] = "val"
  BY <1>1
<1>3. q <= flptr /\ q <= prog.stack /\ Len(t) <= prog.stack + 1
  <2>1. prog.stack \in Nat
    BY CallsAssumption DEF Inv, Typed
  <2> QED BY <1>1, <1>2, <2>1
<1>4. \A i \in q + 1 .. Len(t) : t[i] = Blk(trxdc) => i <= Len(stack) /\ stack[i] = Blk(trxdc)
  BY <1>1, <1>2, NotBlock
<1>5. Move(stack, flptr, t, q)
  BY <1>1, <1>2, <1>3, <1>4, MoveDown
<1>6. Chained(t, q)
  BY <1>1, <1>2, ChainSame
<1>7. ~IsTrace(t, q) /\ r_cod # trxdc
  <2>0. q \in 1 .. q
    OBVIOUS
  <2>1. t[q] = stack[q]
    BY <1>2, <2>0 DEF Same
  <2>2. stack[q][2] # <<"zero">>
    BY BlocksAre, OffsetParts DEF Leads
  <2>3. ~IsTrace(t, q)
    BY <2>1, <2>2, WordParts DEF IsTrace
  <2> QED BY <2>3, BlocksAre
<1>8. Typed'
  BY <1>2, <1>3, TypedStays
<1>9. InStage'
  BY <1>2, <1>3, StageBelow
<1>10. Move(stack, flptr, stack', flptr') /\ Chained(stack', flptr') /\ (IsTrace(stack', flptr') <=> r_cod' = trxdc)
  BY <1>2, <1>5, <1>6, <1>7
<1>11. ctl \notin {"continue", "err07", "stop"}
  OBVIOUS
<1> QED BY <1>8, <1>9, <1>10, <1>11, Ordinary

\* What holds at the end of a bracket.
LEMMA InBracket ==
    ASSUME Inv, Executing, Len(cp.path) > 1, Count(cp) = 1
    PROVE  /\ ctl = "run" /\ r_cod \in Blocks /\ stage \in {"xt", "ee"} /\ Len(stack) = flptr + 1
           /\ Bracketed(stack, flptr) /\ ~IsTrace(stack, flptr) /\ Close(cp) \in Places
           /\ Context(stack, r_cod, Close(cp), stack[flptr - 1][2], flptr - 2)
           /\ stack[flptr + 1][1] = "val"
<1>1. /\ ctl = "run" /\ r_cod \in Blocks /\ Context(stack, r_cod, cp, flptr, Len(stack)) /\ ~IsTrace(stack, flptr)
      /\ stage \in {"xt", "ee"} /\ stack[flptr] = Off(Awaited(r_cod, cp))
  BY Running
<1>2. Len(stack) = flptr + 1
  BY <1>1 DEF Context
<1>3. stack[flptr][2] = <<"bracket", r_cod, Close(cp)>>
  BY <1>1, WordParts DEF Awaited
<1>4. Bracketed(stack, flptr) /\ Context(stack, r_cod, Close(cp), stack[flptr - 1][2], flptr - 2)
  <2>1. PICK x, y : x = r_cod /\ y = Close(cp)
    OBVIOUS
  <2>2. PICK o : o = <<"bracket", x, y>>
    OBVIOUS
  <2>3. o[1] = "bracket" /\ o[2] = x /\ o[3] = y
    BY <2>2, OffsetParts
  <2>4. Meets(stack, flptr, o)
    BY <1>3, <2>1, <2>2, Basics
  <2> QED BY <2>1, <2>3, <2>4 DEF Meets
<1>5. Close(cp) \in Places
  BY Basics, PlaceClose
<1>6. stack[flptr + 1][1] = "val"
  <2>1. flptr \in Nat /\ flptr + 1 \in Len(stack) - Count(cp) + 1 .. Len(stack)
    BY <1>2, Basics
  <2> QED BY <1>1, <2>1 DEF Context
<1> QED BY <1>1, <1>2, <1>4, <1>5, <1>6

\* o_ntb.
LEMMA NegateValueKeeps ==
    ASSUME Inv, Ghost, UNCHANGED kvtra, NegateValue PROVE Inv'
<1>1. /\ Executing /\ Len(cp.path) > 1 /\ Count(cp) = 1 /\ flptr' = stack[Len(stack) - 2][2] /\ ctl' = "exfal"
      /\ UNCHANGED <<stack, flprt, r_cod, cp, comp, kvfnc, vars, kverl, kvert, r_sxc, r_cnt>>
  BY DEF NegateValue, traps
<1>2. /\ ctl = "run" /\ r_cod \in Blocks /\ stage \in {"xt", "ee"} /\ Len(stack) = flptr + 1
      /\ Bracketed(stack, flptr) /\ ~IsTrace(stack, flptr)
      /\ Context(stack, r_cod, Close(cp), stack[flptr - 1][2], flptr - 2)
  BY <1>1, InBracket
<1>3. Len(stack) \in Nat /\ flptr \in Nat \ {0} /\ stack \in Seq(Words) /\ cp \in Places
  BY Basics
<1>4. PICK q \in Nat \ {0} :
         /\ q = stack[flptr - 1][2] /\ q <= flptr - 2 /\ stack[q][1] = "off" /\ Chained(stack, q)
         /\ stack[flptr - 1] = Adr(q) /\ Leads(r_cod, stack[q][2])
         /\ \A p \in q + 1 .. flptr : ~IsCall(stack, p) /\ ~IsTrace(stack, p)
         /\ \A p \in q + 1 .. flptr : stack[p][1] = "off" => ~Evaluated(stack, p)
  BY <1>2, BracketEnds
<1>5. flptr' = q
  <2>1. Len(stack) - 2 = flptr - 1
    BY <1>2, <1>3
  <2> QED BY <1>1, <1>4, <2>1
<1>6. Len(stack) \in q .. Len(stack) /\ Same(stack, stack, q)
  BY <1>2, <1>3, <1>4 DEF Same
<1>7. Controlled'
  BY <1>1, <1>4, <1>5 DEF Controlled
<1>8. ctl' # "err07" /\ ctl \in {"run", "bracket"}
  BY <1>1, <1>2
<1>9. stack' = stack /\ r_cod' = r_cod /\ cp' \in Places
  BY <1>1, <1>3
<1> QED BY <1>1, <1>2, <1>3, <1>4, <1>5, <1>6, <1>7, <1>8, <1>9, BracketKeeps


\* A bracket is left with one operand more.
LEMMA BracketValue ==
    ASSUME Inv, Ghost, UNCHANGED <<flprt, r_cod, comp, kvfnc, vars, kverl, kvert, r_sxc, r_cnt, kvtra>>,
           stage \in {"xt", "ee"}, ctl \in {"run", "bracket"}, ctl' = "run", r_cod \in Blocks,
           Bracketed(stack, flptr), ~IsTrace(stack, flptr),
           NEW c, Context(stack, r_cod, c, stack[flptr - 1][2], flptr - 2), cp' = Operands(c, 1),
           NEW w \in Words, w[1] = "val", stack' = Append(Cut(flptr - 2), w), flptr' = stack[flptr - 1][2]
    PROVE  Inv'
<1>1. Len(stack) \in Nat /\ flptr \in Nat \ {0} /\ flptr <= Len(stack) /\ stack \in Seq(Words)
  BY Basics
<1>2. PICK q \in Nat \ {0} :
         /\ q = stack[flptr - 1][2] /\ q <= flptr - 2 /\ stack[q][1] = "off" /\ Chained(stack, q)
         /\ stack[flptr - 1] = Adr(q) /\ Leads(r_cod, stack[q][2])
         /\ \A p \in q + 1 .. flptr : ~IsCall(stack, p) /\ ~IsTrace(stack, p)
         /\ \A p \in q + 1 .. flptr : stack[p][1] = "off" => ~Evaluated(stack, p)
  BY BracketEnds
<1>3. PICK n \in Nat : n = flptr - 2 /\ q <= n /\ n < Len(stack)
  BY <1>1, <1>2
<1>4. PICK d \in Seq(Words) : d = Cut(n) /\ Len(d) = n /\ Same(stack, d, n)
  BY <1>1, <1>3, CutIs
<1>5. PICK t \in Seq(Words) : t = stack' /\ Len(t) = n + 1 /\ Same(d, t, n) /\ t[n + 1] = w
  <2>1. stack' = Append(d, w)
    BY <1>3, <1>4
  <2>2. /\ Append(d, w) \in Seq(Words) /\ Len(Append(d, w)) = Len(d) + 1 /\ Same(d, Append(d, w), Len(d))
        /\ Append(d, w)[Len(d) + 1] = w
    BY <1>4, AppendIs
  <2>3. PICK t : t = Append(d, w)
    OBVIOUS
  <2>4. t \in Seq(Words) /\ Len(t) = n + 1 /\ Same(d, t, n) /\ t[n + 1] = w
    BY <1>4, <2>2, <2>3
  <2> QED BY <2>1, <2>3, <2>4
<1>6. Same(stack, t, n) /\ Same(stack, t, q)
  BY <1>3, <1>4, <1>5 DEF Same
<1>7. Context(t, r_cod, Operands(c, 1), q, n + 1)
  BY <1>2, <1>3, <1>5, <1>6, ContextPush
<1>8. cp' \in Places
  BY <1>7, ContextTypes
<1>9. Controlled'
  BY <1>2, <1>5, <1>7 DEF Controlled
<1>10. Len(t) \in q .. Len(stack) /\ \A i \in q + 1 .. Len(t) : t[i] = stack[i] \/ t[i][1] = "val"
  <2>1. \A i \in q + 1 .. n + 1 : i \in 1 .. n \/ i = n + 1
    BY <1>2, <1>3
  <2>2. Len(t) \in q .. Len(stack)
    BY <1>1, <1>3, <1>5
  <2> QED BY <1>5, <1>6, <2>1, <2>2 DEF Same
<1>11. ctl' # "err07" /\ r_cod' = r_cod /\ flptr' = q
  BY <1>2
<1> QED BY <1>2, <1>5, <1>6, <1>8, <1>9, <1>10, <1>11, BracketKeeps

\* o_slb.
LEMMA SelectKeeps ==
    ASSUME Inv, Ghost, UNCHANGED kvtra, Select PROVE Inv'
<1>1. /\ Executing /\ Len(cp.path) > 1 /\ Count(cp) = 1 /\ flptr' = stack[Len(stack) - 2][2]
      /\ stack' = Append(Cut(Len(stack) - 3), Last(stack)) /\ cp' = Operands(Close(cp), 1)
      /\ UNCHANGED <<flprt, r_cod, comp, kvfnc, vars, kverl, kvert, r_sxc, r_cnt, ctl>>
  BY DEF Select, traps
<1>2. /\ ctl = "run" /\ r_cod \in Blocks /\ stage \in {"xt", "ee"} /\ Len(stack) = flptr + 1
      /\ Bracketed(stack, flptr) /\ ~IsTrace(stack, flptr)
      /\ Context(stack, r_cod, Close(cp), stack[flptr - 1][2], flptr - 2)
      /\ stack[flptr + 1][1] = "val"
  BY <1>1, InBracket
<1>3. Len(stack) \in Nat /\ flptr \in Nat \ {0} /\ stack \in Seq(Words) /\ \A i \in 1 .. Len(stack) : stack[i] \in Words
  BY Basics
<1>4. Len(stack) - 2 = flptr - 1 /\ Len(stack) - 3 = flptr - 2
  BY <1>2, <1>3
<1>5. PICK w \in Words : w = stack[flptr + 1] /\ w = Last(stack)
  BY <1>2, <1>3 DEF Last
<1>6. w[1] = "val" /\ stack' = Append(Cut(flptr - 2), w) /\ flptr' = stack[flptr - 1][2]
  BY <1>1, <1>2, <1>4, <1>5
<1>7. ctl' = "run" /\ ctl \in {"run", "bracket"}
  BY <1>1, <1>2
<1> QED BY <1>1, <1>2, <1>6, <1>7, BracketValue

\* What holds where a bracket has failed.
LEMMA AtBracketIs ==
    ASSUME Inv, ctl = "bracket"
    PROVE  /\ r_cod \in Blocks /\ stage \in {"xt", "ee"} /\ Len(stack) = flptr
           /\ Bracketed(stack, flptr) /\ ~IsTrace(stack, flptr)
           /\ Context(stack, r_cod, cp, stack[flptr - 1][2], flptr - 2)
<1>1. AtBracket /\ stage \in {"xt", "ee"}
  BY DEF Inv, Controlled, InStage
<1>2. /\ Len(stack) = flptr /\ Bracketed(stack, flptr) /\ Context(stack, r_cod, cp, stack[flptr - 1][2], flptr - 2)
  BY <1>1 DEF AtBracket, Landed
<1>3. Len(stack) \in Nat /\ flptr \in Nat \ {0} /\ r_cod \in Blocks \cup {trxdc}
  BY Basics
<1>4. r_cod # trxdc
  <2> SUFFICES ASSUME r_cod = trxdc PROVE FALSE
    OBVIOUS
  <2>1. PICK q \in 1 .. flptr - 2 : q = stack[flptr - 1][2]
    BY <1>2 DEF Bracketed
  <2>2. Len(cp.path) = 1 /\ stack[q] = Off(Awaited(r_cod, cp))
    BY <1>2, <2>1 DEF Context
  <2>3. Awaited(r_cod, cp) = <<"zero">>
    <3>1. ~(1 > 1)
      OBVIOUS
    <3>2. ~(Len(cp.path) > 1)
      BY <2>2, <3>1, Zenon
    <3> QED BY <3>2 DEF Awaited
  <2>4. IsTrace(stack, q)
    BY <2>2, <2>3 DEF IsTrace
  <2>5. IsTrace(stack, flptr) /\ \A x, y \in 1 .. flptr : IsTrace(stack, x) /\ IsTrace(stack, y) => x = y
    BY DEF Inv, InTrace, TracesAre
  <2>6. q \in 1 .. flptr /\ flptr \in 1 .. flptr /\ q # flptr
    BY <1>3, <2>1
  <2> QED BY <2>4, <2>5, <2>6
<1>5. ~IsTrace(stack, flptr)
  BY <1>4 DEF Inv, InTrace, TracesAre
<1> QED BY <1>1, <1>2, <1>3, <1>4, <1>5

\* o_ntc.
LEMMA NegateFailureKeeps ==
    ASSUME Inv, Ghost, UNCHANGED kvtra, NegateFailure PROVE Inv'
<1>1. /\ ctl = "bracket" /\ flptr' = stack[Len(stack) - 1][2] /\ stack' = Append(Cut(Len(stack) - 2), Val(Null))
      /\ cp' = Operands(cp, 1) /\ ctl' = "run"
      /\ UNCHANGED <<flprt, r_cod, comp, kvfnc, vars, kverl, kvert, r_sxc, r_cnt>>
  BY DEF NegateFailure, traps
<1>2. /\ r_cod \in Blocks /\ stage \in {"xt", "ee"} /\ Len(stack) = flptr
      /\ Bracketed(stack, flptr) /\ ~IsTrace(stack, flptr)
      /\ Context(stack, r_cod, cp, stack[flptr - 1][2], flptr - 2)
  BY <1>1, AtBracketIs
<1>3. Val(Null) \in Words /\ Val(Null)[1] = "val"
  <2>1. Null \in Values
    BY CallsAssumption DEF Inv, Typed, Values
  <2> QED BY <2>1, WordsAre, WordParts
<1>4. PICK w \in Words : w = Val(Null) /\ w[1] = "val"
  BY <1>3
<1>5. stack' = Append(Cut(flptr - 2), w) /\ flptr' = stack[flptr - 1][2] /\ ctl \in {"run", "bracket"}
  BY <1>1, <1>2, <1>4
<1> QED BY <1>1, <1>2, <1>4, <1>5, BracketValue

\* o_sld.
LEMMA LastAlternativeKeeps ==
    ASSUME Inv, Ghost, UNCHANGED kvtra, LastAlternative PROVE Inv'
<1>1. /\ ctl = "bracket" /\ flptr' = stack[Len(stack) - 1][2] /\ stack' = Cut(Len(stack) - 2) /\ ctl' = "run"
      /\ UNCHANGED <<flprt, r_cod, cp, comp, kvfnc, vars, kverl, kvert, r_sxc, r_cnt>>
  BY DEF LastAlternative, traps
<1>2. /\ r_cod \in Blocks /\ stage \in {"xt", "ee"} /\ Len(stack) = flptr
      /\ Bracketed(stack, flptr) /\ ~IsTrace(stack, flptr)
      /\ Context(stack, r_cod, cp, stack[flptr - 1][2], flptr - 2)
  BY <1>1, AtBracketIs
<1>3. Len(stack) \in Nat /\ flptr \in Nat \ {0} /\ stack \in Seq(Words) /\ cp \in Places
  BY Basics
<1>4. PICK q \in Nat \ {0} :
         /\ q = stack[flptr - 1][2] /\ q <= flptr - 2 /\ stack[q][1] = "off" /\ Chained(stack, q)
         /\ stack[flptr - 1] = Adr(q) /\ Leads(r_cod, stack[q][2])
         /\ \A p \in q + 1 .. flptr : ~IsCall(stack, p) /\ ~IsTrace(stack, p)
         /\ \A p \in q + 1 .. flptr : stack[p][1] = "off" => ~Evaluated(stack, p)
  BY <1>2, BracketEnds
<1>5. PICK n \in Nat : n = flptr - 2 /\ q <= n /\ n < Len(stack)
  BY <1>2, <1>3, <1>4
<1>6. PICK t \in Seq(Words) : t = stack' /\ Len(t) = n /\ Same(stack, t, n)
  <2>1. stack' = Cut(n)
    BY <1>1, <1>2, <1>5
  <2> QED BY <1>3, <1>5, <2>1, CutIs
<1>7. Same(stack, t, q)
  BY <1>4, <1>5, <1>6 DEF Same
<1>8. Context(t, r_cod, cp, q, n)
  BY <1>2, <1>4, <1>5, <1>6, SameContext
<1>9. flptr' = q /\ cp' = cp /\ r_cod' = r_cod /\ Len(t) \in q .. Len(stack)
  BY <1>1, <1>2, <1>3, <1>4, <1>5, <1>6
<1>10. Controlled'
  BY <1>1, <1>6, <1>8, <1>9 DEF Controlled
<1>11. \A i \in q + 1 .. Len(t) : t[i] = stack[i] \/ t[i][1] = "val"
  <2>1. \A i \in q + 1 .. n : i \in 1 .. n
    BY <1>4
  <2> QED BY <1>6, <2>1 DEF Same
<1>12. ctl' # "err07" /\ ctl \in {"run", "bracket"} /\ cp' \in Places
  BY <1>1, <1>3
<1> QED BY <1>1, <1>2, <1>4, <1>6, <1>7, <1>9, <1>10, <1>11, <1>12, BracketKeeps

\* o_slc.
LEMMA NextAlternativeKeeps ==
    ASSUME Inv, Ghost, UNCHANGED kvtra, NextAlternative PROVE Inv'
<1>1. /\ ctl = "bracket" /\ stack' = [stack EXCEPT ![Len(stack)] = Off(<<"bracket", r_cod, cp>>)]
      /\ cp' = Open(cp) /\ ctl' = "run"
      /\ UNCHANGED <<flptr, flprt, r_cod, comp, kvfnc, vars, kverl, kvert, r_sxc, r_cnt>>
  BY DEF NextAlternative, traps
<1>2. /\ r_cod \in Blocks /\ stage \in {"xt", "ee"} /\ Len(stack) = flptr
      /\ Bracketed(stack, flptr) /\ ~IsTrace(stack, flptr)
      /\ Context(stack, r_cod, cp, stack[flptr - 1][2], flptr - 2)
  BY <1>1, AtBracketIs
<1>3. Len(stack) \in Nat /\ flptr \in Nat \ {0} /\ stack \in Seq(Words) /\ cp \in Places /\ flptr \in 1 .. Len(stack)
  BY Basics
<1>4. PICK o : o = <<"bracket", r_cod, cp>>
  OBVIOUS
<1>5. o \in Offsets /\ o[1] = "bracket"
  BY <1>2, <1>3, <1>4, OffsetsAre, OffsetParts
<1>6. Off(o) \in Words
  BY <1>5, WordsAre
<1>7. PICK t \in Seq(Words) : t = [stack EXCEPT ![flptr] = Off(o)] /\ Len(t) = Len(stack) /\ t[flptr] = Off(o)
                              /\ Same(stack, t, flptr - 1)
  BY <1>3, <1>6, ExceptIs
<1>8. t = stack' /\ t[flptr][1] = "off" /\ t[flptr][2] = o
  BY <1>1, <1>2, <1>4, <1>7, WordParts
<1>9. Bracketed(t, flptr)
  BY <1>2, <1>3, <1>7, SameBracketed
<1>10. Context(t, r_cod, cp, t[flptr - 1][2], flptr - 2)
  <2>1. Same(stack, t, flptr - 2)
    BY <1>3, <1>7 DEF Same
  <2>2. flptr - 1 \in 1 .. flptr - 1
    BY <1>2, <1>3 DEF Bracketed
  <2>3. t[flptr - 1] = stack[flptr - 1]
    BY <1>7, <2>2 DEF Same
  <2> QED BY <1>2, <2>1, <2>3, SameContext
<1>11. Linked(t, flptr) /\ Context(t, r_cod, Open(cp), flptr, flptr) /\ Open(cp) \in Places
  BY <1>2, <1>3, <1>4, <1>7, <1>9, <1>10, ContextOpen
<1>12. Meets(t, flptr, t[flptr][2])
  BY <1>11 DEF Linked
<1>13. ~IsTrace(t, flptr) /\ r_cod # trxdc
  <2>1. o # <<"zero">>
    BY <1>5, OffsetParts
  <2> QED BY <1>2, <1>7, <2>1, NotTrace, BlocksAre
<1>14. Controlled'
  BY <1>1, <1>2, <1>7, <1>8, <1>11 DEF Controlled
<1>15. flptr <= Len(t) /\ Len(t) <= prog.stack + 1 /\ \A i \in flptr + 1 .. Len(t) : t[i] # Blk(trxdc)
  BY <1>2, <1>3, <1>7 DEF Inv, Typed
<1>16. ctl \notin {"err07", "stop", "continue"} /\ ctl' # "err07" /\ r_cod' # trxdc /\ r_cod' \in Blocks /\ cp' \in Places
  BY <1>1, <1>2, <1>11, <1>13
<1> QED BY <1>1, <1>2, <1>7, <1>8, <1>12, <1>13, <1>14, <1>15, <1>16, FlatKeeps

-----------------------------------------------------------------------------
(***************************************************************************)
(* Where failures lead, and gotos.                                         *)
(***************************************************************************)

\* What is read at flptr.
LEMMA OffsetIs == ASSUME Inv PROVE Offset(flptr) = stack[flptr][2] /\ Offset(flptr) \in Offsets
<1>1. flptr \in DOMAIN stack /\ stack[flptr][1] = "off" /\ stack[flptr][2] \in Offsets
  BY Basics
<1> QED BY <1>1 DEF Offset

\* The routines at the offsets.
LEMMA LandingIs ==
    ASSUME NEW b
    PROVE  /\ b \in Simple => Landing(b, <<"cdfal">>) = <<"end", Start("body")>>
           /\ Landing(b, <<"gof", b>>) = <<"gof", Start("goto")>>
           /\ Landing(b, <<"fif", b>>) = <<"error", Start("goto")>>
           /\ b \in Stmts => Landing(b, <<"cdcod">>) = <<"run", Start("body")>>
           /\ b \in Exprs => Landing(b, <<"exflc">>) = <<"fex", Start("body")>>
           /\ b = trxdc => Landing(b, <<"zero">>) = <<"txr", Start("trace")>>
           /\ \A o : o[1] = "bracket" /\ o[2] = b => Landing(b, o) = <<"bracket", o[3]>>
<1>1. b \in Simple => Landing(b, <<"cdfal">>) = <<"end", Start("body")>>
  BY DEF Landing
<1>2. Landing(b, <<"gof", b>>) = <<"gof", Start("goto")>>
  BY DEF Landing
<1>3. Landing(b, <<"fif", b>>) = <<"error", Start("goto")>>
  BY DEF Landing
<1>4. b \in Stmts => Landing(b, <<"cdcod">>) = <<"run", Start("body")>>
  BY DEF Landing
<1>5. b \in Exprs => Landing(b, <<"exflc">>) = <<"fex", Start("body")>>
  BY DEF Landing
<1>6. b = trxdc => Landing(b, <<"zero">>) = <<"txr", Start("trace")>>
  BY DEF Landing
<1>7. ASSUME NEW o, o[1] = "bracket", o[2] = b PROVE Landing(b, o) = <<"bracket", o[3]>>
  <2>1. o # <<"cdfal">> /\ o # <<"gof", b>> /\ o # <<"fif", b>> /\ o # <<"cdcod">> /\ o # <<"exflc">>
    BY <1>7
  <2> QED BY <1>7, <2>1 DEF Landing
<1> QED BY <1>1, <1>2, <1>3, <1>4, <1>5, <1>6, <1>7

\* Control goes to where o leads, the stack being cut at flptr.
LEMMA LandsAt ==
    ASSUME Inv, UNCHANGED flptr, NEW b \in Blocks \cup {trxdc}, NEW o \in Offsets, Leads(b, o), Meets(stack, flptr, o),
           stack[flptr] = Off(o) \/ o[1] \in {"bracket", "exflc"}, Lands(Cut(flptr), b, o)
    PROVE  /\ Controlled' /\ ctl' # "err07" /\ r_cod' = b /\ cp' \in Places
           /\ stack' \in Seq(Words) /\ Len(stack') = flptr /\ Same(stack, stack', flptr)
<1>1. Len(stack) \in Nat /\ flptr \in Nat \ {0} /\ flptr <= Len(stack) /\ stack \in Seq(Words)
  BY Basics
<1>2. stack' = Cut(flptr) /\ r_cod' = b /\ ctl' = Landing(b, o)[1] /\ cp' = Landing(b, o)[2]
  BY DEF Lands
<1>a. PICK l : l = Landing(b, o)
  OBVIOUS
<1>b. ASSUME NEW x, NEW y, l = <<x, y>> PROVE ctl' = x /\ cp' = y
  <2>1. l[1] = x /\ l[2] = y
    BY <1>b
  <2>2. ctl' = l[1] /\ cp' = l[2]
    BY <1>2, <1>a
  <2> QED BY <2>1, <2>2
<1>3. PICK t \in Seq(Words) : t = stack' /\ Len(t) = flptr /\ Same(stack, t, flptr)
  BY <1>1, <1>2, CutIs
<1>4. t[flptr] = stack[flptr] /\ Same(stack, t, flptr - 1)
  BY <1>1, <1>3 DEF Same
<1>5. Landed'
  BY <1>3 DEF Landed
<1>6. Meets(t, flptr, o)
  BY <1>1, <1>4, SameMeets
<1>7. b # trxdc \/ b \notin Blocks
  BY BlocksAre
<1>8. CASE b \in Simple /\ o = <<"cdfal">>
  <2>0. l = <<"end", Start("body")>>
    BY <1>a, <1>8, LandingIs
  <2>1. ctl' = "end" /\ cp' = Start("body")
    BY <1>b, <2>0
  <2>2. stack[flptr] = Off(o)
    BY <1>8, OffsetParts
  <2>3. Controlled'
    BY <1>2, <1>3, <1>4, <1>5, <1>8, <2>1, <2>2 DEF Controlled
  <2> QED BY <1>2, <1>3, <2>1, <2>3, PlaceStart
<1>9. CASE b \in Complex /\ o = <<"gof", b>>
  <2>0. l = <<"gof", Start("goto")>>
    BY <1>a, <1>9, LandingIs
  <2>1. ctl' = "gof" /\ cp' = Start("goto")
    BY <1>b, <2>0
  <2>2. stack[flptr] = Off(o)
    BY <1>9, OffsetParts
  <2>3. Controlled'
    BY <1>2, <1>3, <1>4, <1>5, <1>9, <2>1, <2>2 DEF Controlled
  <2> QED BY <1>2, <1>3, <2>1, <2>3, PlaceStart
<1>10. CASE b \in Stmts /\ o = <<"fif", b>>
  <2>0. l = <<"error", Start("goto")>>
    BY <1>a, <1>10, LandingIs
  <2>1. ctl' = "error" /\ cp' = Start("goto")
    BY <1>b, <2>0
  <2>2. stack[flptr] = Off(o)
    BY <1>10, OffsetParts
  <2>3. t[flptr][2] = o
    BY <1>4, <2>2, WordParts
  <2>4. AtError'
    BY <1>2, <1>3, <1>10, <2>3, BlocksAre DEF AtError
  <2>5. Controlled'
    BY <2>1, <2>4 DEF Controlled
  <2> QED BY <1>2, <1>3, <2>1, <2>5, PlaceStart
<1>11. CASE b \in Exprs /\ o = <<"exflc">>
  <2>0. l = <<"fex", Start("body")>>
    BY <1>a, <1>11, LandingIs
  <2>1. ctl' = "fex" /\ cp' = Start("body")
    BY <1>b, <2>0
  <2>2. Evaluated(t, flptr)
    BY <1>6, <1>11 DEF Meets
  <2>3. Controlled'
    BY <1>2, <1>3, <1>5, <1>11, <2>1, <2>2 DEF Controlled
  <2> QED BY <1>2, <1>3, <2>1, <2>3, PlaceStart
<1>12. CASE b = trxdc /\ o = <<"zero">>
  <2>0. l = <<"txr", Start("trace")>>
    BY <1>a, <1>12, LandingIs
  <2>1. ctl' = "txr" /\ cp' = Start("trace")
    BY <1>b, <2>0
  <2>2. Controlled'
    BY <1>2, <1>5, <1>12, <2>1 DEF Controlled
  <2> QED BY <1>2, <1>3, <2>1, <2>2, PlaceStart
<1>13. CASE o[1] = "bracket" /\ o[2] = b
  <2>0. l = <<"bracket", o[3]>>
    BY <1>a, <1>13, LandingIs
  <2>1. ctl' = "bracket" /\ cp' = o[3]
    BY <1>b, <2>0
  <2>2. o[3] \in Places
    BY <1>13, OffsetKinds
  <2>3. Bracketed(t, flptr) /\ Context(t, b, o[3], t[flptr - 1][2], flptr - 2)
    BY <1>6, <1>13 DEF Meets
  <2>4. AtBracket'
    BY <1>2, <1>3, <1>5, <2>1, <2>3 DEF AtBracket
  <2>5. Controlled'
    BY <2>1, <2>4 DEF Controlled
  <2> QED BY <1>2, <1>3, <2>1, <2>2, <2>5
<1> QED BY <1>8, <1>9, <1>10, <1>11, <1>12, <1>13 DEF Leads

\* exfal.
LEMMA ExfalKeeps ==
    ASSUME Inv, Ghost, UNCHANGED kvtra, Exfal PROVE Inv'
<1>1. /\ ctl = "exfal" /\ Lands(Cut(flptr), r_cod, Offset(flptr))
      /\ UNCHANGED <<flptr, flprt, comp, kvfnc, vars, kverl, kvert, r_sxc, r_cnt>>
  BY DEF Exfal, traps
<1>2. Leads(r_cod, stack[flptr][2]) /\ stage \in {"xt", "ee"}
  BY <1>1 DEF Inv, Controlled, InStage
<1>3. /\ Len(stack) \in Nat /\ flptr \in Nat \ {0} /\ flptr <= Len(stack) /\ stack[flptr][1] = "off"
      /\ stack[flptr] = Off(stack[flptr][2]) /\ stack[flptr][2] \in Offsets
      /\ Meets(stack, flptr, stack[flptr][2]) /\ r_cod \in Blocks \cup {trxdc}
  BY Basics
<1>4. Lands(Cut(flptr), r_cod, stack[flptr][2])
  BY <1>1, OffsetIs
<1>5. /\ Controlled' /\ ctl' # "err07" /\ r_cod' = r_cod /\ cp' \in Places
      /\ stack' \in Seq(Words) /\ Len(stack') = flptr /\ Same(stack, stack', flptr)
  BY <1>1, <1>2, <1>3, <1>4, LandsAt
<1>6. PICK t \in Seq(Words) : t = stack' /\ Len(t) = flptr /\ Same(stack, t, flptr)
  BY <1>5
<1>7. t[flptr] = stack[flptr] /\ Same(stack, t, flptr - 1) /\ t[flptr][1] = "off"
  BY <1>3, <1>6 DEF Same
<1>8. Meets(t, flptr, t[flptr][2])
  BY <1>3, <1>7, SameMeets
<1>9. IsTrace(t, flptr) <=> r_cod = trxdc
  BY <1>7 DEF Inv, InTrace, TracesAre, IsTrace
<1>10. flptr <= Len(t) /\ Len(t) <= prog.stack + 1 /\ \A i \in flptr + 1 .. Len(t) : t[i] # Blk(trxdc)
  <2>1. prog.stack \in Nat
    BY CallsAssumption DEF Inv, Typed
  <2> QED BY <1>3, <1>6, <2>1 DEF Inv, Typed
<1>11. ctl \notin {"err07", "stop", "continue"}
  BY <1>1
<1> QED BY <1>1, <1>2, <1>3, <1>5, <1>6, <1>7, <1>8, <1>9, <1>10, <1>11, FlatKeeps

\* o_gof.
LEMMA GotoTrapKeeps ==
    ASSUME Inv, Ghost, UNCHANGED kvtra, GotoTrap PROVE Inv'
<1>1. /\ ctl = "gof" /\ stack' = [stack EXCEPT ![flptr] = Off(Ica(Offset(flptr)))] /\ ctl' = "run"
      /\ UNCHANGED <<flptr, flprt, r_cod, cp, comp, kvfnc, vars, kverl, kvert, r_sxc, r_cnt>>
  BY DEF GotoTrap, traps, regs
<1>2. /\ Len(stack) = flptr /\ r_cod \in Complex /\ stack[flptr] = Off(<<"gof", r_cod>>) /\ cp = Start("goto")
      /\ stage \in {"xt", "ee"}
  BY <1>1 DEF Inv, Controlled, InStage, Landed
<1>3. /\ Len(stack) \in Nat /\ flptr \in Nat \ {0} /\ flptr \in 1 .. Len(stack) /\ stack \in Seq(Words)
      /\ cp \in Places
  BY Basics
<1>4. r_cod \in Stmts /\ r_cod \in Blocks /\ r_cod # trxdc /\ r_cod \notin Exprs
  BY <1>2, BlocksAre
<1>5. Ica(Offset(flptr)) = <<"fif", r_cod>>
  <2>1. Offset(flptr) = <<"gof", r_cod>>
    BY <1>2, OffsetIs, WordParts
  <2> QED BY <2>1, OffsetParts DEF Ica
<1>6. PICK o \in Offsets : o = <<"fif", r_cod>> /\ o[1] = "fif"
  <2>1. PICK o : o = <<"fif", r_cod>>
    OBVIOUS
  <2> QED BY <1>2, <2>1, OffsetsAre, OffsetParts
<1>7. Off(o) \in Words
  BY WordsAre
<1>8. PICK t \in Seq(Words) : t = [stack EXCEPT ![flptr] = Off(o)] /\ Len(t) = Len(stack) /\ t[flptr] = Off(o)
                              /\ Same(stack, t, flptr - 1)
  BY <1>3, <1>7, ExceptIs
<1>9. t = stack' /\ t[flptr][1] = "off" /\ t[flptr][2] = o
  BY <1>1, <1>5, <1>6, <1>8, WordParts
<1>10. Meets(t, flptr, t[flptr][2]) /\ o # <<"zero">>
  BY <1>6, <1>9, OffsetParts DEF Meets
<1>11. ~IsTrace(t, flptr)
  BY <1>8, <1>10, NotTrace
<1>12. Context(t, r_cod, cp, flptr, flptr)
  <2>1. PICK c \in Places : c = cp /\ Count(c) = 0 /\ Len(c.path) = 1 /\ c.at = "goto"
    BY <1>2, <1>3, PlaceStart
  <2>2. Awaited(r_cod, c) = o
    <3>1. ~(1 > 1)
      OBVIOUS
    <3>2. ~(Len(c.path) > 1)
      BY <2>1, <3>1, Zenon
    <3> QED BY <1>4, <1>6, <2>1, <3>2 DEF Awaited
  <2>3. Context(t, r_cod, c, flptr, flptr)
    BY <1>3, <1>4, <1>8, <2>1, <2>2 DEF Context, Clean
  <2> QED BY <2>1, <2>3
<1>13. Controlled'
  BY <1>1, <1>2, <1>8, <1>9, <1>12 DEF Controlled
<1>14. flptr <= Len(t) /\ Len(t) <= prog.stack + 1 /\ \A i \in flptr + 1 .. Len(t) : t[i] # Blk(trxdc)
  BY <1>2, <1>3, <1>8 DEF Inv, Typed
<1>15. ctl \notin {"err07", "stop", "continue"} /\ ctl' # "err07" /\ r_cod' # trxdc /\ r_cod' \in Blocks /\ cp' \in Places
  BY <1>1, <1>3, <1>4
<1> QED BY <1>1, <1>2, <1>4, <1>8, <1>9, <1>10, <1>11, <1>13, <1>14, <1>15, FlatKeeps

\* A statement is entered.
LEMMA EnterIs ==
    ASSUME NEW b \in Stmts, NEW s \in Seq(Words), NEW fl \in Nat \ {0}, fl <= Len(s), Enter(b, s, fl)
    PROVE  /\ flptr' = fl /\ r_cod' = b /\ b # trxdc /\ cp' \in Places /\ ctl' \in {"run", "interrupt"}
           /\ stack' \in Seq(Words) /\ fl <= Len(stack') /\ Len(stack') <= fl + 1 /\ Same(s, stack', fl - 1)
           /\ stack'[fl] = Off(FailOffset(b)) /\ stack'[fl][1] = "off" /\ stack'[fl][2] = FailOffset(b)
           /\ \A i \in fl + 1 .. Len(stack') : stack'[i] = Other
           /\ Meets(stack', fl, stack'[fl][2]) /\ ~IsTrace(stack', fl) /\ Controlled'
<1>1. /\ flptr' = fl /\ r_cod' = b /\ cp' = Start("body") /\ ctl' \in {"run", "interrupt"}
      /\ stack' = [SubSeq(s, 1, fl) EXCEPT ![fl] = Off(FailOffset(b))]
                  \o IF ctl' = "interrupt" THEN <<Other>> ELSE <<>>
  BY DEF Enter
<1>2. PICK o \in Offsets : o = FailOffset(b) /\ o[1] \in {"cdfal", "gof"}
  BY OffsetsAre, OffsetParts
<1>3. Off(o) \in Words /\ Off(o)[1] = "off" /\ Off(o)[2] = o
  BY WordsAre, WordParts
<1>4. PICK d \in Seq(Words) : d = SubSeq(s, 1, fl) /\ Len(d) = fl /\ Same(s, d, fl)
  BY PrefixIs
<1>5. PICK e \in Seq(Words) : e = [d EXCEPT ![fl] = Off(o)] /\ Len(e) = fl /\ e[fl] = Off(o) /\ Same(d, e, fl - 1)
  <2>1. fl \in 1 .. Len(d)
    BY <1>4
  <2> QED BY <1>3, <1>4, <2>1, ExceptIs
<1>c. PICK u : u = IF ctl' = "interrupt" THEN <<Other>> ELSE <<>>
  OBVIOUS
<1>6. u \in Seq(Words) /\ Len(u) \in 0 .. 1 /\ \A i \in 1 .. Len(u) : u[i] = Other
  <2>1. CASE u = <<Other>>
    <3>1. PICK w \in Words : w = Other
      BY WordsAre
    <3>2. u = <<w>>
      BY <2>1, <3>1
    <3>3. u \in Seq(Words) /\ Len(u) = 1 /\ u[1] = w
      BY <3>2
    <3> QED BY <3>1, <3>3
  <2>2. CASE u = <<>>
    BY <2>2
  <2> QED BY <1>c, <2>1, <2>2
<1>7. stack' = e \o u
  BY <1>1, <1>2, <1>4, <1>5, <1>c
<1>8. /\ e \o u \in Seq(Words) /\ Len(e \o u) = Len(e) + Len(u) /\ Same(e, e \o u, Len(e))
      /\ \A i \in Len(e) + 1 .. Len(e) + Len(u) : (e \o u)[i] = u[i - Len(e)]
  BY <1>5, <1>6, PushIs
<1>9. PICK t : t = e \o u
  OBVIOUS
<1>10. /\ t \in Seq(Words) /\ Len(t) = fl + Len(u) /\ Same(e, t, fl) /\ t = stack'
       /\ \A i \in fl + 1 .. fl + Len(u) : t[i] = u[i - fl]
  <2>1. Len(e) = fl
    BY <1>5
  <2>2. t \in Seq(Words) /\ t = stack'
    BY <1>7, <1>8, <1>9
  <2>3. Len(t) = fl + Len(u) /\ Same(e, t, fl)
    BY <1>8, <1>9, <2>1, Zenon
  <2>4. \A i \in fl + 1 .. fl + Len(u) : t[i] = u[i - fl]
    BY <1>8, <1>9, <2>1, Zenon
  <2> QED BY <2>2, <2>3, <2>4
<1>11. fl <= Len(t) /\ Len(t) <= fl + 1 /\ Len(t) \in Nat
  <2>1. PICK k \in 0 .. 1 : k = Len(u)
    BY <1>6
  <2>2. Len(t) = fl + k
    BY <1>10, <2>1
  <2> QED BY <2>2
<1>12. \A i \in fl + 1 .. Len(t) : t[i] = Other /\ t[i][1] # "off"
  <2>1. \A i \in fl + 1 .. Len(t) : i - fl \in 1 .. Len(u)
    BY <1>6, <1>10
  <2> QED BY <1>6, <1>10, <2>1, WordParts
<1>13. t[fl] = Off(FailOffset(b)) /\ t[fl][1] = "off" /\ t[fl][2] = FailOffset(b) /\ Same(s, t, fl - 1)
  <2>1. fl \in 1 .. fl
    OBVIOUS
  <2>2. t[fl] = e[fl]
    BY <1>10, <2>1 DEF Same
  <2>3. t[fl] = Off(o)
    BY <1>5, <2>2
  <2>4. Same(s, t, fl - 1)
    BY <1>4, <1>5, <1>10 DEF Same
  <2> QED BY <1>2, <1>3, <2>3, <2>4
<1>14. Meets(t, fl, t[fl][2])
  <2>1. o[1] # "bracket" /\ o # <<"exflc">> /\ o # <<"zero">>
    BY <1>2, OffsetParts
  <2> QED BY <1>2, <1>13, <2>1 DEF Meets
<1>15. ~IsTrace(t, fl) /\ b # trxdc
  BY <1>13, NotTrace, BlocksAre
<1>16. Context(t, b, Start("body"), fl, Len(t))
  BY <1>11, <1>12, <1>13, ContextStart DEF Clean
<1>17. Controlled'
  <2>1. CASE ctl' = "run"
    BY <1>1, <1>10, <1>16, <2>1 DEF Controlled
  <2>2. CASE ctl' = "interrupt"
    BY <1>1, <1>10, <1>13, <2>2 DEF Controlled, AtInterrupt
  <2> QED BY <1>1, <2>1, <2>2
<1>18. cp' \in Places
  BY <1>1, PlaceStart
<1> QED BY <1>1, <1>10, <1>11, <1>12, <1>13, <1>14, <1>15, <1>17, <1>18

\* A goto to a statement.
LEMMA GotoKeeps ==
    ASSUME Inv, Ghost, UNCHANGED kvtra, NEW b \in Stmts, Goto(b) PROVE Inv'
<1>1. /\ AtEnd /\ Enter(b, Cut(flptr), flptr)
      /\ UNCHANGED <<flprt, comp, kvfnc, vars, kverl, kvert, r_sxc, r_cnt>>
  BY DEF Goto, traps
<1>2. ctl \in {"run", "end"} /\ ~IsTrace(stack, flptr) /\ stage \in {"xt", "ee"} /\ r_cod # trxdc
  BY <1>1, Ending, BlocksAre
<1>3. Len(stack) \in Nat /\ flptr \in Nat \ {0} /\ flptr <= Len(stack) /\ stack \in Seq(Words)
  BY Basics
<1>4. PICK s \in Seq(Words) : s = Cut(flptr) /\ Len(s) = flptr /\ Same(stack, s, flptr)
  BY <1>3, CutIs
<1>5. PICK t \in Seq(Words) :
         /\ t = stack' /\ flptr <= Len(t) /\ Len(t) <= flptr + 1 /\ Same(s, t, flptr - 1)
         /\ t[flptr][1] = "off" /\ Meets(t, flptr, t[flptr][2]) /\ ~IsTrace(t, flptr)
         /\ \A i \in flptr + 1 .. Len(t) : t[i] = Other
  BY <1>1, <1>3, <1>4, EnterIs
<1>6. /\ flptr' = flptr /\ r_cod' = b /\ b # trxdc /\ cp' \in Places /\ ctl' \in {"run", "interrupt"} /\ Controlled'
      /\ b \in Blocks
  BY <1>1, <1>3, <1>4, EnterIs, BlocksAre
<1>7. Same(stack, t, flptr - 1)
  BY <1>3, <1>4, <1>5 DEF Same
<1>8. \A i \in flptr + 1 .. Len(t) : t[i] # Blk(trxdc)
  BY <1>5, WordParts, NotBlock
<1>9. Len(t) <= prog.stack + 1
  <2>1. prog.stack \in Nat /\ flptr <= prog.stack
    BY CallsAssumption DEF Inv, Typed
  <2> QED BY <1>3, <1>5, <2>1
<1>10. ctl \notin {"err07", "stop", "continue"} /\ ctl' # "err07"
  BY <1>2, <1>6
<1> QED BY <1>1, <1>2, <1>5, <1>6, <1>7, <1>8, <1>9, <1>10, FlatKeeps

\* The stack stays as it is, and what CONTINUE needs is used up.
LEMMA StackFlat ==
    ASSUME Inv, Ghost, UNCHANGED <<stack, flptr, flprt, comp, kvfnc, vars, kverl, r_sxc, kvtra>>, r_cnt' = NoError,
           stage \in {"xt", "ee"}, ctl \notin {"err07", "stop"}, ctl' # "err07",
           r_cod' \in Blocks \cup {trxdc}, r_cod' = trxdc <=> r_cod = trxdc, cp' \in Places, Controlled'
    PROVE  Inv'
<1>1. /\ Len(stack) \in Nat /\ flptr \in Nat \ {0} /\ flptr <= Len(stack) /\ stack[flptr][1] = "off" /\ stack \in Seq(Words)
      /\ Meets(stack, flptr, stack[flptr][2])
  BY Basics
<1>2. PICK t \in Seq(Words) : t = stack' /\ t = stack
  BY <1>1
<1>3. Same(stack, t, flptr - 1) /\ t[flptr][1] = "off" /\ Meets(t, flptr, t[flptr][2])
  BY <1>1, <1>2 DEF Same
<1>4. IsTrace(t, flptr) <=> r_cod = trxdc
  BY <1>2 DEF Inv, InTrace, TracesAre
<1>5. flptr <= Len(t) /\ Len(t) <= prog.stack + 1
  BY <1>1, <1>2 DEF Inv, Typed
<1>6. \A i \in flptr + 1 .. Len(t) : t[i] = Blk(trxdc) => i <= Len(stack) /\ stack[i] = Blk(trxdc)
  BY <1>1, <1>2
<1> QED BY <1>2, <1>3, <1>4, <1>5, <1>6, FlatKeeps

\* What CONTINUE needs is still there.
LEMMA ContinueWhere ==
    ASSUME Inv, r_cnt # NoError, ctl = "continue" \/ (AtEnd /\ level = flptr)
    PROVE  /\ r_cnt.blk \in Blocks \cup {trxdc} /\ r_cnt.off \in Offsets /\ r_cnt.at \in Places
           /\ Leads(r_cnt.blk, r_cnt.off) /\ Meets(stack, flptr, r_cnt.off)
           /\ r_cnt.blk = trxdc <=> r_cod = trxdc
           /\ ctl = "continue" => stack[flptr] = Off(r_cnt.off)
           /\ stage \in {"xt", "ee"} /\ ctl \notin {"err07", "stop"}
<1>1. /\ r_cnt.blk \in Blocks \cup {trxdc} /\ r_cnt.off \in Offsets /\ r_cnt.at \in Places
  BY DEF Inv, Typed
<1>2. flptr \in Nat \ {0} /\ Meets(stack, flptr, stack[flptr][2])
  BY Basics
<1>3. CASE ctl = "continue"
  <2>1. Leads(r_cod, stack[flptr][2]) /\ r_cnt.blk = r_cod /\ stack[flptr] = Off(r_cnt.off) /\ stage \in {"xt", "ee"}
    BY <1>3 DEF Inv, Controlled, AtError, InStage
  <2>2. stack[flptr][2] = r_cnt.off
    BY <2>1, WordParts
  <2> QED BY <1>1, <1>2, <1>3, <2>1, <2>2
<1>4. CASE ctl # "continue"
  <2>1. AtEnd /\ level = flptr
    BY <1>4
  <2>2. r_cod # trxdc /\ stage \in {"xt", "ee"} /\ ctl \in {"run", "end"}
    BY <2>1, Ending, BlocksAre
  <2>3. Leads(r_cnt.blk, r_cnt.off) /\ Meets(stack, level, r_cnt.off) /\ r_cnt.blk # trxdc
    BY <1>2, <1>4, <2>1 DEF Inv, InTrap
  <2> QED BY <1>1, <1>4, <2>1, <2>2, <2>3
<1> QED BY <1>3, <1>4

\* lcnt1.
LEMMA ContinueKeeps ==
    ASSUME Inv, Ghost, UNCHANGED kvtra, faults' = {}, Continue PROVE Inv'
<1>1. /\ ctl = "continue" \/ AtEnd
      /\ UNCHANGED <<flptr, flprt, comp, kvfnc, vars, kverl, kvert, r_sxc>>
  BY DEF Continue
<1>0. r_cnt' = NoError
  BY DEF Continue
<1>2. cp \in Places /\ r_cod \in Blocks \cup {trxdc} /\ stack[flptr] = Off(stack[flptr][2])
  BY Basics
<1>3. CASE r_cnt = NoError
  <2>1. ctl' = "error" /\ UNCHANGED <<stack, r_cod, cp>>
    BY <1>3 DEF Continue
  <2>2. ctl # "continue"
    BY <1>3 DEF Inv, Controlled
  <2>3. AtEnd
    BY <1>1, <2>2
  <2>4. ctl \in {"run", "end"} /\ r_cod \in Stmts /\ Leads(r_cod, stack[flptr][2]) /\ stage \in {"xt", "ee"}
    BY <2>3, Ending
  <2>5. AtError'
    BY <1>1, <2>1, <2>4, ErrorFrom, BlocksAre
  <2>6. Controlled'
    BY <2>1, <2>5 DEF Controlled
  <2>7. /\ ctl \notin {"err07", "stop"} /\ ctl' # "err07" /\ r_cod' \in Blocks \cup {trxdc} /\ r_cod' = r_cod
        /\ cp' \in Places
    BY <1>2, <2>1, <2>4
  <2> QED BY <1>0, <1>1, <2>1, <2>4, <2>6, <2>7, StackFlat
<1>4. CASE r_cnt # NoError
  <2>1. PICK b, o, at : b = r_cnt.blk /\ o = r_cnt.off /\ at = r_cnt.at
    OBVIOUS
  <2>2. PICK beyond \in BOOLEAN : beyond <=> b \in Complex /\ ~Before(at, o)
    OBVIOUS
  <2>3. ctl = "continue" \/ (AtEnd /\ level = flptr)
    <3>1. Met("level", ~SameLevel) = {}
      BY <1>4 DEF Continue
    <3> QED BY <1>1, <3>1 DEF Met, SameLevel
  <2>4. /\ b \in Blocks \cup {trxdc} /\ o \in Offsets /\ Leads(b, o) /\ Meets(stack, flptr, o)
        /\ b = trxdc <=> r_cod = trxdc
        /\ stage \in {"xt", "ee"} /\ ctl \notin {"err07", "stop"}
    BY <1>4, <2>1, <2>3, ContinueWhere
  <2>5. ~(Overwritten /\ (beyond \/ o[1] \notin {"bracket", "exflc"}))
    BY <1>4, <2>1, <2>2 DEF Continue, Met
  <2>6. Overwritten <=> stack[flptr][2] # o
    BY <2>1, OffsetIs DEF Overwritten
  <2>7. CASE beyond
    <3>1. ctl' = "error" /\ r_cod' = b /\ UNCHANGED <<stack, cp>>
      BY <1>4, <2>1, <2>2, <2>7 DEF Continue
    <3>2. stack[flptr][2] = o /\ b # trxdc /\ b \in Blocks
      BY <2>2, <2>5, <2>6, <2>7, BlocksAre
    <3>3. AtError'
      BY <1>1, <2>4, <3>1, <3>2 DEF AtError
    <3>4. Controlled'
      BY <3>1, <3>3 DEF Controlled
    <3>5. ctl' # "err07" /\ cp' \in Places /\ r_cod' \in Blocks \cup {trxdc} /\ (r_cod' = trxdc <=> r_cod = trxdc)
      BY <1>2, <2>4, <3>1
    <3> QED BY <1>0, <1>1, <2>4, <3>1, <3>4, <3>5, StackFlat
  <2>8. CASE ~beyond
    <3>1. Lands(Cut(flptr), b, o)
      BY <1>4, <2>1, <2>2, <2>8 DEF Continue
    <3>2. stack[flptr] = Off(o) \/ o[1] \in {"bracket", "exflc"}
      BY <1>2, <2>5, <2>6
    <3>3. /\ Controlled' /\ ctl' # "err07" /\ r_cod' = b /\ cp' \in Places
          /\ stack' \in Seq(Words) /\ Len(stack') = flptr /\ Same(stack, stack', flptr)
      BY <1>1, <2>4, <3>1, <3>2, LandsAt
    <3>4. PICK t \in Seq(Words) : t = stack' /\ Len(t) = flptr /\ Same(stack, t, flptr)
      BY <3>3
    <3>5. flptr \in Nat \ {0} /\ stack[flptr][1] = "off" /\ Meets(stack, flptr, stack[flptr][2]) /\ flptr <= Len(stack)
          /\ Len(stack) \in Nat
      BY Basics
    <3>6. t[flptr] = stack[flptr] /\ Same(stack, t, flptr - 1) /\ t[flptr][1] = "off"
      BY <3>4, <3>5 DEF Same
    <3>7. Meets(t, flptr, t[flptr][2])
      BY <3>5, <3>6, SameMeets
    <3>8. IsTrace(t, flptr) <=> r_cod' = trxdc
      BY <2>4, <3>3, <3>6 DEF Inv, InTrace, TracesAre, IsTrace
    <3>9. flptr <= Len(t) /\ Len(t) <= prog.stack + 1 /\ \A i \in flptr + 1 .. Len(t) : t[i] # Blk(trxdc)
      <4>1. prog.stack \in Nat
        BY CallsAssumption DEF Inv, Typed
      <4> QED BY <3>4, <3>5, <4>1 DEF Inv, Typed
    <3>10. r_cod' = trxdc <=> r_cod = trxdc
      BY <2>4, <3>3
    <3>11. r_cod' \in Blocks \cup {trxdc}
      BY <2>4, <3>3
    <3> QED BY <1>0, <1>1, <2>4, <3>3, <3>4, <3>6, <3>7, <3>8, <3>9, <3>10, <3>11, FlatKeeps
  <2> QED BY <2>7, <2>8
<1> QED BY <1>3, <1>4

\* l_scn.
LEMMA SContinueKeeps ==
    ASSUME Inv, Ghost, UNCHANGED kvtra, faults' = {}, SContinue PROVE Inv'
<1>1. /\ AtEnd /\ r_cnt' = NoError
      /\ UNCHANGED <<stack, flptr, flprt, comp, kvfnc, vars, kverl, kvert, r_sxc>>
  BY DEF SContinue
<1>2. /\ ctl \in {"run", "end"} /\ r_cod \in Stmts /\ Leads(r_cod, stack[flptr][2]) /\ stage \in {"xt", "ee"}
      /\ Clean(stack, flptr, Len(stack)) /\ r_cod \in Blocks /\ r_cod # trxdc
  BY <1>1, Ending, BlocksAre
<1>3. /\ cp \in Places /\ stack[flptr] = Off(stack[flptr][2]) /\ flptr \in Nat \ {0} /\ Len(stack) \in Nat
      /\ flptr <= Len(stack)
  BY Basics
<1>4. CASE r_cnt = NoError \/ kvert # "interrupt"
  <2>1. ctl' = "error" /\ UNCHANGED <<r_cod, cp>>
    BY <1>4 DEF SContinue
  <2>2. AtError'
    BY <1>1, <1>2, <2>1, ErrorFrom
  <2>3. Controlled'
    BY <2>1, <2>2 DEF Controlled
  <2>4. /\ ctl \notin {"err07", "stop"} /\ ctl' # "err07" /\ r_cod' \in Blocks \cup {trxdc} /\ r_cod' = r_cod
        /\ cp' \in Places
    BY <1>2, <1>3, <2>1
  <2> QED BY <1>1, <1>2, <2>3, <2>4, StackFlat
<1>5. CASE r_cnt # NoError /\ kvert = "interrupt"
  <2>1. PICK b, o, at : b = r_cnt.blk /\ o = r_cnt.off /\ at = r_cnt.at
    OBVIOUS
  <2>2. ~Overwritten /\ r_cod' = b /\ cp' = at /\ ctl' = "run"
    BY <1>5, <2>1 DEF SContinue, Met
  <2>3. b \in Stmts /\ at = Start("body") /\ o = FailOffset(b)
    <3>1. ctl \notin {"err07", "stop"}
      BY <1>2
    <3> QED BY <1>5, <2>1, <3>1 DEF Inv, InTrap
  <2>4. stack[flptr] = Off(FailOffset(b))
    BY <1>3, <2>1, <2>2, <2>3, OffsetIs DEF Overwritten
  <2>5. Context(stack, b, Start("body"), flptr, Len(stack))
    BY <1>2, <1>3, <2>3, <2>4, ContextStart
  <2>6. Controlled'
    BY <1>1, <2>2, <2>3, <2>5 DEF Controlled
  <2>7. /\ ctl \notin {"err07", "stop"} /\ ctl' # "err07" /\ r_cod' \in Blocks \cup {trxdc} /\ r_cod' # trxdc
        /\ cp' \in Places
    BY <1>2, <2>2, <2>3, BlocksAre, PlaceStart
  <2> QED BY <1>1, <1>2, <2>6, <2>7, StackFlat
<1> QED BY <1>4, <1>5

\* Where err07 goes.
LEMMA Err07Where ==
    ASSUME Inv, Err07
    PROVE  /\ ctl = "err07" /\ kverl > 0 /\ kverl' = kverl - 1 /\ r_sxc' = None
           /\ UNCHANGED <<flptr, flprt, comp, kvfnc, vars, kvert>>
           /\ r_cnt' = [blk |-> r_cod, off |-> stack[flptr][2], at |-> cp] /\ r_cnt' # NoError
           /\ stage \in {"xt", "ee"} /\ AtError /\ cp' \in Places /\ ctl' # "err07"
           /\ Controlled' /\ r_cod' \in Blocks \cup {trxdc} /\ (r_cod = trxdc => ctl' = "continue")
           /\ stack' \in Seq(Words) /\ flptr <= Len(stack') /\ Len(stack') <= prog.stack + 1
           /\ Same(stack, stack', flptr - 1) /\ stack'[flptr][1] = "off" /\ Meets(stack', flptr, stack'[flptr][2])
           /\ IsTrace(stack', flptr) <=> r_cod' = trxdc
           /\ IsTrace(stack, flptr) <=> IsTrace(stack', flptr)
           /\ \A i \in flptr + 1 .. Len(stack') : stack'[i] = Blk(trxdc) => i <= Len(stack) /\ stack[i] = Blk(trxdc)
<1>1. /\ ctl = "err07" /\ kverl' = kverl - 1 /\ r_sxc' = None
      /\ r_cnt' = [blk |-> r_cod, off |-> Offset(flptr), at |-> cp]
      /\ UNCHANGED <<flprt, comp, kvfnc, vars, kvert>>
  BY DEF Err07
<1>2. AtError /\ kverl > 0 /\ stage \in {"xt", "ee"}
  BY <1>1 DEF Inv, Controlled, InStage
<1>3. /\ Len(stack) \in Nat /\ flptr \in Nat \ {0} /\ flptr <= Len(stack) /\ stack[flptr][1] = "off" /\ stack \in Seq(Words)
      /\ Meets(stack, flptr, stack[flptr][2]) /\ r_cod \in Blocks \cup {trxdc} /\ cp \in Places
      /\ stack[flptr] = Off(stack[flptr][2])
  BY Basics
<1>4. r_cnt' = [blk |-> r_cod, off |-> stack[flptr][2], at |-> cp]
  BY <1>1, OffsetIs
<1>5. r_cnt' # NoError
  <2>1. r_cnt'.blk # None
    BY <1>3, <1>4, BlocksAre DEF trxdc, None
  <2> QED BY <2>1 DEF NoError
<1>6. IsTrace(stack, flptr) <=> r_cod = trxdc
  BY DEF Inv, InTrace, TracesAre
<1>7. flptr <= prog.stack /\ Len(stack) <= prog.stack + 1 /\ prog.stack \in Nat
  BY CallsAssumption DEF Inv, Typed
<1>8. CASE r_sxc = None
  <2>1. ctl' = "continue" /\ UNCHANGED <<stack, flptr, r_cod, cp>>
    BY <1>8 DEF Err07
  <2>2. AtError'
    BY <1>1, <1>2, <2>1 DEF AtError, comp
  <2>3. r_cnt'.blk = r_cod' /\ stack'[flptr'] = Off(r_cnt'.off)
    BY <1>3, <1>4, <2>1
  <2>4. Controlled'
    BY <1>5, <2>1, <2>2, <2>3 DEF Controlled
  <2>5. Same(stack, stack, flptr - 1)
    BY DEF Same
  <2>6. PICK t \in Seq(Words) : t = stack' /\ t = stack
    BY <1>3, <2>1
  <2>7. /\ flptr <= Len(t) /\ Len(t) <= prog.stack + 1 /\ Same(stack, t, flptr - 1) /\ t[flptr][1] = "off"
        /\ Meets(t, flptr, t[flptr][2]) /\ (IsTrace(t, flptr) <=> r_cod = trxdc)
        /\ \A i \in flptr + 1 .. Len(t) : t[i] = Blk(trxdc) => i <= Len(stack) /\ stack[i] = Blk(trxdc)
    BY <1>3, <1>6, <1>7, <2>5, <2>6
  <2> QED BY <1>1, <1>2, <1>3, <1>4, <1>5, <1>6, <2>1, <2>4, <2>6, <2>7
<1>9. CASE r_sxc # None
  <2>1. PICK b \in Stmts : b = r_sxc
    BY <1>9 DEF Inv, Typed
  <2>2. Enter(b, stack, flptr) /\ r_cod # trxdc
    BY <1>2, <1>9, <2>1 DEF Err07, AtError
  <2>3. /\ flptr' = flptr /\ r_cod' = b /\ b # trxdc /\ cp' \in Places /\ ctl' \in {"run", "interrupt"} /\ Controlled'
    BY <1>3, <2>2, EnterIs
  <2>4. PICK t \in Seq(Words) :
           /\ t = stack' /\ flptr <= Len(t) /\ Len(t) <= flptr + 1 /\ Same(stack, t, flptr - 1)
           /\ t[flptr][1] = "off" /\ Meets(t, flptr, t[flptr][2]) /\ ~IsTrace(t, flptr)
           /\ \A i \in flptr + 1 .. Len(t) : t[i] = Other
    BY <1>3, <2>2, EnterIs
  <2>5. \A i \in flptr + 1 .. Len(t) : t[i] # Blk(trxdc)
    BY <2>4, WordParts, NotBlock
  <2>6. Len(t) <= prog.stack + 1 /\ r_cod' \in Blocks
    BY <1>3, <1>7, <2>3, <2>4, BlocksAre
  <2> QED BY <1>1, <1>2, <1>4, <1>5, <1>6, <2>2, <2>3, <2>4, <2>5, <2>6
<1> QED BY <1>8, <1>9

\* err07.
LEMMA Err07Keeps ==
    ASSUME Inv, Ghost, UNCHANGED kvtra, Err07 PROVE Inv'
<1>1. /\ ctl = "err07" /\ kverl > 0 /\ kverl' = kverl - 1 /\ r_sxc' = None
      /\ UNCHANGED <<flptr, flprt, comp, kvfnc, vars, kvert>>
      /\ r_cnt' = [blk |-> r_cod, off |-> stack[flptr][2], at |-> cp] /\ r_cnt' # NoError
      /\ stage \in {"xt", "ee"} /\ AtError /\ cp' \in Places /\ ctl' # "err07"
      /\ Controlled' /\ r_cod' \in Blocks \cup {trxdc} /\ (r_cod = trxdc => ctl' = "continue")
  BY Err07Where
<1>2. PICK t \in Seq(Words) :
         /\ t = stack' /\ flptr <= Len(t) /\ Len(t) <= prog.stack + 1
         /\ Same(stack, t, flptr - 1) /\ t[flptr][1] = "off" /\ Meets(t, flptr, t[flptr][2])
         /\ IsTrace(t, flptr) <=> r_cod' = trxdc
         /\ IsTrace(stack, flptr) <=> IsTrace(t, flptr)
         /\ \A i \in flptr + 1 .. Len(t) : t[i] = Blk(trxdc) => i <= Len(stack) /\ stack[i] = Blk(trxdc)
  BY Err07Where
<1>3. /\ Len(stack) \in Nat /\ flptr \in Nat \ {0} /\ flptr <= Len(stack) /\ stack[flptr][1] = "off"
      /\ Meets(stack, flptr, stack[flptr][2]) /\ r_cod \in Blocks \cup {trxdc} /\ cp \in Places
      /\ stack[flptr][2] \in Offsets
  BY Basics
<1>4. Move(stack, flptr, t, flptr)
  BY <1>2, <1>3, MoveFlat
<1>5. Chained(t, flptr)
  BY <1>2, <1>3, ChainTop DEF Inv
<1>6. level' = flptr /\ prog' = prog
  BY <1>1 DEF Ghost
<1>7. Typed'
  <2>1. kverl - 1 \in Nat
    BY <1>1 DEF Inv, Typed
  <2>2. r_cnt' \in [blk : Blocks \cup {trxdc}, off : Offsets, at : Places]
    BY <1>1, <1>3
  <2> QED BY <1>1, <1>2, <1>3, <1>6, <2>1, <2>2 DEF Inv, Typed
<1>8. InStage'
  <2>1. flptr' \in Nat /\ flptr <= flptr'
    BY <1>1, <1>3
  <2> QED BY <1>1, <1>2, <2>1, StageAbove
<1>9. PICK r : r = r_cnt'
  OBVIOUS
<1>10. r.blk = r_cod /\ r.off = stack[flptr][2] /\ r.at = cp
  BY <1>1, <1>9
<1>11. InTrap'
  <2>1. level' <= flptr' /\ stack'[level'][1] = "off" /\ Leads(r.blk, r.off) /\ Meets(stack', level', r.off)
    <3>1. Leads(r.blk, r.off)
      BY <1>1, <1>10 DEF AtError
    <3>2. Meets(t, flptr, r.off)
      BY <1>2, <1>3, <1>10, SameMeets
    <3> QED BY <1>1, <1>2, <1>3, <1>6, <3>1, <3>2
  <2>2. r.blk = trxdc => ctl' = "continue"
    BY <1>1, <1>10
  <2>3. kvert = "interrupt" => r.blk \in Stmts /\ r.at = Start("body") /\ r.off = FailOffset(r.blk)
    BY <1>1, <1>10, WordParts DEF Inv, InTrap, AtInterrupt
  <2> QED BY <1>1, <1>9, <2>1, <2>2, <2>3 DEF InTrap
<1>12. Move(stack, flptr, stack', flptr') /\ Chained(stack', flptr') /\ (IsTrace(stack', flptr') <=> r_cod' = trxdc)
  BY <1>1, <1>2, <1>4, <1>5
<1> QED BY <1>1, <1>7, <1>8, <1>11, <1>12, Moves

-----------------------------------------------------------------------------
(***************************************************************************)
(* Errors.                                                                 *)
(***************************************************************************)

\* The greatest of two numbers.
LEMMA GreatestOf ==
    ASSUME NEW a \in Int, NEW b \in Int, NEW H, H # {}, H \subseteq {a, b}
    PROVE  Max(H) \in H /\ \A y \in H : Max(H) >= y
<1>1. \E x \in H : \A y \in H : x >= y
  <2>1. CASE a \in H /\ b \in H /\ a >= b
    BY <2>1
  <2>2. CASE a \in H /\ b \in H /\ b >= a
    BY <2>2
  <2>3. CASE a \notin H
    <3>1. b \in H /\ \A y \in H : y = b
      BY <2>3
    <3> QED BY <3>1
  <2>4. CASE b \notin H
    <3>1. a \in H /\ \A y \in H : y = a
      BY <2>4
    <3> QED BY <3>1
  <2> QED BY <2>1, <2>2, <2>3, <2>4
<1> QED BY <1>1 DEF Max

\* No call and no trace began after flprt.
LEMMA NoneSince ==
    ASSUME Inv, r_cod # trxdc
    PROVE  /\ flprt \in 0 .. flptr /\ \A i \in flprt + 1 .. flptr : ~IsCall(stack, i) /\ ~IsTrace(stack, i)
           /\ flprt # 0 => IsCall(stack, flprt)
<1>1. flptr \in Nat \ {0}
  BY Basics
<1>2. flprt \in 0 .. flptr /\ (flprt # 0 => IsCall(stack, flprt)) /\ \A i \in flprt + 1 .. flptr : ~IsCall(stack, i)
  BY <1>1, LastOf DEF Inv, Calling
<1>3. ASSUME NEW i \in flprt + 1 .. flptr, IsTrace(stack, i) PROVE FALSE
  <2>1. i # flptr
    BY <1>3 DEF Inv, InTrace, TracesAre
  <2>2. i \in 1 .. flptr - 1
    BY <1>1, <1>2, <2>1
  <2>3. PICK y \in 1 .. flptr : TraceCall(stack, i, y)
    BY <1>3, <2>2 DEF Inv, InTrace, TracesAre
  <2>4. i < y - 5 /\ IsCall(stack, y)
    BY <2>3 DEF TraceCall
  <2>5. y \in flprt + 1 .. flptr
    BY <1>1, <1>2, <2>2, <2>4
  <2> QED BY <1>2, <2>4, <2>5
<1> QED BY <1>2, <1>3

\* Where the code is that an expression is evaluated for.
LEMMA EvaluatesIs ==
    ASSUME Inv, NEW p \in 1 .. flptr, Evaluates(p)
    PROVE  /\ gtcef \in Nat \ {0} /\ gtcef <= p - 6 /\ r_gtc \in Blocks
           /\ stack[p - 3][2] \in Places /\ Context(stack, r_gtc, stack[p - 3][2], gtcef, p - 6)
           /\ stack[gtcef][1] = "off" /\ Leads(r_gtc, stack[gtcef][2])
<1>1. /\ p > 6 /\ stack[p - 4][2] \in Blocks
      /\ Context(stack, stack[p - 4][2], stack[p - 3][2], stack[p - 2][2], p - 6)
      /\ stack[p - 2] = Adr(gtcef) /\ stack[p - 4] = Blk(r_gtc)
  BY DEF Evaluates, Evaluated
<1>2. stack[p - 2][2] = gtcef /\ stack[p - 4][2] = r_gtc
  BY <1>1, WordParts
<1>3. PICK c : c = stack[p - 3][2]
  OBVIOUS
<1>4. Context(stack, r_gtc, c, gtcef, p - 6) /\ r_gtc \in Blocks
  BY <1>1, <1>2, <1>3
<1>5. c \in Places /\ gtcef \in Nat \ {0} /\ gtcef \in 1 .. p - 6
  BY <1>4, ContextTypes
<1>6. stack[gtcef] = Off(Awaited(r_gtc, c)) /\ Leads(r_gtc, Awaited(r_gtc, c))
  BY <1>4, <1>5, AwaitedLeads DEF Context
<1>7. stack[gtcef][1] = "off" /\ Leads(r_gtc, stack[gtcef][2])
  BY <1>6, WordParts
<1> QED BY <1>3, <1>4, <1>5, <1>7

\* What holds of an error.
LEMMA ErrorIs ==
    ASSUME Inv, ctl \in {"error", "syntax", "interrupt"}
    PROVE  /\ Leads(r_cod, stack[flptr][2]) /\ (r_cod = trxdc => stage = "xt" /\ r_sxc = None)
           /\ Unwinds => /\ r_cod # trxdc /\ gtcef \in 1 .. flptr
                         /\ stack[gtcef][1] = "off" /\ r_gtc \in Blocks /\ Leads(r_gtc, stack[gtcef][2])
                         /\ gtcef = flptr => r_gtc = r_cod
           /\ Unwinds /\ stage # "ee" => gtcef = flptr /\ flptr # flprt
           /\ stage \in {"xt", "ee", "ev", "xc"} /\ (~Unwinds => stage \in {"xt", "ee"})
           /\ ctl = "interrupt" => AtInterrupt /\ ~Unwinds
<1>1. CASE ctl = "interrupt"
  <2>1. AtInterrupt /\ stage \in {"xt", "ee"} /\ ~Unwinds
    BY <1>1 DEF Inv, Controlled, InStage, Unwinds
  <2>2. PICK b \in Stmts : b = r_cod /\ stack[flptr][2] = FailOffset(b)
    BY <2>1, WordParts DEF AtInterrupt
  <2>3. Leads(b, FailOffset(b))
    BY BlocksAre DEF Leads, FailOffset
  <2>4. Leads(r_cod, stack[flptr][2]) /\ r_cod # trxdc
    BY <2>2, <2>3, BlocksAre
  <2> QED BY <1>1, <2>1, <2>4
<1>2. CASE ctl # "interrupt"
  <2>1. Leads(r_cod, stack[flptr][2]) /\ (r_cod = trxdc => stage = "xt" /\ r_sxc = None)
    BY <1>2 DEF Inv, Controlled, AtError
  <2>2. Unwinds <=> stage # "xt"
    BY <1>2 DEF Unwinds
  <2>3. CASE stage = "xt"
    BY <1>2, <2>1, <2>2, <2>3
  <2>4. CASE stage \in {"ev", "xc"}
    <3>1. gtcef = flptr /\ r_gtc = r_cod /\ flptr # flprt
      BY <2>4 DEF Inv, InStage
    <3>2. r_cod \in Blocks /\ flptr \in 1 .. flptr /\ stack[flptr][1] = "off" /\ r_cod # trxdc
      BY <2>1, <2>4, Basics
    <3> QED BY <1>2, <2>1, <2>2, <2>4, <3>1, <3>2
  <2>5. CASE stage = "ee"
    <3>1. PICK p \in 1 .. flptr : Evaluates(p)
      BY <2>5 DEF Inv, InStage
    <3>2. gtcef \in Nat \ {0} /\ gtcef <= p - 6 /\ r_gtc \in Blocks
          /\ stack[gtcef][1] = "off" /\ Leads(r_gtc, stack[gtcef][2])
      BY <3>1, EvaluatesIs
    <3>3. gtcef \in 1 .. flptr /\ gtcef # flptr
      BY <3>2, Basics
    <3> QED BY <1>2, <2>1, <2>2, <2>5, <3>2, <3>3
  <2> QED BY <2>3, <2>4, <2>5 DEF Inv, InStage
<1> QED BY <1>1, <1>2

\* The trap of CONTINUE after an error.
LEMMA ErrorTrap ==
    ASSUME Inv, Ghost, UNCHANGED r_cnt, ctl \in {"error", "syntax", "interrupt"}, flptr' \in Nat \ {0},
           \A l \in 1 .. Lower(flptr, flptr') : Kept(stack, stack', l),
           kvert' = "interrupt" => ctl' \in {"err07", "stop"} /\ AtInterrupt'
    PROVE  InTrap'
<1>1. level \in Nat /\ flptr \in Nat \ {0} /\ InTrap
  BY Basics DEF Inv, Typed
<1>2. r_cnt # NoError /\ level' # 0 =>
         /\ level' <= flptr' /\ stack'[level'][1] = "off" /\ Leads(r_cnt.blk, r_cnt.off)
         /\ Meets(stack', level', r_cnt.off)
  BY <1>1, LevelTrap
<1>3. r_cnt # NoError => r_cnt.blk # trxdc
  BY <1>1 DEF InTrap
<1> QED BY <1>2, <1>3 DEF InTrap

\* The error is dealt with where it is, n words of the stack being left.
LEMMA ErrorFlat ==
    ASSUME Inv, Ghost, UNCHANGED <<regs, comp, kvfnc, vars, kverl, r_sxc, r_cnt, kvtra>>,
           ctl \in {"error", "syntax", "interrupt"}, stage \in {"xt", "ee"},
           NEW n \in Nat, flptr <= n, n <= Len(stack), stack' \in Seq(Words), Len(stack') = n, Same(stack, stack', n),
           ctl' = "err07" => kverl > 0, ctl' = "exfal" \/ ctl' = "err07" \/ ctl' = "stop",
           kvert' = "interrupt" => ctl = "interrupt" /\ ctl' # "exfal"
    PROVE  Inv'
<1>1. /\ Len(stack) \in Nat /\ flptr \in Nat \ {0} /\ stack[flptr][1] = "off" /\ Meets(stack, flptr, stack[flptr][2])
      /\ r_cod \in Blocks \cup {trxdc} /\ cp \in Places /\ flptr <= prog.stack /\ Len(stack) <= prog.stack + 1
      /\ prog.stack \in Nat
  BY Basics, CallsAssumption DEF Inv, Typed
<1>2. UNCHANGED <<flptr, flprt, r_cod, cp>>
  BY DEF regs
<1>3. PICK t \in Seq(Words) : t = stack' /\ Len(t) = n /\ Same(stack, t, n)
  OBVIOUS
<1>4. t[flptr] = stack[flptr] /\ Same(stack, t, flptr - 1) /\ t[flptr][1] = "off"
  BY <1>1, <1>3 DEF Same
<1>5. Meets(t, flptr, t[flptr][2])
  BY <1>1, <1>4, SameMeets
<1>6. IsTrace(stack, flptr) <=> IsTrace(t, flptr)
  BY <1>4 DEF IsTrace
<1>7. Move(stack, flptr, t, flptr)
  <2>1. \A i \in flptr + 1 .. Len(t) : t[i] = Blk(trxdc) => i <= Len(stack) /\ stack[i] = Blk(trxdc)
    BY <1>1, <1>3 DEF Same
  <2>2. Len(t) \in Nat /\ flptr <= Len(t) /\ flptr <= Len(stack)
    BY <1>1, <1>3
  <2> QED BY <1>1, <1>4, <1>6, <2>1, <2>2, MoveFlat
<1>8. Chained(t, flptr)
  BY <1>1, <1>3, <1>4, <1>5, ChainTop DEF Inv
<1>9. IsTrace(t, flptr) <=> r_cod = trxdc
  BY <1>6 DEF Inv, InTrace, TracesAre
<1>10. Typed'
  <2>1. Len(t) <= prog.stack + 1
    BY <1>1, <1>3
  <2> QED BY <1>1, <1>2, <1>3, <2>1, TypedStays
<1>11. /\ Leads(r_cod, stack[flptr][2]) /\ (r_cod = trxdc => stage = "xt" /\ r_sxc = None)
       /\ ctl = "interrupt" => AtInterrupt
  BY ErrorIs
<1>12. AtError'
  BY <1>2, <1>3, <1>4, <1>11 DEF AtError, comp
<1>13. Controlled'
  <2>1. Leads(r_cod', stack'[flptr'][2])
    BY <1>12 DEF AtError
  <2> QED BY <1>12, <2>1 DEF Controlled
<1>14. InStage'
  <2>1. flptr' \in Nat /\ flptr <= flptr'
    BY <1>1, <1>2
  <2> QED BY <1>3, <1>4, <2>1, StageAbove
<1>15. InTrap'
  <2>1. \A l \in 1 .. Lower(flptr, flptr') : Kept(stack, stack', l)
    <3>1. \A l \in 1 .. Lower(flptr, flptr) : Kept(stack, t, l)
      BY <1>1, <1>3, <1>7, MoveKept
    <3> QED BY <1>2, <1>3, <3>1
  <2>2. kvert' = "interrupt" => ctl' \in {"err07", "stop"} /\ AtInterrupt'
    <3>1. ctl = "interrupt" => AtInterrupt'
      BY <1>2, <1>3, <1>4, <1>11 DEF AtInterrupt
    <3> QED BY <3>1
  <2> QED BY <1>1, <1>2, <2>1, <2>2, ErrorTrap
<1>16. Move(stack, flptr, stack', flptr') /\ Chained(stack', flptr') /\ (IsTrace(stack', flptr') <=> r_cod' = trxdc)
  BY <1>2, <1>3, <1>7, <1>8, <1>9
<1> QED BY <1>2, <1>10, <1>13, <1>14, <1>15, <1>16, Moves

\* The stack is cut where compilation or evaluation began.
LEMMA ErrorUnwound ==
    ASSUME Inv, Ghost, UNCHANGED <<flprt, kvfnc, vars, kverl, r_sxc, r_cnt, kvtra>>,
           ctl \in {"error", "syntax"}, Unwinds, flprt < gtcef, kvert' = "error",
           stack' = Cut(gtcef), flptr' = gtcef, r_cod' = r_gtc, stage' = "xt", cp' \in Places,
           ctl' = "err07" => kverl > 0, ctl' = "exfal" \/ ctl' = "err07"
    PROVE  Inv'
<1>1. /\ Len(stack) \in Nat /\ flptr \in Nat \ {0} /\ flptr <= Len(stack) /\ stack \in Seq(Words)
      /\ flptr <= prog.stack /\ Len(stack) <= prog.stack + 1 /\ prog.stack \in Nat
  BY Basics, CallsAssumption DEF Inv, Typed
<1>2. /\ r_cod # trxdc /\ gtcef \in 1 .. flptr
      /\ stack[gtcef][1] = "off" /\ r_gtc \in Blocks /\ Leads(r_gtc, stack[gtcef][2])
  BY ErrorIs
<1>3. PICK q \in Nat \ {0} : q = gtcef /\ q <= flptr /\ q <= Len(stack) /\ flprt < q /\ stack[q][1] = "off"
  BY <1>1, <1>2
<1>4. PICK t \in Seq(Words) : t = stack' /\ Len(t) = q /\ Same(stack, t, q)
  BY <1>1, <1>3, CutIs
<1>5. \A i \in q + 1 .. flptr : ~IsCall(stack, i) /\ ~IsTrace(stack, i)
  <2>1. \A i \in flprt + 1 .. flptr : ~IsCall(stack, i) /\ ~IsTrace(stack, i)
    BY <1>2, NoneSince
  <2>2. flprt \in Nat
    BY Basics
  <2> QED BY <1>3, <2>1, <2>2
<1>6. Move(stack, flptr, t, q)
  <2>1. \A i \in q + 1 .. Len(t) : t[i] # Blk(trxdc)
    BY <1>4
  <2>2. Len(t) \in Nat /\ q <= Len(t)
    BY <1>4
  <2> QED BY <1>1, <1>3, <1>4, <1>5, <2>1, <2>2, MoveDown
<1>7. Chained(t, q)
  <2>1. Chained(stack, q)
    BY <1>1, <1>3, ChainPop DEF Inv
  <2>2. Len(t) \in Nat /\ q <= Len(t)
    BY <1>4
  <2> QED BY <1>1, <1>4, <2>1, <2>2, ChainSame
<1>8. t[q] = stack[q]
  BY <1>3, <1>4 DEF Same
<1>9. ~IsTrace(t, q) /\ r_gtc # trxdc
  <2>1. stack[q][2] # <<"zero">>
    BY <1>2, <1>3, NotTrace
  <2> QED BY <1>2, <1>8, <2>1, NotTrace, BlocksAre
<1>10. Typed'
  <2>1. q <= prog.stack /\ Len(t) <= prog.stack + 1
    BY <1>1, <1>3, <1>4
  <2> QED BY <1>1, <1>2, <1>3, <1>4, <2>1, TypedStays
<1>11. AtError'
  BY <1>2, <1>3, <1>4, <1>8, <1>9 DEF AtError
<1>12. Controlled'
  <2>1. Leads(r_cod', stack'[flptr'][2])
    BY <1>11 DEF AtError
  <2> QED BY <1>11, <2>1 DEF Controlled
<1>13. InStage'
  BY DEF InStage
<1>14. InTrap'
  <2>1. \A l \in 1 .. Lower(flptr, flptr') : Kept(stack, stack', l)
    <3>1. \A l \in 1 .. Lower(flptr, q) : Kept(stack, t, l)
      BY <1>1, <1>4, <1>6, MoveKept
    <3> QED BY <1>3, <1>4, <3>1
  <2> QED BY <1>3, <2>1, ErrorTrap
<1>15. Move(stack, flptr, stack', flptr') /\ Chained(stack', flptr') /\ (IsTrace(stack', flptr') <=> r_cod' = trxdc)
  BY <1>3, <1>4, <1>6, <1>7, <1>9
<1> QED BY <1>10, <1>12, <1>13, <1>14, <1>15, Moves

\* error, err04, err05.
LEMMA ErrorKeeps ==
    ASSUME Inv, Ghost, UNCHANGED kvtra, Error PROVE Inv'
<1>1. /\ ctl \in {"error", "syntax", "interrupt"} /\ kvert' = (IF ctl = "interrupt" THEN ctl ELSE "error")
      /\ UNCHANGED <<kvfnc, vars, kverl, r_sxc, r_cnt>>
  BY DEF Error
<1>2. /\ Len(stack) \in Nat /\ flptr \in Nat \ {0} /\ flptr <= Len(stack) /\ stack \in Seq(Words) /\ flprt \in Nat
      /\ kverl \in Nat /\ cp \in Places /\ flptr \in DOMAIN stack /\ DOMAIN stack = 1 .. Len(stack)
  BY Basics DEF Inv, Typed
<1>3. CASE ~Unwinds
  <2>1. ctl' = (IF kverl > 0 THEN "err07" ELSE "stop") /\ UNCHANGED <<stack, regs, comp>>
    BY <1>3 DEF Error
  <2>2. stage \in {"xt", "ee"}
    BY <1>1, <1>3, ErrorIs
  <2>3. Same(stack, stack, Len(stack))
    BY DEF Same
  <2>4. PICK n \in Nat : n = Len(stack)
    BY <1>2
  <2>5. stack' \in Seq(Words) /\ Len(stack') = n /\ Same(stack, stack', n)
    BY <1>2, <2>1, <2>3, <2>4
  <2>6. (ctl' = "err07" => kverl > 0) /\ (ctl' = "err07" \/ ctl' = "stop") /\ (kvert' = "interrupt" => ctl = "interrupt" /\ ctl' # "exfal")
    BY <1>1, <2>1
  <2>7. UNCHANGED <<regs, comp, kvfnc, vars, kverl, r_sxc, r_cnt, kvtra>>
    BY <1>1, <2>1
  <2>8. flptr <= n /\ n <= Len(stack) /\ (ctl' = "exfal" \/ ctl' = "err07" \/ ctl' = "stop")
    BY <1>2, <2>4, <2>6
  <2> QED BY <1>1, <2>2, <2>5, <2>6, <2>7, <2>8, ErrorFlat
<1>4. CASE Unwinds
  <2>1. r_cod # trxdc /\ gtcef \in 1 .. flptr /\ (stage # "ee" => gtcef = flptr /\ flptr # flprt)
        /\ (gtcef = flptr => r_gtc = r_cod) /\ ctl # "interrupt" /\ flprt \in 0 .. flptr
    BY <1>1, <1>4, ErrorIs, Basics
  <2>2. Hits # {} /\ Hits \subseteq {flprt, gtcef} /\ gtcef \in Hits /\ gtcef \in Int /\ flprt \in Int
    BY <1>2, <2>1 DEF Hits
  <2>3. Max(Hits) \in Hits /\ Max(Hits) >= gtcef
    BY <2>2, GreatestOf
  <2>4. (ctl' = "err07" => kverl > 0) /\ (ctl' = "err07" \/ ctl' = "exfal") /\ kvert' = "error"
    BY <1>1, <1>4, <2>1, <2>2 DEF Error
  <2>5. CASE Max(Hits) = flprt
    <3>1. stack' = Cut(flptr) /\ UNCHANGED <<regs, comp>>
      BY <1>4, <2>2, <2>5 DEF Error
    <3>2. stage = "ee"
      BY <2>1, <2>3, <2>5
    <3>3. stack' \in Seq(Words) /\ Len(stack') = flptr /\ Same(stack, stack', flptr)
      BY <1>2, <3>1, CutIs
    <3>4. flptr \in Nat /\ flptr <= flptr /\ kvert' # "interrupt"
      BY <1>2, <2>4
    <3> QED BY <1>1, <1>2, <2>4, <3>1, <3>2, <3>3, <3>4, ErrorFlat
  <2>6. CASE Max(Hits) # flprt
    <3>1. /\ stack' = Cut(gtcef) /\ flptr' = gtcef /\ r_cod' = r_gtc /\ Staged("xt", gtcef, r_gtc) /\ UNCHANGED flprt
          /\ cp' \in IF r_gtc = r_cod THEN {cp} ELSE {Start("body"), Start("goto")}
      BY <1>4, <2>2, <2>6 DEF Error
    <3>2. stage' = "xt"
      BY <3>1 DEF Staged
    <3>3. cp' \in Places
      BY <1>2, <3>1, PlaceStart
    <3>4. flprt < gtcef
      <4>1. Max(Hits) = gtcef
        BY <2>2, <2>3, <2>6
      <4>2. flprt \in Hits => gtcef >= flprt
        BY <2>2, <4>1, GreatestOf
      <4>3. flprt \in Hits \/ flprt = 0
        BY <1>2, <2>1 DEF Hits
      <4> QED BY <2>1, <2>6, <4>1, <4>2, <4>3
    <3>5. ctl \in {"error", "syntax"}
      BY <1>1, <2>1
    <3> QED BY <1>1, <1>4, <2>4, <3>1, <3>2, <3>3, <3>4, <3>5, ErrorUnwound
  <2> QED BY <2>5, <2>6
<1> QED BY <1>3, <1>4

-----------------------------------------------------------------------------
(***************************************************************************)
(* The evaluation of expressions.                                          *)
(***************************************************************************)

\* The stack without its top.
LEMMA FrontIs ==
    ASSUME NEW s \in Seq(Words), Len(s) > 0
    PROVE  Front(s) \in Seq(Words) /\ Len(Front(s)) = Len(s) - 1 /\ Same(s, Front(s), Len(s) - 1)
<1>1. Len(s) - 1 \in Nat /\ Len(s) - 1 <= Len(s)
  OBVIOUS
<1> QED BY <1>1, PrefixIs DEF Front

\* What evalx stacks.
LEMMA EvalStack ==
    ASSUME Inv, NEW e \in prog.exprs, NEW fresh \in BOOLEAN, Eval(e, fresh)
    PROVE  \E n \in Nat \ {0}, t \in Seq(Words), c \in Places :
              /\ t = stack' /\ n = Len(stack) - 1 /\ flptr <= n /\ Len(t) = n + 6 /\ Same(stack, t, n)
              /\ t[n + 1] = Other /\ t[n + 2] = Blk(r_cod) /\ t[n + 3] = Cp(c) /\ t[n + 4] = Adr(flptr)
              /\ t[n + 5] = Other /\ t[n + 6] = Off(<<"exflc">>)
              /\ Context(stack, r_cod, c, flptr, n)
<1>1. /\ Executing /\ Count(cp) > 0
      /\ stack' = Front(stack) \o <<Other, Blk(r_cod), Cp(Operands(cp, -1)), Adr(flptr), Other, Off(<<"exflc">>)>>
  BY DEF Eval
<1>2. r_cod \in Blocks /\ Context(stack, r_cod, cp, flptr, Len(stack)) /\ Count(cp) \in Nat
  BY <1>1, Running
<1>3. Len(stack) \in Nat /\ flptr \in Nat \ {0} /\ stack \in Seq(Words) /\ cp \in Places
  BY Basics
<1>4. PICK c : c = Operands(cp, -1)
  OBVIOUS
<1>5. Context(stack, r_cod, c, flptr, Len(stack) - 1) /\ flptr <= Len(stack) - 1
  <2>1. PICK k \in Nat : k = 1 /\ k <= Count(cp)
    BY <1>1, <1>2
  <2>2. Context(stack, r_cod, Operands(cp, -k), flptr, Len(stack) - k) /\ flptr <= Len(stack) - k
    BY <1>2, <2>1, ContextPop
  <2> QED BY <1>4, <2>1, <2>2
<1>6. c \in Places
  BY <1>5, ContextTypes
<1>7. PICK n \in Nat \ {0} : n = Len(stack) - 1 /\ flptr <= n
  BY <1>3, <1>5
<1>8. PICK d \in Seq(Words) : d = Front(stack) /\ Len(d) = n /\ Same(stack, d, n)
  <2>1. Len(stack) > 0
    BY <1>3, <1>7
  <2>2. Front(stack) \in Seq(Words) /\ Len(Front(stack)) = Len(stack) - 1 /\ Same(stack, Front(stack), Len(stack) - 1)
    BY <1>3, <2>1, FrontIs
  <2> QED BY <1>7, <2>2
<1>9. PICK o \in Offsets : o = <<"exflc">>
  BY OffsetsAre
<1>10. PICK u \in Seq(Words) :
          /\ u = <<Other, Blk(r_cod), Cp(c), Adr(flptr), Other, Off(o)>> /\ Len(u) = 6
          /\ u[1] = Other /\ u[2] = Blk(r_cod) /\ u[3] = Cp(c) /\ u[4] = Adr(flptr) /\ u[5] = Other /\ u[6] = Off(o)
  <2>1. Other \in Words /\ Blk(r_cod) \in Words /\ Cp(c) \in Words /\ Adr(flptr) \in Words /\ Off(o) \in Words
    BY <1>2, <1>3, <1>6, WordsAre
  <2>2. PICK v \in Words, w \in Words, x \in Words, y \in Words, z \in Words :
           v = Other /\ w = Blk(r_cod) /\ x = Cp(c) /\ y = Adr(flptr) /\ z = Off(o)
    BY <2>1
  <2>3. PICK u : u = <<v, w, x, y, v, z>>
    OBVIOUS
  <2>4. /\ u \in Seq(Words) /\ Len(u) = 6
        /\ u[1] = v /\ u[2] = w /\ u[3] = x /\ u[4] = y /\ u[5] = v /\ u[6] = z
    BY <2>3
  <2> QED BY <2>2, <2>3, <2>4
<1>11. stack' = d \o u
  BY <1>1, <1>4, <1>8, <1>9, <1>10
<1>12. /\ d \o u \in Seq(Words) /\ Len(d \o u) = n + 6 /\ Same(d, d \o u, n)
       /\ \A i \in 1 .. 6 : (d \o u)[n + i] = u[i]
  <2>1. /\ d \o u \in Seq(Words) /\ Len(d \o u) = Len(d) + Len(u) /\ Same(d, d \o u, Len(d))
        /\ \A i \in 1 .. Len(u) : (d \o u)[Len(d) + i] = u[i]
    BY <1>8, <1>10, PushIs
  <2>2. Len(d) = n /\ Len(u) = 6
    BY <1>8, <1>10
  <2> QED BY <2>1, <2>2, Zenon
<1>13. PICK t : t = d \o u
  OBVIOUS
<1>14. t \in Seq(Words) /\ Len(t) = n + 6 /\ Same(d, t, n) /\ t = stack' /\ \A i \in 1 .. 6 : t[n + i] = u[i]
  BY <1>11, <1>12, <1>13, Zenon
<1>15. Same(stack, t, n)
  BY <1>7, <1>8, <1>14 DEF Same
<1>16. /\ t[n + 1] = u[1] /\ t[n + 2] = u[2] /\ t[n + 3] = u[3] /\ t[n + 4] = u[4] /\ t[n + 5] = u[5]
       /\ t[n + 6] = u[6]
  BY <1>14
<1>17. Context(stack, r_cod, c, flptr, n)
  BY <1>5, <1>7
<1> QED BY <1>6, <1>7, <1>9, <1>10, <1>14, <1>15, <1>16, <1>17

\* s_evl and evalx.
LEMMA EvalKeeps ==
    ASSUME Inv, Ghost, UNCHANGED kvtra, NEW e \in prog.exprs, NEW fresh \in BOOLEAN, Eval(e, fresh) PROVE Inv'
<1>1. /\ Executing /\ Room(5) /\ flptr' = Len(stack) + 5 /\ r_cod' = e /\ cp' = Start("body")
      /\ UNCHANGED <<flprt, kvfnc, vars, kverl, kvert, r_sxc, r_cnt, ctl>>
  <2>1. Len(<<Other, Blk(r_cod), Cp(Operands(cp, -1)), Adr(flptr), Other, Off(<<"exflc">>)>>) = 6
    OBVIOUS
  <2>2. /\ Executing /\ r_cod' = e /\ cp' = Start("body")
        /\ UNCHANGED <<flprt, kvfnc, vars, kverl, kvert, r_sxc, r_cnt, ctl>>
    BY DEF Eval, traps
  <2>3. Room(6 - 1) /\ flptr' = Len(stack) - 1 + 6
    BY <2>1 DEF Eval
  <2>4. Len(stack) \in Nat
    BY Basics
  <2> QED BY <2>2, <2>3, <2>4
<1>2. /\ ctl = "run" /\ r_cod \in Blocks /\ Clean(stack, flptr, Len(stack)) /\ ~IsTrace(stack, flptr)
      /\ stage \in {"xt", "ee"}
  BY <1>1, Running
<1>3. /\ Len(stack) \in Nat /\ flptr \in Nat \ {0} /\ flptr <= Len(stack) /\ stack[flptr][1] = "off"
      /\ Meets(stack, flptr, stack[flptr][2])
  BY Basics
<1>4. stage' = "ee" /\ gtcef' = flptr /\ r_gtc' = r_cod
  <2>1. PICK during : during = (IF fresh THEN "xt" ELSE stage) /\ during \in {"xt", "ee"}
    BY <1>2
  <2>2. Staged(IF during = "xt" THEN "ee" ELSE during, flptr, r_cod)
    BY <2>1 DEF Eval
  <2> QED BY <2>1, <2>2 DEF Staged
<1>5. PICK n \in Nat \ {0}, t \in Seq(Words), c \in Places :
         /\ t = stack' /\ n = Len(stack) - 1 /\ flptr <= n /\ Len(t) = n + 6 /\ Same(stack, t, n)
         /\ t[n + 1] = Other /\ t[n + 2] = Blk(r_cod) /\ t[n + 3] = Cp(c) /\ t[n + 4] = Adr(flptr)
         /\ t[n + 5] = Other /\ t[n + 6] = Off(<<"exflc">>)
         /\ Context(stack, r_cod, c, flptr, n)
  BY EvalStack
<1>a. PICK k \in Nat \ {0}, l \in Nat : k = flptr /\ k <= n /\ l = Len(t) /\ l = n + 6 /\ n = Len(stack) - 1
  <2>1. n + 6 \in Nat
    OBVIOUS
  <2> QED BY <1>3, <1>5, <2>1
<1>6. PICK p \in Nat : p = n + 6 /\ p > 6 /\ p - 1 = n + 5 /\ p - 2 = n + 4 /\ p - 3 = n + 3 /\ p - 4 = n + 2
                       /\ p - 5 = n + 1 /\ p - 6 = n /\ k < p /\ k <= p - 6 /\ flptr < p /\ flptr <= p - 6 /\ l = p
  <2>1. PICK p \in Nat : p = n + 6
    OBVIOUS
  <2>2. p > 6 /\ p - 1 = n + 5 /\ p - 2 = n + 4 /\ p - 3 = n + 3 /\ p - 4 = n + 2
        /\ p - 5 = n + 1 /\ p - 6 = n /\ k < p /\ k <= p - 6 /\ l = p
    BY <1>a, <2>1
  <2>3. flptr < p /\ flptr <= p - 6
    BY <1>a, <2>2
  <2> QED BY <2>1, <2>2, <2>3
<1>7. /\ t[p - 1] = Other /\ t[p - 2] = Adr(flptr) /\ t[p - 3] = Cp(c) /\ t[p - 4] = Blk(r_cod) /\ t[p - 5] = Other
      /\ t[p] = Off(<<"exflc">>)
  BY <1>5, <1>6
<1>8. /\ t[p - 1][1] = "other" /\ t[p - 2][1] = "adr" /\ t[p - 2][2] = flptr /\ t[p - 3][1] = "cp" /\ t[p - 3][2] = c
      /\ t[p - 4][1] = "blk" /\ t[p - 4][2] = r_cod /\ t[p - 5][1] = "other" /\ t[p][1] = "off"
      /\ t[p][2] = <<"exflc">>
  BY <1>7, WordParts
<1>9. Evaluated(t, p)
  <2>1. Context(t, r_cod, c, flptr, n)
    BY <1>5, SameContext
  <2> QED BY <1>2, <1>6, <1>7, <1>8, <2>1 DEF Evaluated
<1>10. Linked(t, p)
  <2>1. <<"exflc">>[1] # "bracket" /\ <<"exflc">> # <<"zero">>
    BY OffsetParts
  <2>2. Meets(t, p, t[p][2])
    BY <1>8, <1>9, <2>1 DEF Meets
  <2> QED BY <1>9, <2>2 DEF Linked
<1>11. Same(stack, t, flptr) /\ Same(stack, t, flptr - 1) /\ t[flptr] = stack[flptr]
  BY <1>3, <1>5 DEF Same
<1>12. Clean(t, flptr, p - 1)
  <2>1. ASSUME NEW i \in k + 1 .. p - 1 PROVE t[i][1] # "off"
    <3>1. CASE i \in k + 1 .. n
      <4>1. i \in 1 .. n /\ i \in flptr + 1 .. Len(stack)
        BY <1>a, <3>1
      <4> QED BY <1>2, <1>5, <4>1 DEF Clean, Same
    <3>2. CASE i \notin k + 1 .. n
      <4>1. i = p - 1 \/ i = p - 2 \/ i = p - 3 \/ i = p - 4 \/ i = p - 5
        BY <1>6, <3>2
      <4> QED BY <1>8, <4>1
    <3> QED BY <3>1, <3>2
  <2> QED BY <1>a, <2>1 DEF Clean
<1>13. Chained(t, p)
  <2>1. p <= Len(t) /\ Len(t) \in Nat /\ Chained(stack, flptr)
    BY <1>5, <1>6 DEF Inv
  <2>2. Meets(t, flptr, t[flptr][2])
    BY <1>3, <1>11, SameMeets
  <2> QED BY <1>3, <1>6, <1>8, <1>10, <1>11, <1>12, <2>1, <2>2, ChainPush
<1>14. ~IsTrace(t, p) /\ ~IsCall(t, p)
  <2>1. <<"exflc">> # <<"zero">>
    BY OffsetParts
  <2> QED BY <1>7, <1>8, <2>1, NotTrace DEF IsCall
<1>15. Move(stack, flptr, t, p)
  <2>1. ASSUME NEW i \in flptr + 1 .. p PROVE ~IsCall(t, i) /\ ~IsTrace(t, i)
    <3>1. CASE i = p
      BY <1>14, <3>1
    <3>2. CASE i # p
      <4>1. i \in flptr + 1 .. p - 1
        BY <1>3, <1>6, <3>2
      <4>2. t[i][1] # "off"
        BY <1>12, <4>1 DEF Clean
      <4> QED BY <4>2, NotTrace DEF IsCall
    <3> QED BY <3>1, <3>2
  <2>2. ASSUME NEW i \in flptr + 1 .. Len(t), t[i] = Blk(trxdc) PROVE i <= Len(stack) /\ stack[i] = Blk(trxdc)
    <3>1. i # p /\ i # p - 1 /\ i # p - 2 /\ i # p - 3 /\ i # p - 4 /\ i # p - 5
      BY <1>2, <1>7, <1>8, <2>2, NotBlock
    <3>2. i \in k + 1 .. p
      BY <1>a, <1>6
    <3>3. i \in 1 .. n
      BY <1>6, <3>1, <3>2
    <3>4. i <= Len(stack)
      BY <1>a, <3>3
    <3> QED BY <1>5, <2>2, <3>3, <3>4 DEF Same
  <2>3. p <= Len(t) /\ Len(t) \in Nat
    BY <1>5, <1>6
  <2> QED BY <1>2, <1>3, <1>6, <1>11, <2>1, <2>2, <2>3, MoveUp
<1>16. flptr' = p
  BY <1>1, <1>3, <1>5, <1>6
<1>17. e \in Exprs /\ e \in Blocks /\ e \notin Stmts /\ e # trxdc
  <2>1. e \in Exprs
    BY CallsAssumption DEF Inv, Typed
  <2> QED BY <2>1, BlocksAre
<1>18. Typed'
  <2>1. prog.stack \in Nat
    BY CallsAssumption DEF Inv, Typed
  <2>2. p <= prog.stack /\ Len(t) <= prog.stack + 1
    BY <1>1, <1>3, <1>5, <1>6, <2>1 DEF Room
  <2>3. cp' \in Places /\ r_cod' \in Blocks \cup {trxdc}
    BY <1>1, <1>17, PlaceStart
  <2> QED BY <1>1, <1>5, <1>16, <2>2, <2>3, TypedStays
<1>19. Controlled'
  <2>1. PICK d \in Places : d = Start("body") /\ Count(d) = 0 /\ Len(d.path) = 1
    BY PlaceStart
  <2>2. Awaited(e, d) = <<"exflc">>
    <3>1. ~(1 > 1)
      OBVIOUS
    <3>2. ~(Len(d.path) > 1)
      BY <2>1, <3>1, Zenon
    <3> QED BY <1>17, <3>2 DEF Awaited
  <2>3. Context(t, e, d, p, p)
    BY <1>6, <1>7, <1>17, <2>1, <2>2 DEF Context, Clean
  <2>4. Len(t) = p
    BY <1>5, <1>6
  <2> QED BY <1>1, <1>2, <1>5, <1>16, <2>1, <2>3, <2>4 DEF Controlled
<1>20. InStage'
  <2>1. Evaluates(p)'
    BY <1>4, <1>5, <1>7, <1>8, <1>9 DEF Evaluates
  <2>2. p \in 1 .. flptr'
    BY <1>6, <1>16
  <2> QED BY <1>4, <2>1, <2>2 DEF InStage
<1>21. ctl \notin {"continue", "err07", "stop"} /\ ctl' # "err07"
  BY <1>1, <1>2
<1>22. Move(stack, flptr, stack', flptr') /\ Chained(stack', flptr') /\ (IsTrace(stack', flptr') <=> r_cod' = trxdc)
  BY <1>1, <1>5, <1>13, <1>14, <1>15, <1>16, <1>17
<1> QED BY <1>1, <1>18, <1>19, <1>20, <1>21, <1>22, Ordinary

\* What an evaluation goes back to.
LEMMA EvaluatedEnds ==
    ASSUME Inv, Evaluated(stack, flptr), r_cod \in Exprs
    PROVE  \E q \in Nat \ {0}, b \in Blocks, c \in Places :
              /\ q = stack[flptr - 2][2] /\ b = stack[flptr - 4][2] /\ c = stack[flptr - 3][2]
              /\ q <= flptr - 6 /\ stack[q][1] = "off" /\ Chained(stack, q)
              /\ Context(stack, b, c, q, flptr - 6) /\ Leads(b, stack[q][2])
              /\ \A p \in q + 1 .. flptr : ~IsCall(stack, p) /\ ~IsTrace(stack, p)
<1>1. /\ Len(stack) \in Nat /\ flptr \in Nat \ {0} /\ flptr <= Len(stack)
  BY Basics
<1>2. PICK q, b, c : q = stack[flptr - 2][2] /\ b = stack[flptr - 4][2] /\ c = stack[flptr - 3][2]
  OBVIOUS
<1>3. /\ flptr > 6 /\ stack[flptr - 1] = Other /\ stack[flptr - 2][1] = "adr" /\ stack[flptr - 3][1] = "cp"
      /\ stack[flptr - 4][1] = "blk" /\ stack[flptr - 5] = Other /\ b \in Blocks
      /\ Context(stack, b, c, q, flptr - 6)
  BY <1>2 DEF Evaluated
<1>4. c \in Places /\ q \in Nat \ {0} /\ q <= flptr - 6
  BY <1>3, ContextTypes
<1>5. stack[q] = Off(Awaited(b, c)) /\ Clean(stack, q, flptr - 6)
  BY <1>3 DEF Context
<1>6. stack[q][1] = "off" /\ Leads(b, stack[q][2])
  BY <1>3, <1>4, <1>5, AwaitedLeads, WordParts
<1>7. Chained(stack, q)
  <2>1. q \in 1 .. flptr
    BY <1>1, <1>4
  <2> QED BY <1>1, <1>6, <2>1, ChainPop DEF Inv
<1>8. stack[flptr - 1][1] # "off" /\ stack[flptr - 1][1] # "pf" /\ stack[flptr - 5][1] # "off"
  BY <1>3, WordParts
<1>9. ~IsTrace(stack, flptr)
  BY BlocksAre DEF Inv, InTrace, TracesAre
<1>10. ASSUME NEW p \in q + 1 .. flptr PROVE ~IsCall(stack, p) /\ ~IsTrace(stack, p)
  <2>1. CASE p = flptr
    BY <1>8, <1>9, <2>1 DEF IsCall
  <2>2. CASE p # flptr
    <3>1. \/ p \in q + 1 .. flptr - 6
          \/ p = flptr - 1 \/ p = flptr - 2 \/ p = flptr - 3 \/ p = flptr - 4 \/ p = flptr - 5
      BY <1>1, <1>4, <2>2
    <3>2. stack[p][1] # "off"
      BY <1>3, <1>5, <1>8, <3>1 DEF Clean
    <3> QED BY <3>2, NotTrace DEF IsCall
  <2> QED BY <2>1, <2>2
<1> QED BY <1>2, <1>3, <1>4, <1>6, <1>7, <1>10

\* evlx5 to evlx9.
LEMMA EndEvalKeeps ==
    ASSUME Inv, Ghost, UNCHANGED kvtra, Evaluated(stack, flptr), r_cod \in Exprs, stage \in {"xt", "ee"},
           ctl \in {"run", "fex"}, NEW value \in Seq(Words), Len(value) \in 0 .. 1,
           \A i \in 1 .. Len(value) : value[i][1] = "val", EndEval(flptr, value)
    PROVE  Inv'
<1>1. /\ Len(stack) \in Nat /\ flptr \in Nat \ {0} /\ flptr <= Len(stack) /\ stack \in Seq(Words)
      /\ flptr <= prog.stack /\ Len(stack) <= prog.stack + 1 /\ prog.stack \in Nat
  BY Basics, CallsAssumption DEF Inv, Typed
<1>2. PICK q \in Nat \ {0}, b \in Blocks, c \in Places :
         /\ q = stack[flptr - 2][2] /\ b = stack[flptr - 4][2] /\ c = stack[flptr - 3][2]
         /\ q <= flptr - 6 /\ stack[q][1] = "off" /\ Chained(stack, q)
         /\ Context(stack, b, c, q, flptr - 6) /\ Leads(b, stack[q][2])
         /\ \A p \in q + 1 .. flptr : ~IsCall(stack, p) /\ ~IsTrace(stack, p)
  BY EvaluatedEnds
<1>3. /\ flptr' = q /\ r_cod' = b /\ stack' = Cut(flptr - 6) \o value /\ cp' = Operands(c, Len(value))
      /\ stage' = "xt" /\ ctl' = (IF value # <<>> THEN "run" ELSE "exfal")
      /\ UNCHANGED <<flprt, kvfnc, vars, kverl, kvert, r_sxc, r_cnt>>
  <2>1. stage' = "xt"
    BY DEF EndEval, Staged
  <2> QED BY <1>2, <2>1 DEF EndEval, traps
<1>4. PICK n \in Nat : n = flptr - 6 /\ q <= n /\ n < Len(stack)
  BY <1>1, <1>2
<1>5. PICK d \in Seq(Words) : d = Cut(n) /\ Len(d) = n /\ Same(stack, d, n)
  BY <1>1, <1>4, CutIs
<1>6. PICK t : t = d \o value
  OBVIOUS
<1>7. /\ t \in Seq(Words) /\ Len(t) = n + Len(value) /\ Same(d, t, n)
      /\ \A i \in 1 .. Len(value) : t[n + i] = value[i]
  <2>1. /\ d \o value \in Seq(Words) /\ Len(d \o value) = n + Len(value) /\ Same(d, d \o value, n)
        /\ \A i \in 1 .. Len(value) : (d \o value)[n + i] = value[i]
    BY <1>5, PushIs
  <2> QED BY <1>6, <2>1, Zenon
<1>8. t = stack' /\ Same(stack, t, n) /\ Same(stack, t, q)
  BY <1>3, <1>4, <1>5, <1>6, <1>7 DEF Same
<1>a. PICK k \in {0, 1} : k = Len(value)
  OBVIOUS
<1>b. PICK l \in Nat : l = Len(t) /\ l = n + k
  BY <1>7, <1>a
<1>9. Len(t) \in Nat /\ q <= Len(t) /\ Len(t) <= Len(stack) /\ Len(value) \in Nat
  <2>1. q <= l /\ l <= Len(stack)
    BY <1>1, <1>4, <1>b
  <2> QED BY <1>a, <1>b, <2>1
<1>c. k = 1 => t[n + 1][1] = "val" /\ value # <<>>
  <2>1. CASE k = 1
    <3>1. 1 \in 1 .. Len(value)
      BY <1>a, <2>1
    <3>2. t[n + 1] = value[1] /\ value[1][1] = "val"
      BY <1>7, <3>1
    <3>3. value # <<>>
      BY <3>1
    <3> QED BY <3>2, <3>3
  <2> QED BY <2>1
<1>10. \A i \in q + 1 .. l : i \in 1 .. n \/ (i = n + 1 /\ k = 1)
  BY <1>4, <1>b
<1>11. \A i \in q + 1 .. Len(t) : t[i] = stack[i] \/ t[i][1] = "val"
  <2>1. ASSUME NEW i \in q + 1 .. l PROVE t[i] = stack[i] \/ t[i][1] = "val"
    <3>1. CASE i \in 1 .. n
      BY <1>8, <3>1 DEF Same
    <3>2. CASE i = n + 1 /\ k = 1
      BY <1>c, <3>2
    <3> QED BY <1>10, <3>1, <3>2
  <2> QED BY <1>b, <2>1
<1>12. Move(stack, flptr, t, q)
  <2>1. \A i \in q + 1 .. Len(t) : t[i] = Blk(trxdc) => i <= Len(stack) /\ stack[i] = Blk(trxdc)
    <3>1. ASSUME NEW i \in q + 1 .. Len(t), t[i] = Blk(trxdc) PROVE i <= Len(stack) /\ stack[i] = Blk(trxdc)
      <4>1. i <= Len(stack)
        BY <1>1, <1>9
      <4>2. t[i][1] # "val"
        BY <3>1, WordParts
      <4>3. stack[i] = Blk(trxdc)
        BY <1>11, <3>1, <4>2
      <4> QED BY <4>1, <4>3
    <3> QED BY <3>1
  <2>2. q <= flptr
    BY <1>1, <1>2
  <2> QED BY <1>1, <1>2, <1>8, <1>9, <2>1, <2>2, MoveDown
<1>13. Chained(t, q)
  BY <1>1, <1>2, <1>8, <1>9, ChainSame
<1>14. ~IsTrace(t, q) /\ b # trxdc
  <2>1. stack[q][2] # <<"zero">>
    BY <1>2, NotTrace
  <2>2. t[q] = stack[q]
    BY <1>8 DEF Same
  <2> QED BY <2>1, <2>2, NotTrace, BlocksAre
<1>15. cp' \in Places /\ Controlled'
  <2>1. CASE Len(value) = 1
    <3>1. t[n + 1][1] = "val" /\ value # <<>>
      BY <1>a, <1>c, <2>1
    <3>2. Context(t, b, Operands(c, 1), q, n + 1)
      BY <1>2, <1>4, <1>8, <3>1, ContextPush
    <3>3. Operands(c, 1) \in Places
      BY <3>2, ContextTypes
    <3>4. ctl' = "run" /\ cp' = Operands(c, 1)
      BY <1>3, <2>1, <3>1
    <3>5. Controlled'
      BY <1>3, <1>7, <1>8, <2>1, <3>2, <3>4 DEF Controlled
    <3> QED BY <3>3, <3>4, <3>5
  <2>2. CASE Len(value) = 0
    <3>1. value = <<>>
      BY <2>2
    <3>2. ctl' = "exfal" /\ cp' = c
      BY <1>3, <2>2, <3>1, NoOperands
    <3>3. t[q] = stack[q]
      BY <1>8 DEF Same
    <3>4. Controlled'
      BY <1>2, <1>3, <1>8, <3>2, <3>3 DEF Controlled
    <3> QED BY <3>2, <3>4
  <2> QED BY <2>1, <2>2
<1>16. Typed'
  <2>1. q <= prog.stack /\ Len(t) <= prog.stack + 1
    BY <1>1, <1>2, <1>9
  <2> QED BY <1>3, <1>7, <1>8, <1>15, <2>1, TypedStays
<1>17. InStage'
  BY <1>3 DEF InStage
<1>18. ctl \notin {"continue", "err07", "stop"} /\ ctl' # "err07"
  BY <1>3
<1>19. Move(stack, flptr, stack', flptr') /\ Chained(stack', flptr') /\ (IsTrace(stack', flptr') <=> r_cod' = trxdc)
  BY <1>3, <1>8, <1>12, <1>13, <1>14
<1> QED BY <1>3, <1>15, <1>16, <1>17, <1>18, <1>19, Ordinary

\* o_rvl.
LEMMA EvalValueKeeps ==
    ASSUME Inv, Ghost, UNCHANGED kvtra, EvalValue PROVE Inv'
<1>1. Executing /\ r_cod \in Exprs /\ cp.path = <<1>> /\ EndEval(Len(stack) - 1, <<Last(stack)>>)
  BY DEF EvalValue
<1>2. /\ ctl = "run" /\ Context(stack, r_cod, cp, flptr, Len(stack)) /\ stack[flptr] = Off(Awaited(r_cod, cp))
      /\ stage \in {"xt", "ee"}
  BY <1>1, Running
<1>3. Len(stack) \in Nat /\ flptr \in Nat \ {0} /\ stack \in Seq(Words) /\ \A i \in 1 .. Len(stack) : stack[i] \in Words
  BY Basics
<1>4. Len(cp.path) = 1 /\ Count(cp) = 1
  BY <1>1 DEF Count
<1>5. Len(stack) = flptr + 1
  BY <1>1, <1>2, <1>4, BlocksAre DEF Context
<1>6. Awaited(r_cod, cp) = <<"exflc">>
  <2>1. ~(1 > 1)
    OBVIOUS
  <2>2. ~(Len(cp.path) > 1)
    BY <1>4, <2>1, Zenon
  <2> QED BY <1>1, <2>2, BlocksAre DEF Awaited
<1>7. Evaluated(stack, flptr)
  <2>1. stack[flptr][2] = <<"exflc">>
    BY <1>2, <1>6, WordParts
  <2> QED BY <2>1, Basics DEF Meets
<1>8. PICK w \in Words : w = stack[flptr + 1] /\ w = Last(stack)
  BY <1>3, <1>5 DEF Last
<1>9. w[1] = "val"
  <2>1. flptr + 1 \in Len(stack) - Count(cp) + 1 .. Len(stack)
    BY <1>3, <1>4, <1>5
  <2> QED BY <1>2, <1>8, <2>1 DEF Context
<1>a. PICK value : value = <<w>>
  OBVIOUS
<1>10. value \in Seq(Words) /\ value = <<w>> /\ Len(value) = 1 /\ value[1] = w
  BY <1>a
<1>11. EndEval(flptr, value)
  <2>1. Len(stack) - 1 = flptr
    BY <1>3, <1>5
  <2> QED BY <1>1, <1>8, <1>10, <2>1
<1>12. Len(value) \in 0 .. 1 /\ \A i \in 1 .. Len(value) : value[i][1] = "val"
  BY <1>9, <1>10
<1>13. ctl \in {"run", "fex"}
  BY <1>2
<1> QED BY <1>1, <1>2, <1>7, <1>10, <1>11, <1>12, <1>13, EndEvalKeeps

\* o_fex.
LEMMA EvalFailureKeeps ==
    ASSUME Inv, Ghost, UNCHANGED kvtra, EvalFailure PROVE Inv'
<1>1. ctl = "fex" /\ EndEval(Len(stack), <<>>)
  BY DEF EvalFailure
<1>2. Len(stack) = flptr /\ r_cod \in Exprs /\ Evaluated(stack, flptr) /\ stage \in {"xt", "ee"}
  BY <1>1 DEF Inv, Controlled, InStage, Landed
<1>3. PICK value : value = <<>>
  OBVIOUS
<1>a. value \in Seq(Words) /\ Len(value) = 0
  BY <1>3
<1>4. EndEval(flptr, value) /\ Len(value) \in 0 .. 1 /\ \A i \in 1 .. Len(value) : value[i][1] = "val"
  BY <1>1, <1>2, <1>3, <1>a
<1>5. ctl \in {"run", "fex"}
  BY <1>1
<1> QED BY <1>2, <1>4, <1>5, <1>a, EndEvalKeeps

-----------------------------------------------------------------------------
(***************************************************************************)
(* The values of variables over a call.                                    *)
(***************************************************************************)
Bindings == [now : [Vars -> Values], had : Seq(Values)]

\* A name is given a value.
LEMMA GiveIs ==
    ASSUME NEW acc \in Bindings, NEW p \in Vars \X Values
    PROVE  Give(acc, p) \in Bindings /\ Len(Give(acc, p).had) = Len(acc.had) + 1
<1>1. acc.now \in [Vars -> Values] /\ acc.had \in Seq(Values) /\ p[1] \in Vars /\ p[2] \in Values
  BY DEF Bindings
<1>2. acc.now[p[1]] \in Values /\ [acc.now EXCEPT ![p[1]] = p[2]] \in [Vars -> Values]
  BY <1>1
<1>3. Append(acc.had, acc.now[p[1]]) \in Seq(Values) /\ Len(Append(acc.had, acc.now[p[1]])) = Len(acc.had) + 1
  BY <1>1, <1>2
<1> QED BY <1>2, <1>3 DEF Give, Bindings

\* The names of a call are given their values one after the other.
LEMMA BindSteps ==
    ASSUME vars \in [Vars -> Values], NEW s \in Seq(Vars \X Values)
    PROVE  \E bound : /\ bound[0] = [now |-> vars, had |-> <<>>]
                      /\ \A k \in 1 .. Len(s) : bound[k] = Give(bound[k - 1], s[k])
                      /\ \A k \in 0 .. Len(s) : bound[k] \in Bindings
                      /\ Bind(s) = bound[Len(s)]
<1>1. PICK S, x0 : S = Bindings /\ x0 = [now |-> vars, had |-> <<>>]
  OBVIOUS
<1>2. x0 \in S /\ Len(x0.had) = 0
  <2>1. <<>> \in Seq(Values) /\ Len(<<>>) = 0
    OBVIOUS
  <2> QED BY <1>1, <2>1 DEF Bindings
<1>3. PICK n \in Nat : n = Len(s)
  OBVIOUS
<1> DEFINE f == [x \in S \X (1 .. n) |-> Give(x[1], s[x[2]])]
           Is(h) == h = [k \in 0 .. n |-> IF k = 0 THEN x0 ELSE Give(h[k - 1], s[k])]
           bound == CHOOSE h : Is(h)
<1>4. \A x \in S, k \in 1 .. n : Give(x, s[k]) \in S /\ Len(Give(x, s[k]).had) = Len(x.had) + 1
  <2>1. \A k \in 1 .. n : s[k] \in Vars \X Values
    BY <1>3
  <2> QED BY <1>1, <2>1, GiveIs
<1>5. IsStep(f, S, n)
  <2>1. ASSUME NEW x \in S \X (1 .. n) PROVE Give(x[1], s[x[2]]) \in S
    BY <1>4
  <2> QED BY <2>1 DEF IsStep
<1>6. \A x \in S, k \in 1 .. n : f[<<x, k>>] = Give(x, s[k])
  OBVIOUS
<1>7. PICK g \in [0 .. n -> S] : Iterates(g, f, n, x0)
  <2> HIDE DEF f
  <2> QED BY <1>2, <1>5, Iteration
<1>8. Is(g)
  <2> HIDE DEF f
  <2>1. ASSUME NEW k \in 1 .. n PROVE g[k] = Give(g[k - 1], s[k])
    <3>1. k - 1 \in 0 .. n
      OBVIOUS
    <3>2. g[k - 1] \in S
      BY <3>1
    <3> QED BY <1>6, <1>7, <3>2 DEF Iterates
  <2>2. \A k \in 0 .. n : g[k] = IF k = 0 THEN x0 ELSE Give(g[k - 1], s[k])
    BY <1>7, <2>1 DEF Iterates
  <2> QED BY <2>2
<1>9. Is(bound)
  BY <1>8
<1>10. Bind(s) = bound[n]
  BY <1>1, <1>3 DEF Bind
<1>11. bound[0] = x0 /\ \A k \in 1 .. n : bound[k] = Give(bound[k - 1], s[k])
  <2> HIDE DEF bound
  <2>1. \A k \in 0 .. n : bound[k] = IF k = 0 THEN x0 ELSE Give(bound[k - 1], s[k])
    BY <1>9
  <2>2. 0 \in 0 .. n /\ \A k \in 1 .. n : k \in 0 .. n /\ k # 0
    OBVIOUS
  <2> QED BY <2>1, <2>2
<1>12. \A k \in 0 .. n : bound[k] \in S
  <2> HIDE DEF bound, f, Is
  <2>1. \A k \in 1 .. n : bound[k - 1] \in S => bound[k] \in S
    BY <1>4, <1>11
  <2>2. bound[0] \in S
    BY <1>2, <1>11
  <2> QED BY <2>1, <2>2, Stays
<1> HIDE DEF bound, f, Is
<1> QED BY <1>1, <1>3, <1>10, <1>11, <1>12

\* Each is given one, and what it had is kept.
LEMMA BindIs ==
    ASSUME vars \in [Vars -> Values], NEW s \in Seq(Vars \X Values)
    PROVE  Bind(s) \in Bindings /\ Len(Bind(s).had) = Len(s)
<1>1. PICK n \in Nat : n = Len(s)
  OBVIOUS
<1>2. PICK bound : /\ bound[0] = [now |-> vars, had |-> <<>>]
                   /\ \A k \in 1 .. n : bound[k] = Give(bound[k - 1], s[k])
                   /\ \A k \in 0 .. n : bound[k] \in Bindings
                   /\ Bind(s) = bound[n]
  BY <1>1, BindSteps
<1>3. Len(bound[0].had) = 0
  BY <1>2
<1>4. \A x \in Bindings, k \in 1 .. n : Len(Give(x, s[k]).had) = Len(x.had) + 1
  <2>1. \A k \in 1 .. n : s[k] \in Vars \X Values
    BY <1>1
  <2> QED BY <2>1, GiveIs
<1>5. Len(bound[n].had) = n
  <2>1. PICK h : h = [k \in 0 .. n |-> IF Len(bound[k].had) = k THEN 1 ELSE 0]
    OBVIOUS
  <2>2. \A k \in 0 .. n : h[k] \in {1} <=> Len(bound[k].had) = k
    BY <2>1
  <2>3. h[0] \in {1}
    BY <1>3, <2>2
  <2>4. ASSUME NEW k \in 1 .. n, h[k - 1] \in {1} PROVE h[k] \in {1}
    <3>1. k - 1 \in 0 .. n /\ k \in 0 .. n
      OBVIOUS
    <3>2. PICK x \in Bindings : x = bound[k - 1]
      BY <1>2, <3>1
    <3>3. Len(x.had) = k - 1
      BY <2>2, <2>4, <3>1, <3>2
    <3>4. bound[k] = Give(x, s[k])
      BY <1>2, <3>2
    <3>5. Len(bound[k].had) = k
      <4>1. Len(Give(x, s[k]).had) = Len(x.had) + 1
        BY <1>4
      <4>2. Len(bound[k].had) = k - 1 + 1
        BY <3>3, <3>4, <4>1, Zenon
      <4> QED BY <4>2
    <3> QED BY <2>2, <3>1, <3>5
  <2>5. \A k \in 0 .. n : h[k] \in {1}
    <3>1. PICK U : U = {1}
      OBVIOUS
    <3>2. h[0] \in U /\ \A k \in 1 .. n : h[k - 1] \in U => h[k] \in U
      BY <2>3, <2>4, <3>1
    <3>3. \A k \in 0 .. n : h[k] \in U
      BY <3>2, Stays
    <3> QED BY <3>1, <3>3
  <2> QED BY <2>2, <2>5
<1>6. bound[n] \in Bindings
  BY <1>2
<1> QED BY <1>1, <1>2, <1>5, <1>6

\* The values of a frame are given back one after the other.
LEMMA RestoredSteps ==
    ASSUME vars \in [Vars -> Values], NEW fr, fr.f \in Functions, fr.had \in Seq(Values), Len(fr.had) = Len(Names[fr.f])
    PROVE  \E after :
              /\ after[0] = vars
              /\ \A k \in 1 .. Len(fr.had) :
                    after[k] = [after[k - 1] EXCEPT ![Names[fr.f][Len(fr.had) + 1 - k]] = fr.had[Len(fr.had) + 1 - k]]
              /\ \A k \in 0 .. Len(fr.had) : after[k] \in [Vars -> Values]
              /\ Restored(fr) = after[Len(fr.had)]
<1>1. PICK S, x0, names, had : S = [Vars -> Values] /\ x0 = vars /\ names = Names[fr.f] /\ had = fr.had
  OBVIOUS
<1>2. PICK n \in Nat : n = Len(fr.had) /\ n = Len(names)
  BY <1>1
<1>a. names \in Seq(Vars) /\ n = Len(names)
  BY <1>1, <1>2, SizeIs
<1>3. had \in Seq(Values) /\ n = Len(had) /\ x0 \in S
  BY <1>1, <1>2
<1> DEFINE Back(x, k) == [x EXCEPT ![names[n + 1 - k]] = had[n + 1 - k]]
           f == [x \in S \X (1 .. n) |-> Back(x[1], x[2])]
           Is(h) == h = [k \in 0 .. n |-> IF k = 0 THEN x0 ELSE Back(h[k - 1], k)]
           after == CHOOSE h : Is(h)
<1>4. \A x \in S, k \in 1 .. n : Back(x, k) \in S
  <2>1. ASSUME NEW k \in 1 .. n PROVE names[n + 1 - k] \in Vars /\ had[n + 1 - k] \in Values
    <3>1. PICK j \in 1 .. n : j = n + 1 - k
      OBVIOUS
    <3>2. names[j] \in Vars
      BY <1>a
    <3>3. had[j] \in Values
      BY <1>3
    <3> QED BY <3>1, <3>2, <3>3
  <2> QED BY <1>1, <2>1
<1>5. Restored(fr) = after[n]
  BY <1>1, <1>2 DEF Restored
<1> HIDE DEF Back
<1>6. IsStep(f, S, n)
  <2>1. ASSUME NEW x \in S \X (1 .. n) PROVE Back(x[1], x[2]) \in S
    BY <1>4
  <2> QED BY <2>1 DEF IsStep
<1>7. \A x \in S, k \in 1 .. n : f[<<x, k>>] = Back(x, k)
  OBVIOUS
<1>8. PICK g \in [0 .. n -> S] : Iterates(g, f, n, x0)
  <2> HIDE DEF f
  <2> QED BY <1>3, <1>6, Iteration
<1>9. Is(g)
  <2> HIDE DEF f
  <2>1. ASSUME NEW k \in 1 .. n PROVE g[k] = Back(g[k - 1], k)
    <3>1. k - 1 \in 0 .. n
      OBVIOUS
    <3>2. g[k - 1] \in S
      BY <3>1
    <3> QED BY <1>7, <1>8, <3>2 DEF Iterates
  <2>2. \A k \in 0 .. n : g[k] = IF k = 0 THEN x0 ELSE Back(g[k - 1], k)
    BY <1>8, <2>1 DEF Iterates
  <2> QED BY <2>2
<1>10. Is(after)
  BY <1>9
<1>11. after[0] = x0 /\ \A k \in 1 .. n : after[k] = Back(after[k - 1], k)
  <2> HIDE DEF after
  <2>1. \A k \in 0 .. n : after[k] = IF k = 0 THEN x0 ELSE Back(after[k - 1], k)
    BY <1>10
  <2>2. 0 \in 0 .. n /\ \A k \in 1 .. n : k \in 0 .. n /\ k # 0
    OBVIOUS
  <2> QED BY <2>1, <2>2
<1>12. \A k \in 0 .. n : after[k] \in S
  <2> HIDE DEF after, f, Is
  <2>1. \A k \in 1 .. n : after[k - 1] \in S => after[k] \in S
    BY <1>4, <1>11
  <2>2. after[0] \in S
    BY <1>3, <1>11
  <2> QED BY <2>1, <2>2, Stays
<1> HIDE DEF after, f, Is
<1> QED BY <1>1, <1>2, <1>5, <1>11, <1>12 DEF Back

\* Then each variable has a value.
LEMMA RestoredIs ==
    ASSUME vars \in [Vars -> Values], NEW fr, fr.f \in Functions, fr.had \in Seq(Values), Len(fr.had) = Len(Names[fr.f])
    PROVE  Restored(fr) \in [Vars -> Values]
<1>1. PICK n \in Nat : n = Len(fr.had) /\ n \in 0 .. n
  OBVIOUS
<1> QED BY <1>1, RestoredSteps


-----------------------------------------------------------------------------
(***************************************************************************)
(* Calls of program defined functions.                                     *)
(***************************************************************************)

\* The frame of a call of f from place c of block blk, flptr being fl and
\* flprt r, is above the first n words of t and ends at p.
Framed(t, p, n, f, blk, c, fl, r) ==
    /\ n \in Nat /\ p = n + Size(f) + 8 /\ p \in Nat
    /\ t[p][1] = "off" /\ t[p - 1] = Pf(f) /\ t[p - 2] = Adr(fl) /\ t[p - 3] = Adr(r) /\ t[p - 4] = Cp(c)
    /\ t[p - 5] = Blk(blk) /\ t[p - 6][1] = "val" /\ t[p - 7] = Other
    /\ \A i \in n + 1 .. p - 8 : t[i][1] = "val"

\* Two sequences joined.
LEMMA JoinIs ==
    ASSUME NEW S, NEW a \in Seq(S), NEW b \in Seq(S)
    PROVE  a \o b \in Seq(S) /\ Len(a \o b) = Len(a) + Len(b)
OBVIOUS

\* The names of a call of f and what they are given.
Giving(f, args) ==
    <<<<f, Null>>>> \o [i \in DOMAIN args |-> <<Params[f][i], args[i][2]>>]
    \o [i \in DOMAIN Locals[f] |-> <<Locals[f][i], Null>>]

LEMMA GivenIs ==
    ASSUME Inv, NEW f \in Functions, NEW args \in Seq(Words), Len(args) = Len(Params[f]),
           \A i \in 1 .. Len(args) : args[i][1] = "val"
    PROVE  \E s \in Seq(Vars \X Values) : s = Giving(f, args) /\ Len(s) = Size(f) + 1
<1>1. Null \in Values /\ f \in Vars /\ Params[f] \in Seq(Vars) /\ Locals[f] \in Seq(Vars)
  BY CallsAssumption DEF Inv, Typed, Values
<1>2. PICK P : P = Vars \X Values
  OBVIOUS
<1>3. PICK x : x = <<<<f, Null>>>>
  OBVIOUS
<1>4. x \in Seq(P) /\ Len(x) = 1
  <2>1. PICK y \in P : y = <<f, Null>>
    BY <1>1, <1>2
  <2>2. x = <<y>>
    BY <1>3, <2>1
  <2> QED BY <2>2
<1>5. PICK k \in Nat, m \in Nat : k = Len(Params[f]) /\ m = Len(Locals[f]) /\ Size(f) = k + m
  <2>1. Len(Names[f]) = 1 + Len(Params[f]) + Len(Locals[f]) /\ Len(Params[f]) \in Nat /\ Len(Locals[f]) \in Nat
    BY SizeIs
  <2>2. PICK k \in Nat : k = Len(Params[f])
    BY <2>1
  <2>3. PICK m \in Nat : m = Len(Locals[f])
    BY <2>1
  <2>4. Len(Names[f]) = 1 + k + m
    BY <2>1, <2>2, <2>3, Zenon
  <2>5. Size(f) = 1 + k + m - 1
    BY <2>4 DEF Size
  <2>6. 1 + k + m - 1 = k + m
    OBVIOUS
  <2> QED BY <2>2, <2>3, <2>5, <2>6, Zenon
<1>6. PICK a : a = [i \in 1 .. k |-> <<Params[f][i], args[i][2]>>]
  OBVIOUS
<1>7. a \in Seq(P) /\ Len(a) = k
  <2>1. ASSUME NEW i \in 1 .. k PROVE <<Params[f][i], args[i][2]>> \in P
    <3>1. Params[f][i] \in Vars
      BY <1>1, <1>5
    <3>2. args[i] \in Words /\ args[i][1] = "val"
      BY <1>5
    <3>3. args[i][2] \in Values
      BY <3>2, WordKinds
    <3> QED BY <1>2, <3>1, <3>3
  <2> QED BY <1>6, <2>1
<1>8. PICK l : l = [i \in 1 .. m |-> <<Locals[f][i], Null>>]
  OBVIOUS
<1>9. l \in Seq(P) /\ Len(l) = m
  <2>1. ASSUME NEW i \in 1 .. m PROVE <<Locals[f][i], Null>> \in P
    <3>1. Locals[f][i] \in Vars
      BY <1>1, <1>5
    <3> QED BY <1>1, <1>2, <3>1
  <2> QED BY <1>8, <2>1
<1>10. x \o a \o l \in Seq(P) /\ Len(x \o a \o l) = 1 + k + m
  <2>1. PICK y : y = x \o a
    OBVIOUS
  <2>2. y \in Seq(P) /\ Len(y) = 1 + k
    <3>1. x \o a \in Seq(P) /\ Len(x \o a) = Len(x) + Len(a)
      BY <1>4, <1>7, JoinIs
    <3> QED BY <1>4, <1>7, <2>1, <3>1, Zenon
  <2>3. y \o l \in Seq(P) /\ Len(y \o l) = 1 + k + m
    <3>1. y \o l \in Seq(P) /\ Len(y \o l) = Len(y) + Len(l)
      BY <1>9, <2>2, JoinIs
    <3> QED BY <1>9, <2>2, <3>1
  <2> QED BY <2>1, <2>3, Zenon
<1>11. DOMAIN args = 1 .. k /\ DOMAIN Locals[f] = 1 .. m
  BY <1>1, <1>5
<1>12. x \o a \o l = Giving(f, args)
  BY <1>3, <1>6, <1>8, <1>11 DEF Giving
<1>13. PICK s : s = x \o a \o l
  OBVIOUS
<1>14. Len(s) = Size(f) + 1 /\ s \in Seq(P)
  <2>1. 1 + k + m = k + m + 1
    OBVIOUS
  <2>2. s \in Seq(P) /\ Len(s) = 1 + k + m
    BY <1>10, <1>13, Zenon
  <2> QED BY <1>5, <2>1, <2>2, Zenon
<1> QED BY <1>2, <1>12, <1>13, <1>14

\* Eight words.
LEMMA EightAre ==
    ASSUME NEW a \in Words, NEW b \in Words, NEW c \in Words, NEW d \in Words,
           NEW e \in Words, NEW f \in Words, NEW g \in Words, NEW h \in Words,
           NEW u, u = <<a, b, c, d, e, f, g, h>>
    PROVE  /\ u \in Seq(Words) /\ Len(u) = 8
           /\ u[1] = a /\ u[2] = b /\ u[3] = c /\ u[4] = d /\ u[5] = e /\ u[6] = f /\ u[7] = g /\ u[8] = h
OBVIOUS

\* The frame of a call of f that ends at p, above the first n words of t, has the values
\* the names had, that of f in a place of its own.
Keeping(t, p, n, f, had) == t[p - 6] = Val(had[1]) /\ \A i \in 1 .. Size(f) : t[n + i] = Val(had[i + 1])
Bound(t, p, n, f, args) == vars' = Bind(Giving(f, args)).now /\ Keeping(t, p, n, f, Bind(Giving(f, args)).had)

\* What b_pfc stacks.
LEMMA InvokeStacks ==
    ASSUME Inv, NEW f \in Functions, NEW b \in Stmts, NEW s \in Seq(Words), NEW args \in Seq(Words),
           Len(args) = Len(Params[f]), \A i \in 1 .. Len(args) : args[i][1] = "val",
           NEW blk \in Blocks \cup {trxdc}, NEW c \in Places, NEW fl \in Nat, Invoke(f, b, FALSE, s, args, blk, c, fl)
    PROVE  \E h \in Seq(Words), p \in Nat :
              /\ p = Len(h) /\ Same(s, h, Len(s)) /\ Framed(h, p, Len(s), f, blk, c, fl, flprt)
              /\ kvfnc < prog.level /\ p <= prog.stack /\ vars' \in [Vars -> Values]
              /\ flprt' = p /\ kvfnc' = kvfnc + 1 /\ Enter(b, h, p) /\ UNCHANGED <<comp, traps>>
              /\ Bound(h, p, Len(s), f, args)
<1>1. PICK g \in Seq(Vars \X Values) : g = Giving(f, args) /\ Len(g) = Size(f) + 1
  BY GivenIs
<1>2. PICK bound : bound = Bind(g)
  OBVIOUS
<1>3. bound.now \in [Vars -> Values] /\ bound.had \in Seq(Values) /\ Len(bound.had) = Size(f) + 1
  <2>1. vars \in [Vars -> Values]
    BY DEF Inv, Typed
  <2>2. bound \in Bindings /\ Len(bound.had) = Len(g)
    BY <1>2, <2>1, BindIs
  <2> QED BY <1>1, <2>2 DEF Bindings
<1>4. PICK z \in Nat : z = Size(f)
  BY SizeIs
<1>5. PICK had : had = [i \in DOMAIN bound.had |-> Val(bound.had[i])]
  OBVIOUS
<1>6. had \in Seq(Words) /\ Len(had) = z + 1 /\ \A i \in 1 .. z + 1 : had[i] \in Words /\ had[i][1] = "val"
  <2>1. DOMAIN bound.had = 1 .. z + 1 /\ \A i \in 1 .. z + 1 : bound.had[i] \in Values
    BY <1>3, <1>4
  <2>2. had = [i \in 1 .. z + 1 |-> Val(bound.had[i])]
    BY <1>5, <2>1
  <2>3. \A i \in 1 .. z + 1 : had[i] = Val(bound.had[i])
    BY <2>2
  <2>4. ASSUME NEW i \in 1 .. z + 1 PROVE had[i] \in Words /\ had[i][1] = "val"
    <3>1. PICK v \in Values : v = bound.had[i]
      BY <2>1
    <3>2. had[i] = Val(v)
      BY <2>3, <3>1
    <3> QED BY <3>2, WordsAre, WordParts
  <2> QED BY <2>2, <2>4
<1>7. PICK low : low = Tail(had)
  OBVIOUS
<1>8. low \in Seq(Words) /\ Len(low) = z /\ \A i \in 1 .. z : low[i][1] = "val"
  <2>1. low \in Seq(Words) /\ Len(low) = z /\ \A i \in 1 .. z : low[i] = had[i + 1]
    BY <1>6, <1>7
  <2>2. \A i \in 1 .. z : i + 1 \in 1 .. z + 1
    OBVIOUS
  <2> QED BY <1>6, <2>1, <2>2
<1>9. PICK o \in Offsets : o = <<"zero">>
  BY OffsetsAre
<1>10. PICK w2 \in Words, w3 \in Words, w4 \in Words, w5 \in Words, w6 \in Words, w7 \in Words, w8 \in Words :
          w2 = had[1] /\ w3 = Blk(blk) /\ w4 = Cp(c) /\ w5 = Adr(flprt) /\ w6 = Adr(fl) /\ w7 = Pf(f) /\ w8 = Off(o)
  <2>1. had[1] \in Words
    BY <1>6
  <2>2. flprt \in Nat
    BY Basics
  <2> QED BY <2>1, <2>2, WordsAre
<1>11. Other \in Words /\ w2[1] = "val" /\ w8[1] = "off"
  BY <1>6, <1>10, WordsAre, WordParts
<1>12. PICK u : u = <<Other, w2, w3, w4, w5, w6, w7, w8>>
  OBVIOUS
<1>13. /\ u \in Seq(Words) /\ Len(u) = 8
       /\ u[1] = Other /\ u[2] = w2 /\ u[3] = w3 /\ u[4] = w4 /\ u[5] = w5 /\ u[6] = w6 /\ u[7] = w7 /\ u[8] = w8
  BY <1>11, <1>12, EightAre
<1>14. PICK d : d = low \o u
  OBVIOUS
<1>15. d \in Seq(Words) /\ Len(d) = z + 8 /\ Same(low, d, z) /\ \A i \in 1 .. 8 : d[z + i] = u[i]
  <2>1. /\ low \o u \in Seq(Words) /\ Len(low \o u) = Len(low) + Len(u) /\ Same(low, low \o u, Len(low))
        /\ \A i \in 1 .. Len(u) : (low \o u)[Len(low) + i] = u[i]
    BY <1>8, <1>13, PushIs
  <2>2. Len(low) = z /\ Len(u) = 8
    BY <1>8, <1>13
  <2> QED BY <1>14, <2>1, <2>2, Zenon
<1>16. PICK n \in Nat : n = Len(s)
  OBVIOUS
<1>17. PICK h : h = s \o d
  OBVIOUS
<1>18. h \in Seq(Words) /\ Len(h) = n + (z + 8) /\ Same(s, h, n) /\ \A i \in 1 .. z + 8 : h[n + i] = d[i]
  <2>1. /\ s \o d \in Seq(Words) /\ Len(s \o d) = Len(s) + Len(d) /\ Same(s, s \o d, Len(s))
        /\ \A i \in 1 .. Len(d) : (s \o d)[Len(s) + i] = d[i]
    BY <1>15, PushIs
  <2>2. Len(d) = z + 8
    BY <1>15
  <2> QED BY <1>16, <1>17, <2>1, <2>2, Zenon
<1>19. h = s \o (Tail(had) \o <<Other, had[1], Blk(blk), Cp(c), Adr(flprt), Adr(fl), Pf(f), Off(<<"zero">>)>>)
  BY <1>7, <1>9, <1>10, <1>12, <1>14, <1>17
<1>20. PICK p \in Nat : p = n + z + 8 /\ p = Len(h)
  BY <1>18
<1>21. /\ kvfnc < prog.level /\ p <= prog.stack /\ vars' = bound.now
       /\ flprt' = p /\ kvfnc' = kvfnc + 1 /\ Enter(b, h, p) /\ UNCHANGED <<comp, traps>>
  BY <1>1, <1>2, <1>5, <1>19, <1>20 DEF Invoke, Giving
<1>22. \A i \in 1 .. 8 : h[n + z + i] = u[i]
  <2>1. ASSUME NEW i \in 1 .. 8 PROVE h[n + z + i] = u[i]
    <3>1. z + i \in 1 .. z + 8 /\ n + (z + i) = n + z + i
      OBVIOUS
    <3>2. h[n + (z + i)] = d[z + i]
      BY <1>18, <3>1
    <3> QED BY <1>15, <3>1, <3>2
  <2> QED BY <2>1
<1>23. /\ h[n + z + 1] = Other /\ h[n + z + 2] = w2 /\ h[n + z + 3] = w3 /\ h[n + z + 4] = w4 /\ h[n + z + 5] = w5
       /\ h[n + z + 6] = w6 /\ h[n + z + 7] = w7 /\ h[n + z + 8] = w8
  BY <1>13, <1>22
<1>24. \A i \in n + 1 .. n + z : h[i][1] = "val"
  <2>1. ASSUME NEW i \in n + 1 .. n + z PROVE h[i][1] = "val"
    <3>1. PICK j \in 1 .. z : i = n + j
      <4>1. i - n \in 1 .. z /\ i = n + (i - n)
        OBVIOUS
      <4> QED BY <4>1
    <3>2. j \in 1 .. z + 8
      OBVIOUS
    <3>3. h[i] = low[j]
      BY <1>15, <1>18, <3>1, <3>2 DEF Same
    <3> QED BY <1>8, <3>3
  <2> QED BY <2>1
<1>25. Framed(h, p, n, f, blk, c, fl, flprt)
  <2>1. p - 1 = n + z + 7 /\ p - 2 = n + z + 6 /\ p - 3 = n + z + 5 /\ p - 4 = n + z + 4 /\ p - 5 = n + z + 3
        /\ p - 6 = n + z + 2 /\ p - 7 = n + z + 1 /\ p - 8 = n + z
    BY <1>20
  <2> QED BY <1>4, <1>10, <1>11, <1>20, <1>23, <1>24, <2>1 DEF Framed
<1>26. Bound(h, p, n, f, args)
  <2>1. \A i \in 1 .. z + 1 : had[i] = Val(bound.had[i])
    <3>1. DOMAIN bound.had = 1 .. z + 1
      BY <1>3, <1>4
    <3> QED BY <1>5, <3>1
  <2>2. h[n + z + 2] = Val(bound.had[1])
    <3>1. 1 \in 1 .. z + 1
      OBVIOUS
    <3> QED BY <1>10, <1>23, <2>1, <3>1
  <2>3. ASSUME NEW i \in 1 .. z PROVE h[n + i] = Val(bound.had[i + 1])
    <3>1. i \in 1 .. z + 8 /\ i + 1 \in 1 .. z + 1
      OBVIOUS
    <3>2. h[n + i] = low[i]
      BY <1>15, <1>18, <3>1 DEF Same
    <3>3. low[i] = had[i + 1]
      BY <1>6, <1>7
    <3> QED BY <2>1, <3>1, <3>2, <3>3
  <2>4. p - 6 = n + z + 2
    BY <1>20
  <2>5. Keeping(h, p, n, f, bound.had)
    BY <1>4, <2>2, <2>3, <2>4 DEF Keeping
  <2> QED BY <1>1, <1>2, <1>21, <2>5 DEF Bound
<1> QED BY <1>3, <1>16, <1>18, <1>20, <1>21, <1>25, <1>26

\* The state a call has come to, and the values it has bound and kept.
Invoked(t, p, s, f, b, blk, c, fl) ==
    /\ t = stack' /\ p = flptr' /\ p = flprt' /\ p <= Len(t) /\ Len(t) <= p + 1 /\ p <= prog.stack
    /\ Same(s, t, Len(s)) /\ Framed(t, p, Len(s), f, blk, c, fl, flprt)
    /\ Meets(t, p, t[p][2]) /\ ~IsTrace(t, p) /\ \A i \in p + 1 .. Len(t) : t[i] = Other
    /\ kvfnc < prog.level /\ kvfnc' = kvfnc + 1 /\ vars' \in [Vars -> Values]
    /\ r_cod' = b /\ b # trxdc /\ cp' \in Places /\ ctl' \in {"run", "interrupt"} /\ Controlled'
    /\ UNCHANGED <<comp, traps>>

LEMMA InvokeBinds ==
    ASSUME Inv, NEW f \in Functions, NEW b \in Stmts, NEW s \in Seq(Words), NEW args \in Seq(Words),
           Len(args) = Len(Params[f]), \A i \in 1 .. Len(args) : args[i][1] = "val",
           NEW blk \in Blocks \cup {trxdc}, NEW c \in Places, NEW fl \in Nat, Len(s) > 0,
           Invoke(f, b, FALSE, s, args, blk, c, fl)
    PROVE  \E t \in Seq(Words), p \in Nat : Invoked(t, p, s, f, b, blk, c, fl) /\ Bound(t, p, Len(s), f, args)
<1>1. PICK h \in Seq(Words), p \in Nat :
         /\ p = Len(h) /\ Same(s, h, Len(s)) /\ Framed(h, p, Len(s), f, blk, c, fl, flprt)
         /\ kvfnc < prog.level /\ p <= prog.stack /\ vars' \in [Vars -> Values]
         /\ flprt' = p /\ kvfnc' = kvfnc + 1 /\ Enter(b, h, p) /\ UNCHANGED <<comp, traps>>
         /\ Bound(h, p, Len(s), f, args)
  BY InvokeStacks
<1>2. PICK n \in Nat \ {0}, z \in Nat : n = Len(s) /\ z = Size(f) /\ p = n + z + 8
  <2>1. PICK z \in Nat : z = Size(f)
    BY SizeIs
  <2>2. PICK n \in Nat \ {0} : n = Len(s)
    OBVIOUS
  <2>3. p = n + z + 8
    BY <1>1, <2>1, <2>2, Zenon DEF Framed
  <2> QED BY <2>1, <2>2, <2>3
<1>3. p \in Nat \ {0} /\ p <= Len(h) /\ n <= p - 1
  BY <1>1, <1>2
<1>4. PICK t \in Seq(Words) :
         /\ t = stack' /\ p <= Len(t) /\ Len(t) <= p + 1 /\ Same(h, t, p - 1) /\ t[p][1] = "off"
         /\ Meets(t, p, t[p][2]) /\ ~IsTrace(t, p) /\ \A i \in p + 1 .. Len(t) : t[i] = Other
  BY <1>1, <1>3, EnterIs
<1>5. /\ flptr' = p /\ r_cod' = b /\ b # trxdc /\ cp' \in Places /\ ctl' \in {"run", "interrupt"} /\ Controlled'
  BY <1>1, <1>3, EnterIs
<1>6. Same(s, t, n)
  <2>1. ASSUME NEW i \in 1 .. n PROVE t[i] = s[i]
    <3>1. i \in 1 .. p - 1
      BY <1>2
    <3>2. t[i] = h[i]
      BY <1>4, <3>1 DEF Same
    <3>3. h[i] = s[i]
      BY <1>1, <1>2 DEF Same
    <3> QED BY <3>2, <3>3
  <2> QED BY <2>1 DEF Same
<1>7. Framed(t, p, n, f, blk, c, fl, flprt)
  <2>1. p - 1 \in 1 .. p - 1 /\ p - 2 \in 1 .. p - 1 /\ p - 3 \in 1 .. p - 1 /\ p - 4 \in 1 .. p - 1 /\ p - 5 \in 1 .. p - 1
        /\ p - 6 \in 1 .. p - 1 /\ p - 7 \in 1 .. p - 1 /\ \A i \in n + 1 .. p - 8 : i \in 1 .. p - 1
    <3>1. p = n + z + 8 /\ n \in Nat \ {0} /\ z \in Nat
      BY <1>2
    <3>2. PICK k \in Nat : k = n + z
      BY <3>1
    <3>3. p = k + 8 /\ n \in 1 .. k
      BY <3>1, <3>2
    <3>4. /\ p - 1 \in 1 .. p - 1 /\ p - 2 \in 1 .. p - 1 /\ p - 3 \in 1 .. p - 1 /\ p - 4 \in 1 .. p - 1
          /\ p - 5 \in 1 .. p - 1 /\ p - 6 \in 1 .. p - 1 /\ p - 7 \in 1 .. p - 1
      BY <3>2, <3>3
    <3>5. \A i \in n + 1 .. p - 8 : i \in 1 .. p - 1
      BY <3>2, <3>3
    <3> QED BY <3>4, <3>5
  <2>2. /\ t[p - 1] = h[p - 1] /\ t[p - 2] = h[p - 2] /\ t[p - 3] = h[p - 3] /\ t[p - 4] = h[p - 4] /\ t[p - 5] = h[p - 5]
        /\ t[p - 6] = h[p - 6] /\ t[p - 7] = h[p - 7] /\ \A i \in n + 1 .. p - 8 : t[i] = h[i]
    BY <1>4, <2>1 DEF Same
  <2> QED BY <1>1, <1>2, <1>4, <2>2 DEF Framed
<1>8. Bound(t, p, n, f, args)
  <2>1. p - 6 \in 1 .. p - 1 /\ \A i \in 1 .. z : n + i \in 1 .. p - 1
    BY <1>2
  <2>2. t[p - 6] = h[p - 6] /\ \A i \in 1 .. z : t[n + i] = h[n + i]
    BY <1>4, <2>1 DEF Same
  <2>3. PICK had : had = Bind(Giving(f, args)).had
    OBVIOUS
  <2>4. Keeping(h, p, n, f, had)
    BY <1>1, <1>2, <2>3 DEF Bound
  <2>5. Keeping(t, p, n, f, had)
    BY <1>2, <2>2, <2>4 DEF Keeping
  <2> QED BY <1>1, <2>3, <2>5 DEF Bound
<1>9. Invoked(t, p, s, f, b, blk, c, fl)
  BY <1>1, <1>2, <1>4, <1>5, <1>6, <1>7 DEF Invoked
<1> QED BY <1>2, <1>8, <1>9

\* The state alone.
LEMMA InvokeIs ==
    ASSUME Inv, NEW f \in Functions, NEW b \in Stmts, NEW s \in Seq(Words), NEW args \in Seq(Words),
           Len(args) = Len(Params[f]), \A i \in 1 .. Len(args) : args[i][1] = "val",
           NEW blk \in Blocks \cup {trxdc}, NEW c \in Places, NEW fl \in Nat, Len(s) > 0,
           Invoke(f, b, FALSE, s, args, blk, c, fl)
    PROVE  \E t \in Seq(Words), p \in Nat : Invoked(t, p, s, f, b, blk, c, fl)
BY InvokeBinds

\* The words of a frame.
LEMMA FramedWords ==
    ASSUME NEW t, NEW p, NEW n, NEW f, NEW blk, NEW c, NEW fl, NEW r, Framed(t, p, n, f, blk, c, fl, r)
    PROVE  /\ t[p - 1][1] = "pf" /\ t[p - 1][2] = f /\ t[p - 2][1] = "adr" /\ t[p - 2][2] = fl
           /\ t[p - 3][1] = "adr" /\ t[p - 3][2] = r /\ t[p - 4][1] = "cp" /\ t[p - 4][2] = c
           /\ t[p - 5][1] = "blk" /\ t[p - 5][2] = blk /\ t[p - 7][1] = "other"
<1>1. t[p - 1] = Pf(f) /\ t[p - 2] = Adr(fl) /\ t[p - 3] = Adr(r) /\ t[p - 4] = Cp(c) /\ t[p - 5] = Blk(blk) /\ t[p - 7] = Other
  BY Zenon DEF Framed
<1>2. t[p - 1][1] = "pf" /\ t[p - 1][2] = f
  BY <1>1 DEF Pf
<1>3. t[p - 2][1] = "adr" /\ t[p - 2][2] = fl
  BY <1>1 DEF Adr
<1>4. t[p - 3][1] = "adr" /\ t[p - 3][2] = r
  BY <1>1 DEF Adr
<1>5. t[p - 4][1] = "cp" /\ t[p - 4][2] = c
  BY <1>1 DEF Cp
<1>6. t[p - 5][1] = "blk" /\ t[p - 5][2] = blk
  BY <1>1 DEF Blk
<1>7. t[p - 7][1] = "other"
  BY <1>1 DEF Other
<1> QED BY <1>2, <1>3, <1>4, <1>5, <1>6, <1>7

\* A frame above a place that can go on is that of a call.
LEMMA FramedIs ==
    ASSUME NEW t, NEW p, NEW n, NEW f \in Functions, NEW blk, NEW c, NEW fl, NEW r,
           Framed(t, p, n, f, blk, c, fl, r), Context(t, blk, c, fl, n), LastCall(t, r, p)
    PROVE  /\ Called(t, p) /\ IsCall(t, p) /\ n < p /\ p \in Nat /\ n \in Nat \ {0} /\ n + 8 <= p
           /\ \A i \in n + 1 .. p - 1 : t[i][1] # "off"
           /\ \A i \in n + 1 .. p : i # p - 5 => t[i] # Blk(trxdc)
<1>1. PICK z \in Nat : z = Size(f)
  BY SizeIs
<1>2. n \in Nat \ {0} /\ fl \in Nat \ {0} /\ fl <= n
  <2>1. fl \in 1 .. n /\ n \in Nat
    BY ContextTypes
  <2> QED BY <2>1
<1>3. p \in Nat /\ p = n + z + 8
  BY <1>1, Zenon DEF Framed
<1>4. p > 8 /\ p > 1 /\ n < p /\ z < p - 8 /\ p - 7 - z = n + 1 /\ p - 8 - z = n /\ n + 8 <= p
  BY <1>2, <1>3
<1>5. /\ t[p][1] = "off" /\ t[p - 1] = Pf(f) /\ t[p - 2] = Adr(fl) /\ t[p - 3] = Adr(r) /\ t[p - 4] = Cp(c)
      /\ t[p - 5] = Blk(blk) /\ t[p - 6][1] = "val" /\ t[p - 7] = Other
      /\ \A i \in n + 1 .. p - 8 : t[i][1] = "val"
  BY Zenon DEF Framed
<1>6. /\ t[p - 1][1] = "pf" /\ t[p - 1][2] = f /\ t[p - 2][1] = "adr" /\ t[p - 2][2] = fl
      /\ t[p - 3][1] = "adr" /\ t[p - 3][2] = r /\ t[p - 4][1] = "cp" /\ t[p - 4][2] = c
      /\ t[p - 5][1] = "blk" /\ t[p - 5][2] = blk /\ t[p - 7][1] = "other"
  BY FramedWords
<1>7. IsCall(t, p)
  BY <1>4, <1>5, <1>6 DEF IsCall
<1>8. Called(t, p)
  <2>1. Size(t[p - 1][2]) = z
    BY <1>1, <1>6
  <2>2. \A i \in p - 7 - z .. p - 8 : t[i][1] = "val"
    BY <1>4, <1>5
  <2>3. LastCall(t, t[p - 3][2], p) /\ Context(t, t[p - 5][2], t[p - 4][2], t[p - 2][2], p - 8 - z)
    BY <1>4, <1>6
  <2> QED BY <1>4, <1>5, <1>6, <2>1, <2>2, <2>3, Zenon DEF Called
<1>9. ASSUME NEW i \in n + 1 .. p PROVE i \in n + 1 .. p - 8 \/ i \in {p, p - 1, p - 2, p - 3, p - 4, p - 5, p - 6, p - 7}
  BY <1>2, <1>3
<1>10. ASSUME NEW i \in n + 1 .. p - 1 PROVE t[i][1] # "off"
  <2>1. i \in n + 1 .. p /\ i # p
    BY <1>2, <1>3
  <2>2. i \in n + 1 .. p - 8 \/ i \in {p - 1, p - 2, p - 3, p - 4, p - 5, p - 6, p - 7}
    BY <1>9, <2>1
  <2> QED BY <1>5, <1>6, <2>2
<1>11. ASSUME NEW i \in n + 1 .. p, i # p - 5 PROVE t[i] # Blk(trxdc)
  <2>1. t[i][1] # "blk"
    BY <1>5, <1>6, <1>9, <1>11
  <2> QED BY <2>1, NotBlock
<1> QED BY <1>2, <1>3, <1>4, <1>7, <1>8, <1>10, <1>11

\* A call of f puts its frame over the n words of s: the stack is t, the frame ends at p.
CallPushed(s, t, fl, n, p, f, blk, c, r) ==
    /\ Len(s) \in Nat /\ Len(t) \in Nat /\ n \in Nat /\ f \in Functions
    /\ Chained(s, fl) /\ fl <= n /\ n <= Len(s) /\ Clean(s, fl, n) /\ Same(s, t, n)
    /\ Framed(t, p, n, f, blk, c, fl, r) /\ Context(s, blk, c, fl, n) /\ LastCall(s, r, fl + 1)
    /\ p <= Len(t) /\ Meets(t, p, t[p][2])

\* Then that frame is a call, the chain of failure offsets below it going on.
CallAbove(s, t, fl, n, p) ==
    /\ Called(t, p) /\ IsCall(t, p) /\ n < p /\ p \in Nat \ {0} /\ n + 8 <= p
    /\ \A i \in n + 1 .. p : i # p - 5 => t[i] # Blk(trxdc)
    /\ \A i \in fl + 1 .. p - 1 : t[i][1] # "off"
    /\ Chained(t, p) /\ LastCall(t, p, p + 1) /\ CallsTo(t, p) = CallsTo(s, fl) \cup {p} /\ p \notin CallsTo(s, fl)

LEMMA CallCommon ==
    ASSUME NEW s, NEW t, NEW fl, NEW n, NEW p, NEW f, NEW blk, NEW c, NEW r,
           CallPushed(s, t, fl, n, p, f, blk, c, r)
    PROVE  CallAbove(s, t, fl, n, p)
<1> /\ Len(s) \in Nat /\ Len(t) \in Nat /\ n \in Nat /\ f \in Functions
    /\ Chained(s, fl) /\ fl <= n /\ n <= Len(s) /\ Clean(s, fl, n) /\ Same(s, t, n)
    /\ Framed(t, p, n, f, blk, c, fl, r) /\ Context(s, blk, c, fl, n) /\ LastCall(s, r, fl + 1)
    /\ p <= Len(t) /\ Meets(t, p, t[p][2])
  BY DEF CallPushed
<1>1. fl \in 1 .. Len(s) /\ fl \in Nat \ {0} /\ s[fl][1] = "off"
  BY DEF Chained
<1>2. Context(t, blk, c, fl, n)
  BY SameContext
<1>3. p \in Nat /\ n < p /\ n + 8 <= p
  <2>1. PICK z \in Nat : z = Size(f)
    BY SizeIs
  <2>2. p = n + z + 8 /\ p \in Nat
    BY <2>1, Zenon DEF Framed
  <2> QED BY <2>2
<1>4. \A i \in 1 .. fl : IsCall(s, i) <=> IsCall(t, i)
  <2>1. Same(s, t, fl)
    BY <1>1 DEF Same
  <2> QED BY <1>1, <2>1, SameCalls
<1>5. ASSUME NEW i \in n + 1 .. p - 1 PROVE t[i][1] # "off"
  <2>1. PICK z \in Nat : z = Size(f)
    BY SizeIs
  <2>2. p = n + z + 8
    BY <2>1, Zenon DEF Framed
  <2>3. i \in n + 1 .. p - 8 \/ i \in {p - 1, p - 2, p - 3, p - 4, p - 5, p - 6, p - 7}
    BY <1>3, <2>2
  <2>4. /\ t[p - 1] = Pf(f) /\ t[p - 2] = Adr(fl) /\ t[p - 3] = Adr(r) /\ t[p - 4] = Cp(c)
        /\ t[p - 5] = Blk(blk) /\ t[p - 6][1] = "val" /\ t[p - 7] = Other
        /\ \A j \in n + 1 .. p - 8 : t[j][1] = "val"
    BY Zenon DEF Framed
  <2>5. /\ t[p - 1][1] = "pf" /\ t[p - 2][1] = "adr" /\ t[p - 3][1] = "adr" /\ t[p - 4][1] = "cp"
        /\ t[p - 5][1] = "blk" /\ t[p - 7][1] = "other"
    BY FramedWords
  <2> QED BY <2>3, <2>4, <2>5
<1>6. ASSUME NEW i \in fl + 1 .. p - 1 PROVE t[i][1] # "off"
  <2>1. CASE i <= n
    <3>1. i \in 1 .. n /\ i \in fl + 1 .. n
      BY <1>1, <2>1
    <3> QED BY <3>1 DEF Same, Clean
  <2>2. CASE i > n
    <3>1. i \in n + 1 .. p - 1
      BY <1>1, <1>3, <2>2
    <3> QED BY <1>5, <3>1
  <2> QED BY <1>1, <2>1, <2>2
<1>7. \A i \in fl + 1 .. p - 1 : ~IsCall(t, i)
  BY <1>6 DEF IsCall
<1>8. r \in 0 .. fl /\ (r # 0 => IsCall(s, r)) /\ \A i \in r + 1 .. fl : ~IsCall(s, i)
  BY <1>1, LastOf
<1>9. LastCall(t, r, p)
  <2>1. r \in 0 .. p - 1
    BY <1>1, <1>3, <1>8
  <2>2. r # 0 => IsCall(t, r)
    <3>1. r # 0 => r \in 1 .. fl
      BY <1>1, <1>8
    <3> QED BY <1>4, <1>8, <3>1
  <2>3. ASSUME NEW i \in r + 1 .. p - 1 PROVE ~IsCall(t, i)
    <3>1. CASE i \in r + 1 .. fl
      <4>1. i \in 1 .. fl
        BY <1>1, <1>8, <3>1
      <4> QED BY <1>4, <1>8, <3>1, <4>1
    <3>2. CASE i \in fl + 1 .. p - 1
      BY <1>7, <3>2
    <3>3. i \in r + 1 .. fl \/ i \in fl + 1 .. p - 1
      BY <1>1, <1>3, <1>8
    <3> QED BY <3>1, <3>2, <3>3
  <2> QED BY <2>1, <2>2, <2>3 DEF LastCall
<1>10. /\ Called(t, p) /\ IsCall(t, p) /\ \A i \in n + 1 .. p : i # p - 5 => t[i] # Blk(trxdc)
  BY <1>2, <1>9, FramedIs
<1>11. Linked(t, p)
  BY <1>10 DEF Linked
<1>12. Chained(t, p)
  <2>1. Same(s, t, fl - 1) /\ t[fl] = s[fl]
    BY <1>1 DEF Same
  <2>2. Meets(t, fl, t[fl][2])
    <3>1. Meets(s, fl, s[fl][2])
      <4>1. fl \in 1 .. fl
        BY <1>1
      <4> QED BY <1>1, <4>1, ChainPop
    <3> QED BY <1>1, <2>1, <3>1, SameMeets
  <2>3. Clean(t, fl, p - 1)
    BY <1>6 DEF Clean
  <2>4. fl < p /\ t[p][1] = "off" /\ t[fl][1] = "off"
    BY <1>1, <1>3, <1>10, <2>1 DEF IsCall
  <2> QED BY <1>3, <1>11, <2>1, <2>2, <2>3, <2>4, ChainPush
<1>13. LastCall(t, p, p + 1)
  <2>1. p \in 0 .. p + 1 - 1 /\ p + 1 .. p + 1 - 1 = {}
    BY <1>3
  <2> QED BY <1>10, <2>1 DEF LastCall
<1>14. CallsTo(t, p) = CallsTo(s, fl) \cup {p} /\ p \notin CallsTo(s, fl)
  <2>1. ASSUME NEW i PROVE i \in CallsTo(t, p) <=> i \in CallsTo(s, fl) \cup {p}
    <3>1. CASE i \in 1 .. fl
      <4>1. i \in 1 .. p /\ i # p
        BY <1>1, <1>3, <3>1
      <4> QED BY <1>4, <3>1, <4>1 DEF CallsTo
    <3>2. CASE i \in fl + 1 .. p - 1
      <4>1. i \notin 1 .. fl /\ i # p
        BY <1>1, <1>3, <3>2
      <4> QED BY <1>7, <3>2, <4>1 DEF CallsTo
    <3>3. CASE i = p
      <4>1. i \in 1 .. p
        BY <1>1, <1>3, <3>3
      <4> QED BY <1>10, <3>3, <4>1 DEF CallsTo
    <3>4. CASE i \notin 1 .. p
      <4>1. i \notin 1 .. fl /\ i # p
        BY <1>1, <1>3, <3>4
      <4> QED BY <3>4, <4>1 DEF CallsTo
    <3>5. i \in 1 .. fl \/ i \in fl + 1 .. p - 1 \/ i = p \/ i \notin 1 .. p
      BY <1>1, <1>3
    <3> QED BY <3>1, <3>2, <3>3, <3>4, <3>5
  <2>2. p \notin 1 .. fl
    BY <1>1, <1>3
  <2> QED BY <2>1, <2>2 DEF CallsTo
<1> QED BY <1>3, <1>6, <1>10, <1>12, <1>13, <1>14 DEF CallAbove

\* The calls that can return are finitely many.
LEMMA CallsFinite ==
    ASSUME NEW s, NEW n \in Nat
    PROVE  IsFiniteSet(CallsTo(s, n)) /\ Cardinality(CallsTo(s, n)) \in Nat
<1>1. IsFiniteSet(1 .. n)
  BY FS_Interval
<1>2. CallsTo(s, n) \subseteq 1 .. n
  BY DEF CallsTo
<1>3. IsFiniteSet(CallsTo(s, n))
  BY <1>1, <1>2, FS_Subset
<1> QED BY <1>3, FS_CardinalityType

\* One call more.
LEMMA CallingUp ==
    ASSUME Inv, Ghost, NEW t, NEW p \in Nat, t = stack', p = flptr', p = flprt', kvfnc' = kvfnc + 1, kvfnc < prog.level,
           LastCall(t, p, p + 1), CallsTo(t, p) = CallsTo(stack, flptr) \cup {p}, p \notin CallsTo(stack, flptr)
    PROVE  Calling'
<1>1. PICK S : S = CallsTo(stack, flptr)
  OBVIOUS
<1>2. IsFiniteSet(S) /\ Cardinality(S) \in Nat
  BY <1>1, Basics, CallsFinite
<1>3. Cardinality(S \cup {p}) = Cardinality(S) + 1
  BY <1>1, <1>2, FS_AddElement
<1>4. kvfnc = Cardinality(S) /\ kvfnc \in Nat
  BY <1>1, <1>2 DEF Inv, Calling
<1>5. prog.level \in Nat /\ prog' = prog
  BY CallsAssumption DEF Inv, Typed, Ghost
<1>6. kvfnc' = Cardinality(CallsTo(stack', flptr'))
  BY <1>1, <1>3, <1>4
<1>7. kvfnc' <= prog'.level
  BY <1>4, <1>5
<1> QED BY <1>6, <1>7 DEF Calling

\* The types after a call or a return.
LEMMA TypedCall ==
    ASSUME Inv, Ghost, UNCHANGED traps, vars' \in [Vars -> Values], kvtra' \in BOOLEAN,
           stack' \in Seq(Words), flptr' \in Nat, flptr' <= prog.stack, Len(stack') <= prog.stack + 1,
           r_cod' \in Blocks \cup {trxdc}, cp' \in Places
    PROVE  Typed'
<1>1. level' \in Nat
  BY Basics DEF Inv, Typed, Ghost
<1> QED BY <1>1 DEF Inv, Typed, Ghost, traps

\* Below a call the traces are as they were.
LEMMA CallTraces ==
    ASSUME NEW s, NEW t, NEW fl \in Nat \ {0}, NEW n \in Nat, NEW p \in Nat, Len(s) \in Nat, Len(t) \in Nat,
           fl <= n, n <= Len(s), n < p, Same(s, t, n), NEW b \in Blocks, NEW d \in Blocks, NEW on, NEW traced,
           TracesAre(s, fl, b, on, traced), ~IsTrace(t, p), \A i \in fl + 1 .. p - 1 : t[i][1] # "off",
           \A i \in n + 1 .. Len(t) : t[i] # Blk(trxdc)
    PROVE  TracesAre(t, p, d, on, traced)
<1>1. b # trxdc /\ d # trxdc
  BY BlocksAre
<1>2. /\ on => traced /\ \A i \in 1 .. fl : ~IsTrace(s, i)
      /\ traced /\ ~on <=> \E i \in 1 .. fl : IsTrace(s, i)
      /\ \A i, j \in 1 .. fl : IsTrace(s, i) /\ IsTrace(s, j) => i = j
      /\ ~IsTrace(s, fl)
      /\ \A i \in 1 .. fl - 1 : IsTrace(s, i) => \E q \in 1 .. fl : TraceCall(s, i, q)
      /\ \A i \in 1 .. Len(s) : s[i] = Blk(trxdc) => i + 5 <= fl /\ IsCall(s, i + 5)
  BY <1>1 DEF TracesAre
<1>3. Same(s, t, fl)
  BY DEF Same
<1>4. \A i \in 1 .. fl : (IsTrace(s, i) <=> IsTrace(t, i)) /\ (IsCall(s, i) <=> IsCall(t, i))
  <2>1. \A i \in 1 .. fl : IsTrace(s, i) <=> IsTrace(t, i)
    BY <1>3 DEF Same, IsTrace
  <2> QED BY <1>3, <2>1, SameCalls
<1>5. ASSUME NEW i \in 1 .. p, IsTrace(t, i) PROVE i \in 1 .. fl - 1 /\ IsTrace(s, i)
  <2>1. i \notin fl + 1 .. p - 1
    BY <1>5, NotTrace
  <2>2. i # p
    BY <1>5
  <2>3. i \in 1 .. fl
    BY <2>1, <2>2
  <2>4. i # fl
    BY <1>2, <1>4, <1>5, <2>3
  <2> QED BY <1>4, <1>5, <2>3, <2>4
<1>6. \A i \in 1 .. fl : i \in 1 .. p /\ i \in 1 .. p - 1
  OBVIOUS
<1>7. on => traced /\ \A i \in 1 .. p : ~IsTrace(t, i)
  <2>1. \A i \in 1 .. fl - 1 : i \in 1 .. fl
    OBVIOUS
  <2> QED BY <1>2, <1>5, <2>1
<1>8. traced /\ ~on <=> \E i \in 1 .. p : IsTrace(t, i)
  <2>1. (\E i \in 1 .. fl : IsTrace(s, i)) => \E i \in 1 .. p : IsTrace(t, i)
    BY <1>4, <1>6
  <2>2. (\E i \in 1 .. p : IsTrace(t, i)) => \E i \in 1 .. fl : IsTrace(s, i)
    <3>1. \A i \in 1 .. fl - 1 : i \in 1 .. fl
      OBVIOUS
    <3> QED BY <1>5, <3>1
  <2> QED BY <1>2, <2>1, <2>2
<1>9. \A i, j \in 1 .. p : IsTrace(t, i) /\ IsTrace(t, j) => i = j
  <2>1. \A i \in 1 .. fl - 1 : i \in 1 .. fl
    OBVIOUS
  <2> QED BY <1>2, <1>5, <2>1
<1>10. ASSUME NEW i \in 1 .. p - 1, IsTrace(t, i) PROVE \E q \in 1 .. p : TraceCall(t, i, q)
  <2>1. i \in 1 .. p
    OBVIOUS
  <2>2. i \in 1 .. fl - 1 /\ IsTrace(s, i)
    BY <1>5, <1>10, <2>1
  <2>3. PICK q \in 1 .. fl : TraceCall(s, i, q)
    BY <1>2, <2>2
  <2>4. q - 2 \in 1 .. fl /\ q - 5 \in 1 .. fl
    BY <2>2, <2>3 DEF TraceCall
  <2>5. TraceCall(t, i, q)
    BY <1>3, <1>4, <2>3, <2>4 DEF TraceCall, Same
  <2> QED BY <1>6, <2>5
<1>11. ASSUME NEW i \in 1 .. Len(t), t[i] = Blk(trxdc) PROVE i + 5 <= p /\ IsCall(t, i + 5)
  <2>1. i \in 1 .. n /\ i \in 1 .. Len(s)
    <3>1. i \notin n + 1 .. Len(t)
      BY <1>11
    <3> QED BY <3>1
  <2>2. s[i] = Blk(trxdc)
    BY <1>11, <2>1 DEF Same
  <2>3. i + 5 <= fl /\ IsCall(s, i + 5)
    BY <1>2, <2>1, <2>2
  <2>4. i + 5 \in 1 .. fl
    BY <2>3
  <2> QED BY <1>4, <2>3, <2>4
<1> QED BY <1>1, <1>7, <1>8, <1>9, <1>10, <1>11 DEF TracesAre

\* The arguments are above the stack of the call; where it is is its place.
CallArgs(f, n, s, args, c) ==
    /\ Len(s) = n /\ flptr <= n /\ n <= Len(stack) /\ Same(stack, s, n)
    /\ Len(args) = Len(Params[f]) /\ \A i \in 1 .. Len(args) : args[i][1] = "val"
    /\ c = Operands(cp, -Len(Params[f])) /\ Context(stack, r_cod, c, flptr, n)

\* A call invokes its function with the arguments that are stacked.
LEMMA CallInvokes ==
    ASSUME Inv, NEW f \in Functions, NEW b \in Stmts, Call(f, b, FALSE)
    PROVE  \E n \in Nat \ {0}, s \in Seq(Words), args \in Seq(Words), c \in Places :
              CallArgs(f, n, s, args, c) /\ Invoke(f, b, FALSE, s, args, r_cod, c, flptr)
<1>1. /\ ctl = "run" /\ r_cod \in Blocks /\ Context(stack, r_cod, cp, flptr, Len(stack))
      /\ Clean(stack, flptr, Len(stack)) /\ ~IsTrace(stack, flptr)
      /\ stage \in {"xt", "ee"} /\ Count(cp) \in Nat
  BY Running DEF Call
<1>2. PICK m \in Nat : m = Len(Params[f])
  BY SizeIs
<1>3. PICK l \in Nat : l = Len(stack)
  BY Basics
<1>4. m <= Count(cp)
  BY <1>1, <1>2 DEF Call
<1>5. /\ Context(stack, r_cod, Operands(cp, -m), flptr, l - m) /\ flptr <= l - m
      /\ \A i \in l - m + 1 .. l : stack[i][1] = "val"
  BY <1>1, <1>3, <1>4, ContextPop
<1>6. PICK n \in Nat \ {0} : n = l - m /\ n <= l
  BY <1>5, Basics
<1>7. PICK s \in Seq(Words) : s = Cut(n) /\ Len(s) = n /\ Same(stack, s, n)
  BY <1>3, <1>6, Basics, CutIs
<1>8. PICK args : args = SubSeq(stack, n + 1, l)
  OBVIOUS
<1>81. args \in Seq(Words) /\ Len(args) = m /\ \A i \in 1 .. m : args[i][1] = "val"
  <2>1. args \in Seq(Words) /\ Len(args) = m /\ \A i \in 1 .. m : args[i] = stack[n + i]
    <3>1. stack \in Seq(Words)
      BY Basics
    <3>2. l - (n + 1) + 1 = m /\ n + 1 >= 1 /\ \A i \in 1 .. m : n + 1 + i - 1 = n + i
      BY <1>6
    <3>3. \A i \in n + 1 .. l : stack[i] \in Words
      BY <1>3, <3>1
    <3>4. /\ args \in Seq(Words) /\ Len(args) = l - (n + 1) + 1
          /\ \A i \in 1 .. l - (n + 1) + 1 : args[i] = stack[n + 1 + i - 1]
      BY <1>3, <1>6, <1>8, <3>1, <3>3, SMTT(30)
    <3> QED BY <3>2, <3>4
  <2>2. \A i \in 1 .. m : n + i \in l - m + 1 .. l
    BY <1>6
  <2> QED BY <1>5, <2>1, <2>2
<1>9. PICK c \in Places : c = Operands(cp, -m)
  BY <1>5, ContextTypes
<1>10. Invoke(f, b, FALSE, s, args, r_cod, c, flptr)
  <2>1. Len(stack) - Len(Params[f]) = n
    BY <1>2, <1>3, <1>6
  <2> QED BY <1>2, <1>3, <1>7, <1>8, <1>9, <1>81, <2>1 DEF Call
<1>11. CallArgs(f, n, s, args, c)
  <2>1. flptr <= n /\ n <= Len(stack)
    BY <1>3, <1>5, <1>6
  <2>2. Context(stack, r_cod, c, flptr, n)
    BY <1>5, <1>6, <1>9
  <2>3. Len(args) = Len(Params[f]) /\ \A i \in 1 .. Len(args) : args[i][1] = "val"
    BY <1>2, <1>81, Zenon
  <2>4. c = Operands(cp, -Len(Params[f]))
    BY <1>2, <1>9, Zenon
  <2> QED BY <1>7, <2>1, <2>2, <2>3, <2>4 DEF CallArgs
<1> QED BY <1>6, <1>7, <1>81, <1>9, <1>10, <1>11, Zenon

\* A function is called.
LEMMA CallKeeps ==
    ASSUME Inv, Ghost, NEW f \in Functions, NEW b \in Stmts, Call(f, b, FALSE) PROVE Inv'
<1>1. /\ ctl = "run" /\ r_cod \in Blocks /\ Context(stack, r_cod, cp, flptr, Len(stack))
      /\ Clean(stack, flptr, Len(stack)) /\ ~IsTrace(stack, flptr)
      /\ stage \in {"xt", "ee"}
  BY Running DEF Call
<1>3. UNCHANGED kvtra
  BY DEF Call
<1>4. PICK n \in Nat \ {0}, s \in Seq(Words), args \in Seq(Words), c \in Places :
         CallArgs(f, n, s, args, c) /\ Invoke(f, b, FALSE, s, args, r_cod, c, flptr)
  BY CallInvokes
<1>5. Context(stack, r_cod, c, flptr, n) /\ flptr <= n /\ n <= Len(stack)
  BY <1>4 DEF CallArgs
<1>7. Len(s) = n /\ Same(stack, s, n)
  BY <1>4 DEF CallArgs
<1>8. Len(args) = Len(Params[f]) /\ \A i \in 1 .. Len(args) : args[i][1] = "val"
  BY <1>4, Zenon DEF CallArgs
<1>11. PICK t \in Seq(Words), p \in Nat :
          /\ t = stack' /\ p = flptr' /\ p = flprt' /\ p <= Len(t) /\ Len(t) <= p + 1 /\ p <= prog.stack
          /\ Same(s, t, Len(s)) /\ Framed(t, p, Len(s), f, r_cod, c, flptr, flprt)
          /\ Meets(t, p, t[p][2]) /\ ~IsTrace(t, p) /\ \A i \in p + 1 .. Len(t) : t[i] = Other
          /\ kvfnc < prog.level /\ kvfnc' = kvfnc + 1 /\ vars' \in [Vars -> Values]
          /\ r_cod' = b /\ b # trxdc /\ cp' \in Places /\ ctl' \in {"run", "interrupt"} /\ Controlled'
          /\ UNCHANGED <<comp, traps>>
  <2>1. flptr \in Nat /\ r_cod \in Blocks \cup {trxdc} /\ Len(s) > 0 /\ Len(args) = Len(Params[f])
        /\ \A i \in 1 .. Len(args) : args[i][1] = "val"
    <3>1. flptr \in Nat /\ r_cod \in Blocks \cup {trxdc}
      BY Basics
    <3>2. Len(s) > 0
      BY <1>7
    <3>3. Len(args) = Len(Params[f]) /\ \A i \in 1 .. Len(args) : args[i][1] = "val"
      BY <1>8, Zenon
    <3> QED BY <3>1, <3>2, <3>3
  <2>2. args \in Seq(Words)
    OBVIOUS
  <2>3. PICK t \in Seq(Words), p \in Nat : Invoked(t, p, s, f, b, r_cod, c, flptr)
    BY <1>4, <2>1, <2>2, InvokeIs
  <2> QED BY <2>3 DEF Invoked
<1>111. Same(s, t, n) /\ Framed(t, p, n, f, r_cod, c, flptr, flprt)
  <2>1. Len(s) = n /\ Same(s, t, Len(s)) /\ Framed(t, p, Len(s), f, r_cod, c, flptr, flprt)
    BY <1>7, <1>11
  <2> QED BY <2>1, Zenon
<1>12. Same(stack, t, n)
  BY <1>7, <1>111 DEF Same
<1>13. flptr \in Nat \ {0} /\ flptr <= n /\ n <= Len(stack) /\ Len(stack) \in Nat /\ Len(t) \in Nat
  BY <1>5, Basics
<1>14. /\ n < p /\ n + 8 <= p /\ \A i \in n + 1 .. p : i # p - 5 => t[i] # Blk(trxdc)
       /\ \A i \in flptr + 1 .. p - 1 : t[i][1] # "off"
       /\ Chained(t, p) /\ LastCall(t, p, p + 1) /\ CallsTo(t, p) = CallsTo(stack, flptr) \cup {p}
       /\ p \notin CallsTo(stack, flptr)
  <2>1. Chained(stack, flptr) /\ LastCall(stack, flprt, flptr + 1)
    BY DEF Inv, Calling
  <2>2. Clean(stack, flptr, n)
    BY <1>1, <1>13 DEF Clean
  <2>3. Context(stack, r_cod, c, flptr, n)
    BY <1>5
  <2>4. Framed(t, p, n, f, r_cod, c, flptr, flprt) /\ p <= Len(t) /\ Meets(t, p, t[p][2])
    BY <1>11, <1>111
  <2>5. Len(stack) \in Nat /\ Len(t) \in Nat /\ flptr <= n /\ n <= Len(stack) /\ n \in Nat
    BY <1>13
  <2>6. Len(t) \in Nat /\ Same(stack, t, n) /\ f \in Functions
    BY <1>12, <2>5
  <2>7. CallPushed(stack, t, flptr, n, p, f, r_cod, c, flprt)
    BY <2>1, <2>2, <2>3, <2>4, <2>5, <2>6, Zenon DEF CallPushed
  <2>8. CallAbove(stack, t, flptr, n, p)
    BY <2>7, CallCommon, Zenon
  <2> QED BY <2>8 DEF CallAbove
<1>15. Calling'
  BY <1>11, <1>14, CallingUp
<1>16. Typed'
  <2>1. kvtra' \in BOOLEAN /\ b \in Blocks
    BY <1>3, BlocksAre DEF Inv, Typed
  <2>2. prog.stack \in Nat
    BY CallsAssumption DEF Inv, Typed
  <2> QED BY <1>11, <2>1, <2>2, TypedCall
<1>17. Same(stack, t, flptr) /\ Same(stack, t, flptr - 1) /\ t[flptr] = stack[flptr] /\ t[flptr][1] = "off"
  BY <1>12, <1>13, Basics DEF Same
<1>18. InStage'
  BY <1>1, <1>11, <1>13, <1>14, <1>17, StageAbove
<1>19. InTrap'
  <2>1. Lower(flptr, p) = flptr
    BY <1>13, <1>14, LowerIs
  <2>2. \A i \in 1 .. flptr : Kept(stack, t, i)
    BY <1>13, <1>17 DEF Kept, Same
  <2>3. InTrap /\ level \in Nat
    BY DEF Inv, Typed
  <2>4. flptr' \in Nat \ {0} /\ UNCHANGED <<r_cnt, kvert>> /\ ctl' # "err07" /\ ctl \notin {"continue", "err07", "stop"}
    BY <1>1, <1>11, <1>13, <1>14 DEF traps
  <2> QED BY <1>11, <1>13, <2>1, <2>2, <2>3, <2>4, TrapStays
<1>20. InTrace'
  <2>1. ASSUME NEW i \in n + 1 .. Len(t) PROVE t[i] # Blk(trxdc)
    <3>1. CASE i \in n + 1 .. p /\ i # p - 5
      BY <1>14, <3>1
    <3>2. CASE i = p - 5
      <4>1. t[p - 5] = Blk(r_cod)
        BY <1>111, Zenon DEF Framed
      <4> QED BY <1>1, <3>2, <4>1, NotBlock
    <3>3. CASE i \in p + 1 .. Len(t)
      <4>1. t[i] = Other
        BY <1>11, <3>3
      <4> QED BY <4>1, NotBlock, WordParts
    <3>4. i \in n + 1 .. p \/ i \in p + 1 .. Len(t)
      <4>1. n < p /\ p \in Nat /\ Len(t) \in Nat
        BY <1>13, <1>14
      <4> QED BY <4>1
    <3> QED BY <3>1, <3>2, <3>3, <3>4
  <2>2. TracesAre(stack, flptr, r_cod, kvtra, prog.trace)
    BY DEF Inv, InTrace
  <2>3. b \in Blocks
    BY BlocksAre
  <2>4. TracesAre(t, p, b, kvtra, prog.trace)
    <3>1. flptr \in Nat \ {0} /\ Len(stack) \in Nat /\ Len(t) \in Nat /\ flptr <= n /\ n <= Len(stack) /\ n < p
      BY <1>13, <1>14
    <3>2. ~IsTrace(t, p) /\ \A i \in flptr + 1 .. p - 1 : t[i][1] # "off"
      BY <1>11, <1>14
    <3>3. r_cod \in Blocks /\ n \in Nat
      BY <1>1
    <3> QED BY <1>12, <2>1, <2>2, <2>3, <3>1, <3>2, <3>3, CallTraces
  <2> QED BY <1>3, <1>11, <2>4 DEF InTrace, Ghost
<1>21. Chained(stack', flptr')
  BY <1>11, <1>14
<1> QED BY <1>11, <1>15, <1>16, <1>18, <1>19, <1>20, <1>21 DEF Inv

\* What trxeq stacks.
LEMMA TraceStacks ==
    ASSUME Inv, Executing
    PROVE  \E s \in Seq(Words), q \in Nat :
              /\ s = stack \o <<Other, Other, Other, Other, Blk(r_cod), Cp(cp), Adr(flptr), Off(<<"zero">>)>>
              /\ q = Len(stack) + 8 /\ Len(s) = q /\ Same(stack, s, q - 8)
              /\ s[q] = Off(<<"zero">>) /\ s[q - 1] = Adr(flptr) /\ s[q - 2] = Cp(cp) /\ s[q - 3] = Blk(r_cod)
              /\ \A i \in q - 7 .. q - 4 : s[i] = Other
<1>1. PICK w5 \in Words, w6 \in Words, w7 \in Words, w8 \in Words :
         w5 = Blk(r_cod) /\ w6 = Cp(cp) /\ w7 = Adr(flptr) /\ w8 = Off(<<"zero">>)
  <2>1. r_cod \in Blocks \cup {trxdc} /\ cp \in Places /\ flptr \in Nat
    BY Basics
  <2> QED BY <2>1, WordsAre, OffsetsAre
<1>2. Other \in Words
  BY WordsAre
<1>3. PICK u : u = <<Other, Other, Other, Other, w5, w6, w7, w8>>
  OBVIOUS
<1>4. /\ u \in Seq(Words) /\ Len(u) = 8
      /\ u[1] = Other /\ u[2] = Other /\ u[3] = Other /\ u[4] = Other /\ u[5] = w5 /\ u[6] = w6 /\ u[7] = w7 /\ u[8] = w8
  BY <1>2, <1>3, EightAre
<1>5. PICK l \in Nat : l = Len(stack)
  BY Basics
<1>6. PICK s : s = stack \o u
  OBVIOUS
<1>7. s \in Seq(Words) /\ Len(s) = l + 8 /\ Same(stack, s, l) /\ \A i \in 1 .. 8 : s[l + i] = u[i]
  <2>1. /\ stack \o u \in Seq(Words) /\ Len(stack \o u) = Len(stack) + Len(u) /\ Same(stack, stack \o u, Len(stack))
        /\ \A i \in 1 .. Len(u) : (stack \o u)[Len(stack) + i] = u[i]
    BY <1>4, Basics, PushIs
  <2> QED BY <1>4, <1>5, <1>6, <2>1, Zenon
<1>8. PICK q \in Nat : q = l + 8
  OBVIOUS
<1>9. s[l + 1] = Other /\ s[l + 2] = Other /\ s[l + 3] = Other /\ s[l + 4] = Other /\ s[l + 5] = w5 /\ s[l + 6] = w6
      /\ s[l + 7] = w7 /\ s[l + 8] = w8
  BY <1>4, <1>7
<1>10. q - 8 = l /\ q - 7 = l + 1 /\ q - 6 = l + 2 /\ q - 5 = l + 3 /\ q - 4 = l + 4 /\ q - 3 = l + 5 /\ q - 2 = l + 6
       /\ q - 1 = l + 7
  BY <1>8
<1>11. \A i \in q - 7 .. q - 4 : s[i] = Other
  <2>1. \A i \in q - 7 .. q - 4 : i \in {l + 1, l + 2, l + 3, l + 4}
    BY <1>8
  <2> QED BY <1>9, <2>1
<1>12. Same(stack, s, q - 8)
  BY <1>7, <1>10
<1>13. s = stack \o <<Other, Other, Other, Other, Blk(r_cod), Cp(cp), Adr(flptr), Off(<<"zero">>)>>
  BY <1>1, <1>3, <1>6, Zenon
<1>14. s \in Seq(Words) /\ q = Len(stack) + 8 /\ Len(s) = q
  BY <1>5, <1>7, <1>8
<1>15. s[q] = Off(<<"zero">>) /\ s[q - 1] = Adr(flptr) /\ s[q - 2] = Cp(cp) /\ s[q - 3] = Blk(r_cod)
  BY <1>1, <1>8, <1>9, <1>10, Zenon
<1> QED BY <1>11, <1>12, <1>13, <1>14, <1>15, Zenon

\* The dummy code is entered.
LEMMA TraceContext ==
    ASSUME Inv, Executing, NEW s \in Seq(Words), NEW q \in Nat, q = Len(stack) + 8, Len(s) = q, Same(stack, s, q - 8),
           s[q] = Off(<<"zero">>), s[q - 1] = Adr(flptr), s[q - 2] = Cp(cp), s[q - 3] = Blk(r_cod),
           \A i \in q - 7 .. q - 4 : s[i] = Other
    PROVE  /\ Chained(s, q) /\ Context(s, trxdc, Start("trace"), q, q)
           /\ LastCall(s, flprt, q + 1) /\ CallsTo(s, q) = CallsTo(stack, flptr)
           /\ \A i \in flptr + 1 .. q - 1 : s[i][1] # "off"
           /\ \A i \in q - 7 .. q : s[i] # Blk(trxdc)
<1>1. /\ r_cod \in Blocks /\ Context(stack, r_cod, cp, flptr, Len(stack)) /\ Clean(stack, flptr, Len(stack))
  BY Running
<1>2. PICK l \in Nat \ {0} : l = Len(stack) /\ q = l + 8 /\ q - 8 = l /\ flptr <= l /\ flptr \in Nat \ {0}
  BY Basics
<1>3. stack[flptr][1] = "off" /\ Meets(stack, flptr, stack[flptr][2]) /\ Chained(stack, flptr)
  BY Basics DEF Inv
<1>4. /\ s[q][1] = "off" /\ s[q][2] = <<"zero">> /\ s[q - 1][1] = "adr" /\ s[q - 1][2] = flptr
      /\ s[q - 2][1] = "cp" /\ s[q - 2][2] = cp /\ s[q - 3][1] = "blk" /\ s[q - 3][2] = r_cod
      /\ \A i \in q - 7 .. q - 4 : s[i][1] = "other"
  BY WordParts
<1>5. Same(stack, s, l)
  BY <1>2
<1>6. Context(s, r_cod, cp, flptr, l)
  BY <1>1, <1>2, <1>5, SameContext
<1>7. Traced(s, q)
  <2>1. q > 8
    BY <1>2
  <2>2. Context(s, s[q - 3][2], s[q - 2][2], s[q - 1][2], q - 8)
    BY <1>2, <1>4, <1>6
  <2> QED BY <1>1, <1>4, <2>1, <2>2 DEF Traced
<1>8. Linked(s, q)
  BY <1>4, <1>7, OffsetParts DEF Linked, Meets
<1>9. ASSUME NEW i \in q - 7 .. q - 1 PROVE i \in q - 7 .. q - 4 \/ i \in {q - 3, q - 2, q - 1}
  BY <1>2
<1>10. ASSUME NEW i \in flptr + 1 .. q - 1 PROVE s[i][1] # "off"
  <2>1. CASE i <= l
    <3>1. i \in flptr + 1 .. l /\ i \in 1 .. l
      BY <1>2, <2>1
    <3> QED BY <1>1, <1>2, <1>5, <3>1 DEF Clean, Same
  <2>2. CASE i > l
    <3>1. i \in q - 7 .. q - 1
      BY <1>2, <2>2
    <3> QED BY <1>4, <1>9, <3>1
  <2> QED BY <1>2, <2>1, <2>2
<1>11. flptr < q /\ Same(stack, s, flptr) /\ Same(stack, s, flptr - 1) /\ s[flptr] = stack[flptr]
  BY <1>2, <1>5 DEF Same
<1>12. Chained(s, q)
  <2>1. Meets(s, flptr, s[flptr][2])
    BY <1>2, <1>3, <1>11, SameMeets
  <2>2. Clean(s, flptr, q - 1)
    BY <1>10 DEF Clean
  <2>3. Len(stack) \in Nat /\ Len(s) \in Nat /\ q <= Len(s)
    BY <1>2
  <2> QED BY <1>3, <1>4, <1>8, <1>11, <2>1, <2>2, <2>3, ChainPush
<1>13. Context(s, trxdc, Start("trace"), q, q)
  <2>1. Start("trace") \in Places /\ Count(Start("trace")) = 0 /\ Len(Start("trace").path) = 1
    BY PlaceStart
  <2>2. ~(1 > 1)
    OBVIOUS
  <2>3. Awaited(trxdc, Start("trace")) = <<"zero">>
    BY <2>1, <2>2, Zenon DEF Awaited
  <2>4. q \in Nat \ {0} /\ q + 0 <= q /\ q = q + 0 /\ q - 0 + 1 .. q = {} /\ q + 1 .. q = {}
    BY <1>2
  <2> QED BY <2>1, <2>3, <2>4 DEF Context, Clean
<1>14. ASSUME NEW i \in flptr + 1 .. q PROVE ~IsCall(s, i)
  <2>1. CASE i = q
    BY <1>4, <2>1 DEF IsCall
  <2>2. CASE i # q
    <3>1. i \in flptr + 1 .. q - 1
      BY <1>2, <2>2
    <3> QED BY <1>10, <3>1 DEF IsCall
  <2> QED BY <2>1, <2>2
<1>15. \A i \in 1 .. flptr : IsCall(stack, i) <=> IsCall(s, i)
  BY <1>2, <1>11, SameCalls
<1>16. LastCall(s, flprt, q + 1)
  <2>1. flprt \in 0 .. flptr /\ (flprt # 0 => IsCall(stack, flprt)) /\ \A i \in flprt + 1 .. flptr : ~IsCall(stack, i)
    BY <1>2, LastOf DEF Inv, Calling
  <2>2. flprt \in 0 .. q
    BY <1>2, <2>1
  <2>3. flprt # 0 => IsCall(s, flprt)
    <3>1. flprt # 0 => flprt \in 1 .. flptr
      BY <1>2, <2>1
    <3> QED BY <1>15, <2>1, <3>1
  <2>4. ASSUME NEW i \in flprt + 1 .. q PROVE ~IsCall(s, i)
    <3>1. CASE i \in flprt + 1 .. flptr
      <4>1. i \in 1 .. flptr
        BY <1>2, <2>1, <3>1
      <4> QED BY <1>15, <2>1, <3>1, <4>1
    <3>2. CASE i \in flptr + 1 .. q
      BY <1>14, <3>2
    <3>3. i \in flprt + 1 .. flptr \/ i \in flptr + 1 .. q
      BY <1>2, <2>1
    <3> QED BY <3>1, <3>2, <3>3
  <2> QED BY <2>2, <2>3, <2>4, LastOf
<1>17. CallsTo(s, q) = CallsTo(stack, flptr)
  <2>1. ASSUME NEW i PROVE i \in CallsTo(s, q) <=> i \in CallsTo(stack, flptr)
    <3>1. CASE i \in 1 .. flptr
      <4>1. i \in 1 .. q
        BY <1>2, <3>1
      <4> QED BY <1>15, <3>1, <4>1 DEF CallsTo
    <3>2. CASE i \in flptr + 1 .. q
      <4>1. i \notin 1 .. flptr
        BY <1>2, <3>2
      <4> QED BY <1>14, <3>2, <4>1 DEF CallsTo
    <3>3. CASE i \notin 1 .. q
      <4>1. i \notin 1 .. flptr
        BY <1>2, <3>3
      <4> QED BY <3>3, <4>1 DEF CallsTo
    <3>4. i \in 1 .. flptr \/ i \in flptr + 1 .. q \/ i \notin 1 .. q
      BY <1>2
    <3> QED BY <3>1, <3>2, <3>3, <3>4
  <2> QED BY <2>1 DEF CallsTo
<1>18. ASSUME NEW i \in q - 7 .. q PROVE s[i] # Blk(trxdc)
  <2>1. i = q \/ i \in q - 7 .. q - 1
    BY <1>2
  <2>2. i = q - 3 => s[i] = Blk(r_cod)
    OBVIOUS
  <2>3. i # q - 3 => s[i][1] # "blk"
    BY <1>4, <1>9, <2>1
  <2> QED BY <1>1, <2>2, <2>3, NotBlock
<1> QED BY <1>10, <1>12, <1>13, <1>16, <1>17, <1>18

\* A trace is the only one.
LEMMA TraceTraces ==
    ASSUME NEW s, NEW t, NEW fl \in Nat \ {0}, NEW q \in Nat, NEW p \in Nat, Len(s) \in Nat, Len(t) \in Nat,
           fl < q, q + 8 <= p, q - 8 <= Len(s), Same(s, t, q - 8), fl <= q - 8, IsTrace(t, q), NEW b \in Blocks, NEW d \in Blocks,
           NEW on, NEW off, NEW traced, on, ~off,
           TracesAre(s, fl, b, on, traced), ~IsTrace(t, p), TraceCall(t, q, p),
           \A i \in fl + 1 .. q - 1 : t[i][1] # "off", \A i \in q + 1 .. p - 1 : t[i][1] # "off",
           \A i \in q - 7 .. Len(t) : i # p - 5 => t[i] # Blk(trxdc)
    PROVE  TracesAre(t, p, d, off, traced)
<1>1. b # trxdc /\ d # trxdc
  BY BlocksAre
<1>2. /\ traced /\ \A i \in 1 .. fl : ~IsTrace(s, i)
      /\ \A i \in 1 .. Len(s) : s[i] = Blk(trxdc) => i + 5 <= fl /\ IsCall(s, i + 5)
  BY DEF TracesAre
<1>3. Same(s, t, fl)
  BY DEF Same
<1>4. \A i \in 1 .. fl : (IsTrace(s, i) <=> IsTrace(t, i)) /\ (IsCall(s, i) <=> IsCall(t, i))
  <2>1. \A i \in 1 .. fl : IsTrace(s, i) <=> IsTrace(t, i)
    BY <1>3 DEF Same, IsTrace
  <2> QED BY <1>3, <2>1, SameCalls
<1>5. ASSUME NEW i \in 1 .. p, IsTrace(t, i) PROVE i = q
  <2>1. i \notin fl + 1 .. q - 1 /\ i \notin q + 1 .. p - 1
    BY <1>5, NotTrace
  <2>2. i # p
    BY <1>5
  <2>3. i \notin 1 .. fl
    BY <1>2, <1>4, <1>5
  <2> QED BY <2>1, <2>2, <2>3
<1>6. q \in 1 .. p /\ p \in 1 .. p
  OBVIOUS
<1>7. ASSUME NEW i \in 1 .. p - 1, IsTrace(t, i) PROVE \E j \in 1 .. p : TraceCall(t, i, j)
  <2>1. i \in 1 .. p
    OBVIOUS
  <2>2. i = q
    BY <1>5, <1>7, <2>1
  <2> QED BY <1>6, <2>2
<1>8. ASSUME NEW i \in 1 .. Len(t), t[i] = Blk(trxdc) PROVE i + 5 <= p /\ IsCall(t, i + 5)
  <2>1. CASE i \in 1 .. q - 8
    <3>1. i \in 1 .. Len(s)
      BY <2>1
    <3>2. s[i] = Blk(trxdc)
      BY <1>8, <2>1 DEF Same
    <3>3. i + 5 <= fl /\ IsCall(s, i + 5)
      BY <1>2, <3>1, <3>2
    <3>4. i + 5 \in 1 .. fl /\ i + 5 <= p
      BY <3>3
    <3> QED BY <1>4, <3>3, <3>4
  <2>2. CASE i \in q - 7 .. Len(t)
    <3>1. i = p - 5
      BY <1>8, <2>2
    <3>2. i + 5 = p
      BY <3>1
    <3>3. IsCall(t, p)
      BY DEF TraceCall
    <3>4. IsCall(t, i + 5)
      BY <3>2, <3>3, Zenon
    <3> QED BY <3>2, <3>4
  <2>3. i \in 1 .. q - 8 \/ i \in q - 7 .. Len(t)
    OBVIOUS
  <2> QED BY <2>1, <2>2, <2>3
<1>9. \E i \in 1 .. p : IsTrace(t, i)
  BY <1>6
<1> QED BY <1>1, <1>2, <1>5, <1>7, <1>8, <1>9 DEF TracesAre

\* What Trace gives the trace function.
TraceArgs(f, args, c) ==
    /\ Len(args) = Len(Params[f]) /\ (\A i \in 1 .. Len(args) : args[i][1] = "val")
    /\ c = Start("trace")

\* Trace invokes the trace function above its frame.
LEMMA TraceInvokes ==
    ASSUME Inv, NEW f \in Functions, NEW b \in Stmts, Trace(f, b), NEW s, NEW q, Len(stack) \in Nat,
           s = stack \o <<Other, Other, Other, Other, Blk(r_cod), Cp(cp), Adr(flptr), Off(<<"zero">>)>>,
           q = Len(stack) + 8
    PROVE  \E args \in Seq(Words), c \in Places :
              TraceArgs(f, args, c) /\ Invoke(f, b, FALSE, s, args, trxdc, c, q)
<1>1. PICK args \in Seq(Words) : /\ args = [i \in DOMAIN Params[f] |-> Val(Null)] /\ Len(args) = Len(Params[f])
                                 /\ \A i \in 1 .. Len(args) : args[i][1] = "val"
  <2>1. PICK m \in Nat : m = Len(Params[f])
    BY SizeIs
  <2>2. Params[f] \in Seq(Vars) /\ DOMAIN Params[f] = 1 .. m
    BY <2>1, CallsAssumption
  <2>3. PICK w \in Words : w = Val(Null) /\ w[1] = "val"
    <3>1. Null \in Values
      BY CallsAssumption DEF Inv, Typed, Values
    <3> QED BY <3>1, WordsAre, WordParts
  <2>4. PICK a : a = [i \in 1 .. m |-> w]
    OBVIOUS
  <2>5. a \in Seq(Words) /\ Len(a) = m /\ \A i \in 1 .. m : a[i] = w
    BY <2>4
  <2>6. a = [i \in DOMAIN Params[f] |-> Val(Null)]
    BY <2>2, <2>3, <2>4
  <2> QED BY <2>1, <2>3, <2>5, <2>6
<1>2. PICK c \in Places : c = Start("trace")
  BY PlaceStart
<1>3. Invoke(f, b, FALSE, s, args, trxdc, c, q)
  <2>1. PICK u : u = <<Other, Other, Other, Other, Blk(r_cod), Cp(cp), Adr(flptr), Off(<<"zero">>)>>
    OBVIOUS
  <2>2. Len(u) = 8
    <3>1. Other \in Words /\ Blk(r_cod) \in Words /\ Cp(cp) \in Words /\ Adr(flptr) \in Words /\ Off(<<"zero">>) \in Words
      BY Basics, WordsAre, OffsetsAre
    <3> QED BY <2>1, <3>1, EightAre
  <2>3. Len(stack) + Len(u) = q
    BY <2>2
  <2> QED BY <1>1, <1>2, <2>1, <2>3 DEF Trace
<1> QED BY <1>1, <1>2, <1>3 DEF TraceArgs

\* A trace function is called.
LEMMA TraceKeeps ==
    ASSUME Inv, Ghost, NEW f \in Functions, NEW b \in Stmts, Trace(f, b) PROVE Inv'
<1>1. Executing /\ kvtra /\ kvtra' = FALSE
  BY DEF Trace
<1>2. /\ ctl = "run" /\ r_cod \in Blocks /\ ~IsTrace(stack, flptr) /\ stage \in {"xt", "ee"}
  BY <1>1, Running
<1>3. PICK s \in Seq(Words), q \in Nat :
         /\ s = stack \o <<Other, Other, Other, Other, Blk(r_cod), Cp(cp), Adr(flptr), Off(<<"zero">>)>>
         /\ q = Len(stack) + 8 /\ Len(s) = q /\ Same(stack, s, q - 8)
         /\ s[q] = Off(<<"zero">>) /\ s[q - 1] = Adr(flptr) /\ s[q - 2] = Cp(cp) /\ s[q - 3] = Blk(r_cod)
         /\ \A i \in q - 7 .. q - 4 : s[i] = Other
  BY <1>1, TraceStacks
<1>4. /\ Chained(s, q) /\ Context(s, trxdc, Start("trace"), q, q)
      /\ LastCall(s, flprt, q + 1) /\ CallsTo(s, q) = CallsTo(stack, flptr)
      /\ \A i \in flptr + 1 .. q - 1 : s[i][1] # "off"
      /\ \A i \in q - 7 .. q : s[i] # Blk(trxdc)
  BY <1>1, <1>3, TraceContext
<1>5. PICK l \in Nat \ {0} : /\ l = Len(stack) /\ q = l + 8 /\ q - 8 = l /\ flptr <= l /\ flptr \in Nat \ {0}
                             /\ flptr < q /\ q > 0
  <2>1. PICK l \in Nat : l = Len(stack)
    BY Basics
  <2>2. PICK k \in Nat \ {0} : k = flptr /\ k <= l
    BY <2>1, Basics
  <2>3. q = l + 8
    BY <1>3, <2>1, Zenon
  <2>4. l \in Nat \ {0} /\ q - 8 = l /\ k < q /\ q > 0
    BY <2>2, <2>3
  <2> QED BY <2>1, <2>2, <2>3, <2>4
<1>6. PICK args \in Seq(Words), c \in Places :
         TraceArgs(f, args, c) /\ Invoke(f, b, FALSE, s, args, trxdc, c, q)
  BY <1>3, <1>5, TraceInvokes
<1>7. c = Start("trace")
  BY <1>6 DEF TraceArgs
<1>8. Len(args) = Len(Params[f]) /\ \A i \in 1 .. Len(args) : args[i][1] = "val"
  BY <1>6, Zenon DEF TraceArgs
<1>9. PICK t \in Seq(Words), p \in Nat :
         /\ t = stack' /\ p = flptr' /\ p = flprt' /\ p <= Len(t) /\ Len(t) <= p + 1 /\ p <= prog.stack
         /\ Same(s, t, Len(s)) /\ Framed(t, p, Len(s), f, trxdc, c, q, flprt)
         /\ Meets(t, p, t[p][2]) /\ ~IsTrace(t, p) /\ \A i \in p + 1 .. Len(t) : t[i] = Other
         /\ kvfnc < prog.level /\ kvfnc' = kvfnc + 1 /\ vars' \in [Vars -> Values]
         /\ r_cod' = b /\ b # trxdc /\ cp' \in Places /\ ctl' \in {"run", "interrupt"} /\ Controlled'
         /\ UNCHANGED <<comp, traps>>
  <2>1. Len(s) > 0 /\ trxdc \in Blocks \cup {trxdc}
    BY <1>3, <1>5
  <2>2. PICK t \in Seq(Words), p \in Nat : Invoked(t, p, s, f, b, trxdc, c, q)
    BY <1>6, <1>8, <2>1, InvokeIs, ZenonT(60)
  <2> QED BY <2>2 DEF Invoked
<1>10. Same(s, t, q) /\ Framed(t, p, q, f, trxdc, c, q, flprt)
  BY <1>3, <1>9, Zenon
<1>11. Len(t) \in Nat /\ Len(s) \in Nat /\ Len(stack) \in Nat
  BY <1>3, Basics
<1>12. /\ IsCall(t, p) /\ q < p /\ q + 8 <= p /\ \A i \in q + 1 .. p : i # p - 5 => t[i] # Blk(trxdc)
       /\ \A i \in q + 1 .. p - 1 : t[i][1] # "off"
       /\ Chained(t, p) /\ LastCall(t, p, p + 1) /\ CallsTo(t, p) = CallsTo(s, q) \cup {p}
       /\ p \notin CallsTo(s, q)
  <2>1. Clean(s, q, q)
    <3>1. q + 1 .. q = {}
      BY <1>5
    <3> QED BY <3>1 DEF Clean
  <2>2. Context(s, trxdc, c, q, q)
    BY <1>4, <1>7
  <2>3. p <= Len(t) /\ Meets(t, p, t[p][2])
    BY <1>9
  <2>4. q <= q /\ q <= Len(s)
    BY <1>3, <1>5
  <2>5. Chained(s, q) /\ LastCall(s, flprt, q + 1) /\ Len(s) \in Nat /\ Len(t) \in Nat
    BY <1>4, <1>11
  <2>6. PICK n, blk, r : n = q /\ n \in Nat /\ blk = trxdc /\ r = flprt
    OBVIOUS
  <2>7. /\ q <= n /\ n <= Len(s) /\ Clean(s, q, n) /\ Same(s, t, n) /\ Framed(t, p, n, f, blk, c, q, r)
        /\ Context(s, blk, c, q, n) /\ LastCall(s, r, q + 1)
    BY <1>10, <2>1, <2>2, <2>4, <2>5, <2>6, ZenonT(60)
  <2>8. /\ IsCall(t, p) /\ n < p /\ n + 8 <= p /\ \A i \in n + 1 .. p : i # p - 5 => t[i] # Blk(trxdc)
        /\ \A i \in q + 1 .. p - 1 : t[i][1] # "off"
        /\ Chained(t, p) /\ LastCall(t, p, p + 1) /\ CallsTo(t, p) = CallsTo(s, q) \cup {p}
        /\ p \notin CallsTo(s, q)
    <3>1. CallPushed(s, t, q, n, p, f, blk, c, r)
      BY <2>3, <2>5, <2>6, <2>7, Zenon DEF CallPushed
    <3>2. CallAbove(s, t, q, n, p)
      BY <3>1, CallCommon, Zenon
    <3> QED BY <3>2 DEF CallAbove
  <2> QED BY <2>6, <2>8, ZenonT(60)
<1>13. Calling'
  <2>1. CallsTo(t, p) = CallsTo(stack, flptr) \cup {p} /\ p \notin CallsTo(stack, flptr)
    BY <1>4, <1>12, Zenon
  <2> QED BY <1>9, <1>12, <2>1, CallingUp
<1>14. Typed'
  <2>1. kvtra' \in BOOLEAN /\ b \in Blocks
    BY <1>1, BlocksAre
  <2>2. prog.stack \in Nat
    BY CallsAssumption DEF Inv, Typed
  <2> QED BY <1>9, <2>1, <2>2, TypedCall
<1>15. Same(stack, t, l)
  <2>1. \A i \in 1 .. l : i \in 1 .. q
    BY <1>5
  <2>2. q - 8 = l
    BY <1>5
  <2>3. Same(stack, s, l) /\ Same(s, t, q)
    BY <1>3, <1>10, <2>2, Zenon
  <2> QED BY <2>1, <2>3 DEF Same
<1>16. Same(stack, t, flptr) /\ Same(stack, t, flptr - 1) /\ t[flptr] = stack[flptr] /\ t[flptr][1] = "off" /\ flptr < p
  BY <1>5, <1>12, <1>15, Basics DEF Same
<1>17. InStage'
  BY <1>2, <1>5, <1>9, <1>16, StageAbove
<1>18. InTrap'
  <2>1. Lower(flptr, p) = flptr
    <3>1. flptr \in Nat \ {0} /\ p \in Nat \ {0} /\ flptr <= p
      BY <1>5, <1>16
    <3> QED BY <3>1, LowerIs
  <2>2. \A i \in 1 .. flptr : Kept(stack, t, i)
    BY <1>5, <1>16 DEF Kept, Same
  <2>3. InTrap /\ level \in Nat
    BY DEF Inv, Typed
  <2>4. flptr' \in Nat \ {0} /\ UNCHANGED <<r_cnt, kvert>> /\ ctl' # "err07" /\ ctl \notin {"continue", "err07", "stop"}
    BY <1>2, <1>5, <1>9, <1>16 DEF traps
  <2> QED BY <1>5, <1>9, <2>1, <2>2, <2>3, <2>4, TrapStays
<1>19. InTrace'
  <2>1. TracesAre(stack, flptr, r_cod, kvtra, prog.trace)
    BY DEF Inv, InTrace
  <2>2. t[q] = s[q] /\ IsTrace(t, q)
    <3>1. q \in 1 .. q
      BY <1>5
    <3> QED BY <1>3, <1>10, <3>1 DEF Same, IsTrace
  <2>3. TraceCall(t, q, p)
    <3>1. t[p - 2] = Adr(q) /\ t[p - 5] = Blk(trxdc)
      BY <1>10, Zenon DEF Framed
    <3>2. q < p - 5
      BY <1>12
    <3> QED BY <1>12, <3>1, <3>2 DEF TraceCall
  <2>4. ASSUME NEW i \in flptr + 1 .. q - 1 PROVE t[i][1] # "off"
    <3>1. i \in 1 .. q
      BY <1>5
    <3> QED BY <1>4, <1>10, <3>1 DEF Same
  <2>5. ASSUME NEW i \in q - 7 .. Len(t), i # p - 5 PROVE t[i] # Blk(trxdc)
    <3>1. CASE i \in q - 7 .. q
      <4>1. i \in 1 .. q
        BY <1>5, <3>1
      <4> QED BY <1>4, <1>10, <3>1, <4>1 DEF Same
    <3>2. CASE i \in q + 1 .. p
      BY <1>12, <2>5, <3>2
    <3>3. CASE i \in p + 1 .. Len(t)
      <4>1. t[i] = Other
        BY <1>9, <3>3
      <4> QED BY <4>1, NotBlock, WordParts
    <3>4. i \in q - 7 .. q \/ i \in q + 1 .. p \/ i \in p + 1 .. Len(t)
      <4>1. q < p /\ p \in Nat /\ Len(t) \in Nat
        BY <1>11, <1>12
      <4> QED BY <4>1
    <3> QED BY <3>1, <3>2, <3>3, <3>4
  <2>6. PICK off, on, traced : off = kvtra' /\ ~off /\ on = kvtra /\ on /\ traced = prog.trace
    BY <1>1
  <2>7. TracesAre(t, p, b, off, traced)
    <3>1. flptr \in Nat \ {0} /\ flptr < q /\ q + 8 <= p /\ q - 8 <= Len(stack) /\ flptr <= q - 8 /\ Same(stack, t, q - 8)
      BY <1>5, <1>12, <1>15
    <3>2. ~IsTrace(t, p) /\ b \in Blocks
      BY <1>9, BlocksAre
    <3>3. Len(stack) \in Nat /\ Len(t) \in Nat /\ r_cod \in Blocks
      BY <1>2, <1>11
    <3>4. \A i \in q + 1 .. p - 1 : t[i][1] # "off"
      BY <1>12
    <3>5. TracesAre(stack, flptr, r_cod, on, traced)
      BY <2>1, <2>6, Zenon
    <3> QED BY <2>2, <2>3, <2>4, <2>5, <2>6, <3>1, <3>2, <3>3, <3>4, <3>5, TraceTraces, ZenonT(60)
  <2>8. prog'.trace = prog.trace
    BY DEF Ghost
  <2> QED BY <1>9, <2>6, <2>7, <2>8, Zenon DEF InTrace
<1>20. Chained(stack', flptr')
  BY <1>9, <1>12
<1> QED BY <1>9, <1>13, <1>14, <1>17, <1>18, <1>19, <1>20 DEF Inv

-----------------------------------------------------------------------------
(***************************************************************************)
(* Returns.                                                                *)
(***************************************************************************)

\* flprt is where the frame of a call ends, when there is one.
LEMMA CallFrame ==
    ASSUME Inv, kvfnc # 0
    PROVE  /\ flprt \in 1 .. flptr /\ IsCall(stack, flprt) /\ Called(stack, flprt) /\ IsFrame(flprt)
           /\ ~IsTrace(stack, flprt)
<1>1. /\ flprt \in 0 .. flptr /\ (flprt # 0 => IsCall(stack, flprt))
      /\ \A i \in flprt + 1 .. flptr : ~IsCall(stack, i)
  BY Basics, LastOf DEF Inv, Calling
<1>2. flprt # 0
  <2>1. SUFFICES ASSUME flprt = 0 PROVE FALSE
    OBVIOUS
  <2>2. \A i \in 1 .. flptr : ~IsCall(stack, i)
    BY <1>1, <2>1
  <2>3. CallsTo(stack, flptr) = {}
    BY <2>2 DEF CallsTo
  <2>4. kvfnc = 0
    BY <2>3, FS_EmptySet DEF Inv, Calling
  <2> QED BY <2>4
<1>3. flprt \in 1 .. flptr /\ IsCall(stack, flprt) /\ flptr \in 1 .. Len(stack) /\ Len(stack) \in Nat
  BY <1>1, <1>2, Basics
<1>4. stack[flprt][1] = "off" /\ stack[flprt - 1][1] = "pf" /\ flprt > 1
  BY <1>3 DEF IsCall
<1>5. Linked(stack, flprt)
  BY <1>3, <1>4, Basics, ChainPop DEF Inv
<1>6. ~Bracketed(stack, flprt) /\ ~Traced(stack, flprt)
  BY <1>4 DEF Bracketed, Traced
<1>7. ~Evaluated(stack, flprt)
  BY <1>4, WordParts DEF Evaluated
<1>8. Called(stack, flprt)
  BY <1>4, <1>5, <1>6, <1>7 DEF Linked
<1>9. ~IsTrace(stack, flprt)
  <2>1. Meets(stack, flprt, stack[flprt][2])
    BY <1>5 DEF Linked
  <2>2. stack[flprt][2] # <<"zero">>
    BY <1>6, <2>1 DEF Meets
  <2> QED BY <2>2, NotTrace
<1>10. IsFrame(flprt)
  <2>1. flprt \in DOMAIN stack
    BY <1>3, Basics
  <2> QED BY <1>4, <2>1 DEF IsFrame
<1> QED BY <1>3, <1>8, <1>9, <1>10

\* What retrn finds in the frame.
LEMMA FrameIs ==
    ASSUME Inv, kvfnc # 0, NEW fr, fr = Frame(flprt)
    PROVE  /\ fr.base \in Nat /\ fr.base + 8 <= flprt /\ fr.flptr \in Nat \ {0} /\ fr.flptr <= fr.base
           /\ fr.flprt \in Nat /\ fr.cp \in Places /\ fr.r_cod \in Blocks \cup {trxdc} /\ fr.f \in Functions
           /\ fr.had \in Seq(Values) /\ Len(fr.had) = Len(Names[fr.f])
           /\ Context(stack, fr.r_cod, fr.cp, fr.flptr, fr.base) /\ LastCall(stack, fr.flprt, flprt)
           /\ stack[flprt - 2] = Adr(fr.flptr)
           /\ \A i \in fr.flptr + 1 .. flprt - 1 : stack[i][1] # "off"
<1>1. flprt \in 1 .. flptr /\ Called(stack, flprt) /\ flptr \in Nat /\ flptr <= Len(stack) /\ Len(stack) \in Nat
  BY CallFrame, Basics
<1>2. PICK p \in Nat : p = flprt /\ p <= Len(stack) /\ p > 8
  BY <1>1 DEF Called
<1>3. Called(stack, p)
  BY <1>1, <1>2
<1>4. PICK f \in Functions : f = stack[p - 1][2]
  BY <1>3 DEF Called
<1>5. PICK z \in Nat : z = Size(f)
  BY SizeIs
<1>6. PICK gl, r, c, b : gl = stack[p - 2][2] /\ r = stack[p - 3][2] /\ c = stack[p - 4][2] /\ b = stack[p - 5][2]
  OBVIOUS
<1>7. /\ stack[p - 1][1] = "pf" /\ stack[p - 2][1] = "adr" /\ stack[p - 3][1] = "adr" /\ stack[p - 4][1] = "cp"
      /\ stack[p - 5][1] = "blk" /\ stack[p - 6][1] = "val" /\ stack[p - 7] = Other /\ z < p - 8
      /\ \A i \in p - 7 - z .. p - 8 : stack[i][1] = "val"
      /\ LastCall(stack, r, p) /\ Context(stack, b, c, gl, p - 8 - z)
  BY <1>3, <1>4, <1>5, <1>6 DEF Called
<1>8. PICK m \in Nat : m = p - 8 - z /\ m + 8 + z = p /\ p - 7 - z = m + 1 /\ m + 1 > 0
  <2>1. z < p - 8
    BY <1>7
  <2>2. p - 8 - z \in Nat
    BY <2>1
  <2> QED BY <2>2
<1>9. Context(stack, b, c, gl, m) /\ \A i \in m + 1 .. p - 8 : stack[i][1] = "val"
  BY <1>7, <1>8
<1>10. gl \in Nat \ {0} /\ gl <= m /\ c \in Places /\ b \in Blocks \cup {trxdc}
  <2>1. gl \in 1 .. m
    BY <1>9, ContextTypes
  <2> QED BY <1>9, <2>1, ContextTypes
<1>11. r \in Nat
  BY <1>7 DEF LastCall
<1>12. \A i \in 1 .. p : stack[i] \in Words
  BY <1>2, Basics
<1>13. stack[p - 2] = Adr(gl)
  <2>1. p - 2 \in 1 .. p
    BY <1>2
  <2> QED BY <1>6, <1>7, <1>12, <2>1, WordKinds
<1>14. ASSUME NEW i \in gl + 1 .. p - 1 PROVE stack[i][1] # "off"
  <2>1. i \in gl + 1 .. m \/ i \in m + 1 .. p - 8 \/ i \in {p - 1, p - 2, p - 3, p - 4, p - 5, p - 6, p - 7}
    BY <1>8, <1>10
  <2>2. i \in gl + 1 .. m => stack[i][1] # "off"
    BY <1>9 DEF Context, Clean
  <2>3. stack[p - 7][1] = "other"
    BY <1>7, WordParts
  <2> QED BY <1>7, <1>9, <2>1, <2>2, <2>3
<1>15. PICK a : a = [i \in 1 .. z |-> stack[m + 1 + i - 1][2]]
  OBVIOUS
<1>16. a \in Seq(Values) /\ Len(a) = z
  <2>1. ASSUME NEW i \in 1 .. z PROVE stack[m + 1 + i - 1][2] \in Values
    <3>1. PICK j \in m + 1 .. p - 8 : j = m + 1 + i - 1 /\ j \in 1 .. p
      <4>1. m + 1 + i - 1 \in m + 1 .. p - 8 /\ m + 1 + i - 1 \in 1 .. p
        BY <1>8
      <4> QED BY <4>1
    <3>2. stack[j] \in Words /\ stack[j][1] = "val"
      BY <1>9, <1>12, <3>1
    <3> QED BY <3>1, <3>2, WordKinds
  <2> QED BY <1>15, <2>1
<1>17. PICK x : x = <<stack[p - 6][2]>>
  OBVIOUS
<1>18. x \in Seq(Values) /\ Len(x) = 1
  <2>1. p - 6 \in 1 .. p
    BY <1>2
  <2>2. stack[p - 6][2] \in Values
    BY <1>7, <1>12, <2>1, WordKinds
  <2>3. PICK v \in Values : v = stack[p - 6][2]
    BY <2>2
  <2>4. x = <<v>>
    BY <1>17, <2>3
  <2> QED BY <2>4
<1>19. PICK h : h = x \o a
  OBVIOUS
<1>20. Len(Names[f]) - 1 = z /\ Len(Names[f]) = 1 + z
  <2>1. Len(Names[f]) \in Nat
    BY SizeIs
  <2> QED BY <1>5, <2>1 DEF Size
<1>21. h \in Seq(Values) /\ Len(h) = Len(Names[f])
  <2>1. x \o a \in Seq(Values) /\ Len(x \o a) = Len(x) + Len(a)
    BY <1>16, <1>18, JoinIs
  <2>2. Len(h) = 1 + z
    BY <1>16, <1>18, <1>19, <2>1
  <2> QED BY <1>19, <1>20, <2>1, <2>2
<1>22. PICK first : first = m + 1 /\ first = p - 7 - z /\ first - 1 = m
  BY <1>8
<1>23. fr.base = m /\ fr.flptr = gl /\ fr.flprt = r /\ fr.cp = c /\ fr.r_cod = b /\ fr.f = f
  BY <1>2, <1>4, <1>6, <1>20, <1>22 DEF Frame
<1>24. fr.had = h
  <2>1. h = <<stack[p - 6][2]>> \o [i \in 1 .. z |-> stack[first + i - 1][2]]
    BY <1>15, <1>17, <1>19, <1>22
  <2> QED BY <1>2, <1>4, <1>20, <1>22, <2>1 DEF Frame
<1>25. p = flprt /\ m + 8 <= p
  BY <1>2, <1>8
<1>26. fr.base \in Nat /\ fr.base + 8 <= flprt /\ fr.flptr \in Nat \ {0} /\ fr.flptr <= fr.base
  BY <1>10, <1>23, <1>25, Zenon
<1>27. /\ fr.flprt \in Nat /\ fr.cp \in Places /\ fr.r_cod \in Blocks \cup {trxdc} /\ fr.f \in Functions
       /\ fr.had \in Seq(Values) /\ Len(fr.had) = Len(Names[fr.f])
  BY <1>10, <1>11, <1>21, <1>23, <1>24, Zenon
<1>28. /\ Context(stack, fr.r_cod, fr.cp, fr.flptr, fr.base) /\ LastCall(stack, fr.flprt, flprt)
       /\ stack[flprt - 2] = Adr(fr.flptr)
       /\ \A i \in fr.flptr + 1 .. flprt - 1 : stack[i][1] # "off"
  BY <1>7, <1>9, <1>13, <1>14, <1>23, <1>25, Zenon
<1> QED BY <1>26, <1>27, <1>28, Zenon

\* Where a call returns to.
LEMMA ReturnTo ==
    ASSUME Inv, kvfnc # 0, r_cod # trxdc, NEW fr, fr = Frame(flprt), NEW gl, NEW m, NEW p, gl = fr.flptr, m = fr.base, p = flprt
    PROVE  /\ gl \in Nat \ {0} /\ m \in Nat /\ p \in Nat \ {0} /\ gl <= m /\ m + 8 <= p /\ p <= flptr
           /\ stack[gl][1] = "off" /\ Chained(stack, gl) /\ Leads(fr.r_cod, stack[gl][2])
           /\ IsTrace(stack, gl) <=> fr.r_cod = trxdc
           /\ \A i \in gl + 1 .. flptr : ~IsTrace(stack, i)
           /\ \A i \in gl + 1 .. flptr : i # p => ~IsCall(stack, i)
           /\ LastCall(stack, fr.flprt, gl + 1)
           /\ CallsTo(stack, gl) = CallsTo(stack, flptr) \ {p} /\ p \in CallsTo(stack, flptr)
<1>1. /\ m \in Nat /\ m + 8 <= p /\ gl \in Nat \ {0} /\ gl <= m
      /\ fr.flprt \in Nat /\ fr.cp \in Places /\ fr.r_cod \in Blocks \cup {trxdc}
      /\ Context(stack, fr.r_cod, fr.cp, gl, m) /\ LastCall(stack, fr.flprt, p)
      /\ \A i \in gl + 1 .. p - 1 : stack[i][1] # "off"
  BY FrameIs
<1>2. p \in 1 .. flptr /\ IsCall(stack, p) /\ ~IsTrace(stack, p)
  BY CallFrame
<1>3. PICK k \in Nat \ {0} : k = flptr /\ k <= Len(stack) /\ Len(stack) \in Nat
  BY Basics
<1>4. p \in Nat \ {0} /\ p <= k /\ gl < p /\ gl \in 1 .. k /\ p \in 1 .. k
  BY <1>1, <1>2, <1>3
<1>5. \A i \in p + 1 .. k : ~IsCall(stack, i) /\ ~IsTrace(stack, i)
  BY <1>3, NoneSince
<1>6. \A i \in gl + 1 .. p - 1 : ~IsCall(stack, i) /\ ~IsTrace(stack, i)
  BY <1>1, NotTrace DEF IsCall
<1>7. ASSUME NEW i \in gl + 1 .. k PROVE i \in gl + 1 .. p - 1 \/ i = p \/ i \in p + 1 .. k
  BY <1>1, <1>4
<1>8. stack[gl] = Off(Awaited(fr.r_cod, fr.cp)) /\ stack[gl][1] = "off" /\ stack[gl][2] = Awaited(fr.r_cod, fr.cp)
  <2>1. stack[gl] = Off(Awaited(fr.r_cod, fr.cp))
    BY <1>1 DEF Context
  <2> QED BY <2>1, WordParts
<1>9. Leads(fr.r_cod, stack[gl][2]) /\ (IsTrace(stack, gl) <=> fr.r_cod = trxdc)
  <2>1. CASE fr.r_cod \in Blocks
    <3>1. Leads(fr.r_cod, stack[gl][2])
      BY <1>1, <1>8, <2>1, AwaitedLeads
    <3>2. stack[gl][2] # <<"zero">>
      BY <2>1, <3>1, NotTrace
    <3>3. fr.r_cod # trxdc
      BY <2>1, BlocksAre
    <3> QED BY <3>1, <3>2, <3>3, NotTrace
  <2>2. CASE fr.r_cod = trxdc
    <3>1. Len(fr.cp.path) = 1
      BY <1>1, <2>2 DEF Context
    <3>2. ~(1 > 1)
      OBVIOUS
    <3>3. ~(Len(fr.cp.path) > 1)
      BY <3>1, <3>2, Zenon
    <3>4. Awaited(fr.r_cod, fr.cp) = <<"zero">>
      BY <2>2, <3>3, Zenon DEF Awaited
    <3>5. stack[gl][2] = <<"zero">> /\ IsTrace(stack, gl)
      BY <1>8, <3>4, Zenon DEF IsTrace
    <3> QED BY <2>2, <3>5 DEF Leads
  <2> QED BY <1>1, <2>1, <2>2
<1>10. Chained(stack, gl)
  <2>1. Chained(stack, k) /\ gl \in 1 .. k
    BY <1>3, <1>4 DEF Inv
  <2> QED BY <1>3, <1>8, <2>1, ChainPop
<1>11. PICK r \in Nat : r = fr.flprt /\ r \in 0 .. p - 1 /\ (r # 0 => IsCall(stack, r)) /\ \A i \in r + 1 .. p - 1 : ~IsCall(stack, i)
  BY <1>1 DEF LastCall
<1>12. LastCall(stack, r, gl + 1)
  <2>1. r <= gl
    <3>1. r \notin gl + 1 .. p - 1
      <4>1. SUFFICES ASSUME r \in gl + 1 .. p - 1 PROVE FALSE
        OBVIOUS
      <4>2. r # 0
        BY <1>1, <4>1
      <4> QED BY <1>6, <1>11, <4>1, <4>2
    <3> QED BY <1>1, <1>4, <1>11, <3>1
  <2>2. \A i \in r + 1 .. gl : ~IsCall(stack, i)
    <3>1. \A i \in r + 1 .. gl : i \in r + 1 .. p - 1
      BY <1>1, <1>4, <1>11
    <3> QED BY <1>11, <3>1
  <2>3. r \in 0 .. gl
    BY <1>1, <2>1
  <2> QED BY <1>1, <1>11, <2>2, <2>3, LastOf
<1>13. CallsTo(stack, gl) = CallsTo(stack, k) \ {p} /\ p \in CallsTo(stack, k)
  <2>1. p \in CallsTo(stack, k)
    BY <1>2, <1>4 DEF CallsTo
  <2>2. ASSUME NEW i PROVE i \in CallsTo(stack, gl) <=> i \in CallsTo(stack, k) \ {p}
    <3>1. CASE i \in 1 .. gl
      <4>1. i \in 1 .. k /\ i # p
        BY <1>1, <1>4, <3>1
      <4> QED BY <3>1, <4>1 DEF CallsTo
    <3>2. CASE i \in gl + 1 .. k
      <4>1. i \notin 1 .. gl
        BY <1>1, <3>2
      <4>2. i # p => ~IsCall(stack, i)
        BY <1>5, <1>6, <1>7, <3>2
      <4> QED BY <4>1, <4>2 DEF CallsTo
    <3>3. CASE i \notin 1 .. k
      <4>1. i \notin 1 .. gl
        BY <1>4, <3>3
      <4> QED BY <3>3, <4>1 DEF CallsTo
    <3>4. i \in 1 .. gl \/ i \in gl + 1 .. k \/ i \notin 1 .. k
      BY <1>1, <1>4
    <3> QED BY <3>1, <3>2, <3>3, <3>4
  <2> QED BY <2>1, <2>2
<1>14. /\ \A i \in gl + 1 .. k : ~IsTrace(stack, i)
       /\ \A i \in gl + 1 .. k : i # p => ~IsCall(stack, i)
  BY <1>2, <1>5, <1>6, <1>7
<1>15. p <= flptr
  BY <1>3, <1>4
<1> QED BY <1>1, <1>3, <1>4, <1>8, <1>9, <1>10, <1>11, <1>12, <1>13, <1>14, <1>15

\* One call less.
LEMMA CallingDown ==
    ASSUME Inv, Ghost, NEW t, NEW gl \in Nat, NEW p, t = stack', gl = flptr', kvfnc' = kvfnc - 1,
           LastCall(t, flprt', gl + 1), CallsTo(t, gl) = CallsTo(stack, flptr) \ {p}, p \in CallsTo(stack, flptr)
    PROVE  Calling'
<1>1. PICK S : S = CallsTo(stack, flptr)
  OBVIOUS
<1>2. IsFiniteSet(S) /\ Cardinality(S) \in Nat
  BY <1>1, Basics, CallsFinite
<1>3. Cardinality(S \ {p}) = Cardinality(S) - 1
  BY <1>1, <1>2, FS_RemoveElement
<1>4. kvfnc = Cardinality(S) /\ kvfnc \in Nat /\ kvfnc <= prog.level
  BY <1>1, <1>2 DEF Inv, Calling
<1>5. prog.level \in Nat /\ prog' = prog
  BY CallsAssumption DEF Inv, Typed, Ghost
<1>6. kvfnc' = Cardinality(CallsTo(stack', flptr'))
  BY <1>1, <1>3, <1>4
<1>7. kvfnc' <= prog'.level
  BY <1>4, <1>5
<1> QED BY <1>6, <1>7 DEF Calling

\* The traces below a call that returns.
LEMMA ReturnTraces ==
    ASSUME NEW s, NEW t, NEW fl \in Nat \ {0}, NEW gl \in Nat \ {0}, NEW m \in Nat, NEW p \in Nat, Len(s) \in Nat, Len(t) \in Nat,
           gl <= m, m + 8 <= p, p <= fl, fl <= Len(s), m <= Len(t), Same(s, t, m),
           NEW b, NEW d, NEW on, NEW traced, TracesAre(s, fl, b, on, traced),
           IsTrace(s, gl) <=> d = trxdc, \A i \in gl + 1 .. fl : ~IsTrace(s, i),
           \A i \in gl + 1 .. fl : i # p => ~IsCall(s, i), s[p - 2] = Adr(gl),
           \A i \in m + 1 .. Len(t) : t[i] # Blk(trxdc)
    PROVE  TracesAre(t, gl, d, on, traced)
<1>2. /\ on => traced /\ \A i \in 1 .. fl : ~IsTrace(s, i)
      /\ traced /\ ~on <=> \E i \in 1 .. fl : IsTrace(s, i)
      /\ \A i, j \in 1 .. fl : IsTrace(s, i) /\ IsTrace(s, j) => i = j
      /\ \A i \in 1 .. fl - 1 : IsTrace(s, i) => \E q \in 1 .. fl : TraceCall(s, i, q)
      /\ \A i \in 1 .. Len(s) : s[i] = Blk(trxdc) => i + 5 <= fl /\ IsCall(s, i + 5)
  BY DEF TracesAre
<1>3. Same(s, t, gl)
  BY DEF Same
<1>4. \A i \in 1 .. gl : (IsTrace(s, i) <=> IsTrace(t, i)) /\ (IsCall(s, i) <=> IsCall(t, i))
  <2>1. \A i \in 1 .. gl : IsTrace(s, i) <=> IsTrace(t, i)
    BY <1>3 DEF Same, IsTrace
  <2> QED BY <1>3, <2>1, SameCalls
<1>5. gl \in 1 .. gl /\ gl < p /\ \A i \in 1 .. gl : i \in 1 .. fl
  OBVIOUS
<1>6. ASSUME NEW i \in 1 .. fl, IsTrace(s, i) PROVE i \in 1 .. gl
  <2>1. i \notin gl + 1 .. fl
    BY <1>6
  <2> QED BY <2>1
<1>7. on => traced /\ \A i \in 1 .. gl : ~IsTrace(t, i)
  BY <1>2, <1>4, <1>5
<1>8. traced /\ ~on <=> \E i \in 1 .. gl : IsTrace(t, i)
  <2>1. (\E i \in 1 .. fl : IsTrace(s, i)) => \E i \in 1 .. gl : IsTrace(t, i)
    BY <1>4, <1>6
  <2>2. (\E i \in 1 .. gl : IsTrace(t, i)) => \E i \in 1 .. fl : IsTrace(s, i)
    BY <1>4, <1>5
  <2> QED BY <1>2, <2>1, <2>2
<1>9. \A i, j \in 1 .. gl : IsTrace(t, i) /\ IsTrace(t, j) => i = j
  BY <1>2, <1>4, <1>5
<1>10. ASSUME NEW i \in 1 .. gl - 1, IsTrace(t, i) PROVE \E q \in 1 .. gl : TraceCall(t, i, q)
  <2>1. i \in 1 .. gl /\ i \in 1 .. fl - 1 /\ i # gl
    BY <1>5
  <2>2. IsTrace(s, i)
    BY <1>4, <1>10, <2>1
  <2>3. PICK q \in 1 .. fl : TraceCall(s, i, q)
    BY <1>2, <2>1, <2>2
  <2>4. q # p
    <3>1. SUFFICES ASSUME q = p PROVE FALSE
      OBVIOUS
    <3>2. Adr(i) = Adr(gl)
      BY <2>3, <3>1 DEF TraceCall
    <3> QED BY <2>1, <3>2, WordParts
  <2>5. q \in 1 .. gl
    <3>1. IsCall(s, q)
      BY <2>3 DEF TraceCall
    <3>2. q \notin gl + 1 .. fl
      BY <2>4, <3>1
    <3> QED BY <3>2
  <2>6. q - 2 \in 1 .. gl /\ q - 5 \in 1 .. gl
    BY <2>1, <2>3, <2>5 DEF TraceCall
  <2>7. TraceCall(t, i, q)
    BY <1>3, <1>4, <2>3, <2>5, <2>6 DEF TraceCall, Same
  <2> QED BY <2>5, <2>7
<1>11. ASSUME NEW i \in 1 .. Len(t), t[i] = Blk(trxdc) PROVE i + 5 <= gl /\ IsCall(t, i + 5)
  <2>1. i \in 1 .. m /\ i \in 1 .. Len(s)
    <3>1. i \notin m + 1 .. Len(t)
      BY <1>11
    <3> QED BY <3>1
  <2>2. s[i] = Blk(trxdc)
    BY <1>11, <2>1 DEF Same
  <2>3. i + 5 <= fl /\ IsCall(s, i + 5)
    BY <1>2, <2>1, <2>2
  <2>4. PICK j \in Nat : j = i + 5 /\ j <= fl /\ IsCall(s, j) /\ j > 0
    BY <2>3
  <2>5. j # p
    BY <2>1, <2>4
  <2>6. j \notin gl + 1 .. fl
    BY <2>4, <2>5
  <2>7. j \in 1 .. gl
    BY <2>4, <2>6
  <2>8. j <= gl /\ IsCall(t, j)
    BY <1>4, <2>4, <2>7
  <2> QED BY <2>4, <2>8, Zenon
<1>12. IsTrace(t, gl) <=> d = trxdc
  BY <1>4, <1>5
<1> QED BY <1>7, <1>8, <1>9, <1>10, <1>11, <1>12 DEF TracesAre

\* There is no call to return from.
LEMMA ReturnError ==
    ASSUME Inv, Ghost, UNCHANGED <<kvtra, stack, regs, kvfnc, vars, comp, traps>>, AtEnd, ctl' = "error" PROVE Inv'
<1>1. r_cod \in Blocks /\ Leads(r_cod, stack[flptr][2]) /\ ctl \in {"run", "end"} /\ stage \in {"xt", "ee"}
  BY Ending, BlocksAre
<1>2. UNCHANGED <<stack, flptr, r_cod>>
  BY DEF regs
<1>3. AtError'
  BY <1>1, <1>2, ErrorFrom
<1>4. Controlled'
  BY <1>3 DEF Controlled
<1>5. InStage'
  BY <1>1, <1>2, StageStays
<1>6. vars' \in [Vars -> Values] /\ r_sxc' \in Stmts \cup {None}
  BY DEF Inv, Typed, traps
<1>7. UNCHANGED <<stack, regs, kvfnc, kvtra, kvert, r_cnt, kverl>>
  BY DEF traps
<1>8. ctl \notin {"continue", "err07", "stop"} /\ ctl' # "err07"
  BY <1>1
<1> QED BY <1>4, <1>5, <1>6, <1>7, <1>8, Idle

\* An index that is neither p, nor above it, nor between g and p.
LEMMA Below ==
    ASSUME NEW j \in Nat \ {0}, NEW g \in Nat \ {0}, NEW p \in Nat \ {0}, j # p, ~(j > p), j \notin g + 1 .. p - 1
    PROVE  j \in 1 .. g
OBVIOUS

\* The evaluations below a call that returns.
LEMMA ReturnStage ==
    ASSUME Inv, UNCHANGED comp, stage = "xt" \/ (stage = "ee" /\ gtcef < flprt), NEW gl \in Nat \ {0}, gl = flptr',
           NEW p \in Nat \ {0}, p = flprt, gl < p, p <= flptr, IsCall(stack, p),
           \A i \in gl + 1 .. p - 1 : stack[i][1] # "off", Same(stack, stack', gl)
    PROVE  InStage'
<1>1. CASE stage = "xt"
  BY <1>1 DEF comp, InStage
<1>2. CASE stage = "ee" /\ gtcef < flprt
  <2>1. PICK e \in 1 .. flptr : Evaluates(e)
    BY <1>2 DEF Inv, InStage
  <2>2. gtcef \in Nat \ {0} /\ gtcef <= e - 6 /\ stack[e][1] = "off" /\ Evaluated(stack, e)
    BY <2>1, EvaluatesIs DEF Evaluates
  <2>3. \A i \in gtcef + 1 .. e - 1 : stack[i][1] # "off"
    <3>1. /\ e > 6 /\ stack[e - 1] = Other /\ stack[e - 2][1] = "adr" /\ stack[e - 3][1] = "cp" /\ stack[e - 4][1] = "blk"
          /\ stack[e - 5] = Other /\ stack[e - 2][2] = gtcef /\ Clean(stack, stack[e - 2][2], e - 6)
      BY <2>1, <2>2, WordParts DEF Evaluates, Evaluated, Context
    <3>2. Other[1] = "other"
      BY WordParts
    <3>3. ASSUME NEW i \in gtcef + 1 .. e - 1 PROVE stack[i][1] # "off"
      <4>1. i \in gtcef + 1 .. e - 6 \/ i \in {e - 1, e - 2, e - 3, e - 4, e - 5}
        BY <2>2
      <4>2. i \in gtcef + 1 .. e - 6 => stack[i][1] # "off"
        BY <3>1 DEF Clean
      <4> QED BY <3>1, <3>2, <4>1, <4>2
    <3> QED BY <3>3
  <2>4. stack[p][1] = "off" /\ stack[p - 1][1] = "pf"
    BY DEF IsCall
  <2>5. e # p
    <3>1. stack[e - 1][1] = "other"
      BY <2>2, WordParts DEF Evaluated
    <3> QED BY <2>4, <3>1
  <2>6. ~(e > p)
    <3>1. SUFFICES ASSUME e > p PROVE FALSE
      OBVIOUS
    <3>2. p \in gtcef + 1 .. e - 1
      <4>1. gtcef < p
        BY <1>2
      <4> QED BY <2>2, <3>1, <4>1
    <3> QED BY <2>3, <2>4, <3>2
  <2>7. e \notin gl + 1 .. p - 1
    BY <2>2
  <2>8. e \in 1 .. gl
    <3>1. e \in Nat \ {0}
      BY Basics
    <3>2. PICK j \in Nat \ {0} : j = e
      BY <3>1
    <3>3. j # p /\ ~(j > p) /\ j \notin gl + 1 .. p - 1
      BY <2>5, <2>6, <2>7, <3>2, Zenon
    <3>4. j \in 1 .. gl
      BY <3>3, Below
    <3> QED BY <3>2, <3>4
  <2>9. stack'[e] = stack[e] /\ stack'[e - 2] = stack[e - 2] /\ stack'[e - 4] = stack[e - 4]
    <3>1. e > 6
      BY <2>2 DEF Evaluated
    <3>2. e - 2 \in 1 .. gl /\ e - 4 \in 1 .. gl
      BY <2>8, <3>1
    <3> QED BY <2>8, <3>2 DEF Same
  <2>10. Evaluated(stack', e)
    <3>1. Same(stack, stack', e - 1)
      BY <2>8 DEF Same
    <3> QED BY <2>2, <3>1, SameEvaluated
  <2>11. UNCHANGED <<gtcef, r_gtc, stage>>
    BY DEF comp
  <2>12. Evaluates(e)'
    BY <2>1, <2>9, <2>10, <2>11 DEF Evaluates
  <2>13. \E i \in 1 .. flptr' : Evaluates(i)'
    BY <2>8, <2>12
  <2> QED BY <1>2, <2>11, <2>13 DEF InStage
<1> QED BY <1>1, <1>2

\* What retrn leaves.
LEMMA Returned ==
    ASSUME Inv, NEW fr, NEW m \in Nat, m = fr.base, m <= Len(stack), NEW v \in Values,
           \/ stack' = Append(Cut(m), Val(v))
           \/ stack' = Cut(m)
    PROVE  \E t \in Seq(Words) : /\ t = stack' /\ m <= Len(t) /\ Len(t) <= m + 1 /\ Same(stack, t, m)
                                 /\ \A i \in m + 1 .. Len(t) : t[i][1] = "val"
                                 /\ (stack' = Append(Cut(m), Val(v)) => Len(t) = m + 1)
<1>1. PICK d \in Seq(Words) : d = Cut(m) /\ Len(d) = m /\ Same(stack, d, m)
  BY Basics, CutIs
<1>2. PICK w \in Words : w = Val(v) /\ w[1] = "val"
  BY WordsAre, WordParts
<1>3. PICK g \in Seq(Words) : g = Append(d, w) /\ Len(g) = m + 1 /\ Same(d, g, m) /\ g[m + 1] = w
  <2>1. Append(d, w) \in Seq(Words) /\ Len(Append(d, w)) = Len(d) + 1 /\ Same(d, Append(d, w), Len(d))
        /\ Append(d, w)[Len(d) + 1] = w
    BY AppendIs
  <2> QED BY <1>1, <2>1, Zenon
<1>4. Same(stack, g, m)
  BY <1>1, <1>3 DEF Same
<1>5. CASE stack' = Append(Cut(m), Val(v))
  <2>1. stack' = g
    BY <1>1, <1>2, <1>3, <1>5
  <2>2. m <= Len(g) /\ Len(g) <= m + 1 /\ \A i \in m + 1 .. Len(g) : i = m + 1
    BY <1>3
  <2>3. \A i \in m + 1 .. Len(g) : g[i][1] = "val"
    BY <1>2, <1>3, <2>2
  <2> QED BY <1>3, <1>4, <2>1, <2>2, <2>3
<1>6. CASE stack' = Cut(m) /\ stack' # Append(Cut(m), Val(v))
  <2>1. stack' = d
    BY <1>1, <1>6
  <2>2. m <= Len(d) /\ Len(d) <= m + 1 /\ m + 1 .. Len(d) = {}
    BY <1>1
  <2> QED BY <1>1, <1>6, <2>1, <2>2
<1> QED BY <1>5, <1>6

\* A function returns.
LEMMA ReturnKeeps ==
    ASSUME Inv, Ghost, UNCHANGED kvtra, faults' = {}, NEW how \in {"RETURN", "FRETURN", "NRETURN"}, Return(how) PROVE Inv'
<1>1. /\ AtEnd /\ UNCHANGED <<comp, traps>>
      /\ Met("body", kvfnc # 0 /\ stage # "xt" /\ gtcef >= flprt) = {}
      /\ Met("trace", kvfnc # 0 /\ ctl' = "error" /\ r_cod' = trxdc /\ (stage # "xt" \/ r_sxc # None)) = {}
  BY DEF Return
<1>2. /\ ctl \in {"run", "end"} /\ r_cod \in Stmts /\ r_cod # trxdc /\ stage \in {"xt", "ee"}
  <2>1. ctl \in {"run", "end"} /\ r_cod \in Stmts /\ stage \in {"xt", "ee"}
    BY <1>1, Ending
  <2> QED BY <2>1, BlocksAre
<1>3. CASE kvfnc = 0
  <2>1. ctl' = "error" /\ UNCHANGED <<stack, regs, kvfnc, vars>>
    BY <1>3 DEF Return
  <2> QED BY <1>1, <2>1, ReturnError
<1>4. CASE kvfnc # 0
  <2>1. PICK fr : fr = Frame(flprt)
    OBVIOUS
  <2>2. IsFrame(flprt)
    BY <1>4, CallFrame
  <2>3. /\ flptr' = fr.flptr /\ flprt' = fr.flprt /\ r_cod' = fr.r_cod
        /\ kvfnc' = kvfnc - 1 /\ vars' = Restored(fr)
        /\ ctl' \in {"run", "exfal", "error"}
        /\ IF ctl' = "run"
           THEN stack' = Append(Cut(fr.base), Val(vars[fr.f])) /\ cp' = Operands(fr.cp, 1)
           ELSE stack' = Cut(fr.base) /\ cp' = fr.cp
    BY <1>4, <2>1, <2>2 DEF Return
  <2>23. ctl' = "error" /\ r_cod' = trxdc => stage = "xt" /\ r_sxc = None
    BY <1>1, <1>4 DEF Met
  <2>4. PICK gl, m, p, b, c : gl = fr.flptr /\ m = fr.base /\ p = flprt /\ b = fr.r_cod /\ c = fr.cp
    OBVIOUS
  <2>5. /\ gl \in Nat \ {0} /\ m \in Nat /\ p \in Nat \ {0} /\ gl <= m /\ m + 8 <= p /\ p <= flptr
        /\ stack[gl][1] = "off" /\ Chained(stack, gl) /\ Leads(b, stack[gl][2])
        /\ IsTrace(stack, gl) <=> b = trxdc
        /\ \A i \in gl + 1 .. flptr : ~IsTrace(stack, i)
        /\ \A i \in gl + 1 .. flptr : i # p => ~IsCall(stack, i)
        /\ LastCall(stack, fr.flprt, gl + 1)
        /\ CallsTo(stack, gl) = CallsTo(stack, flptr) \ {p} /\ p \in CallsTo(stack, flptr)
    BY <1>2, <1>4, <2>1, <2>4, ReturnTo, SMTT(60)
  <2>6. /\ c \in Places /\ b \in Blocks \cup {trxdc} /\ fr.f \in Functions
        /\ fr.had \in Seq(Values) /\ Len(fr.had) = Len(Names[fr.f])
        /\ Context(stack, b, c, gl, m) /\ stack[p - 2] = Adr(gl)
        /\ \A i \in gl + 1 .. p - 1 : stack[i][1] # "off"
    BY <1>4, <2>1, <2>4, FrameIs
  <2>7. PICK k \in Nat \ {0} : /\ k = flptr /\ k <= Len(stack) /\ Len(stack) \in Nat /\ p <= k /\ m <= k /\ m <= Len(stack)
                               /\ gl <= k
    <3>1. PICK k \in Nat \ {0} : k = flptr /\ k <= Len(stack) /\ Len(stack) \in Nat
      BY Basics
    <3> QED BY <2>5, <3>1
  <2>8. vars \in [Vars -> Values] /\ fr.f \in Vars
    BY <2>6, CallsAssumption DEF Inv, Typed
  <2>9. PICK v \in Values : v = vars[fr.f]
    BY <2>8
  <2>10. PICK t \in Seq(Words) : /\ t = stack' /\ m <= Len(t) /\ Len(t) <= m + 1 /\ Same(stack, t, m)
                                 /\ \A i \in m + 1 .. Len(t) : t[i][1] = "val"
                                 /\ (stack' = Append(Cut(m), Val(v)) => Len(t) = m + 1)
    <3>1. stack' = Append(Cut(m), Val(v)) \/ stack' = Cut(m)
      BY <2>3, <2>4, <2>9
    <3> QED BY <2>4, <2>5, <2>7, <3>1, Returned
  <2>11. Len(t) \in Nat /\ gl \in 1 .. m /\ Same(stack, t, gl) /\ Same(stack, t, gl - 1) /\ t[gl] = stack[gl] /\ gl <= Len(t)
    BY <2>5, <2>10 DEF Same
  <2>12. Chained(t, gl)
    BY <2>5, <2>7, <2>11, ChainSame
  <2>13. LastCall(t, fr.flprt, gl + 1) /\ CallsTo(t, gl) = CallsTo(stack, gl)
    <3>1. \A i \in 1 .. gl : IsCall(stack, i) <=> IsCall(t, i)
      BY <2>5, <2>11, SameCalls
    <3>2. CallsTo(t, gl) = CallsTo(stack, gl)
      BY <3>1 DEF CallsTo
    <3>3. Same(stack, t, gl + 1 - 1) /\ gl + 1 \in Nat \ {0}
      BY <2>5, <2>11
    <3> QED BY <2>5, <3>2, <3>3, SameLastCall
  <2>14. flptr' = gl /\ flprt' = fr.flprt /\ r_cod' = b
    BY <2>3, <2>4
  <2>15. Calling'
    <3>1. CallsTo(t, gl) = CallsTo(stack, flptr) \ {p}
      BY <2>5, <2>13, Zenon
    <3> QED BY <2>3, <2>5, <2>10, <2>13, <2>14, <3>1, CallingDown
  <2>16. Typed'
    <3>1. vars' \in [Vars -> Values]
      BY <2>3, <2>6, <2>8, RestoredIs
    <3>2. kvtra' \in BOOLEAN /\ prog.stack \in Nat /\ k <= prog.stack
      BY <2>7, CallsAssumption DEF Inv, Typed
    <3>3. cp' \in Places
      <4>1. Count(c) \in Nat
        BY <2>6, NoOperands
      <4>2. Count(c) + 1 >= 0
        BY <4>1
      <4>3. Operands(c, 1) \in Places
        BY <2>6, <4>2, PlaceOperands
      <4> QED BY <2>3, <2>4, <2>6, <4>3
    <3>4. gl <= prog.stack /\ Len(t) <= prog.stack + 1
      BY <2>5, <2>7, <2>10, <2>11, <3>2
    <3> QED BY <1>1, <2>5, <2>6, <2>10, <2>14, <3>1, <3>2, <3>3, <3>4, TypedCall
  <2>17. Leads(b, t[gl][2])
    BY <2>5, <2>11
  <2>18. Controlled'
    <3>1. CASE ctl' = "run"
      <4>1. cp' = Operands(c, 1) /\ Len(t) = m + 1
        BY <2>3, <2>4, <2>9, <2>10, <3>1
      <4>2. t[m + 1][1] = "val"
        <5>1. m + 1 \in m + 1 .. Len(t)
          BY <2>5, <4>1
        <5> QED BY <2>10, <5>1
      <4>3. Context(t, b, Operands(c, 1), gl, m + 1)
        BY <2>6, <2>10, <4>2, ContextPush
      <4>4. Context(stack', r_cod', cp', flptr', Len(stack'))
        BY <2>10, <2>14, <4>1, <4>3, Zenon
      <4> QED BY <3>1, <4>4 DEF Controlled
    <3>2. CASE ctl' = "exfal"
      <4>1. Leads(r_cod', stack'[flptr'][2])
        BY <2>10, <2>14, <2>17, Zenon
      <4> QED BY <3>2, <4>1 DEF Controlled
    <3>3. CASE ctl' = "error"
      <4>1. Leads(r_cod', stack'[flptr'][2])
        BY <2>10, <2>14, <2>17, Zenon
      <4>2. stage' = stage /\ r_sxc' = r_sxc
        BY <1>1 DEF comp, traps
      <4>3. AtError'
        BY <2>23, <3>3, <4>1, <4>2 DEF AtError
      <4> QED BY <3>3, <4>3 DEF Controlled
    <3> QED BY <2>3, <3>1, <3>2, <3>3
  <2>19. InStage'
    <3>1. IsCall(stack, p)
      BY <2>5 DEF CallsTo
    <3>2. stage = "xt" \/ (stage = "ee" /\ gtcef < flprt)
      <4>1. CASE stage = "ee"
        <5>1. ~(gtcef >= flprt)
          BY <1>1, <1>4, <4>1 DEF Met
        <5>2. gtcef \in Nat
          BY <4>1, EvaluatesIs DEF Inv, InStage
        <5> QED BY <2>4, <2>5, <4>1, <5>1, <5>2
      <4> QED BY <1>2, <4>1
    <3>3. gl < p /\ p \in Nat \ {0} /\ p = flprt /\ gl = flptr' /\ Same(stack, stack', gl)
      BY <2>4, <2>5, <2>10, <2>11, <2>14
    <3> QED BY <1>1, <2>5, <2>6, <3>1, <3>2, <3>3, ReturnStage
  <2>20. InTrap'
    <3>1. Lower(flptr, gl) = gl
      BY <2>5, <2>7, LowerIs
    <3>2. \A i \in 1 .. gl : Kept(stack, t, i)
      BY <2>5, <2>11 DEF Kept, Same
    <3>3. InTrap /\ level \in Nat
      BY DEF Inv, Typed
    <3>4. UNCHANGED <<r_cnt, kvert>> /\ ctl' # "err07" /\ ctl \notin {"continue", "err07", "stop"}
      BY <1>1, <1>2, <2>3 DEF traps
    <3>5. flptr \in Nat \ {0} /\ flptr' \in Nat \ {0}
      BY <2>5, <2>7, <2>14
    <3>6. \A i \in 1 .. Lower(flptr, flptr') : Kept(stack, stack', i)
      BY <2>10, <2>14, <3>1, <3>2
    <3> QED BY <3>3, <3>4, <3>5, <3>6, TrapStays
  <2>21. InTrace'
    <3>1. PICK on, traced : on = kvtra /\ traced = prog.trace
      OBVIOUS
    <3>2. TracesAre(stack, k, r_cod, on, traced)
      BY <2>7, <3>1 DEF Inv, InTrace
    <3>3. \A i \in m + 1 .. Len(t) : t[i] # Blk(trxdc)
      BY <2>10, NotBlock
    <3>4. (\A i \in gl + 1 .. k : ~IsTrace(stack, i)) /\ \A i \in gl + 1 .. k : i # p => ~IsCall(stack, i)
      BY <2>5, <2>7
    <3>5. /\ gl <= m /\ m + 8 <= p /\ p <= k /\ k <= Len(stack) /\ m <= Len(t) /\ Same(stack, t, m)
          /\ gl \in Nat \ {0} /\ m \in Nat /\ p \in Nat /\ Len(stack) \in Nat /\ Len(t) \in Nat
      BY <2>5, <2>7, <2>10, <2>11
    <3>6. IsTrace(stack, gl) <=> b = trxdc
      BY <2>5
    <3>7. TracesAre(t, gl, b, on, traced)
      BY <2>6, <3>2, <3>3, <3>4, <3>5, <3>6, ReturnTraces, ZenonT(60)
    <3>8. kvtra' = on /\ prog'.trace = traced
      BY <3>1 DEF Ghost
    <3> QED BY <2>10, <2>14, <3>7, <3>8, Zenon DEF InTrace
  <2>22. Chained(stack', flptr')
    BY <2>10, <2>12, <2>14
  <2> QED BY <2>15, <2>16, <2>18, <2>19, <2>20, <2>21, <2>22 DEF Inv
<1> QED BY <1>3, <1>4

\* Where the frame of a trace returns to.
LEMMA TraceFrame ==
    ASSUME Inv, r_cod = trxdc, NEW gl, NEW m, NEW b, NEW c, NEW k,
           k = flptr, gl = stack[k - 1][2], m = k - 8, c = stack[k - 2][2], b = stack[k - 3][2]
    PROVE  /\ gl \in Nat \ {0} /\ m \in Nat /\ k \in Nat /\ gl <= m /\ m + 8 = k /\ k <= Len(stack)
           /\ b \in Blocks /\ c \in Places /\ Context(stack, b, c, gl, m) /\ stack[gl][1] = "off" /\ Chained(stack, gl)
           /\ IsTrace(stack, k) /\ ~Evaluated(stack, k)
           /\ \A i \in gl + 1 .. k - 1 : stack[i][1] # "off"
           /\ \A i \in gl + 1 .. k : ~IsCall(stack, i)
<1>1. IsTrace(stack, k)
  BY DEF Inv, InTrace, TracesAre
<1>2. Traced(stack, k)
  <2>1. Meets(stack, k, stack[k][2])
    BY Basics
  <2>2. stack[k][2] = <<"zero">>
    BY <1>1, NotTrace
  <2> QED BY <2>1, <2>2 DEF Meets
<1>3. /\ k > 8 /\ stack[k - 1][1] = "adr" /\ stack[k - 2][1] = "cp" /\ stack[k - 3][1] = "blk"
      /\ \A i \in k - 7 .. k - 4 : stack[i] = Other
      /\ b \in Blocks /\ Context(stack, b, c, gl, m)
  BY <1>2 DEF Traced
<1>4. k \in Nat /\ k <= Len(stack) /\ m \in Nat /\ m + 8 = k
  <2>1. flptr \in Nat /\ flptr <= Len(stack)
    BY Basics
  <2> QED BY <1>3, <2>1
<1>5. gl \in Nat \ {0} /\ gl <= m /\ c \in Places
  <2>1. gl \in 1 .. m
    BY <1>3, ContextTypes
  <2> QED BY <1>3, <1>4, <2>1, ContextTypes
<1>6. stack[gl][1] = "off"
  BY <1>3, WordParts DEF Context
<1>7. Chained(stack, gl)
  <2>1. gl \in 1 .. k
    BY <1>4, <1>5
  <2> QED BY <1>6, <2>1, Basics, ChainPop DEF Inv
<1>8. ASSUME NEW i \in gl + 1 .. k - 1 PROVE stack[i][1] # "off"
  <2>1. i \in gl + 1 .. m \/ i \in k - 7 .. k - 4 \/ i \in {k - 1, k - 2, k - 3}
    BY <1>4, <1>5
  <2>2. i \in gl + 1 .. m => stack[i][1] # "off"
    BY <1>3 DEF Context, Clean
  <2>3. Other[1] = "other"
    BY WordParts
  <2> QED BY <1>3, <2>1, <2>2, <2>3
<1>9. ASSUME NEW i \in gl + 1 .. k PROVE ~IsCall(stack, i)
  <2>1. i \in gl + 1 .. k - 1 \/ i = k
    BY <1>4, <1>5
  <2> QED BY <1>3, <1>8, <2>1 DEF IsCall
<1>10. ~Evaluated(stack, k)
  BY <1>3, WordParts DEF Evaluated
<1> QED BY <1>1, <1>3, <1>4, <1>5, <1>6, <1>7, <1>8, <1>9, <1>10

\* When a trace has ended there is none.
LEMMA NoTraces ==
    ASSUME NEW s, NEW t, NEW fl \in Nat \ {0}, NEW gl \in Nat \ {0}, NEW m \in Nat, Len(s) \in Nat, Len(t) \in Nat,
           gl <= m, m <= fl, gl < fl, fl <= Len(s), m = Len(t), Same(s, t, m),
           NEW b \in Blocks, NEW d, NEW on, NEW off, NEW traced, TracesAre(s, fl, d, off, traced), on,
           IsTrace(s, fl), \A i \in gl + 1 .. fl : ~IsCall(s, i)
    PROVE  TracesAre(t, gl, b, on, traced)
<1>1. /\ traced /\ ~off <=> \E i \in 1 .. fl : IsTrace(s, i)
      /\ \A i, j \in 1 .. fl : IsTrace(s, i) /\ IsTrace(s, j) => i = j
      /\ \A i \in 1 .. Len(s) : s[i] = Blk(trxdc) => i + 5 <= fl /\ IsCall(s, i + 5)
  BY DEF TracesAre
<1>2. fl \in 1 .. fl /\ \A i \in 1 .. gl : i \in 1 .. fl /\ i # fl
  OBVIOUS
<1>3. traced
  BY <1>1, <1>2
<1>4. Same(s, t, gl)
  BY DEF Same
<1>5. \A i \in 1 .. gl : (IsTrace(s, i) <=> IsTrace(t, i)) /\ (IsCall(s, i) <=> IsCall(t, i))
  <2>1. \A i \in 1 .. gl : IsTrace(s, i) <=> IsTrace(t, i)
    BY <1>4 DEF Same, IsTrace
  <2> QED BY <1>4, <2>1, SameCalls
<1>6. \A i \in 1 .. gl : ~IsTrace(t, i)
  BY <1>1, <1>2, <1>5
<1>7. ASSUME NEW i \in 1 .. Len(t), t[i] = Blk(trxdc) PROVE i + 5 <= gl /\ IsCall(t, i + 5)
  <2>1. i \in 1 .. m /\ i \in 1 .. Len(s)
    OBVIOUS
  <2>2. s[i] = Blk(trxdc)
    BY <1>7, <2>1 DEF Same
  <2>3. i + 5 <= fl /\ IsCall(s, i + 5)
    BY <1>1, <2>1, <2>2
  <2>4. PICK j \in Nat : j = i + 5 /\ j <= fl /\ IsCall(s, j) /\ j > 0
    BY <2>3
  <2>5. j \notin gl + 1 .. fl
    BY <2>4
  <2>6. j \in 1 .. gl
    BY <2>4, <2>5
  <2>7. j <= gl /\ IsCall(t, j)
    BY <1>5, <2>4, <2>6
  <2> QED BY <2>4, <2>7, Zenon
<1>8. ~IsTrace(t, gl) /\ b # trxdc /\ \A i \in 1 .. gl - 1 : ~IsTrace(t, i)
  <2>1. gl \in 1 .. gl /\ \A i \in 1 .. gl - 1 : i \in 1 .. gl
    OBVIOUS
  <2> QED BY <1>6, <2>1, BlocksAre
<1> QED BY <1>3, <1>6, <1>7, <1>8 DEF TracesAre

\* A trace function has returned or failed.
LEMMA EndTraceKeeps ==
    ASSUME Inv, Ghost, EndTrace PROVE Inv'
<1>1. /\ ctl \in {"run", "txr"} /\ kvtra' = TRUE /\ ctl' = "run"
      /\ flptr' = stack[flptr - 1][2] /\ cp' = stack[flptr - 2][2] /\ r_cod' = stack[flptr - 3][2]
      /\ stack' = Cut(flptr - 8)
      /\ UNCHANGED <<flprt, comp, kvfnc, vars, traps>>
  BY DEF EndTrace
<1>2. r_cod = trxdc
  BY DEF EndTrace, Inv, Controlled
<1>3. PICK k, gl, m, b, c : k = flptr /\ gl = stack[k - 1][2] /\ m = k - 8 /\ c = stack[k - 2][2] /\ b = stack[k - 3][2]
  OBVIOUS
<1>4. /\ gl \in Nat \ {0} /\ m \in Nat /\ k \in Nat /\ gl <= m /\ m + 8 = k /\ k <= Len(stack)
      /\ b \in Blocks /\ c \in Places /\ Context(stack, b, c, gl, m) /\ stack[gl][1] = "off" /\ Chained(stack, gl)
      /\ IsTrace(stack, k) /\ ~Evaluated(stack, k)
      /\ \A i \in gl + 1 .. k - 1 : stack[i][1] # "off"
      /\ \A i \in gl + 1 .. k : ~IsCall(stack, i)
  BY <1>2, <1>3, TraceFrame, SMTT(60)
<1>5. /\ flptr' = gl /\ cp' = c /\ r_cod' = b
  BY <1>1, <1>3
<1>6. PICK t \in Seq(Words) : t = stack' /\ Len(t) = m /\ Same(stack, t, m)
  <2>1. m <= Len(stack) /\ stack \in Seq(Words)
    <3>1. PICK n \in Nat : n = Len(stack)
      BY Basics
    <3> QED BY <1>4, <3>1, Basics
  <2>2. Cut(m) \in Seq(Words) /\ Len(Cut(m)) = m /\ Same(stack, Cut(m), m)
    BY <1>4, <2>1, CutIs
  <2> QED BY <1>1, <1>3, <2>2
<1>7. /\ gl \in 1 .. m /\ Same(stack, t, gl) /\ t[gl] = stack[gl] /\ Len(t) \in Nat /\ Len(stack) \in Nat
      /\ gl < k /\ gl <= Len(t) /\ m <= k /\ k \in Nat \ {0} /\ k >= gl
  BY <1>4, <1>6, Basics DEF Same
<1>8. Chained(t, gl)
  BY <1>4, <1>7, ChainSame
<1>9. \A i \in 1 .. gl : IsCall(stack, i) <=> IsCall(t, i)
  BY <1>4, <1>7, SameCalls
<1>10. Calling'
  <2>1. flprt \in 0 .. k /\ (flprt # 0 => IsCall(stack, flprt)) /\ \A i \in flprt + 1 .. k : ~IsCall(stack, i)
    BY <1>3, <1>4, LastOf DEF Inv, Calling
  <2>2. PICK r \in Nat : r = flprt
    BY <2>1
  <2>3. r \notin gl + 1 .. k
    <3>1. SUFFICES ASSUME r \in gl + 1 .. k PROVE FALSE
      OBVIOUS
    <3>2. r # 0
      BY <1>4, <3>1
    <3> QED BY <1>4, <2>1, <2>2, <3>1, <3>2
  <2>4. r \in 0 .. gl
    BY <1>4, <2>1, <2>2, <2>3
  <2>5. r # 0 => IsCall(t, r)
    <3>1. r # 0 => r \in 1 .. gl
      BY <1>4, <2>4
    <3> QED BY <1>9, <2>1, <2>2, <3>1
  <2>6. \A i \in r + 1 .. gl : ~IsCall(t, i)
    <3>1. \A i \in r + 1 .. gl : i \in 1 .. gl /\ i \in r + 1 .. k
      BY <1>4, <1>7
    <3> QED BY <1>9, <2>1, <2>2, <3>1
  <2>7. LastCall(t, r, gl + 1)
    BY <1>4, <2>4, <2>5, <2>6, LastOf
  <2>8. CallsTo(t, gl) = CallsTo(stack, k)
    <3>1. ASSUME NEW i PROVE i \in CallsTo(t, gl) <=> i \in CallsTo(stack, k)
      <4>1. CASE i \in 1 .. gl
        <5>1. i \in 1 .. k
          BY <1>4, <1>7, <4>1
        <5> QED BY <1>9, <4>1, <5>1 DEF CallsTo
      <4>2. CASE i \in gl + 1 .. k
        <5>1. i \notin 1 .. gl
          BY <1>4, <4>2
        <5> QED BY <1>4, <4>2, <5>1 DEF CallsTo
      <4>3. CASE i \notin 1 .. k
        <5>1. i \notin 1 .. gl
          BY <1>4, <1>7, <4>3
        <5> QED BY <4>3, <5>1 DEF CallsTo
      <4>4. i \in 1 .. gl \/ i \in gl + 1 .. k \/ i \notin 1 .. k
        BY <1>4
      <4> QED BY <4>1, <4>2, <4>3, <4>4
    <3> QED BY <3>1
  <2>9. kvfnc = Cardinality(CallsTo(stack, k)) /\ kvfnc <= prog.level
    BY <1>3 DEF Inv, Calling
  <2>10. flprt' = r /\ kvfnc' = kvfnc /\ prog' = prog /\ flptr' = gl /\ stack' = t
    BY <1>1, <1>5, <1>6, <2>2 DEF Ghost
  <2> QED BY <2>7, <2>8, <2>9, <2>10, Zenon DEF Calling
<1>11. Typed'
  <2>1. vars' \in [Vars -> Values] /\ prog.stack \in Nat /\ k <= prog.stack /\ Len(stack) <= prog.stack + 1
    BY <1>1, <1>3, CallsAssumption DEF Inv, Typed
  <2>2. gl <= prog.stack /\ m <= prog.stack + 1
    BY <1>4, <2>1
  <2>3. kvtra' \in BOOLEAN /\ UNCHANGED traps /\ b \in Blocks \cup {trxdc}
    BY <1>1, <1>4
  <2> QED BY <1>4, <1>5, <1>6, <2>1, <2>2, <2>3, TypedCall
<1>12. Controlled'
  <2>1. Context(t, b, c, gl, m)
    BY <1>4, <1>6, SameContext
  <2>2. Context(stack', r_cod', cp', flptr', Len(stack'))
    BY <1>5, <1>6, <2>1, Zenon
  <2> QED BY <1>1, <2>2 DEF Controlled
<1>13. InStage'
  <2>1. stage \in {"xt", "ee"}
    BY <1>1 DEF Inv, InStage
  <2>2. ASSUME NEW i \in gl + 1 .. k, stack[i][1] = "off" PROVE ~Evaluated(stack, i)
    <3>1. i \in gl + 1 .. k - 1 \/ i = k
      BY <1>4
    <3> QED BY <1>4, <2>2, <3>1
  <2>3. flptr' \in Nat \ {0} /\ flptr' <= flptr /\ Same(stack, stack', flptr')
    BY <1>3, <1>4, <1>5, <1>6, <1>7
  <2>4. \A i \in flptr' + 1 .. flptr : stack[i][1] = "off" => ~Evaluated(stack, i)
    BY <1>3, <1>5, <2>2
  <2> QED BY <1>1, <2>1, <2>3, <2>4, StageBelow
<1>14. InTrap'
  <2>1. Lower(flptr, gl) = gl
    <3>1. flptr \in Nat \ {0} /\ gl \in Nat \ {0} /\ gl <= flptr
      BY <1>3, <1>4, <1>7
    <3> QED BY <3>1, LowerIs
  <2>2. \A i \in 1 .. gl : Kept(stack, t, i)
    BY <1>4, <1>7 DEF Kept, Same
  <2>3. InTrap /\ level \in Nat
    BY DEF Inv, Typed
  <2>4. UNCHANGED <<r_cnt, kvert>> /\ ctl' # "err07" /\ ctl \notin {"continue", "err07", "stop"}
    BY <1>1 DEF traps
  <2>5. flptr \in Nat \ {0} /\ flptr' \in Nat \ {0}
    BY <1>3, <1>4, <1>5, <1>7
  <2>6. \A i \in 1 .. Lower(flptr, flptr') : Kept(stack, stack', i)
    BY <1>5, <1>6, <2>1, <2>2
  <2> QED BY <2>3, <2>4, <2>5, <2>6, TrapStays
<1>15. InTrace'
  <2>1. PICK on, off, traced : on = TRUE /\ off = kvtra /\ traced = prog.trace
    OBVIOUS
  <2>2. TracesAre(stack, k, r_cod, off, traced)
    BY <1>3, <2>1 DEF Inv, InTrace
  <2>3. on /\ kvtra' = on /\ prog'.trace = traced
    BY <1>1, <2>1 DEF Ghost
  <2>4. /\ gl <= m /\ m <= k /\ gl < k /\ k <= Len(stack) /\ m = Len(t) /\ Same(stack, t, m)
        /\ k \in Nat \ {0} /\ gl \in Nat \ {0} /\ m \in Nat /\ Len(stack) \in Nat /\ Len(t) \in Nat
    BY <1>4, <1>6, <1>7
  <2>5. TracesAre(t, gl, b, on, traced)
    BY <1>4, <2>2, <2>3, <2>4, NoTraces, ZenonT(60)
  <2> QED BY <1>5, <1>6, <2>3, <2>5, Zenon DEF InTrace
<1>16. Chained(stack', flptr')
  BY <1>5, <1>6, <1>8
<1> QED BY <1>10, <1>11, <1>12, <1>13, <1>14, <1>15, <1>16 DEF Inv

-----------------------------------------------------------------------------
(***************************************************************************)
(* The theorems.                                                           *)
(***************************************************************************)

\* A program starts in its first statement, no call having been made.
LEMMA InitInv == Init => Inv
<1> SUFFICES ASSUME Init PROVE Inv
  OBVIOUS
<1>1. PICK w : w = Off(<<"cdfal">>)
  OBVIOUS
<1>2. w \in Words /\ w[1] = "off" /\ w[2] = <<"cdfal">>
  BY <1>1, WordsAre, WordParts, OffsetsAre
<1>3. stack = <<w>> /\ stack \in Seq(Words) /\ Len(stack) = 1 /\ stack[1] = w
  BY <1>1, <1>2 DEF Init
<1>4. /\ flptr = 1 /\ flprt = 0 /\ r_cod \in Simple /\ cp = Start("body") /\ ctl = "run" /\ stage = "xt"
      /\ kvfnc = 0 /\ kverl = prog.kverl /\ kvert = None /\ kvtra = prog.trace
      /\ r_sxc = None /\ r_cnt = NoError /\ level = 0 /\ prog \in Programs
  BY DEF Init
<1>5. r_cod \in Blocks /\ r_cod # trxdc /\ r_cod \in Stmts /\ r_cod \notin Complex
  BY <1>4, BlocksAre
<1>6. Typed
  <2>1. prog.stack \in Nat \ {0} /\ prog.kverl \in Nat /\ prog.trace \in BOOLEAN /\ Null \in prog.values
    BY <1>4, CallsAssumption
  <2>2. Null \in Values
    BY <1>4, <2>1 DEF Values
  <2>3. vars \in [Vars -> Values]
    BY <2>2 DEF Init
  <2>4. cp \in Places
    BY <1>4, PlaceStart
  <2>5. flptr <= prog.stack /\ Len(stack) <= prog.stack + 1
    BY <1>3, <1>4, <2>1
  <2> QED BY <1>3, <1>4, <1>5, <2>1, <2>3, <2>4, <2>5 DEF Typed
<1>7. 1 .. 1 = {1} /\ 1 \in 1 .. 1 /\ 1 \in Nat
  OBVIOUS
<1>8. ~(1 > 1)
  OBVIOUS
<1>9. Chained(stack, flptr)
  <2>1. Meets(stack, 1, stack[1][2])
    BY <1>2, <1>3, OffsetParts DEF Meets
  <2>2. Linked(stack, 1)
    BY <2>1 DEF Linked
  <2> QED BY <1>2, <1>3, <1>4, <1>7, <2>2 DEF Chained
<1>10. \A p \in 1 .. 1 : ~IsCall(stack, p)
  BY <1>7, <1>8 DEF IsCall
<1>11. Calling
  <2>1. CallsTo(stack, flptr) = {}
    BY <1>4, <1>10 DEF CallsTo
  <2>2. Cardinality(CallsTo(stack, flptr)) = 0
    BY <2>1, FS_EmptySet
  <2>3. prog.level \in Nat
    BY <1>4, CallsAssumption
  <2>4. LastCall(stack, flprt, flptr + 1)
    <3>1. 0 \in 0 .. 1 + 1 - 1 /\ 0 + 1 .. 1 + 1 - 1 = 1 .. 1
      OBVIOUS
    <3> QED BY <1>4, <1>10, <3>1 DEF LastCall
  <2>5. 0 <= prog.level
    BY <2>3
  <2> QED BY <1>4, <2>2, <2>4, <2>5 DEF Calling
<1>12. Controlled
  <2>1. FailOffset(r_cod) = <<"cdfal">>
    BY <1>5 DEF FailOffset
  <2>2. Clean(stack, 1, 1)
    <3>1. 1 + 1 .. 1 = {}
      OBVIOUS
    <3> QED BY <3>1 DEF Clean
  <2>3. stack[1] = Off(FailOffset(r_cod))
    BY <1>1, <1>3, <2>1
  <2>4. 1 \in Nat \ {0} /\ 1 <= 1
    OBVIOUS
  <2>5. Context(stack, r_cod, Start("body"), 1, 1)
    BY <1>5, <1>7, <2>2, <2>3, <2>4, ContextStart
  <2> QED BY <1>3, <1>4, <2>5 DEF Controlled
<1>13. InStage
  BY <1>4 DEF InStage
<1>14. InTrace
  <2>1. <<"zero">> # <<"cdfal">>
    OBVIOUS
  <2>2. ~IsTrace(stack, 1)
    BY <1>2, <1>3, <2>1, NotTrace
  <2>3. \A i \in 1 .. 1 : ~IsTrace(stack, i) /\ stack[i] # Blk(trxdc)
    BY <1>2, <1>3, <1>7, <2>2, NotBlock
  <2>4. 1 .. 1 - 1 = {}
    OBVIOUS
  <2>5. prog.trace \in BOOLEAN /\ kvtra = prog.trace
    BY <1>4, CallsAssumption
  <2> QED BY <1>3, <1>4, <1>5, <2>2, <2>3, <2>4, <2>5 DEF InTrace, TracesAre
<1>15. InTrap
  <2>1. None # "interrupt"
    BY DEF None
  <2> QED BY <1>4, <2>1 DEF InTrap
<1> QED BY <1>6, <1>9, <1>11, <1>12, <1>13, <1>14, <1>15 DEF Inv

\* Each operation keeps the invariant that adds nothing to faults.
LEMMA OperateKeeps ==
    ASSUME Inv, Ghost, UNCHANGED kvtra, faults' = {}, Operate PROVE Inv'
<1>1. CASE \E v \in prog.values : Operand(v)
  BY <1>1, OperandKeeps
<1>2. CASE \E v \in Vars : Assign(v)
  BY <1>2, AssignKeeps
<1>3. CASE \E b \in prog.traps \cup {None} : SetExit(b)
  BY <1>3, SetExitKeeps
<1>4. CASE OpenBracket
  BY <1>4, OpenBracketKeeps
<1>5. CASE NegateValue
  BY <1>5, NegateValueKeeps
<1>6. CASE Select
  BY <1>6, SelectKeeps
<1>7. CASE NegateFailure
  BY <1>7, NegateFailureKeeps
<1>8. CASE NextAlternative
  BY <1>8, NextAlternativeKeeps
<1>9. CASE LastAlternative
  BY <1>9, LastAlternativeKeeps
<1>10. CASE \E how \in {"RETURN", "FRETURN", "NRETURN"} : Return(how)
  BY <1>10, ReturnKeeps
<1>11. CASE \E outcome \in {"compiled", "error"} : Code(outcome)
  <2>1. PICK outcome \in {"compiled", "error"} : Code(outcome)
    BY <1>11
  <2> QED BY <2>1, CompileKeeps
<1>12. CASE \E outcome \in {"compiled", "error", "unconvertible"} : Convert(outcome)
  <2>1. PICK outcome \in {"compiled", "error", "unconvertible"} : Convert(outcome)
    BY <1>12
  <2> QED BY <2>1, CompileKeeps
<1>13. CASE EvalBad
  <2>1. PICK outcome \in {"compiled", "error", "unconvertible"} : outcome = "error"
    OBVIOUS
  <2> QED BY <1>13, <2>1, CompileKeeps
<1>14. CASE \E e \in prog.exprs, fresh \in BOOLEAN : Eval(e, fresh)
  BY <1>14, EvalKeeps
<1>15. CASE EvalValue
  BY <1>15, EvalValueKeeps
<1>16. CASE EvalFailure
  BY <1>16, EvalFailureKeeps
<1>17. CASE Fails \/ Errs \/ Undefined \/ Stop
  BY <1>17, FailKeeps
<1>18. CASE Exfal
  BY <1>18, ExfalKeeps
<1>19. CASE GotoTrap
  BY <1>19, GotoTrapKeeps
<1>20. CASE Error
  BY <1>20, ErrorKeeps
<1>21. CASE Err07
  BY <1>21, Err07Keeps
<1>22. CASE Continue
  BY <1>22, ContinueKeeps
<1>23. CASE SContinue
  BY <1>23, SContinueKeeps
<1>24. CASE \E b \in Stmts : Goto(b)
  BY <1>24, GotoKeeps
<1> QED BY <1>1, <1>2, <1>3, <1>4, <1>5, <1>6, <1>7, <1>8, <1>9, <1>10, <1>11, <1>12, <1>13, <1>14, <1>15, <1>16,
          <1>17, <1>18, <1>19, <1>20, <1>21, <1>22, <1>23, <1>24, Zenon DEF Operate, Work

\* What has happened has.
LEMMA FaultsStay == ASSUME [Next]_all PROVE faults \subseteq faults'
<1>1. CASE UNCHANGED all
  BY <1>1 DEF all
<1>2. CASE Next
  <2>1. Step
    BY <1>2 DEF Next
  <2>2. CASE Operate
    <3>1. CASE UNCHANGED faults
      BY <3>1
    <3>2. CASE \E how \in {"RETURN", "FRETURN", "NRETURN"} : Return(how)
      BY <3>2 DEF Return
    <3>3. CASE \E st, outcome : Compile(st, outcome)
      BY <3>3 DEF Compile, NotCompiled
    <3>4. CASE \/ \E outcome \in {"compiled", "error"} : Code(outcome)
               \/ \E outcome \in {"compiled", "error", "unconvertible"} : Convert(outcome)
               \/ EvalBad
      BY <3>3, <3>4 DEF Code, Convert, EvalBad
    <3>5. CASE Continue
      <4>1. CASE r_cnt = NoError
        BY <3>5, <4>1 DEF Continue
      <4>2. CASE r_cnt # NoError
        BY <3>5, <4>2 DEF Continue
      <4> QED BY <4>1, <4>2
    <3>6. CASE SContinue
      BY <3>6 DEF SContinue
    <3> QED BY <2>2, <3>1, <3>2, <3>4, <3>5, <3>6, Zenon DEF Operate
  <2>3. CASE \E f \in Functions, b \in Stmts, undefined \in BOOLEAN : Call(f, b, undefined)
    BY <2>3 DEF Call
  <2>4. CASE \E f \in Functions, b \in Stmts : Trace(f, b)
    BY <2>4 DEF Trace
  <2>5. CASE EndTrace
    BY <2>5 DEF EndTrace
  <2> QED BY <2>1, <2>2, <2>3, <2>4, <2>5, Zenon DEF Step
<1> QED BY <1>1, <1>2

\* So does every step that adds nothing to faults.
LEMMA NextKeeps == ASSUME Inv, Next, faults' = {} PROVE Inv'
<1>1. Ghost /\ Step
  BY DEF Next, Ghost
<1>2. CASE Operate /\ UNCHANGED kvtra
  BY <1>1, <1>2, OperateKeeps
<1>3. CASE \E f \in Functions, b \in Stmts, undefined \in BOOLEAN : Call(f, b, undefined)
  <2>1. PICK f \in Functions, b \in Stmts, undefined \in BOOLEAN : Call(f, b, undefined)
    BY <1>3
  <2>2. undefined = FALSE
    BY <2>1 DEF Call, Met
  <2> QED BY <1>1, <2>1, <2>2, CallKeeps
<1>4. CASE \E f \in Functions, b \in Stmts : Trace(f, b)
  BY <1>1, <1>4, TraceKeeps
<1>5. CASE EndTrace
  BY <1>1, <1>5, EndTraceKeeps
<1> QED BY <1>1, <1>2, <1>3, <1>4, <1>5, Zenon DEF Step

\* Nor does it change when nothing does.
LEMMA StutterKeeps == ASSUME Inv, UNCHANGED all PROVE Inv'
BY DEF all, regs, comp, traps, Inv, Typed, Calling, Controlled, AtInterrupt, AtError, Landed, AtBracket, InStage,
       Evaluates, InTrace, InTrap

\* The invariant until one of faults happens.
THEOREM Invariance == Spec => [](faults = {} => Inv)
<1>1. (faults = {} => Inv) /\ [Next]_all => (faults = {} => Inv)'
  <2> SUFFICES ASSUME faults = {} => Inv, [Next]_all, faults' = {} PROVE Inv'
    OBVIOUS
  <2>1. faults = {}
    BY FaultsStay
  <2> QED BY <2>1, NextKeeps, StutterKeeps
<1> QED BY <1>1, InitInv, PTL DEF Spec

\* What every state has then: words of their kinds on the stack, and control where the
\* code is.
LEMMA InvNotLost == (faults = {} => Inv) => NotLost
<1> SUFFICES ASSUME faults = {}, Inv PROVE ctl # "lost" /\ TypeOK
  BY DEF NotLost
<1>1. DOMAIN stack = 1 .. Len(stack)
  BY Basics
<1>2. \A p \in DOMAIN stack : stack[p][1] \in {"val", "adr", "off", "blk", "cp", "pf", "other"}
  BY <1>1, Basics, WordKinds
<1>3. flptr \in DOMAIN stack /\ flprt \in 0 .. flptr
  BY <1>1, Basics
<1>4. stage \in {"xt", "xc", "ev", "ee"}
  BY DEF Inv, InStage
<1>5. kvfnc \in 0 .. prog.level
  <2>1. PICK k \in Nat : k = Cardinality(CallsTo(stack, flptr))
    BY Basics, CallsFinite
  <2>2. kvfnc = k /\ kvfnc <= prog.level
    BY <2>1 DEF Inv, Calling
  <2>3. prog.level \in Nat
    BY CallsAssumption DEF Inv, Typed
  <2> QED BY <2>2, <2>3
<1>6. TypeOK
  BY <1>2, <1>3, <1>4, <1>5 DEF TypeOK, Inv, Typed
<1>7. ctl # "lost"
  BY DEF Inv, Controlled
<1> QED BY <1>6, <1>7

\* An error that is no compiler's is where stage says it is.
LEMMA InvStageTrue == Inv => StageTrue
<1> SUFFICES ASSUME Inv, ctl = "error", stage # "xt" PROVE Evaluating
  BY DEF StageTrue
<1>1. PICK p \in 1 .. flptr : Evaluates(p)
  BY DEF Inv, InStage
<1>2. stack[p][1] = "off" /\ stack[p - 2] = Adr(gtcef) /\ stack[p - 4] = Blk(r_gtc) /\ Evaluated(stack, p)
  BY <1>1 DEF Evaluates
<1>3. p > 6 /\ stack[p - 3][1] = "cp"
  BY <1>2 DEF Evaluated
<1>4. p \in DOMAIN stack
  BY Basics
<1>5. p > 5
  BY <1>3
<1> QED BY <1>2, <1>3, <1>4, <1>5 DEF Evaluating

\* The frame that trxdc is in is that of the function that traces.
LEMMA TraceBelow ==
    ASSUME Inv, NEW q \in 1 .. flptr, IsCall(stack, q), stack[q - 5] = Blk(trxdc)
    PROVE  \E p \in 1 .. flptr : IsTrace(stack, p)
<1>1. stack[q][1] = "off" /\ stack[q - 1][1] = "pf" /\ q > 1
  BY DEF IsCall
<1>2. Linked(stack, q)
  BY <1>1, Basics, ChainPop DEF Inv
<1>3. ~Bracketed(stack, q) /\ ~Traced(stack, q)
  BY <1>1 DEF Bracketed, Traced
<1>4. ~Evaluated(stack, q)
  BY <1>1, WordParts DEF Evaluated
<1>5. Called(stack, q)
  BY <1>1, <1>2, <1>3, <1>4 DEF Linked
<1>6. PICK f, fl, c, n : f = stack[q - 1][2] /\ fl = stack[q - 2][2] /\ c = stack[q - 4][2] /\ n = q - 8 - Size(f)
  OBVIOUS
<1>7. stack[q - 5][2] = trxdc
  BY WordParts
<1>8. Context(stack, trxdc, c, fl, n) /\ f \in Functions
  BY <1>5, <1>6, <1>7 DEF Called
<1>9. fl \in 1 .. n /\ c \in Places /\ Len(c.path) \in Nat
  BY <1>8, ContextTypes
<1>10. stack[fl] = Off(Awaited(trxdc, c)) /\ Len(c.path) = 1
  BY <1>8 DEF Context
<1>11. ~(Len(c.path) > 1)
  BY <1>10
<1>12. IsTrace(stack, fl)
  BY <1>10, <1>11 DEF Awaited, IsTrace
<1>13. fl \in 1 .. flptr
  <2>1. PICK z \in Nat : z = Size(f)
    BY <1>8, SizeIs
  <2>2. n = q - 8 - z
    BY <1>6, <2>1
  <2>3. flptr \in Nat /\ n \in Nat /\ fl \in Nat
    BY Basics, <1>8, ContextTypes
  <2> QED BY <1>9, <2>2, <2>3
<1> QED BY <1>12, <1>13

\* Tracing is off just while a function traces.
LEMMA InvInProgress == (faults = {} => Inv) => InProgress
<1> SUFFICES ASSUME Inv PROVE StageTrue /\ TraceTrue
  BY DEF InProgress
<1>1. StageTrue
  BY InvStageTrue
<1>2. /\ prog.trace /\ ~kvtra <=> \E p \in 1 .. flptr : IsTrace(stack, p)
      /\ IsTrace(stack, flptr) <=> r_cod = trxdc
      /\ \A p \in 1 .. flptr - 1 : IsTrace(stack, p) => \E q \in 1 .. flptr : TraceCall(stack, p, q)
      /\ \A i \in 1 .. Len(stack) : stack[i] = Blk(trxdc) => i + 5 <= flptr /\ IsCall(stack, i + 5)
  BY DEF Inv, InTrace, TracesAre
<1>3. DOMAIN stack = 1 .. Len(stack) /\ flptr \in Nat \ {0} /\ flptr <= Len(stack) /\ Len(stack) \in Nat
  BY Basics
<1>4. ASSUME NEW p \in 1 .. flptr, IsTrace(stack, p)
      PROVE  r_cod = trxdc \/ \E i \in DOMAIN stack : stack[i] = Blk(trxdc)
  <2>1. CASE p = flptr
    BY <1>2, <1>4, <2>1
  <2>2. CASE p # flptr
    <3>1. p \in 1 .. flptr - 1
      BY <1>3, <2>2
    <3>2. PICK q \in 1 .. flptr : TraceCall(stack, p, q)
      BY <1>2, <1>4, <3>1
    <3>3. p < q - 5 /\ stack[q - 5] = Blk(trxdc)
      BY <3>2 DEF TraceCall
    <3>4. q - 5 \in 1 .. Len(stack)
      BY <1>3, <3>3
    <3> QED BY <1>3, <3>3, <3>4
  <2> QED BY <2>1, <2>2
<1>5. ASSUME r_cod = trxdc PROVE \E p \in 1 .. flptr : IsTrace(stack, p)
  <2>1. flptr \in 1 .. flptr
    BY <1>3
  <2> QED BY <1>2, <1>5, <2>1
<1>6. ASSUME NEW i \in DOMAIN stack, stack[i] = Blk(trxdc) PROVE \E p \in 1 .. flptr : IsTrace(stack, p)
  <2>1. i \in 1 .. Len(stack)
    BY <1>3
  <2>2. i + 5 <= flptr /\ IsCall(stack, i + 5)
    BY <1>2, <1>6, <2>1
  <2>3. PICK q \in 1 .. flptr : q = i + 5
    BY <1>3, <2>1, <2>2
  <2>4. q - 5 = i
    BY <2>1, <2>3
  <2> QED BY <1>6, <2>2, <2>3, <2>4, TraceBelow
<1>7. prog.trace /\ ~kvtra <=> r_cod = trxdc \/ \E i \in DOMAIN stack : stack[i] = Blk(trxdc)
  BY <1>2, <1>4, <1>5, <1>6
<1> QED BY <1>1, <1>7 DEF TraceTrue

\* Until one of faults happens control never goes astray: a word that exfal, the error
\* section, retrn, evalx or CONTINUE takes for the one it left there is that one, however
\* deep the calls, evaluations, brackets and traces.
THEOREM NotLostHolds == Spec => []NotLost
BY Invariance, InvNotLost, PTL

\* Until one of faults happens, what trxeq and s_evl switch for the time of a call is so
\* just then, when that call ends by a failure, an error or a SETEXIT trap too.  The ways
\* in which stage and tracing outlast their use, "unconvertible", "body" and "trace", are
\* faults, and shown to do so by StageTrue and TraceTrue.
THEOREM InProgressHolds == Spec => []InProgress
BY Invariance, InvInProgress, PTL

\* Where the n outermost brackets of a place are.
Prefix(c, n) == [c EXCEPT !.path = SubSeq(@, 1, n)]

LEMMA PrefixPlace ==
    ASSUME NEW c \in Places, NEW n \in 1 .. Len(c.path)
    PROVE  /\ Prefix(c, n) \in Places /\ Len(Prefix(c, n).path) = n /\ Prefix(c, n).at = c.at
           /\ Count(Prefix(c, n)) = c.path[n] /\ c.path[n] \in Nat
           /\ n > 1 => Close(Prefix(c, n)) = Prefix(c, n - 1)
           /\ Prefix(c, Len(c.path)) = c
<1>1. PICK p, k : p = c.path /\ k = Len(p)
  OBVIOUS
<1>2. c = [at |-> c.at, path |-> p] /\ p \in Seq(Nat) /\ p # <<>> /\ c.at \in {"body", "goto", "trace"} /\ k \in Nat \ {0}
  BY <1>1 DEF Places
<1>3. \A m \in 1 .. k : Prefix(c, m) = [at |-> c.at, path |-> SubSeq(p, 1, m)]
  BY <1>1, PathSet DEF Prefix
<1>4. \A m \in 1 .. k : SubSeq(p, 1, m) \in Seq(Nat) /\ Len(SubSeq(p, 1, m)) = m
  BY <1>1, <1>2
<1>5. \A m \in 1 .. k : \A i \in 1 .. m : SubSeq(p, 1, m)[i] = p[i]
  BY <1>1, <1>2
<1>6. n \in 1 .. k /\ n \in Nat
  BY <1>1, <1>2
<1>7. PICK u \in Seq(Nat) : u = SubSeq(p, 1, n)
  BY <1>4, <1>6
<1>8. Len(u) = n /\ u[n] = p[n] /\ \A i \in 1 .. n : u[i] = p[i]
  BY <1>4, <1>5, <1>6, <1>7
<1>9. Prefix(c, n) = [at |-> c.at, path |-> u] /\ u # <<>>
  <2>1. Prefix(c, n) = [at |-> c.at, path |-> u]
    BY <1>3, <1>6, <1>7
  <2>2. Len(u) > 0
    BY <1>6, <1>8
  <2>3. u # <<>>
    BY <2>2
  <2> QED BY <2>1, <2>3
<1>10. Prefix(c, n) \in Places /\ Len(Prefix(c, n).path) = n /\ Prefix(c, n).at = c.at /\ Prefix(c, n).path = u
  BY <1>2, <1>8, <1>9 DEF Places
<1>11. Count(Prefix(c, n)) = c.path[n] /\ c.path[n] \in Nat
  BY <1>1, <1>2, <1>6, <1>8, <1>10 DEF Count
<1>12. ASSUME n > 1 PROVE Close(Prefix(c, n)) = Prefix(c, n - 1)
  <2>1. PICK m \in 1 .. k : m = n - 1
    BY <1>2, <1>6, <1>12
  <2>2. SubSeq(u, 1, m) = SubSeq(p, 1, m)
    <3>1. m \in Nat /\ m <= Len(u) /\ m <= Len(p) /\ \A i \in 1 .. m : u[i] = p[i]
      BY <1>1, <1>2, <1>6, <1>8, <2>1
    <3> QED BY <1>2, <3>1, SamePrefix
  <2>3. Front(u) = SubSeq(u, 1, m)
    BY <1>8, <2>1 DEF Front
  <2>4. Close(Prefix(c, n)) = [at |-> c.at, path |-> Front(u)]
    BY <1>10, PathSet DEF Close
  <2> QED BY <1>3, <2>1, <2>2, <2>3, <2>4
<1>13. Prefix(c, k) = c
  <2>1. SubSeq(p, 1, k) = p
    BY <1>1, <1>2
  <2>2. k \in 1 .. k
    BY <1>2
  <2> QED BY <1>2, <1>3, <2>1, <2>2
<1> QED BY <1>1, <1>10, <1>11, <1>12, <1>13

\* Below the failure offset of a bracket are what its place awaits outside the bracket,
\* and the operands before it.
LEMMA BracketBelow ==
    ASSUME Inv, NEW q \in 1 .. flptr, NEW c, NEW n, Context(stack, r_cod, c, q, n), Len(c.path) > 1
    PROVE  /\ stack[q - 1][2] \in 1 .. flptr
           /\ Context(stack, r_cod, Close(c), stack[q - 1][2], q - 2)
<1>1. stack[q] = Off(Awaited(r_cod, c))
  BY DEF Context
<1>2. Awaited(r_cod, c) = <<"bracket", r_cod, Close(c)>>
  BY DEF Awaited
<1>3. PICK o : o = <<"bracket", r_cod, Close(c)>>
  OBVIOUS
<1>4. o[1] = "bracket" /\ o[2] = r_cod /\ o[3] = Close(c)
  BY <1>3
<1>5. stack[q][1] = "off" /\ stack[q][2] = o
  BY <1>1, <1>2, <1>3, WordParts
<1>6. Meets(stack, q, o)
  BY <1>5, Basics, ChainPop DEF Inv
<1>7. Bracketed(stack, q) /\ Context(stack, r_cod, Close(c), stack[q - 1][2], q - 2)
  BY <1>4, <1>6 DEF Meets
<1>8. stack[q - 1][2] \in 1 .. q - 2 /\ q \in Nat
  BY <1>7, Basics DEF Bracketed
<1>9. PICK a : a = stack[q - 1][2]
  OBVIOUS
<1>10. a \in 1 .. flptr
  <2>1. flptr \in Nat
    BY Basics
  <2> QED BY <1>8, <1>9, <2>1
<1> QED BY <1>7, <1>9, <1>10

\* The brackets open at cp, from the innermost one out: the i-th of them is at g[i],
\* and its place goes on from there.
Reaches(g, i) ==
    /\ g[i] \in 1 .. flptr
    /\ Context(stack, r_cod, Prefix(cp, Len(cp.path) - i), g[i], IF i = 0 THEN Len(stack) ELSE g[i - 1] - 2)

LEMMA ReachesIs ==
    ASSUME Inv, ctl = "run", NEW g, g[0] = flptr, NEW k \in Nat, k = Len(cp.path) - 1,
           \A i \in 1 .. k : Reaches(g, i - 1) => g[i] = stack[g[i - 1] - 1][2]
    PROVE  \A i \in 0 .. k : Reaches(g, i)
<1>1. cp \in Places /\ Context(stack, r_cod, cp, flptr, Len(stack)) /\ flptr \in 1 .. flptr
  BY Basics DEF Inv, Controlled
<1>2. Reaches(g, 0)
  <2>1. Len(cp.path) \in Nat \ {0} /\ Len(cp.path) - 0 = Len(cp.path) /\ Len(cp.path) \in 1 .. Len(cp.path)
    BY <1>1, NoOperands
  <2>2. Prefix(cp, Len(cp.path) - 0) = cp
    BY <1>1, <2>1, PrefixPlace
  <2> QED BY <1>1, <2>2 DEF Reaches
<1>3. ASSUME NEW i \in 1 .. k, Reaches(g, i - 1) PROVE Reaches(g, i)
  <2>1. PICK q, n, j : q = g[i - 1] /\ n = (IF i - 1 = 0 THEN Len(stack) ELSE g[i - 1 - 1] - 2) /\ j = k + 1 - (i - 1)
    OBVIOUS
  <2>2. j \in 1 .. Len(cp.path) /\ j > 1 /\ Len(cp.path) - (i - 1) = j /\ Len(cp.path) - i = j - 1
    <3>1. Len(cp.path) = k + 1
      BY <1>1, NoOperands
    <3> QED BY <2>1, <3>1
  <2>3. q \in 1 .. flptr /\ Context(stack, r_cod, Prefix(cp, j), q, n)
    BY <1>3, <2>1, <2>2 DEF Reaches
  <2>4. Len(Prefix(cp, j).path) = j /\ Close(Prefix(cp, j)) = Prefix(cp, j - 1)
    BY <1>1, <2>2, PrefixPlace
  <2>5. Len(Prefix(cp, j).path) > 1
    BY <2>2, <2>4
  <2>6. /\ stack[q - 1][2] \in 1 .. flptr
        /\ Context(stack, r_cod, Close(Prefix(cp, j)), stack[q - 1][2], q - 2)
    BY <2>3, <2>5, BracketBelow
  <2>7. g[i] = stack[q - 1][2] /\ i # 0
    BY <1>3, <2>1
  <2>8. g[i] \in 1 .. flptr /\ Context(stack, r_cod, Prefix(cp, Len(cp.path) - i), g[i], g[i - 1] - 2)
    BY <2>1, <2>2, <2>4, <2>6, <2>7
  <2> QED BY <2>7, <2>8 DEF Reaches
<1>4. PICK h : h = [i \in 0 .. k |-> IF Reaches(g, i) THEN 1 ELSE 0]
  OBVIOUS
<1>5. \A i \in 0 .. k : h[i] \in {1} <=> Reaches(g, i)
  BY <1>4
<1>6. h[0] \in {1}
  BY <1>2, <1>5
<1>7. \A i \in 1 .. k : h[i - 1] \in {1} => h[i] \in {1}
  <2>1. \A i \in 1 .. k : i \in 0 .. k /\ i - 1 \in 0 .. k
    OBVIOUS
  <2> QED BY <1>3, <1>5, <2>1
<1>8. PICK S : S = {1}
  OBVIOUS
<1>9. h[0] \in S /\ \A i \in 1 .. k : h[i - 1] \in S => h[i] \in S
  BY <1>6, <1>7, <1>8
<1>10. \A i \in 0 .. k : h[i] \in S
  BY <1>9, Stays
<1> QED BY <1>5, <1>8, <1>10

\* Base is what its definition says.
IsBase(at) ==
    at = [n \in DOMAIN cp.path |-> IF n = Len(cp.path) THEN flptr ELSE stack[at[n + 1] - 1][2]]

LEMMA BaseIs == ASSUME Inv, ctl = "run" PROVE IsBase(Base(cp))
<1>1. PICK k \in Nat : k = Len(cp.path) - 1
  <2>1. Len(cp.path) \in Nat \ {0}
    BY Basics, NoOperands
  <2> QED BY <2>1
<1>2. Len(cp.path) = k + 1 /\ DOMAIN cp.path = 1 .. k + 1
  <2>1. cp.path \in Seq(Nat)
    BY Basics DEF Places
  <2> QED BY <1>1, <2>1
<1> DEFINE below(y) == IF stack[y - 1][2] \in Nat THEN stack[y - 1][2] ELSE 0
           f == [x \in Nat \X (1 .. k) |-> below(x[1])]
<1>3. IsStep(f, Nat, k)
  <2>1. \A y : below(y) \in Nat
    OBVIOUS
  <2> HIDE DEF below
  <2> QED BY <2>1 DEF IsStep
<1>4. \A y \in Nat, i \in 1 .. k : f[<<y, i>>] = below(y)
  <2> HIDE DEF below
  <2> QED OBVIOUS
<1>5. PICK g \in [0 .. k -> Nat] : Iterates(g, f, k, flptr)
  <2>1. flptr \in Nat
    BY Basics
  <2> HIDE DEF f, below
  <2> QED BY <1>3, <2>1, Iteration
<1>6. g[0] = flptr /\ \A i \in 1 .. k : g[i] = below(g[i - 1])
  <2> HIDE DEF f, below
  <2>1. g[0] = flptr /\ \A i \in 1 .. k : g[i] = f[<<g[i - 1], i>>]
    BY <1>5 DEF Iterates
  <2>2. ASSUME NEW i \in 1 .. k PROVE g[i] = below(g[i - 1])
    <3>1. i - 1 \in 0 .. k
      OBVIOUS
    <3>2. g[i - 1] \in Nat
      BY <1>5, <3>1
    <3> QED BY <1>4, <2>1, <3>2
  <2> QED BY <2>1, <2>2
<1>7. \A i \in 1 .. k : Reaches(g, i - 1) => g[i] = stack[g[i - 1] - 1][2]
  <2> HIDE DEF f
  <2> SUFFICES ASSUME NEW i \in 1 .. k, Reaches(g, i - 1) PROVE g[i] = stack[g[i - 1] - 1][2]
    OBVIOUS
  <2>1. PICK q, n, j : q = g[i - 1] /\ n = (IF i - 1 = 0 THEN Len(stack) ELSE g[i - 1 - 1] - 2) /\ j = k + 1 - (i - 1)
    OBVIOUS
  <2>2. j \in 1 .. Len(cp.path) /\ j > 1 /\ Len(cp.path) - (i - 1) = j
    BY <1>2, <2>1
  <2>3. q \in 1 .. flptr /\ Context(stack, r_cod, Prefix(cp, j), q, n)
    BY <2>1, <2>2 DEF Reaches
  <2>4. Len(Prefix(cp, j).path) = j
    BY Basics, <2>2, PrefixPlace
  <2>5. Len(Prefix(cp, j).path) > 1
    BY <2>2, <2>4
  <2>6. stack[q - 1][2] \in 1 .. flptr
    BY <2>3, <2>5, BracketBelow
  <2>7. stack[q - 1][2] \in Nat
    BY <2>6
  <2> QED BY <1>6, <2>1, <2>7
<1>8. \A i \in 0 .. k : Reaches(g, i)
  <2> HIDE DEF f, below
  <2> QED BY <1>1, <1>6, <1>7, ReachesIs
<1>9. \A i \in 1 .. k : g[i] = stack[g[i - 1] - 1][2]
  <2>1. \A i \in 1 .. k : i - 1 \in 0 .. k
    OBVIOUS
  <2> QED BY <1>7, <1>8, <2>1
<1> HIDE DEF f, below
<1>10. PICK at : at = [n \in 1 .. k + 1 |-> g[k + 1 - n]]
  OBVIOUS
<1>11. \A n \in 1 .. k + 1 : at[n] = IF n = k + 1 THEN flptr ELSE stack[at[n + 1] - 1][2]
  <2>1. ASSUME NEW n \in 1 .. k + 1, n = k + 1 PROVE at[n] = flptr
    <3>1. at[n] = g[k + 1 - n] /\ k + 1 - n = 0
      BY <1>10, <2>1
    <3> QED BY <1>6, <3>1
  <2>2. ASSUME NEW n \in 1 .. k + 1, n # k + 1 PROVE at[n] = stack[at[n + 1] - 1][2]
    <3>1. PICK m : m = k + 1 - n
      OBVIOUS
    <3>2. n + 1 \in 1 .. k + 1 /\ m \in 1 .. k /\ k + 1 - (n + 1) = m - 1 /\ k + 1 - n = m
      BY <2>2, <3>1
    <3>3. at[n] = g[m] /\ at[n + 1] = g[m - 1]
      BY <1>10, <3>2
    <3> QED BY <1>9, <3>2, <3>3
  <2> QED BY <2>1, <2>2
<1>12. IsBase(at)
  <2>1. at = [n \in 1 .. k + 1 |-> IF n = k + 1 THEN flptr ELSE stack[at[n + 1] - 1][2]]
    BY <1>10, <1>11
  <2> QED BY <1>2, <2>1 DEF IsBase
<1> DEFINE base == CHOOSE a : IsBase(a)
<1>13. IsBase(base)
  BY <1>12
<1>14. Base(cp) = base
  BY DEF Base, IsBase
<1> QED BY <1>13, <1>14

\* While a code word is executed, the failure offsets of its brackets are in place.
LEMMA InvFailuresReturn == (faults = {} => Inv) => FailuresReturn
<1> SUFFICES ASSUME Inv, ctl = "run" PROVE FailuresReturn
  BY DEF FailuresReturn
<1>1. PICK at : at = Base(cp)
  OBVIOUS
<1>2. IsBase(at)
  BY <1>1, BaseIs
<1>3. PICK k \in Nat : k = Len(cp.path) - 1
  <2>1. Len(cp.path) \in Nat \ {0}
    BY Basics, NoOperands
  <2> QED BY <2>1
<1>4. Len(cp.path) = k + 1 /\ DOMAIN cp.path = 1 .. k + 1
  <2>1. cp.path \in Seq(Nat)
    BY Basics DEF Places
  <2> QED BY <1>3, <2>1
<1>5. \A n \in 1 .. k + 1 : at[n] = IF n = k + 1 THEN flptr ELSE stack[at[n + 1] - 1][2]
  <2>1. at = [n \in 1 .. k + 1 |-> IF n = k + 1 THEN flptr ELSE stack[at[n + 1] - 1][2]]
    BY <1>2, <1>4 DEF IsBase
  <2> QED BY <2>1
<1>6. PICK g : g = [i \in 0 .. k |-> at[k + 1 - i]]
  OBVIOUS
<1>7. g[0] = flptr
  <2>1. k + 1 \in 1 .. k + 1 /\ 0 \in 0 .. k /\ k + 1 - 0 = k + 1
    OBVIOUS
  <2>2. g[0] = at[k + 1]
    BY <1>6, <2>1
  <2> QED BY <1>5, <2>1, <2>2
<1>8. ASSUME NEW i \in 1 .. k PROVE g[i] = stack[g[i - 1] - 1][2]
  <2>1. PICK n \in 1 .. k + 1 : n = k + 1 - i
    OBVIOUS
  <2>2. n # k + 1 /\ i \in 0 .. k /\ i - 1 \in 0 .. k /\ k + 1 - (i - 1) = n + 1
    BY <2>1
  <2>3. g[i] = at[n] /\ g[i - 1] = at[n + 1]
    BY <1>6, <2>1, <2>2
  <2> QED BY <1>5, <2>2, <2>3
<1>9. \A i \in 0 .. k : Reaches(g, i)
  BY <1>3, <1>7, <1>8, ReachesIs
<1> DEFINE top(n) == IF n = Len(cp.path) THEN Len(stack) ELSE at[n + 1] - 2
<1>10. ASSUME NEW n \in 1 .. k + 1
       PROVE  at[n] \in 1 .. flptr /\ Context(stack, r_cod, Prefix(cp, n), at[n], top(n))
  <2>1. PICK i \in 0 .. k : i = k + 1 - n
    OBVIOUS
  <2>2. g[i] = at[n] /\ Len(cp.path) - i = n
    <3>1. k + 1 - i = n
      BY <2>1
    <3> QED BY <1>4, <1>6, <3>1
  <2>3. at[n] \in 1 .. flptr /\ Context(stack, r_cod, Prefix(cp, n), at[n], IF i = 0 THEN Len(stack) ELSE g[i - 1] - 2)
    BY <1>9, <2>2 DEF Reaches
  <2>4. (IF i = 0 THEN Len(stack) ELSE g[i - 1] - 2) = top(n)
    <3>1. CASE i = 0
      <4>1. n = Len(cp.path)
        BY <1>4, <2>1, <3>1
      <4> QED BY <3>1, <4>1
    <3>2. CASE i # 0
      <4>1. n # Len(cp.path) /\ i - 1 \in 0 .. k /\ k + 1 - (i - 1) = n + 1
        BY <1>4, <2>1, <3>2
      <4>2. g[i - 1] = at[n + 1]
        BY <1>6, <4>1
      <4> QED BY <3>2, <4>1, <4>2
    <3> QED BY <3>1, <3>2
  <2> HIDE DEF top
  <2> QED BY <2>3, <2>4
<1> HIDE DEF top
<1>11. ASSUME NEW n \in 1 .. k + 1
       PROVE  /\ Offset(at[n]) = IF n = 1 THEN Outside
                                 ELSE <<"bracket", r_cod, [cp EXCEPT !.path = SubSeq(@, 1, n - 1)]>>
              /\ top(n) >= at[n] + cp.path[n]
              /\ \A i \in 1 .. cp.path[n] : stack[top(n) - i + 1][1] = "val"
  <2>1. PICK q, m, c, j : q = at[n] /\ m = top(n) /\ c = Prefix(cp, n) /\ j = cp.path[n]
    OBVIOUS
  <2>2. q \in 1 .. flptr /\ Context(stack, r_cod, c, q, m)
    BY <1>10, <2>1
  <2>3. /\ Len(c.path) = n /\ c.at = cp.at /\ Count(c) = j /\ j \in Nat
        /\ n > 1 => Close(c) = Prefix(cp, n - 1)
    BY <1>4, <2>1, Basics, PrefixPlace
  <2>4. stack[q] = Off(Awaited(r_cod, c)) /\ q + j <= m /\ q \in Nat /\ m \in Nat
        /\ \A i \in m - j + 1 .. m : stack[i][1] = "val"
    BY <2>2, <2>3 DEF Context
  <2>5. Awaited(r_cod, c) = IF n = 1 THEN Outside ELSE <<"bracket", r_cod, Prefix(cp, n - 1)>>
    <3>1. CASE n = 1
      <4>1. ~(Len(c.path) > 1)
        BY <2>3, <3>1
      <4> QED BY <2>3, <3>1, <4>1 DEF Awaited, Outside
    <3>2. CASE n # 1
      <4>1. Len(c.path) > 1 /\ n > 1
        BY <2>3, <3>2
      <4> QED BY <2>3, <3>2, <4>1 DEF Awaited
    <3> QED BY <3>1, <3>2
  <2>6. Offset(q) = Awaited(r_cod, c)
    <3>1. q \in DOMAIN stack
      BY <2>2, Basics
    <3>2. stack[q][1] = "off" /\ stack[q][2] = Awaited(r_cod, c)
      BY <2>4, WordParts
    <3> QED BY <3>1, <3>2 DEF Offset
  <2>7. ASSUME NEW i \in 1 .. j PROVE stack[m - i + 1][1] = "val"
    <3>1. m - i + 1 \in m - j + 1 .. m
      BY <2>3, <2>4
    <3> QED BY <2>4, <3>1
  <2>8. m >= q + j
    BY <2>3, <2>4
  <2> QED BY <2>1, <2>5, <2>6, <2>7, <2>8 DEF Prefix
<1> QED BY <1>1, <1>4, <1>11 DEF FailuresReturn, top

\* Until one of faults happens a failure has somewhere to go: of each bracket that is
\* open the failure offset is there, below it the operands before it, and outside them
\* the offset of the statement, failure goto, expression or trace (o_nta, o_sla, exfal).
THEOREM FailuresReturnHolds == Spec => []FailuresReturn
BY Invariance, InvFailuresReturn, PTL
=============================================================================
