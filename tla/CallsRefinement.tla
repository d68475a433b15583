---------------------------- MODULE CallsRefinement ----------------------------
(***************************************************************************)
(* That Calls implements CallStack until one of faults happens: the calls  *)
(* CallStack has on its list are the frames that flprt leads to (Lists),   *)
(* in their order.  Whatever is no call and no return leaves the words of  *)
(* those frames alone (OnTop); a call adds one frame, that keeps where the *)
(* call was and what the names it binds had (ActIs, BoundIs); a return     *)
(* takes the last one and gives those names what they had (ReturnAct).     *)
(***************************************************************************)
EXTENDS CallsProofs

-----------------------------------------------------------------------------
(***************************************************************************)
(* The calls that have not returned.                                       *)
(***************************************************************************)
\* What the frame of a call is for CallStack; and which call in order it is that has
\* its frame at p.
ActOf(fr) ==
    [to  |-> [blk |-> fr.r_cod, at |-> fr.cp.at, path |-> fr.cp.path],
     had |-> [v \in DOMAIN First[fr.f] |-> fr.had[First[fr.f][v]]]]
Rank(s, p) == Cardinality(CallsTo(s, p))

\* The frame of a call is one.
LEMMA CallIs == ASSUME Inv, NEW q \in 1 .. flptr, IsCall(stack, q) PROVE Called(stack, q)
<1>1. stack[q][1] = "off" /\ stack[q - 1][1] = "pf" /\ q > 1
  BY DEF IsCall
<1>2. Linked(stack, q)
  BY <1>1, Basics, ChainPop DEF Inv
<1>3. ~Bracketed(stack, q) /\ ~Traced(stack, q)
  BY <1>1 DEF Bracketed, Traced
<1>4. ~Evaluated(stack, q)
  BY <1>1, WordParts DEF Evaluated
<1> QED BY <1>1, <1>2, <1>3, <1>4 DEF Linked

\* A call comes after the last one before it.
LEMMA RankStep ==
    ASSUME NEW s, NEW q \in Nat \ {0}, IsCall(s, q), NEW r, LastCall(s, r, q)
    PROVE  r \in 0 .. q - 1 /\ (r # 0 => IsCall(s, r)) /\ Rank(s, r) \in Nat /\ Rank(s, q) = Rank(s, r) + 1
<1>1. r \in 0 .. q - 1 /\ (r # 0 => IsCall(s, r)) /\ \A i \in r + 1 .. q - 1 : ~IsCall(s, i)
  BY DEF LastCall
<1>2. CallsTo(s, q) = CallsTo(s, r) \cup {q} /\ q \notin CallsTo(s, r)
  <2>1. \A i \in 1 .. q : i = q \/ i \in 1 .. r \/ i \in r + 1 .. q - 1
    BY <1>1
  <2>2. \A i \in 1 .. r : i \in 1 .. q
    BY <1>1
  <2>3. q \in 1 .. q /\ q \notin 1 .. r
    BY <1>1
  <2>4. q \in CallsTo(s, q) /\ q \notin CallsTo(s, r) /\ CallsTo(s, r) \subseteq CallsTo(s, q)
    BY <2>2, <2>3 DEF CallsTo
  <2>5. \A i \in CallsTo(s, q) : i \in CallsTo(s, r) \cup {q}
    BY <1>1, <2>1 DEF CallsTo
  <2> QED BY <2>4, <2>5
<1>3. r \in Nat
  BY <1>1
<1>4. IsFiniteSet(CallsTo(s, r)) /\ Cardinality(CallsTo(s, r)) \in Nat
  BY <1>3, CallsFinite
<1>5. Cardinality(CallsTo(s, r) \cup {q}) = Cardinality(CallsTo(s, r)) + 1
  BY <1>2, <1>4, FS_AddElement
<1> QED BY <1>1, <1>2, <1>4, <1>5 DEF Rank

\* A later call comes later.
LEMMA RankOrder ==
    ASSUME NEW s, NEW p \in Nat, NEW q \in Nat, p < q, IsCall(s, q)
    PROVE  Rank(s, p) # Rank(s, q)
<1>1. CallsTo(s, p) \subseteq CallsTo(s, q)
  <2>1. \A i \in 1 .. p : i \in 1 .. q
    OBVIOUS
  <2> QED BY <2>1 DEF CallsTo
<1>2. q \in CallsTo(s, q) /\ q \notin CallsTo(s, p)
  <2>1. q \in 1 .. q /\ q \notin 1 .. p
    OBVIOUS
  <2> QED BY <2>1 DEF CallsTo
<1>3. IsFiniteSet(CallsTo(s, q))
  BY CallsFinite
<1>4. Cardinality(CallsTo(s, p)) = Cardinality(CallsTo(s, q)) => CallsTo(s, p) = CallsTo(s, q)
  BY <1>1, <1>3, FS_Subset
<1> QED BY <1>2, <1>4 DEF Rank

\* Two calls do not come at one place.
LEMMA RankUnique ==
    ASSUME NEW s, NEW p \in Nat, NEW q \in Nat, IsCall(s, p), IsCall(s, q), Rank(s, p) = Rank(s, q)
    PROVE  p = q
<1>1. ~(p < q)
  BY RankOrder
<1>2. ~(q < p)
  BY RankOrder
<1> QED BY <1>1, <1>2

\* flprt leads from each call to the one before it.
Stands(g, i) ==
    /\ g[i] \in 0 .. flprt /\ (g[i] # 0 => IsCall(stack, g[i]))
    /\ Rank(stack, g[i]) = kvfnc - i

\* How many there are, and where the last one is.
LEMMA CallCount ==
    ASSUME Inv
    PROVE  /\ kvfnc \in Nat /\ flprt \in 0 .. flptr /\ (flprt # 0 => IsCall(stack, flprt))
           /\ \A i \in flprt + 1 .. flptr : ~IsCall(stack, i)
           /\ CallsTo(stack, flprt) = CallsTo(stack, flptr) /\ Rank(stack, flprt) = kvfnc
<1>1. flptr \in Nat \ {0} /\ kvfnc = Cardinality(CallsTo(stack, flptr))
  BY Basics DEF Inv, Calling
<1>2. kvfnc \in Nat
  BY <1>1, CallsFinite
<1>3. /\ flprt \in 0 .. flptr /\ (flprt # 0 => IsCall(stack, flprt))
      /\ \A i \in flprt + 1 .. flptr : ~IsCall(stack, i)
  BY Basics, LastOf DEF Inv, Calling
<1>4. CallsTo(stack, flprt) = CallsTo(stack, flptr)
  <2>1. \A i \in 1 .. flptr : i \in 1 .. flprt \/ i \in flprt + 1 .. flptr
    BY <1>1, <1>3
  <2>2. \A i \in 1 .. flprt : i \in 1 .. flptr
    BY <1>1, <1>3
  <2> QED BY <1>3, <2>1, <2>2 DEF CallsTo
<1> QED BY <1>1, <1>2, <1>3, <1>4 DEF Rank

\* What a frame says of the call before it.
LEMMA CallBefore ==
    ASSUME Inv, NEW g, NEW i \in 1 .. kvfnc, Stands(g, i - 1)
    PROVE  LET r == stack[g[i - 1] - 3][2] IN
           r \in 0 .. flprt /\ (r # 0 => IsCall(stack, r)) /\ Rank(stack, r) = kvfnc - i
<1>1. PICK q, r : q = g[i - 1] /\ r = stack[q - 3][2]
  OBVIOUS
<1>2. kvfnc \in Nat /\ flprt \in 0 .. flptr /\ flptr \in Nat
  BY CallCount, Basics
<1>3. q \in 0 .. flprt /\ (q # 0 => IsCall(stack, q)) /\ Rank(stack, q) = kvfnc - (i - 1)
  BY <1>1 DEF Stands
<1>4. q # 0
  <2>1. Rank(stack, 0) = 0
    <3>1. CallsTo(stack, 0) = {}
      BY DEF CallsTo
    <3> QED BY <3>1, FS_EmptySet DEF Rank
  <2>2. kvfnc - (i - 1) # 0
    BY <1>2
  <2> QED BY <1>3, <2>1, <2>2
<1>5. q \in 1 .. flptr /\ q \in Nat \ {0} /\ IsCall(stack, q)
  BY <1>2, <1>3, <1>4
<1>6. LastCall(stack, r, q)
  BY <1>1, <1>5, CallIs DEF Called
<1>7. r \in 0 .. q - 1 /\ (r # 0 => IsCall(stack, r)) /\ Rank(stack, r) \in Nat /\ Rank(stack, q) = Rank(stack, r) + 1
  BY <1>5, <1>6, RankStep
<1>8. PICK m \in Nat : m = Rank(stack, r)
  BY <1>7
<1>9. m + 1 = kvfnc - (i - 1)
  BY <1>3, <1>7, <1>8, Zenon
<1>10. m = kvfnc - i
  BY <1>2, <1>9
<1>11. r \in 0 .. flprt
  BY <1>2, <1>3, <1>7
<1> QED BY <1>1, <1>7, <1>8, <1>10, <1>11

\* Going down from one frame to the one below, each is the frame of a call.
LEMMA StandsIs ==
    ASSUME Inv, NEW g, g[0] = flprt, \A i \in 1 .. kvfnc : Stands(g, i - 1) => g[i] = stack[g[i - 1] - 3][2]
    PROVE  \A i \in 0 .. kvfnc : Stands(g, i)
<1>1. kvfnc \in Nat /\ (flprt # 0 => IsCall(stack, flprt)) /\ Rank(stack, flprt) = kvfnc /\ flprt \in 0 .. flprt
  <2>1. flprt \in Nat
    BY Basics
  <2> QED BY <2>1, CallCount
<1>2. Stands(g, 0)
  <2>1. kvfnc - 0 = kvfnc
    BY <1>1
  <2> QED BY <1>1, <2>1 DEF Stands
<1>3. ASSUME NEW i \in 1 .. kvfnc, Stands(g, i - 1) PROVE Stands(g, i)
  <2>1. PICK r : r = stack[g[i - 1] - 3][2]
    OBVIOUS
  <2>2. r \in 0 .. flprt /\ (r # 0 => IsCall(stack, r)) /\ Rank(stack, r) = kvfnc - i
    BY <1>3, <2>1, CallBefore
  <2>3. g[i] = r
    BY <1>3, <2>1
  <2> QED BY <2>2, <2>3 DEF Stands
<1>4. PICK h : h = [i \in 0 .. kvfnc |-> IF Stands(g, i) THEN 1 ELSE 0]
  OBVIOUS
<1>5. \A i \in 0 .. kvfnc : h[i] \in {1} <=> Stands(g, i)
  BY <1>4
<1>6. h[0] \in {1}
  BY <1>1, <1>2, <1>5
<1>7. \A i \in 1 .. kvfnc : h[i - 1] \in {1} => h[i] \in {1}
  <2>1. \A i \in 1 .. kvfnc : i \in 0 .. kvfnc /\ i - 1 \in 0 .. kvfnc
    BY <1>1
  <2> QED BY <1>3, <1>5, <2>1
<1>8. PICK S, n : S = {1} /\ n = kvfnc /\ n \in Nat
  BY <1>1
<1>9. h[0] \in S /\ \A i \in 1 .. n : h[i - 1] \in S => h[i] \in S
  BY <1>6, <1>7, <1>8
<1>10. \A i \in 0 .. n : h[i] \in S
  BY <1>8, <1>9, Stays
<1> QED BY <1>5, <1>8, <1>10

\* Acts is what its definition says.
IsAt(at) == at = [k \in 0 .. kvfnc |-> IF k = 0 THEN flprt ELSE stack[at[k - 1] - 3][2]]

\* Acts has them in their order.
LEMMA AtIs ==
    ASSUME Inv
    PROVE  \E at : /\ \A k \in 0 .. kvfnc : Stands(at, k)
                   /\ Acts = [i \in 1 .. kvfnc |-> ActOf(Frame(at[kvfnc - i]))]
<1>1. PICK n \in Nat : n = kvfnc
  BY CallCount
<1>2. flprt \in Nat
  BY Basics
<1> DEFINE below(y) == IF stack[y - 3][2] \in Nat THEN stack[y - 3][2] ELSE 0
           f == [x \in Nat \X (1 .. n) |-> below(x[1])]
<1>3. IsStep(f, Nat, n)
  <2>1. \A y : below(y) \in Nat
    OBVIOUS
  <2> HIDE DEF below
  <2> QED BY <2>1 DEF IsStep
<1>4. \A y \in Nat, i \in 1 .. n : f[<<y, i>>] = below(y)
  <2> HIDE DEF below
  <2> QED OBVIOUS
<1>5. PICK g \in [0 .. n -> Nat] : Iterates(g, f, n, flprt)
  <2> HIDE DEF f, below
  <2> QED BY <1>2, <1>3, Iteration
<1>6. g[0] = flprt /\ \A i \in 1 .. n : g[i] = below(g[i - 1])
  <2> HIDE DEF f, below
  <2>1. g[0] = flprt /\ \A i \in 1 .. n : g[i] = f[<<g[i - 1], i>>]
    BY <1>5 DEF Iterates
  <2>2. ASSUME NEW i \in 1 .. n PROVE g[i] = below(g[i - 1])
    <3>1. i - 1 \in 0 .. n
      OBVIOUS
    <3>2. g[i - 1] \in Nat
      BY <1>5, <3>1
    <3> QED BY <1>4, <2>1, <3>2
  <2> QED BY <2>1, <2>2
<1>7. \A i \in 1 .. n : Stands(g, i - 1) => g[i] = stack[g[i - 1] - 3][2]
  <2> HIDE DEF f
  <2> SUFFICES ASSUME NEW i \in 1 .. n, Stands(g, i - 1) PROVE g[i] = stack[g[i - 1] - 3][2]
    OBVIOUS
  <2>1. stack[g[i - 1] - 3][2] \in 0 .. flprt
    BY <1>1, CallBefore
  <2>2. stack[g[i - 1] - 3][2] \in Nat
    BY <2>1
  <2> QED BY <1>6, <2>2
<1>8. \A i \in 0 .. n : Stands(g, i)
  <2> HIDE DEF f, below
  <2> QED BY <1>1, <1>6, <1>7, StandsIs
<1>9. \A i \in 1 .. n : g[i] = stack[g[i - 1] - 3][2]
  <2>1. \A i \in 1 .. n : i - 1 \in 0 .. n
    OBVIOUS
  <2> QED BY <1>7, <1>8, <2>1
<1> HIDE DEF f, below
<1>10. IsAt(g)
  <2>1. \A i \in 0 .. n : i # 0 => i \in 1 .. n
    OBVIOUS
  <2>2. \A i \in 0 .. n : g[i] = IF i = 0 THEN flprt ELSE stack[g[i - 1] - 3][2]
    BY <1>6, <1>9, <2>1
  <2>3. g = [k \in 0 .. n |-> IF k = 0 THEN flprt ELSE stack[g[k - 1] - 3][2]]
    BY <2>2
  <2> QED BY <1>1, <2>3 DEF IsAt
<1> DEFINE at == CHOOSE a : IsAt(a)
<1>11. IsAt(at)
  BY <1>10
<1>12. Acts = [i \in 1 .. kvfnc |-> ActOf(Frame(at[kvfnc - i]))]
  BY DEF Acts, ActOf, IsAt
<1> HIDE DEF at
<1>13. \A k \in 0 .. n : at[k] = IF k = 0 THEN flprt ELSE stack[at[k - 1] - 3][2]
  <2>1. at = [k \in 0 .. n |-> IF k = 0 THEN flprt ELSE stack[at[k - 1] - 3][2]]
    BY <1>1, <1>11 DEF IsAt
  <2> QED BY <2>1
<1>14. at[0] = flprt /\ \A k \in 1 .. n : at[k] = stack[at[k - 1] - 3][2]
  <2>1. 0 \in 0 .. n /\ \A k \in 1 .. n : k \in 0 .. n /\ k # 0
    OBVIOUS
  <2> QED BY <1>13, <2>1
<1>15. \A k \in 0 .. kvfnc : Stands(at, k)
  BY <1>1, <1>14, StandsIs
<1> QED BY <1>12, <1>15

\* Frame on a stack s.
FrameOf(s, p) ==
    LET f == s[p - 1][2]
        n == Len(Names[f]) - 1
        first == p - 7 - n
    IN  [base |-> first - 1, flptr |-> s[p - 2][2], flprt |-> s[p - 3][2],
         cp |-> s[p - 4][2], r_cod |-> s[p - 5][2], f |-> f,
         had |-> <<s[p - 6][2]>> \o [i \in 1 .. n |-> s[first + i - 1][2]]]

\* The k calls of a have the frames of calls up to m, in their order.
Lists(a, s, m, k) ==
    /\ k \in Nat /\ a = [i \in 1 .. k |-> a[i]]
    /\ \A p \in CallsTo(s, m) : Rank(s, p) \in 1 .. k /\ a[Rank(s, p)] = ActOf(FrameOf(s, p))
    /\ \A i \in 1 .. k : \E p \in CallsTo(s, m) : Rank(s, p) = i

\* So has Acts.
LEMMA ActsAre == Inv => Lists(Acts, stack, flprt, kvfnc)
<1> SUFFICES ASSUME Inv PROVE Lists(Acts, stack, flprt, kvfnc)
  OBVIOUS
<1>1. PICK at : /\ \A k \in 0 .. kvfnc : Stands(at, k)
                /\ Acts = [i \in 1 .. kvfnc |-> ActOf(Frame(at[kvfnc - i]))]
  BY AtIs
<1>2. kvfnc \in Nat /\ flprt \in 0 .. flptr /\ flptr \in Nat
  BY CallCount, Basics
<1>3. Acts = [i \in 1 .. kvfnc |-> Acts[i]] /\ \A i \in 1 .. kvfnc : Acts[i] = ActOf(Frame(at[kvfnc - i]))
  BY <1>1
<1>4. ASSUME NEW i \in 1 .. kvfnc
      PROVE  at[kvfnc - i] \in CallsTo(stack, flptr) /\ Rank(stack, at[kvfnc - i]) = i
  <2>1. PICK k, q : k = kvfnc - i /\ q = at[k] /\ k \in 0 .. kvfnc
    <3>1. kvfnc - i \in 0 .. kvfnc
      BY <1>2
    <3> QED BY <3>1
  <2>2. q \in 0 .. flprt /\ (q # 0 => IsCall(stack, q)) /\ Rank(stack, q) = kvfnc - k
    BY <1>1, <2>1 DEF Stands
  <2>3. kvfnc - k = i
    BY <1>2, <2>1
  <2>4. q # 0
    <3>1. CallsTo(stack, 0) = {}
      BY DEF CallsTo
    <3>2. Rank(stack, 0) = 0
      BY <3>1, FS_EmptySet DEF Rank
    <3> QED BY <2>2, <2>3, <3>2
  <2>5. q \in 1 .. flptr
    BY <1>2, <2>2, <2>4
  <2> QED BY <2>1, <2>2, <2>3, <2>4, <2>5 DEF CallsTo
<1>5. ASSUME NEW p \in CallsTo(stack, flptr)
      PROVE  Rank(stack, p) \in 1 .. kvfnc /\ Acts[Rank(stack, p)] = ActOf(Frame(p))
  <2>1. p \in 1 .. flptr /\ IsCall(stack, p) /\ p \in Nat
    BY <1>2 DEF CallsTo
  <2>2. PICK i \in Nat : i = Rank(stack, p)
    BY <2>1, CallsFinite DEF Rank
  <2>3. i <= kvfnc
    <3>1. CallsTo(stack, p) \subseteq CallsTo(stack, flptr)
      <4>1. \A j \in 1 .. p : j \in 1 .. flptr
        BY <1>2, <2>1
      <4> QED BY <4>1 DEF CallsTo
    <3>2. IsFiniteSet(CallsTo(stack, flptr))
      BY <1>2, CallsFinite
    <3>3. Cardinality(CallsTo(stack, p)) <= Cardinality(CallsTo(stack, flptr))
      BY <3>1, <3>2, FS_Subset
    <3> QED BY <2>2, <3>3 DEF Rank, Inv, Calling
  <2>4. i # 0
    <3>1. CallsTo(stack, 0) = {}
      BY DEF CallsTo
    <3>2. Rank(stack, 0) = 0
      BY <3>1, FS_EmptySet DEF Rank
    <3>3. 0 < p /\ p \in Nat
      BY <2>1
    <3> QED BY <2>1, <2>2, <3>2, <3>3, RankOrder
  <2>5. i \in 1 .. kvfnc
    BY <1>2, <2>3, <2>4
  <2>6. PICK q : q = at[kvfnc - i]
    OBVIOUS
  <2>7. q \in CallsTo(stack, flptr) /\ Rank(stack, q) = i
    BY <1>4, <2>5, <2>6
  <2>8. q \in Nat /\ IsCall(stack, q)
    BY <2>7 DEF CallsTo
  <2>9. p = q
    BY <2>1, <2>2, <2>7, <2>8, RankUnique
  <2> QED BY <1>3, <2>2, <2>5, <2>6, <2>9
<1>6. \A p : Frame(p) = FrameOf(stack, p)
  BY DEF Frame, FrameOf
<1>7. CallsTo(stack, flprt) = CallsTo(stack, flptr)
  BY CallCount
<1>8. \A p \in CallsTo(stack, flprt) : Rank(stack, p) \in 1 .. kvfnc /\ Acts[Rank(stack, p)] = ActOf(FrameOf(stack, p))
  BY <1>5, <1>6, <1>7, Zenon
<1>9. \A i \in 1 .. kvfnc : \E p \in CallsTo(stack, flprt) : Rank(stack, p) = i
  BY <1>4, <1>7, Zenon
<1> QED BY <1>2, <1>3, <1>8, <1>9 DEF Lists

\* What they are in a state.
ActsListed == Lists(Acts, stack, flprt, kvfnc)

\* And in the next state.
LEMMA ActsAreNext == Inv' => Lists(Acts', stack', flprt', kvfnc')
<1>1. Inv => ActsListed
  BY ActsAre DEF ActsListed
<1>2. Inv' => ActsListed'
  BY <1>1, PTL
<1> QED BY <1>2 DEF ActsListed

-----------------------------------------------------------------------------
(***************************************************************************)
(* Steps that call nothing and return from nothing.                        *)
(***************************************************************************)
\* What a frame says is in the words below its end.
LEMMA FrameSame ==
    ASSUME NEW s, NEW t, NEW p \in Nat, Called(s, p), Same(s, t, p - 1)
    PROVE  FrameOf(t, p) = FrameOf(s, p)
<1>1. PICK f \in Functions, n \in Nat : f = s[p - 1][2] /\ n = Len(Names[f]) - 1 /\ n < p - 8
  <2>1. s[p - 1][2] \in Functions /\ Size(s[p - 1][2]) < p - 8
    BY DEF Called
  <2>2. Size(s[p - 1][2]) \in Nat
    BY <2>1, SizeIs
  <2> QED BY <2>1, <2>2 DEF Size
<1>2. p > 8
  BY DEF Called
<1>3. t[p - 1] = s[p - 1] /\ t[p - 2] = s[p - 2] /\ t[p - 3] = s[p - 3] /\ t[p - 4] = s[p - 4] /\ t[p - 5] = s[p - 5]
      /\ t[p - 6] = s[p - 6]
  <2>1. p - 1 \in 1 .. p - 1 /\ p - 2 \in 1 .. p - 1 /\ p - 3 \in 1 .. p - 1 /\ p - 4 \in 1 .. p - 1 /\ p - 5 \in 1 .. p - 1
        /\ p - 6 \in 1 .. p - 1
    BY <1>2
  <2> QED BY <2>1 DEF Same
<1>4. \A i \in 1 .. n : t[p - 7 - n + i - 1][2] = s[p - 7 - n + i - 1][2]
  <2>1. \A i \in 1 .. n : p - 7 - n + i - 1 \in 1 .. p - 1
    BY <1>1, <1>2
  <2> QED BY <2>1 DEF Same
<1>5. [i \in 1 .. n |-> t[p - 7 - n + i - 1][2]] = [i \in 1 .. n |-> s[p - 7 - n + i - 1][2]]
  BY <1>4
<1> QED BY <1>1, <1>3, <1>5, Zenon DEF FrameOf

\* The calls are listed by what is below the end of the last one.
LEMMA ListsSame ==
    ASSUME NEW s, NEW t, NEW m \in Nat, NEW k, NEW a, NEW b, Lists(a, s, m, k), Lists(b, t, m, k),
           Same(s, t, m - 1), m # 0 => IsCall(s, m) /\ IsCall(t, m), \A p \in CallsTo(s, m) : Called(s, p)
    PROVE  a = b
<1>1. \A i \in 1 .. m : IsCall(s, i) <=> IsCall(t, i)
  <2>1. CASE m = 0
    BY <2>1
  <2>2. CASE m # 0
    <3>1. m - 1 \in Nat
      BY <2>2
    <3>2. \A i \in 1 .. m - 1 : IsCall(s, i) <=> IsCall(t, i)
      BY <3>1, SameCalls
    <3>3. \A i \in 1 .. m : i = m \/ i \in 1 .. m - 1
      OBVIOUS
    <3> QED BY <2>2, <3>2, <3>3
  <2> QED BY <2>1, <2>2
<1>2. \A p \in 0 .. m : CallsTo(s, p) = CallsTo(t, p)
  <2> SUFFICES ASSUME NEW p \in 0 .. m PROVE CallsTo(s, p) = CallsTo(t, p)
    OBVIOUS
  <2>1. \A i \in 1 .. p : i \in 1 .. m
    OBVIOUS
  <2> QED BY <1>1, <2>1 DEF CallsTo
<1>3. ASSUME NEW i \in 1 .. k PROVE a[i] = b[i]
  <2>1. PICK p \in CallsTo(s, m) : Rank(s, p) = i
    BY DEF Lists
  <2>2. p \in 0 .. m /\ p \in CallsTo(t, m) /\ p \in Nat
    <3>1. p \in 1 .. m
      BY DEF CallsTo
    <3>2. m \in 0 .. m
      OBVIOUS
    <3> QED BY <1>2, <3>1, <3>2
  <2>3. Rank(t, p) = i
    BY <1>2, <2>1, <2>2 DEF Rank
  <2>4. a[i] = ActOf(FrameOf(s, p)) /\ b[i] = ActOf(FrameOf(t, p))
    BY <2>1, <2>2, <2>3 DEF Lists
  <2>5. Same(s, t, p - 1)
    <3>1. \A j \in 1 .. p - 1 : j \in 1 .. m - 1
      BY <2>2
    <3> QED BY <3>1 DEF Same
  <2>6. FrameOf(t, p) = FrameOf(s, p)
    BY <2>1, <2>2, <2>5, FrameSame
  <2> QED BY <2>4, <2>6
<1>4. a = [i \in 1 .. k |-> a[i]] /\ b = [i \in 1 .. k |-> b[i]]
  BY DEF Lists
<1>5. [i \in 1 .. k |-> a[i]] = [i \in 1 .. k |-> b[i]]
  BY <1>3
<1> QED BY <1>4, <1>5

\* Calls on the stack, in this state and in the next one.
Counted(s, fl, m, k) ==
    /\ k \in Nat /\ fl \in Nat /\ m \in 0 .. fl /\ (m # 0 => IsCall(s, m)) /\ fl <= Len(s) /\ Len(s) \in Nat
    /\ s \in Seq(Words)
    /\ \A i \in m + 1 .. fl : ~IsCall(s, i)
    /\ CallsTo(s, m) = CallsTo(s, fl) /\ Rank(s, m) = k
    /\ \A p \in CallsTo(s, fl) : Called(s, p)

\* They are, in every state.
LEMMA CountedIs == Inv => Counted(stack, flptr, flprt, kvfnc)
<1> SUFFICES ASSUME Inv PROVE Counted(stack, flptr, flprt, kvfnc)
  OBVIOUS
<1>1. \A p \in CallsTo(stack, flptr) : Called(stack, p)
  BY CallIs DEF CallsTo
<1>2. flptr \in Nat /\ flptr <= Len(stack) /\ Len(stack) \in Nat /\ stack \in Seq(Words)
  BY Basics
<1> QED BY <1>1, <1>2, CallCount DEF Counted

\* What they are in a state.
CallsCounted == Counted(stack, flptr, flprt, kvfnc)

\* And in the next one.
LEMMA CountedNext == Inv' => Counted(stack', flptr', flprt', kvfnc')
<1>1. Inv => CallsCounted
  BY CountedIs DEF CallsCounted
<1>2. Inv' => CallsCounted'
  BY <1>1, PTL
<1> QED BY <1>2 DEF CallsCounted

\* The calls are the same ones when no word of their frames changes.
LEMMA ActsStay ==
    ASSUME Inv, Inv', UNCHANGED <<flprt, kvfnc>>, Same(stack, stack', flprt - 1)
    PROVE  Acts' = Acts
<1>1. PICK s, t, m, k, a, b : s = stack /\ t = stack' /\ m = flprt /\ k = kvfnc /\ a = Acts /\ b = Acts'
  OBVIOUS
<1>2. Lists(a, s, m, k) /\ Lists(b, t, m, k)
  <2>1. Lists(Acts, stack, flprt, kvfnc) /\ Lists(Acts', stack', flprt', kvfnc')
    BY ActsAre, ActsAreNext
  <2> QED BY <1>1, <2>1
<1>3. m \in Nat /\ (m # 0 => IsCall(s, m) /\ IsCall(t, m)) /\ \A p \in CallsTo(s, m) : Called(s, p)
  <2>1. Counted(stack, flptr, flprt, kvfnc) /\ Counted(stack', flptr', flprt', kvfnc')
    BY CountedIs, CountedNext
  <2>2. PICK fl, gl : Counted(s, fl, m, k) /\ Counted(t, gl, m, k)
    BY <1>1, <2>1
  <2> QED BY <2>2 DEF Counted
<1>4. Same(s, t, m - 1)
  BY <1>1
<1> QED BY <1>1, <1>2, <1>3, <1>4, ListsSame

\* What is left of a stack s at the bottom of t, m being the end of the last frame.
OnTop(s, t, m) == \E k \in Nat : Same(s, t, k) /\ (m <= k + 1 \/ Len(t) <= k + 1)

\* The frames of calls are left alone, and the program works.
LEMMA OnTopWorks ==
    ASSUME Inv, Inv', UNCHANGED <<flprt, kvfnc>>, OnTop(stack, stack', flprt)
    PROVE  Abstract!Work
<1>0. PICK t, m : t = stack' /\ m = flprt /\ m \in Nat
  <2>1. flprt \in Nat
    BY Basics
  <2> QED BY <2>1
<1>1. PICK k \in Nat : t = stack' /\ m = flprt /\ m \in Nat /\ Same(stack, t, k) /\ (m <= k + 1 \/ Len(t) <= k + 1)
  BY <1>0 DEF OnTop
<1>2. m <= Len(t) /\ Len(t) \in Nat
  <2>1. Counted(stack', flptr', flprt', kvfnc') /\ flprt' = m
    BY <1>1, CountedNext
  <2>2. PICK fl : Counted(t, fl, m, kvfnc')
    BY <1>1, <2>1
  <2> QED BY <2>2 DEF Counted
<1>3. m - 1 <= k
  BY <1>1, <1>2
<1>4. Same(stack, stack', flprt - 1)
  <2>1. \A i \in 1 .. m - 1 : i \in 1 .. k
    BY <1>1, <1>3
  <2> QED BY <1>1, <2>1 DEF Same
<1>5. Acts' = Acts
  BY <1>4, ActsStay
<1>6. vars' \in [Vars -> Values]
  BY DEF Inv, Typed
<1> QED BY <1>5, <1>6 DEF Abstract!Work

\* One thing more, whatever it is.
LEMMA AppendAny ==
    ASSUME NEW s \in Seq(Words), NEW w
    PROVE  Len(s) \in Nat /\ Len(Append(s, w)) = Len(s) + 1 /\ Same(s, Append(s, w), Len(s))
<1>1. PICK S : S = Words \cup {w}
  OBVIOUS
<1>2. s \in Seq(S) /\ w \in S
  BY <1>1
<1>3. Len(s) \in Nat /\ Len(Append(s, w)) = Len(s) + 1 /\ \A i \in 1 .. Len(s) : Append(s, w)[i] = s[i]
  BY <1>2
<1> QED BY <1>3 DEF Same

\* The stack is cut at an address, whatever it is.
LEMMA CutAny ==
    ASSUME stack \in Seq(Words), NEW a \in Int
    PROVE  /\ Cut(a) \in Seq(Words) /\ Len(Cut(a)) \in Nat /\ Len(Cut(a)) <= Len(stack)
           /\ Same(stack, Cut(a), Len(Cut(a)))
<1>1. PICK n \in Nat : n = Len(stack)
  OBVIOUS
<1>2. CASE a < 1
  <2>1. Cut(a) = SubSeq(stack, 1, a)
    <3>1. a < n \/ a = n
      BY <1>2
    <3> QED BY <1>1, <3>1 DEF Cut
  <2>2. SubSeq(stack, 1, a) = <<>>
    BY <1>2
  <2>3. <<>> \in Seq(Words) /\ Len(<<>>) = 0 /\ 1 .. 0 = {}
    OBVIOUS
  <2>4. PICK e : e = Cut(a) /\ e = <<>>
    BY <2>1, <2>2
  <2>5. e \in Seq(Words) /\ Len(e) = 0 /\ Same(stack, e, 0)
    BY <2>3, <2>4 DEF Same
  <2> QED BY <1>1, <2>4, <2>5
<1>3. CASE a >= 1
  <2>1. PICK b \in Nat : b <= n /\ Cut(a) = SubSeq(stack, 1, b)
    <3>1. CASE a < n
      <4>1. a \in Nat /\ a <= n
        BY <1>3, <3>1
      <4> QED BY <1>1, <3>1, <4>1 DEF Cut
    <3>2. CASE ~(a < n)
      BY <1>1, <3>2 DEF Cut
    <3> QED BY <3>1, <3>2
  <2> QED BY <1>1, <2>1, PrefixIs
<1> QED BY <1>2, <1>3

\* The ways the stack changes: not at all.
LEMMA OnTopSame == ASSUME Inv, UNCHANGED stack PROVE OnTop(stack, stack', flprt)
<1>1. PICK m \in Nat : m = flprt
  BY Basics
<1>2. Same(stack, stack', m) /\ m <= m + 1
  BY <1>1 DEF Same
<1> QED BY <1>1, <1>2 DEF OnTop

\* The words below k are the same, and flptr is not above them.
LEMMA OnTopUp ==
    ASSUME Inv, NEW t, t = stack', NEW k \in Nat, flptr <= k + 1, Same(stack, t, k)
    PROVE  OnTop(stack, stack', flprt)
<1>1. flprt <= k + 1
  BY Basics
<1> QED BY <1>1 DEF OnTop

\* A word is stacked.
LEMMA OnTopAppend == ASSUME Inv, NEW w, stack' = Append(stack, w) PROVE OnTop(stack, stack', flprt)
<1>0. PICK k \in Nat : k = Len(stack) /\ flptr <= k + 1 /\ stack \in Seq(Words)
  BY Basics
<1>1. PICK t : k = Len(stack) /\ t = stack' /\ t = Append(stack, w) /\ flptr <= k + 1 /\ stack \in Seq(Words)
  BY <1>0
<1>2. Same(stack, t, k)
  BY <1>1, AppendAny
<1> QED BY <1>1, <1>2, OnTopUp

\* The stack is popped.
LEMMA OnTopCut == ASSUME Inv, NEW a \in Int, stack' = Cut(a) PROVE OnTop(stack, stack', flprt)
<1>1. PICK t : t = stack' /\ t = Cut(a)
  OBVIOUS
<1>2. Len(t) \in Nat /\ Same(stack, t, Len(t))
  BY <1>1, Basics, CutAny
<1>3. Len(t) <= Len(t) + 1
  BY <1>2
<1> QED BY <1>1, <1>2, <1>3 DEF OnTop

\* The stack is popped and a word stacked.
LEMMA OnTopCutAppend ==
    ASSUME Inv, NEW a \in Int, NEW w, stack' = Append(Cut(a), w)
    PROVE  OnTop(stack, stack', flprt)
<1>1. PICK t, s : t = stack' /\ t = Append(s, w) /\ s = Cut(a)
  OBVIOUS
<1>2. s \in Seq(Words) /\ Len(s) \in Nat /\ Same(stack, s, Len(s))
  BY <1>1, Basics, CutAny
<1>3. PICK k \in Nat : k = Len(s)
  BY <1>2
<1>4. Len(t) = k + 1 /\ Same(s, t, k)
  BY <1>1, <1>2, <1>3, AppendAny
<1>5. Same(stack, t, k)
  BY <1>2, <1>3, <1>4 DEF Same
<1>6. Len(t) <= k + 1
  BY <1>4
<1> QED BY <1>1, <1>3, <1>5, <1>6 DEF OnTop

\* A word from flptr on is changed.
LEMMA OnTopExcept ==
    ASSUME Inv, NEW j \in flptr .. Len(stack), NEW w, stack' = [stack EXCEPT ![j] = w]
    PROVE  OnTop(stack, stack', flprt)
<1>1. PICK t : t = stack' /\ t = [stack EXCEPT ![j] = w]
  OBVIOUS
<1>2. flptr \in Nat \ {0} /\ Len(stack) \in Nat /\ stack \in Seq(Words)
  BY Basics
<1>3. PICK k \in Nat : k = j - 1
  BY <1>2
<1>4. DOMAIN stack = 1 .. Len(stack)
  BY <1>2
<1>5. \A i \in 1 .. k : i \in 1 .. Len(stack) /\ i # j
  BY <1>2, <1>3
<1>6. \A i \in 1 .. k : t[i] = stack[i]
  BY <1>1, <1>4, <1>5
<1>7. flptr <= k + 1
  BY <1>2, <1>3
<1> QED BY <1>1, <1>6, <1>7, OnTopUp DEF Same

\* A statement is entered where flptr is.
LEMMA OnTopEnter ==
    ASSUME Inv, NEW b \in Stmts, NEW s \in Seq(Words), flptr <= Len(s), Same(stack, s, flptr), Enter(b, s, flptr)
    PROVE  OnTop(stack, stack', flprt)
<1>1. flptr \in Nat \ {0}
  BY Basics
<1>2. PICK t : t = stack'
  OBVIOUS
<1>3. Same(s, t, flptr - 1)
  BY <1>1, <1>2, EnterIs
<1>4. PICK k \in Nat : k = flptr - 1
  BY <1>1
<1>5. Same(stack, t, k) /\ flptr <= k + 1
  <2>1. \A i \in 1 .. k : i \in 1 .. flptr
    BY <1>1, <1>4
  <2>2. flptr <= k + 1
    BY <1>1, <1>4
  <2> QED BY <1>3, <1>4, <2>1, <2>2 DEF Same
<1> QED BY <1>2, <1>5, OnTopUp

\* Each operation that is no call and no return.
LEMMA IdleWorks ==
    ASSUME Inv, Inv', UNCHANGED <<stack, flprt, kvfnc>>
    PROVE  Abstract!Work
<1>1. UNCHANGED stack /\ UNCHANGED <<flprt, kvfnc>>
  OBVIOUS
<1>2. OnTop(stack, stack', flprt)
  BY <1>1, OnTopSame
<1> QED BY <1>1, <1>2, OnTopWorks

\* An operand, a bracket and its end.
LEMMA OperandWorks ==
    ASSUME Inv, Inv', \/ \E v \in prog.values : Operand(v)
                      \/ OpenBracket \/ NegateValue \/ Select
                      \/ NegateFailure \/ NextAlternative \/ LastAlternative
    PROVE  Abstract!Work
<1>0. Len(stack) \in Nat /\ flptr \in 1 .. Len(stack) /\ stack \in Seq(Words) /\ flptr \in Nat
  BY Basics
<1>1. CASE \E v \in prog.values : Operand(v)
  <2>1. PICK w : stack' = Append(stack, w) /\ UNCHANGED <<flprt, kvfnc>>
    BY <1>1 DEF Operand
  <2> QED BY <2>1, OnTopAppend, OnTopWorks
<1>2. CASE OpenBracket
  <2>1. PICK x, y : stack' = stack \o <<x, y>> /\ UNCHANGED <<flprt, kvfnc>>
    BY <1>2 DEF OpenBracket
  <2>2. PICK S : S = Words \cup {x, y}
    OBVIOUS
  <2>3. stack \in Seq(S) /\ x \in S /\ y \in S
    BY <1>0, <2>2
  <2>4. PICK u \in Seq(S) : u = <<x, y>>
    <3>1. <<x, y>> \in Seq(S)
      BY <2>3
    <3> QED BY <3>1
  <2>a. PICK k \in Nat : k = Len(stack)
    BY <1>0
  <2>5. PICK t : k = Len(stack) /\ t = stack' /\ t = stack \o u
    BY <2>1, <2>4, <2>a
  <2>6. \A i \in 1 .. k : (stack \o u)[i] = stack[i]
    BY <2>3, <2>5
  <2>7. Same(stack, t, k) /\ flptr <= k + 1
    BY <1>0, <2>5, <2>6 DEF Same
  <2> QED BY <2>1, <2>5, <2>7, OnTopUp, OnTopWorks
<1>3. CASE NegateValue
  <2>1. UNCHANGED <<stack, flprt, kvfnc>>
    BY <1>3 DEF NegateValue
  <2> QED BY <2>1, IdleWorks
<1>4. CASE Select
  <2>0. PICK a \in Int : a = Len(stack) - 3
    BY <1>0
  <2>1. PICK w : stack' = Append(Cut(a), w) /\ UNCHANGED <<flprt, kvfnc>>
    BY <1>4, <2>0 DEF Select
  <2> QED BY <2>1, OnTopCutAppend, OnTopWorks
<1>5. CASE NegateFailure
  <2>0. PICK a \in Int : a = Len(stack) - 2
    BY <1>0
  <2>1. PICK w : stack' = Append(Cut(a), w) /\ UNCHANGED <<flprt, kvfnc>>
    BY <1>5, <2>0 DEF NegateFailure
  <2> QED BY <2>1, OnTopCutAppend, OnTopWorks
<1>6. CASE NextAlternative
  <2>0. PICK j \in flptr .. Len(stack) : j = Len(stack)
    BY <1>0
  <2>1. PICK w : stack' = [stack EXCEPT ![j] = w] /\ UNCHANGED <<flprt, kvfnc>>
    BY <1>6, <2>0 DEF NextAlternative
  <2> QED BY <2>1, OnTopExcept, OnTopWorks
<1>7. CASE LastAlternative
  <2>1. PICK a \in Int : stack' = Cut(a) /\ UNCHANGED <<flprt, kvfnc>>
    <3>1. Len(stack) - 2 \in Int
      BY <1>0
    <3> QED BY <1>7, <3>1 DEF LastAlternative
  <2> QED BY <2>1, OnTopCut, OnTopWorks
<1> QED BY <1>1, <1>2, <1>3, <1>4, <1>5, <1>6, <1>7

\* An evaluation begins and ends.
LEMMA EvalWorks ==
    ASSUME Inv, Inv', (\E e \in prog.exprs, fresh \in BOOLEAN : Eval(e, fresh)) \/ EvalValue \/ EvalFailure
    PROVE  Abstract!Work
<1>0. Len(stack) \in Nat /\ flptr \in 1 .. Len(stack) /\ stack \in Seq(Words) /\ flptr \in Nat
  BY Basics
<1>1. CASE \E e \in prog.exprs, fresh \in BOOLEAN : Eval(e, fresh)
  <2>1. PICK e \in prog.exprs, fresh \in BOOLEAN : Eval(e, fresh)
    BY <1>1
  <2>2. UNCHANGED <<flprt, kvfnc>>
    BY <2>1 DEF Eval
  <2>3. PICK n \in Nat \ {0}, t \in Seq(Words) : t = stack' /\ flptr <= n /\ Same(stack, t, n)
    BY <2>1, EvalStack
  <2>4. n \in Nat /\ flptr <= n + 1
    BY <1>0, <2>3
  <2> QED BY <2>2, <2>3, <2>4, OnTopUp, OnTopWorks
<1>2. CASE EvalValue
  <2>1. PICK w : EndEval(Len(stack) - 1, <<w>>)
    BY <1>2 DEF EvalValue
  <2>2. PICK a \in Int : a = Len(stack) - 1 - 6
    <3>1. Len(stack) - 1 - 6 \in Int
      BY <1>0
    <3> QED BY <3>1
  <2>3. stack' = Cut(a) \o <<w>> /\ UNCHANGED <<flprt, kvfnc>>
    BY <2>1, <2>2 DEF EndEval
  <2>4. PICK s : s = Cut(a)
    OBVIOUS
  <2>5. s \in Seq(Words)
    BY <1>0, <2>4, CutAny
  <2>6. s \o <<w>> = Append(s, w)
    <3>1. PICK S : S = Words \cup {w}
      OBVIOUS
    <3>2. s \in Seq(S) /\ w \in S
      BY <2>5, <3>1
    <3> QED BY <3>2
  <2>7. stack' = Append(Cut(a), w)
    BY <2>3, <2>4, <2>6, Zenon
  <2> QED BY <2>3, <2>7, OnTopCutAppend, OnTopWorks
<1>3. CASE EvalFailure
  <2>1. EndEval(Len(stack), <<>>)
    BY <1>3 DEF EvalFailure
  <2>2. PICK a \in Int : a = Len(stack) - 6
    BY <1>0
  <2>3. stack' = Cut(a) \o <<>> /\ UNCHANGED <<flprt, kvfnc>>
    BY <2>1, <2>2 DEF EndEval
  <2>4. PICK s : s = Cut(a)
    OBVIOUS
  <2>5. s \in Seq(Words)
    BY <1>0, <2>4, CutAny
  <2>6. s \o <<>> = s
    BY <2>5
  <2>7. stack' = Cut(a)
    BY <2>3, <2>4, <2>6, Zenon
  <2> QED BY <2>3, <2>7, OnTopCut, OnTopWorks
<1> QED BY <1>1, <1>2, <1>3

\* A failure, an error, a trap and a goto.
LEMMA FailureWorks ==
    ASSUME Inv, Inv', Exfal \/ GotoTrap \/ Error \/ Err07 \/ Continue \/ SContinue \/ \E b \in Stmts : Goto(b)
    PROVE  Abstract!Work
<1>0. Len(stack) \in Nat /\ flptr \in 1 .. Len(stack) /\ stack \in Seq(Words) /\ flptr \in Nat /\ flptr \in Int
  BY Basics
<1>1. CASE Exfal
  <2>1. stack' = Cut(flptr) /\ UNCHANGED <<flprt, kvfnc>>
    BY <1>1 DEF Exfal, Lands
  <2> QED BY <1>0, <2>1, OnTopCut, OnTopWorks
<1>2. CASE GotoTrap
  <2>0. PICK j \in flptr .. Len(stack) : j = flptr
    BY <1>0
  <2>1. PICK w : stack' = [stack EXCEPT ![j] = w] /\ UNCHANGED <<flprt, kvfnc>>
    BY <1>2, <2>0 DEF GotoTrap, regs
  <2> QED BY <2>1, OnTopExcept, OnTopWorks
<1>3. CASE Error
  <2>1. ctl \in {"error", "syntax", "interrupt"} /\ UNCHANGED kvfnc
    BY <1>3 DEF Error
  <2>2. gtcef \in Int \/ ~Unwinds
    BY <2>1, ErrorIs
  <2>3. CASE UNCHANGED <<stack, regs>>
    BY <2>1, <2>3, IdleWorks DEF regs
  <2>4. CASE stack' = Cut(flptr) /\ UNCHANGED regs
    BY <1>0, <2>1, <2>4, OnTopCut, OnTopWorks DEF regs
  <2>5. CASE Unwinds /\ stack' = Cut(gtcef) /\ UNCHANGED flprt
    BY <2>1, <2>2, <2>5, OnTopCut, OnTopWorks
  <2> QED BY <1>3, <2>3, <2>4, <2>5 DEF Error
<1>4. CASE Err07
  <2>1. UNCHANGED <<flprt, kvfnc>>
    BY <1>4 DEF Err07
  <2>2. CASE UNCHANGED stack
    BY <2>1, <2>2, IdleWorks
  <2>3. CASE r_sxc # None /\ Enter(r_sxc, stack, flptr)
    <3>1. r_sxc \in Stmts
      BY <2>3 DEF Inv, Typed
    <3>2. Same(stack, stack, flptr) /\ flptr <= Len(stack)
      BY <1>0 DEF Same
    <3> QED BY <1>0, <2>1, <2>3, <3>1, <3>2, OnTopEnter, OnTopWorks
  <2> QED BY <1>4, <2>2, <2>3 DEF Err07
<1>5. CASE Continue
  <2>1. UNCHANGED <<flprt, kvfnc>>
    BY <1>5 DEF Continue
  <2>2. UNCHANGED stack \/ stack' = Cut(flptr)
    BY <1>5 DEF Continue, Lands
  <2> QED BY <1>0, <2>1, <2>2, IdleWorks, OnTopCut, OnTopWorks
<1>6. CASE SContinue
  <2>1. UNCHANGED <<stack, flprt, kvfnc>>
    BY <1>6 DEF SContinue
  <2> QED BY <2>1, IdleWorks
<1>7. CASE \E b \in Stmts : Goto(b)
  <2>1. PICK b \in Stmts : Enter(b, Cut(flptr), flptr) /\ UNCHANGED <<flprt, kvfnc>>
    BY <1>7 DEF Goto
  <2>2. Cut(flptr) \in Seq(Words) /\ Len(Cut(flptr)) = flptr /\ Same(stack, Cut(flptr), flptr)
    <3>1. flptr <= Len(stack)
      BY <1>0
    <3> QED BY <1>0, <3>1, CutIs
  <2>3. flptr <= Len(Cut(flptr))
    BY <1>0, <2>2
  <2> QED BY <2>1, <2>2, <2>3, OnTopEnter, OnTopWorks
<1> QED BY <1>1, <1>2, <1>3, <1>4, <1>5, <1>6, <1>7

\* All the others, a return that is in error among them.
LEMMA OtherWorks ==
    ASSUME Inv, Inv', \/ \E v \in Vars : Assign(v)
                      \/ \E b \in prog.traps \cup {None} : SetExit(b)
                      \/ \E outcome \in {"compiled", "error"} : Code(outcome)
                      \/ \E outcome \in {"compiled", "error", "unconvertible"} : Convert(outcome)
                      \/ EvalBad \/ Fails \/ Errs \/ Undefined \/ Stop
                      \/ \E how : Return(how) /\ (kvfnc = 0 \/ ~IsFrame(flprt))
    PROVE  Abstract!Work
<1>1. CASE \E v \in Vars : Assign(v)
  BY <1>1, IdleWorks DEF Assign, regs
<1>2. CASE \E b \in prog.traps \cup {None} : SetExit(b)
  BY <1>2, IdleWorks DEF SetExit, regs
<1>3. CASE \E outcome \in {"compiled", "error"} : Code(outcome)
  BY <1>3, IdleWorks DEF Code, regs
<1>4. CASE \E outcome \in {"compiled", "error", "unconvertible"} : Convert(outcome)
  BY <1>4, IdleWorks DEF Convert, regs
<1>5. CASE EvalBad
  BY <1>5, IdleWorks DEF EvalBad, regs
<1>6. CASE Fails \/ Errs \/ Undefined \/ Stop
  BY <1>6, IdleWorks DEF Fails, Errs, Undefined, Stop, regs
<1>7. CASE \E how : Return(how) /\ (kvfnc = 0 \/ ~IsFrame(flprt))
  BY <1>7, IdleWorks DEF Return, regs
<1> QED BY <1>1, <1>2, <1>3, <1>4, <1>5, <1>6, <1>7

\* A trace ends.
LEMMA EndTraceWorks == ASSUME Inv, Inv', EndTrace PROVE Abstract!Work
<1>1. flptr - 8 \in Int
  <2>1. flptr \in Nat
    BY Basics
  <2> QED BY <2>1
<1>2. stack' = Cut(flptr - 8) /\ UNCHANGED <<flprt, kvfnc>>
  BY DEF EndTrace
<1> QED BY <1>1, <1>2, OnTopCut, OnTopWorks

-----------------------------------------------------------------------------
(***************************************************************************)
(* What a call binds, and what a return gives back.                        *)
(***************************************************************************)
\* After the first i of s have been given: a variable has what it was given last, and
\* what it had first is kept.
Given(x, s, i) ==
    /\ \A v \in Vars : (\A k \in 1 .. i : s[k][1] # v) => x.now[v] = vars[v]
    /\ \A k \in 1 .. i : (\A j \in k + 1 .. i : s[j][1] # s[k][1]) => x.now[s[k][1]] = s[k][2]
    /\ Len(x.had) = i /\ \A k \in 1 .. i : (\A j \in 1 .. k - 1 : s[j][1] # s[k][1]) => x.had[k] = vars[s[k][1]]

\* One more.
LEMMA GivenStep ==
    ASSUME NEW s \in Seq(Vars \X Values), NEW i \in 1 .. Len(s), NEW x \in Bindings, Given(x, s, i - 1)
    PROVE  Given(Give(x, s[i]), s, i)
<1>1. PICK w, u : w = s[i][1] /\ u = s[i][2] /\ w \in Vars /\ u \in Values
  <2>1. s[i] \in Vars \X Values
    OBVIOUS
  <2> QED BY <2>1
<1>2. x.now \in [Vars -> Values] /\ x.had \in Seq(Values) /\ i \in Nat \ {0}
  BY DEF Bindings
<1>3. PICK now, had : now = [x.now EXCEPT ![w] = u] /\ had = Append(x.had, x.now[w])
  OBVIOUS
<1>4. Give(x, s[i]) = [now |-> now, had |-> had]
  BY <1>1, <1>3 DEF Give
<1>5. now[w] = u /\ \A v \in Vars : v # w => now[v] = x.now[v]
  BY <1>1, <1>2, <1>3
<1>6. Len(x.had) = i - 1 /\ Len(had) = i /\ had[i] = x.now[w] /\ \A k \in 1 .. i - 1 : had[k] = x.had[k]
  <2>1. Len(x.had) = i - 1
    BY DEF Given
  <2>2. x.now[w] \in Values
    BY <1>1, <1>2
  <2> QED BY <1>2, <1>3, <2>1, <2>2
<1>7. \A k \in 1 .. i : k = i \/ k \in 1 .. i - 1
  BY <1>2
<1>8. i \in 1 .. i /\ \A k \in 1 .. i - 1 : k \in 1 .. i /\ i \in k + 1 .. i /\ \A j \in k + 1 .. i - 1 : j \in k + 1 .. i
  BY <1>2
<1>9. ASSUME NEW v \in Vars, \A k \in 1 .. i : s[k][1] # v PROVE now[v] = vars[v]
  <2>1. v # w
    BY <1>1, <1>8, <1>9
  <2>2. \A k \in 1 .. i - 1 : s[k][1] # v
    BY <1>8, <1>9
  <2>3. x.now[v] = vars[v]
    BY <2>2 DEF Given
  <2> QED BY <1>5, <2>1, <2>3
<1>10. ASSUME NEW k \in 1 .. i, \A j \in k + 1 .. i : s[j][1] # s[k][1] PROVE now[s[k][1]] = s[k][2]
  <2>1. CASE k = i
    BY <1>1, <1>5, <2>1
  <2>2. CASE k # i
    <3>1. k \in 1 .. i - 1
      BY <1>7, <2>2
    <3>2. s[k][1] # w
      BY <1>1, <1>8, <1>10, <3>1
    <3>3. \A j \in k + 1 .. i - 1 : s[j][1] # s[k][1]
      BY <1>8, <1>10, <3>1
    <3>4. x.now[s[k][1]] = s[k][2]
      BY <3>1, <3>3 DEF Given
    <3>5. s[k][1] \in Vars
      <4>1. k \in 1 .. Len(s)
        BY <1>2
      <4>2. s[k] \in Vars \X Values
        BY <4>1
      <4> QED BY <4>2
    <3> QED BY <1>5, <3>2, <3>4, <3>5
  <2> QED BY <2>1, <2>2
<1>11. ASSUME NEW k \in 1 .. i, \A j \in 1 .. k - 1 : s[j][1] # s[k][1] PROVE had[k] = vars[s[k][1]]
  <2>1. CASE k = i
    <3>1. \A j \in 1 .. i - 1 : s[j][1] # w
      BY <1>1, <1>11, <2>1
    <3>2. x.now[w] = vars[w]
      BY <1>1, <3>1 DEF Given
    <3> QED BY <1>1, <1>6, <2>1, <3>2
  <2>2. CASE k # i
    <3>1. k \in 1 .. i - 1
      BY <1>7, <2>2
    <3>2. x.had[k] = vars[s[k][1]]
      BY <1>11, <3>1 DEF Given
    <3> QED BY <1>6, <3>1, <3>2
  <2> QED BY <2>1, <2>2
<1> HIDE <1>1, <1>3
<1>12. PICK y : y = Give(x, s[i]) /\ y.now = now /\ y.had = had
  BY <1>4
<1> QED BY <1>6, <1>9, <1>10, <1>11, <1>12 DEF Given

\* What the names of a call have, by induction on them.
LEMMA BindHas ==
    ASSUME vars \in [Vars -> Values], NEW s \in Seq(Vars \X Values)
    PROVE  Given(Bind(s), s, Len(s))
<1>1. PICK n \in Nat : n = Len(s)
  OBVIOUS
<1>2. PICK bound : /\ bound[0] = [now |-> vars, had |-> <<>>]
                   /\ \A k \in 1 .. n : bound[k] = Give(bound[k - 1], s[k])
                   /\ \A k \in 0 .. n : bound[k] \in Bindings
                   /\ Bind(s) = bound[n]
  BY <1>1, BindSteps
<1>3. Given(bound[0], s, 0)
  <2>1. PICK x : x = bound[0] /\ x.now = vars /\ x.had = <<>>
    BY <1>2
  <2>2. Len(x.had) = 0 /\ 1 .. 0 = {}
    BY <2>1
  <2>3. Given(x, s, 0)
    BY <2>1, <2>2 DEF Given
  <2> QED BY <2>1, <2>3
<1>4. PICK h : h = [k \in 0 .. n |-> IF Given(bound[k], s, k) THEN 1 ELSE 0]
  OBVIOUS
<1>5. \A k \in 0 .. n : h[k] \in {1} <=> Given(bound[k], s, k)
  BY <1>4
<1>6. h[0] \in {1}
  <2>1. 0 \in 0 .. n
    OBVIOUS
  <2> QED BY <1>3, <1>5, <2>1
<1>7. ASSUME NEW k \in 1 .. n, h[k - 1] \in {1} PROVE h[k] \in {1}
  <2>1. k \in 0 .. n /\ k - 1 \in 0 .. n /\ k \in 1 .. Len(s)
    BY <1>1
  <2>2. Given(bound[k - 1], s, k - 1) /\ bound[k - 1] \in Bindings
    BY <1>2, <1>5, <1>7, <2>1
  <2>3. Given(Give(bound[k - 1], s[k]), s, k)
    BY <2>1, <2>2, GivenStep
  <2>4. Given(bound[k], s, k)
    BY <1>2, <2>3
  <2> QED BY <1>5, <2>1, <2>4
<1>8. PICK U : U = {1}
  OBVIOUS
<1>9. h[0] \in U /\ \A k \in 1 .. n : h[k - 1] \in U => h[k] \in U
  BY <1>6, <1>7, <1>8
<1>10. \A k \in 0 .. n : h[k] \in U
  BY <1>9, Stays
<1>11. Given(bound[n], s, n)
  BY <1>5, <1>8, <1>10
<1> QED BY <1>1, <1>2, <1>11

\* After the last i names have their values back: each has what the first of them had.
Regained(y, names, had, i) ==
    LET n == Len(names) IN
    /\ \A v \in Vars : (\A k \in n + 1 - i .. n : names[k] # v) => y[v] = vars[v]
    /\ \A k \in n + 1 - i .. n : (\A j \in n + 1 - i .. k - 1 : names[j] # names[k]) => y[names[k]] = had[k]

\* What each variable has then, by induction on the names.
LEMMA RestoredHas ==
    ASSUME vars \in [Vars -> Values], NEW fr, fr.f \in Functions, fr.had \in Seq(Values), Len(fr.had) = Len(Names[fr.f])
    PROVE  /\ Restored(fr) \in [Vars -> Values]
           /\ \A v \in Vars : (\A k \in 1 .. Len(fr.had) : Names[fr.f][k] # v) => Restored(fr)[v] = vars[v]
           /\ \A k \in 1 .. Len(fr.had) : (\A j \in 1 .. k - 1 : Names[fr.f][j] # Names[fr.f][k])
                                          => Restored(fr)[Names[fr.f][k]] = fr.had[k]
<1>1. PICK names, had : names = Names[fr.f] /\ had = fr.had
  OBVIOUS
<1>2. PICK n \in Nat : n = Len(had) /\ n = Len(names)
  BY <1>1
<1>3. \A k \in 1 .. n : names[k] \in Vars
  <2>1. names \in Seq(Vars)
    BY <1>1, SizeIs
  <2> QED BY <1>2, <2>1
<1>4. PICK after : /\ after[0] = vars
                   /\ \A k \in 1 .. n : after[k] = [after[k - 1] EXCEPT ![names[n + 1 - k]] = had[n + 1 - k]]
                   /\ \A k \in 0 .. n : after[k] \in [Vars -> Values]
                   /\ Restored(fr) = after[n]
  <2>1. PICK after :
              /\ after[0] = vars
              /\ \A k \in 1 .. Len(fr.had) :
                    after[k] = [after[k - 1] EXCEPT ![Names[fr.f][Len(fr.had) + 1 - k]] = fr.had[Len(fr.had) + 1 - k]]
              /\ \A k \in 0 .. Len(fr.had) : after[k] \in [Vars -> Values]
              /\ Restored(fr) = after[Len(fr.had)]
    BY RestoredSteps
  <2>2. Len(fr.had) = n /\ Names[fr.f] = names /\ fr.had = had
    BY <1>1, <1>2
  <2> QED BY <2>1, <2>2
<1> DEFINE Is(k) == Regained(after[k], names, had, k)
<1>5. Is(0)
  <2>1. n + 1 - 0 .. n = {}
    OBVIOUS
  <2> QED BY <1>2, <1>4, <2>1 DEF Regained
<1>6. ASSUME NEW k \in 1 .. n, Is(k - 1) PROVE Is(k)
  <2>1. PICK m \in 1 .. n : m = n + 1 - k
    OBVIOUS
  <2>2. n + 1 - (k - 1) = m + 1
    BY <2>1
  <2>3. PICK x, y : x = after[k - 1] /\ y = after[k] /\ x \in [Vars -> Values]
    <3>1. k - 1 \in 0 .. n
      OBVIOUS
    <3> QED BY <1>4, <3>1
  <2>4. y = [x EXCEPT ![names[m]] = had[m]]
    BY <1>4, <2>1, <2>3
  <2>5. y[names[m]] = had[m] /\ \A v \in Vars : v # names[m] => y[v] = x[v]
    BY <1>3, <2>3, <2>4
  <2>6. /\ \A v \in Vars : (\A i \in m + 1 .. n : names[i] # v) => x[v] = vars[v]
        /\ \A i \in m + 1 .. n : (\A j \in m + 1 .. i - 1 : names[j] # names[i]) => x[names[i]] = had[i]
    BY <1>2, <1>6, <2>2, <2>3 DEF Regained
  <2>7. m \in m .. n /\ \A i \in m .. n : i = m \/ i \in m + 1 .. n
    OBVIOUS
  <2>8. \A i \in m + 1 .. n : i \in 1 .. n /\ i \in m .. n /\ m \in m .. i - 1 /\ \A j \in m + 1 .. i - 1 : j \in m .. i - 1
    OBVIOUS
  <2>9. ASSUME NEW v \in Vars, \A i \in m .. n : names[i] # v PROVE y[v] = vars[v]
    BY <2>5, <2>6, <2>7, <2>8, <2>9
  <2>10. ASSUME NEW i \in m .. n, \A j \in m .. i - 1 : names[j] # names[i] PROVE y[names[i]] = had[i]
    <3>1. CASE i = m
      BY <2>5, <3>1
    <3>2. CASE i \in m + 1 .. n
      <4>1. names[i] # names[m] /\ names[i] \in Vars
        BY <1>3, <2>8, <2>10, <3>2
      <4>2. x[names[i]] = had[i]
        BY <2>6, <2>8, <2>10, <3>2
      <4> QED BY <2>5, <4>1, <4>2
    <3> QED BY <2>7, <3>1, <3>2
  <2> QED BY <1>2, <2>1, <2>3, <2>9, <2>10 DEF Regained
<1> HIDE DEF Is
<1>7. PICK h : h = [k \in 0 .. n |-> IF Is(k) THEN 1 ELSE 0]
  OBVIOUS
<1>8. \A k \in 0 .. n : h[k] \in {1} <=> Is(k)
  BY <1>7
<1>9. \A k \in 1 .. n : k \in 0 .. n /\ k - 1 \in 0 .. n
  OBVIOUS
<1>10. PICK U : U = {1}
  OBVIOUS
<1>11. h[0] \in U /\ \A k \in 1 .. n : h[k - 1] \in U => h[k] \in U
  BY <1>5, <1>6, <1>8, <1>9, <1>10
<1>12. \A k \in 0 .. n : h[k] \in U
  BY <1>11, Stays
<1>13. Is(n)
  BY <1>8, <1>10, <1>12
<1>14. PICK y : y = Restored(fr) /\ Regained(y, names, had, n)
  BY <1>4, <1>13 DEF Is
<1>15. n + 1 - n = 1
  OBVIOUS
<1>16. /\ \A v \in Vars : (\A k \in 1 .. n : names[k] # v) => y[v] = vars[v]
       /\ \A k \in 1 .. n : (\A j \in 1 .. k - 1 : names[j] # names[k]) => y[names[k]] = had[k]
  BY <1>2, <1>14, <1>15 DEF Regained
<1>17. Restored(fr) \in [Vars -> Values]
  BY RestoredIs
<1> QED BY <1>1, <1>2, <1>14, <1>16, <1>17

\* y is a, of k elements, and then b, of m elements.
Joined(y, S, a, b, k, m) ==
    /\ y \in Seq(S) /\ Len(y) = k + m
    /\ (\A i \in 1 .. k : y[i] = a[i]) /\ \A i \in 1 .. m : y[k + i] = b[i]

\* The elements of two sequences joined.
LEMMA JoinAt ==
    ASSUME NEW S, NEW a, NEW b, NEW k, NEW m,
           a \in Seq(S), b \in Seq(S), Len(a) = k, Len(b) = m
    PROVE  Joined(a \o b, S, a, b, k, m)
<1>1. a \o b \in Seq(S) /\ Len(a \o b) = Len(a) + Len(b) /\ Len(a) \in Nat /\ Len(b) \in Nat
  OBVIOUS
<1>2. \A i \in 1 .. Len(a) + Len(b) : (a \o b)[i] = IF i <= Len(a) THEN a[i] ELSE b[i - Len(a)]
  OBVIOUS
<1>3. \A i \in 1 .. k : (a \o b)[i] = a[i]
  <2>1. \A i \in 1 .. k : i \in 1 .. k + m /\ i <= k
    BY <1>1
  <2> QED BY <1>2, <2>1
<1>4. \A i \in 1 .. m : (a \o b)[k + i] = b[i]
  <2>1. \A i \in 1 .. m : k + i \in 1 .. k + m /\ ~(k + i <= k) /\ k + i - k = i
    BY <1>1
  <2> QED BY <1>2, <2>1
<1> QED BY <1>1, <1>3, <1>4, Zenon DEF Joined

\* Where the names of a function are.
LEMMA NamesIs ==
    ASSUME NEW f \in Functions
    PROVE  \E k \in Nat, m \in Nat :
              /\ k = Len(Params[f]) /\ m = Len(Locals[f]) /\ Len(Names[f]) = 1 + k + m /\ Size(f) = k + m
              /\ DOMAIN Params[f] = 1 .. k /\ DOMAIN Locals[f] = 1 .. m
              /\ Names[f][1] = f /\ (\A i \in 1 .. k : Names[f][1 + i] = Params[f][i])
              /\ \A i \in 1 .. m : Names[f][1 + k + i] = Locals[f][i]
<1>1. f \in Vars /\ Params[f] \in Seq(Vars) /\ Locals[f] \in Seq(Vars) /\ Names[f] = <<f>> \o Params[f] \o Locals[f]
  BY CallsAssumption DEF Names
<1>2. PICK k \in Nat, m \in Nat : k = Len(Params[f]) /\ m = Len(Locals[f])
  BY <1>1
<1>3. PICK x \in Seq(Vars) : x = <<f>> /\ Len(x) = 1 /\ x[1] = f
  <2>1. <<f>> \in Seq(Vars) /\ Len(<<f>>) = 1 /\ <<f>>[1] = f
    BY <1>1
  <2> QED BY <2>1
<1>4. PICK y : y = x \o Params[f] /\ Joined(y, Vars, x, Params[f], 1, k)
  BY <1>1, <1>2, <1>3, JoinAt, Zenon
<1>5. Len(y) = 1 + k /\ y[1] = f /\ \A i \in 1 .. k : y[1 + i] = Params[f][i]
  <2>1. 1 \in 1 .. 1
    OBVIOUS
  <2> QED BY <1>3, <1>4, <2>1, Zenon DEF Joined
<1>6. PICK z : z = y \o Locals[f] /\ Joined(z, Vars, y, Locals[f], 1 + k, m)
  <2>1. y \in Seq(Vars) /\ Len(y) = 1 + k
    BY <1>4, Zenon DEF Joined
  <2> QED BY <1>1, <1>2, <2>1, JoinAt, Zenon
<1>7. z = Names[f] /\ Len(z) = 1 + k + m /\ (\A i \in 1 .. 1 + k : z[i] = y[i]) /\ \A i \in 1 .. m : z[1 + k + i] = Locals[f][i]
  BY <1>1, <1>3, <1>4, <1>6, Zenon DEF Joined
<1>8. 1 \in 1 .. 1 + k /\ \A i \in 1 .. k : 1 + i \in 1 .. 1 + k
  OBVIOUS
<1>9. z[1] = f /\ (\A i \in 1 .. k : z[1 + i] = Params[f][i])
  BY <1>5, <1>7, <1>8
<1>10. Size(f) = k + m
  <2>1. (1 + k + m) - 1 = k + m
    OBVIOUS
  <2>2. Size(f) = (1 + k + m) - 1
    <3>1. Size(f) = Len(Names[f]) - 1
      BY DEF Size
    <3>2. Len(Names[f]) = 1 + k + m
      BY <1>7, Zenon
    <3> QED BY <3>1, <3>2, Zenon
  <2> QED BY <2>1, <2>2
<1>11. DOMAIN Params[f] = 1 .. k /\ DOMAIN Locals[f] = 1 .. m
  BY <1>1, <1>2
<1> QED BY <1>2, <1>7, <1>9, <1>10, <1>11, Zenon

\* A number from 1 to n is the function's, its k parameters' or its m locals'.
LEMMA Index ==
    ASSUME NEW k \in Nat, NEW m \in Nat, NEW i \in 1 .. 1 + k + m
    PROVE  \/ i = 1
           \/ \E j \in 1 .. k : i = 1 + j
           \/ \E j \in 1 .. m : i = 1 + k + j
<1>1. CASE i = 1
  BY <1>1
<1>2. CASE i # 1 /\ i <= 1 + k
  <2>1. i - 1 \in 1 .. k /\ i = 1 + (i - 1)
    BY <1>2
  <2> QED BY <2>1
<1>3. CASE i > 1 + k
  <2>1. i - 1 - k \in 1 .. m /\ i = 1 + k + (i - 1 - k)
    BY <1>3
  <2> QED BY <2>1
<1> QED BY <1>1, <1>2, <1>3

\* What a call binds: the names of the function.
LEMMA BindsIs ==
    ASSUME NEW f \in Functions
    PROVE  Abstract!Binds(f) = ToSet(Names[f]) /\ DOMAIN First[f] = ToSet(Names[f]) /\ ToSet(Names[f]) \subseteq Vars
<1>1. PICK k \in Nat, m \in Nat :
              /\ Len(Names[f]) = 1 + k + m
              /\ DOMAIN Params[f] = 1 .. k /\ DOMAIN Locals[f] = 1 .. m
              /\ Names[f][1] = f /\ (\A i \in 1 .. k : Names[f][1 + i] = Params[f][i])
              /\ \A i \in 1 .. m : Names[f][1 + k + i] = Locals[f][i]
  BY NamesIs
<1>2. Names[f] \in Seq(Vars)
  BY SizeIs
<1>a. PICK n \in Nat : n = 1 + k + m
  OBVIOUS
<1>3. PICK names : names = Names[f] /\ n = 1 + k + m /\ DOMAIN names = 1 .. n
  BY <1>1, <1>2, <1>a
<1>4. ASSUME NEW v \in ToSet(names) PROVE v \in Abstract!Binds(f)
  <2>1. PICK i \in 1 .. n : names[i] = v
    BY <1>3 DEF ToSet
  <2>2. CASE i = 1
    BY <1>1, <1>3, <2>1, <2>2 DEF Abstract!Binds
  <2>3. CASE \E j \in 1 .. k : i = 1 + j
    <3>1. PICK j \in 1 .. k : i = 1 + j
      BY <2>3
    <3>2. j \in DOMAIN Params[f] /\ Params[f][j] = v
      BY <1>1, <1>3, <2>1, <3>1
    <3>3. v \in Abstract!Elements(Params[f])
      BY <3>2 DEF Abstract!Elements
    <3> QED BY <3>3 DEF Abstract!Binds
  <2>4. CASE \E j \in 1 .. m : i = 1 + k + j
    <3>1. PICK j \in 1 .. m : i = 1 + k + j
      BY <2>4
    <3>2. j \in DOMAIN Locals[f] /\ Locals[f][j] = v
      BY <1>1, <1>3, <2>1, <3>1
    <3>3. v \in Abstract!Elements(Locals[f])
      BY <3>2 DEF Abstract!Elements
    <3> QED BY <3>3 DEF Abstract!Binds
  <2> QED BY <1>3, <2>2, <2>3, <2>4, Index
<1>5. ASSUME NEW v \in Abstract!Binds(f) PROVE v \in ToSet(names)
  <2>1. 1 \in 1 .. n /\ (\A j \in 1 .. k : 1 + j \in 1 .. n) /\ \A j \in 1 .. m : 1 + k + j \in 1 .. n
    BY <1>3
  <2>2. CASE v = f
    BY <1>1, <1>3, <2>1, <2>2 DEF ToSet
  <2>3. CASE \E j \in 1 .. k : v = Params[f][j]
    <3>1. PICK j \in 1 .. k : v = Params[f][j]
      BY <2>3
    <3>2. 1 + j \in DOMAIN names /\ names[1 + j] = v
      BY <1>1, <1>3, <2>1, <3>1
    <3> QED BY <3>2 DEF ToSet
  <2>4. CASE \E j \in 1 .. m : v = Locals[f][j]
    <3>1. PICK j \in 1 .. m : v = Locals[f][j]
      BY <2>4
    <3>2. 1 + k + j \in DOMAIN names /\ names[1 + k + j] = v
      BY <1>1, <1>3, <2>1, <3>1
    <3> QED BY <3>2 DEF ToSet
  <2> QED BY <1>1, <1>5, <2>2, <2>3, <2>4 DEF Abstract!Binds, Abstract!Elements
<1>6. DOMAIN First[f] = ToSet(Names[f])
  BY DEF First
<1>7. ToSet(Names[f]) \subseteq Vars
  BY <1>2 DEF ToSet
<1> QED BY <1>3, <1>4, <1>5, <1>6, <1>7

\* Where a name is first.
LEMMA FirstIs ==
    ASSUME NEW f \in Functions, NEW v \in ToSet(Names[f])
    PROVE  /\ First[f][v] \in 1 .. Len(Names[f]) /\ Names[f][First[f][v]] = v
           /\ \A j \in 1 .. First[f][v] - 1 : Names[f][j] # v
<1>1. PICK names \in Seq(Vars) : names = Names[f]
  BY SizeIs
<1>2. PICK n \in Nat : n = Len(names) /\ DOMAIN names = 1 .. n
  OBVIOUS
<1>3. PICK I : I = {i \in 1 .. n : names[i] = v}
  OBVIOUS
<1>4. I # {} /\ I \subseteq Nat
  BY <1>1, <1>2, <1>3 DEF ToSet
<1>5. PICK k : k = First[f][v]
  OBVIOUS
<1>6. k = Min(I)
  <2>1. SelectInSeq(names, LAMBDA w : w = v) = Min(I)
    BY <1>2, <1>3, <1>4 DEF SelectInSeq
  <2> QED BY <1>1, <1>5, <2>1 DEF First
<1>7. k \in I /\ \A i \in I : k <= i
  BY <1>4, <1>6, LeastNat DEF Min
<1>8. ASSUME NEW j \in 1 .. k - 1 PROVE names[j] # v
  <2>1. j \in 1 .. n /\ ~(k <= j)
    BY <1>3, <1>7
  <2> QED BY <1>3, <1>7, <2>1
<1> QED BY <1>1, <1>2, <1>3, <1>5, <1>7, <1>8

\* What each name is given.
LEMMA GivingIs ==
    ASSUME Inv, NEW f \in Functions, NEW args \in Seq(Words), Len(args) = Len(Params[f]),
           \A i \in 1 .. Len(args) : args[i][1] = "val"
    PROVE  \E g \in Seq(Vars \X Values), k \in Nat, m \in Nat :
              /\ g = Giving(f, args) /\ Len(g) = 1 + k + m /\ k = Len(Params[f]) /\ m = Len(Locals[f])
              /\ g[1] = <<f, Null>> /\ (\A i \in 1 .. k : g[1 + i] = <<Params[f][i], args[i][2]>>)
              /\ \A i \in 1 .. m : g[1 + k + i] = <<Locals[f][i], Null>>
<1>1. PICK g \in Seq(Vars \X Values) : g = Giving(f, args)
  BY GivenIs
<1>2. PICK k \in Nat, m \in Nat : k = Len(Params[f]) /\ m = Len(Locals[f]) /\ DOMAIN Locals[f] = 1 .. m
  BY NamesIs
<1>3. DOMAIN args = 1 .. k
  BY <1>2
<1>4. PICK x, a, l : x = <<<<f, Null>>>> /\ a = [i \in 1 .. k |-> <<Params[f][i], args[i][2]>>]
                     /\ l = [i \in 1 .. m |-> <<Locals[f][i], Null>>]
  OBVIOUS
<1>5. g = x \o a \o l
  BY <1>1, <1>2, <1>3, <1>4 DEF Giving
<1>6. PICK P : P = Vars \X Values
  OBVIOUS
<1>7. x[1] = <<f, Null>> /\ (\A i \in 1 .. k : a[i] = <<Params[f][i], args[i][2]>>)
      /\ \A i \in 1 .. m : l[i] = <<Locals[f][i], Null>>
  BY <1>4
<1>8. Null \in Values /\ f \in Vars /\ Params[f] \in Seq(Vars) /\ Locals[f] \in Seq(Vars)
  BY CallsAssumption DEF Inv, Typed, Values
<1>9. x \in Seq(P) /\ Len(x) = 1
  <2>1. PICK e \in P : e = <<f, Null>>
    BY <1>6, <1>8
  <2>2. x = <<e>>
    BY <1>4, <2>1
  <2> QED BY <2>2
<1>10. a \in Seq(P) /\ Len(a) = k
  <2>1. ASSUME NEW i \in 1 .. k PROVE <<Params[f][i], args[i][2]>> \in P
    <3>1. Params[f][i] \in Vars
      BY <1>2, <1>8
    <3>2. args[i] \in Words /\ args[i][1] = "val"
      BY <1>2
    <3>3. args[i][2] \in Values
      BY <3>2, WordKinds
    <3> QED BY <1>6, <3>1, <3>3
  <2> QED BY <1>4, <2>1
<1>11. l \in Seq(P) /\ Len(l) = m
  <2>1. ASSUME NEW i \in 1 .. m PROVE <<Locals[f][i], Null>> \in P
    <3>1. Locals[f][i] \in Vars
      BY <1>2, <1>8
    <3> QED BY <1>6, <1>8, <3>1
  <2> QED BY <1>4, <2>1
<1>12. PICK y : y = x \o a /\ Joined(y, P, x, a, 1, k)
  BY <1>9, <1>10, JoinAt, Zenon
<1>121. PICK z : z = y \o l /\ Joined(z, P, y, l, 1 + k, m)
  <2>1. y \in Seq(P) /\ Len(y) = 1 + k
    BY <1>12, Zenon DEF Joined
  <2> QED BY <1>11, <2>1, JoinAt, Zenon
<1>122. g = z
  BY <1>5, <1>12, <1>121, Zenon
<1>13. 1 \in 1 .. 1 /\ 1 \in 1 .. 1 + k /\ \A i \in 1 .. k : 1 + i \in 1 .. 1 + k
  OBVIOUS
<1>14. g[1] = <<f, Null>>
  BY <1>7, <1>12, <1>121, <1>122, <1>13, Zenon DEF Joined
<1>15. \A i \in 1 .. k : g[1 + i] = <<Params[f][i], args[i][2]>>
  BY <1>7, <1>12, <1>121, <1>122, <1>13, Zenon DEF Joined
<1>16. \A i \in 1 .. m : g[1 + k + i] = <<Locals[f][i], Null>>
  BY <1>7, <1>121, <1>122, Zenon DEF Joined
<1>17. Len(g) = 1 + k + m
  BY <1>121, <1>122, Zenon DEF Joined
<1> QED BY <1>1, <1>2, <1>14, <1>15, <1>16, <1>17, Zenon

\* Where a name is last, of n.
IsLast(names, n, v, q) == names[q] = v /\ \A j \in q + 1 .. n : names[j] # v

\* A name that there is has a last place.
LEMMA LastIndex ==
    ASSUME NEW n \in Nat, NEW names, NEW v, NEW p \in 1 .. n, names[p] = v
    PROVE  \E q \in 1 .. n : IsLast(names, n, v, q)
<1>1. PICK T : T = {j \in 0 .. n : \E i \in 1 .. n : i = n - j /\ names[i] = v}
  OBVIOUS
<1>2. T \subseteq Nat /\ T # {}
  <2>1. PICK i \in 1 .. n : names[i] = v
    OBVIOUS
  <2>2. PICK j \in 0 .. n : i = n - j
    <3>1. n - i \in 0 .. n /\ i = n - (n - i)
      OBVIOUS
    <3> QED BY <3>1
  <2>3. j \in T
    BY <1>1, <2>1, <2>2
  <2>4. T \subseteq 0 .. n /\ 0 .. n \subseteq Nat
    BY <1>1
  <2> QED BY <2>3, <2>4
<1>3. PICK j \in T : \A k \in T : j <= k
  BY <1>2, LeastNat
<1>4. PICK q \in 1 .. n : q = n - j /\ names[q] = v
  BY <1>1
<1>5. ASSUME NEW i \in q + 1 .. n PROVE names[i] # v
  <2>1. n - i \in 0 .. n /\ i \in 1 .. n /\ i = n - (n - i) /\ ~(j <= n - i)
    BY <1>1, <1>4
  <2> QED BY <1>1, <1>3, <2>1
<1> QED BY <1>4, <1>5 DEF IsLast

\* Each name of a call has what it was given last.
LEMMA BoundIs ==
    ASSUME Inv, NEW f \in Functions, NEW args \in Seq(Words), Len(args) = Len(Params[f]),
           \A i \in 1 .. Len(args) : args[i][1] = "val", NEW v \in Vars
    PROVE  Bind(Giving(f, args)).now[v] = Abstract!Bound(f, [i \in DOMAIN Params[f] |-> args[i][2]], v)
<1>1. PICK g \in Seq(Vars \X Values), k \in Nat, m \in Nat :
         /\ g = Giving(f, args) /\ Len(g) = 1 + k + m /\ k = Len(Params[f]) /\ m = Len(Locals[f])
         /\ g[1] = <<f, Null>> /\ (\A i \in 1 .. k : g[1 + i] = <<Params[f][i], args[i][2]>>)
         /\ \A i \in 1 .. m : g[1 + k + i] = <<Locals[f][i], Null>>
  BY GivingIs
<1>1a. PICK n \in Nat : n = 1 + k + m
  OBVIOUS
<1>2. n = 1 + k + m /\ n = Len(g)
  BY <1>1, <1>1a, Zenon
<1>3. PICK ps, ls : ps = Params[f] /\ ls = Locals[f] /\ DOMAIN ps = 1 .. k /\ DOMAIN ls = 1 .. m
  BY <1>1, NamesIs
<1>4. PICK names : names = [i \in 1 .. n |-> g[i][1]]
  OBVIOUS
<1>5. 1 \in 1 .. n /\ (\A j \in 1 .. k : 1 + j \in 1 .. n) /\ \A j \in 1 .. m : 1 + k + j \in 1 .. n
  BY <1>2
<1>6. names[1] = f /\ (\A i \in 1 .. k : names[1 + i] = ps[i]) /\ \A i \in 1 .. m : names[1 + k + i] = ls[i]
  <2>1. \A i \in 1 .. n : names[i] = g[i][1]
    BY <1>4
  <2>2. g[1][1] = f
    <3>1. PICK e : e = g[1] /\ e = <<f, Null>>
      BY <1>1
    <3> QED BY <3>1
  <2>3. ASSUME NEW i \in 1 .. k PROVE g[1 + i][1] = ps[i]
    <3>1. PICK e, a, b : e = g[1 + i] /\ a = Params[f][i] /\ b = args[i][2]
      OBVIOUS
    <3>2. e = <<a, b>>
      BY <1>1, <3>1, Zenon
    <3>3. e[1] = a
      BY <3>2
    <3> QED BY <1>3, <3>1, <3>3, Zenon
  <2>4. ASSUME NEW i \in 1 .. m PROVE g[1 + k + i][1] = ls[i]
    <3>1. PICK e, a : e = g[1 + k + i] /\ a = Locals[f][i]
      OBVIOUS
    <3>2. e = <<a, Null>>
      BY <1>1, <3>1, Zenon
    <3>3. e[1] = a
      BY <3>2
    <3> QED BY <1>3, <3>1, <3>3, Zenon
  <2> QED BY <1>5, <2>1, <2>2, <2>3, <2>4, Zenon
<1>7. PICK x : x = Bind(g) /\ Given(x, g, n)
  <2>1. vars \in [Vars -> Values]
    BY DEF Inv, Typed
  <2> QED BY <1>2, <2>1, BindHas
<1>8. /\ (\A q \in 1 .. n : names[q] # v) => x.now[v] = vars[v]
      /\ \A q \in 1 .. n : (names[q] = v /\ \A j \in q + 1 .. n : names[j] # v) => x.now[v] = g[q][2]
  <2>1. \A q \in 1 .. n : names[q] = g[q][1]
    BY <1>4
  <2>2. /\ (\A q \in 1 .. n : g[q][1] # v) => x.now[v] = vars[v]
        /\ \A q \in 1 .. n : (\A j \in q + 1 .. n : g[j][1] # g[q][1]) => x.now[g[q][1]] = g[q][2]
    BY <1>7, Zenon DEF Given
  <2>3. ASSUME \A q \in 1 .. n : names[q] # v PROVE x.now[v] = vars[v]
    BY <2>1, <2>2, <2>3, Zenon
  <2>4. ASSUME NEW q \in 1 .. n, names[q] = v, \A j \in q + 1 .. n : names[j] # v PROVE x.now[v] = g[q][2]
    <3>1. \A j \in q + 1 .. n : j \in 1 .. n
      OBVIOUS
    <3> QED BY <2>1, <2>2, <2>4, <3>1, Zenon
  <2> QED BY <2>3, <2>4, Zenon
<1>9. v \in Abstract!Binds(f) <=> \E q \in 1 .. n : names[q] = v
  <2>1. v \in Abstract!Binds(f) <=> v = f \/ (\E j \in 1 .. k : ps[j] = v) \/ \E j \in 1 .. m : ls[j] = v
    BY <1>3 DEF Abstract!Binds, Abstract!Elements
  <2>2. ASSUME NEW q \in 1 .. n, names[q] = v PROVE v = f \/ (\E j \in 1 .. k : ps[j] = v) \/ \E j \in 1 .. m : ls[j] = v
    <3>1. q = 1 \/ (\E j \in 1 .. k : q = 1 + j) \/ \E j \in 1 .. m : q = 1 + k + j
      BY <1>2, Index
    <3> QED BY <1>6, <2>2, <3>1
  <2>3. v = f \/ (\E j \in 1 .. k : ps[j] = v) \/ (\E j \in 1 .. m : ls[j] = v) => \E q \in 1 .. n : names[q] = v
    BY <1>5, <1>6
  <2> QED BY <2>1, <2>2, <2>3
<1>91. PICK with : with = [i \in DOMAIN Params[f] |-> args[i][2]]
  OBVIOUS
<1>10. with = [i \in DOMAIN Params[f] |-> args[i][2]] /\ \A i \in 1 .. k : with[i] = args[i][2]
  BY <1>3, <1>91
<1>101. g[1][2] = Null /\ (\A i \in 1 .. k : g[1 + i][2] = args[i][2]) /\ \A i \in 1 .. m : g[1 + k + i][2] = Null
  <2>2. g[1][2] = Null
    <3>1. PICK e : e = g[1] /\ e = <<f, Null>>
      BY <1>1
    <3> QED BY <3>1
  <2>3. ASSUME NEW i \in 1 .. k PROVE g[1 + i][2] = args[i][2]
    <3>1. PICK e, a, b : e = g[1 + i] /\ a = Params[f][i] /\ b = args[i][2]
      OBVIOUS
    <3>2. e = <<a, b>>
      BY <1>1, <3>1, Zenon
    <3>3. e[2] = b
      BY <3>2
    <3> QED BY <1>3, <3>1, <3>3, Zenon
  <2>4. ASSUME NEW i \in 1 .. m PROVE g[1 + k + i][2] = Null
    <3>1. PICK e, a : e = g[1 + k + i] /\ a = Locals[f][i]
      OBVIOUS
    <3>2. e = <<a, Null>>
      BY <1>1, <3>1, Zenon
    <3>3. e[2] = Null
      BY <3>2
    <3> QED BY <1>3, <3>1, <3>3, Zenon
  <2> QED BY <2>2, <2>3, <2>4, Zenon
<1>11. PICK last : last = {i \in 1 .. k : ps[i] = v /\ \A j \in 1 .. k : ps[j] = v => j <= i}
  OBVIOUS
<1>12. Abstract!Bound(f, with, v) = IF v \notin Abstract!Binds(f) THEN vars[v]
                                    ELSE IF (\E j \in 1 .. m : ls[j] = v) \/ last = {} THEN Null
                                    ELSE with[CHOOSE i \in last : TRUE]
  <2>1. v \in Abstract!Elements(Locals[f]) <=> \E j \in 1 .. m : ls[j] = v
    BY <1>3 DEF Abstract!Elements
  <2> QED BY <1>3, <1>11, <2>1 DEF Abstract!Bound
<1>13. CASE v \notin Abstract!Binds(f)
  BY <1>1, <1>7, <1>8, <1>9, <1>10, <1>12, <1>13
<1>14. CASE v \in Abstract!Binds(f)
  <2>1. PICK q \in 1 .. n : names[q] = v /\ \A j \in q + 1 .. n : names[j] # v
    <3>1. PICK i \in 1 .. n : names[i] = v
      BY <1>9, <1>14, Zenon
    <3>2. PICK q \in 1 .. n : IsLast(names, n, v, q)
      BY <3>1, LastIndex, Zenon
    <3> QED BY <3>2 DEF IsLast
  <2>2. x.now[v] = g[q][2]
    BY <1>8, <2>1
  <2>3. CASE q = 1
    <3>1. \A j \in 1 .. m : ls[j] # v
      <4>1. \A j \in 1 .. m : 1 + k + j \in q + 1 .. n
        BY <1>2, <2>3
      <4> QED BY <1>6, <2>1, <4>1
    <3>2. \A j \in 1 .. k : ps[j] # v
      <4>1. \A j \in 1 .. k : 1 + j \in q + 1 .. n
        BY <1>2, <2>3
      <4> QED BY <1>6, <2>1, <4>1
    <3>3. last = {}
      BY <1>11, <3>2
    <3>4. g[q][2] = Null
      BY <1>101, <2>3, Zenon
    <3> QED BY <1>1, <1>7, <1>10, <1>12, <1>14, <2>2, <3>3, <3>4, Zenon
  <2>4. CASE \E j \in 1 .. k : q = 1 + j
    <3>1. PICK j \in 1 .. k : q = 1 + j
      BY <2>4
    <3>2. \A i \in 1 .. m : ls[i] # v
      <4>1. \A i \in 1 .. m : 1 + k + i \in q + 1 .. n
        BY <1>2, <3>1
      <4> QED BY <1>6, <2>1, <4>1
    <3>3. ps[j] = v /\ \A i \in 1 .. k : ps[i] = v => i <= j
      <4>1. ASSUME NEW i \in 1 .. k, ps[i] = v PROVE i <= j
        <5>1. 1 + i \notin q + 1 .. n
          BY <1>6, <2>1, <4>1
        <5> QED BY <1>2, <3>1, <5>1
      <4> QED BY <1>6, <2>1, <3>1, <4>1
    <3>4. last = {j}
      <4>1. j \in last
        BY <1>11, <3>3
      <4>2. \A i \in last : i = j
        BY <1>11, <3>3
      <4> QED BY <4>1, <4>2
    <3>5. (CHOOSE i \in last : TRUE) = j /\ last # {}
      BY <3>4
    <3>6. g[q][2] = args[j][2]
      BY <1>101, <3>1, Zenon
    <3>7. with[j] = args[j][2]
      BY <1>10
    <3> QED BY <1>1, <1>7, <1>10, <1>12, <1>14, <2>2, <3>2, <3>5, <3>6, <3>7, Zenon
  <2>5. CASE \E j \in 1 .. m : q = 1 + k + j
    <3>1. PICK j \in 1 .. m : q = 1 + k + j
      BY <2>5
    <3>2. ls[j] = v
      BY <1>6, <2>1, <3>1
    <3>3. g[q][2] = Null
      BY <1>101, <3>1, Zenon
    <3> QED BY <1>1, <1>7, <1>10, <1>12, <1>14, <2>2, <3>2, <3>3, Zenon
  <2>6. q = 1 \/ (\E j \in 1 .. k : q = 1 + j) \/ \E j \in 1 .. m : q = 1 + k + j
    BY <1>2, Index
  <2> QED BY <2>3, <2>4, <2>5, <2>6
<1> QED BY <1>13, <1>14

\* The names of a call, in their order.
LEMMA GivingNames ==
    ASSUME Inv, NEW f \in Functions, NEW args \in Seq(Words), Len(args) = Len(Params[f]),
           \A i \in 1 .. Len(args) : args[i][1] = "val", NEW i \in 1 .. Size(f) + 1
    PROVE  Giving(f, args)[i][1] = Names[f][i]
<1>1. PICK g \in Seq(Vars \X Values), k \in Nat, m \in Nat :
         /\ g = Giving(f, args) /\ Len(g) = 1 + k + m /\ k = Len(Params[f]) /\ m = Len(Locals[f])
         /\ g[1] = <<f, Null>> /\ (\A j \in 1 .. k : g[1 + j] = <<Params[f][j], args[j][2]>>)
         /\ \A j \in 1 .. m : g[1 + k + j] = <<Locals[f][j], Null>>
  BY GivingIs
<1>2. /\ Size(f) = k + m /\ Names[f][1] = f /\ (\A j \in 1 .. k : Names[f][1 + j] = Params[f][j])
      /\ \A j \in 1 .. m : Names[f][1 + k + j] = Locals[f][j]
  <2>1. PICK kk \in Nat, mm \in Nat :
           /\ kk = Len(Params[f]) /\ mm = Len(Locals[f]) /\ Size(f) = kk + mm
           /\ Names[f][1] = f /\ (\A j \in 1 .. kk : Names[f][1 + j] = Params[f][j])
           /\ \A j \in 1 .. mm : Names[f][1 + kk + j] = Locals[f][j]
    BY NamesIs
  <2>2. kk = k /\ mm = m
    BY <1>1, <2>1, Zenon
  <2> QED BY <2>1, <2>2, Zenon
<1>3. i \in 1 .. 1 + k + m
  BY <1>2
<1>4. CASE i = 1
  <2>1. PICK e : e = g[i] /\ e = <<f, Null>>
    BY <1>1, <1>4
  <2>2. e[1] = f
    BY <2>1
  <2> QED BY <1>1, <1>2, <1>4, <2>1, <2>2, Zenon
<1>5. CASE \E j \in 1 .. k : i = 1 + j
  <2>1. PICK j \in 1 .. k : i = 1 + j
    BY <1>5
  <2>2. PICK e, a, b : e = g[i] /\ a = Params[f][j] /\ b = args[j][2]
    OBVIOUS
  <2>3. e = <<a, b>>
    BY <1>1, <2>1, <2>2, Zenon
  <2>4. e[1] = a
    BY <2>3
  <2> QED BY <1>1, <1>2, <2>1, <2>2, <2>4, Zenon
<1>6. CASE \E j \in 1 .. m : i = 1 + k + j
  <2>1. PICK j \in 1 .. m : i = 1 + k + j
    BY <1>6
  <2>2. PICK e, a : e = g[i] /\ a = Locals[f][j]
    OBVIOUS
  <2>3. e = <<a, Null>>
    BY <1>1, <2>1, <2>2, Zenon
  <2>4. e[1] = a
    BY <2>3
  <2> QED BY <1>1, <1>2, <2>1, <2>2, <2>4, Zenon
<1> QED BY <1>3, <1>4, <1>5, <1>6, Index

\* A place of a block as CallStack has it.
Here(blk, c) == [blk |-> blk, at |-> c.at, path |-> c.path]

\* A call of f that returns to a place.
ActHere(f, to) == [to |-> to, had |-> [v \in Abstract!Binds(f) |-> vars[v]]]

\* A call of f has its frame at p of stack t.
NewFrame(f, t, p, blk, c) ==
    \E n, args, fl, r :
      /\ f \in Functions /\ args \in Seq(Words) /\ Len(args) = Len(Params[f])
      /\ \A i \in 1 .. Len(args) : args[i][1] = "val"
      /\ Framed(t, p, n, f, blk, c, fl, r) /\ Keeping(t, p, n, f, Bind(Giving(f, args)).had)

\* And it keeps where the call was, and what the names of f had.
KeepsAct(f, t, p, blk, c) == ActOf(FrameOf(t, p)) = ActHere(f, Here(blk, c))

\* What the frame of a call keeps: where the call was, and what its names had.
LEMMA ActIs ==
    ASSUME Inv, NEW f, NEW t, NEW p, NEW blk, NEW c, NewFrame(f, t, p, blk, c)
    PROVE  KeepsAct(f, t, p, blk, c)
<1>0. PICK n, args, fl, r :
        /\ f \in Functions /\ args \in Seq(Words) /\ Len(args) = Len(Params[f])
        /\ \A i \in 1 .. Len(args) : args[i][1] = "val"
        /\ Framed(t, p, n, f, blk, c, fl, r) /\ Keeping(t, p, n, f, Bind(Giving(f, args)).had)
  BY DEF NewFrame
<1>1. PICK z \in Nat : z = Size(f) /\ Len(Names[f]) = z + 1 /\ Len(Names[f]) - 1 = z
  <2>1. PICK k \in Nat, m \in Nat : Len(Names[f]) = 1 + k + m /\ Size(f) = k + m
    BY <1>0, NamesIs
  <2>2. PICK w \in Nat : w = k + m
    OBVIOUS
  <2>3. Len(Names[f]) = w + 1
    BY <2>1, <2>2
  <2>4. Len(Names[f]) - 1 = w
    BY <2>3
  <2>5. w = Size(f)
    BY <2>1, <2>2, Zenon
  <2> QED BY <2>3, <2>4, <2>5, Zenon
<1>2. n \in Nat /\ p \in Nat /\ p = n + z + 8
  BY <1>0, <1>1, Zenon DEF Framed
<1>3. p - 7 - z = n + 1 /\ \A i \in 1 .. z : n + 1 + i - 1 = n + i
  BY <1>2
<1>4. t[p - 1][2] = f /\ t[p - 4][2] = c /\ t[p - 5][2] = blk
  <2>1. t[p - 1] = Pf(f) /\ t[p - 4] = Cp(c) /\ t[p - 5] = Blk(blk)
    BY <1>0, Zenon DEF Framed
  <2>2. t[p - 1][2] = f
    <3>1. Pf(f)[2] = f
      BY WordParts
    <3> QED BY <2>1, <3>1, Zenon
  <2>3. t[p - 4][2] = c
    BY <2>1, WordParts, Zenon
  <2>4. t[p - 5][2] = blk
    BY <2>1, WordParts, Zenon
  <2> QED BY <2>2, <2>3, <2>4
<1>5. PICK x, g : x = Bind(g) /\ g = Giving(f, args) /\ Given(x, g, z + 1) /\ x.had \in Seq(Values) /\ Len(x.had) = z + 1
  <2>1. vars \in [Vars -> Values]
    BY DEF Inv, Typed
  <2>2. PICK g \in Seq(Vars \X Values) : g = Giving(f, args) /\ Len(g) = z + 1
    BY <1>0, <1>1, GivenIs
  <2>3. PICK x : x = Bind(g)
    OBVIOUS
  <2>4. Given(x, g, z + 1)
    BY <2>1, <2>2, <2>3, BindHas
  <2>5. x \in Bindings /\ Len(x.had) = z + 1
    BY <2>1, <2>2, <2>3, BindIs
  <2> QED BY <2>2, <2>3, <2>4, <2>5 DEF Bindings
<1>6. PICK h \in Seq(Values) : h = x.had /\ Len(h) = z + 1
  BY <1>5
<1>7. t[p - 6][2] = h[1] /\ \A i \in 1 .. z : t[n + i][2] = h[i + 1]
  <2>1. t[p - 6] = Val(h[1]) /\ \A i \in 1 .. z : t[n + i] = Val(h[i + 1])
    BY <1>0, <1>1, <1>5, <1>6, Zenon DEF Keeping
  <2> QED BY <2>1, WordParts, Zenon
<1>8. PICK a, b : a = <<h[1]>> /\ b = [i \in 1 .. z |-> h[i + 1]]
  OBVIOUS
<1>9. a \in Seq(Values) /\ Len(a) = 1 /\ a[1] = h[1]
  <2>1. PICK e \in Values : e = h[1]
    <3>1. 1 \in 1 .. z + 1
      OBVIOUS
    <3> QED BY <1>6, <3>1
  <2>2. a = <<e>>
    BY <1>8, <2>1
  <2> QED BY <2>1, <2>2
<1>10. b \in Seq(Values) /\ Len(b) = z /\ \A i \in 1 .. z : b[i] = h[i + 1]
  <2>1. \A i \in 1 .. z : i + 1 \in 1 .. z + 1
    OBVIOUS
  <2>2. \A i \in 1 .. z : h[i + 1] \in Values
    BY <1>6, <2>1
  <2> QED BY <1>8, <2>2
<1>11. Joined(a \o b, Values, a, b, 1, z)
  BY <1>9, <1>10, JoinAt, Zenon
<1>12. PICK had : had = a \o b /\ \A i \in 1 .. z + 1 : had[i] = h[i]
  <2>1. PICK y : y = a \o b
    OBVIOUS
  <2>2. (\A i \in 1 .. 1 : y[i] = a[i]) /\ \A i \in 1 .. z : y[1 + i] = b[i]
    BY <1>11, <2>1, Zenon DEF Joined
  <2>3. ASSUME NEW i \in 1 .. z + 1 PROVE y[i] = h[i]
    <3>1. CASE i = 1
      <4>1. 1 \in 1 .. 1
        OBVIOUS
      <4> QED BY <1>9, <2>2, <3>1, <4>1, Zenon
    <3>2. CASE i # 1
      <4>1. PICK j \in 1 .. z : i = 1 + j /\ i = j + 1
        <5>1. i - 1 \in 1 .. z /\ i = 1 + (i - 1) /\ i = i - 1 + 1
          BY <3>2
        <5> QED BY <5>1
      <4> QED BY <1>10, <2>2, <4>1, Zenon
    <3> QED BY <3>1, <3>2
  <2> QED BY <2>1, <2>3
<1>13. FrameOf(t, p).had = had
  <2>1. [i \in 1 .. z |-> t[n + 1 + i - 1][2]] = b
    <3>1. \A i \in 1 .. z : t[n + 1 + i - 1][2] = h[i + 1]
      BY <1>3, <1>7
    <3> QED BY <1>8, <3>1
  <2>2. <<t[p - 6][2]>> = a
    BY <1>7, <1>8
  <2>3. FrameOf(t, p).had = <<t[p - 6][2]>> \o [i \in 1 .. z |-> t[n + 1 + i - 1][2]]
    BY <1>1, <1>3, <1>4 DEF FrameOf
  <2> QED BY <1>12, <2>1, <2>2, <2>3, Zenon
<1>14. FrameOf(t, p).f = f /\ FrameOf(t, p).r_cod = blk /\ FrameOf(t, p).cp = c
  BY <1>4 DEF FrameOf
<1>15. ASSUME NEW v \in ToSet(Names[f]) PROVE had[First[f][v]] = vars[v]
  <2>1. PICK k : k = First[f][v]
    OBVIOUS
  <2>2. k \in 1 .. z + 1 /\ Names[f][k] = v /\ \A j \in 1 .. k - 1 : Names[f][j] # v
    BY <1>1, <2>1, <1>0, FirstIs
  <2>3. \A j \in 1 .. z + 1 : g[j][1] = Names[f][j]
    BY <1>0, <1>1, <1>5, GivingNames
  <2>4. \A j \in 1 .. k - 1 : j \in 1 .. z + 1
    BY <2>2
  <2>5. \A j \in 1 .. k - 1 : g[j][1] # g[k][1]
    BY <2>2, <2>3, <2>4, Zenon
  <2>6. h[k] = vars[g[k][1]]
    BY <1>5, <1>6, <2>2, <2>5, Zenon DEF Given
  <2> QED BY <1>12, <2>1, <2>2, <2>3, <2>6, Zenon
<1>16. Abstract!Binds(f) = ToSet(Names[f]) /\ DOMAIN First[f] = ToSet(Names[f])
  BY <1>0, BindsIs
<1>17. [v \in DOMAIN First[f] |-> had[First[f][v]]] = [v \in Abstract!Binds(f) |-> vars[v]]
  BY <1>15, <1>16
<1> QED BY <1>13, <1>14, <1>17, Zenon DEF ActOf, Here, ActHere, KeepsAct

\* A list and one element more.
LEMMA AppendAt ==
    ASSUME NEW k \in Nat, NEW a, a = [i \in 1 .. k |-> a[i]], NEW e, NEW c, c = Append(a, e)
    PROVE  /\ c = [i \in 1 .. k + 1 |-> IF i = k + 1 THEN e ELSE a[i]]
           /\ c # <<>> /\ c[Len(c)] = e /\ SubSeq(c, 1, Len(c) - 1) = a
<1>1. PICK S : S = {a[i] : i \in 1 .. k} \cup {e}
  OBVIOUS
<1>2. \A i \in 1 .. k : a[i] \in S
  BY <1>1
<1>3. PICK b : b = [i \in 1 .. k |-> a[i]] /\ b = a
  OBVIOUS
<1>4. b \in [1 .. k -> S]
  BY <1>2, <1>3
<1>5. b \in Seq(S) /\ Len(b) = k /\ e \in S
  BY <1>1, <1>4
<1>6. c = Append(b, e)
  BY <1>3
<1>7. c \in Seq(S) /\ Len(c) = k + 1 /\ c[k + 1] = e /\ \A i \in 1 .. k : c[i] = b[i]
  BY <1>5, <1>6
<1>8. c = [i \in 1 .. k + 1 |-> IF i = k + 1 THEN e ELSE b[i]]
  <2>1. \A i \in 1 .. k + 1 : i # k + 1 => i \in 1 .. k
    OBVIOUS
  <2>2. DOMAIN c = 1 .. k + 1 /\ \A i \in 1 .. k + 1 : c[i] = IF i = k + 1 THEN e ELSE b[i]
    BY <1>7, <2>1
  <2>3. c = [i \in 1 .. k + 1 |-> c[i]]
    BY <1>7, <2>2
  <2> QED BY <2>2, <2>3
<1>9. c # <<>>
  BY <1>7
<1>10. SubSeq(c, 1, k) = b
  <2>1. PICK d : d = SubSeq(c, 1, k)
    OBVIOUS
  <2>2. d \in Seq(S) /\ Len(d) = k /\ \A i \in 1 .. k : d[i] = c[i]
    <3>1. c \in Seq(S) /\ k <= Len(c)
      BY <1>7
    <3>2. SubSeq(c, 1, k) \in Seq(S) /\ Len(SubSeq(c, 1, k)) = k /\ \A i \in 1 .. k : SubSeq(c, 1, k)[i] = c[i]
      BY <3>1
    <3> QED BY <2>1, <3>2, Zenon
  <2>3. \A i \in 1 .. k : d[i] = b[i]
    BY <1>7, <2>2
  <2> QED BY <1>5, <2>1, <2>2, <2>3
<1>12. c = [i \in 1 .. k + 1 |-> IF i = k + 1 THEN e ELSE a[i]]
  BY <1>3, <1>8, Zenon
<1>13. c[Len(c)] = e
  BY <1>7, Zenon
<1>14. SubSeq(c, 1, Len(c) - 1) = a
  <2>1. Len(c) - 1 = k
    BY <1>7
  <2> QED BY <1>3, <1>10, <2>1, Zenon
<1> QED BY <1>9, <1>12, <1>13, <1>14

\* One call more is listed after the others.
LEMMA ListsPush ==
    ASSUME NEW s, NEW t, NEW m \in Nat, NEW p \in Nat, NEW k \in Nat, NEW a, NEW b, m < p,
           Lists(a, s, m, k), Lists(b, t, p, k + 1), Same(s, t, m), m # 0 => IsCall(s, m),
           IsCall(t, p), LastCall(t, m, p), \A q \in CallsTo(s, m) : Called(s, q), Rank(s, m) = k
    PROVE  b = Append(a, ActOf(FrameOf(t, p)))
<1>1. \A i \in 1 .. m : IsCall(s, i) <=> IsCall(t, i)
  BY SameCalls
<1>2. \A q \in 0 .. m : CallsTo(s, q) = CallsTo(t, q)
  <2> SUFFICES ASSUME NEW q \in 0 .. m PROVE CallsTo(s, q) = CallsTo(t, q)
    OBVIOUS
  <2>1. \A i \in 1 .. q : i \in 1 .. m
    OBVIOUS
  <2> QED BY <1>1, <2>1 DEF CallsTo
<1>3. Rank(t, p) = k + 1
  <2>1. p \in Nat \ {0}
    OBVIOUS
  <2>2. Rank(t, p) = Rank(t, m) + 1
    BY <2>1, RankStep
  <2>3. m \in 0 .. m
    OBVIOUS
  <2>4. Rank(t, m) = k
    BY <1>2, <2>3, Zenon DEF Rank
  <2> QED BY <2>2, <2>4, Zenon
<1>4. b[k + 1] = ActOf(FrameOf(t, p))
  <2>1. p \in 1 .. p
    OBVIOUS
  <2>2. p \in CallsTo(t, p)
    BY <2>1 DEF CallsTo
  <2> QED BY <1>3, <2>2, Zenon DEF Lists
<1>5. ASSUME NEW i \in 1 .. k PROVE b[i] = a[i]
  <2>1. PICK q \in CallsTo(s, m) : Rank(s, q) = i
    BY DEF Lists
  <2>2. q \in 0 .. m /\ q \in Nat /\ q - 1 \in Nat /\ q \in CallsTo(t, p)
    <3>1. q \in 1 .. m /\ IsCall(s, q)
      BY DEF CallsTo
    <3>2. q \in 1 .. p /\ IsCall(t, q)
      BY <1>1, <3>1
    <3> QED BY <3>1, <3>2 DEF CallsTo
  <2>3. Rank(t, q) = i
    BY <1>2, <2>1, <2>2, Zenon DEF Rank
  <2>4. a[i] = ActOf(FrameOf(s, q))
    BY <2>1, Zenon DEF Lists
  <2>5. b[i] = ActOf(FrameOf(t, q))
    BY <2>2, <2>3, Zenon DEF Lists
  <2>6. Same(s, t, q - 1)
    <3>1. \A j \in 1 .. q - 1 : j \in 1 .. m
      BY <2>2
    <3> QED BY <3>1 DEF Same
  <2>7. FrameOf(t, q) = FrameOf(s, q)
    BY <2>2, <2>6, FrameSame
  <2> QED BY <2>4, <2>5, <2>7, Zenon
<1>6. PICK e : e = ActOf(FrameOf(t, p))
  OBVIOUS
<1>7. a = [i \in 1 .. k |-> a[i]] /\ b = [i \in 1 .. k + 1 |-> b[i]]
  BY Zenon DEF Lists
<1>71. PICK c : c = Append(a, e)
  OBVIOUS
<1>8. c = [i \in 1 .. k + 1 |-> IF i = k + 1 THEN e ELSE a[i]]
  <2>1. a = [i \in 1 .. k |-> a[i]]
    BY <1>7
  <2> QED BY <1>71, <2>1, AppendAt
<1>9. \A i \in 1 .. k + 1 : b[i] = IF i = k + 1 THEN e ELSE a[i]
  <2>1. \A i \in 1 .. k + 1 : i # k + 1 => i \in 1 .. k
    OBVIOUS
  <2> QED BY <1>4, <1>5, <1>6, <2>1, Zenon
<1>10. b = [i \in 1 .. k + 1 |-> IF i = k + 1 THEN e ELSE a[i]]
  BY <1>7, <1>9
<1> QED BY <1>6, <1>71, <1>8, <1>10, Zenon

-----------------------------------------------------------------------------
(***************************************************************************)
(* Calls.                                                                  *)
(***************************************************************************)
\* A place with operands more, or less, is one for CallStack too.
LEMMA HereOperands ==
    ASSUME NEW c \in Places, NEW blk, NEW n
    PROVE  Abstract!Operands(Here(blk, c), n) = Here(blk, Operands(c, n))
<1>1. PICK at, path : at = c.at /\ path = c.path /\ c = [at |-> at, path |-> path]
  BY DEF Places
<1>2. PICK more : more = [path EXCEPT ![Len(path)] = @ + n]
  OBVIOUS
<1>3. Operands(c, n) = [at |-> at, path |-> more]
  BY <1>1, <1>2 DEF Operands
<1>4. Here(blk, c) = [blk |-> blk, at |-> at, path |-> path]
  BY <1>1 DEF Here
<1>5. Abstract!Operands([blk |-> blk, at |-> at, path |-> path], n) = [blk |-> blk, at |-> at, path |-> more]
  BY <1>2 DEF Abstract!Operands
<1>6. Here(blk, [at |-> at, path |-> more]) = [blk |-> blk, at |-> at, path |-> more]
  BY DEF Here
<1> QED BY <1>3, <1>4, <1>5, <1>6, Zenon

\* f is invoked from place c of block blk, the stack having been s, the words below l
\* of which are those of this one.
InvokedFrom(f, b, s, args, blk, c, fl, l) ==
    /\ s \in Seq(Words) /\ Len(s) > 0 /\ args \in Seq(Words) /\ Len(args) = Len(Params[f])
    /\ \A i \in 1 .. Len(args) : args[i][1] = "val"
    /\ blk \in Blocks \cup {trxdc} /\ c \in Places /\ fl \in Nat
    /\ Invoke(f, b, FALSE, s, args, blk, c, fl)
    /\ l \in Nat /\ flptr <= l /\ l <= Len(s) /\ Same(stack, s, l)
    /\ Here(blk, c) \in {Abstract!Operands(Here(r_cod, cp), -Len(Params[f])), Here(trxdc, Start("trace"))}

\* It is a call for CallStack.
LEMMA InvokeCalls ==
    ASSUME Inv, Inv', NEW f \in Functions, NEW b \in Stmts, NEW s, NEW args, NEW blk, NEW c, NEW fl, NEW l,
           InvokedFrom(f, b, s, args, blk, c, fl, l)
    PROVE  Abstract!Call(f)
<1> USE DEF InvokedFrom
<1>1. PICK t \in Seq(Words), p \in Nat : Invoked(t, p, s, f, b, blk, c, fl) /\ Bound(t, p, Len(s), f, args)
  BY InvokeBinds
<1>2. PICK n, old : n = Len(s) /\ old = stack
  OBVIOUS
<1>3. /\ t = stack' /\ p = flptr' /\ p = flprt' /\ p <= Len(t) /\ Same(s, t, n)
      /\ Framed(t, p, n, f, blk, c, fl, flprt) /\ kvfnc' = kvfnc + 1
  BY <1>1, <1>2 DEF Invoked
<1>4. PICK m, k : m = flprt /\ k = kvfnc
  OBVIOUS
<1>5. Counted(old, flptr, m, k)
  BY <1>2, <1>4, CountedIs
<1>6. Counted(t, p, p, k + 1)
  <2>1. Counted(stack', flptr', flprt', kvfnc')
    BY CountedNext
  <2> QED BY <1>3, <1>4, <2>1
<1>7. PICK a, d : a = Acts /\ d = Acts'
  OBVIOUS
<1>8. Lists(a, old, m, k)
  BY <1>2, <1>4, <1>7, ActsAre
<1>9. Lists(d, t, p, k + 1)
  <2>1. Lists(Acts', stack', flprt', kvfnc')
    BY ActsAreNext
  <2> QED BY <1>3, <1>4, <1>7, <2>1
<1>10. PICK z \in Nat : z = Size(f)
  BY SizeIs
<1>11. n \in Nat /\ p = n + z + 8 /\ t[p - 3] = Adr(m)
  BY <1>3, <1>4, <1>10, Zenon DEF Framed
<1>12. m \in Nat /\ m <= l /\ k \in Nat /\ l <= n /\ flptr \in Nat
  <2>1. m \in 0 .. flptr /\ flptr \in Nat /\ k \in Nat
    BY <1>5, Zenon DEF Counted
  <2>2. l <= n
    BY <1>2
  <2> QED BY <2>1, <2>2
<1>13. m < p /\ p # 0
  BY <1>10, <1>11, <1>12
<1>14. Same(old, t, m)
  <2>1. \A i \in 1 .. m : i \in 1 .. l /\ i \in 1 .. n
    BY <1>11, <1>12
  <2> QED BY <1>2, <1>3, <2>1 DEF Same
<1>15. IsCall(t, p) /\ LastCall(t, m, p)
  <2>1. IsCall(t, p)
    BY <1>6, <1>13, Zenon DEF Counted
  <2>2. p \in CallsTo(t, p)
    BY <1>13, <2>1 DEF CallsTo
  <2>3. Called(t, p)
    BY <1>6, <2>2, Zenon DEF Counted
  <2>4. LastCall(t, t[p - 3][2], p)
    BY <2>3 DEF Called
  <2>5. t[p - 3][2] = m
    BY <1>11, WordParts, Zenon
  <2> QED BY <2>1, <2>4, <2>5, Zenon
<1>16. (m # 0 => IsCall(old, m)) /\ Rank(old, m) = k /\ \A q \in CallsTo(old, m) : Called(old, q)
  BY <1>5, Zenon DEF Counted
<1>17. d = Append(a, ActOf(FrameOf(t, p)))
  BY <1>8, <1>9, <1>12, <1>13, <1>14, <1>15, <1>16, ListsPush
<1>18. ActOf(FrameOf(t, p)) = ActHere(f, Here(blk, c))
  <2>1. Keeping(t, p, n, f, Bind(Giving(f, args)).had)
    BY <1>1, <1>2, Zenon DEF Bound
  <2>2. PICK r : r = flprt
    OBVIOUS
  <2>3. Framed(t, p, n, f, blk, c, fl, r)
    BY <1>3, <2>2, Zenon
  <2>4. args \in Seq(Words) /\ Len(args) = Len(Params[f]) /\ \A i \in 1 .. Len(args) : args[i][1] = "val"
    OBVIOUS
  <2>5. NewFrame(f, t, p, blk, c)
    BY <2>1, <2>3, <2>4, Zenon DEF NewFrame
  <2>6. KeepsAct(f, t, p, blk, c)
    BY <2>5, ActIs, Zenon
  <2> QED BY <2>6, Zenon DEF KeepsAct
<1>19. PICK with : with = [i \in DOMAIN Params[f] |-> args[i][2]]
  OBVIOUS
<1>20. with \in [DOMAIN Params[f] -> Values]
  <2>1. PICK k1 \in Nat : k1 = Len(Params[f]) /\ DOMAIN Params[f] = 1 .. k1
    BY NamesIs
  <2>2. \A i \in 1 .. k1 : args[i] \in Words /\ args[i][1] = "val"
    BY <2>1
  <2>3. \A i \in 1 .. k1 : args[i][2] \in Values
    BY <2>2, WordKinds
  <2> QED BY <1>19, <2>1, <2>3
<1>21. vars' = [v \in Vars |-> Abstract!Bound(f, with, v)]
  <2>1. PICK now : now = Bind(Giving(f, args)).now
    OBVIOUS
  <2>2. vars' = now /\ vars' \in [Vars -> Values]
    BY <1>1, <2>1 DEF Bound, Invoked
  <2>3. \A v \in Vars : now[v] = Abstract!Bound(f, with, v)
    BY <1>19, <2>1, BoundIs
  <2>4. now \in [Vars -> Values]
    BY <2>2
  <2>5. now = [v \in Vars |-> now[v]]
    BY <2>4
  <2> QED BY <2>2, <2>3, <2>5
<1>22. PICK to : to = Here(blk, c)
  OBVIOUS
<1>23. Acts' = Append(Acts, [to |-> to, had |-> [v \in Abstract!Binds(f) |-> vars[v]]])
  BY <1>7, <1>17, <1>18, <1>22, Zenon DEF ActHere
<1>24. to \in {Abstract!Operands([blk |-> r_cod, at |-> cp.at, path |-> cp.path], -Len(Params[f])),
               [blk |-> trxdc, at |-> "trace", path |-> <<0>>]}
  BY <1>22 DEF Here, Start
<1> QED BY <1>20, <1>21, <1>23, <1>24, Zenon DEF Abstract!Call

\* A call is one for CallStack.
LEMMA CallCalls ==
    ASSUME Inv, Inv', NEW f \in Functions, NEW b \in Stmts, Call(f, b, FALSE) PROVE Abstract!Call(f)
<1>1. PICK n \in Nat \ {0}, s \in Seq(Words), args \in Seq(Words), c \in Places :
         CallArgs(f, n, s, args, c) /\ Invoke(f, b, FALSE, s, args, r_cod, c, flptr)
  BY CallInvokes
<1>2. Len(s) = n /\ flptr <= n /\ Same(stack, s, n) /\ c = Operands(cp, -Len(Params[f]))
  BY <1>1, Zenon DEF CallArgs
<1>3. Len(args) = Len(Params[f]) /\ \A i \in 1 .. Len(args) : args[i][1] = "val"
  BY <1>1, Zenon DEF CallArgs
<1>4. r_cod \in Blocks \cup {trxdc} /\ cp \in Places /\ flptr \in Nat
  BY Basics
<1>5. Here(r_cod, c) = Abstract!Operands(Here(r_cod, cp), -Len(Params[f]))
  BY <1>2, <1>4, HereOperands, Zenon
<1>6. PICK l \in Nat : l = n /\ Len(s) > 0 /\ flptr <= l /\ l <= Len(s)
  BY <1>2
<1>7. Same(stack, s, l)
  BY <1>2, <1>6, Zenon
<1>8. Here(r_cod, c) \in {Abstract!Operands(Here(r_cod, cp), -Len(Params[f])), Here(trxdc, Start("trace"))}
  BY <1>5
<1>9. InvokedFrom(f, b, s, args, r_cod, c, flptr, l)
  BY <1>1, <1>3, <1>4, <1>6, <1>7, <1>8 DEF InvokedFrom
<1> QED BY <1>9, InvokeCalls

\* A trace is a call from the dummy code.
LEMMA TraceCalls ==
    ASSUME Inv, Inv', NEW f \in Functions, NEW b \in Stmts, Trace(f, b) PROVE Abstract!Call(f)
<1>1. PICK s \in Seq(Words), q \in Nat :
         /\ s = stack \o <<Other, Other, Other, Other, Blk(r_cod), Cp(cp), Adr(flptr), Off(<<"zero">>)>>
         /\ q = Len(stack) + 8 /\ Len(s) = q /\ Same(stack, s, q - 8)
  <2>1. Executing
    BY DEF Trace
  <2> QED BY <2>1, TraceStacks
<1>2. PICK l \in Nat : l = Len(stack) /\ flptr <= l
  BY Basics
<1>3. q - 8 = l /\ l <= Len(s) /\ Len(s) > 0
  BY <1>1, <1>2
<1>4. Same(stack, s, l)
  BY <1>1, <1>3, Zenon
<1>5. PICK args \in Seq(Words), c \in Places :
         TraceArgs(f, args, c) /\ Invoke(f, b, FALSE, s, args, trxdc, c, q)
  BY <1>1, <1>2, TraceInvokes
<1>6. Len(args) = Len(Params[f]) /\ (\A i \in 1 .. Len(args) : args[i][1] = "val") /\ c = Start("trace")
  BY <1>5, Zenon DEF TraceArgs
<1>7. Here(trxdc, c) \in {Abstract!Operands(Here(r_cod, cp), -Len(Params[f])), Here(trxdc, Start("trace"))}
  BY <1>6
<1>8. trxdc \in Blocks \cup {trxdc}
  OBVIOUS
<1>9. InvokedFrom(f, b, s, args, trxdc, c, q, l)
  BY <1>2, <1>3, <1>4, <1>5, <1>6, <1>7, <1>8 DEF InvokedFrom
<1> QED BY <1>9, InvokeCalls

\* What retrn finds is what CallStack has of the call.
LEMMA ReturnAct ==
    ASSUME Inv, kvfnc # 0, NEW fr, fr = Frame(flprt), NEW act, act = ActOf(fr)
    PROVE  /\ act.to = Here(fr.r_cod, fr.cp)
           /\ Restored(fr) = [v \in Vars |-> IF v \in DOMAIN act.had THEN act.had[v] ELSE vars[v]]
<1>1. fr.f \in Functions /\ fr.had \in Seq(Values) /\ Len(fr.had) = Len(Names[fr.f]) /\ vars \in [Vars -> Values]
  BY FrameIs DEF Inv, Typed
<1>2. PICK f \in Functions, had \in Seq(Values) : f = fr.f /\ had = fr.had /\ Len(had) = Len(Names[f])
  BY <1>1
<1>3. act.to = Here(fr.r_cod, fr.cp) /\ act.had = [v \in DOMAIN First[f] |-> had[First[f][v]]]
  BY <1>2 DEF ActOf, Here
<1>4. PICK y : y = Restored(fr)
  OBVIOUS
<1>5. /\ y \in [Vars -> Values]
      /\ \A v \in Vars : (\A k \in 1 .. Len(had) : Names[f][k] # v) => y[v] = vars[v]
      /\ \A k \in 1 .. Len(had) : (\A j \in 1 .. k - 1 : Names[f][j] # Names[f][k]) => y[Names[f][k]] = had[k]
  <2>1. /\ Restored(fr) \in [Vars -> Values]
        /\ \A v \in Vars : (\A k \in 1 .. Len(fr.had) : Names[fr.f][k] # v) => Restored(fr)[v] = vars[v]
        /\ \A k \in 1 .. Len(fr.had) : (\A j \in 1 .. k - 1 : Names[fr.f][j] # Names[fr.f][k])
                                       => Restored(fr)[Names[fr.f][k]] = fr.had[k]
    BY <1>1, RestoredHas
  <2> QED BY <1>2, <1>4, <2>1, Zenon
<1>6. DOMAIN First[f] = ToSet(Names[f])
  BY BindsIs
<1>7. PICK n \in Nat : n = Len(had) /\ n = Len(Names[f]) /\ DOMAIN Names[f] = 1 .. n
  <2>1. Names[f] \in Seq(Vars)
    BY SizeIs
  <2> QED BY <1>2, <2>1
<1>8. ASSUME NEW v \in Vars PROVE y[v] = IF v \in DOMAIN act.had THEN act.had[v] ELSE vars[v]
  <2>1. CASE v \in ToSet(Names[f])
    <3>1. PICK k \in 1 .. n : k = First[f][v] /\ Names[f][k] = v /\ \A j \in 1 .. k - 1 : Names[f][j] # v
      BY <1>7, <2>1, FirstIs
    <3>2. y[v] = had[k]
      BY <1>5, <1>7, <3>1, Zenon
    <3>3. v \in DOMAIN act.had /\ act.had[v] = had[k]
      BY <1>3, <1>6, <2>1, <3>1
    <3> QED BY <3>2, <3>3
  <2>2. CASE v \notin ToSet(Names[f])
    <3>1. \A k \in 1 .. n : Names[f][k] # v
      BY <1>7, <2>2 DEF ToSet
    <3>2. y[v] = vars[v]
      BY <1>5, <1>7, <3>1, Zenon
    <3>3. v \notin DOMAIN act.had
      BY <1>3, <1>6, <2>2
    <3> QED BY <3>2, <3>3
  <2> QED BY <2>1, <2>2
<1>9. y = [v \in Vars |-> y[v]]
  BY <1>5
<1> QED BY <1>3, <1>4, <1>8, <1>9

\* A return is one for CallStack.
LEMMA ReturnReturns ==
    ASSUME Inv, Inv', NEW how \in {"RETURN", "FRETURN", "NRETURN"}, Return(how), kvfnc # 0
    PROVE  Abstract!Return
<1>1. PICK fr : fr = Frame(flprt)
  OBVIOUS
<1>2. IsFrame(flprt) /\ IsCall(stack, flprt)
  BY CallFrame
<1>3. /\ flptr' = fr.flptr /\ flprt' = fr.flprt /\ r_cod' = fr.r_cod
      /\ kvfnc' = kvfnc - 1 /\ vars' = Restored(fr)
      /\ IF ctl' = "run"
         THEN stack' = Append(Cut(fr.base), Val(vars[fr.f])) /\ cp' = Operands(fr.cp, 1)
         ELSE stack' = Cut(fr.base) /\ cp' = fr.cp
  BY <1>1, <1>2 DEF Return
<1>4. /\ fr.base \in Nat /\ fr.base + 8 <= flprt /\ fr.flptr \in Nat \ {0} /\ fr.flptr <= fr.base
      /\ fr.cp \in Places /\ fr.f \in Functions /\ LastCall(stack, fr.flprt, flprt)
  BY <1>1, FrameIs
<1>5. r_cod # trxdc
  <2>1. r_cod \in Stmts
    BY Ending DEF Return
  <2> QED BY <2>1, BlocksAre
<1>6. LastCall(stack, fr.flprt, fr.flptr + 1)
  BY <1>1, <1>5, ReturnTo
<1>7. PICK t : t = stack' /\ Same(stack, t, fr.base)
  <2>1. flprt \in Nat /\ flprt <= flptr /\ flptr <= Len(stack) /\ Len(stack) \in Nat /\ flptr \in Nat
    BY CountedIs DEF Counted
  <2>2. fr.base <= Len(stack)
    BY <1>4, <2>1
  <2>3. PICK v \in Values : v = vars[fr.f]
    BY <1>4, CallsAssumption DEF Inv, Typed
  <2>4. stack' = Append(Cut(fr.base), Val(v)) \/ stack' = Cut(fr.base)
    BY <1>3, <2>3
  <2> QED BY <1>4, <2>2, <2>4, Returned
<1>8. PICK old, m, p, k, gl, base, a, b :
        /\ old = stack /\ m = flprt' /\ p = flprt /\ k = kvfnc' /\ gl = fr.flptr /\ base = fr.base
        /\ a = Acts' /\ b = Acts
  OBVIOUS
<1>9. Counted(old, flptr, p, kvfnc) /\ Counted(t, flptr', m, k)
  <2>1. Counted(stack, flptr, flprt, kvfnc) /\ Counted(stack', flptr', flprt', kvfnc')
    BY CountedIs, CountedNext
  <2> QED BY <1>7, <1>8, <2>1, Zenon
<1>10. kvfnc = k + 1 /\ k \in Nat /\ m \in Nat /\ p \in Nat /\ p # 0
  <2>1. k \in Nat /\ kvfnc \in Nat /\ m \in Nat /\ p \in Nat
    BY <1>9 DEF Counted
  <2>2. k = kvfnc - 1
    BY <1>3, <1>8
  <2>3. p # 0
    BY <1>2, <1>8 DEF IsCall
  <2> QED BY <2>1, <2>2, <2>3
<1>11. Lists(a, t, m, k) /\ Lists(b, old, p, k + 1)
  <2>1. Lists(Acts, stack, flprt, kvfnc) /\ Lists(Acts', stack', flprt', kvfnc')
    BY ActsAre, ActsAreNext
  <2> QED BY <1>7, <1>8, <1>10, <2>1, Zenon
<1>12. m <= base /\ m < p
  <2>1. LastCall(old, m, gl + 1) /\ gl \in Nat /\ base \in Nat /\ gl <= base /\ base + 8 <= p
    BY <1>3, <1>4, <1>6, <1>8
  <2>2. m \in 0 .. gl
    BY <2>1 DEF LastCall
  <2> QED BY <1>10, <2>1, <2>2
<1>13. Same(t, old, m)
  <2>1. Same(old, t, base) /\ base \in Nat
    BY <1>4, <1>7, <1>8, Zenon
  <2>2. \A i \in 1 .. m : i \in 1 .. base
    BY <1>10, <1>12, <2>1
  <2> QED BY <2>1, <2>2 DEF Same
<1>14. LastCall(old, m, p) /\ IsCall(old, p)
  BY <1>2, <1>3, <1>4, <1>8, Zenon
<1>15. (m # 0 => IsCall(t, m)) /\ Rank(t, m) = k /\ \A q \in CallsTo(t, m) : Called(t, q)
  BY <1>9, Zenon DEF Counted
<1>16. b = Append(a, ActOf(FrameOf(old, p)))
  BY <1>10, <1>11, <1>12, <1>13, <1>14, <1>15, ListsPush
<1>17. FrameOf(old, p) = fr
  BY <1>1, <1>8 DEF FrameOf, Frame
<1>18. PICK act : act = ActOf(fr)
  OBVIOUS
<1>19. b # <<>> /\ b[Len(b)] = act /\ SubSeq(b, 1, Len(b) - 1) = a
  <2>1. a = [i \in 1 .. k |-> a[i]]
    BY <1>11 DEF Lists
  <2>2. b = Append(a, act)
    BY <1>16, <1>17, <1>18
  <2> QED BY <1>10, <2>1, <2>2, AppendAt
<1>20. /\ act.to = Here(fr.r_cod, fr.cp)
       /\ Restored(fr) = [v \in Vars |-> IF v \in DOMAIN act.had THEN act.had[v] ELSE vars[v]]
  BY <1>1, <1>18, ReturnAct
<1>21. Here(r_cod', cp') \in {act.to, Abstract!Operands(act.to, 1)}
  <2>1. Abstract!Operands(Here(fr.r_cod, fr.cp), 1) = Here(fr.r_cod, Operands(fr.cp, 1))
    BY <1>4, HereOperands
  <2>2. cp' \in {fr.cp, Operands(fr.cp, 1)} /\ r_cod' = fr.r_cod
    BY <1>3
  <2>3. CASE cp' = fr.cp
    <3>1. Here(r_cod', cp') = act.to
      BY <1>20, <2>2, <2>3, Zenon
    <3> QED BY <3>1
  <2>4. CASE cp' = Operands(fr.cp, 1)
    <3>1. Here(r_cod', cp') = Abstract!Operands(act.to, 1)
      BY <1>20, <2>1, <2>2, <2>4, Zenon
    <3> QED BY <3>1
  <2> QED BY <2>2, <2>3, <2>4
<1>22. Acts # <<>> /\ Acts[Len(Acts)] = act /\ Acts' = SubSeq(Acts, 1, Len(Acts) - 1)
  BY <1>8, <1>19
<1>23. vars' = [v \in Vars |-> IF v \in DOMAIN act.had THEN act.had[v] ELSE vars[v]]
  BY <1>3, <1>20
<1>24. [blk |-> r_cod', at |-> cp'.at, path |-> cp'.path] \in {act.to, Abstract!Operands(act.to, 1)}
  BY <1>21 DEF Here
<1> QED BY <1>22, <1>23, <1>24 DEF Abstract!Return

\* At the start no function has been called.
LEMMA InitActs == Init => Abstract!Init
<1> SUFFICES ASSUME Init PROVE Abstract!Init
  OBVIOUS
<1>1. Inv /\ kvfnc = 0
  BY InitInv DEF Init
<1>2. vars \in [Vars -> Values]
  BY <1>1 DEF Inv, Typed
<1>3. PICK a : a = Acts
  OBVIOUS
<1>4. Lists(a, stack, flprt, 0)
  <2>1. Lists(Acts, stack, flprt, kvfnc)
    BY <1>1, ActsAre
  <2> QED BY <1>1, <1>3, <2>1, Zenon
<1>5. a = <<>>
  <2>1. a = [i \in 1 .. 0 |-> a[i]]
    BY <1>4 DEF Lists
  <2>2. 1 .. 0 = {}
    OBVIOUS
  <2> QED BY <2>1, <2>2
<1> QED BY <1>2, <1>3, <1>5 DEF Abstract!Init

\* Each step that adds nothing to faults is one of CallStack.
LEMMA OperateWorks ==
    ASSUME Inv, Inv', Operate
    PROVE  Abstract!Work \/ Abstract!Return
<1>1. CASE \E how \in {"RETURN", "FRETURN", "NRETURN"} : Return(how)
  <2>1. PICK how \in {"RETURN", "FRETURN", "NRETURN"} : Return(how)
    BY <1>1
  <2>2. CASE kvfnc = 0
    BY <2>1, <2>2, OtherWorks
  <2>3. CASE kvfnc # 0
    BY <2>1, <2>3, ReturnReturns
  <2> QED BY <2>2, <2>3
<1>2. CASE \/ \E v \in prog.values : Operand(v)
           \/ OpenBracket \/ NegateValue \/ Select
           \/ NegateFailure \/ NextAlternative \/ LastAlternative
  BY <1>2, OperandWorks
<1>3. CASE (\E e \in prog.exprs, fresh \in BOOLEAN : Eval(e, fresh)) \/ EvalValue \/ EvalFailure
  BY <1>3, EvalWorks
<1>4. CASE Exfal \/ GotoTrap \/ Error \/ Err07 \/ Continue \/ SContinue \/ \E b \in Stmts : Goto(b)
  BY <1>4, FailureWorks
<1>5. CASE \/ \E v \in Vars : Assign(v)
           \/ \E b \in prog.traps \cup {None} : SetExit(b)
           \/ \E outcome \in {"compiled", "error"} : Code(outcome)
           \/ \E outcome \in {"compiled", "error", "unconvertible"} : Convert(outcome)
           \/ EvalBad \/ Fails \/ Errs \/ Undefined \/ Stop
  BY <1>5, OtherWorks
<1> QED BY <1>1, <1>2, <1>3, <1>4, <1>5, Zenon DEF Operate, Work

\* Calls and traces are calls of CallStack, all the others work or return.
LEMMA NextActs == ASSUME Inv, Inv', Next, faults' = {} PROVE Abstract!Next
<1>1. Step
  BY DEF Next
<1>2. CASE Operate
  BY <1>2, OperateWorks DEF Abstract!Next
<1>3. CASE \E f \in Functions, b \in Stmts, undefined \in BOOLEAN : Call(f, b, undefined)
  <2>1. PICK f \in Functions, b \in Stmts, undefined \in BOOLEAN : Call(f, b, undefined)
    BY <1>3
  <2>2. undefined = FALSE
    BY <2>1 DEF Call, Met
  <2>3. Abstract!Call(f)
    BY <2>1, <2>2, CallCalls
  <2> QED BY <2>3 DEF Abstract!Next
<1>4. CASE \E f \in Functions, b \in Stmts : Trace(f, b)
  <2>1. PICK f \in Functions, b \in Stmts : Trace(f, b)
    BY <1>4
  <2>2. Abstract!Call(f)
    BY <2>1, TraceCalls
  <2> QED BY <2>2 DEF Abstract!Next
<1>5. CASE EndTrace
  BY <1>5, EndTraceWorks DEF Abstract!Next
<1> QED BY <1>1, <1>2, <1>3, <1>4, <1>5, Zenon DEF Step

\* Until one of faults happens, calls and returns, by way of failures, errors, traps and
\* traces too, do what CallStack promises: a call keeps where it was and what its names
\* had, the last one that has not returned is the one a return ends, whatever there was
\* between, and its names have then what they had (b_pfc, retrn, trxeq).
THEOREM CallSpecHolds == Spec => CallSpec
<1>1. Init => Abstract!Init
  BY InitActs
<1>2. (faults = {} => Inv) /\ (faults = {} => Inv)' /\ [Next]_all
      => [faults' # {} \/ Abstract!Next]_<<[blk |-> r_cod, at |-> cp.at, path |-> cp.path], vars, Acts>>
  <2> SUFFICES ASSUME faults = {} => Inv, (faults = {} => Inv)', [Next]_all, faults' = {}
               PROVE  Abstract!Next
    OBVIOUS
  <2>0. Inv /\ Inv'
    BY FaultsStay
  <2>1. CASE Next
    BY <2>0, <2>1, NextActs
  <2>2. CASE UNCHANGED all
    <3>1. UNCHANGED <<stack, flprt, kvfnc>>
      BY <2>2 DEF all, regs
    <3>2. Abstract!Work
      BY <2>0, <3>1, IdleWorks
    <3> QED BY <3>2 DEF Abstract!Next
  <2> QED BY <2>1, <2>2
<1>3. Spec => [](faults = {} => Inv)
  BY Invariance
<1> QED BY <1>1, <1>2, <1>3, PTL DEF Spec, CallSpec, Abstract!state
=============================================================================
