------------------------------ MODULE Induction ------------------------------
(***************************************************************************)
(* What the proofs about recursive definitions rest on.  The library's     *)
(* induction theorems take an operator as a parameter; the least-number    *)
(* principle says the same of a set, and an induction on the length of a   *)
(* sequence is the least counterexample's refutation.                      *)
(***************************************************************************)
EXTENDS Integers, Sequences, SequencesExt, FiniteSets, FiniteSetTheorems,
        WellFoundedInduction, TLAPS

\* A set of natural numbers that is not empty has a least element.
LEMMA LeastNat ==
    ASSUME NEW T, T \subseteq Nat, T # {}
    PROVE  \E m \in T : \A k \in T : m <= k
<1> DEFINE below == {0 .. n : n \in T}
<1>1. below \subseteq FiniteSubsetsOf(Nat) /\ below # {}
  <2>1. \A n \in T : 0 .. n \subseteq Nat /\ IsFiniteSet(0 .. n)
    BY FS_Interval
  <2> QED BY <2>1 DEF FiniteSubsetsOf
<1>2. PICK x \in below : \A y \in below : ~(<<y, x>> \in StrictSubsetOrdering(Nat))
  <2> HIDE DEF below
  <2> QED BY <1>1, FS_StrictSubsetOrderingWellFounded, WFMin
<1>3. PICK m \in T : x = 0 .. m
  OBVIOUS
<1>4. ASSUME NEW k \in T, k < m PROVE FALSE
  <2>1. 0 .. k \subseteq 0 .. m /\ 0 .. k # 0 .. m /\ 0 .. k \in SUBSET Nat /\ 0 .. m \in SUBSET Nat
    <3>1. m \in 0 .. m /\ m \notin 0 .. k
      BY <1>4
    <3> QED BY <1>4, <3>1
  <2>2. <<0 .. k, 0 .. m>> \in StrictSubsetOrdering(Nat)
    <3> DEFINE a == 0 .. k
               b == 0 .. m
    <3>1. a \in SUBSET Nat /\ b \in SUBSET Nat /\ a \subseteq b /\ a # b
      BY <2>1
    <3> HIDE DEF a, b
    <3>2. <<a, b>> \in (SUBSET Nat) \X (SUBSET Nat) /\ <<a, b>>[1] = a /\ <<a, b>>[2] = b
      BY <3>1
    <3>3. <<a, b>> \in StrictSubsetOrdering(Nat)
      BY <3>1, <3>2 DEF StrictSubsetOrdering
    <3> QED BY <3>3 DEF a, b
  <2>3. 0 .. k \in below
    OBVIOUS
  <2> QED BY <2>2, <2>3, <1>2, <1>3
<1> QED BY <1>4

\* As an induction uses it: what fails for a number from 1 to n fails for a first
\* one, which is 1 or has a number before it for which it does not fail.
LEMMA FirstFailure ==
    ASSUME NEW n \in Nat, NEW T \in SUBSET (1 .. n), T # {}
    PROVE  \E m \in T : m = 1 \/ (m - 1 \in 1 .. n /\ m - 1 \notin T)
<1>1. PICK m \in T : \A k \in T : m <= k
  <2>1. T \subseteq Nat
    OBVIOUS
  <2> QED BY <2>1, LeastNat
<1>2. m \in 1 .. n
  OBVIOUS
<1>3. m - 1 \notin T
  BY <1>1, <1>2
<1> QED BY <1>2, <1>3

\* A step taken n times over, from x, gives a sequence of values.
IsStep(f, S, n) == f \in [S \X (1 .. n) -> S]
Iterates(g, f, n, x) == g[0] = x /\ \A i \in 1 .. n : g[i] = f[<<g[i - 1], i>>]

LEMMA Iteration ==
    ASSUME NEW S, NEW n \in Nat, NEW x \in S, NEW f, IsStep(f, S, n)
    PROVE  \E g : g \in [0 .. n -> S] /\ Iterates(g, f, n, x)
<1> DEFINE Solves(g, k) == Iterates(g, f, k, x)
           T == {k \in 1 .. n : ~ \E g \in [0 .. k -> S] : Solves(g, k)}
<1>1. \A y \in S, i \in 1 .. n : f[<<y, i>>] \in S
  BY DEF IsStep
<1>2. \E g \in [0 .. 0 -> S] : Solves(g, 0)
  <2> DEFINE g == [i \in 0 .. 0 |-> x]
  <2>1. g \in [0 .. 0 -> S] /\ Solves(g, 0)
    BY DEF Iterates
  <2> QED BY <2>1
<1>3. ASSUME T # {} PROVE FALSE
  <2>1. PICK m \in T : m = 1 \/ (m - 1 \in 1 .. n /\ m - 1 \notin T)
    <3>1. T \in SUBSET (1 .. n)
      OBVIOUS
    <3> HIDE DEF T
    <3> QED BY <1>3, <3>1, FirstFailure
  <2>2. m \in 1 .. n /\ ~ \E g \in [0 .. m -> S] : Solves(g, m)
    OBVIOUS
  <2>3. PICK h \in [0 .. m - 1 -> S] : Solves(h, m - 1)
    <3>1. CASE m = 1
      BY <1>2, <3>1
    <3>2. CASE m # 1
      BY <2>1, <3>2
    <3> QED BY <3>1, <3>2
  <2> DEFINE g == [i \in 0 .. m |-> IF i = m THEN f[<<h[m - 1], m>>] ELSE h[i]]
  <2>4. m - 1 \in 0 .. m - 1 /\ 0 \in 0 .. m - 1 /\ \A i \in 0 .. m : i # m => i \in 0 .. m - 1
    BY <2>2
  <2>5. h[m - 1] \in S /\ f[<<h[m - 1], m>>] \in S
    <3>1. h[m - 1] \in S
      BY <2>4
    <3> QED BY <1>1, <2>2, <3>1
  <2>6. g \in [0 .. m -> S]
    BY <2>4, <2>5
  <2>7. g[m] = f[<<h[m - 1], m>>] /\ \A i \in 0 .. m - 1 : g[i] = h[i]
    BY <2>2
  <2> HIDE DEF g
  <2>8. ASSUME NEW i \in 1 .. m PROVE g[i] = f[<<g[i - 1], i>>]
    <3>1. CASE i = m
      BY <2>4, <2>7, <3>1
    <3>2. CASE i # m
      <4>1. i \in 1 .. m - 1 /\ i - 1 \in 0 .. m - 1 /\ i \in 0 .. m - 1
        BY <2>2, <3>2
      <4> QED BY <2>3, <2>7, <4>1 DEF Iterates
    <3> QED BY <3>1, <3>2
  <2>9. Solves(g, m)
    BY <2>3, <2>4, <2>7, <2>8 DEF Iterates
  <2> HIDE DEF Solves
  <2> QED BY <2>2, <2>6, <2>9
<1>4. CASE n = 0
  BY <1>2, <1>4
<1>5. CASE n # 0
  <2>1. n \in 1 .. n
    BY <1>5
  <2> QED BY <1>3, <2>1
<1> QED BY <1>4, <1>5

\* A set that the first value is in and no step leaves has them all.
LEMMA Stays ==
    ASSUME NEW S, NEW n \in Nat, NEW h, h[0] \in S, \A i \in 1 .. n : h[i - 1] \in S => h[i] \in S
    PROVE  \A i \in 0 .. n : h[i] \in S
<1> DEFINE T == {i \in 1 .. n : h[i] \notin S}
<1>1. ASSUME T # {} PROVE FALSE
  <2>1. PICK m \in T : m = 1 \/ (m - 1 \in 1 .. n /\ m - 1 \notin T)
    <3>1. T \in SUBSET (1 .. n)
      OBVIOUS
    <3> HIDE DEF T
    <3> QED BY <1>1, <3>1, FirstFailure
  <2>2. m \in 1 .. n /\ h[m] \notin S
    OBVIOUS
  <2>3. h[m - 1] \in S
    BY <2>1, <2>2
  <2> QED BY <2>2, <2>3
<1>2. \A i \in 1 .. n : h[i] \in S
  BY <1>1
<1>3. \A i \in 0 .. n : i = 0 \/ i \in 1 .. n
  OBVIOUS
<1> QED BY <1>2, <1>3

\* The definition of FlattenSeq has a solution, one sequence for every prefix.
LEMMA FlattenExists ==
    ASSUME NEW X, NEW s \in Seq(Seq(X))
    PROVE  \A n \in 1 .. Len(s) : \E f \in [1 .. n -> Seq(X)] :
              \A i \in 1 .. n : f[i] = IF i = 1 THEN s[i] ELSE f[i - 1] \o s[i]
<1> DEFINE Solves(f, k) == \A i \in 1 .. k : f[i] = IF i = 1 THEN s[i] ELSE f[i - 1] \o s[i]
           T == {k \in 1 .. Len(s) : ~ \E f \in [1 .. k -> Seq(X)] : Solves(f, k)}
<1>1. Len(s) \in Nat /\ \A i \in 1 .. Len(s) : s[i] \in Seq(X)
  OBVIOUS
<1> SUFFICES ASSUME T # {} PROVE FALSE
  OBVIOUS
<1>2. PICK m \in T : m = 1 \/ (m - 1 \in 1 .. Len(s) /\ m - 1 \notin T)
  <2>1. T \in SUBSET (1 .. Len(s))
    OBVIOUS
  <2> HIDE DEF T
  <2> QED BY <1>1, <2>1, FirstFailure
<1>3. m \in 1 .. Len(s) /\ m \in Nat /\ s[m] \in Seq(X)
  BY <1>1
<1>4. ASSUME m = 1 PROVE FALSE
  <2> DEFINE g == [i \in 1 .. 1 |-> s[i]]
  <2>1. g \in [1 .. 1 -> Seq(X)] /\ Solves(g, 1)
    BY <1>3, <1>4
  <2> QED BY <1>4, <2>1
<1>5. ASSUME m # 1 PROVE FALSE
  <2>1. PICK f \in [1 .. m - 1 -> Seq(X)] : Solves(f, m - 1)
    BY <1>2, <1>5
  <2>2. m - 1 \in 1 .. m - 1
    BY <1>3, <1>5
  <2> DEFINE g == [i \in 1 .. m |-> IF i = m THEN f[m - 1] \o s[m] ELSE f[i]]
  <2>3. f[m - 1] \in Seq(X) /\ f[m - 1] \o s[m] \in Seq(X)
    <3>1. f[m - 1] \in Seq(X)
      BY <2>2
    <3> QED BY <3>1, <1>3
  <2>4. \A i \in 1 .. m : i # m => i \in 1 .. m - 1
    BY <1>3
  <2>5. g \in [1 .. m -> Seq(X)]
    BY <2>3, <2>4
  <2>6. ASSUME NEW i \in 1 .. m
        PROVE  g[i] = IF i = 1 THEN s[i] ELSE g[i - 1] \o s[i]
    <3>1. CASE i = m
      <4>1. m \in 1 .. m /\ m - 1 \in 1 .. m /\ m - 1 # m
        BY <1>3, <1>5
      <4>2. g[m] = f[m - 1] \o s[m] /\ g[m - 1] = f[m - 1]
        BY <4>1
      <4> HIDE DEF g
      <4> QED BY <3>1, <4>2, <1>5
    <3>2. CASE i # m
      <4>1. i \in 1 .. m - 1 /\ g[i] = f[i]
        BY <3>2, <2>4
      <4>2. i # 1 => i - 1 \in 1 .. m /\ i - 1 # m /\ g[i - 1] = f[i - 1]
        BY <4>1, <1>3
      <4>3. f[i] = IF i = 1 THEN s[i] ELSE f[i - 1] \o s[i]
        BY <4>1, <2>1
      <4> HIDE DEF g
      <4> QED BY <4>1, <4>2, <4>3
    <3> QED BY <3>1, <3>2
  <2>7. Solves(g, m)
    BY <2>6
  <2> HIDE DEF g, Solves
  <2> QED BY <2>5, <2>7
<1> QED BY <1>4, <1>5

\* What FlattenSeq is: the last of those sequences.
LEMMA FlattenIs ==
    ASSUME NEW X, NEW s \in Seq(Seq(X)), s # <<>>
    PROVE  \E f \in [1 .. Len(s) -> Seq(X)] :
              /\ \A i \in 1 .. Len(s) : f[i] = IF i = 1 THEN s[i] ELSE f[i - 1] \o s[i]
              /\ FlattenSeq(s) = f[Len(s)]
<1> DEFINE Is(f) == f = [i \in 1 .. Len(s) |-> IF i = 1 THEN s[i] ELSE f[i - 1] \o s[i]]
           flatten == CHOOSE f : Is(f)
<1>1. Len(s) \in 1 .. Len(s)
  OBVIOUS
<1>2. PICK f \in [1 .. Len(s) -> Seq(X)] :
          \A i \in 1 .. Len(s) : f[i] = IF i = 1 THEN s[i] ELSE f[i - 1] \o s[i]
  <2> DEFINE Solved(n) == \E f \in [1 .. n -> Seq(X)] :
                  \A i \in 1 .. n : f[i] = IF i = 1 THEN s[i] ELSE f[i - 1] \o s[i]
  <2>1. \A n \in 1 .. Len(s) : Solved(n)
    BY FlattenExists
  <2> HIDE DEF Solved
  <2>2. Solved(Len(s))
    BY <1>1, <2>1
  <2> QED BY <2>2 DEF Solved
<1>3. Is(f)
  BY <1>2
<1>4. Is(flatten)
  BY <1>3
<1>5. FlattenSeq(s) = flatten[Len(s)]
  BY <1>1 DEF FlattenSeq
<1>6. \A i \in 1 .. Len(s) : flatten[i] = IF i = 1 THEN s[i] ELSE flatten[i - 1] \o s[i]
  BY <1>4
<1> HIDE DEF flatten, Is
<1> DEFINE T == {i \in 1 .. Len(s) : flatten[i] # f[i]}
<1>7. ASSUME T # {} PROVE FALSE
  <2>1. PICK m \in T : m = 1 \/ (m - 1 \in 1 .. Len(s) /\ m - 1 \notin T)
    <3>1. T \in SUBSET (1 .. Len(s)) /\ Len(s) \in Nat
      OBVIOUS
    <3> HIDE DEF T
    <3> QED BY <1>7, <3>1, FirstFailure
  <2>2. m \in 1 .. Len(s) /\ flatten[m] # f[m]
    OBVIOUS
  <2>3. m = 1 \/ flatten[m - 1] = f[m - 1]
    BY <2>1
  <2> QED BY <2>2, <2>3, <1>2, <1>6
<1> QED BY <1>1, <1>2, <1>5, <1>7

\* One more sequence at the end goes to the end.
LEMMA FlattenAppend ==
    ASSUME NEW X, NEW s \in Seq(Seq(X)), NEW x \in Seq(X)
    PROVE  /\ FlattenSeq(s) \in Seq(X)
           /\ FlattenSeq(Append(s, x)) = FlattenSeq(s) \o x
<1>1. PICK t : t = Append(s, x)
  OBVIOUS
<1>2. t \in Seq(Seq(X)) /\ Len(t) = Len(s) + 1 /\ Len(s) \in Nat
  BY <1>1
<1>3. t[Len(s) + 1] = x /\ \A i \in 1 .. Len(s) : t[i] = s[i]
  BY <1>1
<1>4. PICK g \in [1 .. Len(t) -> Seq(X)] :
          /\ \A i \in 1 .. Len(t) : g[i] = IF i = 1 THEN t[i] ELSE g[i - 1] \o t[i]
          /\ FlattenSeq(t) = g[Len(t)]
  <2>1. t # <<>>
    BY <1>2
  <2> QED BY <1>2, <2>1, FlattenIs
<1>5. CASE s = <<>>
  <2>1. FlattenSeq(s) = <<>>
    BY <1>5 DEF FlattenSeq
  <2>2. Len(t) = 1 /\ g[1] = x
    BY <1>2, <1>3, <1>4, <1>5
  <2>3. <<>> \o x = x
    OBVIOUS
  <2> QED BY <2>1, <2>2, <2>3, <1>1, <1>4
<1>6. CASE s # <<>>
  <2>1. PICK f \in [1 .. Len(s) -> Seq(X)] :
            /\ \A i \in 1 .. Len(s) : f[i] = IF i = 1 THEN s[i] ELSE f[i - 1] \o s[i]
            /\ FlattenSeq(s) = f[Len(s)]
    BY <1>6, FlattenIs
  <2> DEFINE T == {i \in 1 .. Len(s) : f[i] # g[i]}
  <2>2. ASSUME T # {} PROVE FALSE
    <3>1. PICK m \in T : m = 1 \/ (m - 1 \in 1 .. Len(s) /\ m - 1 \notin T)
      <4>1. T \in SUBSET (1 .. Len(s))
        OBVIOUS
      <4> HIDE DEF T
      <4> QED BY <1>2, <2>2, <4>1, FirstFailure
    <3>2. m \in 1 .. Len(s) /\ f[m] # g[m]
      OBVIOUS
    <3>3. m = 1 \/ f[m - 1] = g[m - 1]
      BY <3>1
    <3>4. m \in 1 .. Len(t) /\ t[m] = s[m]
      BY <1>2, <1>3, <3>2
    <3> QED BY <3>2, <3>3, <3>4, <2>1, <1>4
  <2>3. Len(s) \in 1 .. Len(s) /\ Len(t) # 1 /\ Len(t) - 1 = Len(s) /\ Len(t) \in 1 .. Len(t)
    BY <1>2, <1>6
  <2>4. g[Len(t)] = g[Len(t) - 1] \o t[Len(t)]
    BY <1>4, <2>3
  <2>5. g[Len(s)] = f[Len(s)]
    BY <2>2, <2>3
  <2>6. f[Len(s)] \in Seq(X)
    BY <2>1, <2>3
  <2> HIDE DEF T
  <2> QED BY <1>1, <1>2, <1>3, <1>4, <2>1, <2>3, <2>4, <2>5, <2>6
<1> QED BY <1>5, <1>6
=============================================================================
