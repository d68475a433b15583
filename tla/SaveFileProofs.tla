---------------------------- MODULE SaveFileProofs ----------------------------
(***************************************************************************)
(* Proofs about SaveFile, for any number of processes, names and temporary *)
(* names, any memories, any sizes of word and buffer and any number of     *)
(* faults.                                                                 *)
(*                                                                         *)
(* None of the properties is inductive.  That what a rename puts in place  *)
(* is whole depends on what the process has written since it opened the    *)
(* file (Written: as many of the writes of its image as it has done), on   *)
(* nobody else having the name or the file meanwhile (Named, Written), and *)
(* on no inode having two names (Injective).  Inv below says all of it.    *)
(*                                                                         *)
(* First the coder is shown to give sequences, so that a save is a         *)
(* sequence of writes; then what each action does to its process; then     *)
(* that each part of Inv is kept; then the properties.                     *)
(***************************************************************************)
EXTENDS SaveFile, Induction

-----------------------------------------------------------------------------
(***************************************************************************)
(* Words.                                                                  *)
(***************************************************************************)

\* A power of two is a positive number: it counts the subsets of a set.
LEMMA PowerPositive ==
    ASSUME NEW n \in Nat
    PROVE  2 ^ n \in Nat \ {0}
<1>1. IsFiniteSet(1 .. n) /\ Cardinality(1 .. n) = n
  BY FS_Interval
<1>2. IsFiniteSet(SUBSET (1 .. n)) /\ Cardinality(SUBSET (1 .. n)) = 2 ^ n
  BY <1>1, FS_SUBSET
<1>3. SUBSET (1 .. n) # {}
  OBVIOUS
<1> QED BY <1>2, <1>3, FS_CardinalityType, FS_EmptySet

\* A word has one of FirstCode values, from 0 up.
LEMMA FirstCodePositive == FirstCode \in Nat \ {0} /\ Byte = 0 .. FirstCode - 1
<1>1. ByteBits \in Nat
  BY LzwAssumption
<1> QED BY <1>1, PowerPositive DEF FirstCode, Byte

\* A word less an address, plus the address, is the word again.
LEMMA WordBack ==
    ASSUME NEW w \in Byte, NEW a \in Byte
    PROVE  /\ Word(w - a + FirstCode) \in Byte
           /\ Word(Word(w - a + FirstCode) + a) = w
<1>1. PICK F \in Nat \ {0} : F = FirstCode
  BY FirstCodePositive
<1>2. w \in 0 .. F - 1 /\ a \in 0 .. F - 1
  BY <1>1, FirstCodePositive
<1>3. CASE w >= a
  <2>1. (w - a + F) % F = w - a
    BY <1>1, <1>2, <1>3
  <2>2. ((w - a) + a) % F = w
    BY <1>2
  <2> QED BY <1>1, <1>2, <1>3, <2>1, <2>2, FirstCodePositive DEF Word
<1>4. CASE w < a
  <2>1. (w - a + F) % F = w - a + F
    BY <1>1, <1>2, <1>4
  <2>2. ((w - a + F) + a) % F = w
    BY <1>1, <1>2
  <2> QED BY <1>1, <1>2, <1>4, <2>1, <2>2, FirstCodePositive DEF Word
<1> QED BY <1>2, <1>3, <1>4

\* putsave makes offsets of the pointers into the stack and of CP; rereloc makes
\* them the pointers they were.
LEMMA UnrelocBack ==
    ASSUME NEW m \in Memories
    PROVE  unreloc(m) \in Memories /\ rereloc(unreloc(m)) = m
<1> DEFINE s == m.work[1]
           d == m.work[3]
           u == unreloc(m)
<1>1. /\ s \in Byte /\ d \in Byte /\ m.work[5] \in Byte /\ m.regs[1] \in Byte
      /\ m.work \in [1 .. 5 -> Byte] /\ m.regs \in [1 .. 1 -> Byte]
  BY DEF Memories
<1>2. /\ u.work = [m.work EXCEPT ![5] = Word(@ - s + FirstCode)]
      /\ u.regs = [m.regs EXCEPT ![1] = Word(@ - d + FirstCode)]
      /\ u = [m EXCEPT !.work = u.work, !.regs = u.regs]
  BY DEF unreloc, Memories, stbas, dnamb
<1>3. /\ Word(m.work[5] - s + FirstCode) \in Byte
      /\ Word(Word(m.work[5] - s + FirstCode) + s) = m.work[5]
  BY <1>1, WordBack
<1>4. /\ Word(m.regs[1] - d + FirstCode) \in Byte
      /\ Word(Word(m.regs[1] - d + FirstCode) + d) = m.regs[1]
  BY <1>1, WordBack
<1> HIDE DEF s, d, u
<1>5. u.work \in [1 .. 5 -> Byte] /\ u.regs \in [1 .. 1 -> Byte]
  BY <1>1, <1>2, <1>3, <1>4
<1>6. u \in Memories
  BY <1>2, <1>5 DEF Memories
<1>7. stbas(u) = s /\ dnamb(u) = d
  BY <1>1, <1>2 DEF stbas, dnamb, s, d
<1>8. [u.work EXCEPT ![5] = Word(@ + s)] = m.work /\ [u.regs EXCEPT ![1] = Word(@ + d)] = m.regs
  BY <1>1, <1>2, <1>3, <1>4
<1>9. rereloc(u) = [u EXCEPT !.work = m.work, !.regs = m.regs]
  BY <1>6, <1>7, <1>8 DEF rereloc, Memories
<1>10. rereloc(u) = m
  BY <1>2, <1>6, <1>9 DEF Memories
<1> QED BY <1>6, <1>10 DEF u

-----------------------------------------------------------------------------
(***************************************************************************)
(* What is written: whatever the bytes are, they are a sequence.           *)
(***************************************************************************)
IsASeq(s) == \E X : s \in Seq(X)

\* A function of 1 .. n is a sequence of n elements.
LEMMA SeqOfFunction ==
    ASSUME NEW n \in Nat, NEW s, DOMAIN s = 1 .. n, s = [i \in 1 .. n |-> s[i]]
    PROVE  IsASeq(s)
<1>1. s \in [1 .. n -> {s[i] : i \in 1 .. n}]
  OBVIOUS
<1>2. s \in Seq({s[i] : i \in 1 .. n})
  BY <1>1
<1> QED BY <1>2 DEF IsASeq

\* Two sequences, one after the other.
LEMMA SeqConcat ==
    ASSUME NEW s, NEW t, IsASeq(s), IsASeq(t)
    PROVE  IsASeq(s \o t)
<1>1. PICK X : s \in Seq(X)
  BY DEF IsASeq
<1>2. PICK Y : t \in Seq(Y)
  BY DEF IsASeq
<1>3. s \in Seq(X \cup Y) /\ t \in Seq(X \cup Y)
  BY <1>1, <1>2
<1>4. s \o t \in Seq(X \cup Y)
  BY <1>3
<1> QED BY <1>4 DEF IsASeq

\* An element after a sequence.
LEMMA SeqAppend ==
    ASSUME NEW s, NEW e, IsASeq(s)
    PROVE  IsASeq(Append(s, e))
<1>1. PICK X : s \in Seq(X)
  BY DEF IsASeq
<1>2. s \in Seq(X \cup {e})
  BY <1>1
<1>3. Append(s, e) \in Seq(X \cup {e})
  BY <1>2
<1> QED BY <1>3 DEF IsASeq

\* A sequence of sequences, with one set for the elements of all.
LEMMA SeqsOfOne ==
    ASSUME NEW n \in Nat, NEW s, DOMAIN s = 1 .. n, s = [i \in 1 .. n |-> s[i]],
           \A i \in 1 .. n : IsASeq(s[i])
    PROVE  \E X : s \in Seq(Seq(X))
<1> DEFINE Y(i) == CHOOSE X : s[i] \in Seq(X)
           Z == UNION {Y(i) : i \in 1 .. n}
<1>1. ASSUME NEW i \in 1 .. n PROVE s[i] \in Seq(Z)
  <2>1. s[i] \in Seq(Y(i))
    BY DEF IsASeq
  <2>2. Y(i) \subseteq Z
    OBVIOUS
  <2> HIDE DEF Y, Z
  <2> QED BY <2>1, <2>2
<1> HIDE DEF Z
<1>2. s \in [1 .. n -> Seq(Z)]
  BY <1>1
<1>3. s \in Seq(Seq(Z))
  BY <1>2
<1> QED BY <1>3

\* output_code adds bytes to those there are.
LEMMA OutputCode ==
    ASSUME NEW z, NEW code, z.count \in Nat, IsASeq(z.bytes)
    PROVE  output_code(z, code).count \in Nat /\ IsASeq(output_code(z, code).bytes)
<1>1. ByteBits \in Nat \ {0} /\ LzwBits \in Nat
  BY LzwAssumption
<1> DEFINE n == (z.count + LzwBits) \div ByteBits
           bits == (z.bits + code * 2 ^ (Window - LzwBits - z.count)) % 2 ^ LongBits
           new == [i \in 1 .. n |-> (bits \div 2 ^ (Window - i * ByteBits)) % 2 ^ ByteBits]
<1>2. n \in Nat /\ (z.count + LzwBits) % ByteBits \in Nat
  <2>1. z.count + LzwBits \in Nat
    BY <1>1
  <2> QED BY <1>1, <2>1
<1>3. IsASeq(new)
  <2> HIDE DEF n, bits
  <2> DEFINE b(i) == (bits \div 2 ^ (Window - i * ByteBits)) % 2 ^ ByteBits
  <2>1. new = [i \in 1 .. n |-> b(i)]
    OBVIOUS
  <2> HIDE DEF b, new
  <2>2. DOMAIN new = 1 .. n /\ new = [i \in 1 .. n |-> new[i]]
    BY <2>1
  <2> QED BY <1>2, <2>2, SeqOfFunction
<1>4. IsASeq(z.bytes \o new)
  <2> HIDE DEF new
  <2> QED BY <1>3, SeqConcat
<1>5. output_code(z, code).bytes = z.bytes \o new
  BY DEF output_code
<1>6. output_code(z, code).count = (z.count + LzwBits) % ByteBits
  BY DEF output_code
<1> QED BY <1>2, <1>4, <1>5, <1>6

\* TakeChar adds codes to those there are.
LEMMA TakeCharCodes ==
    ASSUME NEW s, NEW char, "codes" \in DOMAIN s, IsASeq(s.codes)
    PROVE  "codes" \in DOMAIN TakeChar(s, char) /\ IsASeq(TakeChar(s, char).codes)
<1> DEFINE index == find_match(s.table, s.string, char)
<1>1. CASE s.table[index] # Empty
  <2>1. TakeChar(s, char) = [s EXCEPT !.string = s.table[index].code]
    BY <1>1 DEF TakeChar
  <2> HIDE DEF index
  <2> QED BY <2>1
<1>2. CASE ~(s.table[index] # Empty)
  <2>1. TakeChar(s, char).codes = Append(s.codes, s.string) /\ "codes" \in DOMAIN TakeChar(s, char)
    BY <1>2 DEF TakeChar
  <2> QED BY <2>1, SeqAppend
<1> QED BY <1>1, <1>2

\* The recursive functions of Packed and compress: they have a solution, which
\* their CHOOSE then is.
Coding(z, n, all, base) ==
    z = [i \in 0 .. n |-> IF i = 0 THEN base ELSE output_code(z[i - 1], all[i])]

Compressing(z, n, section, first) ==
    z = [i \in 0 .. n |-> IF i = 0 THEN first ELSE TakeChar(z[i - 1], section[i + 1])]

\* The states of the coder's output after each code exist.
LEMMA PackedExists ==
    ASSUME NEW n \in Nat, NEW all, NEW base
    PROVE  \E z : Coding(z, n, all, base)
<1> DEFINE Solved(k) == \E z : z = [i \in 0 .. k |-> IF i = 0 THEN base ELSE output_code(z[i - 1], all[i])]
           T == {k \in 1 .. n : ~Solved(k)}
<1>1. Solved(0)
  <2> DEFINE z == [i \in 0 .. 0 |-> base]
  <2>1. z = [i \in 0 .. 0 |-> IF i = 0 THEN base ELSE output_code(z[i - 1], all[i])]
    OBVIOUS
  <2> HIDE DEF z
  <2> QED BY <2>1
<1>2. ASSUME NEW m \in 1 .. n, Solved(m - 1) PROVE Solved(m)
  <2>1. PICK z : z = [i \in 0 .. m - 1 |-> IF i = 0 THEN base ELSE output_code(z[i - 1], all[i])]
    BY <1>2
  <2> DEFINE g == [i \in 0 .. m |-> IF i = m THEN output_code(z[m - 1], all[m]) ELSE z[i]]
  <2>2. ASSUME NEW i \in 0 .. m
        PROVE  g[i] = IF i = 0 THEN base ELSE output_code(g[i - 1], all[i])
    <3>1. CASE i = m
      <4>1. m \in 0 .. m /\ m - 1 \in 0 .. m /\ m - 1 # m /\ m # 0
        OBVIOUS
      <4>2. g[m] = output_code(z[m - 1], all[m]) /\ g[m - 1] = z[m - 1]
        BY <4>1
      <4> HIDE DEF g
      <4> QED BY <3>1, <4>1, <4>2
    <3>2. CASE i # m
      <4>1. i \in 0 .. m - 1 /\ g[i] = z[i]
        BY <3>2
      <4>2. i # 0 => i - 1 \in 0 .. m /\ i - 1 # m /\ g[i - 1] = z[i - 1]
        BY <4>1
      <4>3. z[i] = IF i = 0 THEN base ELSE output_code(z[i - 1], all[i])
        BY <4>1, <2>1
      <4> HIDE DEF g
      <4> QED BY <4>1, <4>2, <4>3
    <3> QED BY <3>1, <3>2
  <2>3. g = [i \in 0 .. m |-> g[i]]
    OBVIOUS
  <2> HIDE DEF g
  <2>4. g = [i \in 0 .. m |-> IF i = 0 THEN base ELSE output_code(g[i - 1], all[i])]
    BY <2>2, <2>3
  <2> QED BY <2>4
<1> HIDE DEF Solved
<1>3. ASSUME T # {} PROVE FALSE
  <2>1. PICK m \in T : m = 1 \/ (m - 1 \in 1 .. n /\ m - 1 \notin T)
    <3>1. T \in SUBSET (1 .. n)
      OBVIOUS
    <3> HIDE DEF T
    <3> QED BY <1>3, <3>1, FirstFailure
  <2>2. Solved(m - 1)
    BY <1>1, <2>1
  <2> QED BY <1>2, <2>2
<1>4. Solved(n)
  <2>1. n = 0 \/ n \in 1 .. n
    OBVIOUS
  <2> QED BY <1>1, <1>3, <2>1
<1> QED BY <1>4 DEF Solved, Coding

\* The states of compress after each character exist.
LEMMA CompressExists ==
    ASSUME NEW n \in Nat, NEW section, NEW first
    PROVE  \E z : Compressing(z, n, section, first)
<1> DEFINE Solved(k) == \E z : z = [i \in 0 .. k |-> IF i = 0 THEN first ELSE TakeChar(z[i - 1], section[i + 1])]
           T == {k \in 1 .. n : ~Solved(k)}
<1>1. Solved(0)
  <2> DEFINE z == [i \in 0 .. 0 |-> first]
  <2>1. z = [i \in 0 .. 0 |-> IF i = 0 THEN first ELSE TakeChar(z[i - 1], section[i + 1])]
    OBVIOUS
  <2> HIDE DEF z
  <2> QED BY <2>1
<1>2. ASSUME NEW m \in 1 .. n, Solved(m - 1) PROVE Solved(m)
  <2>1. PICK z : z = [i \in 0 .. m - 1 |-> IF i = 0 THEN first ELSE TakeChar(z[i - 1], section[i + 1])]
    BY <1>2
  <2> DEFINE g == [i \in 0 .. m |-> IF i = m THEN TakeChar(z[m - 1], section[m + 1]) ELSE z[i]]
  <2>2. ASSUME NEW i \in 0 .. m
        PROVE  g[i] = IF i = 0 THEN first ELSE TakeChar(g[i - 1], section[i + 1])
    <3>1. CASE i = m
      <4>1. m \in 0 .. m /\ m - 1 \in 0 .. m /\ m - 1 # m /\ m # 0
        OBVIOUS
      <4>2. g[m] = TakeChar(z[m - 1], section[m + 1]) /\ g[m - 1] = z[m - 1]
        BY <4>1
      <4> HIDE DEF g
      <4> QED BY <3>1, <4>1, <4>2
    <3>2. CASE i # m
      <4>1. i \in 0 .. m - 1 /\ g[i] = z[i]
        BY <3>2
      <4>2. i # 0 => i - 1 \in 0 .. m /\ i - 1 # m /\ g[i - 1] = z[i - 1]
        BY <4>1
      <4>3. z[i] = IF i = 0 THEN first ELSE TakeChar(z[i - 1], section[i + 1])
        BY <4>1, <2>1
      <4> HIDE DEF g
      <4> QED BY <4>1, <4>2, <4>3
    <3> QED BY <3>1, <3>2
  <2>3. g = [i \in 0 .. m |-> g[i]]
    OBVIOUS
  <2> HIDE DEF g
  <2>4. g = [i \in 0 .. m |-> IF i = 0 THEN first ELSE TakeChar(g[i - 1], section[i + 1])]
    BY <2>2, <2>3
  <2> QED BY <2>4
<1> HIDE DEF Solved
<1>3. ASSUME T # {} PROVE FALSE
  <2>1. PICK m \in T : m = 1 \/ (m - 1 \in 1 .. n /\ m - 1 \notin T)
    <3>1. T \in SUBSET (1 .. n)
      OBVIOUS
    <3> HIDE DEF T
    <3> QED BY <1>3, <3>1, FirstFailure
  <2>2. Solved(m - 1)
    BY <1>1, <2>1
  <2> QED BY <1>2, <2>2
<1>4. Solved(n)
  <2>1. n = 0 \/ n \in 1 .. n
    OBVIOUS
  <2> QED BY <1>1, <1>3, <2>1
<1> QED BY <1>4 DEF Solved, Compressing

\* Codes become a sequence of bytes.
LEMMA PackedSeq ==
    ASSUME NEW codes, IsASeq(codes)
    PROVE  IsASeq(Packed(codes))
<1>1. PICK all, base : all = Append(codes, 0) /\ base = [bits |-> 0, count |-> 0, bytes |-> <<>>]
  OBVIOUS
<1>2. PICK n \in Nat : n = Len(all)
  <2>1. PICK X : all \in Seq(X)
    BY <1>1, SeqAppend DEF IsASeq
  <2> QED BY <2>1
<1> DEFINE z == CHOOSE f : Coding(f, n, all, base)
<1>3. Coding(z, n, all, base)
  BY PackedExists
<1>4. Packed(codes) = z[n].bytes
  BY <1>1, <1>2 DEF Packed, Coding
<1>5. \A i \in 0 .. n : z[i] = IF i = 0 THEN base ELSE output_code(z[i - 1], all[i])
  BY <1>3 DEF Coding
<1> HIDE DEF z
<1> DEFINE Good(i) == z[i].count \in Nat /\ IsASeq(z[i].bytes)
           T == {k \in 1 .. n : ~Good(k)}
<1>6. Good(0)
  <2>1. z[0].count = 0 /\ z[0].bytes = <<>>
    BY <1>1, <1>5
  <2>2. <<>> \in Seq({})
    OBVIOUS
  <2> QED BY <2>1, <2>2 DEF IsASeq
<1>7. ASSUME NEW m \in 1 .. n, Good(m - 1) PROVE Good(m)
  <2>1. z[m] = output_code(z[m - 1], all[m])
    BY <1>5
  <2> QED BY <1>7, <2>1, OutputCode
<1> HIDE DEF Good
<1>8. ASSUME T # {} PROVE FALSE
  <2>1. PICK m \in T : m = 1 \/ (m - 1 \in 1 .. n /\ m - 1 \notin T)
    <3>1. T \in SUBSET (1 .. n)
      OBVIOUS
    <3> HIDE DEF T
    <3> QED BY <1>8, <3>1, FirstFailure
  <2>2. Good(m - 1)
    BY <1>6, <2>1
  <2> QED BY <1>7, <2>2
<1>9. Good(n)
  <2>1. n = 0 \/ n \in 1 .. n
    OBVIOUS
  <2> QED BY <1>6, <1>8, <2>1
<1> QED BY <1>4, <1>9 DEF Good

\* A section becomes a sequence of codes.
LEMMA CompressSeq ==
    ASSUME NEW section, IsASeq(section)
    PROVE  IsASeq(compress(section))
<1>1. CASE section = <<>>
  <2>1. compress(section) = <<>> /\ <<>> \in Seq({})
    BY <1>1 DEF compress
  <2> QED BY <2>1 DEF IsASeq
<1>2. CASE section # <<>>
  <2>1. PICK first : first = [table |-> ClearTable, next |-> FirstCode,
                              string |-> Head(section), codes |-> <<>>]
    OBVIOUS
  <2>2. PICK n \in Nat : n = Len(section) - 1
    <3>1. PICK X : section \in Seq(X)
      BY DEF IsASeq
    <3> QED BY <1>2, <3>1
  <2> DEFINE z == CHOOSE f : Compressing(f, n, section, first)
  <2>3. Compressing(z, n, section, first)
    BY CompressExists
  <2>4. compress(section) = z[n].codes \o <<z[n].string, MAX_VALUE>>
    BY <1>2, <2>1, <2>2 DEF compress, Compressing
  <2>5. \A i \in 0 .. n : z[i] = IF i = 0 THEN first ELSE TakeChar(z[i - 1], section[i + 1])
    BY <2>3 DEF Compressing
  <2> HIDE DEF z
  <2> DEFINE Good(i) == "codes" \in DOMAIN z[i] /\ IsASeq(z[i].codes)
             T == {k \in 1 .. n : ~Good(k)}
  <2>6. Good(0)
    <3>1. "codes" \in DOMAIN z[0] /\ z[0].codes = <<>>
      BY <2>1, <2>5
    <3>2. <<>> \in Seq({})
      OBVIOUS
    <3> QED BY <3>1, <3>2 DEF IsASeq
  <2>7. ASSUME NEW m \in 1 .. n, Good(m - 1) PROVE Good(m)
    <3>1. z[m] = TakeChar(z[m - 1], section[m + 1])
      BY <2>5
    <3> QED BY <2>7, <3>1, TakeCharCodes
  <2> HIDE DEF Good
  <2>8. ASSUME T # {} PROVE FALSE
    <3>1. PICK m \in T : m = 1 \/ (m - 1 \in 1 .. n /\ m - 1 \notin T)
      <4>1. T \in SUBSET (1 .. n)
        OBVIOUS
      <4> HIDE DEF T
      <4> QED BY <2>8, <4>1, FirstFailure
    <3>2. Good(m - 1)
      BY <2>6, <3>1
    <3> QED BY <2>7, <3>2
  <2>9. Good(n)
    <3>1. n = 0 \/ n \in 1 .. n
      OBVIOUS
    <3> QED BY <2>6, <2>8, <3>1
  <2>10. IsASeq(<<z[n].string, MAX_VALUE>>)
    <3>1. <<z[n].string, MAX_VALUE>> \in Seq({z[n].string, MAX_VALUE})
      OBVIOUS
    <3> QED BY <3>1 DEF IsASeq
  <2> QED BY <2>4, <2>9, <2>10, SeqConcat DEF Good
<1> QED BY <1>1, <1>2

-----------------------------------------------------------------------------
\* The sections of a memory are sequences.
LEMMA SectionsSeq ==
    ASSUME NEW m \in Memories, NEW i \in 1 .. 6
    PROVE  IsASeq(Sections(m)[i])
<1>1. /\ m.uarg \in Seq(Byte) /\ m.stack \in Seq(Byte) /\ m.work \in [1 .. 5 -> Byte]
      /\ m.static \in Seq(Byte) /\ m.dyn \in Seq(Byte) /\ m.regs \in [1 .. 1 -> Byte]
  BY DEF Memories
<1>2. m.work \in Seq(Byte) /\ m.regs \in Seq(Byte)
  <2>1. \A n \in Nat : [1 .. n -> Byte] \subseteq Seq(Byte)
    OBVIOUS
  <2> QED BY <1>1, <2>1
<1>3. Uarg(m) \in Seq(Byte)
  BY <1>1, SaveAssumption DEF Uarg
<1> QED BY <1>1, <1>2, <1>3 DEF Sections, IsASeq

\* The bytes of a compressed file, cut into buffers.
LEMMA ChunksSeq ==
    ASSUME NEW bytes, IsASeq(bytes)
    PROVE  /\ IsASeq(Chunks(bytes))
           /\ \A i \in 1 .. Len(Chunks(bytes)) : IsASeq(Chunks(bytes)[i])
<1>1. PICK X : bytes \in Seq(X)
  BY DEF IsASeq
<1>2. BuffSize \in Nat \ {0} /\ Len(bytes) \in Nat
  BY <1>1, SaveAssumption
<1> DEFINE n == (Len(bytes) + BuffSize - 1) \div BuffSize
           part(i) == SubSeq(bytes, (i - 1) * BuffSize + 1,
                             IF i * BuffSize < Len(bytes) THEN i * BuffSize ELSE Len(bytes))
<1>3. n \in Nat
  <2>1. Len(bytes) + BuffSize - 1 \in Nat
    BY <1>2
  <2> QED BY <1>2, <2>1
<1>4. Chunks(bytes) = [i \in 1 .. n |-> part(i)]
  BY DEF Chunks
<1>5. ASSUME NEW i \in 1 .. n PROVE IsASeq(part(i))
  <2>1. (i - 1) * BuffSize + 1 \in Nat \ {0} /\ i * BuffSize \in Nat
    <3>1. i - 1 \in Nat /\ i \in Nat
      BY <1>3
    <3> QED BY <1>2, <3>1
  <2>2. part(i) \in Seq(X)
    <3>1. PICK a, b : /\ a = (i - 1) * BuffSize + 1
                      /\ b = IF i * BuffSize < Len(bytes) THEN i * BuffSize ELSE Len(bytes)
      OBVIOUS
    <3>2. a \in Nat \ {0} /\ b \in Nat /\ b <= Len(bytes)
      BY <1>2, <2>1, <3>1
    <3>3. SubSeq(bytes, a, b) \in Seq(X)
      BY <1>1, <3>2
    <3> QED BY <3>1, <3>3
  <2> QED BY <2>2 DEF IsASeq
<1> HIDE DEF n, part
<1>6. DOMAIN Chunks(bytes) = 1 .. n /\ Chunks(bytes) = [i \in 1 .. n |-> Chunks(bytes)[i]]
  BY <1>4
<1>7. Len(Chunks(bytes)) = n
  BY <1>3, <1>4
<1> QED BY <1>3, <1>4, <1>5, <1>6, <1>7, SeqOfFunction

\* What putsave writes is a sequence of writes, each of a sequence of cells.
LEMMA WritesSeq ==
    ASSUME NEW m \in Memories, NEW room \in BOOLEAN
    PROVE  \E X : Writes(m, room) \in Seq([cells : Seq(X), checked : BOOLEAN])
<1> DEFINE codes == [i \in 1 .. 6 |-> compress(Sections(m)[i])]
<1>1. IsASeq(Compressed(m))
  <2>1. \A i \in 1 .. 6 : IsASeq(codes[i])
    BY SectionsSeq, CompressSeq
  <2>2. DOMAIN codes = 1 .. 6 /\ codes = [i \in 1 .. 6 |-> codes[i]]
    OBVIOUS
  <2> HIDE DEF codes
  <2>3. PICK X : codes \in Seq(Seq(X))
    BY <2>1, <2>2, SeqsOfOne
  <2>4. IsASeq(FlattenSeq(codes))
    <3>1. \A x \in Seq(X) : FlattenSeq(codes) \in Seq(X)
      BY <2>3, FlattenAppend
    <3>2. <<>> \in Seq(X)
      OBVIOUS
    <3> QED BY <3>1, <3>2 DEF IsASeq
  <2> QED BY <2>4, PackedSeq DEF Compressed, codes
<1>2. PICK data : data = IF room THEN Chunks(Compressed(m)) ELSE Sections(m)
  OBVIOUS
<1>3. IsASeq(data) /\ \A i \in 1 .. Len(data) : IsASeq(data[i])
  <2>1. CASE room
    BY <1>1, <1>2, <2>1, ChunksSeq
  <2>2. CASE ~room
    <3>1. data = Sections(m) /\ Len(data) = 6
      BY <1>2, <2>2 DEF Sections
    <3>2. DOMAIN data = 1 .. 6 /\ data = [i \in 1 .. 6 |-> data[i]]
      BY <3>1 DEF Sections
    <3> QED BY <3>1, <3>2, SectionsSeq, SeqOfFunction
  <2> QED BY <2>1, <2>2
<1>4. PICK n \in Nat : n = Len(data) /\ DOMAIN data = 1 .. n
  BY <1>3 DEF IsASeq
<1> DEFINE head == <<[cells |-> Header(m, room), checked |-> TRUE]>>
           rest == [i \in DOMAIN data |-> [cells |-> data[i], checked |-> ~room]]
<1>5. Writes(m, room) = head \o rest
  BY <1>2 DEF Writes
<1>6. IsASeq(Header(m, room))
  <2>1. DOMAIN Header(m, room) = 1 .. 6 /\ Header(m, room) = [i \in 1 .. 6 |-> Header(m, room)[i]]
    BY DEF Header
  <2> QED BY <2>1, SeqOfFunction
<1>7. PICK X : Header(m, room) \in Seq(X) /\ \A i \in 1 .. n : data[i] \in Seq(X)
  <2>1. PICK H : Header(m, room) \in Seq(H)
    BY <1>6 DEF IsASeq
  <2>2. PICK D : data \in Seq(Seq(D))
    BY <1>3, <1>4, SeqsOfOne DEF IsASeq
  <2>3. \A i \in 1 .. n : data[i] \in Seq(D)
    BY <1>4, <2>2
  <2>4. Header(m, room) \in Seq(H \cup D) /\ \A i \in 1 .. n : data[i] \in Seq(H \cup D)
    BY <2>1, <2>3
  <2> QED BY <2>4
<1>8. head \in Seq([cells : Seq(X), checked : BOOLEAN])
  BY <1>7
<1>9. rest \in Seq([cells : Seq(X), checked : BOOLEAN])
  <2>1. rest \in [1 .. n -> [cells : Seq(X), checked : BOOLEAN]]
    BY <1>4, <1>7
  <2> HIDE DEF rest
  <2> DEFINE R == [cells : Seq(X), checked : BOOLEAN]
  <2>2. rest \in [1 .. n -> R]
    BY <2>1
  <2> HIDE DEF R
  <2>3. rest \in Seq(R)
    BY <2>2
  <2> QED BY <2>3 DEF R
<1> HIDE DEF head, rest
<1>10. Writes(m, room) \in Seq([cells : Seq(X), checked : BOOLEAN])
  BY <1>5, <1>8, <1>9
<1> QED BY <1>10

-----------------------------------------------------------------------------
(***************************************************************************)
(* The inductive invariant.                                                *)
(***************************************************************************)
Fields == {"pc", "mem", "image", "saved", "room", "ia", "fn", "n", "m", "fd", "pos",
           "todo", "retval", "result", "exits"}

PCs == {"idle", "access", "open", "put", "write", "unlink", "rename", "discard", "gone"}

\* Has opened its temporary file; has written it to the end; has a temporary
\* file, or has found no name for one.
Writer(q) == q.pc \in {"put", "write"} /\ q.fd # NoFile
Done(q)   == q.pc \in {"unlink", "rename"}
Uses(q)   == Writer(q) \/ Done(q)
Active(q) == q.pc \notin {"idle", "gone", "access", "open"}

ProcType(q) ==
    /\ DOMAIN q = Fields
    /\ q.pc \in PCs /\ q.room \in BOOLEAN /\ q.image \in Memories
    /\ q.n \in Temp /\ q.fd \in Inode \cup {NoFile}
    /\ q.pc \notin {"idle", "gone"} => q.fn \in Target
    /\ q.pc \notin {"put", "write"} => q.fd = NoFile

\* The memory is that of the program but while putsave writes it.
MemoryOf(q) ==
    /\ q.mem = IF q.pc = "write" THEN unreloc(q.image) ELSE q.image
    /\ q.pc \in {"write", "unlink", "rename"} => q.saved = unreloc(q.image)

\* What is left to be written.
Image(q) == Writes(unreloc(q.image), q.room)

ToWrite(q) ==
    /\ q.pc \in {"access", "open", "put"} => q.todo = Image(q)
    /\ q.pc \in {"put", "write"} /\ q.fd = NoFile => q.retval # 0

TypeInv ==
    /\ dir \in [Names -> Inode \cup {NoFile}]
    /\ DOMAIN disk = Inode
    /\ DOMAIN proc = Proc
    /\ faults \in Nat
    /\ DOMAIN hist = {"saved", "lost", "flawed", "died"}
    /\ hist.died \in Nat /\ hist.saved \subseteq Target
    /\ \A p \in Proc : ProcType(proc[p]) /\ MemoryOf(proc[p]) /\ ToWrite(proc[p])

\* A name names one file.
Injective == \A a, b \in Names : dir[a] = dir[b] /\ dir[a] # NoFile => a = b

\* A file under the temporary name of a process that writes or is about to
\* rename, if it is not flawed, is the file of that process alone, and is whole
\* when all has been written.
Named ==
    \A p \in Proc :
      LET q == proc[p]
      IN  Uses(q) /\ dir[q.n] # NoFile /\ dir[q.n] \notin hist.flawed =>
            /\ \A r \in Proc \ {p} : ~(proc[r].n = q.n /\ Uses(proc[r]))
            /\ Writer(q) => q.fd = dir[q.n]
            /\ Done(q) => disk[dir[q.n]] = Complete(unreloc(q.image), q.room)

\* The cells of the first k writes.
Prefix(w, k) == FlattenSeq([i \in 1 .. k |-> w[i].cells])

\* k writes are done, and file is what they have left.
Progress(q, file, k) ==
    /\ q.todo = SubSeq(Image(q), k + 1, Len(Image(q)))
    /\ file = Prefix(Image(q), k)
    /\ q.pos = Len(file)

\* The file a process writes, if it is not flawed, is written by that process
\* alone, has no other name, and holds the writes done so far, unless one failed.
Written ==
    \A p \in Proc :
      LET q == proc[p]
      IN  Writer(q) /\ q.fd \notin hist.flawed =>
            /\ \A r \in Proc \ {p} : proc[r].fd # q.fd
            /\ \A f \in Names : dir[f] = q.fd => f = q.n
            /\ q.retval = 0 => \E k \in 0 .. Len(Image(q)) : Progress(q, disk[q.fd], k)

\* The first half of Kept.
NamesKept ==
    \A f \in hist.saved \ hist.lost :
        dir[f] # NoFile \/ \E p \in Proc : proc[p].pc = "rename" /\ proc[p].fn = f

\* Its second half: every temporary file is one of those the dead have left, D,
\* or has the name of a process that is writing.
Littered(D) ==
    /\ D \in SUBSET Temp /\ Cardinality(D) <= hist.died
    /\ \A t \in Temp : dir[t] # NoFile =>
          t \in D \/ \E p \in Proc : Active(proc[p]) /\ proc[p].n = t

TempKept == \E D \in SUBSET Temp : Littered(D)

Inv == TypeInv /\ Injective /\ Named /\ Written /\ NamesKept /\ TempKept

-----------------------------------------------------------------------------
(***************************************************************************)
(* What each action does to the process that takes it, a before and b      *)
(* after, and that it leaves the others alone.                             *)
(***************************************************************************)
Others(p) == DOMAIN proc' = Proc /\ \A r \in Proc \ {p} : proc'[r] = proc[r]

SameSave(a, b) == b.image = a.image /\ b.room = a.room /\ b.fn = a.fn

\* What SaveAssumption says of names and inodes.
LEMMA Constants ==
    /\ NoFile \notin Inode /\ Temp \subseteq Nat /\ 0 \in Temp
    /\ Target \cap Temp = {} /\ Temp \subseteq Names /\ Target \subseteq Names
    /\ \A n \in Temp : NextTemp(n) \in Temp
<1>1. TempNames \in Nat \ {0}
  BY SaveAssumption
<1>2. \A n \in Temp : NextTemp(n) \in Temp
  BY <1>1 DEF Temp, NextTemp
<1> QED BY <1>1, <1>2, SaveAssumption DEF NoFile, Inode, Temp, Names

\* Exit begins a save of the memory as it is.
LEMMA ExitFacts ==
    ASSUME TypeInv, NEW p \in Proc, Exit(p), NEW a, NEW b, a = proc[p], b = proc'[p]
    PROVE  /\ Others(p) /\ DOMAIN b = Fields /\ UNCHANGED <<dir, disk, faults, hist>>
           /\ a.pc = "idle" /\ b.pc = "access" /\ b.image = a.image /\ b.mem = a.mem /\ b.fd = a.fd
           /\ b.room \in BOOLEAN /\ b.fn \in Target /\ b.n \in Temp
           /\ b.todo = Writes(unreloc(a.mem), b.room)
  BY DEF TypeInv, ProcType, Exit, Others, Fields

\* Access takes the name, tries the next one, or gives up with an error.
LEMMA AccessFacts ==
    ASSUME TypeInv, NEW p \in Proc, Access(p), NEW a, NEW b, a = proc[p], b = proc'[p]
    PROVE  /\ Others(p) /\ DOMAIN b = Fields /\ UNCHANGED <<dir, disk, faults, hist>>
           /\ a.pc = "access" /\ SameSave(a, b) /\ b.mem = a.mem /\ b.fd = a.fd /\ b.todo = a.todo
           /\ b.n \in Temp
           /\ b.pc \in {"access", "open"} \/ (b.pc = "put" /\ b.retval # 0)
<1>1. /\ a.pc = "access" /\ DOMAIN a = Fields /\ a.n \in Temp
      /\ UNCHANGED <<dir, disk, faults, hist>>
  BY DEF TypeInv, ProcType, Access
<1>2. \/ b = [a EXCEPT !.pc = "open"]
      \/ b = [a EXCEPT !.pc = "put", !.retval = -1]
      \/ b = [a EXCEPT !.n = NextTemp(@)]
  BY DEF TypeInv, Access
<1>3. Others(p)
  BY DEF TypeInv, Access, Others
<1>4. NextTemp(a.n) \in Temp
  BY <1>1, Constants
<1>5. DOMAIN b = Fields /\ SameSave(a, b) /\ b.mem = a.mem /\ b.fd = a.fd /\ b.todo = a.todo
  BY <1>1, <1>2 DEF Fields, SameSave
<1>6. b.n \in Temp /\ (b.pc \in {"access", "open"} \/ (b.pc = "put" /\ b.retval = -1))
  BY <1>1, <1>2, <1>4 DEF Fields
<1> QED BY <1>1, <1>3, <1>5, <1>6

OpenEffect(p, a, b) ==
    /\ Others(p) /\ DOMAIN b = Fields
    /\ a.pc = "open" /\ b.pc = "put" /\ SameSave(a, b) /\ b.mem = a.mem /\ b.todo = a.todo
    /\ b.n = a.n
    /\ \/ \E i : /\ i = IF dir[a.n] = NoFile THEN FreeInode ELSE dir[a.n]
                 /\ dir' = [dir EXCEPT ![a.n] = i] /\ disk' = [disk EXCEPT ![i] = <<>>]
                 /\ b.fd = i /\ b.pos = 0 /\ UNCHANGED faults
                 /\ hist' = [hist EXCEPT !.flawed =
                       IF dir[a.n] = NoFile /\ ~Shared(p, a.n) THEN @ \ {i} ELSE @ \cup {i}]
       \/ /\ b.retval # 0 /\ b.fd = a.fd /\ faults' \in Nat
          /\ UNCHANGED <<dir, disk, hist>>

\* Open gives the process its file, or fails with an error.
LEMMA OpenFacts ==
    ASSUME TypeInv, NEW p \in Proc, Open(p), NEW a, NEW b, a = proc[p], b = proc'[p]
    PROVE  OpenEffect(p, a, b)
<1>1. a.pc = "open" /\ DOMAIN a = Fields
  BY DEF TypeInv, ProcType, Open
<1>2. Others(p)
  BY DEF TypeInv, Open, Others
<1> DEFINE i == IF dir[a.n] = NoFile THEN FreeInode ELSE dir[a.n]
<1>3. CASE /\ dir' = [dir EXCEPT ![a.n] = i] /\ disk' = [disk EXCEPT ![i] = <<>>]
           /\ proc' = [proc EXCEPT ![p] = [a EXCEPT !.pc = "put", !.fd = i, !.pos = 0]]
           /\ hist' = [hist EXCEPT !.flawed =
                 IF dir[a.n] = NoFile /\ ~Shared(p, a.n) THEN @ \ {i} ELSE @ \cup {i}]
           /\ UNCHANGED faults
  <2> HIDE DEF i
  <2>1. b = [a EXCEPT !.pc = "put", !.fd = i, !.pos = 0]
    BY <1>3 DEF TypeInv
  <2>2. /\ DOMAIN b = Fields /\ b.pc = "put" /\ SameSave(a, b) /\ b.mem = a.mem /\ b.todo = a.todo
        /\ b.n = a.n /\ b.fd = i /\ b.pos = 0
    BY <1>1, <2>1 DEF Fields, SameSave
  <2> QED BY <1>1, <1>2, <1>3, <2>2 DEF i, OpenEffect
<1>4. CASE /\ Fault /\ proc' = [proc EXCEPT ![p] = [a EXCEPT !.pc = "put", !.retval = -1]]
           /\ UNCHANGED <<dir, disk, hist>>
  <2>1. b = [a EXCEPT !.pc = "put", !.retval = -1]
    BY <1>4 DEF TypeInv
  <2>2. faults' \in Nat
    BY <1>4 DEF TypeInv, Fault
  <2>3. /\ DOMAIN b = Fields /\ b.pc = "put" /\ SameSave(a, b) /\ b.mem = a.mem /\ b.todo = a.todo
        /\ b.n = a.n /\ b.fd = a.fd /\ b.retval = -1
    BY <1>1, <2>1 DEF Fields, SameSave
  <2>4. b.retval # 0
    BY <2>3
  <2> QED BY <1>1, <1>2, <1>4, <2>2, <2>3, <2>4 DEF OpenEffect
<1> QED BY <1>3, <1>4 DEF Open

\* Put turns the pointers of the memory into offsets.
LEMMA PutFacts ==
    ASSUME TypeInv, NEW p \in Proc, Put(p), NEW a, NEW b, a = proc[p], b = proc'[p]
    PROVE  /\ Others(p) /\ DOMAIN b = Fields /\ UNCHANGED <<dir, disk, faults, hist>>
           /\ a.pc = "put" /\ b.pc = "write" /\ SameSave(a, b) /\ b.n = a.n /\ b.fd = a.fd
           /\ b.mem = unreloc(a.mem) /\ b.saved = unreloc(a.mem)
           /\ b.todo = a.todo /\ b.pos = a.pos /\ b.retval = a.retval
  BY DEF TypeInv, ProcType, Put, Others, Fields, SameSave

WriteEffect(p, a, b) ==
    /\ Others(p) /\ DOMAIN b = Fields /\ UNCHANGED dir
    /\ a.pc = "write" /\ b.pc = "write" /\ SameSave(a, b) /\ b.n = a.n /\ b.fd = a.fd
    /\ b.mem = a.mem /\ b.saved = a.saved /\ a.todo # <<>> /\ b.todo = Tail(a.todo)
    /\ a.retval # 0 => b.retval # 0
    /\ \/ a.fd = NoFile /\ UNCHANGED <<disk, faults, hist>>
       \/ \E k \in {Len(Head(a.todo).cells), 0, Len(Head(a.todo).cells) \div 2} :
            /\ a.fd # NoFile /\ faults' \in Nat
            /\ disk' = [disk EXCEPT ![a.fd] =
                           Overwrite(@, a.pos, SubSeq(Head(a.todo).cells, 1, k))]
            /\ b.pos = a.pos + k /\ b.retval = IF Failed(Head(a.todo), k) THEN -2 ELSE a.retval
            /\ \/ k = Len(Head(a.todo).cells) /\ hist' = hist
               \/ Head(a.todo).checked /\ hist' = hist
               \/ hist' = [hist EXCEPT !.flawed = @ \cup {a.fd}]

\* Write stores all, some or none of the first of what is left.
LEMMA WriteFacts ==
    ASSUME TypeInv, NEW p \in Proc, Write(p), NEW a, NEW b, a = proc[p], b = proc'[p]
    PROVE  WriteEffect(p, a, b)
<1> DEFINE w == Head(a.todo)
           size == Len(w.cells)
           Store(k) == disk' = [disk EXCEPT ![a.fd] = Overwrite(@, a.pos, SubSeq(w.cells, 1, k))]
<1>1. a.pc = "write" /\ DOMAIN a = Fields /\ a.todo # <<>> /\ UNCHANGED dir
  BY DEF TypeInv, ProcType, Write
<1>2. Others(p)
  BY DEF TypeInv, Write, Others
<1>3. PICK k \in {size, 0, size \div 2} :
         /\ proc' = [proc EXCEPT ![p] = Wrote(a, k)]
         /\ \/ a.fd = NoFile /\ UNCHANGED <<disk, faults, hist>>
            \/ a.fd # NoFile /\ Store(k) /\ UNCHANGED faults /\ hist' = hist /\ k = size
            \/ /\ a.fd # NoFile /\ Store(k) /\ Fault
               /\ hist' = IF w.checked THEN hist ELSE [hist EXCEPT !.flawed = @ \cup {a.fd}]
  BY DEF Write
<1>4. b = [a EXCEPT !.todo = Tail(@), !.pos = @ + k, !.retval = IF Failed(w, k) THEN -2 ELSE @]
  BY <1>3 DEF TypeInv, Wrote
<1>5. /\ DOMAIN b = Fields /\ b.pc = "write" /\ SameSave(a, b) /\ b.n = a.n /\ b.fd = a.fd
      /\ b.mem = a.mem /\ b.saved = a.saved /\ b.todo = Tail(a.todo)
      /\ b.pos = a.pos + k /\ b.retval = IF Failed(w, k) THEN -2 ELSE a.retval
  BY <1>1, <1>4 DEF Fields, SameSave
<1>6. (Fault \/ UNCHANGED faults) => faults' \in Nat
  BY DEF TypeInv, Fault
<1>7. a.retval # 0 => b.retval # 0
  BY <1>5
<1>8. \/ a.fd = NoFile /\ UNCHANGED <<disk, faults, hist>>
      \/ /\ a.fd # NoFile /\ faults' \in Nat /\ Store(k)
         /\ \/ k = size /\ hist' = hist
            \/ w.checked /\ hist' = hist
            \/ hist' = [hist EXCEPT !.flawed = @ \cup {a.fd}]
  BY <1>3, <1>6
<1> QED BY <1>1, <1>2, <1>5, <1>7, <1>8 DEF WriteEffect

\* Close turns the offsets back; only a save without an error goes on.
LEMMA CloseFacts ==
    ASSUME TypeInv, NEW p \in Proc, Close(p), NEW a, NEW b, a = proc[p], b = proc'[p]
    PROVE  /\ Others(p) /\ DOMAIN b = Fields /\ UNCHANGED <<dir, disk, faults, hist>>
           /\ a.pc = "write" /\ a.todo = <<>> /\ SameSave(a, b) /\ b.n = a.n /\ b.fd = NoFile
           /\ b.mem = rereloc(a.mem) /\ b.saved = a.saved
           /\ b.pc = IF a.retval = 0 THEN "unlink" ELSE "discard"
  BY DEF TypeInv, ProcType, Close, Others, Fields, SameSave

\* Unlink takes the name given to EXIT from its old file.
LEMMA UnlinkFacts ==
    ASSUME TypeInv, NEW p \in Proc, Unlink(p), NEW a, NEW b, a = proc[p], b = proc'[p]
    PROVE  /\ Others(p) /\ DOMAIN b = Fields /\ UNCHANGED <<disk, faults, hist>>
           /\ a.pc = "unlink" /\ b.pc = "rename" /\ SameSave(a, b) /\ b.n = a.n /\ b.fd = a.fd
           /\ b.mem = a.mem /\ b.saved = a.saved
           /\ dir' = [dir EXCEPT ![a.fn] = NoFile]
  BY DEF TypeInv, ProcType, Unlink, Others, Fields, SameSave

\* A return from zysxi keeps the memory and what was saved.
LEMMA ReturnFacts ==
    ASSUME NEW q, DOMAIN q = Fields, NEW result
    PROVE  LET r == Return(q, result)
           IN  /\ DOMAIN r = Fields /\ r.pc \in {"idle", "gone"} /\ r.image = q.image
               /\ r.mem = q.mem /\ r.room = q.room /\ r.n = 0 /\ r.fd = NoFile
  BY DEF Return, Idle, Fields

RenameEffect(p, a, b) ==
    /\ Others(p) /\ DOMAIN b = Fields /\ UNCHANGED disk /\ a.pc = "rename"
    /\ b.mem = a.mem /\ b.image = a.image /\ b.room = a.room /\ b.n \in Temp /\ b.fd = NoFile
    /\ \/ /\ b.pc \in {"idle", "gone"} /\ dir[a.n] # NoFile /\ UNCHANGED faults
          /\ dir' = [dir EXCEPT ![a.fn] = dir[a.n], ![a.n] = NoFile]
          /\ hist' = [hist EXCEPT !.saved = @ \cup {a.fn}, !.lost = @ \ {a.fn}]
       \/ /\ b.pc = "discard" /\ b.n = a.n /\ b.fn = a.fn /\ UNCHANGED dir /\ faults' \in Nat
          /\ hist' = [hist EXCEPT !.lost = @ \cup {a.fn}]

\* Rename gives the file its new name and ends the save, or fails.
LEMMA RenameFacts ==
    ASSUME TypeInv, NEW p \in Proc, Rename(p), NEW a, NEW b, a = proc[p], b = proc'[p]
    PROVE  RenameEffect(p, a, b)
<1>1. a.pc = "rename" /\ DOMAIN a = Fields /\ a.n \in Temp /\ a.fd = NoFile /\ UNCHANGED disk
  BY DEF TypeInv, ProcType, Rename
<1>2. Others(p)
  BY DEF TypeInv, Rename, Others
<1>3. CASE /\ dir[a.n] # NoFile
           /\ dir' = [dir EXCEPT ![a.fn] = dir[a.n], ![a.n] = NoFile]
           /\ proc' = [proc EXCEPT ![p] = Return(a, "ok")]
           /\ hist' = [hist EXCEPT !.saved = @ \cup {a.fn}, !.lost = @ \ {a.fn}]
           /\ UNCHANGED faults
  <2>1. b = Return(a, "ok")
    BY <1>3 DEF TypeInv
  <2>2. /\ DOMAIN b = Fields /\ b.pc \in {"idle", "gone"} /\ b.image = a.image
        /\ b.mem = a.mem /\ b.room = a.room /\ b.n = 0 /\ b.fd = NoFile
    BY <1>1, <2>1, ReturnFacts
  <2> QED BY <1>1, <1>2, <1>3, <2>2, Constants DEF RenameEffect
<1>4. CASE /\ IF dir[a.n] = NoFile THEN UNCHANGED faults ELSE Fault
           /\ proc' = [proc EXCEPT ![p] = [a EXCEPT !.pc = "discard", !.retval = -1]]
           /\ hist' = [hist EXCEPT !.lost = @ \cup {a.fn}]
           /\ UNCHANGED dir
  <2>1. b = [a EXCEPT !.pc = "discard", !.retval = -1]
    BY <1>4 DEF TypeInv
  <2>2. faults' \in Nat
    BY <1>4 DEF TypeInv, Fault
  <2>3. /\ DOMAIN b = Fields /\ b.pc = "discard" /\ b.image = a.image /\ b.mem = a.mem
        /\ b.room = a.room /\ b.n = a.n /\ b.fd = a.fd /\ b.fn = a.fn
    BY <1>1, <2>1 DEF Fields
  <2> QED BY <1>1, <1>2, <1>4, <2>2, <2>3 DEF RenameEffect
<1> QED BY <1>3, <1>4 DEF Rename

\* Discard deletes what has the temporary name and ends the save.
LEMMA DiscardFacts ==
    ASSUME TypeInv, NEW p \in Proc, Discard(p), NEW a, NEW b, a = proc[p], b = proc'[p]
    PROVE  /\ Others(p) /\ DOMAIN b = Fields /\ UNCHANGED <<disk, faults, hist>>
           /\ a.pc = "discard" /\ b.pc \in {"idle", "gone"} /\ b.image = a.image /\ b.mem = a.mem
           /\ b.room = a.room /\ b.n \in Temp /\ b.fd = NoFile
           /\ dir' = [dir EXCEPT ![a.n] = NoFile]
<1>1. DOMAIN a = Fields
  BY DEF TypeInv, ProcType
<1>2. b = Return(a, "failed")
  BY DEF TypeInv, Discard
<1>3. /\ DOMAIN b = Fields /\ b.pc \in {"idle", "gone"} /\ b.image = a.image
      /\ b.mem = a.mem /\ b.room = a.room /\ b.n = 0 /\ b.fd = NoFile
  BY <1>1, <1>2, ReturnFacts
<1>4. Others(p)
  BY DEF TypeInv, Discard, Others
<1> QED BY <1>3, <1>4, Constants DEF Discard, WithoutTemp

CrashEffect(p, a, b) ==
    /\ Others(p) /\ DOMAIN b = Fields /\ UNCHANGED <<dir, disk>> /\ faults' \in Nat
    /\ a.pc \notin {"idle", "gone"} /\ b.pc = "gone" /\ b.image = a.image
    /\ b.mem = a.image /\ b.room = FALSE /\ b.n = 0 /\ b.fd = NoFile
    /\ hist' = [hist EXCEPT !.died = @ + 1,
                            !.lost = IF a.pc = "rename" THEN @ \cup {a.fn} ELSE @]

\* A process that dies leaves the files as they are.
LEMMA CrashFacts ==
    ASSUME TypeInv, NEW p \in Proc, Crash(p), NEW a, NEW b, a = proc[p], b = proc'[p]
    PROVE  CrashEffect(p, a, b)
<1>1. b = [Idle(a.image, 0) EXCEPT !.pc = "gone"]
  BY DEF TypeInv, Crash
<1>2. Others(p)
  BY DEF TypeInv, Crash, Others
<1>3. faults' \in Nat
  BY DEF TypeInv, Crash, Fault
<1> QED BY <1>1, <1>2, <1>3 DEF Crash, Idle, Fields, CrashEffect

-----------------------------------------------------------------------------
(***************************************************************************)
(* A free inode: there are more than names and processes.                  *)
(***************************************************************************)
\* A function from a finite set misses a member of a larger finite one.
LEMMA MissedValue ==
    ASSUME NEW S, IsFiniteSet(S), NEW T, IsFiniteSet(T), Cardinality(S) < Cardinality(T), NEW f
    PROVE  \E t \in T : \A s \in S : f[s] # t
<1> SUFFICES ASSUME \A t \in T : \E s \in S : f[s] = t PROVE FALSE
  OBVIOUS
<1> DEFINE g == [t \in T |-> CHOOSE s \in S : f[s] = t]
<1>1. \A t \in T : g[t] \in S /\ f[g[t]] = t
  OBVIOUS
<1>2. g \in [T -> S]
  BY <1>1
<1> HIDE DEF g
<1>3. g \in Injection(T, S)
  BY <1>1, <1>2 DEF Injection, IsInjective
<1> QED BY <1>3, FS_Injection, FS_CardinalityType

\* How many names and inodes there are: an inode to spare for every process.
LEMMA NamesFinite ==
    /\ IsFiniteSet(Names) /\ Cardinality(Names) = Cardinality(Target) + TempNames
    /\ IsFiniteSet(Inode) /\ Cardinality(Inode) = Cardinality(Proc) + Cardinality(Target) + TempNames
    /\ Cardinality(Proc) \in Nat \ {0} /\ Cardinality(Target) \in Nat
<1>1. TempNames \in Nat \ {0} /\ IsFiniteSet(Target) /\ IsFiniteSet(Proc) /\ Proc # {}
  BY SaveAssumption
<1>2. IsFiniteSet(Temp) /\ Cardinality(Temp) = TempNames
  BY <1>1, FS_Interval DEF Temp
<1>3. Cardinality(Proc) \in Nat \ {0} /\ Cardinality(Target) \in Nat
  BY <1>1, FS_CardinalityType, FS_EmptySet
<1>4. IsFiniteSet(Names) /\ Cardinality(Names) = Cardinality(Target) + TempNames
  <2>1. Cardinality(Target \cap Temp) = 0
    BY Constants, FS_EmptySet
  <2>2. IsFiniteSet(Target \cup Temp)
        /\ Cardinality(Target \cup Temp) = Cardinality(Target) + Cardinality(Temp) - 0
    BY <1>1, <1>2, <2>1, FS_Union
  <2> QED BY <1>1, <1>2, <1>3, <2>2 DEF Names
<1>5. /\ IsFiniteSet(Inode)
      /\ Cardinality(Inode) = Cardinality(Proc) + Cardinality(Target) + TempNames
  <2>1. PICK n \in Nat \ {0} : n = Cardinality(Proc) + Cardinality(Target) + TempNames
    BY <1>1, <1>3
  <2>2. IsFiniteSet(1 .. n) /\ Cardinality(1 .. n) = n
    BY FS_Interval
  <2> QED BY <2>1, <2>2 DEF Inode
<1> QED BY <1>3, <1>4, <1>5

\* The CHOOSE of FreeInode finds an inode no name and no process has.
LEMMA InodeFree ==
    ASSUME TypeInv, NEW p \in Proc, proc[p].pc = "open", dir[proc[p].n] = NoFile
    PROVE  /\ FreeInode \in Inode
           /\ \A f \in Names : dir[f] # FreeInode
           /\ \A r \in Proc : proc[r].fd # FreeInode
<1> DEFINE S == (Names \X {1}) \cup ((Proc \ {p}) \X {2})
           f == [x \in S |-> IF x[2] = 1 THEN dir[x[1]] ELSE proc[x[1]].fd]
<1>1. IsFiniteSet(S) /\ Cardinality(S) < Cardinality(Inode)
  <2>1. IsFiniteSet(Names \X {1}) /\ Cardinality(Names \X {1}) = Cardinality(Names)
    <3>1. IsFiniteSet({1}) /\ Cardinality({1}) = 1
      BY FS_Singleton
    <3>2. Cardinality(Names \X {1}) = Cardinality(Names) * 1 /\ IsFiniteSet(Names \X {1})
      BY <3>1, NamesFinite, FS_Product
    <3> QED BY <3>2, NamesFinite, SaveAssumption
  <2>2. IsFiniteSet(Proc \ {p}) /\ Cardinality(Proc \ {p}) = Cardinality(Proc) - 1
    BY SaveAssumption, FS_RemoveElement
  <2>3. /\ IsFiniteSet((Proc \ {p}) \X {2})
        /\ Cardinality((Proc \ {p}) \X {2}) = Cardinality(Proc) - 1
    <3>1. IsFiniteSet({2}) /\ Cardinality({2}) = 1
      BY FS_Singleton
    <3>2. /\ Cardinality((Proc \ {p}) \X {2}) = Cardinality(Proc \ {p}) * 1
          /\ IsFiniteSet((Proc \ {p}) \X {2})
      BY <2>2, <3>1, FS_Product
    <3> QED BY <2>2, <3>2, NamesFinite
  <2>4. (Names \X {1}) \cap ((Proc \ {p}) \X {2}) = {}
    OBVIOUS
  <2>5. IsFiniteSet(S) /\ Cardinality(S) = Cardinality(Names) + (Cardinality(Proc) - 1) - 0
    BY <2>1, <2>3, <2>4, FS_Union, FS_EmptySet
  <2> QED BY <2>5, NamesFinite, SaveAssumption
<1>2. PICK i \in Inode : \A x \in S : f[x] # i
  <2> HIDE DEF S, f
  <2> QED BY <1>1, NamesFinite, MissedValue
<1>3. ASSUME NEW a \in Names PROVE dir[a] # i
  <2>1. <<a, 1>> \in S /\ <<a, 1>>[2] = 1 /\ <<a, 1>>[1] = a
    OBVIOUS
  <2> QED BY <1>2, <2>1
<1>4. ASSUME NEW r \in Proc, r # p PROVE proc[r].fd # i
  <2>1. <<r, 2>> \in S /\ <<r, 2>>[2] # 1 /\ <<r, 2>>[1] = r
    BY <1>4
  <2> QED BY <1>2, <2>1
<1>5. proc[p].fd # i
  BY Constants DEF TypeInv, ProcType
<1> QED BY <1>3, <1>4, <1>5 DEF FreeInode

-----------------------------------------------------------------------------
(***************************************************************************)
(* Every step keeps the invariant, one lemma per part of it.               *)
(***************************************************************************)
\* It is enough to look at the process that takes the step.
LEMMA OthersType ==
    ASSUME TypeInv, NEW p \in Proc, Others(p), NEW b, b = proc'[p],
           ProcType(b), MemoryOf(b), ToWrite(b)
    PROVE  /\ DOMAIN proc' = Proc
           /\ \A r \in Proc : ProcType(proc'[r]) /\ MemoryOf(proc'[r]) /\ ToWrite(proc'[r])
  BY DEF TypeInv, Others

\* Every step keeps the types, the memory and what is to be written.
LEMMA TypeNext ==
    ASSUME TypeInv, Next
    PROVE  TypeInv'
<1> DEFINE Rest == /\ dir' \in [Names -> Inode \cup {NoFile}] /\ DOMAIN disk' = Inode
                   /\ faults' \in Nat
                   /\ DOMAIN hist' = {"saved", "lost", "flawed", "died"}
                   /\ hist'.died \in Nat /\ hist'.saved \subseteq Target
<1>1. UNCHANGED <<dir, disk, faults, hist>> => Rest
  BY DEF TypeInv
<1>2. ASSUME NEW p \in Proc, Exit(p) PROVE TypeInv'
  <2>1. PICK a, b : a = proc[p] /\ b = proc'[p]
    OBVIOUS
  <2>2. ProcType(a) /\ MemoryOf(a)
    BY <2>1 DEF TypeInv
  <2>3. ProcType(b) /\ MemoryOf(b) /\ ToWrite(b)
    BY <1>2, <2>1, <2>2, ExitFacts DEF ProcType, MemoryOf, ToWrite, Image, PCs
  <2>4. Others(p) /\ Rest
    BY <1>1, <1>2, <2>1, ExitFacts
  <2> QED BY <2>1, <2>3, <2>4, OthersType DEF TypeInv
<1>3. ASSUME NEW p \in Proc, Access(p) PROVE TypeInv'
  <2>1. PICK a, b : a = proc[p] /\ b = proc'[p]
    OBVIOUS
  <2>2. ProcType(a) /\ MemoryOf(a) /\ ToWrite(a)
    BY <2>1 DEF TypeInv
  <2>3. ProcType(b) /\ MemoryOf(b) /\ ToWrite(b)
    BY <1>3, <2>1, <2>2, AccessFacts DEF ProcType, MemoryOf, ToWrite, Image, PCs, SameSave
  <2>4. Others(p) /\ Rest
    BY <1>1, <1>3, <2>1, AccessFacts
  <2> QED BY <2>1, <2>3, <2>4, OthersType DEF TypeInv
<1>4. ASSUME NEW p \in Proc, Open(p) PROVE TypeInv'
  <2>1. PICK a, b : a = proc[p] /\ b = proc'[p]
    OBVIOUS
  <2>2a. OpenEffect(p, a, b)
    BY <1>4, <2>1, OpenFacts
  <2>2. ProcType(a) /\ MemoryOf(a) /\ ToWrite(a)
    BY <2>1 DEF TypeInv
  <2>3. a.pc = "open" /\ b.pc = "put" /\ SameSave(a, b) /\ b.n = a.n /\ DOMAIN b = Fields
        /\ b.mem = a.mem /\ b.todo = a.todo /\ Others(p)
    BY <2>2a DEF OpenEffect
  <2>4. CASE \E i : /\ i = IF dir[a.n] = NoFile THEN FreeInode ELSE dir[a.n]
                    /\ dir' = [dir EXCEPT ![a.n] = i] /\ disk' = [disk EXCEPT ![i] = <<>>]
                    /\ b.fd = i /\ b.pos = 0 /\ UNCHANGED faults
                    /\ hist' = [hist EXCEPT !.flawed =
                          IF dir[a.n] = NoFile /\ ~Shared(p, a.n) THEN @ \ {i} ELSE @ \cup {i}]
    <3>1. PICK i : /\ i = IF dir[a.n] = NoFile THEN FreeInode ELSE dir[a.n]
                   /\ dir' = [dir EXCEPT ![a.n] = i] /\ disk' = [disk EXCEPT ![i] = <<>>]
                   /\ b.fd = i /\ b.pos = 0 /\ UNCHANGED faults
                   /\ hist' = [hist EXCEPT !.flawed =
                         IF dir[a.n] = NoFile /\ ~Shared(p, a.n) THEN @ \ {i} ELSE @ \cup {i}]
      BY <2>4
    <3>2. i \in Inode /\ i # NoFile
      BY <2>1, <2>2, <2>3, <3>1, InodeFree, Constants DEF TypeInv, ProcType
    <3>3. ProcType(b) /\ MemoryOf(b) /\ ToWrite(b)
      BY <2>2, <2>3, <3>1, <3>2 DEF ProcType, MemoryOf, ToWrite, Image, PCs, SameSave
    <3>4. Rest
      BY <3>1, <3>2 DEF TypeInv
    <3> QED BY <2>1, <2>3, <3>3, <3>4, OthersType DEF TypeInv
  <2>5. CASE b.retval # 0 /\ b.fd = a.fd /\ faults' \in Nat /\ UNCHANGED <<dir, disk, hist>>
    <3>1. ProcType(b) /\ MemoryOf(b) /\ ToWrite(b)
      BY <2>2, <2>3, <2>5 DEF ProcType, MemoryOf, ToWrite, Image, PCs, SameSave
    <3>2. Rest
      BY <2>5 DEF TypeInv
    <3> QED BY <2>1, <2>3, <3>1, <3>2, OthersType DEF TypeInv
  <2> QED BY <2>2a, <2>4, <2>5 DEF OpenEffect
<1>5. ASSUME NEW p \in Proc, Put(p) PROVE TypeInv'
  <2>1. PICK a, b : a = proc[p] /\ b = proc'[p]
    OBVIOUS
  <2>2. ProcType(a) /\ MemoryOf(a) /\ ToWrite(a)
    BY <2>1 DEF TypeInv
  <2>3. ProcType(b) /\ MemoryOf(b) /\ ToWrite(b)
    BY <1>5, <2>1, <2>2, PutFacts DEF ProcType, MemoryOf, ToWrite, PCs, SameSave
  <2>4. Others(p) /\ Rest
    BY <1>1, <1>5, <2>1, PutFacts
  <2> QED BY <2>1, <2>3, <2>4, OthersType DEF TypeInv
<1>6. ASSUME NEW p \in Proc, Write(p) PROVE TypeInv'
  <2>1. PICK a, b : a = proc[p] /\ b = proc'[p]
    OBVIOUS
  <2>2a. WriteEffect(p, a, b)
    BY <1>6, <2>1, WriteFacts
  <2>2. ProcType(a) /\ MemoryOf(a) /\ ToWrite(a)
    BY <2>1 DEF TypeInv
  <2>3. /\ Others(p) /\ DOMAIN b = Fields /\ UNCHANGED dir
        /\ a.pc = "write" /\ b.pc = "write" /\ SameSave(a, b) /\ b.n = a.n /\ b.fd = a.fd
        /\ b.mem = a.mem /\ b.saved = a.saved
        /\ a.retval # 0 => b.retval # 0
    BY <2>2a DEF WriteEffect
  <2>4. ProcType(b) /\ MemoryOf(b) /\ ToWrite(b)
    BY <2>2, <2>3 DEF ProcType, MemoryOf, ToWrite, PCs, SameSave
  <2>5. Rest
    <3>1. /\ faults' \in Nat /\ DOMAIN disk' = DOMAIN disk
          /\ hist' = hist \/ hist' = [hist EXCEPT !.flawed = @ \cup {a.fd}]
      <4>1. \/ a.fd = NoFile /\ UNCHANGED <<disk, faults, hist>>
            \/ \E k : /\ faults' \in Nat
                      /\ disk' = [disk EXCEPT ![a.fd] =
                                  Overwrite(@, a.pos, SubSeq(Head(a.todo).cells, 1, k))]
                      /\ hist' = hist \/ hist' = [hist EXCEPT !.flawed = @ \cup {a.fd}]
        BY <2>2a DEF WriteEffect
      <4> QED BY <4>1 DEF TypeInv
    <3> QED BY <2>3, <3>1 DEF TypeInv
  <2> QED BY <2>1, <2>3, <2>4, <2>5, OthersType DEF TypeInv
<1>7. ASSUME NEW p \in Proc, Close(p) PROVE TypeInv'
  <2>1. PICK a, b : a = proc[p] /\ b = proc'[p]
    OBVIOUS
  <2>2. ProcType(a) /\ MemoryOf(a) /\ ToWrite(a)
    BY <2>1 DEF TypeInv
  <2>3. /\ Others(p) /\ DOMAIN b = Fields /\ UNCHANGED <<dir, disk, faults, hist>>
        /\ a.pc = "write" /\ SameSave(a, b) /\ b.n = a.n /\ b.fd = NoFile
        /\ b.mem = rereloc(a.mem) /\ b.saved = a.saved /\ b.pc \in {"unlink", "discard"}
    BY <1>7, <2>1, CloseFacts
  <2>4. b.mem = b.image
    BY <2>2, <2>3, UnrelocBack DEF MemoryOf, ProcType, SameSave
  <2>5. ProcType(b) /\ MemoryOf(b) /\ ToWrite(b)
    BY <2>2, <2>3, <2>4 DEF ProcType, MemoryOf, ToWrite, PCs, SameSave
  <2> QED BY <1>1, <2>1, <2>3, <2>5, OthersType DEF TypeInv
<1>8. ASSUME NEW p \in Proc, Unlink(p) PROVE TypeInv'
  <2>1. PICK a, b : a = proc[p] /\ b = proc'[p]
    OBVIOUS
  <2>2. ProcType(a) /\ MemoryOf(a) /\ ToWrite(a)
    BY <2>1 DEF TypeInv
  <2>3. /\ Others(p) /\ DOMAIN b = Fields /\ UNCHANGED <<disk, faults, hist>>
        /\ a.pc = "unlink" /\ b.pc = "rename" /\ SameSave(a, b) /\ b.n = a.n /\ b.fd = a.fd
        /\ b.mem = a.mem /\ b.saved = a.saved
        /\ dir' = [dir EXCEPT ![a.fn] = NoFile]
    BY <1>8, <2>1, UnlinkFacts
  <2>4. ProcType(b) /\ MemoryOf(b) /\ ToWrite(b)
    BY <2>2, <2>3 DEF ProcType, MemoryOf, ToWrite, PCs, SameSave
  <2>5. Rest
    BY <2>3 DEF TypeInv
  <2> QED BY <2>1, <2>3, <2>4, <2>5, OthersType DEF TypeInv
<1>9. ASSUME NEW p \in Proc, Rename(p) PROVE TypeInv'
  <2>1. PICK a, b : a = proc[p] /\ b = proc'[p]
    OBVIOUS
  <2>2a. RenameEffect(p, a, b)
    BY <1>9, <2>1, RenameFacts
  <2>2. ProcType(a) /\ MemoryOf(a) /\ ToWrite(a)
    BY <2>1 DEF TypeInv
  <2>3. /\ Others(p) /\ DOMAIN b = Fields /\ UNCHANGED disk /\ a.pc = "rename"
        /\ b.mem = a.mem /\ b.image = a.image /\ b.room = a.room /\ b.n \in Temp /\ b.fd = NoFile
    BY <2>2a DEF RenameEffect
  <2>4. b.pc \in {"idle", "gone"} \/ (b.pc = "discard" /\ b.fn = a.fn)
    BY <2>2a DEF RenameEffect
  <2>5. ProcType(b) /\ MemoryOf(b) /\ ToWrite(b)
    BY <2>2, <2>3, <2>4 DEF ProcType, MemoryOf, ToWrite, PCs
  <2>6. Rest
    <3>1. a.n \in Names /\ a.fn \in Target
      BY <2>2, <2>3, Constants DEF ProcType
    <3>2. \/ /\ UNCHANGED faults
             /\ dir' = [dir EXCEPT ![a.fn] = dir[a.n], ![a.n] = NoFile]
             /\ hist' = [hist EXCEPT !.saved = @ \cup {a.fn}, !.lost = @ \ {a.fn}]
          \/ /\ UNCHANGED dir /\ faults' \in Nat
             /\ hist' = [hist EXCEPT !.lost = @ \cup {a.fn}]
      BY <2>2a DEF RenameEffect
    <3>3. dir' \in [Names -> Inode \cup {NoFile}]
      <4>1. dir[a.n] \in Inode \cup {NoFile}
        BY <3>1 DEF TypeInv
      <4> QED BY <3>2, <4>1 DEF TypeInv
    <3>4. DOMAIN hist' = DOMAIN hist /\ hist'.died = hist.died /\ hist'.saved \subseteq Target
      <4>1. DOMAIN hist = {"saved", "lost", "flawed", "died"} /\ hist.saved \subseteq Target
        BY DEF TypeInv
      <4>2. CASE hist' = [hist EXCEPT !.saved = @ \cup {a.fn}, !.lost = @ \ {a.fn}]
        BY <3>1, <4>1, <4>2
      <4>3. CASE hist' = [hist EXCEPT !.lost = @ \cup {a.fn}]
        BY <4>1, <4>3
      <4> QED BY <3>2, <4>2, <4>3
    <3> QED BY <2>3, <3>2, <3>3, <3>4 DEF TypeInv
  <2> QED BY <2>1, <2>3, <2>5, <2>6, OthersType DEF TypeInv
<1>10. ASSUME NEW p \in Proc, Discard(p) PROVE TypeInv'
  <2>1. PICK a, b : a = proc[p] /\ b = proc'[p]
    OBVIOUS
  <2>2. ProcType(a) /\ MemoryOf(a) /\ ToWrite(a)
    BY <2>1 DEF TypeInv
  <2>3. /\ Others(p) /\ DOMAIN b = Fields /\ UNCHANGED <<disk, faults, hist>>
        /\ a.pc = "discard" /\ b.pc \in {"idle", "gone"} /\ b.image = a.image /\ b.mem = a.mem
        /\ b.room = a.room /\ b.n \in Temp /\ b.fd = NoFile
        /\ dir' = [dir EXCEPT ![a.n] = NoFile]
    BY <1>10, <2>1, DiscardFacts
  <2>4. ProcType(b) /\ MemoryOf(b) /\ ToWrite(b)
    BY <2>2, <2>3 DEF ProcType, MemoryOf, ToWrite, PCs
  <2>5. Rest
    BY <2>3 DEF TypeInv
  <2> QED BY <2>1, <2>3, <2>4, <2>5, OthersType DEF TypeInv
<1>11. ASSUME NEW p \in Proc, Crash(p) PROVE TypeInv'
  <2>1. PICK a, b : a = proc[p] /\ b = proc'[p]
    OBVIOUS
  <2>2a. CrashEffect(p, a, b)
    BY <1>11, <2>1, CrashFacts
  <2>2. ProcType(a) /\ MemoryOf(a) /\ ToWrite(a)
    BY <2>1 DEF TypeInv
  <2>3. /\ Others(p) /\ DOMAIN b = Fields /\ UNCHANGED <<dir, disk>> /\ faults' \in Nat
        /\ b.pc = "gone" /\ b.image = a.image
        /\ b.mem = a.image /\ b.room = FALSE /\ b.n = 0 /\ b.fd = NoFile
        /\ hist' = [hist EXCEPT !.died = @ + 1,
                                !.lost = IF a.pc = "rename" THEN @ \cup {a.fn} ELSE @]
    BY <2>2a DEF CrashEffect
  <2>4. ProcType(b) /\ MemoryOf(b) /\ ToWrite(b)
    BY <2>2, <2>3, Constants DEF ProcType, MemoryOf, ToWrite, PCs
  <2>5. Rest
    BY <2>3 DEF TypeInv
  <2> QED BY <2>1, <2>3, <2>4, <2>5, OthersType DEF TypeInv
<1>12. CASE Load
  BY <1>12 DEF Load, TypeInv, ProcType, MemoryOf, ToWrite, Image
<1> QED BY <1>2, <1>3, <1>4, <1>5, <1>6, <1>7, <1>8, <1>9, <1>10, <1>11, <1>12 DEF Next

\* No step gives a file a second name.
LEMMA InjectiveNext ==
    ASSUME TypeInv, Injective, Next
    PROVE  Injective'
<1>1. UNCHANGED dir => Injective'
  BY DEF Injective
<1>2. ASSUME NEW g \in Names, dir' = [dir EXCEPT ![g] = NoFile] PROVE Injective'
  BY <1>2 DEF Injective, TypeInv
<1>3. ASSUME NEW p \in Proc, Open(p) PROVE Injective'
  <2>1. PICK a, b : a = proc[p] /\ b = proc'[p]
    OBVIOUS
  <2>2. OpenEffect(p, a, b)
    BY <1>3, <2>1, OpenFacts
  <2>3. CASE UNCHANGED dir
    BY <1>1, <2>3
  <2>4. CASE dir[a.n] # NoFile
    <3>1. dir' = [dir EXCEPT ![a.n] = dir[a.n]] \/ UNCHANGED dir
      BY <2>2, <2>4 DEF OpenEffect
    <3>2. dir' = dir
      BY <3>1 DEF TypeInv
    <3> QED BY <1>1, <3>2
  <2>5. CASE dir[a.n] = NoFile /\ dir' # dir
    <3>1. dir' = [dir EXCEPT ![a.n] = FreeInode]
      BY <2>2, <2>5 DEF OpenEffect
    <3>2. \A f \in Names : dir[f] # FreeInode
      BY <2>1, <2>2, <2>5, InodeFree DEF OpenEffect
    <3> QED BY <3>1, <3>2 DEF Injective, TypeInv
  <2> QED BY <2>3, <2>4, <2>5
<1>4. ASSUME NEW p \in Proc, Rename(p) PROVE Injective'
  <2>1. PICK a, b : a = proc[p] /\ b = proc'[p]
    OBVIOUS
  <2>2. RenameEffect(p, a, b)
    BY <1>4, <2>1, RenameFacts
  <2>3. \/ UNCHANGED dir
        \/ dir' = [dir EXCEPT ![a.fn] = dir[a.n], ![a.n] = NoFile]
    BY <2>2 DEF RenameEffect
  <2>4. a.n \in Names /\ a.fn \in Names /\ a.n # a.fn
    BY <2>1, <2>2, Constants DEF TypeInv, ProcType, RenameEffect
  <2> QED BY <1>1, <2>3, <2>4 DEF Injective, TypeInv
<1>5. ASSUME NEW p \in Proc, Unlink(p) \/ Discard(p) PROVE Injective'
  <2>1. proc[p].n \in Names /\ (Unlink(p) => proc[p].fn \in Names)
    BY Constants DEF TypeInv, ProcType, Unlink
  <2> QED BY <1>2, <1>5, <2>1 DEF Unlink, Discard, WithoutTemp
<1>6. ASSUME NEW p \in Proc, Exit(p) \/ Access(p) \/ Put(p) \/ Write(p) \/ Close(p) \/ Crash(p)
      PROVE  UNCHANGED dir
  BY <1>6 DEF Exit, Access, Put, Write, Close, Crash
<1>7. Load => UNCHANGED dir
  BY DEF Load
<1> QED BY <1>1, <1>3, <1>4, <1>5, <1>6, <1>7 DEF Next

\* No step takes a saved name away, but between unlink and rename.
LEMMA NamesKeptNext ==
    ASSUME TypeInv, NamesKept, Next
    PROVE  NamesKept'
<1> DEFINE Renaming(f) == \E p \in Proc : proc[p].pc = "rename" /\ proc[p].fn = f
\* Where no process leaves or enters rename.
<1>1. ASSUME NEW p \in Proc, Others(p), proc[p].pc # "rename",
             hist'.saved = hist.saved, hist'.lost = hist.lost,
             \A f \in Target : dir[f] # NoFile => dir'[f] # NoFile
      PROVE  NamesKept'
  <2> SUFFICES ASSUME NEW f \in hist.saved \ hist.lost
               PROVE  dir'[f] # NoFile \/ \E r \in Proc : proc'[r].pc = "rename" /\ proc'[r].fn = f
    BY <1>1 DEF NamesKept
  <2>1. f \in Target
    BY DEF TypeInv
  <2> QED BY <1>1, <2>1 DEF NamesKept, Others
<1>2. ASSUME NEW p \in Proc, Exit(p) PROVE NamesKept'
  BY <1>1, <1>2, ExitFacts
<1>3. ASSUME NEW p \in Proc, Access(p) PROVE NamesKept'
  BY <1>1, <1>3, AccessFacts
<1>4. ASSUME NEW p \in Proc, Open(p) PROVE NamesKept'
  <2>1. PICK a, b : a = proc[p] /\ b = proc'[p]
    OBVIOUS
  <2>2. OpenEffect(p, a, b)
    BY <1>4, <2>1, OpenFacts
  <2>3. a.n \in Temp
    BY <2>1 DEF TypeInv, ProcType
  <2>4. \A f \in Target : dir'[f] = dir[f]
    BY <2>2, <2>3, Constants DEF OpenEffect, TypeInv
  <2>5. hist'.saved = hist.saved /\ hist'.lost = hist.lost
    BY <2>2 DEF OpenEffect, TypeInv
  <2> QED BY <1>1, <2>1, <2>2, <2>4, <2>5 DEF OpenEffect
<1>5. ASSUME NEW p \in Proc, Put(p) PROVE NamesKept'
  BY <1>1, <1>5, PutFacts
<1>6. ASSUME NEW p \in Proc, Write(p) PROVE NamesKept'
  <2>1. PICK a, b : a = proc[p] /\ b = proc'[p]
    OBVIOUS
  <2>2. WriteEffect(p, a, b)
    BY <1>6, <2>1, WriteFacts
  <2>3. hist' = hist \/ hist' = [hist EXCEPT !.flawed = @ \cup {a.fd}]
    BY <2>2 DEF WriteEffect
  <2>4. hist'.saved = hist.saved /\ hist'.lost = hist.lost
    BY <2>3 DEF TypeInv
  <2> QED BY <1>1, <2>1, <2>2, <2>4 DEF WriteEffect
<1>7. ASSUME NEW p \in Proc, Close(p) PROVE NamesKept'
  BY <1>1, <1>7, CloseFacts
<1>8. ASSUME NEW p \in Proc, Unlink(p) PROVE NamesKept'
  <2>1. PICK a, b : a = proc[p] /\ b = proc'[p]
    OBVIOUS
  <2>2. /\ Others(p) /\ a.pc = "unlink" /\ b.pc = "rename" /\ b.fn = a.fn
        /\ dir' = [dir EXCEPT ![a.fn] = NoFile] /\ UNCHANGED hist
    BY <1>8, <2>1, UnlinkFacts DEF SameSave
  <2> SUFFICES ASSUME NEW f \in hist.saved \ hist.lost
               PROVE  dir'[f] # NoFile \/ \E r \in Proc : proc'[r].pc = "rename" /\ proc'[r].fn = f
    BY <2>2 DEF NamesKept
  <2>3. CASE f = a.fn
    BY <2>1, <2>2, <2>3
  <2>4. CASE f # a.fn
    <3>1. dir'[f] = dir[f]
      BY <2>2, <2>4, Constants DEF TypeInv
    <3>2. \A r \in Proc : proc[r].pc = "rename" => proc'[r] = proc[r]
      BY <2>1, <2>2 DEF Others
    <3> QED BY <3>1, <3>2 DEF NamesKept
  <2> QED BY <2>3, <2>4
<1>9. ASSUME NEW p \in Proc, Rename(p) PROVE NamesKept'
  <2>1. PICK a, b : a = proc[p] /\ b = proc'[p]
    OBVIOUS
  <2>2. RenameEffect(p, a, b)
    BY <1>9, <2>1, RenameFacts
  <2>3. a.n \in Temp /\ a.fn \in Target /\ a.pc = "rename" /\ Others(p)
    BY <2>1, <2>2 DEF TypeInv, ProcType, RenameEffect
  <2>4. ASSUME NEW f \in Target, f # a.fn, dir'[f] = dir[f],
               f \in hist.saved \ hist.lost
        PROVE  dir'[f] # NoFile \/ \E r \in Proc : proc'[r].pc = "rename" /\ proc'[r].fn = f
    <3>1. \A r \in Proc : proc[r].fn = f => proc'[r] = proc[r]
      BY <2>1, <2>3, <2>4 DEF Others
    <3> QED BY <3>1, <2>4 DEF NamesKept
  <2>5. CASE /\ dir[a.n] # NoFile
             /\ dir' = [dir EXCEPT ![a.fn] = dir[a.n], ![a.n] = NoFile]
             /\ hist' = [hist EXCEPT !.saved = @ \cup {a.fn}, !.lost = @ \ {a.fn}]
    <3>1. hist'.saved = hist.saved \cup {a.fn} /\ hist'.lost = hist.lost \ {a.fn}
      BY <2>5 DEF TypeInv
    <3>2. dir'[a.fn] # NoFile
      BY <2>3, <2>5, Constants DEF TypeInv
    <3>3. \A f \in Target : f # a.fn => dir'[f] = dir[f]
      BY <2>3, <2>5, Constants DEF TypeInv
    <3>4. hist.saved \subseteq Target
      BY DEF TypeInv
    <3> QED BY <2>4, <3>1, <3>2, <3>3, <3>4 DEF NamesKept
  <2>6. CASE UNCHANGED dir /\ hist' = [hist EXCEPT !.lost = @ \cup {a.fn}]
    <3>1. hist'.saved = hist.saved /\ hist'.lost = hist.lost \cup {a.fn}
      BY <2>6 DEF TypeInv
    <3>2. hist.saved \subseteq Target
      BY DEF TypeInv
    <3> QED BY <2>4, <2>6, <3>1, <3>2 DEF NamesKept
  <2> QED BY <2>2, <2>5, <2>6 DEF RenameEffect
<1>10. ASSUME NEW p \in Proc, Discard(p) PROVE NamesKept'
  <2>1. PICK a, b : a = proc[p] /\ b = proc'[p]
    OBVIOUS
  <2>2. /\ Others(p) /\ a.pc = "discard" /\ UNCHANGED hist /\ dir' = [dir EXCEPT ![a.n] = NoFile]
    BY <1>10, <2>1, DiscardFacts
  <2>3. a.n \in Temp
    BY <2>1 DEF TypeInv, ProcType
  <2>4. \A f \in Target : dir'[f] = dir[f]
    BY <2>2, <2>3, Constants DEF TypeInv
  <2> QED BY <1>1, <2>1, <2>2, <2>4
<1>11. ASSUME NEW p \in Proc, Crash(p) PROVE NamesKept'
  <2>1. PICK a, b : a = proc[p] /\ b = proc'[p]
    OBVIOUS
  <2>2. CrashEffect(p, a, b)
    BY <1>11, <2>1, CrashFacts
  <2>3. /\ Others(p) /\ UNCHANGED dir
        /\ hist' = [hist EXCEPT !.died = @ + 1,
                                !.lost = IF a.pc = "rename" THEN @ \cup {a.fn} ELSE @]
    BY <2>2 DEF CrashEffect
  <2>4. /\ hist'.saved = hist.saved
        /\ hist'.lost = IF a.pc = "rename" THEN hist.lost \cup {a.fn} ELSE hist.lost
    BY <2>3 DEF TypeInv
  <2> SUFFICES ASSUME NEW f \in hist'.saved \ hist'.lost
               PROVE  dir'[f] # NoFile \/ \E r \in Proc : proc'[r].pc = "rename" /\ proc'[r].fn = f
    BY DEF NamesKept
  <2>5. f \in hist.saved \ hist.lost /\ (a.pc = "rename" => f # a.fn)
    BY <2>4
  <2>6. \A r \in Proc : proc[r].pc = "rename" /\ proc[r].fn = f => proc'[r] = proc[r]
    BY <2>1, <2>3, <2>5 DEF Others
  <2> QED BY <2>3, <2>5, <2>6 DEF NamesKept
<1>12. CASE Load
  BY <1>12 DEF Load, NamesKept
<1> QED BY <1>2, <1>3, <1>4, <1>5, <1>6, <1>7, <1>8, <1>9, <1>10, <1>11, <1>12 DEF Next

\* No step leaves a temporary file to nobody, but a death.
LEMMA TempKeptNext ==
    ASSUME TypeInv, TempKept, Next
    PROVE  TempKept'
<1>1. PICK D : Littered(D)
  BY DEF TempKept
<1>2. D \in SUBSET Temp /\ IsFiniteSet(D) /\ Cardinality(D) \in Nat /\ Cardinality(D) <= hist.died
  <2>1. IsFiniteSet(Temp)
    <3>1. TempNames \in Nat
      BY SaveAssumption
    <3> QED BY <3>1, FS_Interval DEF Temp
  <2> QED BY <1>1, <2>1, FS_Subset, FS_CardinalityType DEF Littered
\* Where a process goes on with its temporary file or has none left behind.
<1>3. ASSUME NEW p \in Proc, Others(p), hist'.died = hist.died,
             \A t \in Temp : dir'[t] # NoFile =>
                \/ dir[t] # NoFile /\ (Active(proc[p]) /\ proc[p].n = t =>
                                         Active(proc'[p]) /\ proc'[p].n = t)
                \/ Active(proc'[p]) /\ proc'[p].n = t
      PROVE  TempKept'
  <2>1. ASSUME NEW t \in Temp, dir'[t] # NoFile
        PROVE  t \in D \/ \E r \in Proc : Active(proc'[r]) /\ proc'[r].n = t
    <3>1. CASE Active(proc'[p]) /\ proc'[p].n = t
      BY <3>1
    <3>2. CASE dir[t] # NoFile /\ (Active(proc[p]) /\ proc[p].n = t =>
                                     Active(proc'[p]) /\ proc'[p].n = t)
      <4>1. t \in D \/ \E r \in Proc : Active(proc[r]) /\ proc[r].n = t
        BY <1>1, <3>2 DEF Littered
      <4> QED BY <1>3, <3>2, <4>1 DEF Others
    <3> QED BY <1>3, <2>1, <3>1, <3>2
  <2>2. Littered(D)'
    BY <1>2, <1>3, <2>1 DEF Littered, Active
  <2> QED BY <1>2, <2>2 DEF TempKept
<1>4. ASSUME NEW p \in Proc, Exit(p) PROVE TempKept'
  <2>1. ~Active(proc[p]) /\ Others(p) /\ UNCHANGED <<dir, hist>>
    BY <1>4, ExitFacts DEF Active
  <2> QED BY <1>3, <2>1
<1>5. ASSUME NEW p \in Proc, Access(p) PROVE TempKept'
  <2>1. ~Active(proc[p]) /\ Others(p) /\ UNCHANGED <<dir, hist>>
    BY <1>5, AccessFacts DEF Active
  <2> QED BY <1>3, <2>1
<1>6. ASSUME NEW p \in Proc, Open(p) PROVE TempKept'
  <2>1. PICK a, b : a = proc[p] /\ b = proc'[p]
    OBVIOUS
  <2>2. OpenEffect(p, a, b)
    BY <1>6, <2>1, OpenFacts
  <2>3. ~Active(a) /\ Active(b) /\ Others(p) /\ a.n \in Names /\ b.n = a.n
    BY <2>1, <2>2, Constants DEF OpenEffect, Active, TypeInv, ProcType
  <2>4. hist'.died = hist.died
    BY <2>2 DEF OpenEffect, TypeInv
  <2>5. \A t \in Temp : t # a.n => dir'[t] = dir[t]
    BY <2>2, Constants DEF OpenEffect, TypeInv
  <2> QED BY <1>3, <2>1, <2>3, <2>4, <2>5
<1>7. ASSUME NEW p \in Proc, Put(p) PROVE TempKept'
  <2>1. Active(proc'[p]) /\ proc'[p].n = proc[p].n /\ Others(p) /\ UNCHANGED <<dir, hist>>
    BY <1>7, PutFacts DEF Active
  <2> QED BY <1>3, <2>1
<1>8. ASSUME NEW p \in Proc, Write(p) PROVE TempKept'
  <2>1. PICK a, b : a = proc[p] /\ b = proc'[p]
    OBVIOUS
  <2>2. WriteEffect(p, a, b)
    BY <1>8, <2>1, WriteFacts
  <2>3. Active(b) /\ b.n = a.n /\ Others(p) /\ UNCHANGED dir
        /\ (hist' = hist \/ hist' = [hist EXCEPT !.flawed = @ \cup {a.fd}])
    BY <2>2 DEF WriteEffect, Active
  <2>4. hist'.died = hist.died
    BY <2>3 DEF TypeInv
  <2> QED BY <1>3, <2>1, <2>3, <2>4
<1>9. ASSUME NEW p \in Proc, Close(p) PROVE TempKept'
  <2>1. Active(proc'[p]) /\ proc'[p].n = proc[p].n /\ Others(p) /\ UNCHANGED <<dir, hist>>
    BY <1>9, CloseFacts DEF Active
  <2> QED BY <1>3, <2>1
<1>10. ASSUME NEW p \in Proc, Unlink(p) PROVE TempKept'
  <2>1. PICK a, b : a = proc[p] /\ b = proc'[p]
    OBVIOUS
  <2>2. /\ Active(b) /\ b.n = a.n /\ Others(p) /\ UNCHANGED hist /\ a.pc = "unlink"
        /\ dir' = [dir EXCEPT ![a.fn] = NoFile]
    BY <1>10, <2>1, UnlinkFacts DEF Active
  <2>3. \A t \in Temp : dir'[t] = dir[t]
    BY <2>1, <2>2, Constants DEF TypeInv, ProcType
  <2> QED BY <1>3, <2>1, <2>2, <2>3
<1>11. ASSUME NEW p \in Proc, Rename(p) PROVE TempKept'
  <2>1. PICK a, b : a = proc[p] /\ b = proc'[p]
    OBVIOUS
  <2>2. RenameEffect(p, a, b)
    BY <1>11, <2>1, RenameFacts
  <2>3. Others(p) /\ a.n \in Temp /\ a.fn \in Target /\ a.pc = "rename"
    BY <2>1, <2>2 DEF TypeInv, ProcType, RenameEffect
  <2>4. hist'.died = hist.died
    BY <2>2 DEF RenameEffect, TypeInv
  <2>5. CASE dir' = [dir EXCEPT ![a.fn] = dir[a.n], ![a.n] = NoFile]
    <3>1. dir'[a.n] = NoFile /\ \A t \in Temp : t # a.n => dir'[t] = dir[t]
      BY <2>3, <2>5, Constants DEF TypeInv
    <3> QED BY <1>3, <2>1, <2>3, <2>4, <3>1
  <2>6. CASE b.pc = "discard" /\ b.n = a.n /\ UNCHANGED dir
    <3>1. Active(b)
      BY <2>6 DEF Active
    <3> QED BY <1>3, <2>1, <2>3, <2>4, <2>6, <3>1
  <2> QED BY <2>2, <2>5, <2>6 DEF RenameEffect
<1>12. ASSUME NEW p \in Proc, Discard(p) PROVE TempKept'
  <2>1. PICK a, b : a = proc[p] /\ b = proc'[p]
    OBVIOUS
  <2>2. Others(p) /\ UNCHANGED hist /\ dir' = [dir EXCEPT ![a.n] = NoFile]
    BY <1>12, <2>1, DiscardFacts
  <2>3. dir'[a.n] = NoFile /\ \A t \in Temp : t # a.n => dir'[t] = dir[t]
    BY <2>1, <2>2, Constants DEF TypeInv, ProcType
  <2> QED BY <1>3, <2>1, <2>2, <2>3
<1>13. ASSUME NEW p \in Proc, Crash(p) PROVE TempKept'
  <2>1. PICK a, b : a = proc[p] /\ b = proc'[p]
    OBVIOUS
  <2>2. CrashEffect(p, a, b)
    BY <1>13, <2>1, CrashFacts
  <2>3. Others(p) /\ UNCHANGED dir /\ a.n \in Temp
    BY <2>1, <2>2 DEF CrashEffect, TypeInv, ProcType
  <2>4. hist'.died = hist.died + 1
    BY <2>2 DEF CrashEffect, TypeInv
  <2>5. Cardinality(D \cup {a.n}) <= hist'.died
    <3>1. Cardinality(D \cup {a.n}) <= Cardinality(D) + 1
      BY <1>2, FS_AddElement
    <3>2. Cardinality(D \cup {a.n}) \in Nat
      BY <1>2, FS_AddElement, FS_CardinalityType
    <3> QED BY <1>2, <2>4, <3>1, <3>2 DEF TypeInv
  <2>6. ASSUME NEW t \in Temp, dir'[t] # NoFile
        PROVE  t \in D \cup {a.n} \/ \E r \in Proc : Active(proc'[r]) /\ proc'[r].n = t
    <3>1. t \in D \/ \E r \in Proc : Active(proc[r]) /\ proc[r].n = t
      BY <1>1, <2>3, <2>6 DEF Littered
    <3> QED BY <2>1, <2>3, <3>1 DEF Others
  <2>7. Littered(D \cup {a.n})'
    BY <1>2, <2>3, <2>5, <2>6 DEF Littered, Active
  <2>8. D \cup {a.n} \in SUBSET Temp
    BY <1>2, <2>3
  <2> QED BY <2>7, <2>8 DEF TempKept
<1>14. CASE Load
  <2>1. UNCHANGED <<dir, proc, hist>>
    BY <1>14 DEF Load
  <2>2. Littered(D)'
    BY <1>1, <2>1 DEF Littered, Active
  <2> QED BY <1>2, <2>2 DEF TempKept
<1> QED BY <1>4, <1>5, <1>6, <1>7, <1>8, <1>9, <1>10, <1>11, <1>12, <1>13, <1>14 DEF Next

-----------------------------------------------------------------------------
(***************************************************************************)
(* The cells of a file, write by write.                                    *)
(***************************************************************************)

\* An element of a sequence.
LEMMA SeqElement ==
    ASSUME NEW R, NEW w \in Seq(R), NEW i \in 1 .. Len(w)
    PROVE  w[i] \in R
OBVIOUS

\* One more write adds its cells.
LEMMA PrefixStep ==
    ASSUME NEW X, NEW w \in Seq([cells : Seq(X), checked : BOOLEAN]), NEW k \in 0 .. Len(w) - 1
    PROVE  /\ Prefix(w, k) \in Seq(X)
           /\ Prefix(w, k + 1) = Prefix(w, k) \o w[k + 1].cells
<1> DEFINE s == [i \in 1 .. k |-> w[i].cells]
           t == [i \in 1 .. k + 1 |-> w[i].cells]
<1>1. Len(w) \in Nat /\ k \in Nat /\ k + 1 \in 1 .. Len(w)
  OBVIOUS
<1>2. \A i \in 1 .. Len(w) : w[i].cells \in Seq(X)
  <2>1. \A i \in 1 .. Len(w) : w[i] \in [cells : Seq(X), checked : BOOLEAN]
    BY SeqElement
  <2> QED BY <2>1
<1>3. s \in Seq(Seq(X))
  <2>1. s \in [1 .. k -> Seq(X)]
    BY <1>1, <1>2
  <2> HIDE DEF s
  <2> QED BY <1>1, <2>1
<1>4. w[k + 1].cells \in Seq(X)
  BY <1>1, <1>2
<1>5. t = Append(s, w[k + 1].cells)
  <2>1. Len(s) = k /\ DOMAIN s = 1 .. k
    BY <1>1
  <2>2. Append(s, w[k + 1].cells) =
           [i \in 1 .. k + 1 |-> IF i = k + 1 THEN w[k + 1].cells ELSE s[i]]
    <3> HIDE DEF s
    <3> QED BY <1>1, <1>3, <2>1
  <2>3. \A i \in 1 .. k + 1 : i # k + 1 => s[i] = w[i].cells
    BY <1>1
  <2> HIDE DEF s
  <2> QED BY <2>2, <2>3
<1> HIDE DEF s, t
<1>6. FlattenSeq(s) \in Seq(X) /\ FlattenSeq(Append(s, w[k + 1].cells)) = FlattenSeq(s) \o w[k + 1].cells
  BY <1>3, <1>4, FlattenAppend
<1> QED BY <1>5, <1>6 DEF Prefix, s, t

\* The cells of all writes are the complete file.
LEMMA PrefixAll ==
    ASSUME NEW m \in Memories, NEW room \in BOOLEAN
    PROVE  /\ Prefix(Writes(m, room), Len(Writes(m, room))) = Complete(m, room)
           /\ Prefix(Writes(m, room), 0) = <<>>
<1>1. PICK X : Writes(m, room) \in Seq([cells : Seq(X), checked : BOOLEAN])
  BY WritesSeq
<1>2. DOMAIN Writes(m, room) = 1 .. Len(Writes(m, room))
  BY <1>1
<1>3. Prefix(Writes(m, room), Len(Writes(m, room))) = Complete(m, room)
  BY <1>2 DEF Prefix, Complete
<1>4. Prefix(Writes(m, room), 0) = <<>>
  <2>1. [i \in 1 .. 0 |-> Writes(m, room)[i].cells] = <<>>
    OBVIOUS
  <2>2. FlattenSeq(<<>>) = <<>>
    BY DEF FlattenSeq
  <2> QED BY <2>1, <2>2 DEF Prefix
<1> QED BY <1>3, <1>4

\* A write at the end of a file of all its cells adds them.
LEMMA OverwriteEnd ==
    ASSUME NEW X, NEW file \in Seq(X), NEW cells \in Seq(X)
    PROVE  Overwrite(file, Len(file), SubSeq(cells, 1, Len(cells))) = file \o cells
<1>1. SubSeq(cells, 1, Len(cells)) = cells
  OBVIOUS
<1>2. Overwrite(file, Len(file), cells) =
         [i \in 1 .. Len(file) + Len(cells) |-> IF i <= Len(file) THEN file[i] ELSE cells[i - Len(file)]]
  <2>1. /\ Len(file) \in Nat /\ Len(cells) \in Nat
        /\ (IF Len(file) + Len(cells) > Len(file) THEN Len(file) + Len(cells) ELSE Len(file))
             = Len(file) + Len(cells)
    OBVIOUS
  <2>2. ASSUME NEW i \in 1 .. Len(file) + Len(cells)
        PROVE  (IF i > Len(file) /\ i <= Len(file) + Len(cells) THEN cells[i - Len(file)]
                ELSE IF i <= Len(file) THEN file[i] ELSE 0)
                 = IF i <= Len(file) THEN file[i] ELSE cells[i - Len(file)]
    BY <2>1
  <2> QED BY <2>1, <2>2 DEF Overwrite
<1>3. file \o cells =
         [i \in 1 .. Len(file) + Len(cells) |-> IF i <= Len(file) THEN file[i] ELSE cells[i - Len(file)]]
  <2>1. PICK c : c = file \o cells
    OBVIOUS
  <2>2. c \in Seq(X) /\ Len(c) = Len(file) + Len(cells)
    BY <2>1
  <2>3. \A i \in 1 .. Len(file) + Len(cells) :
           c[i] = IF i <= Len(file) THEN file[i] ELSE cells[i - Len(file)]
    BY <2>1
  <2>4. c = [i \in 1 .. Len(c) |-> c[i]]
    BY <2>2
  <2> QED BY <2>1, <2>2, <2>3, <2>4
<1> QED BY <1>1, <1>2, <1>3

\* One write done whole is one more of the writes done.
LEMMA ProgressStep ==
    ASSUME NEW q, NEW r, NEW file, NEW m \in Memories, q.room \in BOOLEAN, m = unreloc(q.image),
           SameSave(q, r), r.todo = Tail(q.todo), q.todo # <<>>,
           r.pos = q.pos + Len(Head(q.todo).cells),
           NEW k \in 0 .. Len(Image(q)), Progress(q, file, k)
    PROVE  \E j \in 0 .. Len(Image(r)) :
              Progress(r, Overwrite(file, q.pos, SubSeq(Head(q.todo).cells, 1, Len(Head(q.todo).cells))), j)
<1>1. PICK w : w = Image(q)
  OBVIOUS
<1>2. PICK X : w \in Seq([cells : Seq(X), checked : BOOLEAN])
  BY <1>1, WritesSeq DEF Image
<1>3. Image(r) = w
  BY <1>1 DEF SameSave, Image
<1>4. q.todo = SubSeq(w, k + 1, Len(w)) /\ file = Prefix(w, k) /\ q.pos = Len(file)
  BY <1>1 DEF Progress
<1>5. Len(w) \in Nat /\ k \in 0 .. Len(w) /\ k # Len(w)
  BY <1>1, <1>2, <1>4
<1>6. k \in 0 .. Len(w) - 1 /\ k + 1 \in 0 .. Len(w) /\ k + 1 \in 1 .. Len(w)
  BY <1>5
<1>7. Head(q.todo) = w[k + 1] /\ Tail(q.todo) = SubSeq(w, k + 2, Len(w))
  BY <1>2, <1>4, <1>6
<1>8. w[k + 1].cells \in Seq(X)
  <2>1. w[k + 1] \in [cells : Seq(X), checked : BOOLEAN]
    BY <1>2, <1>6, SeqElement
  <2> QED BY <2>1
<1>9. file \in Seq(X) /\ Prefix(w, k + 1) = file \o w[k + 1].cells
  BY <1>2, <1>4, <1>6, PrefixStep
<1>10. Overwrite(file, q.pos, SubSeq(w[k + 1].cells, 1, Len(w[k + 1].cells))) = Prefix(w, k + 1)
  BY <1>4, <1>8, <1>9, OverwriteEnd
<1>11. r.pos = Len(Prefix(w, k + 1))
  <2>1. Len(file \o w[k + 1].cells) = Len(file) + Len(w[k + 1].cells)
    BY <1>8, <1>9
  <2>2. r.pos = Len(file) + Len(w[k + 1].cells)
    BY <1>4, <1>7
  <2> QED BY <1>9, <2>1, <2>2
<1>12. r.todo = SubSeq(w, (k + 1) + 1, Len(w))
  <2>1. (k + 1) + 1 = k + 2
    BY <1>5
  <2> QED BY <1>7, <2>1
<1>13. Progress(r, Overwrite(file, q.pos, SubSeq(w[k + 1].cells, 1, Len(w[k + 1].cells))), k + 1)
  BY <1>3, <1>10, <1>11, <1>12 DEF Progress
<1> QED BY <1>3, <1>6, <1>7, <1>13

\* When nothing is left to be written the file is complete.
LEMMA ProgressEnd ==
    ASSUME NEW q, NEW file, q.image \in Memories, q.room \in BOOLEAN, q.todo = <<>>,
           NEW k \in 0 .. Len(Image(q)), Progress(q, file, k)
    PROVE  file = Complete(unreloc(q.image), q.room)
<1>1. unreloc(q.image) \in Memories
  BY UnrelocBack
<1>2. PICK X : Image(q) \in Seq([cells : Seq(X), checked : BOOLEAN])
  BY <1>1, WritesSeq DEF Image
<1>3. k = Len(Image(q))
  <2>1. Len(Image(q)) \in Nat
    BY <1>2
  <2>2. SubSeq(Image(q), k + 1, Len(Image(q))) = <<>>
    BY DEF Progress
  <2>3. ASSUME k < Len(Image(q)) PROVE FALSE
    <3>1. PICK s : s = SubSeq(Image(q), k + 1, Len(Image(q)))
      OBVIOUS
    <3>2. Len(s) = Len(Image(q)) - k
      BY <1>2, <2>1, <2>3, <3>1
    <3>3. Len(s) = 0
      BY <2>2, <3>1
    <3> QED BY <2>1, <2>3, <3>2, <3>3
  <2> QED BY <2>1, <2>3
<1> QED BY <1>1, <1>3, PrefixAll DEF Progress, Image

-----------------------------------------------------------------------------
(***************************************************************************)
(* Named and Written.                                                      *)
(***************************************************************************)

\* Shared, in the words of the invariant.
LEMMA SharedIs ==
    ASSUME NEW p, NEW n
    PROVE  Shared(p, n) <=> \E r \in Proc \ {p} : proc[r].n = n /\ Uses(proc[r])
  BY DEF Shared, Uses, Writer, Done

\* The process that takes a step keeps what it writes as it was, or lets it go.
Keeps(a, b) ==
    /\ Writer(b) => Writer(a) /\ b.fd = a.fd
    /\ Done(b) => Done(a)
    /\ Uses(b) => b.n = a.n /\ SameSave(a, b)

\* Named stays when no process gets a file and no file changes but to go.
LEMMA NamedKept ==
    ASSUME TypeInv, Named, NEW p \in Proc, Others(p), Keeps(proc[p], proc'[p]),
           \A t \in Temp : dir'[t] \in {dir[t], NoFile}, UNCHANGED disk,
           hist.flawed \subseteq hist'.flawed
    PROVE  Named'
<1> SUFFICES ASSUME NEW r \in Proc, Uses(proc'[r]), dir'[proc'[r].n] # NoFile,
                    dir'[proc'[r].n] \notin hist'.flawed
             PROVE  /\ \A s \in Proc \ {r} : ~(proc'[s].n = proc'[r].n /\ Uses(proc'[s]))
                    /\ Writer(proc'[r]) => proc'[r].fd = dir'[proc'[r].n]
                    /\ Done(proc'[r]) => disk'[dir'[proc'[r].n]] =
                                            Complete(unreloc(proc'[r].image), proc'[r].room)
  BY DEF Named, Uses, Writer, Done
<1>1. \A s \in Proc : Uses(proc'[s]) => Uses(proc[s]) /\ proc'[s].n = proc[s].n
  BY DEF Keeps, Others, Uses
<1>2. proc[r].n \in Temp
  BY DEF TypeInv, ProcType
<1>3. dir'[proc'[r].n] = dir[proc[r].n] /\ dir[proc[r].n] # NoFile /\ dir[proc[r].n] \notin hist.flawed
  BY <1>1, <1>2
<1>4. /\ \A s \in Proc \ {r} : ~(proc[s].n = proc[r].n /\ Uses(proc[s]))
      /\ (Writer(proc[r]) => proc[r].fd = dir[proc[r].n])
      /\ (Done(proc[r]) => disk[dir[proc[r].n]] = Complete(unreloc(proc[r].image), proc[r].room))
  BY <1>1, <1>3 DEF Named
<1>5. \A s \in Proc \ {r} : ~(proc'[s].n = proc'[r].n /\ Uses(proc'[s]))
  BY <1>1, <1>4
<1>6. Writer(proc'[r]) => Writer(proc[r]) /\ proc'[r].fd = proc[r].fd
  BY DEF Keeps, Others
<1>7. Done(proc'[r]) => Done(proc[r]) /\ proc'[r].image = proc[r].image /\ proc'[r].room = proc[r].room
  BY DEF Keeps, Others, Uses, SameSave
<1> QED BY <1>3, <1>4, <1>5, <1>6, <1>7

\* Written stays when no process gets a file and no file is written.
LEMMA WrittenKept ==
    ASSUME TypeInv, Written, NEW p \in Proc, Others(p), Keeps(proc[p], proc'[p]),
           \/ proc'[p].fd = proc[p].fd /\ proc'[p].todo = proc[p].todo
                /\ proc'[p].pos = proc[p].pos /\ proc'[p].retval = proc[p].retval
           \/ proc'[p].fd = NoFile,
           \A r \in Proc : Writer(proc[r]) /\ proc[r].fd \notin hist.flawed =>
              \A f \in Names : dir'[f] = proc[r].fd => dir[f] = proc[r].fd \/ f = proc[r].n,
           UNCHANGED disk, hist.flawed \subseteq hist'.flawed
    PROVE  Written'
<1> SUFFICES ASSUME NEW r \in Proc, Writer(proc'[r]), proc'[r].fd \notin hist'.flawed
             PROVE  /\ \A s \in Proc \ {r} : proc'[s].fd # proc'[r].fd
                    /\ \A f \in Names : dir'[f] = proc'[r].fd => f = proc'[r].n
                    /\ proc'[r].retval = 0 =>
                          \E k \in 0 .. Len(Image(proc'[r])) : Progress(proc'[r], disk'[proc'[r].fd], k)
  BY DEF Written, Writer, Image, Progress
<1>1. Writer(proc[r]) /\ proc'[r].fd = proc[r].fd /\ proc[r].fd \notin hist.flawed /\ proc[r].fd # NoFile
  BY DEF Keeps, Others, Writer
<1>2. /\ \A s \in Proc \ {r} : proc[s].fd # proc[r].fd
      /\ \A f \in Names : dir[f] = proc[r].fd => f = proc[r].n
      /\ proc[r].retval = 0 => \E k \in 0 .. Len(Image(proc[r])) : Progress(proc[r], disk[proc[r].fd], k)
  BY <1>1 DEF Written
<1>3. \A s \in Proc : proc'[s].fd \in {proc[s].fd, NoFile}
  BY DEF Others
<1>4. proc'[r].n = proc[r].n /\ Image(proc'[r]) = Image(proc[r])
  BY DEF Keeps, Others, Uses, SameSave, Image
<1>5. /\ proc'[r].todo = proc[r].todo /\ proc'[r].pos = proc[r].pos
      /\ proc'[r].retval = proc[r].retval
  BY <1>1 DEF Others
<1>6. \A s \in Proc \ {r} : proc'[s].fd # proc'[r].fd
  BY <1>1, <1>2, <1>3
<1>7. \A f \in Names : dir'[f] = proc'[r].fd => f = proc'[r].n
  BY <1>1, <1>2, <1>4
<1>8. \A k : Progress(proc[r], disk[proc[r].fd], k) => Progress(proc'[r], disk'[proc'[r].fd], k)
  BY <1>1, <1>4, <1>5 DEF Progress
<1>9. ASSUME proc'[r].retval = 0
      PROVE  \E k \in 0 .. Len(Image(proc'[r])) : Progress(proc'[r], disk'[proc'[r].fd], k)
  BY <1>2, <1>4, <1>5, <1>8, <1>9
<1> QED BY <1>6, <1>7, <1>9

\* The steps that neither write a file nor give one to a process.
LEMMA QuietSteps ==
    ASSUME TypeInv, NEW p \in Proc,
           Exit(p) \/ Access(p) \/ Put(p) \/ Unlink(p) \/ Rename(p) \/ Discard(p) \/ Crash(p)
    PROVE  /\ Others(p) /\ Keeps(proc[p], proc'[p]) /\ UNCHANGED disk /\ hist'.flawed = hist.flawed
           /\ \A t \in Temp : dir'[t] \in {dir[t], NoFile}
           /\ \/ proc'[p].fd = proc[p].fd /\ proc'[p].todo = proc[p].todo
                   /\ proc'[p].pos = proc[p].pos /\ proc'[p].retval = proc[p].retval
              \/ proc'[p].fd = NoFile
           /\ \A f \in Names : dir'[f] \in {dir[f], NoFile}
                 \/ (proc[p].pc = "rename" /\ dir'[f] = dir[proc[p].n] /\ dir[proc[p].n] # NoFile)
<1> PICK a, b : a = proc[p] /\ b = proc'[p]
  OBVIOUS
<1>1. ProcType(a) /\ a.n \in Names
  BY Constants DEF TypeInv, ProcType
<1>2. CASE Exit(p)
  BY <1>1, <1>2, ExitFacts DEF Keeps, Uses, Writer, Done, ProcType
<1>3. CASE Access(p)
  <2>1. a.pc = "access" /\ a.fd = NoFile
    BY <1>1, <1>3 DEF Access, ProcType
  <2>2. /\ Others(p) /\ UNCHANGED <<dir, disk, hist>> /\ b.fd = a.fd
        /\ b.pc \in {"access", "open", "put"}
    BY <1>3, AccessFacts
  <2>3. ~Uses(b)
    BY <2>1, <2>2 DEF Uses, Writer, Done
  <2> QED BY <2>1, <2>2, <2>3 DEF Keeps, Uses
<1>4. CASE Put(p)
  BY <1>1, <1>4, PutFacts DEF Keeps, Uses, Writer, Done
<1>5. CASE Unlink(p)
  <2>1. /\ Others(p) /\ UNCHANGED <<disk, hist>> /\ dir' = [dir EXCEPT ![a.fn] = NoFile]
        /\ a.pc = "unlink" /\ b.pc = "rename" /\ SameSave(a, b) /\ b.n = a.n /\ b.fd = a.fd
    BY <1>5, UnlinkFacts
  <2>2. a.fd = NoFile /\ \A f \in Names : dir'[f] \in {dir[f], NoFile}
    BY <1>1, <2>1 DEF ProcType, TypeInv
  <2> QED BY <2>1, <2>2, Constants DEF Keeps, Uses, Writer, Done
<1>6. CASE Rename(p)
  <2>1. RenameEffect(p, a, b)
    BY <1>6, RenameFacts
  <2>2. /\ Others(p) /\ UNCHANGED disk /\ a.pc = "rename" /\ b.fd = NoFile
        /\ b.pc \in {"idle", "gone", "discard"}
    BY <2>1 DEF RenameEffect
  <2>3. hist'.flawed = hist.flawed
    BY <2>1 DEF RenameEffect, TypeInv
  <2>4. \/ UNCHANGED dir
        \/ dir' = [dir EXCEPT ![a.fn] = dir[a.n], ![a.n] = NoFile] /\ dir[a.n] # NoFile
    BY <2>1 DEF RenameEffect
  <2>5. a.n \in Temp /\ a.fn \in Target /\ a.n # a.fn
    BY <1>1, <2>2, Constants DEF ProcType
  <2>6. \A f \in Names : dir'[f] \in {dir[f], NoFile}
                 \/ (a.pc = "rename" /\ dir'[f] = dir[a.n] /\ dir[a.n] # NoFile)
    BY <1>1, <2>2, <2>4, <2>5 DEF TypeInv
  <2>7. \A t \in Temp : dir'[t] \in {dir[t], NoFile}
    BY <2>4, <2>5, Constants DEF TypeInv
  <2> QED BY <2>2, <2>3, <2>6, <2>7 DEF Keeps, Uses, Writer, Done
<1>7. CASE Discard(p)
  <2>1. /\ Others(p) /\ UNCHANGED <<disk, hist>> /\ dir' = [dir EXCEPT ![a.n] = NoFile]
        /\ b.pc \in {"idle", "gone"} /\ b.fd = NoFile
    BY <1>7, DiscardFacts
  <2>2. \A f \in Names : dir'[f] \in {dir[f], NoFile}
    BY <1>1, <2>1 DEF TypeInv
  <2> QED BY <2>1, <2>2, Constants DEF Keeps, Uses, Writer, Done
<1>8. CASE Crash(p)
  <2>1. CrashEffect(p, a, b)
    BY <1>8, CrashFacts
  <2>2. Others(p) /\ UNCHANGED <<dir, disk>> /\ b.pc = "gone" /\ b.fd = NoFile
    BY <2>1 DEF CrashEffect
  <2>3. hist'.flawed = hist.flawed
    BY <2>1 DEF CrashEffect, TypeInv
  <2> QED BY <2>2, <2>3 DEF Keeps, Uses, Writer, Done
<1> QED BY <1>2, <1>3, <1>4, <1>5, <1>6, <1>7, <1>8

\* A file that is renamed is whole, and nobody else's, or flawed.
LEMMA NamedNext ==
    ASSUME Inv, Next
    PROVE  Named'
<1> USE DEF Inv
<1>1. ASSUME NEW p \in Proc,
             Exit(p) \/ Access(p) \/ Put(p) \/ Unlink(p) \/ Rename(p) \/ Discard(p) \/ Crash(p)
      PROVE  Named'
  BY <1>1, QuietSteps, NamedKept
<1>2. ASSUME NEW p \in Proc, Open(p) PROVE Named'
  <2>1. PICK a, b : a = proc[p] /\ b = proc'[p]
    OBVIOUS
  <2>2. OpenEffect(p, a, b)
    BY <1>2, <2>1, OpenFacts
  <2>3. /\ Others(p) /\ a.pc = "open" /\ b.pc = "put" /\ b.n = a.n
        /\ a.n \in Temp /\ a.n \in Names /\ a.fd = NoFile
    BY <2>1, <2>2, Constants DEF OpenEffect, TypeInv, ProcType
  <2>4. CASE b.fd = a.fd /\ UNCHANGED <<dir, disk, hist>>
    <3>1. Keeps(a, b)
      BY <2>3, <2>4 DEF Keeps, Uses, Writer, Done
    <3> QED BY <2>1, <2>3, <2>4, <3>1, NamedKept
  <2>5. CASE ~(b.fd = a.fd /\ UNCHANGED <<dir, disk, hist>>)
    <3>1. PICK i : /\ i = IF dir[a.n] = NoFile THEN FreeInode ELSE dir[a.n]
                   /\ dir' = [dir EXCEPT ![a.n] = i] /\ disk' = [disk EXCEPT ![i] = <<>>]
                   /\ b.fd = i
                   /\ hist' = [hist EXCEPT !.flawed =
                         IF dir[a.n] = NoFile /\ ~Shared(p, a.n) THEN @ \ {i} ELSE @ \cup {i}]
      BY <2>2, <2>5 DEF OpenEffect
    <3>2. hist'.flawed = IF dir[a.n] = NoFile /\ ~Shared(p, a.n) THEN hist.flawed \ {i}
                                                                 ELSE hist.flawed \cup {i}
      BY <3>1 DEF TypeInv
    <3>3. \A f \in Names : f # a.n => dir[f] # i /\ dir'[f] = dir[f]
      <4>1. CASE dir[a.n] = NoFile
        BY <2>1, <2>3, <3>1, <4>1, InodeFree DEF TypeInv
      <4>2. CASE dir[a.n] # NoFile
        BY <2>3, <3>1, <4>2 DEF TypeInv, Injective
      <4> QED BY <4>1, <4>2
    <3>4. dir'[a.n] = i
      BY <2>3, <3>1 DEF TypeInv
    <3> SUFFICES ASSUME NEW r \in Proc, Uses(proc'[r]), dir'[proc'[r].n] # NoFile,
                        dir'[proc'[r].n] \notin hist'.flawed
                 PROVE  /\ \A s \in Proc \ {r} : ~(proc'[s].n = proc'[r].n /\ Uses(proc'[s]))
                        /\ Writer(proc'[r]) => proc'[r].fd = dir'[proc'[r].n]
                        /\ Done(proc'[r]) => disk'[dir'[proc'[r].n]] =
                                                Complete(unreloc(proc'[r].image), proc'[r].room)
      BY DEF Named, Uses, Writer, Done
    <3>5. CASE r = p
      <4>1. dir[a.n] = NoFile /\ ~Shared(p, a.n)
        BY <2>1, <2>3, <3>2, <3>4, <3>5
      <4>2. \A s \in Proc \ {p} : ~(proc[s].n = a.n /\ Uses(proc[s]))
        BY <4>1, SharedIs
      <4> QED BY <2>1, <2>3, <3>1, <3>4, <3>5, <4>2 DEF Others, Done
    <3>6. CASE r # p
      <4>1. proc'[r] = proc[r] /\ proc[r].n \in Names
        BY <2>3, <3>6, Constants DEF Others, TypeInv, ProcType
      <4>2. proc[r].n # a.n
        <5>1. ASSUME proc[r].n = a.n PROVE FALSE
          <6>1. Shared(p, a.n)
            BY <3>6, <4>1, <5>1, SharedIs
          <6> QED BY <3>2, <3>4, <4>1, <5>1, <6>1
        <5> QED BY <5>1
      <4>3. dir'[proc[r].n] = dir[proc[r].n] /\ dir[proc[r].n] # i
        BY <3>3, <4>1, <4>2
      <4>4. dir[proc[r].n] \notin hist.flawed
        BY <3>2, <4>1, <4>3
      <4>5. /\ \A s \in Proc \ {r} : ~(proc[s].n = proc[r].n /\ Uses(proc[s]))
            /\ Writer(proc[r]) => proc[r].fd = dir[proc[r].n]
            /\ Done(proc[r]) => disk[dir[proc[r].n]] = Complete(unreloc(proc[r].image), proc[r].room)
        BY <4>1, <4>3, <4>4 DEF Named
      <4>6. disk'[dir[proc[r].n]] = disk[dir[proc[r].n]]
        <5>1. dir[proc[r].n] \in Inode
          BY <4>1, <4>3 DEF TypeInv
        <5> QED BY <3>1, <4>3, <5>1 DEF TypeInv
      <4>7. \A s \in Proc \ {r} : ~(proc'[s].n = proc[r].n /\ Uses(proc'[s]))
        BY <2>1, <2>3, <4>2, <4>5 DEF Others
      <4> QED BY <4>1, <4>3, <4>5, <4>6, <4>7
    <3> QED BY <3>5, <3>6
  <2> QED BY <2>4, <2>5
<1>3. ASSUME NEW p \in Proc, Write(p) PROVE Named'
  <2>1. PICK a, b : a = proc[p] /\ b = proc'[p]
    OBVIOUS
  <2>2. WriteEffect(p, a, b)
    BY <1>3, <2>1, WriteFacts
  <2>3. /\ Others(p) /\ a.pc = "write" /\ b.pc = "write" /\ b.n = a.n /\ b.fd = a.fd
        /\ SameSave(a, b) /\ UNCHANGED dir
    BY <2>2 DEF WriteEffect
  <2>4. Keeps(a, b)
    BY <2>3 DEF Keeps, Uses, Writer, Done
  <2>5. \/ UNCHANGED <<disk, hist>>
        \/ /\ a.fd # NoFile
           /\ \A j \in Inode : j # a.fd => disk'[j] = disk[j]
           /\ hist' = hist \/ hist' = [hist EXCEPT !.flawed = @ \cup {a.fd}]
    BY <2>2 DEF WriteEffect, TypeInv
  <2>6. CASE UNCHANGED <<disk, hist>>
    BY <2>1, <2>3, <2>4, <2>6, NamedKept
  <2>7. CASE /\ a.fd # NoFile
             /\ \A j \in Inode : j # a.fd => disk'[j] = disk[j]
             /\ hist' = hist \/ hist' = [hist EXCEPT !.flawed = @ \cup {a.fd}]
    <3>1. hist.flawed \subseteq hist'.flawed
      BY <2>7 DEF TypeInv
    <3> SUFFICES ASSUME NEW r \in Proc, Uses(proc'[r]), dir'[proc'[r].n] # NoFile,
                        dir'[proc'[r].n] \notin hist'.flawed
                 PROVE  /\ \A s \in Proc \ {r} : ~(proc'[s].n = proc'[r].n /\ Uses(proc'[s]))
                        /\ Writer(proc'[r]) => proc'[r].fd = dir'[proc'[r].n]
                        /\ Done(proc'[r]) => disk'[dir'[proc'[r].n]] =
                                                Complete(unreloc(proc'[r].image), proc'[r].room)
      BY DEF Named, Uses, Writer, Done
    <3>2. \A s \in Proc : /\ proc'[s].n = proc[s].n /\ proc'[s].fd = proc[s].fd
                          /\ proc'[s].pc = proc[s].pc /\ SameSave(proc[s], proc'[s])
      BY <2>1, <2>3 DEF Others, SameSave
    <3>3. \A s \in Proc : /\ Uses(proc'[s]) <=> Uses(proc[s])
                          /\ Writer(proc'[s]) <=> Writer(proc[s])
                          /\ Done(proc'[s]) <=> Done(proc[s])
      BY <3>2 DEF Uses, Writer, Done
    <3>4. dir'[proc'[r].n] = dir[proc[r].n] /\ dir[proc[r].n] # NoFile
          /\ dir[proc[r].n] \notin hist.flawed
      BY <2>3, <3>1, <3>2
    <3>5. /\ \A s \in Proc \ {r} : ~(proc[s].n = proc[r].n /\ Uses(proc[s]))
          /\ Writer(proc[r]) => proc[r].fd = dir[proc[r].n]
          /\ Done(proc[r]) => disk[dir[proc[r].n]] = Complete(unreloc(proc[r].image), proc[r].room)
      BY <3>3, <3>4 DEF Named
    <3>6. Done(proc[r]) => disk'[dir[proc[r].n]] = disk[dir[proc[r].n]]
      <4> SUFFICES ASSUME Done(proc[r]) PROVE dir[proc[r].n] # a.fd /\ dir[proc[r].n] \in Inode
        BY <2>7
      <4>1. proc[r].n \in Names
        BY Constants DEF TypeInv, ProcType
      <4>2. Writer(a) /\ r # p
        BY <2>1, <2>3, <2>7 DEF Writer, Done
      <4>3. ASSUME dir[proc[r].n] = a.fd PROVE FALSE
        <5>1. proc[r].n = a.n
          BY <2>1, <3>4, <4>1, <4>2, <4>3 DEF Written
        <5>2. Uses(proc[p])
          BY <2>1, <4>2 DEF Uses
        <5> QED BY <2>1, <3>5, <4>2, <5>1, <5>2
      <4> QED BY <3>4, <4>1, <4>3 DEF TypeInv
    <3> QED BY <3>2, <3>3, <3>4, <3>5, <3>6 DEF SameSave
  <2> QED BY <2>5, <2>6, <2>7
<1>4. ASSUME NEW p \in Proc, Close(p) PROVE Named'
  <2>1. PICK a, b : a = proc[p] /\ b = proc'[p]
    OBVIOUS
  <2>2. /\ Others(p) /\ UNCHANGED <<dir, disk, hist>>
        /\ a.pc = "write" /\ a.todo = <<>> /\ SameSave(a, b) /\ b.n = a.n /\ b.fd = NoFile
        /\ b.pc = IF a.retval = 0 THEN "unlink" ELSE "discard"
    BY <1>4, <2>1, CloseFacts
  <2>3. CASE a.retval # 0
    <3>1. Keeps(a, b)
      BY <2>2, <2>3 DEF Keeps, Uses, Writer, Done
    <3> QED BY <2>1, <2>2, <3>1, NamedKept
  <2>4. CASE a.retval = 0
    <3>1. Writer(a) /\ Uses(a) /\ Uses(b) /\ Done(b) /\ ~Writer(b)
      BY <2>1, <2>2, <2>4 DEF Writer, Done, Uses, TypeInv, ToWrite
    <3>2. \A s \in Proc : proc'[s].n = proc[s].n /\ (Uses(proc'[s]) <=> Uses(proc[s]))
      BY <2>1, <2>2, <3>1 DEF Others
    <3> SUFFICES ASSUME NEW r \in Proc, Uses(proc'[r]), dir[proc[r].n] # NoFile,
                        dir[proc[r].n] \notin hist.flawed
                 PROVE  /\ \A s \in Proc \ {r} : ~(proc'[s].n = proc'[r].n /\ Uses(proc'[s]))
                        /\ Writer(proc'[r]) => proc'[r].fd = dir[proc[r].n]
                        /\ Done(proc'[r]) => disk[dir[proc[r].n]] =
                                                Complete(unreloc(proc'[r].image), proc'[r].room)
      BY <2>2, <3>2 DEF Named, Uses, Writer, Done
    <3>3. /\ \A s \in Proc \ {r} : ~(proc[s].n = proc[r].n /\ Uses(proc[s]))
          /\ Writer(proc[r]) => proc[r].fd = dir[proc[r].n]
          /\ Done(proc[r]) => disk[dir[proc[r].n]] = Complete(unreloc(proc[r].image), proc[r].room)
      BY <3>2 DEF Named
    <3>4. \A s \in Proc \ {r} : ~(proc'[s].n = proc'[r].n /\ Uses(proc'[s]))
      BY <3>2, <3>3
    <3>5. CASE r # p
      BY <2>2, <3>3, <3>4, <3>5 DEF Others
    <3>6. CASE r = p
      <4>1. a.fd = dir[a.n] /\ a.fd \notin hist.flawed
        BY <2>1, <3>1, <3>3, <3>6
      <4>2. PICK k \in 0 .. Len(Image(a)) : Progress(a, disk[a.fd], k)
        BY <2>1, <2>4, <3>1, <4>1 DEF Written
      <4>3. disk[a.fd] = Complete(unreloc(a.image), a.room)
        <5>1. a.image \in Memories /\ a.room \in BOOLEAN
          BY <2>1 DEF TypeInv, ProcType
        <5> QED BY <2>2, <4>2, <5>1, ProgressEnd
      <4> QED BY <2>1, <2>2, <3>1, <3>4, <3>6, <4>1, <4>3 DEF SameSave
    <3> QED BY <3>5, <3>6
  <2> QED BY <2>3, <2>4
<1>5. CASE Load
  BY <1>5 DEF Load, Named, Uses, Writer, Done
<1> QED BY <1>1, <1>2, <1>3, <1>4, <1>5 DEF Next

\* A file that is written is its writer's alone, and holds the writes done, or is
\* flawed.
LEMMA WrittenNext ==
    ASSUME Inv, Next
    PROVE  Written'
<1> USE DEF Inv
<1>1. ASSUME NEW p \in Proc,
             Exit(p) \/ Access(p) \/ Put(p) \/ Unlink(p) \/ Rename(p) \/ Discard(p) \/ Crash(p)
      PROVE  Written'
  <2>1. ASSUME NEW r \in Proc, Writer(proc[r]), proc[r].fd \notin hist.flawed,
               NEW f \in Names, dir'[f] = proc[r].fd
        PROVE  dir[f] = proc[r].fd \/ f = proc[r].n
    <3>1. proc[r].fd # NoFile /\ Uses(proc[r])
      BY <2>1 DEF Writer, Uses
    <3>2. CASE dir'[f] \in {dir[f], NoFile}
      BY <2>1, <3>1, <3>2
    \* The file renamed would be that of another process.
    <3>3. CASE proc[p].pc = "rename" /\ dir'[f] = dir[proc[p].n] /\ dir[proc[p].n] # NoFile
      <4>1. proc[p].n \in Names
        BY Constants DEF TypeInv, ProcType
      <4>2. r # p /\ Uses(proc[p])
        BY <2>1, <3>3 DEF Writer, Uses, Done
      <4>3. proc[p].n = proc[r].n
        BY <2>1, <3>3, <4>1 DEF Written
      <4>4. ~(proc[r].n = proc[p].n /\ Uses(proc[r]))
        BY <2>1, <3>3, <4>2 DEF Named
      <4> QED BY <3>1, <4>3, <4>4
    <3> QED BY <1>1, <3>2, <3>3, QuietSteps
  <2> QED BY <1>1, <2>1, QuietSteps, WrittenKept
<1>2. ASSUME NEW p \in Proc, Open(p) PROVE Written'
  <2>1. PICK a, b : a = proc[p] /\ b = proc'[p]
    OBVIOUS
  <2>2. OpenEffect(p, a, b)
    BY <1>2, <2>1, OpenFacts
  <2>3. /\ Others(p) /\ a.pc = "open" /\ b.pc = "put" /\ b.n = a.n /\ SameSave(a, b) /\ b.todo = a.todo
        /\ a.n \in Names /\ a.fd = NoFile /\ a.image \in Memories /\ a.room \in BOOLEAN
        /\ a.todo = Image(a)
    BY <2>1, <2>2, Constants DEF OpenEffect, TypeInv, ProcType, ToWrite
  <2>4. CASE b.fd = a.fd /\ UNCHANGED <<dir, disk, hist>>
    <3>1. Keeps(a, b) /\ b.fd = NoFile
      BY <2>3, <2>4 DEF Keeps, Uses, Writer, Done
    <3> QED BY <2>1, <2>3, <2>4, <3>1, WrittenKept
  <2>5. CASE ~(b.fd = a.fd /\ UNCHANGED <<dir, disk, hist>>)
    <3>1. PICK i : /\ i = IF dir[a.n] = NoFile THEN FreeInode ELSE dir[a.n]
                   /\ dir' = [dir EXCEPT ![a.n] = i] /\ disk' = [disk EXCEPT ![i] = <<>>]
                   /\ b.fd = i /\ b.pos = 0
                   /\ hist' = [hist EXCEPT !.flawed =
                         IF dir[a.n] = NoFile /\ ~Shared(p, a.n) THEN @ \ {i} ELSE @ \cup {i}]
      BY <2>2, <2>5 DEF OpenEffect
    <3>2. hist'.flawed = IF dir[a.n] = NoFile /\ ~Shared(p, a.n) THEN hist.flawed \ {i}
                                                                 ELSE hist.flawed \cup {i}
      BY <3>1 DEF TypeInv
    <3>3. dir'[a.n] = i /\ \A f \in Names : f # a.n => dir'[f] = dir[f]
      BY <2>3, <3>1 DEF TypeInv
    <3>4. dir[a.n] = NoFile =>
             /\ i \in Inode /\ \A f \in Names : dir[f] # i
             /\ \A r \in Proc : proc[r].fd # i
      BY <2>1, <2>3, <3>1, InodeFree
    <3> SUFFICES ASSUME NEW r \in Proc, Writer(proc'[r]), proc'[r].fd \notin hist'.flawed
                 PROVE  /\ \A s \in Proc \ {r} : proc'[s].fd # proc'[r].fd
                        /\ \A f \in Names : dir'[f] = proc'[r].fd => f = proc'[r].n
                        /\ proc'[r].retval = 0 => \E k \in 0 .. Len(Image(proc'[r])) :
                                                     Progress(proc'[r], disk'[proc'[r].fd], k)
      BY DEF Written, Writer, Image, Progress
    <3>5. CASE r = p
      <4>1. dir[a.n] = NoFile
        BY <2>1, <3>1, <3>2, <3>5
      <4>2. \A s \in Proc \ {p} : proc'[s].fd # i
        BY <2>3, <3>4, <4>1 DEF Others
      <4>3. \A f \in Names : dir'[f] = i => f = a.n
        BY <3>3, <3>4, <4>1
      <4>4. Progress(b, disk'[i], 0) /\ 0 \in 0 .. Len(Image(b))
        <5>1. PICK w : w = Image(a)
          OBVIOUS
        <5>2. PICK X : w \in Seq([cells : Seq(X), checked : BOOLEAN])
          BY <2>3, <5>1, UnrelocBack, WritesSeq DEF Image
        <5>3. Prefix(w, 0) = <<>>
          BY <2>3, <5>1, UnrelocBack, PrefixAll DEF Image
        <5>4. Image(b) = w
          BY <2>3, <5>1 DEF SameSave, Image
        <5>5. disk'[i] = <<>>
          BY <3>1, <3>4, <4>1 DEF TypeInv
        <5>6. w = SubSeq(w, 1, Len(w)) /\ Len(w) \in Nat
          BY <5>2
        <5>7. b.todo = SubSeq(w, 0 + 1, Len(w))
          BY <2>3, <5>1, <5>6
        <5> QED BY <3>1, <5>3, <5>4, <5>5, <5>6, <5>7 DEF Progress
      <4> QED BY <2>1, <2>3, <3>1, <3>5, <4>2, <4>3, <4>4
    <3>6. CASE r # p
      <4>1. proc'[r] = proc[r]
        BY <2>3, <3>6 DEF Others
      <4>2. proc[r].fd # i
        BY <3>2, <3>4, <4>1
      <4>3. proc[r].fd \notin hist.flawed
        BY <3>2, <4>1, <4>2
      <4>4. /\ \A s \in Proc \ {r} : proc[s].fd # proc[r].fd
            /\ \A f \in Names : dir[f] = proc[r].fd => f = proc[r].n
            /\ proc[r].retval = 0 => \E k \in 0 .. Len(Image(proc[r])) :
                                        Progress(proc[r], disk[proc[r].fd], k)
        BY <4>1, <4>3 DEF Written
      <4>5. disk'[proc[r].fd] = disk[proc[r].fd]
        <5>1. proc[r].fd \in Inode
          BY <4>1 DEF TypeInv, ProcType, Writer
        <5> QED BY <3>1, <4>2, <5>1 DEF TypeInv
      <4>6. \A s \in Proc \ {r} : proc'[s].fd # proc[r].fd
        BY <2>1, <2>3, <3>1, <4>2, <4>4 DEF Others
      <4>7. \A f \in Names : dir'[f] = proc[r].fd => f = proc[r].n
        BY <3>3, <4>2, <4>4
      <4> QED BY <4>1, <4>4, <4>5, <4>6, <4>7
    <3> QED BY <3>5, <3>6
  <2> QED BY <2>4, <2>5
<1>3. ASSUME NEW p \in Proc, Write(p) PROVE Written'
  <2>1. PICK a, b : a = proc[p] /\ b = proc'[p]
    OBVIOUS
  <2>2. WriteEffect(p, a, b)
    BY <1>3, <2>1, WriteFacts
  <2>3. /\ Others(p) /\ a.pc = "write" /\ b.pc = "write" /\ b.n = a.n /\ b.fd = a.fd
        /\ SameSave(a, b) /\ UNCHANGED dir /\ a.todo # <<>> /\ b.todo = Tail(a.todo)
        /\ (a.retval # 0 => b.retval # 0)
    BY <2>2 DEF WriteEffect
  <2> DEFINE w == Head(a.todo)
             size == Len(w.cells)
  <2>4. \/ a.fd = NoFile /\ UNCHANGED <<disk, hist>>
        \/ \E k \in {size, 0, size \div 2} :
                   /\ a.fd # NoFile
                   /\ disk' = [disk EXCEPT ![a.fd] = Overwrite(@, a.pos, SubSeq(w.cells, 1, k))]
                   /\ b.pos = a.pos + k /\ b.retval = IF Failed(w, k) THEN -2 ELSE a.retval
                   /\ \/ k = size /\ hist' = hist
                      \/ w.checked /\ hist' = hist
                      \/ hist' = [hist EXCEPT !.flawed = @ \cup {a.fd}]
    BY <2>2 DEF WriteEffect
  <2> HIDE DEF w, size
  <2>5. hist.flawed \subseteq hist'.flawed
    BY <2>4 DEF TypeInv
  <2>6. \A j \in Inode : j # a.fd => disk'[j] = disk[j]
    BY <2>4 DEF TypeInv
  <2> SUFFICES ASSUME NEW r \in Proc, Writer(proc'[r]), proc'[r].fd \notin hist'.flawed
               PROVE  /\ \A s \in Proc \ {r} : proc'[s].fd # proc'[r].fd
                      /\ \A f \in Names : dir'[f] = proc'[r].fd => f = proc'[r].n
                      /\ proc'[r].retval = 0 => \E k \in 0 .. Len(Image(proc'[r])) :
                                                   Progress(proc'[r], disk'[proc'[r].fd], k)
    BY DEF Written, Writer, Image, Progress
  <2>7. \A s \in Proc : proc'[s].fd = proc[s].fd /\ proc'[s].n = proc[s].n /\ proc'[s].pc = proc[s].pc
    BY <2>1, <2>3 DEF Others
  <2>8. Writer(proc[r]) /\ proc[r].fd \notin hist.flawed /\ proc[r].fd \in Inode
    BY <2>5, <2>7 DEF Writer, TypeInv, ProcType
  <2>9. /\ \A s \in Proc \ {r} : proc[s].fd # proc[r].fd
        /\ \A f \in Names : dir[f] = proc[r].fd => f = proc[r].n
        /\ proc[r].retval = 0 => \E k \in 0 .. Len(Image(proc[r])) :
                                    Progress(proc[r], disk[proc[r].fd], k)
    BY <2>8 DEF Written
  <2>10. CASE r # p
    <3>1. proc'[r] = proc[r] /\ disk'[proc[r].fd] = disk[proc[r].fd]
      BY <2>1, <2>3, <2>6, <2>8, <2>9, <2>10 DEF Others
    <3> QED BY <2>3, <2>7, <2>9, <3>1
  <2>11. CASE r = p
    <3>1. ASSUME b.retval = 0
          PROVE  \E k \in 0 .. Len(Image(b)) : Progress(b, disk'[a.fd], k)
      <4>1. PICK j \in {size, 0, size \div 2} :
                   /\ disk' = [disk EXCEPT ![a.fd] = Overwrite(@, a.pos, SubSeq(w.cells, 1, j))]
                   /\ b.pos = a.pos + j /\ b.retval = IF Failed(w, j) THEN -2 ELSE a.retval
                   /\ \/ j = size
                      \/ w.checked
                      \/ hist' = [hist EXCEPT !.flawed = @ \cup {a.fd}]
        BY <2>1, <2>4, <2>8, <2>11 DEF Writer
      <4>2. hist' # [hist EXCEPT !.flawed = @ \cup {a.fd}]
        BY <2>1, <2>3, <2>11 DEF TypeInv
      <4>3. PICK k \in 0 .. Len(Image(a)) : Progress(a, disk[a.fd], k)
        BY <2>1, <2>3, <2>9, <2>11, <3>1
      <4>4. a.image \in Memories /\ a.room \in BOOLEAN /\ unreloc(a.image) \in Memories
        BY <2>1, UnrelocBack DEF TypeInv, ProcType
      <4>5. size \in Nat
        <5>1. PICK X : Image(a) \in Seq([cells : Seq(X), checked : BOOLEAN])
          BY <4>4, WritesSeq DEF Image
        <5>2. PICK v : v = Image(a)
          OBVIOUS
        <5> DEFINE R == [cells : Seq(X), checked : BOOLEAN]
        <5>3. v \in Seq(R)
          BY <5>1, <5>2
        <5> HIDE DEF R
        <5>4. a.todo = SubSeq(v, k + 1, Len(v)) /\ k \in 0 .. Len(v) /\ Len(v) \in Nat
          BY <4>3, <5>2, <5>3 DEF Progress
        <5>5. k # Len(v)
          <6> SUFFICES ASSUME k = Len(v) PROVE FALSE
            OBVIOUS
          <6>1. SubSeq(v, k + 1, Len(v)) = <<>>
            BY <5>3, <5>4
          <6> QED BY <2>3, <5>4, <6>1
        <5>6. k + 1 \in 1 .. Len(v)
          BY <5>4, <5>5
        <5>7. Head(a.todo) = v[k + 1]
          BY <5>3, <5>4, <5>6
        <5>8. w \in R
          BY <5>3, <5>6, <5>7, SeqElement DEF w
        <5>9. w.cells \in Seq(X)
          BY <5>8 DEF R
        <5> QED BY <5>9 DEF size
      <4>6. j = size
        <5>1. ASSUME j # size PROVE FALSE
          <6>1. j < size
            BY <4>5, <5>1
          <6>2. w.checked
            BY <4>1, <4>2, <5>1
          <6>3. b.retval = -2
            BY <4>1, <6>1, <6>2 DEF Failed, size
          <6> QED BY <3>1, <6>3
        <5> QED BY <5>1
      <4>7. disk'[a.fd] = Overwrite(disk[a.fd], a.pos, SubSeq(w.cells, 1, Len(w.cells)))
        BY <2>1, <2>8, <2>11, <4>1, <4>6 DEF TypeInv, size
      <4>8. b.pos = a.pos + Len(w.cells)
        BY <4>1, <4>6 DEF size
      <4> QED BY <2>3, <4>3, <4>4, <4>7, <4>8, ProgressStep DEF w
    <3> QED BY <2>1, <2>3, <2>7, <2>9, <2>11, <3>1
  <2> QED BY <2>10, <2>11
<1>4. ASSUME NEW p \in Proc, Close(p) PROVE Written'
  <2>1. /\ Others(p) /\ UNCHANGED <<dir, disk, hist>> /\ proc'[p].fd = NoFile
    BY <1>4, CloseFacts
  <2> SUFFICES ASSUME NEW r \in Proc, Writer(proc'[r]), proc'[r].fd \notin hist'.flawed
               PROVE  /\ \A s \in Proc \ {r} : proc'[s].fd # proc'[r].fd
                      /\ \A f \in Names : dir'[f] = proc'[r].fd => f = proc'[r].n
                      /\ proc'[r].retval = 0 => \E k \in 0 .. Len(Image(proc'[r])) :
                                                   Progress(proc'[r], disk'[proc'[r].fd], k)
    BY DEF Written, Writer, Image, Progress
  <2>2. r # p /\ proc'[r] = proc[r] /\ proc[r].fd # NoFile
    BY <2>1 DEF Writer, Others
  <2> QED BY <2>1, <2>2 DEF Written, Others
<1>5. CASE Load
  BY <1>5 DEF Load, Written, Writer, Image, Progress
<1> QED BY <1>1, <1>2, <1>3, <1>4, <1>5 DEF Next

-----------------------------------------------------------------------------
(***************************************************************************)
(* The first state.                                                        *)
(***************************************************************************)
\* The files there are at the start can be given inodes of their own.
LEMMA InodesEnough ==
    ASSUME NEW files \in SUBSET Names
    PROVE  \E g \in [files -> Inode] : \A a, b \in files : g[a] = g[b] => a = b
<1>1. IsFiniteSet(files) /\ Cardinality(files) <= Cardinality(Names)
  BY NamesFinite, FS_Subset
<1>2. PICK c \in Nat : c = Cardinality(files)
  BY <1>1, FS_CardinalityType
<1>3. PICK s : s \in Bijection(1 .. c, files)
  BY <1>1, <1>2, FS_CardinalityType DEF ExistsBijection
<1>4. \A f \in files : \E i \in 1 .. c : s[i] = f
  BY <1>3 DEF Bijection, Surjection
<1> DEFINE g == [f \in files |-> CHOOSE i \in 1 .. c : s[i] = f]
<1>5. \A f \in files : g[f] \in 1 .. c /\ s[g[f]] = f
  BY <1>4
<1>6. 1 .. c \subseteq Inode
  <2>1. c <= Cardinality(Proc) + Cardinality(Target) + TempNames
    BY <1>1, <1>2, NamesFinite, SaveAssumption
  <2>2. Cardinality(Proc) + Cardinality(Target) + TempNames \in Nat
    BY NamesFinite, SaveAssumption
  <2> QED BY <2>1, <2>2 DEF Inode
<1>7. g \in [files -> Inode]
  BY <1>5, <1>6
<1> HIDE DEF g
<1> QED BY <1>5, <1>7

GiveInodes(files) == CHOOSE g \in [files -> Inode] : \A a, b \in files : g[a] = g[b] => a = b

\* Init, of the names there are and where the processes start.
First(old, start) ==
    LET inode == GiveInodes(old \cup start.left)
        m == start.mem[CHOOSE p \in Proc : TRUE]
    IN  /\ dir = [f \in Names |-> IF f \in old \cup start.left THEN inode[f] ELSE NoFile]
        /\ disk = [i \in Inode |-> IF \E f \in old : inode[f] = i
                                   THEN Complete(unreloc(m), FALSE) ELSE <<>>]
        /\ proc = [p \in Proc |-> Idle(start.mem[p], start.exits[p])]
        /\ faults = start.faults
        /\ hist = [saved |-> old, lost |-> {}, flawed |-> {}, died |-> Cardinality(start.left)]

\* The processes start with the files of earlier saves and of the dead.
LEMMA InvInit ==
    ASSUME Init
    PROVE  Inv
<1>1. PICK old, start, files, g :
         /\ old \in SUBSET Target /\ start \in Starts
         /\ files = old \cup start.left
         /\ g = GiveInodes(files)
         /\ dir = [f \in Names |-> IF f \in files THEN g[f] ELSE NoFile]
         /\ DOMAIN disk = Inode
         /\ proc = [p \in Proc |-> Idle(start.mem[p], start.exits[p])]
         /\ faults = start.faults
         /\ hist = [saved |-> old, lost |-> {}, flawed |-> {}, died |-> Cardinality(start.left)]
  <2>1. PICK old \in SUBSET Target, start \in Starts : First(old, start)
    BY DEF Init, First, GiveInodes
  <2>2. PICK files : files = old \cup start.left
    OBVIOUS
  <2>3. PICK g : g = GiveInodes(files)
    OBVIOUS
  <2>4. /\ dir = [f \in Names |-> IF f \in files THEN g[f] ELSE NoFile]
        /\ DOMAIN disk = Inode
        /\ proc = [p \in Proc |-> Idle(start.mem[p], start.exits[p])]
        /\ faults = start.faults
        /\ hist = [saved |-> old, lost |-> {}, flawed |-> {}, died |-> Cardinality(start.left)]
    BY <2>1, <2>2, <2>3 DEF First
  <2> QED BY <2>2, <2>3, <2>4
<1>2. start.mem \in [Proc -> Memories] /\ start.left \in SUBSET Temp /\ start.faults \in Nat
  BY <1>1, SaveAssumption
<1>3. files \in SUBSET Names
  BY <1>1, <1>2 DEF Names
<1>4. g \in [files -> Inode] /\ \A a, b \in files : g[a] = g[b] => a = b
  <2>1. PICK h \in [files -> Inode] : \A a, b \in files : h[a] = h[b] => a = b
    BY <1>3, InodesEnough
  <2> QED BY <1>1, <2>1 DEF GiveInodes
<1>5. \A f \in Names : dir[f] = IF f \in files THEN g[f] ELSE NoFile
  BY <1>1
<1>6. ASSUME NEW p \in Proc
      PROVE  /\ ProcType(proc[p]) /\ MemoryOf(proc[p]) /\ ToWrite(proc[p])
             /\ ~Uses(proc[p]) /\ ~Writer(proc[p]) /\ proc[p].fd = NoFile
  <2>1. PICK q, m : q = proc[p] /\ m = start.mem[p] /\ m \in Memories
    BY <1>2
  <2>2. /\ DOMAIN q = Fields /\ q.pc = "idle" /\ q.mem = m /\ q.image = m /\ q.room = FALSE
        /\ q.n = 0 /\ q.fd = NoFile
    BY <1>1, <2>1 DEF Idle, Fields
  <2>3. ProcType(q)
    BY <2>1, <2>2, Constants DEF ProcType, PCs
  <2> QED BY <2>1, <2>2, <2>3 DEF MemoryOf, ToWrite, Uses, Writer, Done
<1>7. Cardinality(start.left) \in Nat
  <2>1. IsFiniteSet(start.left)
    BY <1>2, NamesFinite, FS_Subset DEF Names
  <2> QED BY <2>1, FS_CardinalityType
<1>8. TypeInv
  <2>1. dir \in [Names -> Inode \cup {NoFile}]
    BY <1>1, <1>4
  <2>2. /\ DOMAIN hist = {"saved", "lost", "flawed", "died"}
        /\ hist.died \in Nat /\ hist.saved \subseteq Target
    BY <1>1, <1>7
  <2>3. DOMAIN proc = Proc /\ DOMAIN disk = Inode /\ faults \in Nat
    BY <1>1, <1>2
  <2> QED BY <1>6, <2>1, <2>2, <2>3 DEF TypeInv
<1>9. Injective
  BY <1>4, <1>5 DEF Injective
<1>10. Named /\ Written
  BY <1>6 DEF Named, Written
<1>11. NamesKept
  <2>1. hist.saved \ hist.lost = old
    BY <1>1
  <2>2. \A f \in old : f \in files /\ f \in Names
    BY <1>1, <1>3
  <2>3. \A f \in old : dir[f] # NoFile
    <3> SUFFICES ASSUME NEW f \in old
                 PROVE  dir[f] # NoFile
      OBVIOUS
    <3>1. dir[f] = g[f]
      BY <1>5, <2>2
    <3>2. g[f] \in Inode
      BY <1>4, <2>2
    <3> QED BY <3>1, <3>2, Constants
  <2> QED BY <2>1, <2>3 DEF NamesKept
<1>12. Littered(start.left)
  <2>1. \A t \in Temp : t \in files => t \in start.left
    BY <1>1, Constants
  <2>2. hist.died = Cardinality(start.left)
    BY <1>1
  <2>3. \A t \in Temp : dir[t] # NoFile => t \in start.left
    BY <1>5, <2>1, Constants
  <2> QED BY <1>2, <1>7, <2>2, <2>3 DEF Littered
<1> QED BY <1>2, <1>8, <1>9, <1>10, <1>11, <1>12 DEF Inv, TempKept

\* Every step, and none, keeps the invariant.
LEMMA InvNext ==
    ASSUME Inv, [Next]_vars
    PROVE  Inv'
<1>1. CASE Next
  BY <1>1, TypeNext, InjectiveNext, NamedNext, WrittenNext, NamesKeptNext, TempKeptNext DEF Inv
<1>2. CASE UNCHANGED vars
  <2> USE <1>2 DEF vars, Inv
  <2>1. TypeInv'
    BY DEF TypeInv, ProcType, MemoryOf, ToWrite, Image
  <2>2. Injective' /\ NamesKept'
    BY DEF Injective, NamesKept
  <2>3. Named'
    BY DEF Named, Uses, Writer, Done
  <2>4. Written'
    BY DEF Written, Writer, Image, Progress
  <2>5. TempKept'
    BY DEF TempKept, Littered, Active
  <2> QED BY <2>1, <2>2, <2>3, <2>4, <2>5
<1> QED BY <1>1, <1>2

\* The inductive invariant: zysxi, putsave, openaout, wrtaout and closeaout keep
\* it, whatever the memories, the names, the number of processes and the faults.
THEOREM Invariance == Spec => []Inv
<1>1. Init => Inv
  BY InvInit
<1>2. Inv /\ [Next]_vars => Inv'
  BY InvNext
<1> QED BY <1>1, <1>2, PTL DEF Spec

-----------------------------------------------------------------------------
(***************************************************************************)
(* The properties.                                                         *)
(***************************************************************************)

\* The names a save has succeeded under stand, and the temporary files are those
\* of writers or of the dead.
LEMMA InvKept ==
    ASSUME Inv
    PROVE  Kept
<1> DEFINE files == {t \in Temp : dir[t] # NoFile}
           A == {p \in Proc : proc[p].pc \notin {"idle", "gone", "access", "open"}}
           name == [p \in A |-> proc[p].n]
           R == {proc[p].n : p \in A}
<1>1. PICK D \in SUBSET Temp : Littered(D)
  BY DEF Inv, TempKept
<1>2. IsFiniteSet(D) /\ Cardinality(D) \in Nat /\ Cardinality(D) <= hist.died
  <2>1. IsFiniteSet(D)
    BY NamesFinite, FS_Subset DEF Names
  <2> QED BY <1>1, <2>1, FS_CardinalityType DEF Littered
<1>3. IsFiniteSet(A) /\ Cardinality(A) \in Nat
  <2>1. A \in SUBSET Proc
    OBVIOUS
  <2> HIDE DEF A
  <2> QED BY <2>1, SaveAssumption, FS_Subset, FS_CardinalityType
<1>4. IsFiniteSet(R) /\ Cardinality(R) <= Cardinality(A) /\ Cardinality(R) \in Nat
  <2>1. name \in Surjection(A, R)
    BY DEF Surjection
  <2> HIDE DEF A, R, name
  <2> QED BY <1>3, <2>1, FS_Surjection, FS_CardinalityType
<1>5. files \subseteq D \cup R
  BY <1>1 DEF Littered, Active
<1>6. Cardinality(files) <= Cardinality(D \cup R) /\ Cardinality(files) \in Nat
      /\ Cardinality(D \cup R) <= Cardinality(D) + Cardinality(R) /\ Cardinality(D \cup R) \in Nat
  <2> HIDE DEF files, A, R, name
  <2>1. /\ IsFiniteSet(D \cup R)
        /\ Cardinality(D \cup R) = Cardinality(D) + Cardinality(R) - Cardinality(D \cap R)
    BY <1>2, <1>4, FS_Union
  <2>2. Cardinality(D \cap R) \in Nat
    <3>1. IsFiniteSet(D \cap R)
      BY <1>2, FS_Subset
    <3> QED BY <3>1, FS_CardinalityType
  <2>3. Cardinality(D \cup R) \in Nat
    BY <2>1, FS_CardinalityType
  <2>4. IsFiniteSet(files) /\ Cardinality(files) <= Cardinality(D \cup R)
    BY <1>5, <2>1, FS_Subset
  <2>5. Cardinality(files) \in Nat
    BY <2>4, FS_CardinalityType
  <2> QED BY <1>2, <1>4, <2>1, <2>2, <2>3, <2>4, <2>5
<1>7. Cardinality(files) <= hist.died + Cardinality(A)
  <2>1. hist.died \in Nat
    BY DEF Inv, TypeInv
  <2> HIDE DEF files, A, R, name
  <2> QED BY <1>2, <1>3, <1>4, <1>6, <2>1
<1> QED BY <1>7 DEF Inv, NamesKept, Kept

\* A name under which a save succeeded goes on naming a file but between the
\* unlink and the rename of closeaout; temporary files do not pile up.
THEOREM KeptHolds == Spec => []Kept
<1>1. Inv => Kept
  BY InvKept
<1> QED BY <1>1, Invariance, PTL

\* EXIT leaves the memory of a program that goes on as it was: rereloc undoes
\* unreloc, for any word size and however the save went.
THEOREM ResumedHolds == Spec => []Resumed
<1>1. Inv => Resumed
  BY DEF Inv, TypeInv, MemoryOf, Resumed
<1> QED BY <1>1, Invariance, PTL

\* Replaced, of one step.
ReplacedStep ==
    \A f \in Target :
        /\ dir'[f] \notin {dir[f], NoFile} =>
             \E p \in Proc : /\ proc[p].pc = "rename" /\ proc[p].fn = f
                             /\ \/ disk[dir'[f]] = Complete(proc[p].saved, proc[p].room)
                                \/ dir'[f] \in hist.flawed
        /\ dir'[f] = dir[f] /\ dir[f] # NoFile =>
             disk'[dir[f]] = disk[dir[f]] \/ dir[f] \in hist.flawed

\* The file renamed is whole, or flawed.
LEMMA RenamedWhole ==
    ASSUME Inv, NEW p \in Proc, NEW a, a = proc[p], a.pc = "rename", dir[a.n] # NoFile
    PROVE  disk[dir[a.n]] = Complete(a.saved, a.room) \/ dir[a.n] \in hist.flawed
<1>1. Uses(a) /\ Done(a) /\ a.saved = unreloc(a.image)
  BY DEF Uses, Done, Inv, TypeInv, MemoryOf
<1> QED BY <1>1 DEF Inv, Named

\* No step but a rename changes what stands under a name given to EXIT.
LEMMA ReplacedNext ==
    ASSUME Inv, Next
    PROVE  ReplacedStep
<1> USE DEF Inv
<1> SUFFICES ASSUME NEW f \in Target
             PROVE  /\ dir'[f] \notin {dir[f], NoFile} =>
                         \E p \in Proc : /\ proc[p].pc = "rename" /\ proc[p].fn = f
                             /\ \/ disk[dir'[f]] = Complete(proc[p].saved, proc[p].room)
                                \/ dir'[f] \in hist.flawed
                    /\ dir'[f] = dir[f] /\ dir[f] # NoFile =>
                         disk'[dir[f]] = disk[dir[f]] \/ dir[f] \in hist.flawed
  BY DEF ReplacedStep
<1>0. f \in Names /\ \A p \in Proc : proc[p].n \in Names /\ proc[p].n # f
  BY Constants DEF TypeInv, ProcType
<1>1. ASSUME NEW p \in Proc, Rename(p)
      PROVE  /\ dir'[f] \notin {dir[f], NoFile} =>
                  /\ proc[p].pc = "rename" /\ proc[p].fn = f
                  /\ \/ disk[dir'[f]] = Complete(proc[p].saved, proc[p].room)
                     \/ dir'[f] \in hist.flawed
             /\ UNCHANGED disk
  <2>1. PICK a, b : a = proc[p] /\ b = proc'[p]
    OBVIOUS
  <2>2. RenameEffect(p, a, b)
    BY <1>1, <2>1, RenameFacts
  <2>3. a.pc = "rename" /\ UNCHANGED disk
    BY <2>2 DEF RenameEffect
  <2>4. CASE UNCHANGED dir
    BY <2>3, <2>4
  <2>5. CASE dir[a.n] # NoFile /\ dir' = [dir EXCEPT ![a.fn] = dir[a.n], ![a.n] = NoFile]
    <3>1. dir'[f] = IF f = a.fn THEN dir[a.n] ELSE dir[f]
      BY <1>0, <2>1, <2>5 DEF TypeInv
    <3>2. disk[dir[a.n]] = Complete(a.saved, a.room) \/ dir[a.n] \in hist.flawed
      BY <2>1, <2>3, <2>5, RenamedWhole
    <3> QED BY <2>1, <2>3, <3>1, <3>2
  <2> QED BY <2>2, <2>4, <2>5 DEF RenameEffect
<1>2. ASSUME NEW p \in Proc,
             Exit(p) \/ Access(p) \/ Put(p) \/ Unlink(p) \/ Discard(p) \/ Crash(p)
      PROVE  dir'[f] \in {dir[f], NoFile} /\ UNCHANGED disk
  <2>1. proc[p].pc # "rename" \/ UNCHANGED dir
    BY <1>2 DEF Exit, Access, Put, Unlink, Discard, Crash
  <2> QED BY <1>0, <1>2, <2>1, QuietSteps
<1>3. ASSUME NEW p \in Proc, Close(p) PROVE UNCHANGED <<dir, disk>>
  BY <1>3 DEF Close
<1>4. ASSUME NEW p \in Proc, Open(p)
      PROVE  dir'[f] = dir[f] /\ (dir[f] # NoFile => disk'[dir[f]] = disk[dir[f]])
  <2>1. PICK a, b : a = proc[p] /\ b = proc'[p]
    OBVIOUS
  <2>2. OpenEffect(p, a, b)
    BY <1>4, <2>1, OpenFacts
  <2>3. a.pc = "open" /\ a.n \in Names /\ a.n # f
    BY <1>0, <2>1, <2>2 DEF OpenEffect
  <2>4. CASE UNCHANGED <<dir, disk>>
    BY <2>4
  <2>5. CASE ~UNCHANGED <<dir, disk>>
    <3>1. PICK i : /\ i = IF dir[a.n] = NoFile THEN FreeInode ELSE dir[a.n]
                   /\ dir' = [dir EXCEPT ![a.n] = i] /\ disk' = [disk EXCEPT ![i] = <<>>]
      BY <2>2, <2>5 DEF OpenEffect
    <3>2. i # dir[f] \/ dir[f] = NoFile
      <4>1. CASE dir[a.n] = NoFile
        BY <1>0, <2>1, <2>3, <3>1, <4>1, InodeFree
      <4>2. CASE dir[a.n] # NoFile
        BY <1>0, <2>3, <3>1, <4>2 DEF Injective
      <4> QED BY <4>1, <4>2
    <3>3. dir[f] # NoFile => dir[f] \in Inode
      BY <1>0 DEF TypeInv
    <3> QED BY <1>0, <2>3, <3>1, <3>2, <3>3 DEF TypeInv
  <2> QED BY <2>4, <2>5
<1>5. ASSUME NEW p \in Proc, Write(p)
      PROVE  /\ dir' = dir
             /\ dir[f] # NoFile => disk'[dir[f]] = disk[dir[f]] \/ dir[f] \in hist.flawed
  <2>1. PICK a, b : a = proc[p] /\ b = proc'[p]
    OBVIOUS
  <2>2. WriteEffect(p, a, b)
    BY <1>5, <2>1, WriteFacts
  <2>3. UNCHANGED dir /\ a.pc = "write"
    BY <2>2 DEF WriteEffect
  <2>4. \/ UNCHANGED disk
        \/ a.fd # NoFile /\ \A j \in Inode : j # a.fd => disk'[j] = disk[j]
    BY <2>2 DEF WriteEffect, TypeInv
  <2>5. dir[f] # NoFile => dir[f] \in Inode
    BY <1>0 DEF TypeInv
  \* A file that is being written has its temporary name alone.
  <2>6. a.fd # NoFile /\ a.fd \notin hist.flawed => dir[f] # a.fd
    BY <1>0, <2>1, <2>3 DEF Written, Writer
  <2> QED BY <2>3, <2>4, <2>5, <2>6
<1>6. ASSUME Load PROVE UNCHANGED <<dir, disk>>
  BY <1>6 DEF Load
<1> QED BY <1>1, <1>2, <1>3, <1>4, <1>5, <1>6 DEF Next

\* A rename of closeaout puts a whole image under the name given to EXIT, and
\* what stands there changes in no other way, unless a compressed write failed
\* unseen or another process used the same temporary name.
THEOREM ReplacedHolds == Spec => Replaced
<1>1. Inv /\ [Next]_vars => [ReplacedStep]_vars
  BY ReplacedNext
<1> QED BY <1>1, Invariance, PTL DEF Spec, Replaced, ReplacedStep
=============================================================================
