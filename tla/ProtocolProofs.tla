---------------------------- MODULE ProtocolProofs ----------------------------
(***************************************************************************)
(* What holds of the codec for every value of its constants: frames of any *)
(* request and any measurement, with any byte damaged in any way, or cut   *)
(* off anywhere.                                                           *)
(*                                                                         *)
(* The checksums are totals, defined by recursion over a sequence, and the *)
(* replies of the sensors are flattened sequences of words.  What is known *)
(* of both comes from Induction, which states induction as a fact about a  *)
(* set of numbers.  From there the lemmas go from strings of bytes to      *)
(* packets and frames, then to what arrives and what is made of it; the    *)
(* codec's invariants follow from one inductive invariant, IInv.           *)
(***************************************************************************)
EXTENDS Protocol, SequenceTheorems, WellFoundedInduction, TLAPS

(***************************************************************************)
(* Recursion over sequences.                                               *)
(***************************************************************************)
\* Concatenation and subsequence under names the provers leave folded.
Cat(s, t)           == s \o t
Part(s, first, last) == SubSeq(s, first, last)

\* A nonempty set of numbers has a least one.
LEMMA LeastNumber ==
    ASSUME NEW T \in SUBSET Nat, T # {}
    PROVE  \E m \in T : \A n \in T : m <= n
<1> DEFINE R == OpToRel(<, Nat)
<1>1. IsWellFoundedOn(R, Nat)
  BY NatLessThanWellFounded, Zenon
<1>2. \A x, y \in Nat : x < y => <<x, y>> \in R
  BY DEF OpToRel
<1> HIDE DEF R
<1>3. PICK x \in T : \A y \in T : ~ (<<y, x>> \in R)
  BY <1>1, WFMin
<1>4. \A y \in T : ~(y < x)
  BY <1>2, <1>3
<1>5. \A y \in T : x \in Nat /\ y \in Nat
  OBVIOUS
<1>6. \A y \in T : x <= y
  BY <1>4, <1>5
<1> QED BY <1>6

\* Induction, as a fact about a set.
LEMMA Induction ==
    ASSUME NEW S, 0 \in S, \A n \in Nat : n \in S => n + 1 \in S
    PROVE  \A n \in Nat : n \in S
<1> DEFINE T == Nat \ S
<1>1. SUFFICES ASSUME T # {} PROVE FALSE
  OBVIOUS
<1>2. PICK m \in T : \A n \in T : m <= n
  <2>1. T \in SUBSET Nat
    OBVIOUS
  <2> HIDE DEF T
  <2> QED  BY <1>1, <2>1, LeastNumber
<1>3. m \in Nat /\ m \notin S /\ m # 0
  BY <1>2
<1>4. m - 1 \in Nat /\ m - 1 \in S
  BY <1>2, <1>3
<1>5. (m - 1) + 1 = m
  BY <1>3
<1> QED  BY <1>3, <1>4, <1>5

\* f sums the first k elements of s.
Sums(f, s, k) ==
    /\ f = [i \in 0..k |-> IF i = 0 THEN 0 ELSE f[i - 1] + s[i]]
    /\ f \in [0..k -> Nat]

\* Every sequence of numbers can be summed up.
LEMMA SumsExist ==
    ASSUME NEW s \in Seq(Nat)
    PROVE  \E f : Sums(f, s, Len(s))
<1> DEFINE K == {k \in Nat : k <= Len(s) => \E f : Sums(f, s, k)}
<1>1. 0 \in K
  <2>1. Sums([i \in 0..0 |-> 0], s, 0)
    BY DEF Sums
  <2> QED  BY <2>1
<1>2. ASSUME NEW k \in Nat, k \in K PROVE k + 1 \in K
  <2>1. SUFFICES ASSUME k + 1 <= Len(s) PROVE \E f : Sums(f, s, k + 1)
    OBVIOUS
  <2>2. PICK f : Sums(f, s, k)
    BY <1>2, <2>1
  <2>3. s[k + 1] \in Nat
    BY <2>1, ElementOfSeq
  <2> DEFINE g == [i \in 0..(k + 1) |-> IF i = k + 1 THEN f[k] + s[k + 1] ELSE f[i]]
  <2>4. g \in [0..(k + 1) -> Nat]
    BY <2>2, <2>3 DEF Sums
  <2>5. ASSUME NEW i \in 0..(k + 1) PROVE g[i] = IF i = 0 THEN 0 ELSE g[i - 1] + s[i]
    BY <2>2 DEF Sums
  <2>6. g = [i \in 0..(k + 1) |-> IF i = 0 THEN 0 ELSE g[i - 1] + s[i]]
    BY <2>5
  <2> QED  BY <2>4, <2>6 DEF Sums
<1> HIDE DEF K
<1>3. \A k \in Nat : k \in K
  BY <1>1, <1>2, Induction
<1> QED  BY <1>3, LenProperties DEF K

\* Any sums of s end in its total.
LEMMA TotalIs ==
    ASSUME NEW s \in Seq(Nat), NEW f, NEW n \in Nat, Len(s) = n,
           f[0] = 0, \A i \in 1..n : f[i] = f[i - 1] + s[i]
    PROVE  Total(s) = f[n]
<1> DEFINE g == CHOOSE h : h = [i \in 0..n |-> IF i = 0 THEN 0 ELSE h[i - 1] + s[i]]
<1>1. g = [i \in 0..n |-> IF i = 0 THEN 0 ELSE g[i - 1] + s[i]]
  BY SumsExist DEF Sums
<1>2. Total(s) = g[n]
  BY DEF Total
<1> HIDE DEF g
<1> DEFINE K == {k \in Nat : k <= n => g[k] = f[k]}
<1>3. 0 \in K
  BY <1>1
<1>4. ASSUME NEW k \in Nat, k \in K PROVE k + 1 \in K
  <2>1. SUFFICES ASSUME k + 1 <= n PROVE g[k + 1] = f[k + 1]
    OBVIOUS
  <2>2. k + 1 \in 0..n /\ k + 1 # 0 /\ (k + 1) - 1 = k /\ k + 1 \in 1..n
    BY <2>1
  <2>3. g[k + 1] = g[k] + s[k + 1]
    BY <1>1, <2>2
  <2>4. g[k] = f[k]
    BY <1>4, <2>1
  <2> QED  BY <2>2, <2>3, <2>4
<1> HIDE DEF K
<1>5. n \in K
  BY <1>3, <1>4, Induction
<1> QED  BY <1>2, <1>5 DEF K

\* The sums of a sequence of numbers, and its total, are numbers.
LEMMA TotalSums ==
    ASSUME NEW s \in Seq(Nat)
    PROVE  \E f \in [0..Len(s) -> Nat] :
               /\ f[0] = 0 /\ \A i \in 1..Len(s) : f[i] = f[i - 1] + s[i]
               /\ Total(s) = f[Len(s)]
<1>1. PICK f : Sums(f, s, Len(s))
  BY SumsExist
<1>2. Len(s) \in Nat
  BY LenProperties
<1>3. f[0] = 0 /\ \A i \in 1..Len(s) : f[i] = f[i - 1] + s[i]
  BY <1>1, <1>2 DEF Sums
<1>4. Total(s) = f[Len(s)]
  BY <1>2, <1>3, TotalIs
<1> QED  BY <1>1, <1>3, <1>4 DEF Sums

\* A total is a number.
LEMMA TotalType ==
    ASSUME NEW s \in Seq(Nat)
    PROVE  Total(s) \in Nat
<1>1. Len(s) \in Nat
  BY LenProperties
<1> QED  BY <1>1, TotalSums

\* The total of nothing.
LEMMA TotalEmpty == Total(<<>>) = 0
<1>1. <<>> \in Seq(Nat) /\ Len(<<>>) = 0
  BY EmptySeq
<1> QED  BY <1>1, TotalSums

\* An element at the end is added to the total.
LEMMA TotalAppend ==
    ASSUME NEW s \in Seq(Nat), NEW x \in Nat
    PROVE  Total(Append(s, x)) = Total(s) + x
<1> DEFINE n == Len(s)
           t == Append(s, x)
<1>1. n \in Nat /\ t \in Seq(Nat) /\ Len(t) = n + 1 /\ t[n + 1] = x
      /\ \A i \in 1..n : t[i] = s[i]
  BY LenProperties, AppendProperties
<1> HIDE DEF t
<1>2. PICK f \in [0..Len(t) -> Nat] :
               /\ f[0] = 0 /\ \A i \in 1..Len(t) : f[i] = f[i - 1] + t[i]
               /\ Total(t) = f[Len(t)]
  BY <1>1, TotalSums
<1> HIDE DEF n
<1>3. \A i \in 1..n : f[i] = f[i - 1] + s[i]
  BY <1>1, <1>2
<1>4. Total(s) = f[n]
  BY <1>1, <1>2, <1>3, TotalIs DEF n
<1>5. f[n + 1] = f[n] + x
  <2>1. n + 1 \in 1..Len(t) /\ (n + 1) - 1 = n
    BY <1>1
  <2> QED  BY <1>1, <1>2, <2>1
<1> QED  BY <1>1, <1>2, <1>4, <1>5 DEF t

\* One element more or less is as much more or less in the total.
LEMMA TotalChange ==
    ASSUME NEW s \in Seq(Nat), NEW t \in Seq(Nat), NEW j \in 1..Len(s), Len(t) = Len(s),
           \A i \in 1..Len(s) : i # j => t[i] = s[i]
    PROVE  Total(t) = Total(s) + (t[j] - s[j])
<1> DEFINE n == Len(s)
<1>1. n \in Nat /\ s[j] \in Nat /\ t[j] \in Nat
  BY LenProperties, ElementOfSeq
<1>2. PICK f \in [0..n -> Nat] :
               /\ f[0] = 0 /\ \A i \in 1..n : f[i] = f[i - 1] + s[i]
               /\ Total(s) = f[n]
  BY TotalSums
<1>2a. j \in 1..n /\ Len(t) = n /\ \A i \in 1..n : i # j => t[i] = s[i]
  OBVIOUS
<1> HIDE DEF n
<1> DEFINE more == t[j] - s[j]
<1>2b. more \in Int
  BY <1>1
<1> HIDE DEF more
<1> DEFINE g == [i \in 0..n |-> IF i < j THEN f[i] ELSE f[i] + more]
<1>3. g[0] = 0
  BY <1>1, <1>2, <1>2a
<1>4. ASSUME NEW i \in 1..n PROVE g[i] = g[i - 1] + t[i]
  <2>1. f[i] = f[i - 1] + s[i] /\ f[i - 1] \in Nat /\ i \in 0..n /\ i - 1 \in 0..n /\ j \in Int
    <3>1. i \in 0..n /\ i - 1 \in 0..n /\ j \in Int
      BY <1>1, <1>2a
    <3>2. f[i] = f[i - 1] + s[i] /\ f[i - 1] \in Nat
      BY <1>2, <3>1
    <3> QED  BY <3>1, <3>2
  <2>1a. s[i] \in Nat
    BY ElementOfSeq DEF n
  <2>2. CASE i < j
    <3>1. g[i] = f[i] /\ g[i - 1] = f[i - 1]
      BY <2>1, <2>2
    <3>2. t[i] = s[i]
      BY <1>2a, <2>1, <2>2
    <3> QED  BY <2>1, <3>1, <3>2
  <2>3. CASE i = j
    <3>1. g[i] = f[i] + more /\ g[i - 1] = f[i - 1]
      BY <2>1, <2>3
    <3>2. t[i] = s[i] + more
      BY <1>1, <2>3 DEF more
    <3> QED  BY <1>1, <1>2b, <2>1, <2>1a, <2>3, <3>1, <3>2, SMTT(40)
  <2>4. CASE i > j
    <3>1. g[i] = f[i] + more /\ g[i - 1] = f[i - 1] + more
      BY <2>1, <2>4
    <3>2. t[i] = s[i]
      BY <1>2a, <2>1, <2>4
    <3> QED  BY <1>2b, <2>1, <2>1a, <3>1, <3>2
  <2> QED  BY <2>1, <2>2, <2>3, <2>4
<1>5. g[n] = f[n] + more
  BY <1>1, <1>2a
<1> HIDE DEF g
<1>6. Total(t) = g[n]
  BY <1>1, <1>2a, <1>3, <1>4, TotalIs
<1> QED  BY <1>2, <1>5, <1>6 DEF more

\* f flattens the first k of seqs.
Flattens(f, seqs, k) == f = [i \in 1..k |-> IF i = 1 THEN seqs[i] ELSE f[i - 1] \o seqs[i]]

\* Every sequence of sequences can be flattened.
LEMMA FlattenExists ==
    ASSUME NEW seqs, NEW n \in Nat
    PROVE  \E f : Flattens(f, seqs, n)
<1> DEFINE K == {k \in Nat : \E f : Flattens(f, seqs, k)}
<1>1. 0 \in K
  <2>1. Flattens([i \in 1..0 |-> 0], seqs, 0)
    BY DEF Flattens
  <2> QED  BY <2>1
<1>2. ASSUME NEW k \in Nat, k \in K PROVE k + 1 \in K
  <2>1. PICK f : Flattens(f, seqs, k)
    BY <1>2
  <2> DEFINE g == [i \in 1..(k + 1) |->
                      IF i = k + 1 THEN IF i = 1 THEN seqs[i] ELSE f[k] \o seqs[i]
                                   ELSE f[i]]
  <2>2. ASSUME NEW i \in 1..(k + 1) PROVE g[i] = IF i = 1 THEN seqs[i] ELSE g[i - 1] \o seqs[i]
    <3>1. CASE i = k + 1
      <4>1. i # 1 => g[i - 1] = f[k]
        BY <3>1
      <4>2. g[i] = IF i = 1 THEN seqs[i] ELSE f[k] \o seqs[i]
        BY <3>1
      <4> QED  BY <4>1, <4>2
    <3>2. CASE i # k + 1
      <4>1. i \in 1..k /\ g[i] = f[i] /\ (i # 1 => g[i - 1] = f[i - 1])
        BY <3>2
      <4>2. f[i] = IF i = 1 THEN seqs[i] ELSE f[i - 1] \o seqs[i]
        BY <2>1, <4>1 DEF Flattens
      <4> QED  BY <4>1, <4>2
    <3> QED  BY <3>1, <3>2
  <2>3. Flattens(g, seqs, k + 1)
    BY <2>2 DEF Flattens
  <2> HIDE DEF g
  <2> QED  BY <2>3
<1> HIDE DEF K
<1>3. n \in K
  BY <1>1, <1>2, Induction
<1> QED  BY <1>3 DEF K

\* FlattenSeq is the last step of a flattening.
LEMMA FlattenIs ==
    ASSUME NEW seqs, NEW n \in Nat, n # 0, Len(seqs) = n
    PROVE  \E f : Flattens(f, seqs, n) /\ FlattenSeq(seqs) = f[n]
<1> DEFINE g == CHOOSE f : f = [i \in 1..n |-> IF i = 1 THEN seqs[i] ELSE f[i - 1] \o seqs[i]]
<1>1. Flattens(g, seqs, n)
  BY FlattenExists DEF Flattens
<1>2. FlattenSeq(seqs) = g[n]
  BY DEF FlattenSeq
<1> QED  BY <1>1, <1>2

\* Words end to end: each where one expects it.
LEMMA FlattenPairs ==
    ASSUME NEW seqs, NEW n \in Nat, n # 0, Len(seqs) = n,
           \A i \in 1..n : seqs[i] \in Seq(Byte) /\ Len(seqs[i]) = 2
    PROVE  /\ FlattenSeq(seqs) \in Seq(Byte) /\ Len(FlattenSeq(seqs)) = 2 * n
           /\ \A i \in 1..n : /\ FlattenSeq(seqs)[2 * i - 1] = seqs[i][1]
                              /\ FlattenSeq(seqs)[2 * i] = seqs[i][2]
<1>1. PICK f : Flattens(f, seqs, n) /\ FlattenSeq(seqs) = f[n]
  BY FlattenIs
<1> DEFINE Good(k) == /\ f[k] \in Seq(Byte) /\ Len(f[k]) = 2 * k
                      /\ \A i \in 1..k : f[k][2 * i - 1] = seqs[i][1] /\ f[k][2 * i] = seqs[i][2]
           K == {k \in Nat : k # 0 /\ k <= n => Good(k)}
<1>2. 0 \in K
  OBVIOUS
<1>3. ASSUME NEW k \in Nat, k \in K PROVE k + 1 \in K
  <2>1. SUFFICES ASSUME k + 1 <= n PROVE Good(k + 1)
    OBVIOUS
  <2>2. k + 1 \in 1..n
    BY <2>1
  <2>3. CASE k = 0
    <3>1. f[1] = seqs[1]
      BY <1>1, <2>2 DEF Flattens
    <3> QED  BY <2>2, <2>3, <3>1
  <2>4. CASE k # 0
    <3> DEFINE s == f[k]
               p == seqs[k + 1]
    <3>1. Good(k)
      BY <1>3, <2>1, <2>4
    <3>2. f[k + 1] = s \o p
      <4>1. k + 1 # 1 /\ (k + 1) - 1 = k
        BY <2>4
      <4> QED  BY <1>1, <2>2, <4>1 DEF Flattens
    <3>3. p \in Seq(Byte) /\ Len(p) = 2
      BY <2>2
    <3>4. s \in Seq(Byte) /\ Len(s) = 2 * k
      BY <3>1
    <3>5. \A i \in 1..k : s[2 * i - 1] = seqs[i][1] /\ s[2 * i] = seqs[i][2]
      BY <3>1
    <3>6. p[1] = seqs[k + 1][1] /\ p[2] = seqs[k + 1][2]
      OBVIOUS
    <3> DEFINE t == s \o p
    <3> HIDE DEF s, p
    <3>7. /\ t \in Seq(Byte) /\ Len(t) = 2 * k + 2
          /\ \A i \in 1..2 * k + 2 : t[i] = IF i <= 2 * k THEN s[i] ELSE p[i - 2 * k]
      <4>1. /\ t \in Seq(Byte) /\ Len(t) = Len(s) + Len(p)
            /\ \A i \in 1..Len(s) + Len(p) :
                  t[i] = IF i <= Len(s) THEN s[i] ELSE p[i - Len(s)]
        BY <3>3, <3>4, ConcatProperties DEF t
      <4> QED  BY <3>3, <3>4, <4>1
    <3> HIDE DEF t
    <3>8. ASSUME NEW i \in 1..(k + 1)
          PROVE  t[2 * i - 1] = seqs[i][1] /\ t[2 * i] = seqs[i][2]
      <4>1. CASE i <= k
        <5>1. 2 * i - 1 \in 1..2 * k + 2 /\ 2 * i \in 1..2 * k + 2
              /\ 2 * i - 1 <= 2 * k /\ 2 * i <= 2 * k
          BY <4>1
        <5>2. t[2 * i - 1] = s[2 * i - 1] /\ t[2 * i] = s[2 * i]
          BY <3>7, <5>1
        <5>3. i \in 1..k
          BY <4>1
        <5> QED  BY <3>5, <5>2, <5>3
      <4>2. CASE i = k + 1
        <5>1. 2 * i - 1 \in 1..2 * k + 2 /\ 2 * i \in 1..2 * k + 2
              /\ ~(2 * i - 1 <= 2 * k) /\ ~(2 * i <= 2 * k)
              /\ (2 * i - 1) - 2 * k = 1 /\ 2 * i - 2 * k = 2
          BY <4>2
        <5>2. t[2 * i - 1] = p[1] /\ t[2 * i] = p[2]
          BY <3>7, <5>1
        <5> QED  BY <3>6, <4>2, <5>2
      <4> QED  BY <4>1, <4>2
    <3>9. f[k + 1] = t
      BY <3>2 DEF t
    <3>10. Len(t) = 2 * (k + 1)
      BY <3>7
    <3> QED  BY <3>7, <3>8, <3>9, <3>10
  <2> QED  BY <2>3, <2>4
<1> HIDE DEF K
<1>4. n \in K
  BY <1>2, <1>3, Induction
<1>5. Good(n)
  BY <1>4 DEF K
<1> QED  BY <1>1, <1>5

\* Three sequences end to end.
LEMMA FlattenThree ==
    ASSUME NEW s, Len(s) = 3
    PROVE  FlattenSeq(s) = Cat(Cat(s[1], s[2]), s[3])
<1>1. PICK f : Flattens(f, s, 3) /\ FlattenSeq(s) = f[3]
  <2>1. \A n \in Nat : n # 0 /\ Len(s) = n => \E f : Flattens(f, s, n) /\ FlattenSeq(s) = f[n]
    BY FlattenIs
  <2> QED  BY <2>1
<1>2. f[1] = s[1]
  BY <1>1 DEF Flattens
<1>3. f[2] = s[1] \o s[2]
  BY <1>1, <1>2 DEF Flattens
<1>4. f[3] = (s[1] \o s[2]) \o s[3]
  <2>1. \A i \in 1..3 : i # 1 => f[i] = f[i - 1] \o s[i]
    BY <1>1 DEF Flattens
  <2>2. 3 \in 1..3 /\ 3 # 1 /\ 3 - 1 = 2
    OBVIOUS
  <2>3. f[3] = f[2] \o s[3]
    BY <2>1, <2>2
  <2> QED  BY <1>3, <2>3
<1> QED  BY <1>1, <1>4, Zenon DEF Cat

-----------------------------------------------------------------------------
(***************************************************************************)
(* Strings of bytes.                                                       *)
(***************************************************************************)
Bytes(n) == [1..n -> Byte]

\* Strings are sequences of bytes.
LEMMA BytesAre ==
    ASSUME NEW n \in Nat, NEW s \in Bytes(n)
    PROVE  s \in Seq(Byte) /\ Len(s) = n /\ \A i \in 1..n : s[i] \in Byte
  BY DEF Bytes

\* Sequences of bytes are strings.
LEMMA AreBytes ==
    ASSUME NEW s \in Seq(Byte)
    PROVE  Len(s) \in Nat /\ s \in Bytes(Len(s))
  BY LenProperties DEF Bytes

\* Strings with the same bytes are the same.
LEMMA SameBytes ==
    ASSUME NEW n \in Nat, NEW s \in Bytes(n), NEW t \in Bytes(n), \A i \in 1..n : s[i] = t[i]
    PROVE  s = t
  BY DEF Bytes

\* What is summed in a checksum are numbers.
LEMMA BytesAreNumbers ==
    ASSUME NEW n \in Nat, NEW s \in Bytes(n)
    PROVE  s \in Seq(Nat)
<1>1. s \in Seq(Byte) /\ Byte \subseteq Nat
  BY BytesAre DEF Byte
<1> QED  BY <1>1, SeqMonotonic

\* Two strings end to end.
LEMMA Joined ==
    ASSUME NEW m \in Nat, NEW n \in Nat, NEW s \in Bytes(m), NEW t \in Bytes(n)
    PROVE  /\ Cat(s, t) \in Bytes(m + n)
           /\ \A i \in 1..m : Cat(s, t)[i] = s[i]
           /\ \A i \in 1..n : Cat(s, t)[m + i] = t[i]
<1> DEFINE u == s \o t
<1>1. s \in Seq(Byte) /\ Len(s) = m /\ t \in Seq(Byte) /\ Len(t) = n
  BY BytesAre
<1>2. /\ u \in Seq(Byte) /\ Len(u) = Len(s) + Len(t)
      /\ \A i \in 1..Len(s) + Len(t) : u[i] = IF i <= Len(s) THEN s[i] ELSE t[i - Len(s)]
  BY <1>1, ConcatProperties
<1> HIDE DEF u
<1>3. Len(u) = m + n /\ \A i \in 1..m + n : u[i] = IF i <= m THEN s[i] ELSE t[i - m]
  BY <1>1, <1>2
<1>4. \A i \in 1..m : u[i] = s[i]
  BY <1>3
<1>5. ASSUME NEW i \in 1..n PROVE u[m + i] = t[i]
  <2>1. m + i \in 1..m + n /\ ~(m + i <= m) /\ (m + i) - m = i
    OBVIOUS
  <2> QED  BY <1>3, <2>1
<1>6. u \in Bytes(m + n)
  BY <1>2, <1>3, AreBytes
<1>7. Cat(s, t) = u
  BY Zenon DEF Cat, u
<1> QED  BY <1>4, <1>5, <1>6, <1>7

\* The same under names, so that an application does not put its terms into the
\* quantified facts above: u is s and then t, or s and then the bytes a and b.
Follows(u, m, s, n, t) ==
    /\ u \in Bytes(m + n)
    /\ \A i \in 1..m : u[i] = s[i]
    /\ \A i \in 1..n : u[m + i] = t[i]
Closed(u, n, s, a, b) ==
    /\ u \in Bytes(n + 2)
    /\ \A i \in 1..n : u[i] = s[i]
    /\ u[n + 1] = a /\ u[n + 2] = b

\* Two strings of bytes in a row.
LEMMA JoinedFollows ==
    ASSUME NEW m \in Nat, NEW n \in Nat, NEW s \in Bytes(m), NEW t \in Bytes(n)
    PROVE  Follows(Cat(s, t), m, s, n, t)
  BY Joined DEF Follows

\* A pair at the end of a string.
LEMMA JoinedClosed ==
    ASSUME NEW n \in Nat, NEW s \in Bytes(n), NEW a \in Byte, NEW b \in Byte
    PROVE  Closed(Cat(s, <<a, b>>), n, s, a, b)
<1> DEFINE t == <<a, b>>
           u == Cat(s, t)
<1>1. t \in Bytes(2) /\ t[1] = a /\ t[2] = b /\ 2 \in Nat
  BY DEF Bytes
<1> HIDE DEF t
<1>2. u \in Bytes(n + 2) /\ (\A i \in 1..n : u[i] = s[i]) /\ \A i \in 1..2 : u[n + i] = t[i]
  BY <1>1, Joined
<1> HIDE DEF u
<1>3. u[n + 1] = t[1] /\ u[n + 2] = t[2]
  BY <1>2
<1>4. Closed(u, n, s, a, b)
  BY <1>1, <1>2, <1>3 DEF Closed
<1> QED  BY <1>4 DEF u, t

\* The same, spelt out.
LEMMA JoinedPair ==
    ASSUME NEW n \in Nat, NEW s \in Bytes(n), NEW a \in Byte, NEW b \in Byte
    PROVE  /\ Cat(s, <<a, b>>) \in Bytes(n + 2)
           /\ \A i \in 1..n : Cat(s, <<a, b>>)[i] = s[i]
           /\ Cat(s, <<a, b>>)[n + 1] = a /\ Cat(s, <<a, b>>)[n + 2] = b
<1> DEFINE u == Cat(s, <<a, b>>)
<1>1. Closed(u, n, s, a, b)
  BY JoinedClosed
<1> HIDE DEF u
<1>2. /\ u \in Bytes(n + 2)
      /\ \A i \in 1..n : u[i] = s[i]
      /\ u[n + 1] = a /\ u[n + 2] = b
  BY <1>1 DEF Closed
<1> QED  BY <1>2 DEF u

\* One byte more.
LEMMA Appended ==
    ASSUME NEW n \in Nat, NEW s \in Bytes(n), NEW c \in Byte
    PROVE  /\ Append(s, c) \in Bytes(n + 1)
           /\ \A i \in 1..n : Append(s, c)[i] = s[i]
           /\ Append(s, c)[n + 1] = c
<1> DEFINE u == Append(s, c)
<1>1. s \in Seq(Byte) /\ Len(s) = n
  BY BytesAre
<1>2. /\ u \in Seq(Byte) /\ Len(u) = Len(s) + 1
      /\ (\A i \in 1..Len(s) : u[i] = s[i]) /\ u[Len(s) + 1] = c
  BY <1>1, AppendProperties
<1> HIDE DEF u
<1>3. u \in Bytes(n + 1)
  BY <1>1, <1>2, AreBytes
<1> QED  BY <1>1, <1>2, <1>3 DEF u

\* What is left when both ends are cut off.
LEMMA Middle ==
    ASSUME NEW n \in Nat, NEW s \in Bytes(n), NEW a \in Nat, NEW k \in Nat, a + k <= n
    PROVE  /\ Part(s, a + 1, a + k) \in Bytes(k)
           /\ \A i \in 1..k : Part(s, a + 1, a + k)[i] = s[a + i]
<1> DEFINE t == SubSeq(s, a + 1, a + k)
<1>1. \A i \in (a + 1)..(a + k) : s[i] \in Byte
  BY BytesAre
<1>2. /\ t \in Seq(Byte) /\ Len(t) = (IF a + 1 <= a + k THEN a + k - (a + 1) + 1 ELSE 0)
      /\ \A i \in 1..(a + k - (a + 1) + 1) : t[i] = s[(a + 1) + i - 1]
  BY <1>1, SubSeqProperties
<1>3. /\ (IF a + 1 <= a + k THEN a + k - (a + 1) + 1 ELSE 0) = k /\ a + k - (a + 1) + 1 = k
      /\ \A i \in 1..k : (a + 1) + i - 1 = a + i
  OBVIOUS
<1> HIDE DEF t
<1>4. Len(t) = k
  BY <1>2, <1>3
<1>5. t \in Bytes(k)
  BY <1>2, <1>4, AreBytes
<1>6. Part(s, a + 1, a + k) = t
  BY Zenon DEF Part, t
<1> QED  BY <1>2, <1>3, <1>5, <1>6

\* What is left when the end is cut off.
LEMMA Prefix ==
    ASSUME NEW n \in Nat, NEW s \in Bytes(n), NEW k \in 0..n
    PROVE  /\ Part(s, 1, k) \in Bytes(k)
           /\ \A i \in 1..k : Part(s, 1, k)[i] = s[i]
  BY Middle

\* Two strings that agree between two places.
LEMMA SameMiddle ==
    ASSUME NEW m \in Nat, NEW n \in Nat, NEW s \in Bytes(m), NEW t \in Bytes(n),
           NEW a \in Nat, NEW k \in Nat, a + k <= m, a + k <= n,
           \A i \in (a + 1)..(a + k) : s[i] = t[i]
    PROVE  Part(s, a + 1, a + k) = Part(t, a + 1, a + k)
<1> DEFINE u == Part(s, a + 1, a + k)
           v == Part(t, a + 1, a + k)
<1>1. u \in Bytes(k) /\ \A i \in 1..k : u[i] = s[a + i]
  BY Middle
<1>2. v \in Bytes(k) /\ \A i \in 1..k : v[i] = t[a + i]
  BY Middle
<1>3. \A i \in 1..k : a + i \in (a + 1)..(a + k)
  OBVIOUS
<1> HIDE DEF u, v
<1>4. \A i \in 1..k : u[i] = v[i]
  BY <1>1, <1>2, <1>3
<1>5. u = v
  BY <1>1, <1>2, <1>4, SameBytes
<1> QED  BY <1>5 DEF u, v

-----------------------------------------------------------------------------
(***************************************************************************)
(* Checksums.                                                              *)
(***************************************************************************)
\* A string's total, cut down to a byte, is one.
LEMMA TotalOfBytes ==
    ASSUME NEW n \in Nat, NEW s \in Bytes(n)
    PROVE  Total(s) \in Nat /\ Total(s) % 256 \in Byte
<1>1. Total(s) \in Nat
  BY BytesAreNumbers, TotalType
<1> QED  BY <1>1 DEF Byte

\* The outer checksum as a total.
LEMMA ChecksumIs ==
    ASSUME NEW n \in Nat, n >= 2, NEW s \in Bytes(n)
    PROVE  Checksum(s) = Total(Part(s, 1, n - 2)) % 256
<1>1. Len(s) = n
  BY BytesAre
<1>2. Checksum(s) = Total(Part(s, 1, Len(s) - 2)) % 256
  BY Zenon DEF Checksum, Part
<1> QED  BY <1>1, <1>2

\* A checksum is a byte.
LEMMA ChecksumType ==
    ASSUME NEW n \in Nat, n >= 2, NEW s \in Bytes(n)
    PROVE  Checksum(s) \in Byte
<1> DEFINE t == Part(s, 1, n - 2)
<1>1. n - 2 \in Nat /\ n - 2 \in 0..n
  OBVIOUS
<1>2. t \in Bytes(n - 2)
  BY <1>1, Prefix
<1>3. Checksum(s) = Total(t) % 256
  BY ChecksumIs
<1> HIDE DEF t
<1> QED  BY <1>1, <1>2, <1>3, TotalOfBytes

\* The last two bytes do not count in the checksum.
LEMMA ChecksumSame ==
    ASSUME NEW n \in Nat, n >= 2, NEW s \in Bytes(n), NEW t \in Bytes(n),
           \A i \in 1..(n - 2) : s[i] = t[i]
    PROVE  Checksum(s) = Checksum(t)
<1>1. n - 2 \in Nat /\ 0 \in Nat /\ 0 + (n - 2) <= n /\ 0 + 1 = 1 /\ 0 + (n - 2) = n - 2
  OBVIOUS
<1>2. \A i \in (0 + 1)..(0 + (n - 2)) : s[i] = t[i]
  OBVIOUS
<1>3. Part(s, 0 + 1, 0 + (n - 2)) = Part(t, 0 + 1, 0 + (n - 2))
  BY <1>1, <1>2, SameMiddle
<1>4. Part(s, 1, n - 2) = Part(t, 1, n - 2)
  BY <1>1, <1>3
<1> QED  BY <1>4, ChecksumIs

\* What damage makes of a byte.
Added(x, d) == (x + d) % 256

\* Adding to one byte modulo 256 adds to a sum modulo 256.
LEMMA ModularChange ==
    ASSUME NEW T \in Nat, NEW x \in Byte, NEW d \in 1..255
    PROVE  (T + (((x + d) % 256) - x)) % 256 # T % 256
<1>1. x \in Int /\ 0 <= x /\ x <= 255 /\ d \in Int /\ 1 <= d /\ d <= 255 /\ T \in Int
  BY DEF Byte
<1>2. CASE x + d < 256
  <2>1. (x + d) % 256 = x + d
    BY <1>1, <1>2
  <2>2. ((x + d) % 256) - x = d
    BY <1>1, <2>1
  <2>3. (T + d) % 256 # T % 256
    BY <1>1, SMTT(60)
  <2> QED  BY <2>2, <2>3
<1>3. CASE x + d >= 256
  <2>1. (x + d) % 256 = x + d - 256
    BY <1>1, <1>3
  <2>2. ((x + d) % 256) - x = d - 256
    BY <1>1, <2>1
  <2>3. (T + (d - 256)) % 256 # T % 256
    BY <1>1, SMTT(60)
  <2> QED  BY <2>2, <2>3
<1> QED  BY <1>1, <1>2, <1>3

\* Any other value of any byte that counts changes the checksum.
LEMMA ChecksumChanged ==
    ASSUME NEW n \in Nat, n >= 2, NEW s \in Bytes(n), NEW t \in Bytes(n),
           NEW j \in 1..(n - 2), NEW d \in 1..255, t[j] = Added(s[j], d),
           \A i \in 1..n : i # j => t[i] = s[i]
    PROVE  Checksum(t) # Checksum(s)
<1> DEFINE u == Part(s, 1, n - 2)
           v == Part(t, 1, n - 2)
<1>1. n - 2 \in Nat /\ n - 2 \in 0..n
  OBVIOUS
<1>2. u \in Bytes(n - 2) /\ \A i \in 1..(n - 2) : u[i] = s[i]
  BY <1>1, Prefix
<1>3. v \in Bytes(n - 2) /\ \A i \in 1..(n - 2) : v[i] = t[i]
  BY <1>1, Prefix
<1>4. Checksum(s) = Total(u) % 256 /\ Checksum(t) = Total(v) % 256
  BY ChecksumIs
<1> HIDE DEF u, v
<1>5. Len(u) = n - 2 /\ Len(v) = n - 2 /\ u \in Seq(Nat) /\ v \in Seq(Nat)
  BY <1>1, <1>2, <1>3, BytesAre, BytesAreNumbers
<1>6. \A i \in 1..Len(u) : i # j => v[i] = u[i]
  BY <1>2, <1>3, <1>5
<1>7. Total(v) = Total(u) + (v[j] - u[j])
  <2>1. /\ u \in Seq(Nat) /\ v \in Seq(Nat) /\ j \in 1..Len(u) /\ Len(v) = Len(u)
        /\ \A i \in 1..Len(u) : i # j => v[i] = u[i]
    BY <1>5, <1>6
  <2> QED  BY <2>1, TotalChange
<1>8. u[j] \in Byte /\ v[j] = Added(u[j], d) /\ Total(u) \in Nat
  <2>1. u[j] = s[j] /\ v[j] = t[j]
    BY <1>2, <1>3
  <2>2. u[j] \in Byte
    BY <1>1, <1>2, BytesAre
  <2> QED  BY <1>1, <1>2, <2>1, <2>2, TotalOfBytes
<1>9. Total(v) = Total(u) + (((u[j] + d) % 256) - u[j])
  BY <1>7, <1>8 DEF Added
<1> QED  BY <1>4, <1>8, <1>9, ModularChange

-----------------------------------------------------------------------------
(***************************************************************************)
(* Packets and their bytes.                                                *)
(***************************************************************************)
\* The body between the five bytes before it and the two after it.
LEMMA BodyPart ==
    ASSUME NEW n \in Nat, NEW s \in Bytes(n + 7)
    PROVE  /\ SubSeq(s, 6, n + 5) \in Bytes(n)
           /\ \A i \in 1..n : SubSeq(s, 6, n + 5)[i] = s[5 + i]
<1>1. n + 7 \in Nat /\ 5 \in Nat /\ 6 = 5 + 1 /\ n + 5 = 5 + n /\ 5 + n <= n + 7
  OBVIOUS
<1>2. Part(s, 6, n + 5) \in Bytes(n) /\ \A i \in 1..n : Part(s, 6, n + 5)[i] = s[5 + i]
  BY <1>1, Middle
<1> QED  BY <1>2, Zenon DEF Part

\* s holds the fields of p where the format has them; p's body has n bytes.
Laid(s, p, n) ==
    /\ s \in Bytes(n + 7) /\ p.body \in Bytes(n)
    /\ s[1] = p.header /\ s[2] = p.length /\ s[3] = p.module_id
    /\ s[4] = p.target /\ s[5] = p.command
    /\ \A i \in 1..n : s[5 + i] = p.body[i]
    /\ s[n + 6] = p.checksum /\ s[n + 7] = p.tail

\* A body is a string of its length.
LEMMA BodyBytes ==
    ASSUME NEW p \in Packets
    PROVE  Len(p.body) \in Nat /\ p.body \in Bytes(Len(p.body))
<1>1. p.body \in Seq(Byte)
  BY DEF Packets
<1> QED  BY <1>1, AreBytes

\* Packet::serialize() lays the fields where the format has them
\* (protocol.cpp:15-38).
LEMMA SerializeShape ==
    ASSUME NEW p \in Packets, NEW n \in Nat, Len(p.body) = n
    PROVE  Laid(Serialize(p), p, n)
<1> DEFINE h == <<p.header, p.length, p.module_id, p.target, p.command>>
           b == p.body
           hb == Cat(h, b)
           s == Cat(hb, <<p.checksum, p.tail>>)
<1>0. h \in Bytes(5)
  BY DEF Packets, Bytes
<1>1. /\ h[1] = p.header /\ h[2] = p.length
      /\ h[3] = p.module_id /\ h[4] = p.target /\ h[5] = p.command
  OBVIOUS
<1>2. p.checksum \in Byte /\ p.tail \in Byte
  BY DEF Packets
<1>3. b \in Bytes(n)
  BY BodyBytes
<1>4. Serialize(p) = s
  BY Zenon DEF Serialize, Cat
<1>5. 5 \in Nat /\ 5 + n \in Nat
  OBVIOUS
<1> HIDE DEF h, b
<1>6. hb \in Bytes(5 + n) /\ (\A i \in 1..5 : hb[i] = h[i]) /\ \A i \in 1..n : hb[5 + i] = b[i]
  <2>1. \A k \in Nat : h \in Bytes(k)
             => /\ hb \in Bytes(k + n) /\ \A i \in 1..k : hb[i] = h[i]
                /\ \A i \in 1..n : hb[k + i] = b[i]
    BY <1>3, Joined
  <2> QED  BY <1>0, <1>5, <2>1
<1>6a. hb \in Bytes(5 + n)
  BY <1>6
<1> HIDE DEF hb
<1>7. /\ s \in Bytes(5 + n + 2) /\ \A i \in 1..5 + n : s[i] = hb[i]
      /\ s[5 + n + 1] = p.checksum /\ s[5 + n + 2] = p.tail
  BY <1>2, <1>5, <1>6a, JoinedPair
<1> HIDE DEF s
<1>8. 5 + n + 2 = n + 7 /\ 5 + n + 1 = n + 6
  OBVIOUS
<1>9. \A i \in 1..n : s[5 + i] = b[i]
  BY <1>6, <1>7
<1>10. s[1] = h[1] /\ s[2] = h[2] /\ s[3] = h[3] /\ s[4] = h[4] /\ s[5] = h[5]
  BY <1>6, <1>7
<1> QED  BY <1>1, <1>3, <1>4, <1>7, <1>8, <1>9, <1>10 DEF Laid, b

\* The bytes tell the packet ...
LEMMA FieldsOfLaid ==
    ASSUME NEW p \in Packets, NEW n \in Nat, NEW s, Laid(s, p, n)
    PROVE  Fields(s) = p
<1>1. /\ s \in Bytes(n + 7) /\ p.body \in Bytes(n)
      /\ s[1] = p.header /\ s[2] = p.length /\ s[3] = p.module_id
      /\ s[4] = p.target /\ s[5] = p.command
      /\ \A i \in 1..n : s[5 + i] = p.body[i]
      /\ s[n + 6] = p.checksum /\ s[n + 7] = p.tail
  BY DEF Laid
<1>2. n + 7 \in Nat
  OBVIOUS
<1> DEFINE b == SubSeq(s, 6, n + 5)
<1>3. b \in Bytes(n) /\ \A i \in 1..n : b[i] = s[5 + i]
  BY <1>1, BodyPart
<1> HIDE DEF b
<1>4. b = p.body
  BY <1>1, <1>3, SameBytes
<1>5. Len(s) = n + 7
  BY <1>1, <1>2, BytesAre
<1>6. Len(s) - 2 = n + 5 /\ Len(s) - 1 = n + 6
  BY <1>5
<1>7. Fields(s) = [header |-> p.header, length |-> p.length, module_id |-> p.module_id,
                   target |-> p.target, command |-> p.command, body |-> p.body,
                   checksum |-> p.checksum, tail |-> p.tail]
  BY <1>1, <1>4, <1>5, <1>6 DEF Fields, b
<1> QED  BY <1>7 DEF Packets

\* Reading back what was written (protocol.cpp:15-38, 88-101).
LEMMA FieldsOfSerialize ==
    ASSUME NEW p \in Packets
    PROVE  Fields(Serialize(p)) = p
  BY BodyBytes, SerializeShape, FieldsOfLaid

\* ... and the packet the bytes.
LEMMA FieldsLaid ==
    ASSUME NEW n \in Nat, NEW s \in Bytes(n + 7)
    PROVE  Fields(s) \in Packets /\ Laid(s, Fields(s), n) /\ Len(Fields(s).body) = n
<1> DEFINE p == Fields(s)
           b == SubSeq(s, 6, n + 5)
<1>1. Len(s) = n + 7 /\ \A i \in 1..(n + 7) : s[i] \in Byte
  BY BytesAre
<1>2. Len(s) - 2 = n + 5 /\ Len(s) - 1 = n + 6
  BY <1>1
<1>3. b \in Bytes(n) /\ \A i \in 1..n : b[i] = s[5 + i]
  BY BodyPart
<1>4. p = [header |-> s[1], length |-> s[2], module_id |-> s[3], target |-> s[4],
           command |-> s[5], body |-> b, checksum |-> s[n + 6], tail |-> s[n + 7]]
  BY <1>1, <1>2 DEF Fields
<1> HIDE DEF p, b
<1>5. /\ s[1] \in Byte /\ s[2] \in Byte /\ s[3] \in Byte /\ s[4] \in Byte /\ s[5] \in Byte
      /\ s[n + 6] \in Byte /\ s[n + 7] \in Byte
  BY <1>1
<1>6. b \in Seq(Byte) /\ Len(b) = n
  BY <1>3, BytesAre
<1>7. p \in Packets
  BY <1>4, <1>5, <1>6 DEF Packets
<1>8. Laid(s, p, n) /\ Len(p.body) = n
  BY <1>3, <1>4, <1>6 DEF Laid
<1> QED  BY <1>7, <1>8 DEF p

\* Writing what was read: a packet is as good as its bytes.
LEMMA SerializeFields ==
    ASSUME NEW n \in Nat, NEW s \in Bytes(n + 7)
    PROVE  Serialize(Fields(s)) = s
<1> DEFINE p == Fields(s)
           t == Serialize(p)
<1>1. p \in Packets /\ Laid(s, p, n) /\ Len(p.body) = n
  BY FieldsLaid
<1> HIDE DEF p
<1>2. Laid(t, p, n)
  BY <1>1, SerializeShape
<1> HIDE DEF t
<1>3. t \in Bytes(n + 7) /\ n + 7 \in Nat
  BY <1>2 DEF Laid
<1>4. ASSUME NEW i \in 1..(n + 7) PROVE t[i] = s[i]
  <2>1. CASE i <= 5
    <3>1. i = 1 \/ i = 2 \/ i = 3 \/ i = 4 \/ i = 5
      BY <2>1
    <3> QED  BY <1>1, <1>2, <3>1 DEF Laid
  <2>2. CASE i > 5 /\ i <= n + 5
    <3>1. i - 5 \in 1..n /\ 5 + (i - 5) = i
      BY <2>2
    <3>2. t[5 + (i - 5)] = p.body[i - 5] /\ s[5 + (i - 5)] = p.body[i - 5]
      BY <1>1, <1>2, <3>1 DEF Laid
    <3> QED  BY <3>1, <3>2
  <2>3. CASE i > n + 5
    <3>1. i = n + 6 \/ i = n + 7
      BY <2>3
    <3> QED  BY <1>1, <1>2, <3>1 DEF Laid
  <2> QED  BY <2>1, <2>2, <2>3
<1>5. t = s
  BY <1>3, <1>4, SameBytes
<1> QED  BY <1>5 DEF t, p

-----------------------------------------------------------------------------
(***************************************************************************)
(* Packets as the encoders build them.                                     *)
(***************************************************************************)
\* p is the packet of a body of n bytes for a target, its checksum right.
EncodedAs(p, target, command, n, body) ==
    /\ p \in Packets /\ Laid(Serialize(p), p, n)
    /\ p.header = PACKET_HEADER /\ p.length = n + 2 /\ p.module_id = MODULE_ID
    /\ p.target = target /\ p.command = command /\ p.body = body
    /\ p.tail = PACKET_TAIL
    /\ Checksum(Serialize(p)) = p.checksum

\* What an encoder builds around a body (protocol.cpp:189-428).
LEMMA EncodedShape ==
    ASSUME NEW target \in Byte, NEW command \in Byte, NEW n \in 0..253, NEW body \in Bytes(n)
    PROVE  EncodedAs(Encoded(target, command, body), target, command, n, body)
<1> DEFINE q == [header |-> PACKET_HEADER, length |-> (2 + Len(body)) % 256,
                 module_id |-> MODULE_ID, target |-> target, command |-> command,
                 body |-> body, checksum |-> 0, tail |-> PACKET_TAIL]
           c == Checksum(Serialize(q))
           p == [q EXCEPT !.checksum = c]
<1>1. Encoded(target, command, body) = p
  BY DEF Encoded
<1>2. body \in Seq(Byte) /\ Len(body) = n /\ n \in Nat
  BY BytesAre
<1>3. (2 + Len(body)) % 256 = n + 2 /\ n + 2 \in Byte
  BY <1>2 DEF Byte
<1>4. PACKET_HEADER \in Byte /\ MODULE_ID \in Byte /\ PACKET_TAIL \in Byte /\ 0 \in Byte
  BY DEF PACKET_HEADER, MODULE_ID, PACKET_TAIL, Byte
<1>5. q \in Packets /\ q.body = body
  BY <1>2, <1>3, <1>4 DEF Packets
<1>6. Laid(Serialize(q), q, n)
  BY <1>2, <1>5, SerializeShape
<1>7. c \in Byte
  <2>1. Serialize(q) \in Bytes(n + 7) /\ n + 7 \in Nat /\ n + 7 >= 2
    BY <1>2, <1>6 DEF Laid
  <2> HIDE DEF q
  <2> QED  BY <2>1, ChecksumType
<1> HIDE DEF c
<1>8. p = [header |-> PACKET_HEADER, length |-> n + 2, module_id |-> MODULE_ID,
           target |-> target, command |-> command, body |-> body,
           checksum |-> c, tail |-> PACKET_TAIL]
  BY <1>3
<1>9. p \in Packets
  BY <1>2, <1>3, <1>4, <1>7, <1>8 DEF Packets
<1>10. /\ p.header = q.header /\ p.length = q.length /\ p.module_id = q.module_id
       /\ p.target = q.target /\ p.command = q.command /\ p.body = q.body
  OBVIOUS
<1>11. Len(p.body) = n
  BY <1>2, <1>8
<1>12. /\ p.header = PACKET_HEADER /\ p.length = n + 2 /\ p.module_id = MODULE_ID
       /\ p.target = target /\ p.command = command /\ p.body = body /\ p.tail = PACKET_TAIL
       /\ p.checksum = c
  BY <1>8
<1> HIDE DEF p, q
<1>13. Laid(Serialize(p), p, n)
  BY <1>2, <1>9, <1>11, SerializeShape
<1>14. Checksum(Serialize(p)) = Checksum(Serialize(q))
  <2> DEFINE s == Serialize(p)
             t == Serialize(q)
  <2>1. Laid(s, p, n) /\ Laid(t, q, n)
    BY <1>6, <1>13
  <2> HIDE DEF s, t
  <2>2. s \in Bytes(n + 7) /\ t \in Bytes(n + 7) /\ n + 7 \in Nat /\ n + 7 >= 2 /\ n + 7 - 2 = n + 5
    BY <1>2, <2>1 DEF Laid
  <2>3. ASSUME NEW i \in 1..(n + 5) PROVE s[i] = t[i]
    <3>1. CASE i <= 5
      <4>1. i = 1 \/ i = 2 \/ i = 3 \/ i = 4 \/ i = 5
        BY <1>2, <3>1
      <4> QED  BY <1>10, <2>1, <4>1 DEF Laid
    <3>2. CASE i > 5
      <4>1. i - 5 \in 1..n /\ 5 + (i - 5) = i
        BY <1>2, <3>2
      <4>2. s[5 + (i - 5)] = p.body[i - 5] /\ t[5 + (i - 5)] = q.body[i - 5]
        BY <2>1, <4>1 DEF Laid
      <4> QED  BY <1>10, <4>1, <4>2
    <3> QED  BY <1>2, <3>1, <3>2
  <2>4. \A i \in 1..(n + 7 - 2) : s[i] = t[i]
    BY <2>2, <2>3
  <2>5. Checksum(s) = Checksum(t)
    BY <2>2, <2>4, ChecksumSame
  <2> QED  BY <2>5 DEF s, t
<1>15. Checksum(Serialize(p)) = p.checksum
  BY <1>12, <1>14 DEF c
<1> QED  BY <1>1, <1>9, <1>12, <1>13, <1>15 DEF EncodedAs

-----------------------------------------------------------------------------
(***************************************************************************)
(* The packet inside a motor packet.                                       *)
(***************************************************************************)
\* The inner checksum as a total.
LEMMA MotorChecksumIs ==
    ASSUME NEW n \in Nat, n >= 2, NEW s \in Bytes(n + 1)
    PROVE  MotorChecksum(s) = Total(Part(s, 2 + 1, 2 + (n - 2))) % 256
<1>1. Len(s) = n + 1
  BY BytesAre
<1>2. MotorChecksum(s) = Total(Part(s, 3, Len(s) - 1)) % 256
  BY Zenon DEF MotorChecksum, Part
<1>3. Len(s) - 1 = 2 + (n - 2) /\ 3 = 2 + 1
  BY <1>1
<1> QED  BY <1>2, <1>3

\* An inner packet ends in its own checksum (protocol.cpp:129-137).
LEMMA MotorPacketShape ==
    ASSUME NEW n \in Nat, n >= 2, NEW h \in Bytes(n)
    PROVE  /\ MotorPacket(h) \in Bytes(n + 1)
           /\ \A i \in 1..n : MotorPacket(h)[i] = h[i]
           /\ MotorPacket(h)[n + 1] = MotorChecksum(MotorPacket(h))
           /\ Last(MotorPacket(h)) = MotorPacket(h)[n + 1]
<1> DEFINE s == Append(h, 0)
           c == MotorChecksum(s)
           t == Append(h, c)
<1>1. n - 2 \in Nat /\ 2 \in Nat /\ n + 1 \in Nat /\ 2 + (n - 2) <= n + 1 /\ 0 \in Byte
  BY DEF Byte
<1>2. s \in Bytes(n + 1) /\ \A i \in 1..n : s[i] = h[i]
  BY <1>1, Appended
<1> HIDE DEF s
<1>3. c = Total(Part(s, 2 + 1, 2 + (n - 2))) % 256
  BY <1>2, MotorChecksumIs
<1>4. c \in Byte
  <2>1. Part(s, 2 + 1, 2 + (n - 2)) \in Bytes(n - 2)
    BY <1>1, <1>2, Middle
  <2> QED  BY <1>1, <1>3, <2>1, TotalOfBytes
<1> HIDE DEF c
<1>5. t \in Bytes(n + 1) /\ (\A i \in 1..n : t[i] = h[i]) /\ t[n + 1] = c
  BY <1>4, Appended
<1>6. MotorPacket(h) = t
  BY Zenon DEF MotorPacket, s, c, t
<1> HIDE DEF t
<1>7. MotorChecksum(t) = Total(Part(t, 2 + 1, 2 + (n - 2))) % 256
  BY <1>5, MotorChecksumIs
<1>8. \A i \in (2 + 1)..(2 + (n - 2)) : t[i] = s[i]
  BY <1>1, <1>2, <1>5
<1>9. Part(t, 2 + 1, 2 + (n - 2)) = Part(s, 2 + 1, 2 + (n - 2))
  <2>1. PICK m \in Nat, k \in Nat : m = n + 1 /\ k = n - 2
    BY <1>1
  <2>2. s \in Bytes(m) /\ t \in Bytes(m) /\ 2 + k <= m /\ \A i \in (2 + 1)..(2 + k) : t[i] = s[i]
    BY <1>1, <1>2, <1>5, <1>8, <2>1
  <2>3. Part(t, 2 + 1, 2 + k) = Part(s, 2 + 1, 2 + k)
    BY <1>1, <2>2, SameMiddle
  <2> QED  BY <2>1, <2>3
<1>10. MotorChecksum(t) = c
  BY <1>3, <1>7, <1>9
<1>11. Last(t) = t[n + 1]
  <2>1. Len(t) = n + 1
    BY <1>1, <1>5, BytesAre
  <2> QED  BY <2>1 DEF Last
<1> QED  BY <1>5, <1>6, <1>10, <1>11

\* So Packet::validate_motor_checksum() accepts it (protocol.cpp:145-161).
LEMMA MotorPacketValid ==
    ASSUME NEW p, NEW n \in Nat, n >= 2, NEW h \in Bytes(n), p.body = MotorPacket(h)
    PROVE  validate_motor_checksum(p)
<1>1. MotorChecksum(p.body) = Last(p.body)
  BY MotorPacketShape
<1> QED  BY <1>1, Zenon DEF validate_motor_checksum

-----------------------------------------------------------------------------
(***************************************************************************)
(* Decoding.                                                               *)
(***************************************************************************)
\* A word in bytes.
Low(v)  == v % 256
High(v) == v \div 256

\* The two bytes of a word make up the word.
LEMMA WordBytes ==
    ASSUME NEW v \in Word
    PROVE  /\ Low(v) \in Byte /\ High(v) \in Byte
           /\ Low(v) + (256 * High(v)) = v
           /\ (256 * High(v)) + Low(v) = v
<1> DEFINE low == v % 256
           high == v \div 256
<1>1. v \in Int /\ 0 <= v /\ v <= 65535
  BY SMTT(60) DEF Word
<1>2. low \in Int /\ 0 <= low /\ low <= 255
  BY <1>1
<1>3. v = low + (256 * high) /\ high \in Int
  BY <1>1
<1> HIDE DEF low, high
<1>4. 256 * high <= 65535 /\ 256 * high > -256
  BY <1>1, <1>2, <1>3
<1>5. 0 <= high /\ high <= 255
  BY <1>3, <1>4
<1>6. low \in Byte /\ high \in Byte
  BY <1>2, <1>3, <1>5 DEF Byte
<1>7. (256 * high) + low = v
  BY <1>2, <1>3
<1>8. Low(v) = low /\ High(v) = high
  BY DEF Low, High, low, high
<1> QED  BY <1>3, <1>6, <1>7, <1>8

\* The first four bytes against a mark.
LEMMA Marked ==
    ASSUME NEW n \in Nat, n >= 4, NEW s \in Bytes(n)
    PROVE  /\ SubSeq(s, 1, 4) = ImuMark
                <=> s[1] = PACKET_HEADER /\ s[2] = \h11 /\ s[3] = 1 /\ s[4] = 2
           /\ SubSeq(s, 1, 4) = EncoderMark
                <=> s[1] = PACKET_HEADER /\ s[2] = \h25 /\ s[3] = 1 /\ s[4] = 2
<1> DEFINE u == Part(s, 1, 4)
<1>1. u \in Bytes(4) /\ \A i \in 1..4 : u[i] = s[i]
  BY Prefix
<1>2. ImuMark \in Bytes(4) /\ EncoderMark \in Bytes(4)
  BY DEF ImuMark, EncoderMark, Bytes, Byte, PACKET_HEADER
<1>3. /\ ImuMark[1] = PACKET_HEADER /\ ImuMark[2] = \h11 /\ ImuMark[3] = 1 /\ ImuMark[4] = 2
      /\ EncoderMark[1] = PACKET_HEADER /\ EncoderMark[2] = \h25
      /\ EncoderMark[3] = 1 /\ EncoderMark[4] = 2
  BY DEF ImuMark, EncoderMark
<1> HIDE DEF u
<1>4. ASSUME NEW m \in Bytes(4)
      PROVE  u = m <=> s[1] = m[1] /\ s[2] = m[2] /\ s[3] = m[3] /\ s[4] = m[4]
  <2>1. ASSUME s[1] = m[1] /\ s[2] = m[2] /\ s[3] = m[3] /\ s[4] = m[4]
        PROVE  u = m
    <3>1. \A i \in 1..4 : u[i] = m[i]
      <4>1. ASSUME NEW i \in 1..4 PROVE i = 1 \/ i = 2 \/ i = 3 \/ i = 4
        OBVIOUS
      <4> QED  BY <1>1, <2>1, <4>1
    <3> QED  BY <1>1, <3>1, SameBytes
  <2> QED  BY <1>1, <2>1
<1>5. /\ u = ImuMark <=> s[1] = PACKET_HEADER /\ s[2] = \h11 /\ s[3] = 1 /\ s[4] = 2
      /\ u = EncoderMark <=> s[1] = PACKET_HEADER /\ s[2] = \h25 /\ s[3] = 1 /\ s[4] = 2
  BY <1>2, <1>3, <1>4
<1>6. u = SubSeq(s, 1, 4)
  BY Zenon DEF u, Part
<1> QED  BY <1>5, <1>6

\* What an accepted frame of n + 7 bytes looks like ...
LEMMA Accepted ==
    ASSUME NEW n \in Nat, NEW s \in Bytes(n + 7), NEW p \in Deserialize(s)
    PROVE  /\ p = Fields(s) /\ p \in Packets /\ Laid(s, p, n)
           /\ p.header = PACKET_HEADER /\ p.tail = PACKET_TAIL
           /\ SubSeq(s, 1, 4) = ImuMark \/ SubSeq(s, 1, 4) = EncoderMark \/ s[2] + 5 = n + 7
           /\ SubSeq(s, 1, 4) = ImuMark \/ Checksum(s) = s[n + 6]
           /\ validate_motor_checksum(p)
<1>1. Len(s) = n + 7 /\ ~(Len(s) < 7) /\ n + 7 \in Nat
  BY BytesAre
<1>2. /\ p = Fields(s)
      /\ p.header = PACKET_HEADER /\ p.tail = PACKET_TAIL
      /\ SubSeq(s, 1, 4) = ImuMark \/ SubSeq(s, 1, 4) = EncoderMark \/ p.length + 5 = Len(s)
      /\ SubSeq(s, 1, 4) = ImuMark \/ validate_checksum(p)
      /\ validate_motor_checksum(p)
  BY <1>1, Zenon DEF Deserialize
<1>3. p \in Packets /\ Laid(s, p, n)
  BY <1>2, FieldsLaid
<1>4. p.length = s[2] /\ p.checksum = s[n + 6]
  BY <1>3 DEF Laid
<1>5. Serialize(p) = s
  BY <1>2, SerializeFields
<1>6. validate_checksum(p) => Checksum(s) = s[n + 6]
  BY <1>4, <1>5, Zenon DEF validate_checksum
<1> QED  BY <1>1, <1>2, <1>3, <1>4, <1>6

\* ... and which ones are accepted.
LEMMA Accepts ==
    ASSUME NEW n \in Nat, NEW s \in Bytes(n + 7),
           s[1] = PACKET_HEADER, s[n + 7] = PACKET_TAIL,
           SubSeq(s, 1, 4) = ImuMark \/ SubSeq(s, 1, 4) = EncoderMark \/ s[2] + 5 = n + 7,
           SubSeq(s, 1, 4) = ImuMark \/ Checksum(s) = s[n + 6]
    PROVE  Deserialize(s) = {q \in {Fields(s)} : validate_motor_checksum(q)}
<1> DEFINE p == Fields(s)
<1>1. Len(s) = n + 7 /\ ~(Len(s) < 7) /\ n + 7 \in Nat
  BY BytesAre
<1>2. p \in Packets /\ Laid(s, p, n)
  BY FieldsLaid
<1>3. Serialize(p) = s
  BY SerializeFields
<1> HIDE DEF p
<1>4. /\ p.header = PACKET_HEADER /\ p.tail = PACKET_TAIL
      /\ SubSeq(s, 1, 4) = ImuMark \/ SubSeq(s, 1, 4) = EncoderMark \/ p.length + 5 = Len(s)
      /\ SubSeq(s, 1, 4) = ImuMark \/ Checksum(s) = p.checksum
  BY <1>1, <1>2 DEF Laid
<1>5. SubSeq(s, 1, 4) = ImuMark \/ validate_checksum(p)
  BY <1>3, <1>4, Zenon DEF validate_checksum
<1>6. Deserialize(s) =
          {q \in {p} : /\ q.header = PACKET_HEADER /\ q.tail = PACKET_TAIL
                       /\ SubSeq(s, 1, 4) = ImuMark \/ SubSeq(s, 1, 4) = EncoderMark
                            \/ q.length + 5 = Len(s)
                       /\ SubSeq(s, 1, 4) = ImuMark \/ validate_checksum(q)
                       /\ validate_motor_checksum(q)}
  BY <1>1, Zenon DEF Deserialize, p
<1>7. Deserialize(s) = {q \in {p} : validate_motor_checksum(q)}
  BY <1>4, <1>5, <1>6, Zenon
<1> QED  BY <1>7 DEF p

\* Nothing shorter than seven bytes is a packet.
LEMMA TooShort ==
    ASSUME NEW n \in Nat, NEW s \in Bytes(n), n < 7
    PROVE  Deserialize(s) = {}
<1>1. Len(s) = n
  BY BytesAre
<1> QED  BY <1>1 DEF Deserialize

\* One damaged byte.
LEMMA DamageShows ==
    ASSUME NEW n \in Nat, NEW s \in Bytes(n + 7), NEW t \in Bytes(n + 7),
           Checksum(s) = s[n + 6], s[n + 7] = PACKET_TAIL,
           NEW j \in 1..(n + 7), NEW d \in 1..255, t[j] = Added(s[j], d),
           \A i \in 1..(n + 7) : i # j => t[i] = s[i],
           Deserialize(t) # {}
    PROVE  SubSeq(t, 1, 4) = ImuMark
<1>1. PICK p \in Deserialize(t) : TRUE
  OBVIOUS
<1>2. /\ Laid(t, p, n) /\ p.tail = PACKET_TAIL
      /\ SubSeq(t, 1, 4) = ImuMark \/ Checksum(t) = t[n + 6]
  BY Accepted
<1>3. t[n + 7] = PACKET_TAIL
  BY <1>2 DEF Laid
<1>4. n + 7 \in Nat /\ n + 7 >= 2 /\ n + 7 - 2 = n + 5
  OBVIOUS
<1>5. t[j] # s[j]
  <2>1. s[j] \in Byte
    BY <1>4, BytesAre
  <2>2. s[j] \in Int /\ 0 <= s[j] /\ s[j] <= 255 /\ d \in Int /\ 1 <= d /\ d <= 255
    BY <2>1 DEF Byte
  <2>3. (s[j] + d) % 256 = (IF s[j] + d < 256 THEN s[j] + d ELSE s[j] + d - 256)
    BY <2>2, SMTT(60)
  <2> QED  BY <2>2, <2>3 DEF Added
<1>6. CASE j \in 1..(n + 5)
  <2>1. PICK m \in Nat : m = n + 7
    BY <1>4
  <2>2. /\ m >= 2 /\ s \in Bytes(m) /\ t \in Bytes(m) /\ j \in 1..(m - 2)
        /\ \A i \in 1..m : i # j => t[i] = s[i]
    BY <1>6, <2>1
  <2>3. Checksum(t) # Checksum(s)
    BY <2>1, <2>2, ChecksumChanged, SMTT(40)
  <2>4. t[n + 6] = s[n + 6]
    BY <1>6
  <2>5. SubSeq(t, 1, 4) = ImuMark \/ Checksum(t) = Checksum(s)
    BY <1>2, <2>4
  <2> QED  BY <2>3, <2>5
<1>7. CASE j = n + 6
  <2>1. \A i \in 1..(n + 7 - 2) : t[i] = s[i]
    BY <1>7
  <2>2. Checksum(t) = Checksum(s)
    BY <1>4, <2>1, ChecksumSame
  <2> QED  BY <1>2, <1>5, <1>7, <2>2
<1>8. CASE j = n + 7
  BY <1>3, <1>5, <1>8
<1> QED  BY <1>6, <1>7, <1>8

-----------------------------------------------------------------------------
(***************************************************************************)
(* The requests.                                                           *)
(***************************************************************************)
\* A packet with a body of n bytes, as it should be on the line.
Whole(p, n) ==
    /\ p \in Packets /\ Laid(Serialize(p), p, n)
    /\ p.header = PACKET_HEADER /\ p.length = n + 2 /\ p.module_id = MODULE_ID
    /\ p.tail = PACKET_TAIL
    /\ Checksum(Serialize(p)) = p.checksum
    /\ validate_motor_checksum(p)

\* Such a packet survives the line (protocol.cpp:40-115).
LEMMA WholeDecodes ==
    ASSUME NEW n \in Nat, NEW p, Whole(p, n)
    PROVE  Deserialize(Serialize(p)) = {p}
<1> DEFINE s == Serialize(p)
<1>1. /\ p \in Packets /\ Laid(s, p, n) /\ p.header = PACKET_HEADER /\ p.length = n + 2
      /\ p.tail = PACKET_TAIL /\ Checksum(s) = p.checksum /\ validate_motor_checksum(p)
  BY DEF Whole
<1> HIDE DEF s
<1>2. Fields(s) = p
  BY <1>1, FieldsOfLaid
<1>3. /\ s \in Bytes(n + 7) /\ s[1] = PACKET_HEADER /\ s[n + 7] = PACKET_TAIL
      /\ s[2] + 5 = n + 7 /\ Checksum(s) = s[n + 6]
  BY <1>1 DEF Laid
<1>4. Deserialize(s) = {q \in {Fields(s)} : validate_motor_checksum(q)}
  BY <1>3, Accepts
<1> QED  BY <1>1, <1>2, <1>4, Zenon DEF s

\* A motor request is such a packet, around the inner one.
LEMMA MotorRequestShape ==
    ASSUME NEW command \in Byte, NEW n \in 0..9, NEW inner \in Bytes(n)
    PROVE  LET p == MotorRequest(command, inner)
           IN  /\ Whole(p, n + 3) /\ p.target = TARGET_MOTOR /\ p.command = command
               /\ p.body \in Bytes(n + 3) /\ p.body[1] = \h55 /\ p.body[2] = \hAA
               /\ \A i \in 1..n : p.body[2 + i] = inner[i]
               /\ p.body[n + 3] = MotorChecksum(p.body)
<1> DEFINE h == Cat(MotorRequestHeader, inner)
           b == MotorPacket(h)
           p == Encoded(TARGET_MOTOR, command, b)
<1>1. p = MotorRequest(command, inner)
  BY Zenon DEF MotorRequest, Cat
<1>2. /\ MotorRequestHeader \in Bytes(2)
      /\ MotorRequestHeader[1] = \h55 /\ MotorRequestHeader[2] = \hAA
  BY DEF MotorRequestHeader, Bytes, Byte
<1>3. /\ n \in Nat /\ 2 \in Nat /\ 2 + n \in Nat /\ 2 + n >= 2
      /\ 2 + n + 1 = n + 3 /\ n + 3 \in Nat /\ n + 3 \in 0..253
      /\ TARGET_MOTOR \in Byte
  BY DEF TARGET_MOTOR, Byte
<1>4. h \in Bytes(2 + n) /\ (\A i \in 1..2 : h[i] = MotorRequestHeader[i])
          /\ \A i \in 1..n : h[2 + i] = inner[i]
  BY <1>2, <1>3, Joined
<1> HIDE DEF h
<1>5. PICK m \in Nat : m = 2 + n
  BY <1>3
<1>6. m >= 2 /\ h \in Bytes(m)
  BY <1>3, <1>4, <1>5
<1>7. b \in Bytes(m + 1) /\ (\A i \in 1..m : b[i] = h[i]) /\ b[m + 1] = MotorChecksum(b)
  BY <1>6, MotorPacketShape
<1>7a. \A q : q.body = b => validate_motor_checksum(q)
  BY <1>6, MotorPacketValid DEF b
<1> HIDE DEF b
<1>8. /\ b \in Bytes(n + 3) /\ b[1] = \h55 /\ b[2] = \hAA
      /\ (\A i \in 1..n : b[2 + i] = inner[i]) /\ b[n + 3] = MotorChecksum(b)
  <2>1. m + 1 = n + 3 /\ 1 \in 1..m /\ 2 \in 1..m /\ \A i \in 1..n : 2 + i \in 1..m
    BY <1>3, <1>5
  <2>2. b[1] = \h55 /\ b[2] = \hAA
    BY <1>2, <1>4, <1>7, <2>1
  <2>3. \A i \in 1..n : b[2 + i] = inner[i]
    BY <1>4, <1>7, <2>1
  <2>4. b \in Bytes(n + 3) /\ b[n + 3] = MotorChecksum(b)
    BY <1>7, <2>1
  <2> QED  BY <2>2, <2>3, <2>4
<1>9. /\ p \in Packets /\ Laid(Serialize(p), p, n + 3)
      /\ p.header = PACKET_HEADER /\ p.length = n + 3 + 2 /\ p.module_id = MODULE_ID
      /\ p.target = TARGET_MOTOR /\ p.command = command /\ p.body = b
      /\ p.tail = PACKET_TAIL
      /\ Checksum(Serialize(p)) = p.checksum
  <2>1. PICK k \in 0..253 : k = n + 3
    BY <1>3
  <2>2. b \in Bytes(k)
    BY <1>8, <2>1
  <2>3. EncodedAs(p, TARGET_MOTOR, command, k, b)
    BY <1>3, <2>2, EncodedShape
  <2> HIDE DEF p
  <2> QED  BY <2>1, <2>3 DEF EncodedAs
<1> HIDE DEF p
<1>10. validate_motor_checksum(p)
  BY <1>7a, <1>9
<1>11. Whole(p, n + 3)
  BY <1>9, <1>10 DEF Whole
<1> QED  BY <1>1, <1>8, <1>9, <1>11

\* The word that ends an inner packet.
LEMMA EndsInWord ==
    ASSUME NEW n \in Nat, NEW h \in Bytes(n), NEW v \in Word
    PROVE  /\ Cat(h, uint16_le(v)) \in Bytes(n + 2)
           /\ \A i \in 1..n : Cat(h, uint16_le(v))[i] = h[i]
           /\ Cat(h, uint16_le(v))[n + 1] = Low(v)
           /\ Cat(h, uint16_le(v))[n + 2] = High(v)
<1>1. uint16_le(v) = <<Low(v), High(v)>>
  BY Zenon DEF uint16_le, Low, High
<1>2. Low(v) \in Byte /\ High(v) \in Byte
  BY WordBytes
<1> QED  BY <1>1, <1>2, JoinedPair

\* The constants are bytes and words.
LEMMA SmallWords ==
    /\ Byte \subseteq Word
    /\ MotorIds \subseteq Byte /\ Modes \subseteq Word
    /\ Words \subseteq Word /\ Samples \subseteq Word /\ Damages \subseteq 1..255
<1>1. Byte \subseteq Word
  <2>1. \A b \in Byte : b \in Word
    BY SMT DEF Byte, Word
  <2> QED  BY <2>1
<1> HIDE DEF Byte, Word
<1> QED  BY <1>1, ProtocolAssumption, Zenon

\* Every request the SDK sends is whole (protocol.cpp:188-428).
LEMMA RequestShape ==
    ASSUME NEW p \in Requests
    PROVE  \E n \in 0..12 : Whole(p, n)
<1>1. ASSUME NEW id \in Byte PROVE \E n \in 0..12 : Whole(encode_read_motor_id(id), n)
  <2>1. <<4, id, \h31, \h16, 0, 1>> \in Bytes(6) /\ \h10 \in Byte /\ 6 \in 0..9
    BY DEF Bytes, Byte
  <2>2. Whole(encode_read_motor_id(id), 6 + 3)
    BY <2>1, MotorRequestShape DEF encode_read_motor_id
  <2> QED  BY <2>2
<1>2. ASSUME NEW id \in Byte PROVE \E n \in 0..12 : Whole(encode_read_motor_status(id), n)
  <2>1. <<3, id, \h30, 0, 0>> \in Bytes(5) /\ \h20 \in Byte /\ 5 \in 0..9
    BY DEF Bytes, Byte
  <2>2. Whole(encode_read_motor_status(id), 5 + 3)
    BY <2>1, MotorRequestShape DEF encode_read_motor_status
  <2> QED  BY <2>2
<1>3. ASSUME NEW id \in Byte, NEW v \in Word, NEW address \in Byte, NEW command \in Byte
      PROVE  \E n \in 0..12 :
               Whole(MotorRequest(command, <<5, id, \h32, address, 0>> \o uint16_le(v)), n)
  <2>1. <<5, id, \h32, address, 0>> \in Bytes(5) /\ 5 \in Nat /\ 7 \in 0..9
    BY DEF Bytes, Byte
  <2> DEFINE h == <<5, id, \h32, address, 0>>
             inner == Cat(h, uint16_le(v))
  <2> HIDE DEF h
  <2>2. inner \in Bytes(5 + 2)
    BY <2>1, EndsInWord DEF h
  <2>3. inner = <<5, id, \h32, address, 0>> \o uint16_le(v)
    BY Zenon DEF inner, h, Cat
  <2> HIDE DEF inner
  <2>4. Whole(MotorRequest(command, inner), 7 + 3)
    BY <2>1, <2>2, MotorRequestShape
  <2> QED  BY <2>3, <2>4
<1>4. ASSUME NEW id \in Byte, NEW v \in Word, NEW w \in Word
      PROVE  \E n \in 0..12 : Whole(encode_set_motor_speed(id, v, w), n)
  <2> DEFINE h == <<7, id, \h32, \h28, 0>>
             g == Cat(h, uint16_le(v))
             inner == Cat(g, uint16_le(w))
  <2>1. h \in Bytes(5) /\ 5 \in Nat /\ 7 \in Nat /\ 9 \in 0..9 /\ \h32 \in Byte
    BY DEF Bytes, Byte
  <2> HIDE DEF h
  <2>2. g \in Bytes(7)
    BY <2>1, EndsInWord
  <2> HIDE DEF g
  <2>3. inner \in Bytes(9)
    BY <2>1, <2>2, EndsInWord
  <2>4. encode_set_motor_speed(id, v, w) = MotorRequest(\h32, inner)
    BY Zenon DEF encode_set_motor_speed, inner, g, h, Cat
  <2> HIDE DEF inner
  <2>5. Whole(MotorRequest(\h32, inner), 9 + 3)
    BY <2>1, <2>3, MotorRequestShape
  <2> QED  BY <2>4, <2>5
<1>5. \E n \in 0..12 : Whole(encode_read_all_encoders, n)
  <2>1. <<\hFF, \hFF>> \in Bytes(2) /\ 2 \in 0..253 /\ 0 \in Byte /\ TARGET_ENCODER \in Byte
    BY DEF Bytes, Byte, TARGET_ENCODER
  <2>2. Len(<<\hFF, \hFF>>) = 2
    OBVIOUS
  <2>3. \A p_1 : p_1.body = <<\hFF, \hFF>> => validate_motor_checksum(p_1)
    BY <2>2 DEF validate_motor_checksum
  <2>4. Whole(encode_read_all_encoders, 2)
    BY <2>1, <2>3, EncodedShape DEF EncodedAs, Whole, encode_read_all_encoders
  <2> QED  BY <2>4
<1>6. \E n \in 0..12 : Whole(encode_read_imu, n)
  <2>1. <<>> \in Bytes(0) /\ 0 \in 0..253 /\ 0 \in Byte /\ TARGET_IMU \in Byte
    BY DEF Bytes, Byte, TARGET_IMU
  <2>2. Len(<<>>) = 0
    OBVIOUS
  <2>3. \A p_1 : p_1.body = <<>> => validate_motor_checksum(p_1)
    BY <2>2 DEF validate_motor_checksum
  <2>4. Whole(encode_read_imu, 0)
    BY <2>1, <2>3, EncodedShape DEF EncodedAs, Whole, encode_read_imu
  <2> QED  BY <2>4
<1>7. /\ \h30 \in Byte /\ \h31 \in Byte /\ \h33 \in Byte
      /\ \h25 \in Byte /\ \h29 \in Byte /\ \h27 \in Byte
  BY DEF Byte
<1>8. /\ \A id \in MotorIds : id \in Byte
      /\ \A v \in Modes \cup Words : v \in Word
  BY SmallWords
<1>9. CASE p \in {encode_read_all_encoders, encode_read_imu}
  BY <1>5, <1>6, <1>9
<1>10. CASE \E i \in MotorIds : p \in {encode_read_motor_id(i), encode_read_motor_status(i)}
  BY <1>1, <1>2, <1>8, <1>10
<1>11. CASE \E i \in MotorIds, m \in Modes : p = encode_set_motor_mode(i, m)
  <2>1. PICK i \in MotorIds, v \in Modes : p = encode_set_motor_mode(i, v)
    BY <1>11
  <2>2. i \in Byte /\ v \in Word
    BY <1>8
  <2> QED  BY <1>3, <1>7, <2>1, <2>2, Zenon DEF encode_set_motor_mode
<1>12. CASE \E i \in MotorIds, w \in Words : p = encode_set_motor_position(i, w)
  <2>1. PICK i \in MotorIds, v \in Words : p = encode_set_motor_position(i, v)
    BY <1>12
  <2>2. i \in Byte /\ v \in Word
    BY <1>8
  <2> QED  BY <1>3, <1>7, <2>1, <2>2, Zenon DEF encode_set_motor_position
<1>13. CASE \E i \in MotorIds, w \in Words : p = encode_set_motor_force(i, w)
  <2>1. PICK i \in MotorIds, v \in Words : p = encode_set_motor_force(i, v)
    BY <1>13
  <2>2. i \in Byte /\ v \in Word
    BY <1>8
  <2> QED  BY <1>3, <1>7, <2>1, <2>2, Zenon DEF encode_set_motor_force
<1>14. CASE \E i \in MotorIds, v \in Words, w \in Words : p = encode_set_motor_speed(i, v, w)
  BY <1>4, <1>8, <1>14, Zenon
<1> QED  BY <1>9, <1>10, <1>11, <1>12, <1>13, <1>14 DEF Requests

-----------------------------------------------------------------------------
(***************************************************************************)
(* The replies.                                                            *)
(***************************************************************************)
\* What a motor reports.
LEMMA MotorMeaningsType == MotorMeanings \subseteq Statuses
<1>1. SUFFICES ASSUME NEW id \in MotorIds, NEW a \in Samples, NEW b \in Samples
               PROVE  Meaning(id, a, b) \in Statuses
  BY DEF MotorMeanings
<1>2. id \in Byte /\ a \in Word /\ b \in Word
  BY SmallWords
<1>3. 45 \in Byte /\ 3 \in Byte
  BY DEF Byte
<1> QED  BY <1>2, <1>3 DEF Meaning, Statuses

\* The bytes of a motor's state, each word low byte first.
LEMMA MotorDataShape ==
    ASSUME NEW m \in Statuses
    PROVE  LET d == MotorData(m)
           IN  /\ d \in Bytes(12)
               /\ d[1] = Low(m.target_position) /\ d[2] = High(m.target_position)
               /\ d[3] = Low(m.actual_position) /\ d[4] = High(m.actual_position)
               /\ d[5] = Low(m.actual_current) /\ d[6] = High(m.actual_current)
               /\ d[7] = Low(m.force_value) /\ d[8] = High(m.force_value)
               /\ d[9] = Low(m.force_raw) /\ d[10] = High(m.force_raw)
               /\ d[11] = m.temperature /\ d[12] = m.fault_code
<1> DEFINE d2  == uint16_le(m.target_position)
           d4  == Cat(d2, uint16_le(m.actual_position))
           d6  == Cat(d4, uint16_le(m.actual_current))
           d8  == Cat(d6, uint16_le(m.force_value))
           d10 == Cat(d8, uint16_le(m.force_raw))
           d   == Cat(d10, <<m.temperature, m.fault_code>>)
<1>1. /\ m.target_position \in Word /\ m.actual_position \in Word /\ m.actual_current \in Word
      /\ m.force_value \in Word /\ m.force_raw \in Word
      /\ m.temperature \in Byte /\ m.fault_code \in Byte
  BY DEF Statuses
<1>2. 2 \in Nat /\ 4 \in Nat /\ 6 \in Nat /\ 8 \in Nat /\ 10 \in Nat
  OBVIOUS
<1>3. MotorData(m) = d
  BY Zenon DEF MotorData, Cat
<1>4. d2 \in Bytes(2) /\ d2[1] = Low(m.target_position) /\ d2[2] = High(m.target_position)
  <2>1. \A a, b \in Byte : /\ <<a, b>> \in Bytes(2)
                           /\ <<a, b>>[1] = a /\ <<a, b>>[2] = b
    BY DEF Bytes
  <2>2. d2 = <<Low(m.target_position), High(m.target_position)>>
    BY Zenon DEF uint16_le, Low, High
  <2> HIDE DEF d2
  <2> QED  BY <1>1, <2>1, <2>2, WordBytes, Zenon
<1> HIDE DEF d2
<1>5. d4 \in Bytes(4) /\ (\A i \in 1..2 : d4[i] = d2[i])
      /\ d4[3] = Low(m.actual_position) /\ d4[4] = High(m.actual_position)
  BY <1>1, <1>2, <1>4, EndsInWord, SMTT(40)
<1> HIDE DEF d4
<1>6. d6 \in Bytes(6) /\ (\A i \in 1..4 : d6[i] = d4[i])
      /\ d6[5] = Low(m.actual_current) /\ d6[6] = High(m.actual_current)
  BY <1>1, <1>2, <1>5, EndsInWord
<1> HIDE DEF d6
<1>7. d8 \in Bytes(8) /\ (\A i \in 1..6 : d8[i] = d6[i])
      /\ d8[7] = Low(m.force_value) /\ d8[8] = High(m.force_value)
  BY <1>1, <1>2, <1>6, EndsInWord
<1> HIDE DEF d8
<1>8. d10 \in Bytes(10) /\ (\A i \in 1..8 : d10[i] = d8[i])
      /\ d10[9] = Low(m.force_raw) /\ d10[10] = High(m.force_raw)
  BY <1>1, <1>2, <1>7, EndsInWord
<1> HIDE DEF d10
<1>9. d \in Bytes(12) /\ (\A i \in 1..10 : d[i] = d10[i])
      /\ d[11] = m.temperature /\ d[12] = m.fault_code
  <2>1. d10 \in Bytes(10)
    BY <1>8
  <2> QED  BY <1>1, <1>2, <2>1, JoinedPair
<1> HIDE DEF d
<1>10. /\ d[1] = d2[1] /\ d[2] = d2[2] /\ d[3] = d4[3] /\ d[4] = d4[4] /\ d[5] = d6[5]
       /\ d[6] = d6[6] /\ d[7] = d8[7] /\ d[8] = d8[8] /\ d[9] = d10[9] /\ d[10] = d10[10]
  BY <1>5, <1>6, <1>7, <1>8, <1>9
<1> QED  BY <1>3, <1>4, <1>5, <1>6, <1>7, <1>8, <1>9, <1>10

\* What comes before them in a status reply, ...
LEMMA InnerHead ==
    ASSUME NEW l \in Byte, NEW id \in Byte
    PROVE  <<l, id, \h30, 0, 0>> \in Bytes(5) /\ <<l, id, \h30, 0, 0>>[2] = id
<1>1. <<l, id, \h30, 0, 0>> \in [1..5 -> Byte]
  BY DEF Byte
<1>2. <<l, id, \h30, 0, 0>>[2] = id
  OBVIOUS
<1> QED  BY <1>1, <1>2 DEF Bytes

\* ... and the inner packet around both: b carries n bytes of data about motor m.
InnerOf(b, m, n, data) ==
    /\ b \in Bytes(n + 8)
    /\ b[1] = \hAA /\ b[2] = \h55 /\ b[4] = m.motor_id
    /\ \A i \in 1..n : b[7 + i] = data[i]
    /\ \A q : q.body = b => validate_motor_checksum(q)

\* MotorInner is such a packet, whatever the data.
LEMMA MotorInnerShape ==
    ASSUME NEW m \in Statuses, NEW k \in 0..100, NEW data \in Bytes(k)
    PROVE  InnerOf(MotorInner(m, data), m, k, data)
<1> DEFINE t == <<Len(data) + 3, m.motor_id, \h30, 0, 0>>
           h == Cat(MotorResponseHeader, t)
           g == Cat(h, data)
           b == MotorPacket(g)
<1>1. b = MotorInner(m, data)
  BY Zenon DEF MotorInner, Cat
<1>2. /\ MotorResponseHeader \in Bytes(2)
      /\ MotorResponseHeader[1] = \hAA /\ MotorResponseHeader[2] = \h55
  BY DEF MotorResponseHeader, Bytes, Byte
<1>3. k \in Nat /\ Len(data) = k /\ k + 3 \in Byte /\ m.motor_id \in Byte
  BY BytesAre DEF Byte, Statuses
<1>4. t \in Bytes(5) /\ t[2] = m.motor_id
  <2>2. Len(data) + 3 \in Byte
    BY <1>3
  <2> QED  BY <1>3, <2>2, InnerHead, Zenon
<1> HIDE DEF t
<1>5. h \in Bytes(2 + 5) /\ (\A i \in 1..2 : h[i] = MotorResponseHeader[i])
      /\ \A i \in 1..5 : h[2 + i] = t[i]
  <2>1. 2 \in Nat /\ 5 \in Nat
    OBVIOUS
  <2>2. t \in Bytes(5) /\ MotorResponseHeader \in Bytes(2)
    BY <1>2, <1>4
  <2> QED  BY <2>1, <2>2, Joined
<1> HIDE DEF h
<1>6. g \in Bytes(7 + k) /\ (\A i \in 1..7 : g[i] = h[i]) /\ \A i \in 1..k : g[7 + i] = data[i]
  <2>1. h \in Bytes(7) /\ 7 \in Nat
    BY <1>5
  <2>2. Follows(g, 7, h, k, data)
    BY <1>3, <2>1, JoinedFollows
  <2> HIDE DEF g
  <2> QED  BY <2>2 DEF Follows
<1> HIDE DEF g
<1>7. PICK n \in Nat : n = 7 + k
  BY <1>3
<1>8. n >= 2 /\ g \in Bytes(n)
  BY <1>3, <1>6, <1>7
<1>9. b \in Bytes(n + 1) /\ \A i \in 1..n : b[i] = g[i]
  BY <1>8, MotorPacketShape
<1>10. \A q : q.body = b => validate_motor_checksum(q)
  BY <1>8, MotorPacketValid DEF b
<1> HIDE DEF b
<1>11. n + 1 = k + 8 /\ 1 \in 1..n /\ 2 \in 1..n /\ 4 \in 1..n /\ \A i \in 1..k : 7 + i \in 1..n
  BY <1>3, <1>7
<1>12. b[1] = g[1] /\ b[2] = g[2] /\ b[4] = g[4] /\ g[1] = h[1] /\ g[2] = h[2] /\ g[4] = h[4]
  BY <1>6, <1>9, <1>11
<1>13. h[1] = \hAA /\ h[2] = \h55 /\ h[4] = t[2]
  BY <1>2, <1>5
<1>14. \A i \in 1..k : b[7 + i] = data[i]
  BY <1>6, <1>9, <1>11
<1> QED  BY <1>1, <1>4, <1>9, <1>10, <1>11, <1>12, <1>13, <1>14 DEF InnerOf

\* A frame whose tail and checksum are right.
Sound(s, n) == s \in Bytes(n + 7) /\ Checksum(s) = s[n + 6] /\ s[n + 7] = PACKET_TAIL

\* A whole packet makes such a frame ...
LEMMA WholeSound ==
    ASSUME NEW n \in Nat, NEW p, Whole(p, n)
    PROVE  /\ Sound(Serialize(p), n)
           /\ Serialize(p)[2] = n + 2 /\ Serialize(p)[4] = p.target
  BY DEF Whole, Laid, Sound

\* ... and so does a checksum written into any other frame.
LEMMA Stamped ==
    ASSUME NEW n \in Nat, NEW f \in Bytes(n + 7), f[n + 7] = PACKET_TAIL
    PROVE  LET s == [f EXCEPT ![n + 6] = Checksum(f)]
           IN  Sound(s, n) /\ \A i \in 1..(n + 7) : i # n + 6 => s[i] = f[i]
<1> DEFINE c == Checksum(f)
           s == [f EXCEPT ![n + 6] = c]
<1>1. PICK m \in Nat : m = n + 7
  OBVIOUS
<1>2. m >= 2 /\ f \in Bytes(m)
  BY <1>1
<1>3. c \in Byte
  BY <1>2, ChecksumType
<1> HIDE DEF c
<1>4. s \in Bytes(n + 7) /\ s[n + 6] = c /\ \A i \in 1..(n + 7) : i # n + 6 => s[i] = f[i]
  BY <1>3 DEF Bytes
<1> HIDE DEF s
<1>5. s \in Bytes(m) /\ \A i \in 1..(m - 2) : s[i] = f[i]
  BY <1>1, <1>4
<1>6. Checksum(s) = Checksum(f)
  BY <1>2, <1>5, ChecksumSame
<1>7. s[n + 7] = PACKET_TAIL
  BY <1>4
<1>8. Sound(s, n)
  BY <1>4, <1>6, <1>7 DEF Sound, c
<1> QED  BY <1>4, <1>8 DEF s, c

\* A status reply is whole, whatever data it carries.
LEMMA StatusReplyShape ==
    ASSUME NEW m \in Statuses, NEW k \in 0..100, NEW data \in Bytes(k)
    PROVE  LET p == Encoded(TARGET_MOTOR, \h20, MotorInner(m, data))
           IN  Whole(p, k + 8) /\ p.target = TARGET_MOTOR /\ p.body = MotorInner(m, data)
<1> DEFINE b == MotorInner(m, data)
           p == Encoded(TARGET_MOTOR, \h20, b)
<1>1. PICK n \in 0..253 : n = k + 8
  OBVIOUS
<1>2. b \in Bytes(n) /\ \A q : q.body = b => validate_motor_checksum(q)
  <2>1. InnerOf(b, m, k, data)
    BY MotorInnerShape
  <2> HIDE DEF b
  <2> QED  BY <1>1, <2>1 DEF InnerOf
<1> HIDE DEF b
<1>3. TARGET_MOTOR \in Byte /\ \h20 \in Byte
  BY DEF TARGET_MOTOR, Byte
<1>4. EncodedAs(p, TARGET_MOTOR, \h20, n, b)
  BY <1>2, <1>3, EncodedShape
<1> HIDE DEF p
<1>5. Whole(p, n) /\ p.target = TARGET_MOTOR /\ p.body = b
  BY <1>2, <1>4 DEF Whole, EncodedAs
<1> QED  BY <1>1, <1>5 DEF p, b

\* The reply the protocol document prints has right checksums, too.
LEMMA DocumentedReplyShape ==
    ASSUME NEW m \in Statuses
    PROVE  Sound(DocumentedMotorReply(m), 18) /\ DocumentedMotorReply(m)[4] = \hAA
<1> DEFINE t == <<PACKET_HEADER, \h14, MODULE_ID>>
           b == MotorInner(m, MotorData(m))
           g == Cat(t, b)
           f == Cat(g, <<0, PACKET_TAIL>>)
<1>1. DocumentedMotorReply(m) = [f EXCEPT ![24] = Checksum(f)]
  BY Zenon DEF DocumentedMotorReply, Cat
<1>2. b \in Bytes(20) /\ b[1] = \hAA
  <2>1. MotorData(m) \in Bytes(12) /\ 12 \in 0..100
    BY MotorDataShape
  <2>2. InnerOf(b, m, 12, MotorData(m))
    BY <2>1, MotorInnerShape
  <2> HIDE DEF b
  <2> QED  BY <2>2 DEF InnerOf
<1>3. t \in Bytes(3)
  BY DEF Bytes, Byte, PACKET_HEADER, MODULE_ID
<1>4. 0 \in Byte /\ PACKET_TAIL \in Byte /\ 3 \in Nat /\ 20 \in Nat /\ 23 \in Nat
  BY DEF Byte, PACKET_TAIL
<1> HIDE DEF t, b
<1>5. g \in Bytes(3 + 20) /\ \A i \in 1..20 : g[3 + i] = b[i]
  <2>1. b \in Bytes(20)
    BY <1>2
  <2> QED  BY <1>3, <1>4, <2>1, Joined
<1> HIDE DEF g
<1>6. g \in Bytes(23) /\ g[4] = \hAA
  BY <1>2, <1>5
<1>7. f \in Bytes(23 + 2) /\ (\A i \in 1..23 : f[i] = g[i]) /\ f[23 + 2] = PACKET_TAIL
  BY <1>4, <1>6, JoinedPair
<1> HIDE DEF f
<1>8. f \in Bytes(18 + 7) /\ f[18 + 7] = PACKET_TAIL /\ f[4] = \hAA
  BY <1>6, <1>7
<1>9. LET s == [f EXCEPT ![18 + 6] = Checksum(f)]
      IN  Sound(s, 18) /\ \A i \in 1..(18 + 7) : i # 18 + 6 => s[i] = f[i]
  BY <1>8, Stamped
<1> QED  BY <1>1, <1>8, <1>9

\* A word on the line, high byte first.
LEMMA WordPair ==
    ASSUME NEW v \in Word
    PROVE  /\ uint16_be(v) \in Seq(Byte) /\ Len(uint16_be(v)) = 2 /\ uint16_be(v) \in Bytes(2)
           /\ uint16_be(v)[1] = High(v) /\ uint16_be(v)[2] = Low(v)
<1>1. High(v) \in Byte /\ Low(v) \in Byte
  BY WordBytes
<1>2. uint16_be(v) = <<High(v), Low(v)>>
  BY Zenon DEF uint16_be, High, Low
<1>3. ASSUME NEW a \in Byte, NEW b \in Byte
      PROVE  /\ <<a, b>> \in Seq(Byte) /\ Len(<<a, b>>) = 2 /\ <<a, b>> \in Bytes(2)
             /\ <<a, b>>[1] = a /\ <<a, b>>[2] = b
  BY DEF Bytes
<1> DEFINE w == <<High(v), Low(v)>>
<1>4. /\ w \in Seq(Byte) /\ Len(w) = 2 /\ w \in Bytes(2)
      /\ w[1] = High(v) /\ w[2] = Low(v)
  BY <1>1, <1>3, Zenon
<1> HIDE DEF w
<1> QED  BY <1>2, <1>4 DEF w

\* The encoders' reply, its channels high byte first.
LEMMA EncoderReplyShape ==
    ASSUME NEW v \in [1..16 -> Word]
    PROVE  LET s == EncoderReply(v)
           IN  /\ Sound(s, 32)
               /\ s[1] = PACKET_HEADER /\ s[2] = \h25 /\ s[3] = 1 /\ s[4] = 2
               /\ \A i \in 1..16 : s[2 * i + 4] = High(v[i]) /\ s[2 * i + 5] = Low(v[i])
<1> DEFINE seqs == [i \in 1..16 |-> uint16_be(v[i])]
           b == FlattenSeq(seqs)
           h == Cat(EncoderMark, <<0>>)
           g == Cat(h, b)
           f == Cat(g, <<0, PACKET_TAIL>>)
<1>1. EncoderReply(v) = [f EXCEPT ![38] = Checksum(f)]
  BY Zenon DEF EncoderReply, Cat
<1>2. Len(seqs) = 16 /\ \A i \in 1..16 : seqs[i] = uint16_be(v[i])
  OBVIOUS
<1>3. \A i \in 1..16 : v[i] \in Word
  OBVIOUS
<1> HIDE DEF seqs
<1>4. \A i \in 1..16 : /\ seqs[i] \in Seq(Byte) /\ Len(seqs[i]) = 2
                       /\ seqs[i][1] = High(v[i]) /\ seqs[i][2] = Low(v[i])
  BY <1>2, <1>3, WordPair
<1>5. /\ b \in Seq(Byte) /\ Len(b) = 2 * 16
      /\ \A i \in 1..16 : b[2 * i - 1] = seqs[i][1] /\ b[2 * i] = seqs[i][2]
  <2>1. PICK n \in Nat : n # 0 /\ n = 16
    OBVIOUS
  <2>2. n # 0 /\ Len(seqs) = n /\ \A i \in 1..n : seqs[i] \in Seq(Byte) /\ Len(seqs[i]) = 2
    BY <1>2, <1>4, <2>1
  <2>3. b \in Seq(Byte) /\ Len(b) = 2 * n
    BY <2>2, FlattenPairs
  <2>4. \A i \in 1..n : b[2 * i - 1] = seqs[i][1]
    BY <2>2, FlattenPairs, Zenon
  <2>5. \A i \in 1..n : b[2 * i] = seqs[i][2]
    BY <2>2, FlattenPairs, Zenon
  <2> HIDE DEF b
  <2> QED  BY <2>1, <2>3, <2>4, <2>5
<1> HIDE DEF b
<1>6. b \in Bytes(32) /\ \A i \in 1..16 : b[2 * i - 1] = High(v[i]) /\ b[2 * i] = Low(v[i])
  <2>1. Len(b) = 32
    BY <1>5
  <2>2. b \in Bytes(32)
    BY <1>5, <2>1, AreBytes
  <2> QED  BY <1>4, <1>5, <2>2
<1>7. /\ EncoderMark \in Bytes(4) /\ <<0>> \in Bytes(1)
      /\ EncoderMark[1] = PACKET_HEADER /\ EncoderMark[2] = \h25
      /\ EncoderMark[3] = 1 /\ EncoderMark[4] = 2
  BY DEF EncoderMark, Bytes, Byte, PACKET_HEADER
<1>8. 1 \in Nat /\ 4 \in Nat /\ 5 \in Nat /\ 32 \in Nat /\ 37 \in Nat
      /\ 0 \in Byte /\ PACKET_TAIL \in Byte
  BY DEF Byte, PACKET_TAIL
<1>9. h \in Bytes(4 + 1) /\ \A i \in 1..4 : h[i] = EncoderMark[i]
  <2> DEFINE z == <<0>>
  <2>1. z \in Bytes(1)
    BY <1>7
  <2> HIDE DEF z
  <2>2. /\ Cat(EncoderMark, z) \in Bytes(4 + 1)
        /\ \A i \in 1..4 : Cat(EncoderMark, z)[i] = EncoderMark[i]
    BY <1>7, <1>8, <2>1, Joined
  <2> QED  BY <2>2 DEF z
<1> HIDE DEF h
<1>10. h \in Bytes(5)
  BY <1>9
<1>11. g \in Bytes(5 + 32) /\ (\A i \in 1..5 : g[i] = h[i]) /\ \A i \in 1..32 : g[5 + i] = b[i]
  BY <1>6, <1>8, <1>10, Joined
<1> HIDE DEF g
<1>12. g \in Bytes(37)
  BY <1>11
<1>13. f \in Bytes(37 + 2) /\ (\A i \in 1..37 : f[i] = g[i]) /\ f[37 + 2] = PACKET_TAIL
  BY <1>8, <1>12, JoinedPair
<1> HIDE DEF f
<1>14. f \in Bytes(32 + 7) /\ f[32 + 7] = PACKET_TAIL
  BY <1>13
<1> DEFINE s == [f EXCEPT ![32 + 6] = Checksum(f)]
<1>15. Sound(s, 32) /\ \A i \in 1..(32 + 7) : i # 32 + 6 => s[i] = f[i]
  BY <1>14, Stamped
<1>16. s = EncoderReply(v)
  BY <1>1
<1> HIDE DEF s
<1>17. \A i \in 1..37 : s[i] = g[i]
  BY <1>13, <1>15
<1>18. s[1] = h[1] /\ s[2] = h[2] /\ s[3] = h[3] /\ s[4] = h[4]
  BY <1>11, <1>17
<1>19. \A j \in 1..32 : s[5 + j] = b[j]
  BY <1>11, <1>17
<1>20. ASSUME NEW i \in 1..16
       PROVE  s[2 * i + 4] = High(v[i]) /\ s[2 * i + 5] = Low(v[i])
  <2>1. /\ 2 * i - 1 \in 1..32 /\ 2 * i \in 1..32
        /\ 5 + (2 * i - 1) = 2 * i + 4 /\ 5 + 2 * i = 2 * i + 5
    OBVIOUS
  <2>2. s[5 + (2 * i - 1)] = b[2 * i - 1] /\ s[5 + 2 * i] = b[2 * i]
    BY <1>19, <2>1
  <2> QED  BY <1>6, <2>1, <2>2
<1> QED  BY <1>7, <1>9, <1>15, <1>16, <1>18, <1>20

\* A float on the line.
FloatBytes(x) == uint16_be(x[1]) \o uint16_be(x[2])

\* The four bytes of a float.
LEMMA FloatBytesAre ==
    ASSUME NEW a \in Word, NEW b \in Word
    PROVE  LET f == FloatBytes(<<a, b>>)
           IN  /\ f \in Bytes(4)
               /\ f[1] = High(a) /\ f[2] = Low(a) /\ f[3] = High(b) /\ f[4] = Low(b)
<1> DEFINE s == uint16_be(a)
           t == uint16_be(b)
           f == Cat(s, t)
<1>1. FloatBytes(<<a, b>>) = f
  <2>1. <<a, b>>[1] = a /\ <<a, b>>[2] = b
    OBVIOUS
  <2> QED  BY <2>1, Zenon DEF FloatBytes, Cat
<1>2. /\ s \in Bytes(2) /\ t \in Bytes(2)
      /\ s[1] = High(a) /\ s[2] = Low(a) /\ t[1] = High(b) /\ t[2] = Low(b)
  BY WordPair
<1> HIDE DEF s, t
<1>3. s \in Bytes(2) /\ t \in Bytes(2) /\ 2 \in Nat
  BY <1>2
<1>4. f \in Bytes(2 + 2) /\ (\A i \in 1..2 : f[i] = s[i]) /\ \A i \in 1..2 : f[2 + i] = t[i]
  BY <1>3, Joined
<1> HIDE DEF f
<1>5. f[1] = s[1] /\ f[2] = s[2] /\ f[3] = t[1] /\ f[4] = t[2]
  <2>1. f[2 + 1] = t[1] /\ f[2 + 2] = t[2]
    BY <1>4
  <2> QED  BY <1>4, <2>1
<1> QED  BY <1>1, <1>2, <1>4, <1>5

\* The IMU's reply, its three angles in order.
LEMMA ImuReplyShape ==
    ASSUME NEW a \in Word, NEW b \in Word, NEW c \in Word, NEW d \in Word,
           NEW e \in Word, NEW f \in Word,
           NEW o, o.roll = <<a, b>>, o.pitch = <<c, d>>, o.yaw = <<e, f>>
    PROVE  LET s == ImuReply(o)
           IN  /\ s \in Bytes(19) /\ s[19] = PACKET_TAIL
               /\ s[1] = PACKET_HEADER /\ s[2] = \h11 /\ s[3] = 1 /\ s[4] = 2
               /\ s[6] = High(a) /\ s[7] = Low(a) /\ s[8] = High(b) /\ s[9] = Low(b)
               /\ s[10] = High(c) /\ s[11] = Low(c) /\ s[12] = High(d) /\ s[13] = Low(d)
               /\ s[14] = High(e) /\ s[15] = Low(e) /\ s[16] = High(f) /\ s[17] = Low(f)
<1> DEFINE x == FloatBytes(<<a, b>>)
           y == FloatBytes(<<c, d>>)
           z == FloatBytes(<<e, f>>)
           xy == Cat(x, y)
           body == Cat(xy, z)
           h == Cat(ImuMark, <<0>>)
           g == Cat(h, body)
           s == Cat(g, <<\h3A, PACKET_TAIL>>)
           floats == [i \in 1..3 |-> LET v == <<o.roll, o.pitch, o.yaw>>[i] IN
                                     uint16_be(v[1]) \o uint16_be(v[2])]
<1>1. Len(floats) = 3 /\ floats[1] = x /\ floats[2] = y /\ floats[3] = z
  <2>1. floats = [i \in 1..3 |-> FloatBytes(<<o.roll, o.pitch, o.yaw>>[i])]
    BY Zenon DEF FloatBytes
  <2> HIDE DEF x, y, z, floats
  <2>2. /\ Len(floats) = 3 /\ floats[1] = FloatBytes(o.roll)
        /\ floats[2] = FloatBytes(o.pitch) /\ floats[3] = FloatBytes(o.yaw)
    BY <2>1
  <2> QED  BY <2>2 DEF x, y, z
<1>2. ImuReply(o) = s
  <2>1. ImuReply(o) = Cat(Cat(Cat(ImuMark, <<0>>), FlattenSeq(floats)), <<\h3A, PACKET_TAIL>>)
    BY Zenon DEF ImuReply, Cat
  <2> HIDE DEF floats
  <2>2. FlattenSeq(floats) = Cat(Cat(floats[1], floats[2]), floats[3])
    BY <1>1, FlattenThree
  <2> QED  BY <1>1, <2>1, <2>2, Zenon
<1> HIDE DEF floats
<1>3. /\ x \in Bytes(4) /\ x[1] = High(a) /\ x[2] = Low(a) /\ x[3] = High(b) /\ x[4] = Low(b)
      /\ y \in Bytes(4) /\ y[1] = High(c) /\ y[2] = Low(c) /\ y[3] = High(d) /\ y[4] = Low(d)
      /\ z \in Bytes(4) /\ z[1] = High(e) /\ z[2] = Low(e) /\ z[3] = High(f) /\ z[4] = Low(f)
  BY FloatBytesAre
<1> HIDE DEF x, y, z
<1>4. /\ 1 \in Nat /\ 4 \in Nat /\ 5 \in Nat /\ 8 \in Nat /\ 12 \in Nat /\ 17 \in Nat
      /\ 0 \in Byte /\ \h3A \in Byte /\ PACKET_TAIL \in Byte
  BY DEF Byte, PACKET_TAIL
<1>5. xy \in Bytes(4 + 4) /\ (\A i \in 1..4 : xy[i] = x[i]) /\ \A i \in 1..4 : xy[4 + i] = y[i]
  <2>1. x \in Bytes(4) /\ y \in Bytes(4)
    BY <1>3
  <2>2. Follows(xy, 4, x, 4, y)
    BY <1>4, <2>1, JoinedFollows
  <2> HIDE DEF xy
  <2> QED  BY <2>2 DEF Follows
<1> HIDE DEF xy
<1>6. body \in Bytes(8 + 4) /\ (\A i \in 1..8 : body[i] = xy[i])
      /\ \A i \in 1..4 : body[8 + i] = z[i]
  <2>1. xy \in Bytes(8) /\ z \in Bytes(4)
    BY <1>3, <1>5
  <2>2. Follows(body, 8, xy, 4, z)
    BY <1>4, <2>1, JoinedFollows
  <2> HIDE DEF body
  <2> QED  BY <2>2 DEF Follows
<1> HIDE DEF body
<1>7. /\ ImuMark \in Bytes(4) /\ <<0>> \in Bytes(1)
      /\ ImuMark[1] = PACKET_HEADER /\ ImuMark[2] = \h11
      /\ ImuMark[3] = 1 /\ ImuMark[4] = 2
  BY DEF ImuMark, Bytes, Byte, PACKET_HEADER
<1>8. h \in Bytes(4 + 1) /\ \A i \in 1..4 : h[i] = ImuMark[i]
  <2> DEFINE w == <<0>>
  <2>1. w \in Bytes(1)
    BY <1>7
  <2> HIDE DEF w
  <2>2. Cat(ImuMark, w) \in Bytes(4 + 1) /\ \A i \in 1..4 : Cat(ImuMark, w)[i] = ImuMark[i]
    BY <1>4, <1>7, <2>1, Joined
  <2> QED  BY <2>2 DEF w
<1> HIDE DEF h
<1>9. g \in Bytes(5 + 12) /\ (\A i \in 1..5 : g[i] = h[i]) /\ \A i \in 1..12 : g[5 + i] = body[i]
  <2>1. h \in Bytes(5) /\ body \in Bytes(12)
    BY <1>6, <1>8
  <2>2. Follows(g, 5, h, 12, body)
    BY <1>4, <2>1, JoinedFollows
  <2> HIDE DEF g
  <2> QED  BY <2>2 DEF Follows
<1> HIDE DEF g
<1>10. s \in Bytes(17 + 2) /\ (\A i \in 1..17 : s[i] = g[i]) /\ s[17 + 2] = PACKET_TAIL
  <2>1. g \in Bytes(17)
    BY <1>9
  <2>2. Closed(s, 17, g, \h3A, PACKET_TAIL)
    BY <1>4, <2>1, JoinedClosed
  <2> HIDE DEF s
  <2> QED  BY <2>2 DEF Closed
<1> HIDE DEF s
<1>11. s[1] = h[1] /\ s[2] = h[2] /\ s[3] = h[3] /\ s[4] = h[4]
  BY <1>9, <1>10
<1>12. \A i \in 1..12 : s[5 + i] = body[i]
  BY <1>9, <1>10
<1>13. /\ s[6] = body[1] /\ s[7] = body[2] /\ s[8] = body[3] /\ s[9] = body[4]
       /\ s[10] = body[5] /\ s[11] = body[6] /\ s[12] = body[7] /\ s[13] = body[8]
       /\ s[14] = body[9] /\ s[15] = body[10] /\ s[16] = body[11] /\ s[17] = body[12]
  <2>1. \A i \in 1..12 : s[i + 5] = body[i]
    BY <1>12
  <2> QED  BY <2>1
<1>14. body[9] = z[1] /\ body[10] = z[2] /\ body[11] = z[3] /\ body[12] = z[4]
  <2>1. body[8 + 1] = z[1] /\ body[8 + 2] = z[2] /\ body[8 + 3] = z[3] /\ body[8 + 4] = z[4]
    BY <1>6
  <2> QED  BY <2>1
<1>15. body[5] = y[1] /\ body[6] = y[2] /\ body[7] = y[3] /\ body[8] = y[4]
  <2>1. xy[4 + 1] = y[1] /\ xy[4 + 2] = y[2] /\ xy[4 + 3] = y[3] /\ xy[4 + 4] = y[4]
    BY <1>5
  <2> QED  BY <1>6, <2>1
<1>16. body[1] = x[1] /\ body[2] = x[2] /\ body[3] = x[3] /\ body[4] = x[4]
  BY <1>5, <1>6
<1> QED  BY <1>2, <1>3, <1>7, <1>8, <1>10, <1>11, <1>13, <1>14, <1>15, <1>16

-----------------------------------------------------------------------------
(***************************************************************************)
(* The inductive invariant.                                                *)
(***************************************************************************)
\* What TypeOK says of the frame; what it says of packet and readings follows
\* from DecodeInv.
FrameTypes ==
    /\ sent \in Frames
    /\ line \in Seq(Byte)
    /\ damage \in {"none", "byte", "cut"} /\ done \in BOOLEAN

\* Where the bytes on the line come from.
LineInv ==
    /\ damage = "none" => line = sent.bytes
    /\ damage = "byte" => \E i \in DOMAIN sent.bytes, d \in Damages :
                             line = [sent.bytes EXCEPT ![i] = (@ + d) % 256]
    /\ damage = "cut"  => \E n \in 1..(Len(sent.bytes) - 1) : line = SubSeq(sent.bytes, 1, n)

\* What becomes of them at the other end.
DecodeInv ==
    /\ ~done => packet = {} /\ readings = Nothing
    /\ done  => /\ packet = Deserialize(line)
                /\ readings = [motor   |-> readings.motor, encoder |-> readings.encoder,
                               imu     |-> readings.imu]
                /\ readings.motor \in AnyOf(UNION {parse_motor_status(p) : p \in packet})
                /\ readings.encoder = UNION {parse_encoder_data(p) : p \in packet}
                /\ readings.imu = UNION {parse_imu_data(p) : p \in packet}

IInv == FrameTypes /\ LineInv /\ DecodeInv

\* A frame of n + 7 bytes, and what tells its kind from the others.
Described(f, n) ==
    /\ f.bytes \in Bytes(n + 7)
    /\ f.kind # "imu" => Sound(f.bytes, n)
    /\ \/ f.kind = "request" /\ n <= 12
       \/ f.kind = "motor" /\ n = 20 /\ f.bytes[2] = 22
       \/ f.kind = "short" /\ n = 18
       \/ f.kind = "documented" /\ n = 18 /\ f.bytes[4] = \hAA
       \/ /\ f.kind = "encoder" /\ n = 32
          /\ f.bytes[1] = PACKET_HEADER /\ f.bytes[2] = \h25 /\ f.bytes[3] = 1 /\ f.bytes[4] = 2
       \/ f.kind = "imu" /\ n = 12

\* The frame, with the packet or the measurement it stands for.
LEMMA FrameCases ==
    ASSUME NEW f \in Frames
    PROVE  \/ f.kind = "request" /\ f.meaning \in Requests /\ f.bytes = Serialize(f.meaning)
           \/ f.kind = "motor" /\ f.meaning \in MotorMeanings /\ f.bytes = MotorReply(f.meaning)
           \/ f.kind = "short" /\ f.meaning \in MotorMeanings
              /\ f.bytes = ShortMotorReply(f.meaning)
           \/ f.kind = "documented" /\ f.meaning \in MotorMeanings
              /\ f.bytes = DocumentedMotorReply(f.meaning)
           \/ f.kind = "encoder" /\ f.meaning \in EncoderMeanings
              /\ f.bytes = EncoderReply(f.meaning)
           \/ f.kind = "imu" /\ f.meaning \in ImuMeanings /\ f.bytes = ImuReply(f.meaning)
<1> HIDE DEF Requests, MotorMeanings, EncoderMeanings, ImuMeanings
<1>1. CASE \E p \in Requests : f = Frame("request", Serialize(p), p)
  BY <1>1 DEF Frame
<1>2. CASE \E m \in MotorMeanings : f = Frame("motor", MotorReply(m), m)
  BY <1>2 DEF Frame
<1>3. CASE \E m \in MotorMeanings : f = Frame("short", ShortMotorReply(m), m)
  BY <1>3 DEF Frame
<1>4. CASE \E m \in MotorMeanings : f = Frame("documented", DocumentedMotorReply(m), m)
  BY <1>4 DEF Frame
<1>5. CASE \E v \in EncoderMeanings : f = Frame("encoder", EncoderReply(v), v)
  BY <1>5 DEF Frame
<1>6. CASE \E o \in ImuMeanings : f = Frame("imu", ImuReply(o), o)
  BY <1>6 DEF Frame
<1> QED  BY <1>1, <1>2, <1>3, <1>4, <1>5, <1>6 DEF Frames

\* The motor's reply, in full ...
LEMMA MotorReplyShape ==
    ASSUME NEW m \in Statuses
    PROVE  LET p == Encoded(TARGET_MOTOR, \h20, MotorInner(m, MotorData(m)))
           IN  /\ MotorReply(m) = Serialize(p) /\ Whole(p, 20) /\ p.target = TARGET_MOTOR
               /\ p.body = MotorInner(m, MotorData(m))
<1>1. MotorData(m) \in Bytes(12) /\ 12 \in 0..100
  BY MotorDataShape
<1> DEFINE d == MotorData(m)
           p == Encoded(TARGET_MOTOR, \h20, MotorInner(m, d))
<1>2. MotorReply(m) = Serialize(p)
  BY Zenon DEF MotorReply
<1> HIDE DEF d
<1>3. Whole(p, 12 + 8) /\ p.target = TARGET_MOTOR /\ p.body = MotorInner(m, d)
  BY <1>1, StatusReplyShape DEF d
<1> QED  BY <1>2, <1>3 DEF d

\* ... and with ten bytes of data.
LEMMA ShortMotorReplyShape ==
    ASSUME NEW m \in Statuses
    PROVE  LET p == Encoded(TARGET_MOTOR, \h20, MotorInner(m, Part(MotorData(m), 1, 10)))
           IN  /\ ShortMotorReply(m) = Serialize(p) /\ Whole(p, 18) /\ p.target = TARGET_MOTOR
               /\ p.body = MotorInner(m, Part(MotorData(m), 1, 10))
<1> DEFINE d == Part(MotorData(m), 1, 10)
           p == Encoded(TARGET_MOTOR, \h20, MotorInner(m, d))
<1>1. d \in Bytes(10) /\ 10 \in 0..100
  BY MotorDataShape, Prefix
<1>2. ShortMotorReply(m) = Serialize(p)
  BY Zenon DEF ShortMotorReply, Part
<1> HIDE DEF d
<1>3. Whole(p, 10 + 8) /\ p.target = TARGET_MOTOR /\ p.body = MotorInner(m, d)
  BY <1>1, StatusReplyShape
<1> QED  BY <1>2, <1>3 DEF d

\* What the sensors measure.
LEMMA EncoderMeaningsType == EncoderMeanings \subseteq [1..16 -> Word]
<1>1. SUFFICES ASSUME NEW a \in Samples, NEW b \in Samples
               PROVE  [i \in 1..16 |-> IF i % 2 = 0 THEN a ELSE b] \in [1..16 -> Word]
  BY DEF EncoderMeanings
<1>2. a \in Word /\ b \in Word
  BY SmallWords
<1> QED  BY <1>2

\* The angles of an IMU.
LEMMA ImuMeaningsShape ==
    ASSUME NEW o \in ImuMeanings
    PROVE  \E a \in Word, b \in Word :
               o = [roll |-> <<a, b>>, pitch |-> <<b, b>>, yaw |-> <<b, a>>]
<1>1. PICK a \in Samples, b \in Samples :
          o = [roll |-> <<a, b>>, pitch |-> <<b, b>>, yaw |-> <<b, a>>]
  BY DEF ImuMeanings
<1>2. a \in Word /\ b \in Word
  BY SmallWords
<1> QED  BY <1>1, <1>2

\* Every frame fits its description.
LEMMA FramesDescribed ==
    ASSUME NEW f \in Frames
    PROVE  \E n \in Nat : Described(f, n)
<1> HIDE DEF Requests, MotorMeanings, EncoderMeanings, ImuMeanings
<1>1. CASE f.kind = "request" /\ f.meaning \in Requests /\ f.bytes = Serialize(f.meaning)
  <2>1. PICK n \in 0..12 : Whole(f.meaning, n)
    BY <1>1, RequestShape
  <2>2. Sound(f.bytes, n)
    BY <1>1, <2>1, WholeSound
  <2> QED  BY <1>1, <2>2 DEF Described, Sound
<1>2. CASE f.kind = "motor" /\ f.meaning \in MotorMeanings /\ f.bytes = MotorReply(f.meaning)
  <2>1. f.meaning \in Statuses
    BY <1>2, MotorMeaningsType
  <2>2. PICK p : f.bytes = Serialize(p) /\ Whole(p, 20)
    BY <1>2, <2>1, MotorReplyShape
  <2>3. Sound(f.bytes, 20) /\ f.bytes[2] = 20 + 2
    BY <2>2, WholeSound
  <2> QED  BY <1>2, <2>3 DEF Described, Sound
<1>3. CASE f.kind = "short" /\ f.meaning \in MotorMeanings
           /\ f.bytes = ShortMotorReply(f.meaning)
  <2>1. f.meaning \in Statuses
    BY <1>3, MotorMeaningsType
  <2>2. PICK p : f.bytes = Serialize(p) /\ Whole(p, 18)
    BY <1>3, <2>1, ShortMotorReplyShape
  <2>3. Sound(f.bytes, 18)
    BY <2>2, WholeSound
  <2> QED  BY <1>3, <2>3 DEF Described, Sound
<1>4. CASE f.kind = "documented" /\ f.meaning \in MotorMeanings
           /\ f.bytes = DocumentedMotorReply(f.meaning)
  <2>1. f.meaning \in Statuses
    BY <1>4, MotorMeaningsType
  <2>2. Sound(f.bytes, 18) /\ f.bytes[4] = \hAA
    BY <1>4, <2>1, DocumentedReplyShape
  <2> QED  BY <1>4, <2>2 DEF Described, Sound
<1>5. CASE f.kind = "encoder" /\ f.meaning \in EncoderMeanings
           /\ f.bytes = EncoderReply(f.meaning)
  <2>1. f.meaning \in [1..16 -> Word]
    BY <1>5, EncoderMeaningsType
  <2>2. /\ Sound(f.bytes, 32) /\ f.bytes[1] = PACKET_HEADER /\ f.bytes[2] = \h25
        /\ f.bytes[3] = 1 /\ f.bytes[4] = 2
    BY <1>5, <2>1, EncoderReplyShape
  <2> QED  BY <1>5, <2>2 DEF Described, Sound
<1>6. CASE f.kind = "imu" /\ f.meaning \in ImuMeanings /\ f.bytes = ImuReply(f.meaning)
  <2>1. PICK a \in Word, b \in Word :
            f.meaning = [roll |-> <<a, b>>, pitch |-> <<b, b>>, yaw |-> <<b, a>>]
    BY <1>6, ImuMeaningsShape
  <2> DEFINE o == f.meaning
  <2>2. o.roll = <<a, b>> /\ o.pitch = <<b, b>> /\ o.yaw = <<b, a>>
    BY <2>1
  <2> HIDE DEF o
  <2>3. ImuReply(o) \in Bytes(19)
    BY <2>2, ImuReplyShape
  <2>4. f.bytes \in Bytes(12 + 7)
    BY <1>6, <2>3 DEF o
  <2> QED  BY <1>6, <2>4 DEF Described
<1> QED  BY <1>1, <1>2, <1>3, <1>4, <1>5, <1>6, FrameCases

\* The bytes of a frame of n + 7 bytes once they have arrived.
LEMMA Arrived ==
    ASSUME IInv, NEW n \in Nat, sent.bytes \in Bytes(n + 7)
    PROVE  \/ damage = "none" /\ line = sent.bytes
           \/ /\ damage = "byte" /\ line \in Bytes(n + 7)
              /\ \E j \in 1..(n + 7), d \in 1..255 :
                     /\ line[j] = Added(sent.bytes[j], d)
                     /\ \A i \in 1..(n + 7) : i # j => line[i] = sent.bytes[i]
           \/ /\ damage = "cut"
              /\ \E k \in 1..(n + 6) : line \in Bytes(k) /\ \A i \in 1..k : line[i] = sent.bytes[i]
<1> DEFINE b == sent.bytes
<1>1. Len(b) = n + 7 /\ DOMAIN b = 1..(n + 7) /\ n + 7 \in Nat
  BY BytesAre DEF Bytes
<1>2. CASE damage = "byte"
  <2>1. PICK j \in DOMAIN b, d \in Damages : line = [b EXCEPT ![j] = (@ + d) % 256]
    BY <1>2 DEF IInv, LineInv
  <2>2. j \in 1..(n + 7) /\ d \in 1..255
    BY <1>1, <2>1, SmallWords
  <2>3. b[j] \in Byte
    BY <1>1, <2>2, BytesAre
  <2>4. Added(b[j], d) \in Byte
    BY <2>2, <2>3, SMTT(60) DEF Added, Byte
  <2>5. line = [b EXCEPT ![j] = Added(b[j], d)]
    BY <2>1 DEF Added
  <2> HIDE DEF b
  <2>6. b \in Bytes(n + 7)
    BY DEF b
  <2>7. /\ line \in Bytes(n + 7) /\ line[j] = Added(b[j], d)
        /\ \A i \in 1..(n + 7) : i # j => line[i] = b[i]
    BY <2>2, <2>4, <2>5, <2>6 DEF Bytes
  <2> QED  BY <1>2, <2>2, <2>7 DEF b
<1>3. CASE damage = "cut"
  <2>1. PICK k \in 1..(Len(b) - 1) : line = SubSeq(b, 1, k)
    BY <1>3 DEF IInv, LineInv
  <2>2. k \in 0..(n + 7) /\ k \in 1..(n + 6)
    BY <1>1, <2>1
  <2>3. line = Part(b, 1, k)
    BY <2>1, Zenon DEF Part
  <2>4. line \in Bytes(k) /\ \A i \in 1..k : line[i] = b[i]
    BY <1>1, <2>2, <2>3, Prefix
  <2> QED  BY <1>3, <2>2, <2>4
<1>4. CASE damage = "none"
  BY <1>4 DEF IInv, LineInv
<1> QED  BY <1>2, <1>3, <1>4 DEF IInv, FrameTypes

\* What is known of a packet that was accepted.
LEMMA Decoded ==
    ASSUME NEW m \in Nat, NEW t \in Bytes(m), NEW p \in Deserialize(t)
    PROVE  /\ m >= 7 /\ p.body \in Bytes(m - 7) /\ Len(p.body) = m - 7
           /\ p.target = t[4] /\ p.module_id = t[3]
           /\ \A i \in 1..(m - 7) : p.body[i] = t[5 + i]
           /\ \/ t[2] = \h11 /\ t[4] = 2
              \/ t[2] = \h25 /\ t[4] = 2
              \/ t[2] + 5 = m
<1>1. m >= 7
  BY TooShort
<1>2. PICK n \in Nat : m = n + 7
  <2>1. m - 7 \in Nat /\ m = (m - 7) + 7
    BY <1>1
  <2> QED  BY <2>1
<1>3. t \in Bytes(n + 7)
  BY <1>2
<1>4. /\ Laid(t, p, n)
      /\ SubSeq(t, 1, 4) = ImuMark \/ SubSeq(t, 1, 4) = EncoderMark \/ t[2] + 5 = n + 7
  BY <1>3, Accepted
<1>5. m - 7 = n /\ m >= 4
  BY <1>2
<1>6. /\ SubSeq(t, 1, 4) = ImuMark => t[2] = \h11 /\ t[4] = 2
      /\ SubSeq(t, 1, 4) = EncoderMark => t[2] = \h25 /\ t[4] = 2
  BY <1>5, Marked
<1>7. Len(p.body) = n
  BY <1>4, BytesAre DEF Laid
<1> QED  BY <1>1, <1>2, <1>4, <1>5, <1>6, <1>7 DEF Laid

\* No damaged byte gets through, but where the frame becomes an IMU's.
LEMMA DamageCaught ==
    ASSUME IInv, damage = "byte", sent.kind # "imu", Deserialize(line) # {}
    PROVE  SubSeq(line, 1, 4) = ImuMark
<1>1. sent \in Frames
  BY DEF IInv, FrameTypes
<1>2. PICK n \in Nat : Described(sent, n)
  BY <1>1, FramesDescribed
<1>3. /\ sent.bytes \in Bytes(n + 7) /\ Checksum(sent.bytes) = sent.bytes[n + 6]
      /\ sent.bytes[n + 7] = PACKET_TAIL
  BY <1>2 DEF Described, Sound
<1>4. /\ line \in Bytes(n + 7)
      /\ \E j \in 1..(n + 7), d \in 1..255 :
             /\ line[j] = Added(sent.bytes[j], d)
             /\ \A i \in 1..(n + 7) : i # j => line[i] = sent.bytes[i]
  BY <1>3, Arrived
<1>5. PICK j \in 1..(n + 7), d \in 1..255 :
             /\ line[j] = Added(sent.bytes[j], d)
             /\ \A i \in 1..(n + 7) : i # j => line[i] = sent.bytes[i]
  BY <1>4
<1> DEFINE b == sent.bytes
<1> HIDE DEF b
<1> QED  BY <1>3, <1>4, <1>5, DamageShows

\* A motor reading is made of an undamaged frame of a motor.
LEMMA MotorReadingFrom ==
    ASSUME IInv, NEW p \in Deserialize(line), parse_motor_status(p) # {}
    PROVE  damage = "none" /\ sent.kind \in {"motor", "short"}
<1>1. p.target = 1 /\ Len(p.body) >= 18
  BY DEF parse_motor_status, TARGET_MOTOR
<1>2. sent \in Frames
  BY DEF IInv, FrameTypes
<1>3. PICK n \in Nat : Described(sent, n)
  BY <1>2, FramesDescribed
<1>4. sent.bytes \in Bytes(n + 7)
  BY <1>3 DEF Described
<1> DEFINE b == sent.bytes
<1>5. ASSUME NEW m \in Nat, line \in Bytes(m)
      PROVE  m >= 25 /\ line[4] = 1 /\ line[2] + 5 = m
  <2>1. /\ m >= 7 /\ Len(p.body) = m - 7 /\ p.target = line[4]
        /\ \/ line[2] = \h11 /\ line[4] = 2
           \/ line[2] = \h25 /\ line[4] = 2
           \/ line[2] + 5 = m
    BY <1>5, Decoded
  <2> QED  BY <1>1, <2>1
<1>6. CASE damage = "none" /\ line = b
  <2>1. n + 7 >= 25 /\ b[4] = 1
    BY <1>4, <1>5, <1>6
  <2> QED  BY <1>3, <1>6, <2>1 DEF Described
<1>7. CASE damage = "byte" /\ line \in Bytes(n + 7)
  <2>1. n + 7 \in Nat /\ n + 7 >= 25 /\ line[4] = 1
    BY <1>5, <1>7
  <2>2. sent.kind # "imu"
    BY <1>3, <2>1 DEF Described
  <2>3. SubSeq(line, 1, 4) = ImuMark
    BY <1>7, <2>2, DamageCaught
  <2>4. PICK m \in Nat : m = n + 7
    BY <2>1
  <2>5. m >= 4 /\ line \in Bytes(m)
    BY <1>7, <2>1, <2>4
  <2>6. line[4] = 2
    BY <2>3, <2>5, Marked
  <2> QED  BY <2>1, <2>6
<1>8. CASE damage = "cut" /\ \E k \in 1..(n + 6) :
               line \in Bytes(k) /\ \A i \in 1..k : line[i] = b[i]
  <2>1. PICK k \in 1..(n + 6) : line \in Bytes(k) /\ \A i \in 1..k : line[i] = b[i]
    BY <1>8
  <2>2. k >= 25 /\ line[4] = 1 /\ line[2] + 5 = k
    BY <1>5, <2>1
  <2>3. b[4] = 1 /\ b[2] + 5 = k
    BY <2>1, <2>2
  <2> QED  BY <1>3, <2>2, <2>3 DEF Described
<1> QED  BY <1>4, <1>6, <1>7, <1>8, Arrived

\* An encoder reading is made of an encoder's frame that is whole, and of which
\* at most the second byte was damaged.
LEMMA EncoderReadingFrom ==
    ASSUME IInv, NEW p \in Deserialize(line), parse_encoder_data(p) # {}
    PROVE  /\ sent.kind = "encoder" /\ damage # "cut"
           /\ \A i \in 1..32 : p.body[i] = sent.bytes[5 + i]
<1>1. Len(p.body) >= 32
  BY DEF parse_encoder_data
<1>2. sent \in Frames
  BY DEF IInv, FrameTypes
<1>3. PICK n \in Nat : Described(sent, n)
  BY <1>2, FramesDescribed
<1> DEFINE b == sent.bytes
<1>4. b \in Bytes(n + 7)
  BY <1>3 DEF Described
<1>5. ASSUME NEW m \in Nat, line \in Bytes(m)
      PROVE  m >= 39 /\ \A i \in 1..32 : p.body[i] = line[5 + i]
  <2>1. m >= 7 /\ Len(p.body) = m - 7 /\ \A i \in 1..(m - 7) : p.body[i] = line[5 + i]
    BY <1>5, Decoded
  <2>2. m - 7 >= 32
    BY <1>1, <2>1
  <2>3. m >= 39 /\ \A i \in 1..32 : i \in 1..(m - 7)
    BY <2>2
  <2> QED  BY <2>1, <2>3
<1>6. /\ n + 7 >= 39 => sent.kind = "encoder" /\ n = 32 /\ b[2] = \h25
      /\ n + 7 <= 39
  BY <1>3 DEF Described
<1>7. CASE damage = "none" /\ line = b
  <2>1. n + 7 \in Nat /\ line \in Bytes(n + 7)
    BY <1>4, <1>7
  <2>2. n + 7 >= 39 /\ \A i \in 1..32 : p.body[i] = line[5 + i]
    BY <1>5, <2>1
  <2> QED  BY <1>6, <1>7, <2>2
<1>8. CASE /\ damage = "byte" /\ line \in Bytes(n + 7)
           /\ \E j \in 1..(n + 7), d \in 1..255 :
                  /\ line[j] = Added(b[j], d)
                  /\ \A i \in 1..(n + 7) : i # j => line[i] = b[i]
  <2>1. PICK j \in 1..(n + 7) : \A i \in 1..(n + 7) : i # j => line[i] = b[i]
    BY <1>8
  <2>2. n + 7 \in Nat /\ n + 7 >= 39 /\ \A i \in 1..32 : p.body[i] = line[5 + i]
    BY <1>5, <1>8
  <2>3. sent.kind = "encoder" /\ n = 32 /\ b[2] = \h25
    BY <1>6, <2>2
  <2>4. SubSeq(line, 1, 4) = ImuMark
    BY <1>8, <2>3, DamageCaught
  <2>5. PICK m \in Nat : m = n + 7
    BY <2>2
  <2>6. m >= 4 /\ line \in Bytes(m)
    BY <1>8, <2>2, <2>5
  <2>7. line[2] = \h11
    BY <2>4, <2>6, Marked
  <2>8. j = 2
    BY <2>1, <2>3, <2>7
  <2>9. \A i \in 1..32 : line[5 + i] = b[5 + i]
    BY <2>1, <2>3, <2>8
  <2> QED  BY <1>8, <2>2, <2>3, <2>9
<1>9. CASE damage = "cut" /\ \E k \in 1..(n + 6) :
               line \in Bytes(k) /\ \A i \in 1..k : line[i] = b[i]
  <2>1. PICK k \in 1..(n + 6) : line \in Bytes(k)
    BY <1>9
  <2>2. k >= 39
    BY <1>5, <2>1
  <2> QED  BY <1>6, <2>1, <2>2
<1> QED  BY <1>4, <1>7, <1>8, <1>9, Arrived

\* An IMU's frame that was cut short gives no IMU reading.
LEMMA ImuReadingWhole ==
    ASSUME IInv, sent.kind = "imu", damage = "cut", NEW p \in Deserialize(line)
    PROVE  parse_imu_data(p) = {}
<1>1. sent \in Frames
  BY DEF IInv, FrameTypes
<1>2. PICK n \in Nat : Described(sent, n)
  BY <1>1, FramesDescribed
<1>3. sent.bytes \in Bytes(n + 7) /\ n = 12
  BY <1>2 DEF Described
<1>4. PICK k \in 1..(n + 6) : line \in Bytes(k)
  BY <1>3, Arrived
<1>5. k >= 7 /\ Len(p.body) = k - 7
  BY <1>4, Decoded
<1>6. ~(Len(p.body) >= 12)
  BY <1>3, <1>4, <1>5
<1> QED  BY <1>6 DEF parse_imu_data

\* Where the readings come from.
LEMMA ReadingsFrom ==
    ASSUME IInv
    PROVE  /\ \A r \in readings.motor :
                  done /\ \E p \in Deserialize(line) : r \in parse_motor_status(p)
           /\ \A r \in readings.encoder :
                  done /\ \E p \in Deserialize(line) : r \in parse_encoder_data(p)
           /\ \A r \in readings.imu :
                  done /\ \E p \in Deserialize(line) : r \in parse_imu_data(p)
           /\ packet # {} => done /\ Deserialize(line) # {}
<1>0. done \in BOOLEAN
  BY DEF IInv, FrameTypes
<1>1. CASE ~done
  <2>1. readings = Nothing /\ packet = {}
    BY <1>1 DEF IInv, DecodeInv
  <2>2. readings.motor = {} /\ readings.encoder = {} /\ readings.imu = {}
    BY <2>1 DEF Nothing
  <2> QED  BY <2>1, <2>2
<1>2. CASE done
  <2> DEFINE X == UNION {parse_motor_status(p) : p \in packet}
  <2>1. /\ packet = Deserialize(line)
        /\ readings.motor \in AnyOf(X)
        /\ readings.encoder = UNION {parse_encoder_data(p) : p \in packet}
        /\ readings.imu = UNION {parse_imu_data(p) : p \in packet}
    BY <1>2 DEF IInv, DecodeInv
  <2>2. \A r \in readings.motor : r \in X
    <3> HIDE DEF X
    <3> QED  BY <2>1 DEF AnyOf
  <2>3. \A r \in readings.motor : \E p \in packet : r \in parse_motor_status(p)
    BY <2>2, Zenon
  <2>4. \A r \in readings.encoder : \E p \in packet : r \in parse_encoder_data(p)
    BY <2>1, Zenon
  <2>5. \A r \in readings.imu : \E p \in packet : r \in parse_imu_data(p)
    BY <2>1, Zenon
  <2> QED  BY <1>2, <2>1, <2>3, <2>4, <2>5, Zenon
<1> QED  BY <1>0, <1>1, <1>2

-----------------------------------------------------------------------------
(***************************************************************************)
(* What follows from the invariant.                                        *)
(***************************************************************************)
\* A number between the ends of an interval is in it.
LEMMA InInterval ==
    ASSUME NEW a \in Int, NEW b \in Int, NEW w \in Int, a <= w, w <= b
    PROVE  w \in a..b
  BY SMT

\* Two bytes in either order are a word.
LEMMA PairIsWord ==
    /\ \A x, y \in Byte : x + (256 * y) \in Word
    /\ \A x, y \in Byte : (256 * x) + y \in Word
<1> DEFINE Top == 65535
<1>1. Word = 0..Top
  BY DEF Word, Top
<1>2. Top \in Int /\ Top = 255 + (256 * 255)
  BY SMT
<1> HIDE DEF Top
<1>3. \A b \in Byte : b \in Int /\ 0 <= b /\ b <= 255
  BY SMT DEF Byte
<1>4. ASSUME NEW x \in Byte, NEW y \in Byte PROVE x + (256 * y) \in 0..Top
  <2> HIDE DEF Byte
  <2> DEFINE w == x + (256 * y)
  <2>1. w \in Int /\ 0 <= w /\ w <= Top /\ 0 \in Int
    BY <1>2, <1>3, SMT
  <2> HIDE DEF w
  <2>2. w \in 0..Top
    BY <1>2, <2>1, InInterval, Zenon
  <2> QED  BY <2>2 DEF w
<1>5. \A x, y \in Byte : x + (256 * y) \in Word
  BY <1>1, <1>4, Zenon
<1>6. \A x, y \in Byte : (256 * x) + y \in Word
  <2> SUFFICES ASSUME NEW x \in Byte, NEW y \in Byte
               PROVE  (256 * x) + y \in Word
    OBVIOUS
  <2> HIDE DEF Byte, Word
  <2>1. (256 * x) + y = y + (256 * x)
    BY <1>3, SMT
  <2> QED  BY <1>5, <2>1, Zenon
<1> QED  BY <1>5, <1>6, Zenon

\* So they are where the parsers read them.
LEMMA ReadsWord ==
    ASSUME NEW n \in Nat, NEW b \in Bytes(n), NEW i \in Nat, i >= 1, i + 1 <= n
    PROVE  read_uint16_le(b, i) \in Word /\ read_uint16_be(b, i) \in Word
<1>1. b[i] \in Byte /\ b[i + 1] \in Byte
  BY DEF Bytes
<1> HIDE DEF Byte, Word
<1> QED  BY <1>1, PairIsWord, Zenon DEF read_uint16_le, read_uint16_be

\* What the parsers make of a packet has the types of their results.
LEMMA ParsedTypes ==
    ASSUME NEW p \in Packets
    PROVE  /\ parse_motor_status(p) \subseteq Statuses
           /\ parse_encoder_data(p) \subseteq Channels
           /\ parse_imu_data(p) \subseteq Angles
<1> DEFINE b == p.body
<1>1. PICK n \in Nat : n = Len(b) /\ b \in Bytes(n)
  BY BodyBytes
<1> HIDE DEF b
<1>2. ASSUME NEW i \in Nat, i >= 1, i + 1 <= n
      PROVE  read_uint16_le(b, i) \in Word /\ read_uint16_be(b, i) \in Word
  BY <1>1, <1>2, ReadsWord
<1>3. ASSUME NEW r \in parse_motor_status(p) PROVE r \in Statuses
  <2>1. n >= 18
    BY <1>1, <1>3 DEF parse_motor_status, b
  <2>2. PICK fault \in ByteAt(b, 19) :
          r = [motor_id        |-> b[4],
               target_position |-> read_uint16_le(b, 8),
               actual_position |-> read_uint16_le(b, 10),
               actual_current  |-> read_uint16_le(b, 12),
               force_value     |-> read_uint16_le(b, 14),
               force_raw       |-> read_uint16_le(b, 16),
               temperature     |-> b[18],
               fault_code      |-> fault]
    BY <1>3, Zenon DEF parse_motor_status, b
  <2>3. fault \in Byte
    <3>1. CASE 19 <= Len(b)
      BY <1>1, <2>2, <3>1 DEF ByteAt, Bytes
    <3>2. CASE ~(19 <= Len(b))
      BY <2>2, <3>2 DEF ByteAt
    <3> QED  BY <3>1, <3>2
  <2>4. b[4] \in Byte /\ b[18] \in Byte
    BY <1>1, <2>1 DEF Bytes
  <2>5. /\ read_uint16_le(b, 8) \in Word /\ read_uint16_le(b, 10) \in Word
        /\ read_uint16_le(b, 12) \in Word /\ read_uint16_le(b, 14) \in Word
        /\ read_uint16_le(b, 16) \in Word
    BY <1>2, <2>1
  <2> QED  BY <2>2, <2>3, <2>4, <2>5 DEF Statuses
<1>4. ASSUME NEW r \in parse_encoder_data(p) PROVE r \in Channels
  <2>1. n >= 32 /\ r = [i \in 1..16 |-> read_uint16_be(b, 2 * i - 1)]
    BY <1>1, <1>4 DEF parse_encoder_data, NUM_ENCODER_CHANNELS, b
  <2>2. ASSUME NEW i \in 1..16 PROVE read_uint16_be(b, 2 * i - 1) \in Word
    <3>1. 2 * i - 1 \in Nat /\ 2 * i - 1 >= 1 /\ (2 * i - 1) + 1 <= n
      BY <2>1
    <3> QED  BY <1>2, <3>1
  <2> QED  BY <2>1, <2>2 DEF Channels, NUM_ENCODER_CHANNELS
<1>5. ASSUME NEW r \in parse_imu_data(p) PROVE r \in Angles
  <2>1. /\ n >= 12
        /\ r = [roll |-> read_float_be(b, 1), pitch |-> read_float_be(b, 5),
                yaw |-> read_float_be(b, 9)]
    BY <1>1, <1>5 DEF parse_imu_data, b
  <2>2. ASSUME NEW i \in Nat, i >= 1, i + 3 <= n PROVE read_float_be(b, i) \in Word \X Word
    <3>1. i + 2 \in Nat /\ i + 2 >= 1 /\ (i + 2) + 1 <= n /\ i + 1 <= n
      BY <2>2
    <3>2. read_uint16_be(b, i) \in Word /\ read_uint16_be(b, i + 2) \in Word
      BY <1>2, <2>2, <3>1
    <3> QED  BY <3>2, Zenon DEF read_float_be
  <2>3. /\ read_float_be(b, 1) \in Word \X Word /\ read_float_be(b, 5) \in Word \X Word
        /\ read_float_be(b, 9) \in Word \X Word
    BY <2>1, <2>2
  <2> QED  BY <2>1, <2>3 DEF Angles
<1> QED  BY <1>3, <1>4, <1>5

\* Every variable has its type.
LEMMA TypesInv == IInv => TypeOK
<1>1. SUFFICES ASSUME IInv PROVE TypeOK
  OBVIOUS
<1>2. ASSUME NEW p \in Deserialize(line) PROVE p \in Packets
  <2>1. PICK m \in Nat : line \in Bytes(m)
    BY <1>1, AreBytes DEF IInv, FrameTypes
  <2>2. m >= 7
    BY <1>2, <2>1, TooShort
  <2>3. PICK n \in Nat : m = n + 7
    <3>1. m - 7 \in Nat /\ m = (m - 7) + 7
      BY <2>2
    <3> QED  BY <3>1
  <2> QED  BY <1>2, <2>1, <2>3, Accepted
<1>3. packet \subseteq Packets
  <2>1. done \in BOOLEAN /\ (done => packet = Deserialize(line)) /\ (~done => packet = {})
    BY <1>1 DEF IInv, FrameTypes, DecodeInv
  <2> QED  BY <1>2, <2>1
<1>4. /\ readings.motor \subseteq Statuses /\ readings.encoder \subseteq Channels
      /\ readings.imu \subseteq Angles
  <2>1. ASSUME NEW r \in readings.motor PROVE r \in Statuses
    BY <1>1, <1>2, <2>1, ReadingsFrom, ParsedTypes, Zenon
  <2>2. ASSUME NEW r \in readings.encoder PROVE r \in Channels
    BY <1>1, <1>2, <2>2, ReadingsFrom, ParsedTypes, Zenon
  <2>3. ASSUME NEW r \in readings.imu PROVE r \in Angles
    BY <1>1, <1>2, <2>3, ReadingsFrom, ParsedTypes, Zenon
  <2> QED  BY <2>1, <2>2, <2>3
<1>5. readings = [motor |-> readings.motor, encoder |-> readings.encoder, imu |-> readings.imu]
  <2>1. CASE done
    BY <1>1, <2>1, Zenon DEF IInv, DecodeInv
  <2>2. CASE ~done
    <3>1. readings = Nothing
      BY <1>1, <2>2, Zenon DEF IInv, DecodeInv
    <3> QED  BY <3>1 DEF Nothing
  <2> QED  BY <1>1, <2>1, <2>2 DEF IInv, FrameTypes
<1>6. readings \in [motor : SUBSET Statuses, encoder : SUBSET Channels, imu : SUBSET Angles]
  BY <1>4, <1>5
<1> QED  BY <1>1, <1>3, <1>6 DEF TypeOK, IInv, FrameTypes

\* Readings come from frames of their kind.
LEMMA CrossTalkInv == IInv => NoCrossTalk
<1>1. SUFFICES ASSUME IInv PROVE NoCrossTalk
  OBVIOUS
<1>2. ASSUME NEW r \in readings.motor PROVE sent.kind \in {"motor", "short"}
  <2>1. PICK p \in Deserialize(line) : r \in parse_motor_status(p)
    BY <1>1, <1>2, ReadingsFrom
  <2> QED  BY <1>1, <2>1, MotorReadingFrom
<1>3. ASSUME NEW r \in readings.encoder PROVE sent.kind = "encoder"
  <2>1. PICK p \in Deserialize(line) : r \in parse_encoder_data(p)
    BY <1>1, <1>3, ReadingsFrom
  <2> QED  BY <1>1, <2>1, EncoderReadingFrom
<1> QED  BY <1>2, <1>3 DEF NoCrossTalk

\* Damage shows: in the checksums, in the length or in the size of the body.
LEMMA DamageInv == IInv => DamageDetected
<1>1. SUFFICES ASSUME IInv PROVE DamageDetected
  OBVIOUS
<1>2. ASSUME damage = "byte", sent.kind # "imu", packet # {}
      PROVE  SubSeq(line, 1, 4) = ImuMark
  <2>1. Deserialize(line) # {}
    BY <1>1, <1>2, ReadingsFrom
  <2> QED  BY <1>1, <1>2, <2>1, DamageCaught
<1>3. ASSUME damage = "cut", NEW r \in readings.motor PROVE FALSE
  <2>1. PICK p \in Deserialize(line) : r \in parse_motor_status(p)
    BY <1>1, <1>3, ReadingsFrom
  <2>2. damage = "none"
    BY <1>1, <2>1, MotorReadingFrom
  <2> QED  BY <1>3, <2>2
<1>4. ASSUME damage = "cut", sent.kind = "imu", NEW r \in readings.imu PROVE FALSE
  <2>1. PICK p \in Deserialize(line) : r \in parse_imu_data(p)
    BY <1>1, <1>4, ReadingsFrom
  <2> QED  BY <1>1, <1>4, <2>1, ImuReadingWhole
<1>5. damage = "cut" => readings.motor = {} /\ readings.encoder = {}
  <2>1. ASSUME damage = "cut", NEW r \in readings.encoder PROVE FALSE
    <3>1. PICK p \in Deserialize(line) : r \in parse_encoder_data(p)
      BY <1>1, <2>1, ReadingsFrom
    <3>2. damage # "cut"
      BY <1>1, <3>1, EncoderReadingFrom
    <3> QED  BY <2>1, <3>2
  <2> QED  BY <1>3, <2>1
<1>6. damage = "cut" /\ sent.kind = "imu" => readings.imu = {}
  BY <1>4
<1> QED  BY <1>2, <1>5, <1>6 DEF DamageDetected

\* The body of the commands: a head of five bytes, and one word ...
LEMMA OneWordFinds ==
    ASSUME NEW command \in Byte, NEW id \in Byte, NEW address \in Byte, NEW v \in Word,
           NEW p, p = MotorRequest(command, <<5, id, \h32, address, 0>> \o uint16_le(v))
    PROVE  Finds(p, command, id, address, <<v>>)
<1> DEFINE h == <<5, id, \h32, address, 0>>
           inner == Cat(h, uint16_le(v))
           b == p.body
<1>1. h \in Bytes(5) /\ 5 \in Nat /\ 7 \in 0..9 /\ h[2] = id /\ h[4] = address /\ h[5] = 0
  BY DEF Bytes, Byte
<1>2. p = MotorRequest(command, inner)
  BY Zenon DEF Cat
<1> HIDE DEF h
<1>3. /\ inner \in Bytes(5 + 2) /\ \A i \in 1..5 : inner[i] = h[i]
      /\ inner[5 + 1] = Low(v) /\ inner[5 + 2] = High(v)
  BY <1>1, EndsInWord
<1> HIDE DEF inner
<1>4. inner \in Bytes(7)
  BY <1>3
<1>5. p.command = command /\ \A i \in 1..7 : b[2 + i] = inner[i]
  BY <1>1, <1>2, <1>4, MotorRequestShape
<1> HIDE DEF b
<1>6. b[4] = id /\ b[6] = address /\ b[7] = 0 /\ b[8] = Low(v) /\ b[9] = High(v)
  BY <1>1, <1>3, <1>5
<1>7. b[6] + 256 * b[6 + 1] = address /\ b[8] + 256 * b[8 + 1] = v
  <2>1. b[6] + 256 * b[6 + 1] = address
    BY <1>6 DEF Byte
  <2>2. b[8] + 256 * b[8 + 1] = v
    BY <1>6, WordBytes
  <2> QED  BY <2>1, <2>2
<1>8. DOMAIN <<v>> = {1} /\ <<v>>[1] = v
  OBVIOUS
<1> QED  BY <1>5, <1>6, <1>7, <1>8 DEF Finds, b

\* ... or two.
LEMMA TwoWordsFound ==
    ASSUME NEW id \in Byte, NEW v \in Word, NEW w \in Word,
           NEW p, p = encode_set_motor_speed(id, v, w)
    PROVE  Finds(p, \h32, id, \h28, <<v, w>>)
<1> DEFINE h == <<7, id, \h32, \h28, 0>>
           g == Cat(h, uint16_le(v))
           inner == Cat(g, uint16_le(w))
           b == p.body
<1>1. /\ h \in Bytes(5) /\ 5 \in Nat /\ 7 \in Nat /\ 9 \in 0..9 /\ \h32 \in Byte
      /\ h[2] = id /\ h[4] = \h28 /\ h[5] = 0
  BY DEF Bytes, Byte
<1>2. p = MotorRequest(\h32, inner)
  BY Zenon DEF encode_set_motor_speed, Cat
<1> HIDE DEF h
<1>3. /\ g \in Bytes(5 + 2) /\ \A i \in 1..5 : g[i] = h[i]
      /\ g[5 + 1] = Low(v) /\ g[5 + 2] = High(v)
  BY <1>1, EndsInWord
<1> HIDE DEF g
<1>4. g \in Bytes(7)
  BY <1>3
<1>5. /\ inner \in Bytes(7 + 2) /\ \A i \in 1..7 : inner[i] = g[i]
      /\ inner[7 + 1] = Low(w) /\ inner[7 + 2] = High(w)
  BY <1>1, <1>4, EndsInWord
<1> HIDE DEF inner
<1>6. inner \in Bytes(9)
  BY <1>5
<1>7. p.command = \h32 /\ \A i \in 1..9 : b[2 + i] = inner[i]
  BY <1>1, <1>2, <1>6, MotorRequestShape
<1> HIDE DEF b
<1>8. /\ b[4] = id /\ b[6] = \h28 /\ b[7] = 0
      /\ b[8] = Low(v) /\ b[9] = High(v) /\ b[10] = Low(w) /\ b[11] = High(w)
  BY <1>1, <1>3, <1>5, <1>7
<1>9. /\ b[6] + 256 * b[6 + 1] = \h28
      /\ b[8] + 256 * b[8 + 1] = v /\ b[10] + 256 * b[10 + 1] = w
  <2>1. b[6] + 256 * b[6 + 1] = \h28
    BY <1>8
  <2>2. b[8] + 256 * b[8 + 1] = v
    BY <1>8, WordBytes
  <2>3. b[10] + 256 * b[10 + 1] = w
    BY <1>8, WordBytes
  <2> QED  BY <2>1, <2>2, <2>3
<1>10. DOMAIN <<v, w>> = {1, 2} /\ <<v, w>>[1] = v /\ <<v, w>>[2] = w
  OBVIOUS
<1> QED  BY <1>7, <1>8, <1>9, <1>10 DEF Finds, b

\* A request comes out as it went in, with what was asked for where the motor looks.
LEMMA RoundTripInv == IInv => RoundTrip
<1>1. SUFFICES ASSUME IInv, done, sent.kind = "request", damage = "none"
               PROVE  /\ packet = {sent.meaning}
                      /\ \A p, i, m : i \in MotorIds /\ m \in Modes
                             /\ p = encode_set_motor_mode(i, m) => Finds(p, \h30, i, \h25, <<m>>)
                      /\ \A p, i, v, w : i \in MotorIds /\ v \in Words /\ w \in Words
                             => /\ p = encode_set_motor_position(i, v)
                                       => Finds(p, \h31, i, \h29, <<v>>)
                                /\ p = encode_set_motor_force(i, v)
                                       => Finds(p, \h33, i, \h27, <<v>>)
                                /\ p = encode_set_motor_speed(i, v, w)
                                       => Finds(p, \h32, i, \h28, <<v, w>>)
  BY Zenon DEF RoundTrip
<1>2. packet = {sent.meaning}
  <2>1. packet = Deserialize(line) /\ line = sent.bytes /\ sent \in Frames
    BY <1>1 DEF IInv, FrameTypes, DecodeInv, LineInv
  <2>2. sent.meaning \in Requests /\ sent.bytes = Serialize(sent.meaning)
    BY <1>1, <2>1, FrameCases
  <2>3. PICK n \in 0..12 : Whole(sent.meaning, n)
    BY <2>2, RequestShape
  <2>4. n \in Nat
    OBVIOUS
  <2>5. Deserialize(Serialize(sent.meaning)) = {sent.meaning}
    BY <2>3, <2>4, WholeDecodes
  <2> QED  BY <2>1, <2>2, <2>5
<1>3. /\ \A i \in MotorIds : i \in Byte
      /\ \A m \in Modes : m \in Word
      /\ \A v \in Words : v \in Word
  BY SmallWords
<1>4. /\ \h30 \in Byte /\ \h31 \in Byte /\ \h33 \in Byte
      /\ \h25 \in Byte /\ \h29 \in Byte /\ \h27 \in Byte
  BY DEF Byte
<1>5. ASSUME NEW p, NEW i \in MotorIds, NEW m \in Modes, p = encode_set_motor_mode(i, m)
      PROVE  Finds(p, \h30, i, \h25, <<m>>)
  BY <1>3, <1>4, <1>5, OneWordFinds, Zenon DEF encode_set_motor_mode
<1>6. ASSUME NEW p, NEW i \in MotorIds, NEW v \in Words, p = encode_set_motor_position(i, v)
      PROVE  Finds(p, \h31, i, \h29, <<v>>)
  BY <1>3, <1>4, <1>6, OneWordFinds, Zenon DEF encode_set_motor_position
<1>7. ASSUME NEW p, NEW i \in MotorIds, NEW v \in Words, p = encode_set_motor_force(i, v)
      PROVE  Finds(p, \h33, i, \h27, <<v>>)
  BY <1>3, <1>4, <1>7, OneWordFinds, Zenon DEF encode_set_motor_force
<1>8. ASSUME NEW p, NEW i \in MotorIds, NEW v \in Words, NEW w \in Words,
             p = encode_set_motor_speed(i, v, w)
      PROVE  Finds(p, \h32, i, \h28, <<v, w>>)
  BY <1>3, <1>8, TwoWordsFound, Zenon
<1> QED  BY <1>2, <1>5, <1>6, <1>7, <1>8, Zenon

\* The motor parser reads past the end of the short reply's body only.
LEMMA WithinInv == IInv => ReadsWithin
<1>1. SUFFICES ASSUME IInv, NEW p \in packet, parse_motor_status(p) # {}, sent.kind # "short"
               PROVE  Len(p.body) >= 19
  BY DEF ReadsWithin
<1>2. done \in BOOLEAN /\ (done => packet = Deserialize(line)) /\ (~done => packet = {})
  BY <1>1 DEF IInv, FrameTypes, DecodeInv
<1>3. p \in Deserialize(line)
  BY <1>1, <1>2
<1>4. damage = "none" /\ sent.kind = "motor"
  BY <1>1, <1>3, MotorReadingFrom
<1>5. line = sent.bytes /\ sent \in Frames
  BY <1>1, <1>4 DEF IInv, FrameTypes, LineInv
<1>6. PICK n \in Nat : Described(sent, n)
  BY <1>5, FramesDescribed
<1>7. n = 20 /\ line \in Bytes(27)
  BY <1>4, <1>5, <1>6 DEF Described
<1>8. Len(p.body) = 27 - 7
  BY <1>3, <1>7, Decoded
<1> QED  BY <1>8

\* What the motor parser reads in the reply to a status request.
LEMMA MotorBodyRead ==
    ASSUME NEW m \in Statuses, NEW k \in {10, 12}, NEW data \in Bytes(k),
           \A i \in 1..k : data[i] = MotorData(m)[i],
           NEW p, p.body = MotorInner(m, data),
           NEW r \in parse_motor_status(p)
    PROVE  /\ DOMAIN r = {"motor_id", "target_position", "actual_position", "actual_current",
                          "force_value", "force_raw", "temperature", "fault_code"}
           /\ r.motor_id = m.motor_id
           /\ r.target_position = m.target_position /\ r.actual_position = m.actual_position
           /\ r.actual_current = m.actual_current /\ r.force_value = m.force_value
           /\ r.force_raw = m.force_raw
           /\ k = 12 => r.temperature = m.temperature /\ r.fault_code = m.fault_code
<1> DEFINE b == p.body
           d == MotorData(m)
<1>1. k \in 0..100 /\ k \in Nat
  OBVIOUS
<1>2. b \in Bytes(k + 8) /\ b[4] = m.motor_id /\ \A i \in 1..k : b[7 + i] = data[i]
  <2> DEFINE c == MotorInner(m, data)
  <2>1. InnerOf(c, m, k, data)
    BY <1>1, MotorInnerShape
  <2>2. b = c
    OBVIOUS
  <2> HIDE DEF b, c
  <2> QED  BY <2>1, <2>2 DEF InnerOf
<1>3. PICK fault \in ByteAt(b, 19) :
          r = [motor_id        |-> b[4],
               target_position |-> read_uint16_le(b, 8),
               actual_position |-> read_uint16_le(b, 10),
               actual_current  |-> read_uint16_le(b, 12),
               force_value     |-> read_uint16_le(b, 14),
               force_raw       |-> read_uint16_le(b, 16),
               temperature     |-> b[18],
               fault_code      |-> fault]
  BY Zenon DEF parse_motor_status
<1>4. /\ d[1] = Low(m.target_position) /\ d[2] = High(m.target_position)
      /\ d[3] = Low(m.actual_position) /\ d[4] = High(m.actual_position)
      /\ d[5] = Low(m.actual_current) /\ d[6] = High(m.actual_current)
      /\ d[7] = Low(m.force_value) /\ d[8] = High(m.force_value)
      /\ d[9] = Low(m.force_raw) /\ d[10] = High(m.force_raw)
      /\ d[11] = m.temperature /\ d[12] = m.fault_code
  BY MotorDataShape
<1>5. \A i \in 1..k : b[i + 7] = d[i]
  BY <1>2
<1> HIDE DEF b, d
<1>6. /\ b[8] = d[1] /\ b[9] = d[2] /\ b[10] = d[3] /\ b[11] = d[4] /\ b[12] = d[5]
      /\ b[13] = d[6] /\ b[14] = d[7] /\ b[15] = d[8] /\ b[16] = d[9] /\ b[17] = d[10]
      /\ k = 12 => b[18] = d[11] /\ b[19] = d[12]
  BY <1>5
<1>7. /\ m.target_position \in Word /\ m.actual_position \in Word /\ m.actual_current \in Word
      /\ m.force_value \in Word /\ m.force_raw \in Word
  BY DEF Statuses
<1>8. ASSUME NEW v \in Word, NEW i \in Nat, b[i] = Low(v), b[i + 1] = High(v)
      PROVE  read_uint16_le(b, i) = v
  <2>1. read_uint16_le(b, i) = Low(v) + (256 * High(v))
    BY <1>8 DEF read_uint16_le
  <2> QED  BY <2>1, WordBytes
<1>9. /\ read_uint16_le(b, 8) = m.target_position
      /\ read_uint16_le(b, 10) = m.actual_position
      /\ read_uint16_le(b, 12) = m.actual_current
      /\ read_uint16_le(b, 14) = m.force_value
      /\ read_uint16_le(b, 16) = m.force_raw
  <2>1. read_uint16_le(b, 8) = m.target_position
    <3>1. 8 \in Nat /\ b[8] = Low(m.target_position) /\ b[8 + 1] = High(m.target_position)
      BY <1>4, <1>6
    <3> QED  BY <1>7, <1>8, <3>1
  <2>2. read_uint16_le(b, 10) = m.actual_position
    <3>1. 10 \in Nat /\ b[10] = Low(m.actual_position) /\ b[10 + 1] = High(m.actual_position)
      BY <1>4, <1>6
    <3> QED  BY <1>7, <1>8, <3>1
  <2>3. read_uint16_le(b, 12) = m.actual_current
    <3>1. 12 \in Nat /\ b[12] = Low(m.actual_current) /\ b[12 + 1] = High(m.actual_current)
      BY <1>4, <1>6
    <3> QED  BY <1>7, <1>8, <3>1
  <2>4. read_uint16_le(b, 14) = m.force_value
    <3>1. 14 \in Nat /\ b[14] = Low(m.force_value) /\ b[14 + 1] = High(m.force_value)
      BY <1>4, <1>6
    <3> QED  BY <1>7, <1>8, <3>1
  <2>5. read_uint16_le(b, 16) = m.force_raw
    <3>1. 16 \in Nat /\ b[16] = Low(m.force_raw) /\ b[16 + 1] = High(m.force_raw)
      BY <1>4, <1>6
    <3> QED  BY <1>7, <1>8, <3>1
  <2> QED  BY <2>1, <2>2, <2>3, <2>4, <2>5
<1>10. k = 12 => fault = b[19]
  <2>1. SUFFICES ASSUME k = 12 PROVE fault = b[19]
    OBVIOUS
  <2>2. b \in Bytes(20)
    BY <1>2, <2>1 DEF b
  <2>3. Len(b) = 20
    BY <2>2, BytesAre
  <2> QED  BY <2>3 DEF ByteAt
<1>11. b[4] = m.motor_id
  BY <1>2 DEF b
<1> QED  BY <1>3, <1>4, <1>6, <1>9, <1>10, <1>11

\* What the encoder parser reads in an encoder's reply ...
LEMMA EncoderBodyRead ==
    ASSUME NEW v \in [1..16 -> Word], NEW p,
           \A i \in 1..32 : p.body[i] = EncoderReply(v)[5 + i],
           NEW r \in parse_encoder_data(p)
    PROVE  r = v
<1> DEFINE s == EncoderReply(v)
           b == p.body
<1>1. \A i \in 1..16 : s[2 * i + 4] = High(v[i]) /\ s[2 * i + 5] = Low(v[i])
  BY EncoderReplyShape
<1>2. r = [i \in 1..16 |-> read_uint16_be(b, 2 * i - 1)]
  BY Zenon DEF parse_encoder_data, NUM_ENCODER_CHANNELS
<1> HIDE DEF s, b
<1>3. \A i \in 1..32 : b[i] = s[5 + i]
  BY DEF s, b
<1>4. ASSUME NEW i \in 1..16 PROVE read_uint16_be(b, 2 * i - 1) = v[i]
  <2>1. /\ 2 * i - 1 \in 1..32 /\ 2 * i \in 1..32 /\ (2 * i - 1) + 1 = 2 * i
        /\ 5 + (2 * i - 1) = 2 * i + 4 /\ 5 + 2 * i = 2 * i + 5
    OBVIOUS
  <2>2. b[2 * i - 1] = High(v[i]) /\ b[2 * i] = Low(v[i])
    BY <1>1, <1>3, <2>1
  <2>3. read_uint16_be(b, 2 * i - 1) = (256 * b[2 * i - 1]) + b[2 * i]
    BY <2>1 DEF read_uint16_be
  <2>4. v[i] \in Word
    OBVIOUS
  <2> QED  BY <2>2, <2>3, <2>4, WordBytes
<1> QED  BY <1>2, <1>4

\* ... and the IMU parser in an IMU's.
LEMMA ImuBodyRead ==
    ASSUME NEW a \in Word, NEW b \in Word, NEW o,
           o = [roll |-> <<a, b>>, pitch |-> <<b, b>>, yaw |-> <<b, a>>],
           NEW p, \A i \in 1..12 : p.body[i] = ImuReply(o)[5 + i],
           NEW r \in parse_imu_data(p)
    PROVE  r = o
<1> DEFINE s == ImuReply(o)
           t == p.body
<1>1. o.roll = <<a, b>> /\ o.pitch = <<b, b>> /\ o.yaw = <<b, a>>
  OBVIOUS
<1>2. /\ s[6] = High(a) /\ s[7] = Low(a) /\ s[8] = High(b) /\ s[9] = Low(b)
      /\ s[10] = High(b) /\ s[11] = Low(b) /\ s[12] = High(b) /\ s[13] = Low(b)
      /\ s[14] = High(b) /\ s[15] = Low(b) /\ s[16] = High(a) /\ s[17] = Low(a)
  BY <1>1, ImuReplyShape
<1>3. r = [roll  |-> read_float_be(t, 1), pitch |-> read_float_be(t, 5),
           yaw   |-> read_float_be(t, 9)]
  BY Zenon DEF parse_imu_data
<1>4. \A i \in 1..12 : t[i] = s[i + 5]
  OBVIOUS
<1> HIDE DEF s, t
<1>5. /\ t[1] = High(a) /\ t[2] = Low(a) /\ t[3] = High(b) /\ t[4] = Low(b)
      /\ t[5] = High(b) /\ t[6] = Low(b) /\ t[7] = High(b) /\ t[8] = Low(b)
      /\ t[9] = High(b) /\ t[10] = Low(b) /\ t[11] = High(a) /\ t[12] = Low(a)
  BY <1>2, <1>4
<1>6. /\ (256 * High(a)) + Low(a) = a /\ (256 * High(b)) + Low(b) = b
      /\ High(a) \in Int /\ High(b) \in Int /\ Low(a) \in Int /\ Low(b) \in Int
  BY WordBytes DEF Byte
<1>7. /\ read_uint16_be(t, 1) = a /\ read_uint16_be(t, 3) = b /\ read_uint16_be(t, 5) = b
      /\ read_uint16_be(t, 7) = b /\ read_uint16_be(t, 9) = b /\ read_uint16_be(t, 11) = a
  BY <1>5, <1>6 DEF read_uint16_be
<1>8. /\ read_float_be(t, 1) = <<a, b>> /\ read_float_be(t, 5) = <<b, b>>
      /\ read_float_be(t, 9) = <<b, a>>
  BY <1>7 DEF read_float_be
<1> QED  BY <1>3, <1>8

\* So every motor reading is faithful, ...
LEMMA MotorFaithful ==
    ASSUME IInv, NEW r \in readings.motor
    PROVE  LET known == IF sent.kind = "short" THEN DOMAIN r \ {"temperature", "fault_code"}
                                               ELSE DOMAIN r
           IN  \A f \in known : r[f] = sent.meaning[f]
<1>1. PICK p \in Deserialize(line) : r \in parse_motor_status(p)
  BY ReadingsFrom
<1>2. damage = "none" /\ sent.kind \in {"motor", "short"}
  BY <1>1, MotorReadingFrom
<1>3. line = sent.bytes /\ sent \in Frames
  BY <1>2 DEF IInv, FrameTypes, LineInv
<1> DEFINE m == sent.meaning
<1>4. CASE sent.kind = "motor"
  <2>1. m \in Statuses /\ sent.bytes = MotorReply(m)
    BY <1>3, <1>4, FrameCases, MotorMeaningsType
  <2> DEFINE d == MotorData(m)
             q == Encoded(TARGET_MOTOR, \h20, MotorInner(m, d))
  <2> HIDE DEF m
  <2>2. MotorReply(m) = Serialize(q) /\ Whole(q, 20) /\ q.body = MotorInner(m, d)
    BY <2>1, MotorReplyShape
  <2>3. d \in Bytes(12)
    BY <2>1, MotorDataShape
  <2> HIDE DEF q
  <2>4. Deserialize(Serialize(q)) = {q} /\ 20 \in Nat
    BY <2>2, WholeDecodes
  <2>5. p = q
    BY <1>1, <1>3, <2>1, <2>2, <2>4
  <2>6. p.body = MotorInner(m, d) /\ 12 \in {10, 12} /\ \A i \in 1..12 : d[i] = MotorData(m)[i]
    BY <2>2, <2>5
  <2> HIDE DEF d
  <2>7. /\ DOMAIN r = {"motor_id", "target_position", "actual_position", "actual_current",
                       "force_value", "force_raw", "temperature", "fault_code"}
        /\ r.motor_id = m.motor_id
        /\ r.target_position = m.target_position /\ r.actual_position = m.actual_position
        /\ r.actual_current = m.actual_current /\ r.force_value = m.force_value
        /\ r.force_raw = m.force_raw
        /\ r.temperature = m.temperature /\ r.fault_code = m.fault_code
    BY <1>1, <2>1, <2>3, <2>6, MotorBodyRead
  <2>8. \A f \in DOMAIN r : r[f] = m[f]
    BY <2>7
  <2> QED  BY <1>4, <2>8 DEF m
<1>5. CASE sent.kind = "short"
  <2>1. m \in Statuses /\ sent.bytes = ShortMotorReply(m)
    BY <1>3, <1>5, FrameCases, MotorMeaningsType
  <2> DEFINE d == Part(MotorData(m), 1, 10)
             q == Encoded(TARGET_MOTOR, \h20, MotorInner(m, d))
  <2> HIDE DEF m
  <2>2. ShortMotorReply(m) = Serialize(q) /\ Whole(q, 18) /\ q.body = MotorInner(m, d)
    BY <2>1, ShortMotorReplyShape
  <2>3. d \in Bytes(10) /\ \A i \in 1..10 : d[i] = MotorData(m)[i]
    <3>1. MotorData(m) \in Bytes(12) /\ 12 \in Nat /\ 10 \in 0..12
      BY <2>1, MotorDataShape
    <3> QED  BY <3>1, Prefix
  <2> HIDE DEF q
  <2>4. Deserialize(Serialize(q)) = {q}
    <3>1. 18 \in Nat
      OBVIOUS
    <3> QED  BY <2>2, <3>1, WholeDecodes
  <2>5. p = q
    BY <1>1, <1>3, <2>1, <2>2, <2>4
  <2>6. p.body = MotorInner(m, d) /\ 10 \in {10, 12}
    BY <2>2, <2>5
  <2> HIDE DEF d
  <2>7. /\ DOMAIN r = {"motor_id", "target_position", "actual_position", "actual_current",
                       "force_value", "force_raw", "temperature", "fault_code"}
        /\ r.motor_id = m.motor_id
        /\ r.target_position = m.target_position /\ r.actual_position = m.actual_position
        /\ r.actual_current = m.actual_current /\ r.force_value = m.force_value
        /\ r.force_raw = m.force_raw
    BY <1>1, <2>1, <2>3, <2>6, MotorBodyRead
  <2>8. \A f \in DOMAIN r \ {"temperature", "fault_code"} : r[f] = m[f]
    BY <2>7
  <2> QED  BY <1>5, <2>8 DEF m
<1> QED  BY <1>2, <1>4, <1>5

\* ... every encoder reading, ...
LEMMA EncoderFaithful ==
    ASSUME IInv, NEW r \in readings.encoder
    PROVE  r = sent.meaning
<1>1. PICK p \in Deserialize(line) : r \in parse_encoder_data(p)
  BY ReadingsFrom
<1>2. sent.kind = "encoder" /\ \A i \in 1..32 : p.body[i] = sent.bytes[5 + i]
  BY <1>1, EncoderReadingFrom
<1>3. sent \in Frames
  BY DEF IInv, FrameTypes
<1>4. sent.meaning \in [1..16 -> Word] /\ sent.bytes = EncoderReply(sent.meaning)
  BY <1>2, <1>3, FrameCases, EncoderMeaningsType
<1> QED  BY <1>1, <1>2, <1>4, EncoderBodyRead

\* ... and an undamaged IMU's.
LEMMA ImuFaithful ==
    ASSUME IInv, sent.kind = "imu", damage = "none", NEW r \in readings.imu
    PROVE  r = sent.meaning
<1>1. PICK p \in Deserialize(line) : r \in parse_imu_data(p)
  BY ReadingsFrom
<1>2. line = sent.bytes /\ sent \in Frames
  BY DEF IInv, FrameTypes, LineInv
<1> DEFINE o == sent.meaning
<1>3. o \in ImuMeanings /\ sent.bytes = ImuReply(o)
  BY <1>2, FrameCases
<1> HIDE DEF o
<1>4. PICK a \in Word, b \in Word :
          o = [roll |-> <<a, b>>, pitch |-> <<b, b>>, yaw |-> <<b, a>>]
  BY <1>3, ImuMeaningsShape
<1>5. ImuReply(o) \in Bytes(19)
  <2>1. o.roll = <<a, b>> /\ o.pitch = <<b, b>> /\ o.yaw = <<b, a>>
    BY <1>4
  <2> QED  BY <2>1, ImuReplyShape
<1>6. \A i \in 1..12 : p.body[i] = ImuReply(o)[5 + i]
  <2>1. line = ImuReply(o) /\ 19 \in Nat /\ 19 - 7 = 12
    BY <1>2, <1>3
  <2>2. \A i \in 1..(19 - 7) : p.body[i] = line[5 + i]
    BY <1>5, <2>1, Decoded
  <2> QED  BY <2>1, <2>2
<1>7. r = o
  BY <1>1, <1>4, <1>6, ImuBodyRead
<1> QED  BY <1>7 DEF o

\* All readings are faithful.
LEMMA FaithfulInv == IInv => ReadingsFaithful
<1>1. SUFFICES ASSUME IInv PROVE ReadingsFaithful
  OBVIOUS
<1>2. \A r \in readings.motor :
          LET known == IF sent.kind = "short" THEN DOMAIN r \ {"temperature", "fault_code"}
                                             ELSE DOMAIN r
          IN  \A f \in known : r[f] = sent.meaning[f]
  BY <1>1, MotorFaithful
<1>3. readings.encoder # {} => readings.encoder = {sent.meaning}
  BY <1>1, EncoderFaithful
<1>4. sent.kind = "imu" /\ readings.imu # {} /\ damage = "none"
          => readings.imu = {sent.meaning}
  BY <1>1, ImuFaithful
<1> QED  BY <1>2, <1>3, <1>4, Zenon DEF ReadingsFaithful

-----------------------------------------------------------------------------
(***************************************************************************)
(* The invariant is inductive.                                             *)
(***************************************************************************)
\* Frames are sequences of bytes, as FrameTypes has it.
LEMMA FramesAreBytes ==
    ASSUME NEW f \in Frames
    PROVE  f.bytes \in Seq(Byte)
<1>1. PICK n \in Nat : Described(f, n)
  BY FramesDescribed
<1>2. f.bytes \in Bytes(n + 7) /\ n + 7 \in Nat
  BY <1>1 DEF Described
<1> QED  BY <1>2, BytesAre

\* The invariant holds at first.
LEMMA InitInv == Init => IInv
<1>1. SUFFICES ASSUME Init PROVE IInv
  OBVIOUS
<1>2. FrameTypes
  BY <1>1, FramesAreBytes DEF Init, FrameTypes
<1>3. LineInv /\ DecodeInv
  BY <1>1 DEF Init, LineInv, DecodeInv
<1> QED  BY <1>2, <1>3 DEF IInv

\* Every step keeps the invariant.
LEMMA NextInv == IInv /\ [Next]_vars => IInv'
<1>1. SUFFICES ASSUME IInv, [Next]_vars PROVE IInv'
  OBVIOUS
<1>2. sent \in Frames /\ line \in Seq(Byte) /\ LineInv /\ DecodeInv
  BY <1>1 DEF IInv, FrameTypes
<1>3. CASE DamageByte
  <2>1. /\ ~done /\ damage = "none" /\ damage' = "byte"
        /\ sent' = sent /\ packet' = packet /\ readings' = readings /\ done' = done
    BY <1>3 DEF DamageByte
  <2>2. PICK i \in DOMAIN line, d \in Damages : line' = [line EXCEPT ![i] = (@ + d) % 256]
    BY <1>3 DEF DamageByte
  <2>3. line = sent.bytes
    BY <1>2, <2>1 DEF LineInv
  <2>4. line' \in Seq(Byte)
    <3>1. PICK n \in Nat : line \in Bytes(n)
      BY <1>2, AreBytes
    <3>2. d \in 1..255 /\ line[i] \in Byte
      BY <2>2, <3>1, SmallWords DEF Bytes
    <3>3. (line[i] + d) % 256 \in Byte
      <4>1. PICK sum \in Int : sum = line[i] + d
        BY <3>2 DEF Byte
      <4>2. sum % 256 \in Byte
        BY DEF Byte
      <4> QED  BY <4>1, <4>2, Zenon
    <3>4. line' \in Bytes(n)
      BY <2>2, <3>1, <3>3 DEF Bytes
    <3> QED  BY <3>4, BytesAre
  <2>5. FrameTypes'
    BY <1>1, <2>1, <2>4 DEF IInv, FrameTypes
  <2>6. LineInv'
    BY <2>1, <2>2, <2>3 DEF LineInv
  <2>7. DecodeInv'
    BY <1>2, <2>1 DEF DecodeInv
  <2> QED  BY <2>5, <2>6, <2>7 DEF IInv
<1>4. CASE Cut
  <2>1. /\ ~done /\ damage = "none" /\ damage' = "cut"
        /\ sent' = sent /\ packet' = packet /\ readings' = readings /\ done' = done
    BY <1>4 DEF Cut
  <2>2. PICK k \in 1..(Len(line) - 1) : line' = SubSeq(line, 1, k)
    BY <1>4 DEF Cut
  <2>3. line = sent.bytes
    BY <1>2, <2>1 DEF LineInv
  <2>4. line' \in Seq(Byte)
    <3>1. PICK n \in Nat : line \in Bytes(n) /\ Len(line) = n
      BY <1>2, AreBytes
    <3>2. k \in 0..n /\ k \in Nat
      BY <3>1
    <3>3. line' = Part(line, 1, k)
      BY <2>2, Zenon DEF Part
    <3>4. line' \in Bytes(k)
      BY <3>1, <3>2, <3>3, Prefix
    <3> QED  BY <3>2, <3>4, BytesAre
  <2>5. FrameTypes'
    BY <1>1, <2>1, <2>4 DEF IInv, FrameTypes
  <2>6. LineInv'
    BY <2>1, <2>2, <2>3, Zenon DEF LineInv
  <2>7. DecodeInv'
    BY <1>2, <2>1 DEF DecodeInv
  <2> QED  BY <2>5, <2>6, <2>7 DEF IInv
<1>5. CASE Decode
  <2>1. /\ ~done /\ done' = TRUE /\ packet' = Deserialize(line)
        /\ sent' = sent /\ line' = line /\ damage' = damage
    BY <1>5 DEF Decode
  <2>2. PICK status \in AnyOf(UNION {parse_motor_status(p) : p \in packet'}) :
          readings' = [motor   |-> status,
                       encoder |-> UNION {parse_encoder_data(p) : p \in packet'},
                       imu     |-> UNION {parse_imu_data(p) : p \in packet'}]
    BY <1>5, Zenon DEF Decode
  <2>3. FrameTypes' /\ LineInv'
    <3>1. FrameTypes'
      BY <1>1, <2>1, Zenon DEF IInv, FrameTypes
    <3>2. LineInv'
      BY <1>2, <2>1, ZenonT(40) DEF LineInv
    <3> QED  BY <3>1, <3>2, Zenon
  <2>4. DecodeInv'
    <3>1. /\ readings'.motor = status
          /\ readings'.encoder = UNION {parse_encoder_data(p) : p \in packet'}
          /\ readings'.imu = UNION {parse_imu_data(p) : p \in packet'}
      BY <2>2, Zenon
    <3>2. readings' = [motor   |-> readings'.motor, encoder |-> readings'.encoder,
                       imu     |-> readings'.imu]
      BY <2>2, <3>1, Zenon
    <3> QED  BY <2>1, <2>2, <3>1, <3>2, Zenon DEF DecodeInv
  <2> QED  BY <2>3, <2>4 DEF IInv
<1>6. CASE UNCHANGED vars
  BY <1>1, <1>6 DEF vars, IInv, FrameTypes, LineInv, DecodeInv
<1> QED  BY <1>1, <1>3, <1>4, <1>5, <1>6 DEF Next

\* The codec keeps the invariant: what is on the line stems from a frame by the
\* one damage it suffered, and packet and readings are what Packet::deserialize()
\* and the parsers make of it (protocol.cpp:40-115, 432-504).
THEOREM CodecInvariant == Spec => []IInv
  BY InitInv, NextInv, PTL DEF Spec

-----------------------------------------------------------------------------
(***************************************************************************)
(* Replies that are understood, and one that is not.                       *)
(***************************************************************************)
\* The first two bytes of a body, in the packet and on the line.
LEMMA BodyStart ==
    ASSUME NEW n \in Nat, n >= 2, NEW s, NEW p, Laid(s, p, n)
    PROVE  SubSeq(p.body, 1, 2) = SubSeq(s, 6, 7)
<1> DEFINE b == p.body
           u == Part(b, 1, 2)
           t == Part(s, 6, 7)
<1>1. b \in Bytes(n) /\ s \in Bytes(n + 7) /\ \A i \in 1..n : s[5 + i] = b[i]
  BY DEF Laid
<1>2. 2 \in 0..n /\ 2 \in Nat /\ 5 \in Nat /\ n + 7 \in Nat /\ 5 + 2 <= n + 7
      /\ 6 = 5 + 1 /\ 7 = 5 + 2
  OBVIOUS
<1> HIDE DEF b
<1>3. u \in Bytes(2) /\ \A i \in 1..2 : u[i] = b[i]
  BY <1>1, <1>2, Prefix
<1>4. t \in Bytes(2) /\ \A i \in 1..2 : t[i] = s[5 + i]
  <2>1. PICK m \in Nat, a \in Nat, k \in Nat : m = n + 7 /\ a = 5 /\ k = 2
    BY <1>2
  <2>2. s \in Bytes(m) /\ a + k <= m
    BY <1>1, <1>2, <2>1
  <2>3. Part(s, a + 1, a + k) \in Bytes(k) /\ \A i \in 1..k : Part(s, a + 1, a + k)[i] = s[a + i]
    BY <2>2, Middle
  <2>4. Part(s, a + 1, a + k) = t
    BY <2>1
  <2> HIDE DEF t
  <2> QED  BY <2>1, <2>3, <2>4
<1> HIDE DEF u, t
<1>5. \A i \in 1..2 : u[i] = t[i]
  BY <1>1, <1>3, <1>4
<1>6. u = t
  BY <1>2, <1>3, <1>4, <1>5, SameBytes
<1> QED  BY <1>6, Zenon DEF u, t, b, Part

\* A marked frame whose body does not begin like a motor packet.
LEMMA MarkedDecodes ==
    ASSUME NEW n \in Nat, n >= 2, NEW s \in Bytes(n + 7),
           s[1] = PACKET_HEADER, s[n + 7] = PACKET_TAIL,
           \/ SubSeq(s, 1, 4) = ImuMark
           \/ SubSeq(s, 1, 4) = EncoderMark /\ Checksum(s) = s[n + 6],
           SubSeq(s, 6, 7) \notin {MotorRequestHeader, MotorResponseHeader}
    PROVE  Deserialize(s) = {Fields(s)} /\ Laid(s, Fields(s), n) /\ Len(Fields(s).body) = n
<1>1. Laid(s, Fields(s), n) /\ Len(Fields(s).body) = n
  BY FieldsLaid
<1> DEFINE p == Fields(s)
<1>2. SubSeq(p.body, 1, 2) \notin {MotorRequestHeader, MotorResponseHeader}
  BY <1>1, BodyStart
<1>3. validate_motor_checksum(p)
  BY <1>2, Zenon DEF validate_motor_checksum
<1>4. Deserialize(s) = {q \in {p} : validate_motor_checksum(q)}
  BY Accepts
<1> HIDE DEF p
<1>5. Deserialize(s) = {p}
  BY <1>3, <1>4, Zenon
<1> QED  BY <1>1, <1>5 DEF p

\* An encoder's reply is understood, unless it begins like a motor packet; ...
LEMMA EncoderUnderstood ==
    ASSUME NEW v \in [1..16 -> Word],
           SubSeq(EncoderReply(v), 6, 7) \notin {MotorRequestHeader, MotorResponseHeader}
    PROVE  \E p \in Deserialize(EncoderReply(v)) : parse_encoder_data(p) # {}
<1> DEFINE s == EncoderReply(v)
<1>1. /\ Sound(s, 32)
      /\ s[1] = PACKET_HEADER /\ s[2] = \h25 /\ s[3] = 1 /\ s[4] = 2
  BY EncoderReplyShape
<1> HIDE DEF s
<1>2. /\ s \in Bytes(32 + 7) /\ s[32 + 7] = PACKET_TAIL /\ Checksum(s) = s[32 + 6]
      /\ 32 \in Nat /\ 32 >= 2 /\ s \in Bytes(39) /\ 39 \in Nat /\ 39 >= 4
  BY <1>1 DEF Sound
<1>3. SubSeq(s, 1, 4) = EncoderMark
  BY <1>1, <1>2, Marked
<1>4. SubSeq(s, 6, 7) \notin {MotorRequestHeader, MotorResponseHeader}
  BY DEF s
<1>5. PICK n \in Nat : n = 32
  OBVIOUS
<1>6. s \in Bytes(n + 7) /\ s[n + 7] = PACKET_TAIL /\ Checksum(s) = s[n + 6] /\ n >= 2
  BY <1>2, <1>5
<1>7. Deserialize(s) = {Fields(s)} /\ Laid(s, Fields(s), n) /\ Len(Fields(s).body) = n
  BY <1>1, <1>3, <1>4, <1>6, MarkedDecodes
<1> DEFINE p == Fields(s)
<1> HIDE DEF p
<1>8. p.module_id = 1 /\ p.target = 2 /\ Len(p.body) >= 32
  BY <1>1, <1>5, <1>7 DEF Laid, p
<1>9. parse_encoder_data(p) # {}
  BY <1>8 DEF parse_encoder_data, MODULE_ID, TARGET_ENCODER
<1> QED  BY <1>7, <1>9 DEF p, s

\* ... so is an IMU's; ...
LEMMA ImuUnderstood ==
    ASSUME NEW o \in ImuMeanings,
           SubSeq(ImuReply(o), 6, 7) \notin {MotorRequestHeader, MotorResponseHeader}
    PROVE  \E p \in Deserialize(ImuReply(o)) : parse_imu_data(p) # {}
<1> DEFINE s == ImuReply(o)
<1>1. PICK a \in Word, b \in Word :
          o = [roll |-> <<a, b>>, pitch |-> <<b, b>>, yaw |-> <<b, a>>]
  BY ImuMeaningsShape
<1>2. o.roll = <<a, b>> /\ o.pitch = <<b, b>> /\ o.yaw = <<b, a>>
  BY <1>1
<1>3. /\ s \in Bytes(19) /\ s[19] = PACKET_TAIL
      /\ s[1] = PACKET_HEADER /\ s[2] = \h11 /\ s[3] = 1 /\ s[4] = 2
  BY <1>2, ImuReplyShape
<1> HIDE DEF s
<1>4. 19 \in Nat /\ 19 >= 4
  OBVIOUS
<1>5. SubSeq(s, 1, 4) = ImuMark
  BY <1>3, <1>4, Marked
<1>6. SubSeq(s, 6, 7) \notin {MotorRequestHeader, MotorResponseHeader}
  BY DEF s
<1>7. PICK n \in Nat : n = 12
  OBVIOUS
<1>8. s \in Bytes(n + 7) /\ s[n + 7] = PACKET_TAIL /\ n >= 2
  BY <1>3, <1>7
<1>9. Deserialize(s) = {Fields(s)} /\ Laid(s, Fields(s), n) /\ Len(Fields(s).body) = n
  BY <1>3, <1>5, <1>6, <1>8, MarkedDecodes
<1> DEFINE p == Fields(s)
<1> HIDE DEF p
<1>10. p.module_id = 1 /\ Len(p.body) >= 12
  BY <1>3, <1>7, <1>9 DEF Laid, p
<1>11. parse_imu_data(p) # {}
  BY <1>10 DEF parse_imu_data, MODULE_ID
<1> QED  BY <1>9, <1>11 DEF p, s

\* ... and a motor's always.
LEMMA MotorUnderstood ==
    ASSUME NEW m \in Statuses
    PROVE  \E p \in Deserialize(MotorReply(m)) : parse_motor_status(p) # {}
<1> DEFINE b == MotorInner(m, MotorData(m))
<1>1. PICK p : /\ MotorReply(m) = Serialize(p) /\ Whole(p, 20) /\ p.target = TARGET_MOTOR
               /\ p.body = b
  BY MotorReplyShape
<1>2. 20 \in Nat
  OBVIOUS
<1>3. Deserialize(MotorReply(m)) = {p}
  BY <1>1, <1>2, WholeDecodes
<1>4. b \in Bytes(20) /\ b[1] = \hAA /\ b[2] = \h55
  <2>1. MotorData(m) \in Bytes(12) /\ 12 \in 0..100
    BY MotorDataShape
  <2>2. InnerOf(b, m, 12, MotorData(m))
    BY <2>1, MotorInnerShape
  <2> HIDE DEF b
  <2> QED  BY <2>2 DEF InnerOf
<1> HIDE DEF b
<1>5. Part(b, 1, 2) = MotorResponseHeader
  <2>1. 2 \in 0..20 /\ 2 \in Nat
    OBVIOUS
  <2> DEFINE u == Part(b, 1, 2)
  <2>2. u \in Bytes(2) /\ \A i \in 1..2 : u[i] = b[i]
    BY <1>2, <1>4, <2>1, Prefix
  <2>3. MotorResponseHeader \in Bytes(2)
        /\ MotorResponseHeader[1] = \hAA /\ MotorResponseHeader[2] = \h55
    BY DEF MotorResponseHeader, Bytes, Byte
  <2> HIDE DEF u
  <2>4. \A i \in 1..2 : u[i] = MotorResponseHeader[i]
    <3>1. u[1] = MotorResponseHeader[1] /\ u[2] = MotorResponseHeader[2]
      BY <1>4, <2>2, <2>3
    <3> QED  BY <3>1
  <2>5. u = MotorResponseHeader
    BY <2>1, <2>2, <2>3, <2>4, SameBytes
  <2> QED  BY <2>5 DEF u
<1>6. SubSeq(p.body, 1, 2) = MotorResponseHeader
  BY <1>1, <1>5, Zenon DEF Part
<1>7. Len(p.body) = 20 /\ Len(p.body) >= 18
  <2>1. PICK n \in Nat : n = 20
    BY <1>2
  <2>2. b \in Bytes(n)
    BY <1>4, <2>1
  <2>3. Len(b) = n
    BY <2>2, BytesAre
  <2> QED  BY <1>1, <2>1, <2>3
<1>8. p.module_id = MODULE_ID
  BY <1>1 DEF Whole
<1>9. ByteAt(p.body, 19) # {}
  BY <1>7 DEF ByteAt
<1>10. parse_motor_status(p) # {}
  <2>1. /\ p.module_id = MODULE_ID /\ p.target = TARGET_MOTOR
        /\ Len(p.body) >= 18 /\ SubSeq(p.body, 1, 2) = MotorResponseHeader
    BY <1>1, <1>6, <1>7, <1>8
  <2>2. PICK fault : fault \in ByteAt(p.body, 19)
    BY <1>9
  <2> DEFINE r == [motor_id        |-> p.body[4],
                   target_position |-> read_uint16_le(p.body, 8),
                   actual_position |-> read_uint16_le(p.body, 10),
                   actual_current  |-> read_uint16_le(p.body, 12),
                   force_value     |-> read_uint16_le(p.body, 14),
                   force_raw       |-> read_uint16_le(p.body, 16),
                   temperature     |-> p.body[18],
                   fault_code      |-> fault]
  <2>3. r \in parse_motor_status(p)
    BY <2>1, <2>2, Zenon DEF parse_motor_status
  <2> HIDE DEF r
  <2> QED  BY <2>3
<1> QED  BY <1>3, <1>10

\* Replies are understood, but for those.
LEMMA UnderstoodInv == IInv => RepliesUnderstood
<1>1. SUFFICES ASSUME IInv, done, damage = "none"
               PROVE  /\ sent.kind = "motor" => readings.motor # {}
                      /\ SubSeq(sent.bytes, 6, 7) \notin {MotorRequestHeader, MotorResponseHeader}
                            => /\ sent.kind = "encoder" => readings.encoder # {}
                               /\ sent.kind = "imu"     => readings.imu # {}
  BY Zenon DEF RepliesUnderstood
<1> DEFINE X == UNION {parse_motor_status(p) : p \in packet}
<1>2. /\ packet = Deserialize(sent.bytes) /\ sent \in Frames
      /\ readings.motor \in AnyOf(X)
      /\ readings.encoder = UNION {parse_encoder_data(p) : p \in packet}
      /\ readings.imu = UNION {parse_imu_data(p) : p \in packet}
  BY <1>1, Zenon DEF IInv, FrameTypes, LineInv, DecodeInv
<1>3. ASSUME sent.kind = "motor" PROVE readings.motor # {}
  <2>1. sent.meaning \in Statuses /\ sent.bytes = MotorReply(sent.meaning)
    BY <1>2, <1>3, FrameCases, MotorMeaningsType
  <2>2. \E p \in packet : parse_motor_status(p) # {}
    BY <1>2, <2>1, MotorUnderstood
  <2>3. X # {}
    BY <2>2, Zenon
  <2> HIDE DEF X
  <2> QED  BY <1>2, <2>3 DEF AnyOf
<1>4. ASSUME sent.kind = "encoder",
             SubSeq(sent.bytes, 6, 7) \notin {MotorRequestHeader, MotorResponseHeader}
      PROVE  readings.encoder # {}
  <2>1. sent.meaning \in [1..16 -> Word] /\ sent.bytes = EncoderReply(sent.meaning)
    BY <1>2, <1>4, FrameCases, EncoderMeaningsType
  <2>2. \E p \in packet : parse_encoder_data(p) # {}
    BY <1>2, <1>4, <2>1, EncoderUnderstood
  <2>3. PICK p \in packet : parse_encoder_data(p) # {}
    BY <2>2
  <2>4. PICK r : r \in parse_encoder_data(p)
    BY <2>3
  <2>5. r \in readings.encoder
    BY <1>2, <2>3, <2>4, Zenon
  <2> QED  BY <2>5
<1>5. ASSUME sent.kind = "imu",
             SubSeq(sent.bytes, 6, 7) \notin {MotorRequestHeader, MotorResponseHeader}
      PROVE  readings.imu # {}
  <2>1. sent.meaning \in ImuMeanings /\ sent.bytes = ImuReply(sent.meaning)
    BY <1>2, <1>5, FrameCases
  <2>2. \E p \in packet : parse_imu_data(p) # {}
    BY <1>2, <1>5, <2>1, ImuUnderstood
  <2>3. PICK p \in packet : parse_imu_data(p) # {}
    BY <2>2
  <2>4. PICK r : r \in parse_imu_data(p)
    BY <2>3
  <2>5. r \in readings.imu
    BY <1>2, <2>3, <2>4, Zenon
  <2> QED  BY <2>5
<1> QED  BY <1>3, <1>4, <1>5

\* Two strings of a length that agree from the third byte on.
LEMMA SameFromThird ==
    ASSUME NEW m \in Nat, NEW k \in Nat, NEW s \in Bytes(m), NEW t \in Bytes(m), 2 + k <= m,
           \A i \in (2 + 1)..(2 + k) : s[i] = t[i]
    PROVE  Part(s, 2 + 1, 2 + k) = Part(t, 2 + 1, 2 + k)
  BY SameMiddle

\* The inner checksum depends on nothing but what it sums.
LEMMA MotorChecksumSame ==
    ASSUME NEW n \in Nat, n >= 2, NEW s \in Bytes(n + 1), NEW t \in Bytes(n + 1),
           \A i \in 3..n : s[i] = t[i]
    PROVE  MotorChecksum(s) = MotorChecksum(t)
<1>1. ASSUME NEW m \in Nat, NEW k \in Nat, m = n + 1, k = n - 2
      PROVE  Part(s, 2 + 1, 2 + k) = Part(t, 2 + 1, 2 + k)
  <2>1. 2 + k <= m /\ \A i \in (2 + 1)..(2 + k) : s[i] = t[i]
    BY <1>1
  <2>2. s \in Bytes(m) /\ t \in Bytes(m) /\ 2 \in Nat
    BY <1>1
  <2> QED  BY <2>1, <2>2, SameFromThird
<1>2. n + 1 \in Nat /\ n - 2 \in Nat
  OBVIOUS
<1>3. Part(s, 2 + 1, 2 + (n - 2)) = Part(t, 2 + 1, 2 + (n - 2))
  BY <1>1, <1>2
<1>4. /\ MotorChecksum(s) = Total(Part(s, 2 + 1, 2 + (n - 2))) % 256
      /\ MotorChecksum(t) = Total(Part(t, 2 + 1, 2 + (n - 2))) % 256
  BY MotorChecksumIs
<1> QED  BY <1>3, <1>4

-----------------------------------------------------------------------------
(***************************************************************************)
(* The properties of the codec.                                            *)
(***************************************************************************)
\* Any 16-bit value survives the bytes it is written to, in either order, and
\* the parsers and encoders agree which order that is (protocol.cpp:164-177).
THEOREM WordsSurvive ==
    \A v \in Word : /\ uint16_le(v) \in Seq(Byte)
                    /\ read_uint16_le(uint16_le(v), 1) = v
                    /\ read_uint16_be(uint16_be(v), 1) = v
<1>1. SUFFICES ASSUME NEW v \in Word
               PROVE  /\ uint16_le(v) \in Seq(Byte)
                      /\ read_uint16_le(uint16_le(v), 1) = v
                      /\ read_uint16_be(uint16_be(v), 1) = v
  OBVIOUS
<1>2. uint16_le(v) = <<Low(v), High(v)>> /\ uint16_be(v) = <<High(v), Low(v)>>
  BY Zenon DEF uint16_le, uint16_be, Low, High
<1>3. \A a, b \in Byte : /\ <<a, b>> \in Seq(Byte)
                         /\ read_uint16_le(<<a, b>>, 1) = a + (256 * b)
                         /\ read_uint16_be(<<a, b>>, 1) = (256 * a) + b
  BY DEF read_uint16_le, read_uint16_be, Byte
<1>4. /\ Low(v) \in Byte /\ High(v) \in Byte
      /\ Low(v) + (256 * High(v)) = v /\ (256 * High(v)) + Low(v) = v
  BY WordBytes
<1>5. /\ <<Low(v), High(v)>> \in Seq(Byte)
      /\ read_uint16_le(<<Low(v), High(v)>>, 1) = Low(v) + (256 * High(v))
  BY <1>3, <1>4, ZenonT(40)
<1>6. read_uint16_be(<<High(v), Low(v)>>, 1) = (256 * High(v)) + Low(v)
  BY <1>3, <1>4, ZenonT(40)
<1> QED  BY <1>2, <1>4, <1>5, <1>6, Zenon

\* Bytes stay bytes and words words, on the line, in the packet and in every
\* reading, whatever arrives (protocol.cpp:15-38, 118-137, 169-186, 432-504).
THEOREM CodecTypeOK == Spec => []TypeOK
  BY TypesInv, CodecInvariant, PTL

\* Every request decodes to the packet that was encoded, and in every command the
\* motor finds what was asked for, whatever the motor, the mode and the values
\* (protocol.cpp:15-115, 255-390, test_protocol.cpp:17-57).
THEOREM CodecRoundTrip == Spec => []RoundTrip
  BY RoundTripInv, CodecInvariant, PTL

\* No single damaged byte gets past the checksums but where the frame becomes an
\* IMU's, and no cut frame gives the reading it was sent for (protocol.cpp:60-112).
THEOREM CodecDamageDetected == Spec => []DamageDetected
  BY DamageInv, CodecInvariant, PTL

\* What a parser reads is what the glove measured (protocol.cpp:170-186, 432-504).
THEOREM CodecReadingsFaithful == Spec => []ReadingsFaithful
  BY FaithfulInv, CodecInvariant, PTL

\* The motor and the encoder parsers take no frame of another kind for theirs
\* (protocol.cpp:432-474).
THEOREM CodecNoCrossTalk == Spec => []NoCrossTalk
  BY CrossTalkInv, CodecInvariant, PTL

\* Undamaged replies are understood, but for a sensor's that begins like a motor
\* packet (protocol.cpp:60-112, 145-161).
THEOREM CodecRepliesUnderstood == Spec => []RepliesUnderstood
  BY UnderstoodInv, CodecInvariant, PTL

\* Only a reply that was sent without temperature and fault code makes the motor
\* parser read past the end of a body (protocol.cpp:441, 456-459).
THEOREM CodecReadsWithin == Spec => []ReadsWithin
  BY WithinInv, CodecInvariant, PTL

\* An encoder's reply whose first channel reads 0x55AA is taken for a motor request
\* and its last byte for that request's checksum: of two measurements that differ in
\* the low byte of the last channel only, at most one is accepted, whatever the
\* other channels read (protocol.cpp:109-112, 145-161).
THEOREM EncoderReplyLost ==
    ASSUME NEW v \in [1..16 -> Word], NEW w \in [1..16 -> Word],
           High(v[1]) = \h55 /\ Low(v[1]) = \hAA, \A i \in 1..15 : w[i] = v[i],
           High(w[16]) = High(v[16]), Low(w[16]) # Low(v[16])
    PROVE  Deserialize(EncoderReply(v)) = {} \/ Deserialize(EncoderReply(w)) = {}
<1>1. SUFFICES ASSUME NEW p \in Deserialize(EncoderReply(v)),
                      NEW q \in Deserialize(EncoderReply(w))
               PROVE  FALSE
  OBVIOUS
<1>2. ASSUME NEW x \in [1..16 -> Word], High(x[1]) = \h55, Low(x[1]) = \hAA,
             NEW r \in Deserialize(EncoderReply(x))
      PROVE  /\ r.body \in Bytes(32)
             /\ \A i \in 1..16 : r.body[2 * i - 1] = High(x[i]) /\ r.body[2 * i] = Low(x[i])
             /\ MotorChecksum(r.body) = r.body[32]
  <2> DEFINE s == EncoderReply(x)
             b == r.body
  <2>1. /\ Sound(s, 32)
        /\ \A i \in 1..16 : s[2 * i + 4] = High(x[i]) /\ s[2 * i + 5] = Low(x[i])
    BY EncoderReplyShape
  <2>2. r \in Deserialize(s)
    BY <1>2
  <2> HIDE DEF s
  <2>3. s \in Bytes(32 + 7) /\ 32 \in Nat
    BY <2>1 DEF Sound
  <2>4. Laid(s, r, 32) /\ validate_motor_checksum(r)
    BY <2>2, <2>3, Accepted
  <2>5. b \in Bytes(32) /\ \A i \in 1..32 : s[5 + i] = b[i]
    BY <2>4 DEF Laid
  <2> HIDE DEF b
  <2>6. ASSUME NEW i \in 1..16
        PROVE  b[2 * i - 1] = High(x[i]) /\ b[2 * i] = Low(x[i])
    <3>1. /\ 2 * i - 1 \in 1..32 /\ 2 * i \in 1..32
          /\ 5 + (2 * i - 1) = 2 * i + 4 /\ 5 + 2 * i = 2 * i + 5
      OBVIOUS
    <3>2. s[2 * i + 4] = b[2 * i - 1] /\ s[2 * i + 5] = b[2 * i]
      BY <2>5, <3>1
    <3> QED  BY <2>1, <3>2
  <2>7. Part(b, 1, 2) = MotorRequestHeader
    <3> DEFINE u == Part(b, 1, 2)
    <3>1. 2 \in 0..32 /\ 2 \in Nat
      OBVIOUS
    <3>2. u \in Bytes(2) /\ \A i \in 1..2 : u[i] = b[i]
      BY <2>3, <2>5, <3>1, Prefix
    <3> HIDE DEF u
    <3>3. MotorRequestHeader \in Bytes(2)
          /\ MotorRequestHeader[1] = \h55 /\ MotorRequestHeader[2] = \hAA
      BY DEF MotorRequestHeader, Bytes, Byte
    <3>4. b[1] = \h55 /\ b[2] = \hAA
      <4>1. b[2 * 1 - 1] = High(x[1]) /\ b[2 * 1] = Low(x[1])
        BY <2>6
      <4> QED  BY <1>2, <4>1
    <3>5. u[1] = MotorRequestHeader[1] /\ u[2] = MotorRequestHeader[2]
      BY <3>2, <3>3, <3>4
    <3>6. \A i \in 1..2 : u[i] = MotorRequestHeader[i]
      BY <3>5
    <3>7. u = MotorRequestHeader
      BY <3>1, <3>2, <3>3, <3>6, SameBytes
    <3> QED  BY <3>7 DEF u
  <2>8. Len(b) = 32
    <3>1. PICK n \in Nat : n = 32
      BY <2>3
    <3>2. b \in Bytes(n)
      BY <2>5, <3>1
    <3>3. Len(b) = n
      BY <3>2, BytesAre
    <3> QED  BY <3>1, <3>3
  <2>9. MotorChecksum(b) = Last(b)
    <3>1. Len(r.body) >= 4 /\ SubSeq(r.body, 1, 2) \in {MotorRequestHeader, MotorResponseHeader}
      <4>1. Len(b) >= 4
        BY <2>8
      <4> QED  BY <2>7, <4>1, Zenon DEF b, Part
    <3> QED  BY <2>4, <3>1, Zenon DEF validate_motor_checksum, b
  <2>10. Last(b) = b[32]
    BY <2>8, Zenon DEF Last
  <2> QED  BY <2>5, <2>6, <2>9, <2>10 DEF b
<1> DEFINE b == p.body
           c == q.body
<1>3. w[1] = v[1]
  OBVIOUS
<1>4. /\ b \in Bytes(32) /\ MotorChecksum(b) = b[32]
      /\ \A i \in 1..16 : b[2 * i - 1] = High(v[i]) /\ b[2 * i] = Low(v[i])
  BY <1>2
<1>5. /\ c \in Bytes(32) /\ MotorChecksum(c) = c[32]
      /\ \A i \in 1..16 : c[2 * i - 1] = High(w[i]) /\ c[2 * i] = Low(w[i])
  BY <1>2, <1>3
<1> HIDE DEF b, c
<1>6. ASSUME NEW j \in 1..31 PROVE b[j] = c[j]
  <2>1. \/ \E i \in 1..16 : j = 2 * i - 1
        \/ \E i \in 1..15 : j = 2 * i
    <3>1. j = 2 * (j \div 2) \/ j = 2 * (j \div 2) + 1
      OBVIOUS
    <3>2. CASE j = 2 * (j \div 2)
      <4>1. j \div 2 \in 1..15
        BY <3>2
      <4> QED  BY <3>2, <4>1
    <3>3. CASE j = 2 * (j \div 2) + 1
      <4>1. (j \div 2) + 1 \in 1..16 /\ j = 2 * ((j \div 2) + 1) - 1
        BY <3>3
      <4> QED  BY <4>1
    <3> QED  BY <3>1, <3>2, <3>3
  <2>2. CASE \E i \in 1..16 : j = 2 * i - 1
    <3>1. PICK i \in 1..16 : j = 2 * i - 1
      BY <2>2
    <3>2. b[2 * i - 1] = High(v[i]) /\ c[2 * i - 1] = High(w[i])
      BY <1>4, <1>5, <3>1
    <3>3. High(v[i]) = High(w[i])
      <4>1. i \in 1..15 \/ i = 16
        BY <3>1
      <4> QED  BY <4>1
    <3> QED  BY <3>1, <3>2, <3>3
  <2>3. CASE \E i \in 1..15 : j = 2 * i
    <3>1. PICK i \in 1..15 : j = 2 * i
      BY <2>3
    <3>2. i \in 1..16 /\ v[i] = w[i]
      BY <3>1
    <3>3. b[2 * i] = Low(v[i]) /\ c[2 * i] = Low(w[i])
      BY <1>4, <1>5, <3>2
    <3>4. Low(v[i]) = Low(w[i])
      BY <3>2
    <3> QED  BY <3>1, <3>3, <3>4
  <2> QED  BY <2>1, <2>2, <2>3
<1>7. MotorChecksum(b) = MotorChecksum(c)
  <2>1. PICK n \in Nat : n = 31
    OBVIOUS
  <2>2. /\ n >= 2 /\ b \in Bytes(n + 1) /\ c \in Bytes(n + 1)
        /\ \A i \in 3..n : b[i] = c[i]
    BY <1>4, <1>5, <1>6, <2>1
  <2> QED  BY <2>2, MotorChecksumSame
<1>8. b[32] = Low(v[16]) /\ c[32] = Low(w[16])
  <2>1. b[2 * 16] = Low(v[16]) /\ c[2 * 16] = Low(w[16])
    BY <1>4, <1>5
  <2> QED  BY <2>1
<1>9. b[32] # c[32]
  BY <1>8
<1>10. MotorChecksum(b) = b[32] /\ MotorChecksum(c) = c[32]
  BY <1>4, <1>5
<1>11. b[32] = c[32]
  BY <1>7, <1>10
<1> QED  BY <1>9, <1>11
=============================================================================
