----------------------- MODULE StreamReassemblyProofs -----------------------
(***************************************************************************)
(* Proofs about StreamReassembly, for any number of items, parts and       *)
(* deltas: what the parsers hold of a stream that may be cut anywhere is   *)
(* what was said, and a message streamed to its end reads as the document. *)
(*                                                                         *)
(* The contents are flattened sequences. FlattenSeq is a recursion over    *)
(* its argument, and a proof by induction here says that there is no least *)
(* counterexample (WFMin); the first sections do this once, for the facts  *)
(* about FlattenSeq that all that follows is put together from.            *)
(***************************************************************************)
EXTENDS StreamReassembly, SequenceTheorems, FiniteSetTheorems, WellFoundedInduction, TLAPS

-----------------------------------------------------------------------------
(* Induction, as the existence of a least counterexample.                  *)

(* A set of numbers that is not empty has a least one.                     *)
LEMMA LeastOf ==
  ASSUME NEW T, T \subseteq Nat, T # {}
  PROVE  \E n \in T : \A m \in T : n <= m
<1>1. PICK n \in T : \A m \in T : ~(<<m, n>> \in OpToRel(<, Nat))
  BY WFMin, NatLessThanWellFounded
<1>2. \A m \in T : ~(m < n)
  BY <1>1 DEF OpToRel
<1>3. QED
  BY <1>2

(* What holds of 0, and of m when of m - 1, holds up to n: no              *)
(* counterexample is the least.                                            *)
LEMMA Induction ==
  ASSUME NEW n \in Nat, NEW Good, 0 \in Good,
         \A m \in 1..n : m - 1 \in Good => m \in Good
  PROVE  0..n \subseteq Good
<1> SUFFICES ASSUME (0..n) \ Good # {} PROVE FALSE
  OBVIOUS
<1>0. (0..n) \ Good \subseteq Nat
  OBVIOUS
<1>1. PICK m \in (0..n) \ Good : \A k \in (0..n) \ Good : m <= k
  BY <1>0, LeastOf
<1>2. m - 1 \in 0..n /\ m - 1 < m
  BY <1>1
<1>3. m - 1 \in Good
  BY <1>1, <1>2
<1>4. QED
  BY <1>1, <1>3

-----------------------------------------------------------------------------
(* FlattenSeq                                                              *)

(* "f" holds the flattened prefixes of ss.                                 *)
IsFlat(f, ss) ==
  f = [i \in 1..Len(ss) |-> IF i = 1 THEN ss[i] ELSE f[i - 1] \o ss[i]]

FlatPrefixes(f, ss) ==
  /\ f[0] = <<>>
  /\ \A i \in 1..Len(ss) : f[i] = f[i - 1] \o ss[i]

(* Any sequence of sequences has flattened prefixes.                       *)
LEMMA PrefixesExist ==
  ASSUME NEW X, NEW ss \in Seq(Seq(X))
  PROVE  \E f \in [0..Len(ss) -> Seq(X)] : FlatPrefixes(f, ss)
<1> DEFINE n == Len(ss)
           Good == {m \in 0..n : \E f \in [0..m -> Seq(X)] :
                      /\ f[0] = <<>>
                      /\ \A i \in 1..m : f[i] = f[i - 1] \o ss[i]}
<1>1. n \in Nat /\ \A i \in 1..n : ss[i] \in Seq(X)
  OBVIOUS
<1> HIDE DEF n
<1>2. 0 \in Good
  <2> DEFINE f == [i \in 0..0 |-> <<>>]
  <2>1. f \in [0..0 -> Seq(X)] /\ f[0] = <<>>
    OBVIOUS
  <2>2. \A i \in 1..0 : f[i] = f[i - 1] \o ss[i]
    OBVIOUS
  <2>3. 0 \in 0..n
    BY <1>1
  <2> HIDE DEF f
  <2>4. QED
    BY <2>1, <2>2, <2>3
<1>3. ASSUME NEW m \in 1..n, m - 1 \in Good PROVE m \in Good
  <2>1. PICK f \in [0..(m - 1) -> Seq(X)] :
          f[0] = <<>> /\ \A i \in 1..(m - 1) : f[i] = f[i - 1] \o ss[i]
    BY <1>3
  <2> DEFINE g == [i \in 0..m |-> IF i = m THEN f[m - 1] \o ss[m] ELSE f[i]]
  <2>2. f[m - 1] \in Seq(X) /\ ss[m] \in Seq(X) /\ m \in 0..n
    BY <1>1, <2>1
  <2>3. f[m - 1] \o ss[m] \in Seq(X)
    BY <2>2, ConcatProperties
  <2>4. g \in [0..m -> Seq(X)]
    BY <1>1, <2>1, <2>3
  <2>5. g[0] = <<>>
    BY <1>1, <2>1
  <2>6. ASSUME NEW i \in 1..m PROVE g[i] = g[i - 1] \o ss[i]
    <3>1. i - 1 \in 0..m /\ i - 1 # m /\ g[i - 1] = f[i - 1]
      BY <1>1
    <3>2. CASE i = m
      <4>1. m \in 0..m
        BY <1>1
      <4>2. g[m] = f[m - 1] \o ss[m]
        BY <4>1
      <4> HIDE DEF g
      <4>3. QED
        BY <3>1, <3>2, <4>2
    <3>3. CASE i # m
      <4>1. i \in 1..(m - 1) /\ i \in 0..m
        BY <3>3, <1>1
      <4>2. g[i] = f[i] /\ f[i] = f[i - 1] \o ss[i]
        BY <3>3, <4>1, <2>1
      <4>3. QED
        BY <3>1, <4>2
    <3>4. QED
      BY <3>2, <3>3
  <2>7. QED
    BY <2>2, <2>4, <2>5, <2>6
<1>4. n \in Good
  <2> HIDE DEF Good
  <2>1. 0..n \subseteq Good
    BY <1>1, <1>2, <1>3, Induction
  <2>2. QED
    BY <1>1, <2>1
<1>5. QED
  BY <1>4 DEF FlatPrefixes, n

(* FlattenSeq is the last of the flattened prefixes.                       *)
LEMMA FlattenPrefixes ==
  ASSUME NEW X, NEW ss \in Seq(Seq(X))
  PROVE  \E f \in [0..Len(ss) -> Seq(X)] : FlatPrefixes(f, ss) /\ FlattenSeq(ss) = f[Len(ss)]
<1>1. PICK f \in [0..Len(ss) -> Seq(X)] : FlatPrefixes(f, ss)
  BY PrefixesExist
<1>2. CASE Len(ss) = 0
  <2>1. ss = <<>>
    BY <1>2
  <2>2. QED
    BY <1>1, <1>2, <2>1 DEF FlattenSeq, FlatPrefixes
<1>3. CASE Len(ss) # 0
  <2> DEFINE n == Len(ss)
             h == CHOOSE h : IsFlat(h, ss)
  <2>1. n \in Nat /\ n > 0 /\ \A i \in 1..n : ss[i] \in Seq(X)
    BY <1>3
  <2>2. \E g : IsFlat(g, ss)
    <3> DEFINE g == [i \in 1..n |-> f[i]]
    <3>1. ASSUME NEW i \in 1..n
          PROVE  g[i] = IF i = 1 THEN ss[i] ELSE g[i - 1] \o ss[i]
      <4>1. f[i] = f[i - 1] \o ss[i] /\ f[0] = <<>>
        BY <1>1 DEF FlatPrefixes
      <4>2. CASE i = 1
        <5>1. i - 1 = 0 /\ ss[i] \in Seq(X)
          BY <4>2, <2>1
        <5>2. f[i] = <<>> \o ss[i]
          BY <4>1, <5>1
        <5>3. QED
          BY <4>2, <5>1, <5>2, ConcatEmptySeq
      <4>3. CASE i # 1
        <5>1. i - 1 \in 1..n
          BY <4>3, <2>1
        <5>2. QED
          BY <4>1, <4>3, <5>1
      <4>4. QED
        BY <4>2, <4>3
    <3>2. g = [i \in 1..n |-> IF i = 1 THEN ss[i] ELSE g[i - 1] \o ss[i]]
      BY <3>1
    <3>3. QED
      BY <3>2 DEF IsFlat
  <2>3. IsFlat(h, ss)
    BY <2>2
  <2>4. FlattenSeq(ss) = h[n]
    BY <1>3 DEF FlattenSeq, IsFlat
  <2> HIDE DEF h
  <2> DEFINE Good == {m \in 0..n : m = 0 \/ h[m] = f[m]}
  <2>5. ASSUME NEW m \in 1..n, m - 1 \in Good PROVE m \in Good
    <3>1. h[m] = IF m = 1 THEN ss[m] ELSE h[m - 1] \o ss[m]
      BY <2>3 DEF IsFlat
    <3>2. f[m] = f[m - 1] \o ss[m] /\ f[0] = <<>>
      BY <1>1 DEF FlatPrefixes
    <3>3. CASE m = 1
      <4>1. ss[m] = <<>> \o ss[m] /\ m - 1 = 0
        BY <3>3, <2>1, ConcatEmptySeq
      <4>2. h[m] = f[m]
        BY <3>1, <3>2, <3>3, <4>1
      <4>3. QED
        BY <4>2, <2>1
    <3>4. CASE m # 1
      <4>1. h[m - 1] = f[m - 1]
        BY <2>5, <3>4, <2>1
      <4>2. h[m] = f[m]
        BY <3>1, <3>2, <3>4, <4>1
      <4>3. QED
        BY <4>2, <2>1
    <3>5. QED
      BY <3>3, <3>4
  <2>6. n \in Good
    <3>1. 0 \in Good
      BY <2>1
    <3> HIDE DEF Good
    <3>2. 0..n \subseteq Good
      BY <2>1, <2>5, <3>1, Induction
    <3>3. QED
      BY <2>1, <3>2
  <2>7. QED
    BY <1>1, <2>1, <2>4, <2>6
<1>4. QED
  BY <1>2, <1>3

(* What computes the prefixes computes the whole.                          *)
LEMMA FlattenIs ==
  ASSUME NEW X, NEW ss \in Seq(Seq(X)), NEW g, FlatPrefixes(g, ss)
  PROVE  FlattenSeq(ss) = g[Len(ss)]
<1> DEFINE n == Len(ss)
<1>1. PICK f \in [0..n -> Seq(X)] : FlatPrefixes(f, ss) /\ FlattenSeq(ss) = f[n]
  BY FlattenPrefixes
<1>2. n \in Nat
  OBVIOUS
<1> DEFINE Good == {m \in 0..n : g[m] = f[m]}
<1>3. 0 \in Good
  BY <1>1, <1>2 DEF FlatPrefixes
<1>4. ASSUME NEW m \in 1..n, m - 1 \in Good PROVE m \in Good
  <2>1. f[m] = f[m - 1] \o ss[m] /\ g[m] = g[m - 1] \o ss[m]
    BY <1>1 DEF FlatPrefixes
  <2>2. g[m - 1] = f[m - 1]
    BY <1>4
  <2>3. m \in 0..n
    BY <1>2
  <2>4. QED
    BY <2>1, <2>2, <2>3
<1>5. n \in Good
  <2> HIDE DEF Good, n
  <2>1. 0..n \subseteq Good
    BY <1>2, <1>3, <1>4, Induction
  <2>2. QED
    BY <1>2, <2>1
<1>6. QED
  BY <1>1, <1>5

(* Flattened, sequences over X are a sequence over X.                      *)
LEMMA FlattenType ==
  ASSUME NEW X, NEW ss \in Seq(Seq(X))
  PROVE  FlattenSeq(ss) \in Seq(X)
<1>1. PICK f \in [0..Len(ss) -> Seq(X)] : FlattenSeq(ss) = f[Len(ss)]
  BY FlattenPrefixes
<1>2. Len(ss) \in 0..Len(ss)
  OBVIOUS
<1>3. QED
  BY <1>1, <1>2

(* Nothing flattens to nothing.                                            *)
LEMMA FlattenEmpty == FlattenSeq(<<>>) = <<>>
BY DEF FlattenSeq

(* One more sequence is one more at the end.                               *)
LEMMA FlattenAppend ==
  ASSUME NEW X, NEW ss \in Seq(Seq(X)), NEW t \in Seq(X)
  PROVE  FlattenSeq(Append(ss, t)) = FlattenSeq(ss) \o t
<1> DEFINE n == Len(ss)
           tt == Append(ss, t)
<1>1. PICK f \in [0..n -> Seq(X)] : FlatPrefixes(f, ss) /\ FlattenSeq(ss) = f[n]
  BY FlattenPrefixes
<1>2. /\ n \in Nat /\ tt \in Seq(Seq(X)) /\ Len(tt) = n + 1 /\ tt[n + 1] = t
      /\ \A i \in 1..n : tt[i] = ss[i]
  OBVIOUS
<1> DEFINE g == [i \in 0..(n + 1) |-> IF i = n + 1 THEN f[n] \o t ELSE f[i]]
<1>3. g[n + 1] = f[n] \o t /\ \A i \in 0..n : g[i] = f[i]
  BY <1>2
<1>6. n \in Nat
  BY <1>2
<1> HIDE DEF g, tt, n
<1>4. FlatPrefixes(g, tt)
  <2>1. g[0] = <<>>
    <3>1. 0 \in 0..n
      BY <1>6
    <3>2. f[0] = <<>>
      BY <1>1 DEF FlatPrefixes
    <3>3. QED
      BY <1>3, <3>1, <3>2
  <2>2. ASSUME NEW i \in 1..(n + 1) PROVE g[i] = g[i - 1] \o tt[i]
    <3>1. CASE i = n + 1
      <4>1. i - 1 = n /\ n \in 0..n
        BY <3>1, <1>6
      <4>2. QED
        BY <3>1, <4>1, <1>2, <1>3
    <3>2. CASE i \in 1..n
      <4>1. i - 1 \in 0..n /\ i \in 0..n
        BY <3>2, <1>2
      <4>2. f[i] = f[i - 1] \o ss[i]
        BY <3>2, <1>1 DEF FlatPrefixes, n
      <4>3. g[i] = f[i] /\ g[i - 1] = f[i - 1]
        BY <4>1, <1>3
      <4>4. tt[i] = ss[i]
        BY <3>2, <1>2
      <4>5. QED
        BY <4>2, <4>3, <4>4
    <3>3. i = n + 1 \/ i \in 1..n
      BY <1>6
    <3>4. QED
      BY <3>1, <3>2, <3>3
  <2>3. QED
    BY <2>1, <2>2, <1>2 DEF FlatPrefixes
<1>5. QED
  BY <1>1, <1>2, <1>3, <1>4, FlattenIs DEF tt

(* One sequence flattens to itself.                                        *)
LEMMA FlattenOne ==
  ASSUME NEW X, NEW t \in Seq(X)
  PROVE  FlattenSeq(<<t>>) = t
<1>1. Append(<<>>, t) = <<t>> /\ <<>> \in Seq(Seq(X)) /\ <<>> \o t = t
  BY ConcatEmptySeq
<1>2. QED
  BY <1>1, FlattenAppend, FlattenEmpty

(* Of sequences that are empty but for one, that one is left.              *)
LEMMA FlattenOnly ==
  ASSUME NEW X, NEW ss \in Seq(Seq(X)), NEW k \in 1..Len(ss),
         \A i \in 1..Len(ss) : i # k => ss[i] = <<>>
  PROVE  FlattenSeq(ss) = ss[k]
<1> DEFINE n == Len(ss)
           g == [i \in 0..n |-> IF i < k THEN <<>> ELSE ss[k]]
<1>1. ss[k] \in Seq(X)
  OBVIOUS
<1>2. \A i \in 0..n : g[i] = IF i < k THEN <<>> ELSE ss[k]
  OBVIOUS
<1>3. n \in Nat /\ k \in Nat /\ 0 < k /\ k <= n
  OBVIOUS
<1>4. <<>> \o ss[k] = ss[k] /\ ss[k] \o <<>> = ss[k] /\ <<>> \o <<>> = <<>>
  BY <1>1, ConcatEmptySeq
<1>5. \A i \in 1..n : i # k => ss[i] = <<>>
  OBVIOUS
<1> HIDE DEF g, n
<1>6. g[0] = <<>>
  BY <1>2, <1>3
<1>7. ASSUME NEW i \in 1..n PROVE g[i] = g[i - 1] \o ss[i]
  <2>1. i \in 0..n /\ i - 1 \in 0..n
    BY <1>3
  <2>2. CASE i < k
    <3>1. i - 1 < k /\ i # k
      BY <1>3, <2>2
    <3>2. QED
      BY <1>2, <1>4, <1>5, <2>1, <2>2, <3>1
  <2>3. CASE i = k
    <3>1. i - 1 < k /\ ~(i < k)
      BY <1>3, <2>3
    <3>2. QED
      BY <1>2, <1>4, <2>1, <2>3, <3>1
  <2>4. CASE i > k
    <3>1. ~(i - 1 < k) /\ ~(i < k) /\ i # k
      BY <1>3, <2>4
    <3>2. QED
      BY <1>2, <1>4, <1>5, <2>1, <3>1
  <2>5. i < k \/ i = k \/ i > k
    BY <1>3
  <2>6. QED
    BY <2>2, <2>3, <2>4, <2>5
<1>8. FlatPrefixes(g, ss)
  BY <1>6, <1>7 DEF FlatPrefixes, n
<1>9. g[n] = ss[k]
  <2>1. n \in 0..n /\ ~(n < k)
    BY <1>3
  <2>2. QED
    BY <1>2, <2>1
<1>10. QED
  BY <1>8, <1>9, FlattenIs DEF n

(* Empty sequences flatten to the empty one.                               *)
LEMMA FlattenNone ==
  ASSUME NEW X, NEW ss \in Seq(Seq(X)), \A i \in 1..Len(ss) : ss[i] = <<>>
  PROVE  FlattenSeq(ss) = <<>>
<1>1. CASE Len(ss) = 0
  BY <1>1, FlattenEmpty
<1>2. CASE Len(ss) # 0
  <2>1. 1 \in 1..Len(ss)
    BY <1>2
  <2>2. QED
    BY <2>1, FlattenOnly
<1>3. QED
  BY <1>1, <1>2

Cat(s, t) == s \o t

(* Concatenation is associative.                                           *)
LEMMA CatAssociative ==
  ASSUME NEW X, NEW s \in Seq(X), NEW t \in Seq(X), NEW u \in Seq(X)
  PROVE  Cat(s, Cat(t, u)) = Cat(Cat(s, t), u)
<1>1. s \o (t \o u) = (s \o t) \o u
  OBVIOUS
<1>2. QED
  BY <1>1 DEF Cat

(* FlattenSeq takes a concatenation to a concatenation.                    *)
LEMMA FlattenConcat ==
  ASSUME NEW X, NEW ss \in Seq(Seq(X)), NEW tt \in Seq(Seq(X))
  PROVE  FlattenSeq(ss \o tt) = FlattenSeq(ss) \o FlattenSeq(tt)
<1> DEFINE n == Len(ss)
           m == Len(tt)
           uu == ss \o tt
<1>1. PICK a \in [0..n -> Seq(X)] : FlatPrefixes(a, ss) /\ FlattenSeq(ss) = a[n]
  BY FlattenPrefixes
<1>2. PICK b \in [0..m -> Seq(X)] : FlatPrefixes(b, tt) /\ FlattenSeq(tt) = b[m]
  BY FlattenPrefixes
<1>3. /\ n \in Nat /\ m \in Nat /\ uu \in Seq(Seq(X)) /\ Len(uu) = n + m
      /\ \A i \in 1..n : uu[i] = ss[i]
      /\ \A i \in 1..m : uu[n + i] = tt[i] /\ tt[i] \in Seq(X)
  <2>1. /\ uu \in Seq(Seq(X)) /\ Len(uu) = n + m
        /\ \A i \in 1..(n + m) : uu[i] = IF i <= n THEN ss[i] ELSE tt[i - n]
    BY ConcatProperties
  <2>2. n \in Nat /\ m \in Nat /\ \A i \in 1..m : tt[i] \in Seq(X)
    OBVIOUS
  <2> HIDE DEF n, m, uu
  <2>3. \A i \in 1..m : n + i \in 1..(n + m) /\ ~(n + i <= n) /\ (n + i) - n = i
    BY <2>2
  <2>4. \A i \in 1..n : i \in 1..(n + m) /\ i <= n
    BY <2>2
  <2>5. QED
    BY <2>1, <2>2, <2>3, <2>4
<1> DEFINE g == [i \in 0..(n + m) |-> IF i <= n THEN a[i] ELSE a[n] \o b[i - n]]
<1>4. \A i \in 0..(n + m) : g[i] = IF i <= n THEN a[i] ELSE a[n] \o b[i - n]
  OBVIOUS
<1>5. a[n] \in Seq(X) /\ b[0] = <<>> /\ a[0] = <<>>
  <2>1. n \in 0..n
    OBVIOUS
  <2>2. QED
    BY <1>1, <1>2, <2>1 DEF FlatPrefixes
<1>6. \A i \in 0..m : g[n + i] = a[n] \o b[i]
  <2> TAKE i \in 0..m
  <2>1. n + i \in 0..(n + m) /\ (n + i) - n = i
    BY <1>3
  <2>2. CASE i = 0
    <3>1. n + i = n /\ n <= n
      BY <2>2, <1>3
    <3>2. a[n] = a[n] \o b[i]
      BY <2>2, <1>5, ConcatEmptySeq
    <3>3. QED
      BY <2>1, <3>1, <3>2, <1>4
  <2>3. CASE i # 0
    <3>1. ~(n + i <= n)
      BY <2>3, <1>3
    <3>2. QED
      BY <2>1, <3>1, <1>4
  <2>4. QED
    BY <2>2, <2>3
<1>11. n \in Nat /\ m \in Nat
  OBVIOUS
<1> HIDE DEF g, uu, n, m
<1>7. FlatPrefixes(g, uu)
  <2>1. g[0] = <<>>
    BY <1>3, <1>4, <1>5
  <2>2. ASSUME NEW i \in 1..(n + m) PROVE g[i] = g[i - 1] \o uu[i]
    <3>1. CASE i \in 1..n
      <4>1. i \in 0..(n + m) /\ i - 1 \in 0..(n + m) /\ i <= n /\ i - 1 <= n
        BY <3>1, <1>3
      <4>2. a[i] = a[i - 1] \o ss[i]
        BY <3>1, <1>1 DEF FlatPrefixes, n
      <4>3. QED
        BY <3>1, <4>1, <4>2, <1>3, <1>4
    <3>2. CASE ~(i <= n)
      <4> DEFINE j == i - n
      <4>1. j \in 1..m /\ j \in 0..m /\ j - 1 \in 0..m /\ n + j = i /\ n + (j - 1) = i - 1
        BY <3>2, <1>11
      <4> HIDE DEF j
      <4>2. b[j] = b[j - 1] \o tt[j]
        BY <4>1, <1>2 DEF FlatPrefixes, m
      <4>3. g[i] = a[n] \o (b[j - 1] \o tt[j]) /\ g[i - 1] = a[n] \o b[j - 1]
        BY <4>1, <4>2, <1>6
      <4>4. b[j - 1] \in Seq(X) /\ tt[j] \in Seq(X)
        BY <4>1, <1>2, <1>3
      <4>5. a[n] \o (b[j - 1] \o tt[j]) = (a[n] \o b[j - 1]) \o tt[j]
        <5>1. a[n] \in Seq(X)
          BY <1>5
        <5> DEFINE u == a[n]
                   v == b[j - 1]
                   w == tt[j]
        <5>2. u \in Seq(X) /\ v \in Seq(X) /\ w \in Seq(X)
          BY <5>1, <4>4
        <5> HIDE DEF u, v, w
        <5>3. Cat(u, Cat(v, w)) = Cat(Cat(u, v), w)
          BY <5>2, CatAssociative
        <5>4. QED
          BY <5>3 DEF Cat, u, v, w
      <4>6. uu[i] = tt[j]
        BY <4>1, <1>3
      <4>7. QED
        BY <4>3, <4>5, <4>6
    <3>3. i \in 1..n \/ ~(i <= n)
      BY <1>11
    <3>4. QED
      BY <3>1, <3>2, <3>3
  <2>3. QED
    BY <2>1, <2>2, <1>3 DEF FlatPrefixes
<1>8. g[n + m] = a[n] \o b[m]
  <2>1. m \in 0..m
    BY <1>11
  <2>2. QED
    BY <1>6, <2>1
<1>9. FlattenSeq(uu) = g[Len(uu)]
  BY <1>3, <1>7, FlattenIs
<1>10. QED
  BY <1>1, <1>2, <1>3, <1>8, <1>9 DEF uu

-----------------------------------------------------------------------------
(* Images of sequences                                                     *)

(* What "put" makes of every element of s, in order.                       *)
Puts(put, X, Y) == put \in [X -> Seq(Y)]
Images(put, s) == [n \in DOMAIN s |-> put[s[n]]]
Each(put, s) == FlattenSeq(Images(put, s))

HasImages(put, s, Y) ==
  /\ Images(put, s) \in Seq(Seq(Y)) /\ Len(Images(put, s)) = Len(s)
  /\ \A n \in 1..Len(s) : Images(put, s)[n] = put[s[n]]

(* The images of a sequence, and what they flatten to.                     *)
LEMMA EachType ==
  ASSUME NEW X, NEW Y, NEW put, Puts(put, X, Y), NEW s \in Seq(X)
  PROVE  HasImages(put, s, Y) /\ Each(put, s) \in Seq(Y)
<1> DEFINE t == [n \in DOMAIN s |-> put[s[n]]]
<1>1. DOMAIN s = 1..Len(s) /\ Len(s) \in Nat
  OBVIOUS
<1>2. \A n \in 1..Len(s) : put[s[n]] \in Seq(Y)
  BY DEF Puts
<1>3. t \in Seq(Seq(Y)) /\ Len(t) = Len(s)
  BY <1>1, <1>2
<1>4. t = Images(put, s) /\ \A n \in 1..Len(s) : t[n] = put[s[n]]
  BY <1>1 DEF Images
<1> HIDE DEF t
<1>5. QED
  BY <1>3, <1>4, FlattenType DEF Each, HasImages

(* Each takes a concatenation to a concatenation.                          *)
LEMMA EachConcat ==
  ASSUME NEW X, NEW Y, NEW put, Puts(put, X, Y), NEW s \in Seq(X), NEW t \in Seq(X)
  PROVE  Each(put, s \o t) = Each(put, s) \o Each(put, t)
<1> DEFINE a == Images(put, s)
           b == Images(put, t)
           u == s \o t
           c == Images(put, u)
<1>1. /\ a \in Seq(Seq(Y)) /\ Len(a) = Len(s)
      /\ \A n \in 1..Len(s) : a[n] = put[s[n]]
  <2>1. HasImages(put, s, Y)
    BY EachType
  <2>2. QED
    BY <2>1 DEF HasImages
<1>2. /\ b \in Seq(Seq(Y)) /\ Len(b) = Len(t)
      /\ \A n \in 1..Len(t) : b[n] = put[t[n]]
  <2>1. HasImages(put, t, Y)
    BY EachType
  <2>2. QED
    BY <2>1 DEF HasImages
<1>3. /\ u \in Seq(X) /\ Len(u) = Len(s) + Len(t)
      /\ \A n \in 1..(Len(s) + Len(t)) :
           u[n] = IF n <= Len(s) THEN s[n] ELSE t[n - Len(s)]
  BY ConcatProperties
<1> HIDE DEF u
<1>4. /\ c \in Seq(Seq(Y)) /\ Len(c) = Len(s) + Len(t)
      /\ \A n \in 1..(Len(s) + Len(t)) : c[n] = put[u[n]]
  <2>1. /\ c \in Seq(Seq(Y)) /\ Len(c) = Len(u)
        /\ \A n \in 1..Len(u) : c[n] = put[u[n]]
    <3>1. u \in Seq(X)
      BY <1>3
    <3>2. HasImages(put, u, Y)
      BY <3>1, EachType
    <3>3. QED
      BY <3>2 DEF HasImages
  <2>2. QED
    BY <1>3, <2>1
<1> HIDE DEF a, b, c
<1>5. /\ a \o b \in Seq(Seq(Y)) /\ Len(a \o b) = Len(s) + Len(t)
      /\ \A n \in 1..(Len(s) + Len(t)) :
           (a \o b)[n] = IF n <= Len(s) THEN a[n] ELSE b[n - Len(s)]
  <2>1. /\ a \o b \in Seq(Seq(Y)) /\ Len(a \o b) = Len(a) + Len(b)
        /\ \A n \in 1..(Len(a) + Len(b)) :
             (a \o b)[n] = IF n <= Len(a) THEN a[n] ELSE b[n - Len(a)]
    <3>1. a \in Seq(Seq(Y)) /\ b \in Seq(Seq(Y))
      BY <1>1, <1>2
    <3>2. QED
      BY <3>1, ConcatProperties
  <2>2. Len(a) = Len(s) /\ Len(b) = Len(t)
    BY <1>1, <1>2
  <2>3. QED
    BY <2>1, <2>2
<1>6. ASSUME NEW n \in 1..(Len(s) + Len(t)) PROVE c[n] = (a \o b)[n]
  <2>1. Len(s) \in Nat /\ Len(t) \in Nat
    OBVIOUS
  <2>4. /\ c[n] = put[u[n]]
        /\ u[n] = IF n <= Len(s) THEN s[n] ELSE t[n - Len(s)]
        /\ (a \o b)[n] = IF n <= Len(s) THEN a[n] ELSE b[n - Len(s)]
    BY <1>3, <1>4, <1>5
  <2>2. CASE n <= Len(s)
    <3>1. n \in 1..Len(s)
      BY <2>1, <2>2
    <3>2. a[n] = put[s[n]]
      BY <1>1, <3>1
    <3>3. QED
      BY <2>2, <2>4, <3>2
  <2>3. CASE ~(n <= Len(s))
    <3>1. n - Len(s) \in 1..Len(t)
      BY <2>1, <2>3
    <3>2. b[n - Len(s)] = put[t[n - Len(s)]]
      BY <1>2, <3>1
    <3>3. QED
      BY <2>3, <2>4, <3>2
  <2>5. QED
    BY <2>2, <2>3
<1>7. c = a \o b
  <2> DEFINE d == a \o b
  <2>1. c \in Seq(Seq(Y)) /\ d \in Seq(Seq(Y)) /\ Len(c) = Len(d)
    BY <1>4, <1>5
  <2>2. \A n \in 1..Len(c) : c[n] = d[n]
    BY <1>4, <1>6
  <2> HIDE DEF d
  <2>3. c = d
    BY <2>1, <2>2, SeqEqual
  <2>4. QED
    BY <2>3 DEF d
<1>8. QED
  BY <1>1, <1>2, <1>7, FlattenConcat DEF Each, a, b, c, u

(* Each of a flattened sequence is that of its pieces, flattened.          *)
LEMMA EachFlatten ==
  ASSUME NEW X, NEW Y, NEW put, Puts(put, X, Y), NEW ss \in Seq(Seq(X))
  PROVE  Each(put, FlattenSeq(ss)) = FlattenSeq([i \in DOMAIN ss |-> Each(put, ss[i])])
<1> DEFINE n == Len(ss)
           tt == [i \in DOMAIN ss |-> Each(put, ss[i])]
<1>1. PICK f \in [0..n -> Seq(X)] : FlatPrefixes(f, ss) /\ FlattenSeq(ss) = f[n]
  BY FlattenPrefixes
<1>2. n \in Nat /\ DOMAIN ss = 1..n /\ \A i \in 1..n : ss[i] \in Seq(X)
  OBVIOUS
<1>3. \A i \in 1..n : Each(put, ss[i]) \in Seq(Y)
  BY <1>2, EachType
<1>4. tt \in Seq(Seq(Y)) /\ Len(tt) = n
  BY <1>2, <1>3
<1>5. \A i \in 1..n : tt[i] = Each(put, ss[i])
  BY <1>2
<1> DEFINE g == [i \in 0..n |-> Each(put, f[i])]
<1>6. \A i \in 0..n : g[i] = Each(put, f[i])
  OBVIOUS
<1>7. 0 \in 0..n /\ n \in 0..n /\ \A i \in 1..n : i \in 0..n /\ i - 1 \in 0..n
  OBVIOUS
<1> HIDE DEF g, tt, n
<1>8. g[0] = <<>>
  <2>1. f[0] = <<>>
    BY <1>1 DEF FlatPrefixes
  <2>2. Images(put, <<>>) = <<>>
    BY DEF Images
  <2>3. Each(put, <<>>) = <<>>
    BY <2>2, FlattenEmpty DEF Each
  <2>4. QED
    BY <1>6, <1>7, <2>1, <2>3
<1>9. ASSUME NEW i \in 1..n PROVE g[i] = g[i - 1] \o tt[i]
  <2>1. f[i] = f[i - 1] \o ss[i]
    BY <1>1 DEF FlatPrefixes, n
  <2>2. f[i - 1] \in Seq(X) /\ ss[i] \in Seq(X)
    BY <1>1, <1>2, <1>7
  <2> DEFINE u == f[i - 1]
             v == ss[i]
  <2>3. Each(put, u \o v) = Each(put, u) \o Each(put, v)
    <3> HIDE DEF u, v
    <3>1. u \in Seq(X) /\ v \in Seq(X)
      BY <2>2 DEF u, v
    <3>2. QED
      BY <3>1, EachConcat
  <2>4. QED
    BY <1>5, <1>6, <1>7, <2>1, <2>3
<1>10. FlatPrefixes(g, tt)
  BY <1>4, <1>8, <1>9 DEF FlatPrefixes
<1>11. FlattenSeq(tt) = g[n]
  BY <1>4, <1>10, FlattenIs
<1>12. QED
  BY <1>1, <1>6, <1>7, <1>11 DEF tt

(* Related element by element, so are the flattened sequences.             *)
Alike(R, s, t) == Len(s) = Len(t) /\ \A n \in 1..Len(s) : <<s[n], t[n]>> \in R

(* Sequences that are alike piece by piece are alike when flattened.       *)
LEMMA FlattenAlike ==
  ASSUME NEW X, NEW ss \in Seq(Seq(X)), NEW tt \in Seq(Seq(X)), NEW R,
         Len(ss) = Len(tt), \A i \in 1..Len(ss) : Alike(R, ss[i], tt[i])
  PROVE  Alike(R, FlattenSeq(ss), FlattenSeq(tt))
<1> DEFINE n == Len(ss)
<1>1. PICK f \in [0..n -> Seq(X)] : FlatPrefixes(f, ss) /\ FlattenSeq(ss) = f[n]
  BY FlattenPrefixes
<1>2. PICK g \in [0..n -> Seq(X)] : FlatPrefixes(g, tt) /\ FlattenSeq(tt) = g[n]
  BY FlattenPrefixes
<1>3. n \in Nat /\ \A i \in 1..n : ss[i] \in Seq(X) /\ tt[i] \in Seq(X)
  OBVIOUS
<1> DEFINE Good == {m \in 0..n : Alike(R, f[m], g[m])}
<1>4. 0 \in 0..n /\ n \in 0..n /\ \A i \in 1..n : i \in 0..n /\ i - 1 \in 0..n
  OBVIOUS
<1>5. 0 \in Good
  <2>1. f[0] = <<>> /\ g[0] = <<>>
    BY <1>1, <1>2 DEF FlatPrefixes
  <2>2. Alike(R, <<>>, <<>>)
    BY DEF Alike
  <2>3. Alike(R, f[0], g[0])
    BY <2>1, <2>2
  <2>4. QED
    BY <1>4, <2>3
<1>6. ASSUME NEW m \in 1..n, m - 1 \in Good PROVE m \in Good
  <2> DEFINE s == f[m - 1]
             t == g[m - 1]
             u == ss[m]
             v == tt[m]
  <2>1. f[m] = s \o u /\ g[m] = t \o v
    BY <1>1, <1>2 DEF FlatPrefixes
  <2>2. s \in Seq(X) /\ t \in Seq(X) /\ u \in Seq(X) /\ v \in Seq(X)
    BY <1>3, <1>4
  <2>3. Alike(R, s, t) /\ Alike(R, u, v)
    BY <1>6
  <2> HIDE DEF s, t, u, v
  <2>4. Alike(R, s \o u, t \o v)
    <3>1. Len(s \o u) = Len(s) + Len(u) /\ Len(t \o v) = Len(s) + Len(u)
      <4>1. Len(s \o u) = Len(s) + Len(u) /\ Len(t \o v) = Len(t) + Len(v)
        BY <2>2, ConcatProperties
      <4>2. QED
        BY <4>1, <2>3 DEF Alike
    <3>2. ASSUME NEW k \in 1..(Len(s) + Len(u))
          PROVE  <<(s \o u)[k], (t \o v)[k]>> \in R
      <4>1. Len(s) \in Nat /\ Len(u) \in Nat /\ Len(s) = Len(t) /\ Len(u) = Len(v)
        BY <2>2, <2>3 DEF Alike
      <4>2. (s \o u)[k] = IF k <= Len(s) THEN s[k] ELSE u[k - Len(s)]
        BY <2>2, ConcatProperties
      <4>3. (t \o v)[k] = IF k <= Len(s) THEN t[k] ELSE v[k - Len(s)]
        BY <2>2, <4>1, ConcatProperties
      <4>4. CASE k <= Len(s)
        <5>1. k \in 1..Len(s)
          BY <4>1, <4>4
        <5>2. QED
          BY <2>3, <4>2, <4>3, <4>4, <5>1 DEF Alike
      <4>5. CASE ~(k <= Len(s))
        <5>1. k - Len(s) \in 1..Len(u)
          BY <4>1, <4>5
        <5>2. QED
          BY <2>3, <4>2, <4>3, <4>5, <5>1 DEF Alike
      <4>6. QED
        BY <4>4, <4>5
    <3>3. QED
      BY <3>1, <3>2 DEF Alike
  <2>5. Alike(R, f[m], g[m])
    BY <2>1, <2>4
  <2>6. QED
    BY <1>4, <2>5
<1>7. n \in Good
  <2> HIDE DEF Good, n
  <2>1. 0..n \subseteq Good
    BY <1>3, <1>5, <1>6, Induction
  <2>2. QED
    BY <1>4, <2>1
<1>8. QED
  BY <1>1, <1>2, <1>7

-----------------------------------------------------------------------------
(* Keys in order                                                           *)

Increasing(s, n) == \A l, m \in 1..n : l < m => s[l] < s[m]

(* The elements of a finite set of numbers can be put in order.            *)
LEMMA IncreasingExists ==
  ASSUME NEW N \in Nat, NEW S, S \subseteq 1..N
  PROVE  /\ IsFiniteSet(S)
         /\ \E s \in [1..Cardinality(S) -> S] : Increasing(s, Cardinality(S))
<1> DEFINE Low(m) == S \cap 1..m
           Fits(s, m) == /\ IsFiniteSet(Low(m))
                         /\ s \in [1..Cardinality(Low(m)) -> Low(m)]
                         /\ Increasing(s, Cardinality(Low(m)))
           Good == {m \in 0..N : \E s : Fits(s, m)}
<1>1. 0 \in Good
  <2> DEFINE s == [i \in 1..0 |-> 0]
  <2>1. Low(0) = {}
    OBVIOUS
  <2>2. IsFiniteSet(Low(0)) /\ Cardinality(Low(0)) = 0
    BY <2>1, FS_EmptySet
  <2>3. s \in [1..0 -> Low(0)] /\ Increasing(s, 0)
    BY DEF Increasing
  <2>4. 0 \in 0..N /\ Fits(s, 0)
    BY <2>2, <2>3
  <2> HIDE DEF Fits
  <2>5. QED
    BY <2>4
<1>2. ASSUME NEW m \in 1..N, m - 1 \in Good PROVE m \in Good
  <2>1. PICK s : Fits(s, m - 1)
    BY <1>2
  <2> DEFINE A == Low(m - 1)
             c == Cardinality(A)
  <2>2. c \in Nat /\ A \subseteq Low(m) /\ \A x \in A : x \in Int /\ x < m
    BY <2>1, FS_CardinalityType
  <2>3. CASE m \notin S
    <3>1. Low(m) = A
      BY <2>3
    <3>2. Fits(s, m)
      BY <2>1, <3>1
    <3>3. QED
      BY <3>2
  <2>4. CASE m \in S
    <3> DEFINE t == [i \in 1..(c + 1) |-> IF i = c + 1 THEN m ELSE s[i]]
    <3>1. Low(m) = A \cup {m} /\ m \notin A
      BY <2>4
    <3>3. IsFiniteSet(A) /\ s \in [1..c -> A] /\ Increasing(s, c)
      BY <2>1
    <3>2. IsFiniteSet(Low(m)) /\ Cardinality(Low(m)) = c + 1
      <4> HIDE DEF A
      <4>1. IsFiniteSet(A)
        BY <3>3
      <4>2. IsFiniteSet(A \cup {m}) /\ Cardinality(A \cup {m}) = c + 1
        BY <3>1, <4>1, FS_AddElement
      <4>3. QED
        BY <3>1, <4>2
    <3> HIDE DEF A, c
    <3>4. \A i \in 1..(c + 1) : i = c + 1 \/ i \in 1..c
      BY <2>2
    <3>5. \A i \in 1..c : s[i] \in A
      BY <3>3
    <3>6. t \in [1..(c + 1) -> Low(m)]
      BY <3>1, <3>4, <3>5
    <3>7. \A i \in 1..(c + 1) : t[i] = IF i = c + 1 THEN m ELSE s[i]
      OBVIOUS
    <3> HIDE DEF t
    <3>8. ASSUME NEW i \in 1..(c + 1), NEW j \in 1..(c + 1), i < j PROVE t[i] < t[j]
      <4>1. i \in 1..c /\ i # c + 1 /\ s[i] \in A
        BY <2>2, <3>5, <3>8
      <4>2. t[i] = s[i]
        BY <3>7, <4>1
      <4>3. CASE j = c + 1
        BY <2>2, <3>7, <4>1, <4>2, <4>3
      <4>4. CASE j # c + 1
        <5>1. j \in 1..c /\ t[j] = s[j]
          BY <3>4, <3>7, <4>4
        <5>2. QED
          BY <3>3, <3>8, <4>1, <4>2, <5>1 DEF Increasing
      <4>5. QED
        BY <4>3, <4>4
    <3>9. Increasing(t, c + 1)
      BY <3>8 DEF Increasing
    <3>10. Fits(t, m)
      BY <3>2, <3>6, <3>9
    <3>11. m \in 0..N
      OBVIOUS
    <3> HIDE DEF Fits
    <3>12. QED
      BY <3>10, <3>11
  <2>5. QED
    BY <2>3, <2>4
<1>3. N \in Good
  <2> HIDE DEF Good
  <2>1. 0..N \subseteq Good
    BY <1>1, <1>2, Induction
  <2>2. QED
    BY <2>1
<1>4. Low(N) = S
  OBVIOUS
<1>5. QED
  BY <1>3, <1>4

(* Increasing through all of a finite set, a sequence leaves nothing out.  *)
LEMMA IncreasingIsOnto ==
  ASSUME NEW N \in Nat, NEW S, S \subseteq 1..N, NEW s \in [1..Cardinality(S) -> S],
         Increasing(s, Cardinality(S))
  PROVE  /\ Cardinality(S) \in Nat
         /\ \A x \in S : \E n \in 1..Cardinality(S) : s[n] = x
<1> DEFINE c == Cardinality(S)
<1>1. IsFiniteSet(S)
  BY IncreasingExists
<1>2. c \in Nat
  BY <1>1, FS_CardinalityType
<1>9. \A x \in S : x \in Int
  OBVIOUS
<1>8. s \in [1..c -> S] /\ Increasing(s, c)
  OBVIOUS
<1> HIDE DEF c
<1>3. ASSUME NEW i \in 1..c, NEW j \in 1..c, i # j PROVE s[i] # s[j]
  <2>1. s[i] \in Int /\ s[j] \in Int
    <3>1. s[i] \in S /\ s[j] \in S
      BY <1>8
    <3>2. QED
      BY <1>9, <3>1
  <2>2. i < j \/ j < i
    BY <1>2, <1>3
  <2>3. s[i] < s[j] \/ s[j] < s[i]
    BY <1>8, <2>2 DEF Increasing
  <2>4. QED
    BY <2>1, <2>3
<1>4. s \in Injection(1..c, S)
  BY <1>3, <1>8 DEF Injection, IsInjective
<1>5. IsFiniteSet(1..c) /\ Cardinality(1..c) = c
  BY <1>2, FS_Interval
<1>6. s \in Surjection(1..c, S)
  BY <1>1, <1>4, <1>5, FS_Injection DEF c
<1>7. QED
  BY <1>2, <1>6 DEF Surjection, c

(* Sorted, the sort.Ints of the parsers: the keys, each smaller than the   *)
(* next.                                                                   *)
LEMMA SortedIs ==
  ASSUME NEW N \in Nat, NEW S, S \subseteq 1..N
  PROVE  /\ Sorted(S) \in [1..Cardinality(S) -> S]
         /\ Increasing(Sorted(S), Cardinality(S))
<1>1. \E s \in [1..Cardinality(S) -> S] : Increasing(s, Cardinality(S))
  BY IncreasingExists
<1>2. Sorted(S) = CHOOSE s \in [1..Cardinality(S) -> S] : Increasing(s, Cardinality(S))
  BY DEF Sorted, Increasing
<1>3. QED
  BY <1>1, <1>2

Padded(block, S, N) == [i \in 1..N |-> IF i \in S THEN block[i] ELSE <<>>]

(* The blocks of some keys in the order of the keys are those of all       *)
(* positions, where a position that is no key has none.                    *)
LEMMA BlocksInOrder ==
  ASSUME NEW X, NEW N \in Nat, NEW S, S \subseteq 1..N, NEW block,
         \A i \in S : block[i] \in Seq(X)
  PROVE  Blocks(block, Sorted(S))
           = FlattenSeq(Padded(block, S, N))
<1> DEFINE all == Padded(block, S, N)
           c == Cardinality(S)
           s == Sorted(S)
           some == [n \in DOMAIN s |-> block[s[n]]]
<1>1. all \in Seq(Seq(X)) /\ Len(all) = N
      /\ \A i \in 1..N : all[i] = IF i \in S THEN block[i] ELSE <<>>
  <2>1. \A i \in 1..N : (IF i \in S THEN block[i] ELSE <<>>) \in Seq(X)
    OBVIOUS
  <2>2. QED
    BY <2>1 DEF Padded
<1>2. s \in [1..c -> S] /\ Increasing(s, c)
  BY SortedIs
<1>3. c \in Nat /\ \A x \in S : \E n \in 1..c : s[n] = x
  BY <1>2, IncreasingIsOnto
<1> HIDE DEF all, c, s
<1>18. \A x \in S : x \in 0..N /\ x \in Int
  OBVIOUS
<1>19. DOMAIN s = 1..c /\ \A n \in 1..c : s[n] \in S
  BY <1>2
<1>4. DOMAIN s = 1..c /\ \A n \in 1..c : s[n] \in S /\ s[n] \in 0..N /\ s[n] \in Int
  BY <1>18, <1>19
<1>20. \A l, m \in 1..c : l <= m => s[l] <= s[m]
  <2> SUFFICES ASSUME NEW l \in 1..c, NEW m \in 1..c, l <= m PROVE s[l] <= s[m]
    OBVIOUS
  <2>1. CASE l = m
    BY <1>4, <2>1
  <2>2. CASE l < m
    <3>1. s[l] < s[m]
      BY <1>2, <2>2 DEF Increasing
    <3>2. QED
      BY <1>4, <3>1
  <2>3. QED
    BY <1>3, <2>1, <2>2
<1>5. /\ some \in Seq(Seq(X)) /\ Len(some) = c
      /\ \A n \in 1..c : some[n] = block[s[n]]
  <2>1. \A n \in 1..c : block[s[n]] \in Seq(X)
    BY <1>4
  <2>2. QED
    BY <1>3, <1>4, <2>1
<1> HIDE DEF some
<1>6. PICK g \in [0..N -> Seq(X)] : FlatPrefixes(g, all) /\ FlattenSeq(all) = g[N]
  <2>1. Len(all) = N /\ all \in Seq(Seq(X))
    BY <1>1
  <2>2. QED
    BY <2>1, FlattenPrefixes
<1>7. /\ g[0] = <<>>
      /\ \A i \in 1..N : g[i] = g[i - 1] \o (IF i \in S THEN block[i] ELSE <<>>)
  BY <1>1, <1>6 DEF FlatPrefixes
<1> DEFINE Gap(a, b) == \A i \in (a + 1)..b : i \notin S
           Good == {b \in 0..N : \A a \in 0..b : Gap(a, b) => g[a] = g[b]}
<1>8. 0 \in Good
  OBVIOUS
<1>9. ASSUME NEW b \in 1..N, b - 1 \in Good PROVE b \in Good
  <2>1. ASSUME NEW a \in 0..b, Gap(a, b) PROVE g[a] = g[b]
    <3>1. CASE a = b
      BY <3>1
    <3>2. CASE a # b
      <4>1. a \in 0..(b - 1) /\ Gap(a, b - 1) /\ b \notin S
        BY <2>1, <3>2
      <4>2. g[a] = g[b - 1]
        BY <1>9, <4>1
      <4>3. g[b] = g[b - 1] \o <<>>
        BY <1>7, <4>1
      <4>4. g[b - 1] \in Seq(X)
        OBVIOUS
      <4>5. QED
        BY <4>2, <4>3, <4>4, ConcatEmptySeq
    <3>3. QED
      BY <3>1, <3>2
  <2>2. QED
    BY <2>1
<1>10. ASSUME NEW a \in 0..N, NEW b \in 0..N, a <= b, Gap(a, b) PROVE g[a] = g[b]
  <2>1. b \in Good
    <3> HIDE DEF Good
    <3>1. 0..N \subseteq Good
      BY <1>8, <1>9, Induction
    <3>2. QED
      BY <3>1
  <2>2. a \in 0..b
    BY <1>10
  <2>3. QED
    BY <1>10, <2>1, <2>2
<1> HIDE DEF Good
<1> DEFINE p == [n \in 0..c |-> IF n = 0 THEN 0 ELSE s[n]]
           h == [n \in 0..c |-> g[p[n]]]
<1>11. /\ 0 \in 0..c /\ c \in 0..c
       /\ p[0] = 0 /\ \A n \in 1..c : n \in 0..c /\ n - 1 \in 0..c /\ p[n] = s[n]
       /\ \A n \in 0..c : h[n] = g[p[n]]
  BY <1>3
<1> HIDE DEF p, h
<1>12. \A n \in 0..c : p[n] \in 0..N
  <2> TAKE n \in 0..c
  <2>1. CASE n = 0
    BY <1>11, <2>1
  <2>2. CASE n # 0
    <3>1. n \in 1..c
      BY <1>3, <2>2
    <3>2. QED
      BY <1>4, <1>11, <3>1
  <2>3. QED
    BY <2>1, <2>2
(* Between the keys at n and n + 1, and after the last, there is no key.   *)
<1>13. ASSUME NEW n \in 0..c, NEW x \in S, p[n] < x
       PROVE  n < c /\ s[n + 1] <= x
  <2>1. PICK k \in 1..c : s[k] = x
    BY <1>3
  <2>2. \A l \in 1..c : s[l] \in Int
    BY <1>4
  <2>3. ASSUME k <= n PROVE FALSE
    <3>1. n \in 1..c /\ p[n] = s[n]
      BY <1>3, <1>11, <2>3
    <3>2. s[k] <= s[n]
      BY <1>20, <2>3, <3>1
    <3>3. QED
      BY <1>13, <2>1, <2>2, <3>1, <3>2
  <2>4. n < k /\ n + 1 \in 1..c
    BY <1>3, <2>3
  <2>5. s[n + 1] <= s[k]
    <3>1. n + 1 <= k
      BY <1>3, <2>4
    <3>2. QED
      BY <1>20, <2>4, <3>1
  <2>6. QED
    BY <1>3, <2>1, <2>4, <2>5
<1>14. FlatPrefixes(h, some)
  <2>1. h[0] = <<>>
    BY <1>7, <1>11
  <2>2. ASSUME NEW n \in 1..c PROVE h[n] = h[n - 1] \o some[n]
    <3> DEFINE x == s[n]
    <3>1. x \in S /\ x \in 1..N
      BY <1>4
    <3>2. g[x] = g[x - 1] \o block[x]
      BY <1>7, <3>1
    <3>3. h[n] = g[x] /\ some[n] = block[x] /\ h[n - 1] = g[p[n - 1]]
      BY <1>5, <1>11
    <3> HIDE DEF x
    <3>4. p[n - 1] \in 0..N /\ x - 1 \in 0..N
      <4>1. n - 1 \in 0..c
        BY <1>11
      <4>2. QED
        BY <1>12, <3>1, <4>1
    <3>5. p[n - 1] <= x - 1
      <4>1. CASE n = 1
        <5>1. n - 1 = 0 /\ p[0] = 0
          BY <1>11, <4>1
        <5>2. QED
          BY <3>1, <5>1
      <4>2. CASE n # 1
        <5>1. n - 1 \in 1..c /\ n - 1 < n
          BY <1>3, <4>2
        <5>2. s[n - 1] < s[n] /\ p[n - 1] = s[n - 1]
          BY <1>2, <1>11, <5>1 DEF Increasing
        <5>3. QED
          BY <3>1, <3>4, <5>2 DEF x
      <4>3. QED
        BY <4>1, <4>2
    <3>6. Gap(p[n - 1], x - 1)
      <4> SUFFICES ASSUME NEW i \in (p[n - 1] + 1)..(x - 1), i \in S PROVE FALSE
        OBVIOUS
      <4>1. p[n - 1] < i /\ n - 1 \in 0..c /\ i < x
        BY <1>11, <3>1, <3>4
      <4>2. s[(n - 1) + 1] <= i
        BY <1>13, <4>1
      <4>3. (n - 1) + 1 = n
        BY <1>3
      <4>4. QED
        BY <3>1, <4>1, <4>2, <4>3 DEF x
    <3>7. g[p[n - 1]] = g[x - 1]
      BY <1>10, <3>4, <3>5, <3>6
    <3>8. QED
      BY <3>2, <3>3, <3>7
  <2>3. QED
    BY <1>5, <2>1, <2>2 DEF FlatPrefixes
<1>15. h[c] = g[N]
  <2>1. p[c] \in 0..N /\ N \in 0..N /\ p[c] <= N
    BY <1>11, <1>12
  <2>2. Gap(p[c], N)
    <3> SUFFICES ASSUME NEW i \in (p[c] + 1)..N, i \in S PROVE FALSE
      OBVIOUS
    <3>1. p[c] < i /\ c \in 0..c
      BY <1>11, <2>1
    <3>2. c < c
      BY <1>13, <3>1
    <3>3. QED
      BY <1>3, <3>2
  <2>3. QED
    BY <1>10, <1>11, <2>1, <2>2
<1>16. FlattenSeq(some) = h[c]
  <2>1. FlattenSeq(some) = h[Len(some)]
    BY <1>5, <1>14, FlattenIs
  <2>2. QED
    BY <1>5, <2>1
<1>17. QED
  BY <1>6, <1>15, <1>16 DEF Blocks, some, all, s

-----------------------------------------------------------------------------
(* The message: what the provider's steps do to it                         *)

Word == Nat \ {0}
Item == [kind : Kinds, parts : Seq(Seq(Word))]

(* The types of the message, in the names used below.                      *)
LEMMA TypeOf ==
  StreamTypeOK <=>
    /\ provider \in Providers /\ deltas \in Nat
    /\ ended \in {"no", "completed", "incomplete"}
    /\ items \in Seq(Item)
    /\ \A i \in DOMAIN items : items[i].parts # <<>>
BY DEF StreamTypeOK, Item, Word

(* The items of a message and what was said in each are well formed.       *)
LEMMA ItemFacts ==
  ASSUME items \in Seq(Item)
  PROVE  /\ Len(items) \in Nat /\ DOMAIN items = 1..Len(items)
         /\ \A i \in DOMAIN items : /\ items[i] \in Item /\ items[i].kind \in Kinds
                                    /\ items[i].parts \in Seq(Seq(Word))
                                    /\ Said(i) \in Seq(Word)
<1>1. Len(items) \in Nat /\ DOMAIN items = 1..Len(items)
  OBVIOUS
<1>2. ASSUME NEW i \in DOMAIN items
      PROVE  items[i] \in Item /\ items[i].kind \in Kinds /\ items[i].parts \in Seq(Seq(Word))
             /\ Said(i) \in Seq(Word)
  <2>1. items[i] \in Item
    OBVIOUS
  <2>2. items[i].kind \in Kinds /\ items[i].parts \in Seq(Seq(Word))
    BY <2>1 DEF Item
  <2>3. Said(i) \in Seq(Word)
    BY <2>2, FlattenType DEF Said
  <2>4. QED
    BY <2>1, <2>2, <2>3
<1>3. QED
  BY <1>1, <1>2

-----------------------------------------------------------------------------
(* What the provider's steps do to what was said                           *)

Replaced(p, i, w) == [p EXCEPT ![i] = w]

(* A sequence with one element replaced is a sequence of that length.      *)
LEMMA ReplacedIsSeq ==
  ASSUME NEW S, NEW s \in Seq(S), NEW i \in 1..Len(s), NEW w \in S
  PROVE  Replaced(s, i, w) \in Seq(S) /\ Len(Replaced(s, i, w)) = Len(s)
BY ExceptSeq DEF Replaced

(* To replace the last element is to append another in its place.          *)
LEMMA ReplaceLast ==
  ASSUME NEW S, NEW s \in Seq(S), NEW e \in S, NEW w \in S
  PROVE  Replaced(Append(s, e), Len(s) + 1, w) = Append(s, w)
<1> DEFINE p == Append(s, e)
           q == [p EXCEPT ![Len(s) + 1] = w]
           t == Append(s, w)
<1>1. /\ p \in Seq(S) /\ Len(p) = Len(s) + 1
      /\ \A j \in 1..Len(s) : p[j] = s[j]
  BY AppendProperties
<1>2. /\ t \in Seq(S) /\ Len(t) = Len(s) + 1 /\ t[Len(s) + 1] = w
      /\ \A j \in 1..Len(s) : t[j] = s[j]
  BY AppendProperties
<1>3. Len(s) \in Nat /\ Len(s) + 1 \in 1..(Len(s) + 1)
  OBVIOUS
<1> HIDE DEF p, t
<1>4. Len(s) + 1 \in 1..Len(p)
  BY <1>1, <1>3
<1>5. /\ q \in Seq(S) /\ Len(q) = Len(p)
      /\ \A j \in 1..Len(p) : q[j] = IF j = Len(s) + 1 THEN w ELSE p[j]
  BY <1>1, <1>4, ExceptSeq
<1> HIDE DEF q
<1>6. ASSUME NEW j \in 1..Len(q) PROVE q[j] = t[j]
  <2>1. j \in 1..(Len(s) + 1) /\ (j = Len(s) + 1 \/ j \in 1..Len(s))
    BY <1>1, <1>3, <1>5
  <2>2. q[j] = IF j = Len(s) + 1 THEN w ELSE p[j]
    BY <1>1, <1>5, <2>1
  <2>3. QED
    BY <1>1, <1>2, <2>1, <2>2
<1>7. Len(q) = Len(t)
  BY <1>1, <1>2, <1>5
<1>8. q = t
  BY <1>2, <1>5, <1>6, <1>7, SeqEqual
<1>9. QED
  BY <1>8 DEF q, p, t, Replaced

(* A delta in the last part of an item comes after all that was said of    *)
(* it.                                                                     *)
LEMMA SpeakParts ==
  ASSUME NEW parts \in Seq(Seq(Word)), parts # <<>>, NEW d \in Word
  PROVE  LET q == [parts EXCEPT ![Len(parts)] = Append(@, d)]
         IN  /\ q \in Seq(Seq(Word)) /\ q # <<>> /\ Len(q) = Len(parts)
             /\ FlattenSeq(q) = Append(FlattenSeq(parts), d)
<1>1. PICK s \in Seq(Seq(Word)), e \in Seq(Word) : parts = Append(s, e)
  BY SequenceEmptyOrAppend
<1> DEFINE w == Append(e, d)
           q == [parts EXCEPT ![Len(parts)] = Append(@, d)]
<1>2. w \in Seq(Word)
  BY AppendProperties
<1>14. w = e \o <<d>>
  BY AppendIsConcat
<1>3. Len(parts) = Len(s) + 1 /\ parts[Len(s) + 1] = e
  BY <1>1, AppendProperties
<1>4. q = Replaced(parts, Len(parts), w)
  BY <1>3 DEF Replaced
<1> HIDE DEF q, w
<1>5. q = Append(s, w)
  <2>1. Replaced(Append(s, e), Len(s) + 1, w) = Append(s, w)
    BY <1>2, ReplaceLast
  <2>2. QED
    BY <1>1, <1>3, <1>4, <2>1
<1>6. q \in Seq(Seq(Word)) /\ q # <<>> /\ Len(q) = Len(parts)
  <2> DEFINE S == Seq(Word)
  <2>3. s \in Seq(S) /\ w \in S
    BY <1>2
  <2> HIDE DEF S
  <2>4. /\ Append(s, w) \in Seq(S) /\ Append(s, w) # <<>>
        /\ Len(Append(s, w)) = Len(s) + 1
    BY <2>3, AppendProperties
  <2>1. /\ Append(s, w) \in Seq(Seq(Word)) /\ Append(s, w) # <<>>
        /\ Len(Append(s, w)) = Len(s) + 1
    BY <2>4 DEF S
  <2>2. QED
    BY <1>3, <1>5, <2>1
<1>7. FlattenSeq(q) = FlattenSeq(s) \o w
  BY <1>2, <1>5, FlattenAppend
<1>8. FlattenSeq(parts) = FlattenSeq(s) \o e
  BY <1>1, FlattenAppend
<1>9. FlattenSeq(s) \in Seq(Word) /\ <<d>> \in Seq(Word) /\ FlattenSeq(parts) \in Seq(Word)
  BY FlattenType
<1>10. FlattenSeq(s) \o (e \o <<d>>) = (FlattenSeq(s) \o e) \o <<d>>
  <2> DEFINE a == FlattenSeq(s)
             c == <<d>>
  <2>1. a \in Seq(Word) /\ c \in Seq(Word)
    BY <1>9
  <2> HIDE DEF a, c
  <2>2. Cat(a, Cat(e, c)) = Cat(Cat(a, e), c)
    BY <2>1, CatAssociative
  <2>3. QED
    BY <2>2 DEF Cat, a, c
<1>11. FlattenSeq(parts) \o <<d>> = Append(FlattenSeq(parts), d)
  BY <1>9, AppendIsConcat
<1>12. FlattenSeq(q) = Append(FlattenSeq(parts), d)
  BY <1>7, <1>8, <1>10, <1>11, <1>14
<1>13. QED
  BY <1>6, <1>12 DEF q

(* A delta adds to what was said of its item and to nothing else.          *)
LEMMA SpeakEffect ==
  ASSUME StreamTypeOK, NEW i \in DOMAIN items, Speak(i)
  PROVE  /\ items' \in Seq(Item) /\ DOMAIN items' = DOMAIN items /\ Len(items') = Len(items)
         /\ \A j \in DOMAIN items : /\ items'[j].kind = items[j].kind
                                    /\ items'[j].parts # <<>>
                                    /\ Len(items'[j].parts) = Len(items[j].parts)
                                    /\ j # i => Said(j)' = Said(j)
         /\ Said(i)' = Append(Said(i), deltas + 1)
         /\ deltas' \in Nat /\ deltas + 1 \in Word
<1> DEFINE parts == items[i].parts
           d == deltas + 1
           q == [parts EXCEPT ![Len(parts)] = Append(@, d)]
<1>1. items \in Seq(Item) /\ deltas \in Nat /\ \A j \in DOMAIN items : items[j].parts # <<>>
  BY TypeOf
<1>2. d \in Word /\ deltas' \in Nat
  BY <1>1 DEF Speak, Word
<1>3. parts \in Seq(Seq(Word)) /\ parts # <<>>
  BY <1>1, ItemFacts
<1>4. /\ q \in Seq(Seq(Word)) /\ q # <<>> /\ Len(q) = Len(parts)
      /\ FlattenSeq(q) = Append(FlattenSeq(parts), d)
  BY <1>2, <1>3, SpeakParts
<1>5. items' = [items EXCEPT ![i].parts = q]
  BY DEF Speak
<1> HIDE DEF q, d
<1>6. DOMAIN items = 1..Len(items) /\ Len(items) \in Nat
      /\ \A j \in DOMAIN items : items[j] \in Item
  BY <1>1, ItemFacts
<1>7. /\ DOMAIN items' = DOMAIN items
      /\ \A j \in DOMAIN items : j # i => items'[j] = items[j]
      /\ items'[i] = [items[i] EXCEPT !.parts = q]
  BY <1>5
<1>8. /\ items'[i] \in Item /\ items'[i].kind = items[i].kind /\ items'[i].parts = q
  <2>1. items[i] \in Item
    BY <1>6
  <2>2. QED
    BY <1>4, <1>7, <2>1 DEF Item
<1>9. items' \in Seq(Item) /\ Len(items') = Len(items)
  <2> DEFINE it == [items[i] EXCEPT !.parts = q]
  <2>1. /\ it \in Item /\ items' = Replaced(items, i, it)
        /\ items \in Seq(Item) /\ i \in 1..Len(items)
    BY <1>1, <1>5, <1>6, <1>7, <1>8 DEF Replaced
  <2> HIDE DEF it
  <2>2. /\ Replaced(items, i, it) \in Seq(Item)
        /\ Len(Replaced(items, i, it)) = Len(items)
    <3>1. items \in Seq(Item)
      BY <2>1
    <3>2. i \in 1..Len(items)
      BY <2>1
    <3>3. it \in Item
      BY <2>1
    <3>4. QED
      BY ONLY <3>1, <3>2, <3>3, ReplacedIsSeq
  <2>3. QED
    BY <2>1, <2>2
<1>10. Said(i)' = Append(Said(i), d)
  BY <1>4, <1>8 DEF Said
<1>11. \A j \in DOMAIN items : j # i => Said(j)' = Said(j)
  BY <1>7 DEF Said
<1>12. \A j \in DOMAIN items : /\ items'[j].kind = items[j].kind
                               /\ items'[j].parts # <<>>
                               /\ Len(items'[j].parts) = Len(items[j].parts)
  BY <1>1, <1>4, <1>7, <1>8
<1>13. QED
  BY <1>2, <1>7, <1>9, <1>10, <1>11, <1>12 DEF d

Fresh == Len(items) + 1  \* the next item

(* A new item comes last, and nothing was said of it; the others stay.     *)
LEMMA OpenEffect ==
  ASSUME StreamTypeOK, NEW k \in Kinds, Open(k)
  PROVE  /\ items' \in Seq(Item) /\ Len(items') = Fresh
         /\ DOMAIN items' = DOMAIN items \cup {Fresh} 
         /\ Fresh \notin DOMAIN items /\ Fresh \in Nat
         /\ \A j \in DOMAIN items : items'[j] = items[j] /\ Said(j)' = Said(j)
         /\ items'[Fresh].kind = k
         /\ Len(items'[Fresh].parts) = 1 /\ items'[Fresh].parts # <<>>
         /\ FlattenSeq(items'[Fresh].parts) = <<>>
         /\ deltas' \in Nat
<1> DEFINE it == [kind |-> k, parts |-> <<<<>>>>]
<1>1. items \in Seq(Item) /\ deltas \in Nat
  BY TypeOf
<1>2. it \in Item
  BY DEF Item
<1>3. items' = Append(items, it) /\ deltas' = deltas
  BY DEF Open
<1>4. it.kind = k /\ it.parts = <<<<>>>> /\ Len(it.parts) = 1 /\ it.parts # <<>>
  OBVIOUS
<1> HIDE DEF it
<1>5. /\ items' \in Seq(Item) /\ Len(items') = Len(items) + 1
      /\ \A j \in 1..Len(items) : items'[j] = items[j]
      /\ items'[Len(items) + 1] = it
  BY <1>1, <1>2, <1>3, AppendProperties
<1>6. /\ Len(items) \in Nat /\ DOMAIN items = 1..Len(items)
      /\ DOMAIN items' = 1..Len(items')
  BY <1>1, <1>5, LenProperties
<1>7. DOMAIN items' = DOMAIN items \cup {Fresh} /\ Fresh \notin DOMAIN items /\ Fresh \in Nat
  BY <1>5, <1>6 DEF Fresh
<1>8. \A j \in DOMAIN items : items'[j] = items[j] /\ Said(j)' = Said(j)
  BY <1>5, <1>6 DEF Said
<1>9. FlattenSeq(<<<<>>>>) = <<>>
  <2>1. <<>> \in Seq(Word)
    OBVIOUS
  <2>2. QED
    BY <2>1, FlattenOne
<1>10. items'[Fresh].kind = k /\ Len(items'[Fresh].parts) = 1 /\ items'[Fresh].parts # <<>>
       /\ FlattenSeq(items'[Fresh].parts) = <<>>
  <2>1. items'[Fresh] = it /\ items'[Fresh].parts = <<<<>>>>
    BY <1>4, <1>5 DEF Fresh
  <2>2. FlattenSeq(items'[Fresh].parts) = <<>>
    BY <1>9, <2>1 DEF Said
  <2>3. items'[Fresh].kind = k /\ Len(items'[Fresh].parts) = 1 /\ items'[Fresh].parts # <<>>
    BY <1>4, <2>1
  <2>4. QED
    BY <2>2, <2>3
<1>11. QED
  BY <1>1, <1>3, <1>5, <1>7, <1>8, <1>10 DEF Fresh

(* A new part changes nothing of what was said.                            *)
LEMMA PartEffect ==
  ASSUME StreamTypeOK, NEW i \in DOMAIN items,
         items' = [items EXCEPT ![i].parts = Append(@, <<>>)]
  PROVE  /\ items' \in Seq(Item) /\ DOMAIN items' = DOMAIN items
         /\ \A j \in DOMAIN items : /\ items'[j].kind = items[j].kind
                                    /\ items'[j].parts # <<>>
                                    /\ Said(j)' = Said(j)
<1> DEFINE parts == items[i].parts
           q == Append(parts, <<>>)
<1>1. items \in Seq(Item) /\ \A j \in DOMAIN items : items[j].parts # <<>>
  BY TypeOf
<1>2. parts \in Seq(Seq(Word)) /\ FlattenSeq(parts) \in Seq(Word) /\ <<>> \in Seq(Word)
  <2>1. parts \in Seq(Seq(Word))
    BY <1>1, ItemFacts
  <2>2. QED
    BY <2>1, FlattenType
<1>3. q \in Seq(Seq(Word)) /\ q # <<>>
  <2> DEFINE S == Seq(Word)
  <2>1. parts \in Seq(S) /\ <<>> \in S
    BY <1>2
  <2> HIDE DEF S, parts
  <2>2. Append(parts, <<>>) \in Seq(S) /\ Append(parts, <<>>) # <<>>
    BY <2>1, AppendProperties
  <2>3. QED
    BY <2>2 DEF S
<1>4. FlattenSeq(q) = FlattenSeq(parts)
  <2>1. FlattenSeq(q) = FlattenSeq(parts) \o <<>>
    BY <1>2, FlattenAppend
  <2>2. QED
    BY <1>2, <2>1, ConcatEmptySeq
<1>5. items' = [items EXCEPT ![i].parts = q]
  OBVIOUS
<1> HIDE DEF q
<1>6. DOMAIN items = 1..Len(items) /\ Len(items) \in Nat
      /\ \A j \in DOMAIN items : items[j] \in Item
  BY <1>1, ItemFacts
<1>7. /\ DOMAIN items' = DOMAIN items
      /\ \A j \in DOMAIN items : j # i => items'[j] = items[j]
      /\ items'[i] = [items[i] EXCEPT !.parts = q]
  BY <1>5
<1>8. /\ items'[i] \in Item /\ items'[i].kind = items[i].kind /\ items'[i].parts = q
  <2>1. items[i] \in Item
    BY <1>6
  <2>2. QED
    BY <1>3, <1>7, <2>1 DEF Item
<1>9. items' \in Seq(Item)
  <2> DEFINE it == [items[i] EXCEPT !.parts = q]
  <2>1. /\ it \in Item /\ items' = Replaced(items, i, it)
        /\ items \in Seq(Item) /\ i \in 1..Len(items)
    BY <1>1, <1>5, <1>6, <1>7, <1>8 DEF Replaced
  <2> HIDE DEF it
  <2>2. Replaced(items, i, it) \in Seq(Item)
    <3>1. items \in Seq(Item)
      BY <2>1
    <3>2. i \in 1..Len(items)
      BY <2>1
    <3>3. it \in Item
      BY <2>1
    <3>4. QED
      BY ONLY <3>1, <3>2, <3>3, ReplacedIsSeq
  <2>3. QED
    BY <2>1, <2>2
<1>10. \A j \in DOMAIN items : Said(j)' = Said(j)
  BY <1>4, <1>7, <1>8 DEF Said
<1>11. QED
  BY <1>1, <1>3, <1>7, <1>8, <1>9, <1>10

(* What a step has to keep for the types to hold after it.                 *)
LEMMA TypeNext ==
  ASSUME StreamTypeOK, provider' = provider, ended' \in {"no", "completed", "incomplete"},
         deltas' \in Nat, items' \in Seq(Item), \A i \in DOMAIN items' : items'[i].parts # <<>>
  PROVE  StreamTypeOK'
BY DEF StreamTypeOK, Item, Word

(* Every step keeps the types.                                             *)
LEMMA TypeStep == StreamTypeOK /\ [Next]_vars => StreamTypeOK'
<1> SUFFICES ASSUME StreamTypeOK, [Next]_vars PROVE StreamTypeOK'
  OBVIOUS
<1>1. /\ provider \in Providers /\ ended \in {"no", "completed", "incomplete"}
      /\ items \in Seq(Item) /\ deltas \in Nat
      /\ \A i \in DOMAIN items : items[i].parts # <<>>
  BY TypeOf
<1>2. ASSUME NEW k \in Kinds, ContentBlockStart(k) \/ ChatOpens(k) \/ OutputItemAdded(k)
      PROVE  StreamTypeOK'
  <2>1. Open(k) /\ provider' = provider /\ ended' = ended
    BY <1>2 DEF ContentBlockStart, ChatOpens, OutputItemAdded, Says
  <2>2. /\ items' \in Seq(Item) /\ deltas' \in Nat /\ DOMAIN items' = DOMAIN items \cup {Fresh}
        /\ \A j \in DOMAIN items : items'[j] = items[j]
        /\ items'[Fresh].parts # <<>>
    BY <2>1, OpenEffect
  <2>3. \A i \in DOMAIN items' : items'[i].parts # <<>>
    BY <1>1, <2>2
  <2>4. QED
    BY <1>1, <2>1, <2>2, <2>3, TypeNext
<1>3. ASSUME NEW i \in DOMAIN items, Speak(i), provider' = provider, ended' = ended
      PROVE  StreamTypeOK'
  <2>1. /\ items' \in Seq(Item) /\ DOMAIN items' = DOMAIN items /\ deltas' \in Nat
        /\ \A j \in DOMAIN items : items'[j].parts # <<>>
    BY <1>3, SpeakEffect
  <2>2. QED
    BY <1>1, <1>3, <2>1, TypeNext
<1>4. CASE ContentBlockDelta
  <2>1. /\ Len(items) \in DOMAIN items /\ Speak(Len(items))
        /\ provider' = provider /\ ended' = ended
    BY <1>1, <1>4 DEF ContentBlockDelta, Says
  <2>2. QED
    BY <1>3, <2>1
<1>5. ASSUME NEW i \in DOMAIN items, ChatDelta(i) \/ OutputDelta(i) PROVE StreamTypeOK'
  BY <1>3, <1>5 DEF ChatDelta, OutputDelta, Says
<1>6. ASSUME NEW i \in DOMAIN items, ContentPartAdded(i) PROVE StreamTypeOK'
  <2>1. /\ provider' = provider /\ ended' = ended /\ deltas' = deltas
        /\ items' = [items EXCEPT ![i].parts = Append(@, <<>>)]
    BY <1>6 DEF ContentPartAdded, Says
  <2>2. /\ items' \in Seq(Item) /\ DOMAIN items' = DOMAIN items
        /\ \A j \in DOMAIN items : items'[j].parts # <<>>
    BY <2>1, PartEffect
  <2>3. QED
    BY <1>1, <2>1, <2>2, TypeNext
<1>7. ASSUME NEW how \in {"completed", "incomplete"}, Ends(how) PROVE StreamTypeOK'
  BY <1>1, <1>7, TypeNext DEF Ends
<1>8. CASE UNCHANGED vars
  BY <1>8 DEF vars, server, StreamTypeOK
<1>9. QED
  BY <1>2, <1>4, <1>5, <1>6, <1>7, <1>8 DEF Next

-----------------------------------------------------------------------------
(* Maps: the values of v at some keys                                      *)

Table(S, v) == [i \in S |-> v[i]]

(* A table, looked up.                                                     *)
LEMMA TableIs ==
  ASSUME NEW S, NEW v, NEW n \in S
  PROVE  DOMAIN Table(S, v) = S /\ Table(S, v)[n] = v[n]
BY DEF Table

(* Tables of the same values are the same.                                 *)
LEMMA TableSame ==
  ASSUME NEW S, NEW v, NEW w, \A i \in S : v[i] = w[i]
  PROVE  Table(S, v) = Table(S, w)
BY DEF Table

(* Put adds an entry, or replaces one.                                     *)
LEMMA TablePut ==
  ASSUME NEW S, NEW v, NEW w, NEW n, \A i \in S : i # n => v[i] = w[i]
  PROVE  Put(Table(S, v), n, w[n]) = Table(S \cup {n}, w)
BY DEF Table, Put

(* Write appends to one entry.                                             *)
LEMMA TableWrite ==
  ASSUME NEW S, NEW v, NEW w, NEW n \in S, NEW d,
         \A i \in S : i # n => v[i] = w[i], w[n] = Append(v[n], d)
  PROVE  Write(Table(S, v), n, d) = Table(S, w)
<1>1. Builder(Table(S, v), n) = v[n]
  BY TableIs DEF Builder
<1>2. S \cup {n} = S
  OBVIOUS
<1>5. Put(Table(S, v), n, w[n]) = Table(S \cup {n}, w)
  BY DEF Table, Put
<1>3. Put(Table(S, v), n, w[n]) = Table(S, w)
  BY <1>2, <1>5
<1>4. QED
  BY <1>1, <1>3 DEF Write

(* What was said, by item                                                  *)
Kind == [i \in DOMAIN items |-> items[i].kind]
Whole == [i \in DOMAIN items |-> Said(i)]
Known == ItemsOf("text") \cup ItemsOf("call")

(* OpenEffect, for what is kept by item.                                   *)
LEMMA Opened ==
  ASSUME StreamTypeOK, NEW k \in Kinds, Open(k)
  PROVE  /\ Fresh \notin DOMAIN items /\ DOMAIN items' = DOMAIN items \cup {Fresh}
         /\ Kind'[Fresh] = k /\ \A i \in DOMAIN items : Kind'[i] = Kind[i]
         /\ Whole'[Fresh] = <<>> /\ \A i \in DOMAIN items : Whole'[i] = Whole[i]
<1>1. /\ DOMAIN items' = DOMAIN items \cup {Fresh} /\ Fresh \notin DOMAIN items
      /\ \A j \in DOMAIN items : items'[j] = items[j] /\ Said(j)' = Said(j)
      /\ items'[Fresh].kind = k /\ FlattenSeq(items'[Fresh].parts) = <<>>
  BY OpenEffect
<1>2. Kind'[Fresh] = k /\ Whole'[Fresh] = <<>>
  <2>1. Fresh \in DOMAIN items'
    BY <1>1
  <2>2. QED
    BY <1>1, <2>1 DEF Kind, Whole, Said
<1>3. ASSUME NEW i \in DOMAIN items PROVE Kind'[i] = Kind[i] /\ Whole'[i] = Whole[i]
  <2>1. i \in DOMAIN items'
    BY <1>1
  <2>2. QED
    BY <1>1, <2>1 DEF Kind, Whole
<1>4. QED
  BY <1>1, <1>2, <1>3

(* SpeakEffect, for what is kept by item.                                  *)
LEMMA Spoken ==
  ASSUME StreamTypeOK, NEW n \in DOMAIN items, Speak(n)
  PROVE  /\ DOMAIN items' = DOMAIN items /\ Kind' = Kind
         /\ Whole'[n] = Append(Whole[n], deltas + 1)
         /\ \A i \in DOMAIN items : i # n => Whole'[i] = Whole[i]
<1>1. /\ DOMAIN items' = DOMAIN items
      /\ \A j \in DOMAIN items : items'[j].kind = items[j].kind
      /\ \A j \in DOMAIN items : j # n => Said(j)' = Said(j)
      /\ Said(n)' = Append(Said(n), deltas + 1)
  BY SpeakEffect
<1>2. Kind' = Kind
  BY <1>1 DEF Kind
<1>3. Whole'[n] = Append(Whole[n], deltas + 1)
  BY <1>1 DEF Whole
<1>4. \A i \in DOMAIN items : i # n => Whole'[i] = Whole[i]
  BY <1>1 DEF Whole
<1>5. QED
  BY <1>1, <1>2, <1>3, <1>4

(* The items of a kind.                                                    *)
LEMMA ItemsIs ==
  ASSUME NEW c
  PROVE  ItemsOf(c) = {i \in DOMAIN items : Kind[i] = c} /\ ItemsOf(c) \subseteq DOMAIN items
BY DEF ItemsOf, Kind

(* A new item joins those of its kind.                                     *)
LEMMA OpenItems ==
  ASSUME StreamTypeOK, NEW k \in Kinds, Open(k), NEW c
  PROVE  ItemsOf(c)' = ItemsOf(c) \cup (IF c = k THEN {Fresh} ELSE {})
<1>1. /\ DOMAIN items' = DOMAIN items \cup {Fresh} /\ Fresh \notin DOMAIN items
      /\ \A j \in DOMAIN items : items'[j] = items[j]
      /\ items'[Fresh].kind = k
  BY OpenEffect
<1>2. QED
  BY <1>1 DEF ItemsOf

(* A delta leaves the kinds alone.                                         *)
LEMMA SpeakItems ==
  ASSUME StreamTypeOK, NEW n \in DOMAIN items, Speak(n), NEW c
  PROVE  ItemsOf(c)' = ItemsOf(c)
<1>1. /\ DOMAIN items' = DOMAIN items
      /\ \A j \in DOMAIN items : items'[j].kind = items[j].kind
  BY SpeakEffect
<1>2. QED
  BY <1>1 DEF ItemsOf

(* The arguments of the calls are kept alike for Anthropic and for chat.   *)
LEMMA CallsOpened ==
  ASSUME StreamTypeOK, NEW k \in Kinds, Open(k), args = Table(ItemsOf("call"), Whole),
         args' = IF k = "call" THEN Put(args, Fresh, <<>>) ELSE args
  PROVE  args' = Table(ItemsOf("call")', Whole')
<1> DEFINE C == ItemsOf("call")
<1>1. /\ Fresh \notin DOMAIN items
      /\ Whole'[Fresh] = <<>> /\ \A i \in DOMAIN items : Whole'[i] = Whole[i]
  BY Opened
<1>2. C' = C \cup (IF "call" = k THEN {Fresh} ELSE {}) /\ C \subseteq DOMAIN items
  BY OpenItems, ItemsIs
<1>3. CASE k # "call"
  <2>1. \A i \in C : Whole[i] = Whole'[i]
    BY <1>1, <1>2
  <2>2. Table(C, Whole) = Table(C, Whole')
    BY <2>1, TableSame
  <2>3. QED
    BY <1>2, <1>3, <2>2
<1>4. CASE k = "call"
  <2>1. \A i \in C : i # Fresh => Whole[i] = Whole'[i]
    BY <1>1, <1>2
  <2>2. Put(Table(C, Whole), Fresh, Whole'[Fresh]) = Table(C \cup {Fresh}, Whole')
    BY <2>1, TablePut
  <2>3. QED
    BY <1>1, <1>2, <1>4, <2>2
<1>5. QED
  BY <1>3, <1>4

(* And a delta of a call is added to the arguments of that call.           *)
LEMMA CallsSpoken ==
  ASSUME StreamTypeOK, NEW n \in DOMAIN items, Speak(n), args = Table(ItemsOf("call"), Whole),
         args' = IF items[n].kind = "call" THEN Write(args, n, deltas + 1) ELSE args
  PROVE  args' = Table(ItemsOf("call")', Whole')
<1> DEFINE C == ItemsOf("call")
<1>1. /\ Whole'[n] = Append(Whole[n], deltas + 1)
      /\ \A i \in DOMAIN items : i # n => Whole'[i] = Whole[i]
  BY Spoken
<1>2. C' = C /\ C \subseteq DOMAIN items /\ (n \in C <=> items[n].kind = "call")
  BY SpeakItems DEF ItemsOf
<1> HIDE DEF C
<1>3. CASE n \in C
  <2>1. \A i \in C : i # n => Whole[i] = Whole'[i]
    BY <1>1, <1>2
  <2>2. Write(Table(C, Whole), n, deltas + 1) = Table(C, Whole')
    BY <1>1, <1>3, <2>1, TableWrite
  <2>3. QED
    BY <1>2, <1>3, <2>2 DEF C
<1>4. CASE n \notin C
  <2>1. \A i \in C : Whole[i] = Whole'[i]
    BY <1>1, <1>2, <1>4
  <2>2. Table(C, Whole) = Table(C, Whole')
    BY <2>1, TableSame
  <2>3. QED
    BY <1>2, <1>4, <2>2 DEF C
<1>5. QED
  BY <1>3, <1>4

-----------------------------------------------------------------------------
(* parseAnthropicSSE                                                       *)

Heard == [i \in DOMAIN items |-> IF items[i].kind = "text" THEN Said(i) ELSE <<>>]

Singles == \A i \in DOMAIN items : Len(items[i].parts) = 1

AnthropicTables ==
  /\ kindOf = Table(Known, Kind) /\ text = Table(Known, Heard)
  /\ args = Table(ItemsOf("call"), Whole) /\ Singles

(* AnthropicHolds, in tables.                                              *)
LEMMA AnthropicIs == AnthropicHolds <=> AnthropicTables
<1>1. Table(Known, Kind) = [i \in Known |-> items[i].kind]
  BY DEF Table, Kind, Known, ItemsOf
<1>2. Table(Known, Heard)
        = [i \in Known |-> IF items[i].kind = "text" THEN Said(i) ELSE <<>>]
  BY DEF Table, Heard, Known, ItemsOf
<1>3. Table(ItemsOf("call"), Whole) = [i \in ItemsOf("call") |-> Said(i)]
  BY DEF Table, Whole, ItemsOf
<1>4. QED
  BY <1>1, <1>2, <1>3 DEF AnthropicHolds, AnthropicTables, Known, Singles

(* content_block_start keeps the maps of parseAnthropicSSE in step.        *)
LEMMA AnthropicOpens ==
  ASSUME StreamTypeOK, AnthropicTables, NEW k \in Kinds, ContentBlockStart(k)
  PROVE  AnthropicTables'
<1>1. Open(k)
  BY DEF ContentBlockStart
<1>2. /\ Fresh \notin DOMAIN items /\ DOMAIN items' = DOMAIN items \cup {Fresh}
      /\ Kind'[Fresh] = k /\ \A i \in DOMAIN items : Kind'[i] = Kind[i]
      /\ Whole'[Fresh] = <<>> /\ \A i \in DOMAIN items : Whole'[i] = Whole[i]
  BY <1>1, Opened
<1>3. ItemsOf("call")' = ItemsOf("call") \cup (IF "call" = k THEN {Fresh} ELSE {})
  BY <1>1, OpenItems
<1>4. ItemsOf("text")' = ItemsOf("text") \cup (IF "text" = k THEN {Fresh} ELSE {})
  BY <1>1, OpenItems
<1>5. ItemsOf("call") \subseteq DOMAIN items /\ Known \subseteq DOMAIN items
  BY ItemsIs DEF Known
<1>6. Known' = Known \cup (IF k = "other" THEN {} ELSE {Fresh})
  BY <1>3, <1>4 DEF Known, Kinds
<1>7. Heard'[Fresh] = <<>> /\ \A i \in DOMAIN items : Heard'[i] = Heard[i]
  <2>1. /\ DOMAIN items' = DOMAIN items \cup {Fresh}
        /\ \A j \in DOMAIN items : items'[j] = items[j] /\ Said(j)' = Said(j)
        /\ FlattenSeq(items'[Fresh].parts) = <<>>
    BY <1>1, OpenEffect
  <2>2. Heard'[Fresh] = <<>>
    <3>1. Fresh \in DOMAIN items'
      BY <2>1
    <3>2. QED
      BY <2>1, <3>1 DEF Heard, Said
  <2>3. ASSUME NEW i \in DOMAIN items PROVE Heard'[i] = Heard[i]
    <3>1. i \in DOMAIN items'
      BY <2>1
    <3>2. QED
      BY <2>1, <3>1 DEF Heard
  <2>4. QED
    BY <2>2, <2>3
<1>8. Singles'
  <2>1. /\ DOMAIN items' = DOMAIN items \cup {Fresh}
        /\ \A j \in DOMAIN items : items'[j] = items[j]
        /\ Len(items'[Fresh].parts) = 1
    BY <1>1, OpenEffect
  <2>2. QED
    BY <2>1 DEF AnthropicTables, Singles
<1>9. IF k = "other" THEN kindOf' = kindOf /\ text' = text /\ args' = args
      ELSE /\ kindOf' = Put(kindOf, Fresh, k)
           /\ text' = Put(text, Fresh, <<>>)
           /\ args' = IF k = "call" THEN Put(args, Fresh, <<>>) ELSE args
  BY DEF ContentBlockStart, Fresh
<1>10. kindOf' = Table(Known', Kind')
  <2>1. CASE k = "other"
    <3>1. Table(Known, Kind) = Table(Known, Kind')
      BY <1>2, <1>5, TableSame
    <3>2. QED
      BY <1>6, <1>9, <2>1, <3>1 DEF AnthropicTables
  <2>2. CASE k # "other"
    <3>0. \A i \in Known : i # Fresh => Kind[i] = Kind'[i]
      BY <1>2, <1>5
    <3>1. Put(Table(Known, Kind), Fresh, Kind'[Fresh]) = Table(Known \cup {Fresh}, Kind')
      BY <3>0, TablePut
    <3>2. QED
      BY <1>2, <1>6, <1>9, <2>2, <3>1 DEF AnthropicTables
  <2>3. QED
    BY <2>1, <2>2
<1>11. text' = Table(Known', Heard')
  <2>1. CASE k = "other"
    <3>1. Table(Known, Heard) = Table(Known, Heard')
      BY <1>5, <1>7, TableSame
    <3>2. QED
      BY <1>6, <1>9, <2>1, <3>1 DEF AnthropicTables
  <2>2. CASE k # "other"
    <3>0. \A i \in Known : i # Fresh => Heard[i] = Heard'[i]
      BY <1>5, <1>7
    <3>1. Put(Table(Known, Heard), Fresh, Heard'[Fresh]) = Table(Known \cup {Fresh}, Heard')
      BY <3>0, TablePut
    <3>2. QED
      BY <1>6, <1>7, <1>9, <2>2, <3>1 DEF AnthropicTables
  <2>3. QED
    BY <2>1, <2>2
<1>12. args' = Table(ItemsOf("call")', Whole')
  BY <1>1, <1>9, CallsOpened DEF AnthropicTables, Kinds
<1>13. QED
  BY <1>8, <1>10, <1>11, <1>12 DEF AnthropicTables

(* content_block_delta keeps the maps of parseAnthropicSSE in step.        *)
LEMMA AnthropicSpeaks ==
  ASSUME StreamTypeOK, AnthropicTables, ContentBlockDelta
  PROVE  AnthropicTables'
<1>0. PICK n : n = Len(items)
  OBVIOUS
<1>1. n \in DOMAIN items /\ Speak(n)
  BY <1>0, TypeOf DEF ContentBlockDelta
<1> DEFINE d == deltas + 1
           C == ItemsOf("call")
<1>2. /\ DOMAIN items' = DOMAIN items /\ Kind' = Kind
      /\ Whole'[n] = Append(Whole[n], d)
      /\ \A i \in DOMAIN items : i # n => Whole'[i] = Whole[i]
  BY <1>1, Spoken
<1>3. /\ \A i \in DOMAIN items : /\ items'[i].kind = items[i].kind
                                 /\ Len(items'[i].parts) = Len(items[i].parts)
                                 /\ i # n => Said(i)' = Said(i)
      /\ Said(n)' = Append(Said(n), d)
  BY <1>1, SpeakEffect
<1>4. ItemsOf("text")' = ItemsOf("text") /\ C' = C
  BY <1>1, SpeakItems
<1>5. Known' = Known
  BY <1>4 DEF Known
<1>6. Known \subseteq DOMAIN items /\ C \subseteq DOMAIN items
  BY ItemsIs DEF Known
<1>7. Singles'
  BY <1>2, <1>3 DEF AnthropicTables, Singles
<1>8. /\ text' = IF n \in DOMAIN kindOf /\ items[n].kind = "text"
                 THEN Write(text, n, d) ELSE text
      /\ args' = IF items[n].kind = "call" /\ n \in DOMAIN args
                 THEN Write(args, n, d) ELSE args
      /\ kindOf' = kindOf
  BY <1>0 DEF ContentBlockDelta
<1>9. /\ items[n].kind = "text" => n \in Known
      /\ n \in C <=> items[n].kind = "call"
  BY <1>1 DEF ItemsOf, Known
<1>10. DOMAIN kindOf = Known /\ DOMAIN args = C
  BY DEF AnthropicTables, Table
<1> HIDE DEF d, C
<1>11. /\ Heard'[n] = IF items[n].kind = "text" THEN Append(Heard[n], d) ELSE Heard[n]
       /\ \A i \in DOMAIN items : i # n => Heard'[i] = Heard[i]
  <2>1. \A i \in DOMAIN items :
          Heard'[i] = IF items'[i].kind = "text" THEN Said(i)' ELSE <<>>
    BY <1>2 DEF Heard
  <2>2. \A i \in DOMAIN items :
          Heard[i] = IF items[i].kind = "text" THEN Said(i) ELSE <<>>
    BY DEF Heard
  <2>3. QED
    BY <1>1, <1>3, <2>1, <2>2
<1>12. kindOf' = Table(Known', Kind')
  BY <1>2, <1>5, <1>8 DEF AnthropicTables
<1>13. text' = Table(Known', Heard')
  <2>1. CASE items[n].kind = "text"
    <3>1. n \in Known /\ Heard'[n] = Append(Heard[n], d)
      BY <1>9, <1>11, <2>1
    <3>2. \A i \in Known : i # n => Heard[i] = Heard'[i]
      BY <1>6, <1>11
    <3>3. Write(Table(Known, Heard), n, d) = Table(Known, Heard')
      BY <3>1, <3>2, TableWrite
    <3>4. text' = Write(text, n, d)
      BY <1>8, <1>10, <2>1, <3>1
    <3>5. QED
      BY <1>5, <3>3, <3>4 DEF AnthropicTables
  <2>2. CASE items[n].kind # "text"
    <3>1. \A i \in Known : Heard[i] = Heard'[i]
      BY <1>6, <1>11, <2>2
    <3>2. Table(Known, Heard) = Table(Known, Heard')
      BY <3>1, TableSame
    <3>3. QED
      BY <1>5, <1>8, <2>2, <3>2 DEF AnthropicTables
  <2>3. QED
    BY <2>1, <2>2
<1>14. args' = Table(C', Whole')
  <2>1. args' = IF items[n].kind = "call" THEN Write(args, n, deltas + 1) ELSE args
    BY <1>8, <1>9, <1>10 DEF d
  <2>2. QED
    BY <1>1, <2>1, CallsSpoken DEF AnthropicTables, C
<1>15. QED
  BY <1>7, <1>12, <1>13, <1>14 DEF AnthropicTables, C

-----------------------------------------------------------------------------
(* parseOpenAISSE                                                          *)

ChatTables ==
  LET T == ItemsOf("text")
  IN  /\ DOMAIN text = {0}
      /\ \A i \in T : text[0] = Whole[i] /\ T = {i}
      /\ T = {} => text[0] = <<>>
      /\ args = Table(ItemsOf("call"), Whole)

(* ChatHolds, in tables.                                                   *)
LEMMA ChatIs == ChatHolds <=> ChatTables
<1>1. Table(ItemsOf("call"), Whole) = [i \in ItemsOf("call") |-> Said(i)]
  BY DEF Table, Whole, ItemsOf
<1>2. \A i \in ItemsOf("text") : Whole[i] = Said(i)
  BY DEF Whole, ItemsOf
<1>3. QED
  BY <1>1, <1>2 DEF ChatHolds, ChatTables

(* The first chunk of an item keeps the builders of parseOpenAISSE in      *)
(* step.                                                                   *)
LEMMA ChatOpening ==
  ASSUME StreamTypeOK, ChatTables, NEW k \in Kinds, ChatOpens(k)
  PROVE  ChatTables'
<1> DEFINE T == ItemsOf("text")
<1>1. Open(k) /\ text' = text /\ OneText(k)
  BY DEF ChatOpens
<1>2. /\ Fresh \notin DOMAIN items
      /\ Whole'[Fresh] = <<>> /\ \A i \in DOMAIN items : Whole'[i] = Whole[i]
  BY <1>1, Opened
<1>3. T' = T \cup (IF "text" = k THEN {Fresh} ELSE {})
  BY <1>1, OpenItems
<1>4. T \subseteq DOMAIN items /\ (k = "text" => T = {})
  BY <1>1 DEF OneText, ItemsOf
<1>5. args' = Table(ItemsOf("call")', Whole')
  <2>1. args' = IF k = "call" THEN Put(args, Fresh, <<>>) ELSE args
    BY DEF ChatOpens, Fresh
  <2>2. QED
    BY <1>1, <2>1, CallsOpened DEF ChatTables
<1>6. /\ DOMAIN text = {0} /\ \A i \in T : text[0] = Whole[i] /\ T = {i}
      /\ T = {} => text[0] = <<>>
  BY DEF ChatTables
<1> HIDE DEF T
<1>7. CASE k = "text"
  <2>1. T' = {Fresh} /\ text'[0] = <<>>
    BY <1>1, <1>3, <1>4, <1>6, <1>7
  <2>2. \A i \in T' : text'[0] = Whole'[i] /\ T' = {i}
    BY <1>2, <2>1
  <2>3. QED
    BY <1>1, <1>5, <1>6, <2>1, <2>2 DEF ChatTables, T
<1>8. CASE k # "text"
  <2>1. T' = T
    BY <1>3, <1>8
  <2>2. \A i \in T' : text'[0] = Whole'[i] /\ T' = {i}
    BY <1>1, <1>2, <1>4, <1>6, <2>1
  <2>3. QED
    BY <1>1, <1>5, <1>6, <2>1, <2>2 DEF ChatTables, T
<1>9. QED
  BY <1>7, <1>8

(* Every other chunk keeps the builders of parseOpenAISSE in step.         *)
LEMMA ChatSpeaks ==
  ASSUME StreamTypeOK, ChatTables, NEW n \in DOMAIN items, ChatDelta(n)
  PROVE  ChatTables'
<1> DEFINE T == ItemsOf("text")
           d == deltas + 1
<1>1. Speak(n)
  BY DEF ChatDelta
<1>2. /\ Whole'[n] = Append(Whole[n], d)
      /\ \A i \in DOMAIN items : i # n => Whole'[i] = Whole[i]
  BY <1>1, Spoken
<1>3. T' = T /\ T \subseteq DOMAIN items /\ (n \in T <=> items[n].kind = "text")
  BY <1>1, SpeakItems DEF ItemsOf
<1>4. args' = Table(ItemsOf("call")', Whole')
  <2>1. args' = IF items[n].kind = "call" THEN Write(args, n, deltas + 1) ELSE args
    BY DEF ChatDelta
  <2>2. QED
    BY <1>1, <2>1, CallsSpoken DEF ChatTables
<1>5. /\ DOMAIN text = {0} /\ \A i \in T : text[0] = Whole[i] /\ T = {i}
      /\ T = {} => text[0] = <<>>
  BY DEF ChatTables
<1>6. text' = IF items[n].kind = "text" THEN Write(text, 0, d) ELSE text
  BY DEF ChatDelta
<1> HIDE DEF T, d
<1>7. CASE n \in T
  <2>1. T = {n} /\ text[0] = Whole[n] /\ text' = Write(text, 0, d)
    BY <1>3, <1>5, <1>6, <1>7
  <2>2. DOMAIN text' = {0} /\ text'[0] = Append(text[0], d)
    BY <1>5, <2>1 DEF Write, Put, Builder
  <2>3. \A i \in T' : text'[0] = Whole'[i] /\ T' = {i}
    BY <1>2, <1>3, <2>1, <2>2
  <2>4. T' # {}
    BY <1>3, <2>1
  <2>5. QED
    BY <1>4, <2>2, <2>3, <2>4 DEF ChatTables, T
<1>8. CASE n \notin T
  <2>1. text' = text
    BY <1>3, <1>6, <1>8
  <2>2. \A i \in T' : text'[0] = Whole'[i] /\ T' = {i}
    BY <1>2, <1>3, <1>5, <1>8, <2>1
  <2>3. QED
    BY <1>3, <1>4, <1>5, <2>1, <2>2 DEF ChatTables, T
<1>9. QED
  BY <1>7, <1>8

-----------------------------------------------------------------------------
(* handleResponsesSSEEvent                                                 *)

ResponsesTables ==
  /\ kindOf = Table(DOMAIN items, Kind)
  /\ order = [i \in 1..Len(items) |-> i]
  /\ DOMAIN text \subseteq ItemsOf("text") /\ DOMAIN args \subseteq ItemsOf("call")
  /\ \A i \in ItemsOf("text") : Builder(text, i) = Whole[i]
  /\ \A i \in ItemsOf("call") : Builder(args, i) = Whole[i]

(* ResponsesHolds, in tables.                                              *)
LEMMA ResponsesIs ==
  ASSUME StreamTypeOK
  PROVE  ResponsesHolds <=>
           ResponsesTables /\ final = IF ended = "completed" THEN items ELSE <<>>
<1>1. Table(DOMAIN items, Kind) = [i \in DOMAIN items |-> items[i].kind]
  BY DEF Table, Kind
<1>2. \A i \in DOMAIN items : Whole[i] = Said(i)
  BY DEF Whole
<1>3. \A c : ItemsOf(c) \subseteq DOMAIN items
  BY DEF ItemsOf
<1>4. DOMAIN items = 1..Len(items)
  BY TypeOf
<1>5. QED
  BY <1>1, <1>2, <1>3, <1>4 DEF ResponsesHolds, ResponsesTables

(* response.output_item.added keeps the maps in step.                      *)
LEMMA ResponsesOpens ==
  ASSUME StreamTypeOK, ResponsesTables, NEW k \in Kinds, OutputItemAdded(k)
  PROVE  ResponsesTables'
<1>1. Open(k) /\ text' = text /\ args' = args
      /\ kindOf' = Put(kindOf, Fresh, k) /\ order' = Append(order, Fresh)
  BY DEF OutputItemAdded, Fresh
<1>2. /\ Fresh \notin DOMAIN items /\ DOMAIN items' = DOMAIN items \cup {Fresh}
      /\ Kind'[Fresh] = k /\ \A i \in DOMAIN items : Kind'[i] = Kind[i]
      /\ Whole'[Fresh] = <<>> /\ \A i \in DOMAIN items : Whole'[i] = Whole[i]
  BY <1>1, Opened
<1>3. ItemsOf("text")' = ItemsOf("text") \cup (IF "text" = k THEN {Fresh} ELSE {})
  BY <1>1, OpenItems
<1>4. ItemsOf("call")' = ItemsOf("call") \cup (IF "call" = k THEN {Fresh} ELSE {})
  BY <1>1, OpenItems
<1>5. ItemsOf("call") \subseteq DOMAIN items /\ ItemsOf("text") \subseteq DOMAIN items
  BY ItemsIs
<1>6. kindOf' = Table((DOMAIN items)', Kind')
  <2>1. \A i \in DOMAIN items : i # Fresh => Kind[i] = Kind'[i]
    BY <1>2
  <2>2. Put(Table(DOMAIN items, Kind), Fresh, Kind'[Fresh])
          = Table(DOMAIN items \cup {Fresh}, Kind')
    BY <2>1, TablePut
  <2>3. QED
    BY <1>1, <1>2, <2>2 DEF ResponsesTables
<1>7. order' = [i \in 1..Len(items') |-> i]
  <2>1. Len(items) \in Nat /\ Len(items') = Len(items) + 1
    BY <1>1, OpenEffect, TypeOf DEF Fresh
  <2>2. order = [i \in 1..Len(items) |-> i] /\ order' = Append(order, Len(items) + 1)
    BY <1>1 DEF ResponsesTables, Fresh
  <2>3. order \in Seq(Nat) /\ Len(order) = Len(items)
    BY <2>1, <2>2
  <2>4. QED
    BY <2>1, <2>2, <2>3
<1>8. ASSUME NEW i \in ItemsOf("text")' PROVE Builder(text', i) = Whole'[i]
  <2>1. CASE i = Fresh
    BY <1>1, <1>2, <1>5, <2>1 DEF ResponsesTables, Builder
  <2>2. CASE i # Fresh
    BY <1>1, <1>2, <1>3, <1>5, <1>8, <2>2 DEF ResponsesTables
  <2>3. QED
    BY <2>1, <2>2
<1>9. ASSUME NEW i \in ItemsOf("call")' PROVE Builder(args', i) = Whole'[i]
  <2>1. CASE i = Fresh
    BY <1>1, <1>2, <1>5, <2>1 DEF ResponsesTables, Builder
  <2>2. CASE i # Fresh
    BY <1>1, <1>2, <1>4, <1>5, <1>9, <2>2 DEF ResponsesTables
  <2>3. QED
    BY <2>1, <2>2
<1>10. DOMAIN text' \subseteq ItemsOf("text")' /\ DOMAIN args' \subseteq ItemsOf("call")'
  BY <1>1, <1>3, <1>4 DEF ResponsesTables
<1>11. QED
  BY <1>6, <1>7, <1>8, <1>9, <1>10 DEF ResponsesTables

(* A delta of the text or of the arguments keeps the maps in step.         *)
LEMMA ResponsesSpeaks ==
  ASSUME StreamTypeOK, ResponsesTables, NEW n \in DOMAIN items, OutputDelta(n)
  PROVE  ResponsesTables'
<1> DEFINE d == deltas + 1
           T == ItemsOf("text")
           C == ItemsOf("call")
<1>1. /\ Speak(n) /\ kindOf' = kindOf /\ order' = order
      /\ text' = IF items[n].kind = "text" THEN Write(text, n, d) ELSE text
      /\ args' = IF items[n].kind = "call" THEN Write(args, n, d) ELSE args
  BY DEF OutputDelta
<1>2. /\ DOMAIN items' = DOMAIN items /\ Kind' = Kind
      /\ Whole'[n] = Append(Whole[n], d)
      /\ \A i \in DOMAIN items : i # n => Whole'[i] = Whole[i]
  BY <1>1, Spoken
<1>3. Len(items') = Len(items)
  BY <1>1, SpeakEffect
<1>4. T' = T /\ C' = C
  BY <1>1, SpeakItems
<1>5. /\ T \subseteq DOMAIN items /\ C \subseteq DOMAIN items
      /\ n \in T <=> items[n].kind = "text"
      /\ n \in C <=> items[n].kind = "call"
  BY DEF ItemsOf
<1>6. /\ DOMAIN text \subseteq T /\ DOMAIN args \subseteq C
      /\ \A i \in T : Builder(text, i) = Whole[i]
      /\ \A i \in C : Builder(args, i) = Whole[i]
  BY DEF ResponsesTables
<1> HIDE DEF T, C, d
<1>7. DOMAIN text' \subseteq T /\ \A i \in T : Builder(text', i) = Whole'[i]
  <2>1. CASE n \in T
    <3>1. text' = Write(text, n, d)
      BY <1>1, <1>5, <2>1
    <3>2. /\ DOMAIN Write(text, n, d) = DOMAIN text \cup {n}
          /\ Builder(Write(text, n, d), n) = Append(Builder(text, n), d)
          /\ \A i : i # n => Builder(Write(text, n, d), i) = Builder(text, i)
      BY DEF Write, Builder, Put
    <3>3. QED
      BY <1>2, <1>5, <1>6, <2>1, <3>1, <3>2
  <2>2. CASE n \notin T
    BY <1>1, <1>2, <1>5, <1>6, <2>2
  <2>3. QED
    BY <2>1, <2>2
<1>8. DOMAIN args' \subseteq C /\ \A i \in C : Builder(args', i) = Whole'[i]
  <2>1. CASE n \in C
    <3>1. args' = Write(args, n, d)
      BY <1>1, <1>5, <2>1
    <3>2. /\ DOMAIN Write(args, n, d) = DOMAIN args \cup {n}
          /\ Builder(Write(args, n, d), n) = Append(Builder(args, n), d)
          /\ \A i : i # n => Builder(Write(args, n, d), i) = Builder(args, i)
      BY DEF Write, Builder, Put
    <3>3. QED
      BY <1>2, <1>5, <1>6, <2>1, <3>1, <3>2
  <2>2. CASE n \notin C
    BY <1>1, <1>2, <1>5, <1>6, <2>2
  <2>3. QED
    BY <2>1, <2>2
<1>9. kindOf' = Table((DOMAIN items)', Kind') /\ order' = [i \in 1..Len(items') |-> i]
  BY <1>1, <1>2, <1>3 DEF ResponsesTables
<1>10. QED
  BY <1>4, <1>7, <1>8, <1>9 DEF ResponsesTables, T, C

(* An event the parser does not know changes nothing it should.            *)
LEMMA ResponsesParts ==
  ASSUME StreamTypeOK, ResponsesTables, NEW n \in DOMAIN items, ContentPartAdded(n)
  PROVE  ResponsesTables'
<1>1. /\ items' = [items EXCEPT ![n].parts = Append(@, <<>>)]
      /\ kindOf' = kindOf /\ text' = text /\ args' = args /\ order' = order
  BY DEF ContentPartAdded
<1>2. /\ items' \in Seq(Item) /\ DOMAIN items' = DOMAIN items
      /\ \A j \in DOMAIN items : items'[j].kind = items[j].kind /\ Said(j)' = Said(j)
  BY <1>1, PartEffect
<1>3. Kind' = Kind /\ Whole' = Whole
  BY <1>2 DEF Kind, Whole
<1>4. ItemsOf("text")' = ItemsOf("text") /\ ItemsOf("call")' = ItemsOf("call")
  BY <1>2 DEF ItemsOf
<1>5. Len(items') = Len(items)
  BY <1>2, TypeOf
<1>6. QED
  BY <1>1, <1>2, <1>3, <1>4, <1>5 DEF ResponsesTables

-----------------------------------------------------------------------------
(* The invariant                                                           *)

(* StreamInv in the words of the lemmas.                                   *)
FinalIs == final = IF ended = "completed" THEN items ELSE <<>>

StreamHolds ==
  /\ StreamTypeOK
  /\ provider = "anthropic" => AnthropicTables
  /\ provider = "chat" => ChatTables
  /\ provider = "responses" => ResponsesTables /\ FinalIs
  /\ ended = "completed" => Complete

(* StreamHolds is the invariant of StreamReassembly.                       *)
LEMMA StreamIs == StreamHolds <=> StreamInv
BY AnthropicIs, ChatIs, ResponsesIs DEF StreamInv, StreamHolds, FinalIs

(* The parsers start in step with the empty message.                       *)
LEMMA StreamInit == Init => StreamHolds
<1> SUFFICES ASSUME Init PROVE StreamHolds
  OBVIOUS
<1>1. /\ provider \in Providers /\ items = <<>> /\ deltas = 0 /\ ended = "no"
      /\ kindOf = Empty /\ args = Empty /\ order = <<>> /\ final = <<>>
      /\ text = IF provider = "chat" THEN Put(Empty, 0, <<>>) ELSE Empty
  BY DEF Init
<1>2. DOMAIN items = {} /\ Len(items) = 0 /\ DOMAIN Empty = {}
  BY <1>1 DEF Empty
<1>3. \A c : ItemsOf(c) = {}
  BY <1>2 DEF ItemsOf
<1>4. StreamTypeOK
  BY <1>1, <1>2, TypeOf
<1>5. Known = {} /\ \A v : Empty = Table({}, v)
  BY <1>3 DEF Known, Table, Empty
<1>6. ASSUME provider = "anthropic" PROVE AnthropicTables
  <2>1. text = Empty
    BY <1>1, <1>6
  <2>2. Singles
    BY <1>2 DEF Singles
  <2>3. QED
    BY <1>1, <1>3, <1>5, <2>1, <2>2 DEF AnthropicTables
<1>7. ASSUME provider = "chat" PROVE ChatTables
  <2>1. text = Put(Empty, 0, <<>>)
    BY <1>1, <1>7
  <2>2. DOMAIN text = {0} /\ text[0] = <<>>
    BY <1>2, <2>1 DEF Put
  <2>3. QED
    BY <1>1, <1>3, <1>5, <2>2 DEF ChatTables
<1>8. ASSUME provider = "responses" PROVE ResponsesTables
  <2>1. text = Empty
    BY <1>1, <1>8
  <2>2. kindOf = Table(DOMAIN items, Kind)
    BY <1>1, <1>2, <1>5
  <2>3. order = [i \in 1..Len(items) |-> i]
    BY <1>1, <1>2
  <2>4. DOMAIN text \subseteq ItemsOf("text") /\ DOMAIN args \subseteq ItemsOf("call")
    BY <1>1, <1>2, <2>1
  <2>5. QED
    BY <1>3, <2>2, <2>3, <2>4 DEF ResponsesTables
<1>9. FinalIs
  BY <1>1 DEF FinalIs
<1>10. QED
  BY <1>1, <1>4, <1>6, <1>7, <1>8, <1>9 DEF StreamHolds

(* A step leaves the last event for later, or is it.                       *)
LEMMA StreamGoesOn ==
  ASSUME StreamHolds, StreamTypeOK', ended = "no", ended' = ended, final' = final,
         provider' = provider,
         \/ provider = "anthropic" /\ AnthropicTables'
         \/ provider = "chat" /\ ChatTables'
         \/ provider = "responses" /\ ResponsesTables'
  PROVE  StreamHolds'
BY DEF StreamHolds, FinalIs

(* With the message and the maps unchanged, they stay in step.             *)
LEMMA StreamSame ==
  ASSUME StreamHolds, StreamTypeOK', provider' = provider, items' = items,
         UNCHANGED <<kindOf, text, args, order>>
  PROVE  /\ Complete' = Complete
         /\ provider = "anthropic" => AnthropicTables'
         /\ provider = "chat" => ChatTables'
         /\ provider = "responses" => ResponsesTables'
<1>1. /\ Whole' = Whole /\ Kind' = Kind /\ Heard' = Heard /\ Known' = Known
      /\ \A c : ItemsOf(c)' = ItemsOf(c)
      /\ Singles' = Singles /\ Complete' = Complete
  BY DEF Whole, Kind, Heard, Known, ItemsOf, Singles, Complete, Said
<1>2. provider = "anthropic" => AnthropicTables'
  BY <1>1 DEF StreamHolds, AnthropicTables
<1>3. provider = "chat" => ChatTables'
  BY <1>1 DEF StreamHolds, ChatTables
<1>4. provider = "responses" => ResponsesTables'
  BY <1>1 DEF StreamHolds, ResponsesTables
<1>5. QED
  BY <1>1, <1>2, <1>3, <1>4

(* Every step keeps the parser of the provider in step with it.            *)
LEMMA StreamStep == StreamHolds /\ [Next]_vars => StreamHolds'
<1> SUFFICES ASSUME StreamHolds, [Next]_vars PROVE StreamHolds'
  OBVIOUS
<1>1. StreamTypeOK /\ StreamTypeOK'
  BY TypeStep DEF StreamHolds
<1>2. ASSUME NEW k \in Kinds, ContentBlockStart(k) PROVE StreamHolds'
  <2>1. provider = "anthropic" /\ Says("anthropic") /\ final' = final
    BY <1>2 DEF ContentBlockStart, Says
  <2>2. AnthropicTables'
    BY <1>1, <1>2, <2>1, AnthropicOpens DEF StreamHolds
  <2>3. QED
    BY <1>1, <2>1, <2>2, StreamGoesOn DEF Says
<1>3. ASSUME NEW k \in Kinds, ChatOpens(k) PROVE StreamHolds'
  <2>1. provider = "chat" /\ Says("chat") /\ final' = final
    BY <1>3 DEF ChatOpens, Says
  <2>2. ChatTables'
    BY <1>1, <1>3, <2>1, ChatOpening DEF StreamHolds
  <2>3. QED
    BY <1>1, <2>1, <2>2, StreamGoesOn DEF Says
<1>4. ASSUME NEW k \in Kinds, OutputItemAdded(k) PROVE StreamHolds'
  <2>1. provider = "responses" /\ Says("responses") /\ final' = final
    BY <1>4 DEF OutputItemAdded, Says
  <2>2. ResponsesTables'
    BY <1>1, <1>4, <2>1, ResponsesOpens DEF StreamHolds
  <2>3. QED
    BY <1>1, <2>1, <2>2, StreamGoesOn DEF Says
<1>5. CASE ContentBlockDelta
  <2>1. provider = "anthropic" /\ Says("anthropic") /\ final' = final
    BY <1>5 DEF ContentBlockDelta, Says
  <2>2. AnthropicTables'
    BY <1>1, <1>5, <2>1, AnthropicSpeaks DEF StreamHolds
  <2>3. QED
    BY <1>1, <2>1, <2>2, StreamGoesOn DEF Says
<1>6. ASSUME NEW i \in DOMAIN items, ChatDelta(i) PROVE StreamHolds'
  <2>1. provider = "chat" /\ Says("chat") /\ final' = final
    BY <1>6 DEF ChatDelta, Says
  <2>2. ChatTables'
    BY <1>1, <1>6, <2>1, ChatSpeaks DEF StreamHolds
  <2>3. QED
    BY <1>1, <2>1, <2>2, StreamGoesOn DEF Says
<1>7. ASSUME NEW i \in DOMAIN items, OutputDelta(i) PROVE StreamHolds'
  <2>1. provider = "responses" /\ Says("responses") /\ final' = final
    BY <1>7 DEF OutputDelta, Says
  <2>2. ResponsesTables'
    BY <1>1, <1>7, <2>1, ResponsesSpeaks DEF StreamHolds
  <2>3. QED
    BY <1>1, <2>1, <2>2, StreamGoesOn DEF Says
<1>8. ASSUME NEW i \in DOMAIN items, ContentPartAdded(i) PROVE StreamHolds'
  <2>1. provider = "responses" /\ Says("responses") /\ final' = final
    BY <1>8 DEF ContentPartAdded, Says
  <2>2. ResponsesTables'
    BY <1>1, <1>8, <2>1, ResponsesParts DEF StreamHolds
  <2>3. QED
    BY <1>1, <2>1, <2>2, StreamGoesOn DEF Says
<1>9. ASSUME NEW how \in {"completed", "incomplete"}, Ends(how) PROVE StreamHolds'
  <2>1. /\ provider' = provider /\ items' = items /\ ended = "no" /\ ended' = how
        /\ how = "completed" => Complete
        /\ final' = IF provider = "responses" /\ how = "completed" THEN items ELSE final
        /\ UNCHANGED <<kindOf, text, args, order>>
    BY <1>9 DEF Ends
  <2>2. /\ Complete' = Complete
        /\ provider = "anthropic" => AnthropicTables'
        /\ provider = "chat" => ChatTables'
        /\ provider = "responses" => ResponsesTables'
    BY <1>1, <2>1, StreamSame
  <2>3. provider = "responses" => FinalIs'
    BY <2>1 DEF StreamHolds, FinalIs
  <2>4. QED
    BY <1>1, <2>1, <2>2, <2>3 DEF StreamHolds
<1>10. CASE UNCHANGED vars
  <2>1. /\ provider' = provider /\ items' = items /\ ended' = ended /\ final' = final
        /\ UNCHANGED <<kindOf, text, args, order>>
    BY <1>10 DEF vars, server
  <2>2. /\ Complete' = Complete
        /\ provider = "anthropic" => AnthropicTables'
        /\ provider = "chat" => ChatTables'
        /\ provider = "responses" => ResponsesTables'
    BY <1>1, <2>1, StreamSame
  <2>3. QED
    BY <1>1, <2>1, <2>2 DEF StreamHolds, FinalIs
<1>11. QED
  BY <1>2, <1>3, <1>4, <1>5, <1>6, <1>7, <1>8, <1>9, <1>10 DEF Next

(* The inductive invariant: at any place of a stream the maps of           *)
(* handleSSE, parseOpenAISSE and handleResponsesSSEEvent hold what was     *)
(* said, by item.                                                          *)
THEOREM StreamCorrect == StreamSpec => []StreamInv
<1>1. Init => StreamHolds
  BY StreamInit
<1>2. StreamHolds /\ [Next]_vars => StreamHolds'
  BY StreamStep
<1>3. StreamHolds => StreamInv
  BY StreamIs
<1>4. QED
  BY <1>1, <1>2, <1>3, PTL DEF StreamSpec

-----------------------------------------------------------------------------
(* What a content keeps of an item                                         *)

Block == [kind : {"text", "call"}, item : Nat, value : Seq(Nat)]

(* What a block gives to item i.                                           *)
Given(i, b) == IF Key(b) = i /\ b.kind = items[i].kind THEN Words(b.value) ELSE <<>>
Take(i) == [b \in Block |-> Given(i, b)]

(* What blocks give to an item are words.                                  *)
LEMMA TakePuts ==
  ASSUME NEW i
  PROVE  Puts(Take(i), Block, Nat)
<1>1. \A b \in Block : b.value \in Seq(Nat)
  BY DEF Block
<1>2. \A b \in Block : Given(i, b) \in Seq(Nat)
  BY <1>1 DEF Given, Words
<1>3. QED
  BY <1>2 DEF Puts, Take

(* Blocks that give nothing to an item, each, give nothing together.       *)
LEMMA TakeNone ==
  ASSUME NEW i, NEW s \in Seq(Block), \A n \in 1..Len(s) : Given(i, s[n]) = <<>>
  PROVE  Each(Take(i), s) = <<>>
<1>1. Puts(Take(i), Block, Nat)
  BY TakePuts
<1>2. /\ Images(Take(i), s) \in Seq(Seq(Nat)) /\ Len(Images(Take(i), s)) = Len(s)
      /\ \A n \in 1..Len(s) : Images(Take(i), s)[n] = Take(i)[s[n]]
  <2>1. HasImages(Take(i), s, Nat)
    BY <1>1, EachType
  <2>2. QED
    BY <2>1 DEF HasImages
<1>3. \A n \in 1..Len(s) : s[n] \in Block /\ Take(i)[s[n]] = <<>>
  BY DEF Take
<1>4. \A n \in 1..Len(Images(Take(i), s)) : Images(Take(i), s)[n] = <<>>
  BY <1>2, <1>3
<1>5. QED
  BY <1>2, <1>4, FlattenNone DEF Each

(* No blocks give nothing.                                                 *)
LEMMA TakeEmpty ==
  ASSUME NEW i
  PROVE  Each(Take(i), <<>>) = <<>>
<1>1. Images(Take(i), <<>>) = <<>>
  BY DEF Images
<1>2. QED
  BY <1>1, FlattenEmpty DEF Each

(* One block gives what it gives.                                          *)
LEMMA TakeOne ==
  ASSUME NEW i, NEW b \in Block
  PROVE  Each(Take(i), <<b>>) = Given(i, b)
<1>1. Images(Take(i), <<b>>) = <<Take(i)[b]>> /\ Take(i)[b] = Given(i, b)
  BY DEF Images, Take
<1>2. Take(i)[b] \in Seq(Nat)
  BY TakePuts DEF Puts
<1>3. QED
  BY <1>1, <1>2, FlattenOne DEF Each

(* Kept is what all blocks of the content give to the item.                *)
LEMMA KeptIs ==
  ASSUME NEW i, Content \in Seq(Block)
  PROVE  Kept(i) = <<items[i].kind, Each(Take(i), Content)>>
<1> DEFINE c == Content
<1>1. \A n \in DOMAIN c : c[n] \in Block
  OBVIOUS
<1>2. [n \in DOMAIN c |-> Given(i, c[n])] = Images(Take(i), c)
  BY <1>1 DEF Images, Take
<1>3. Kept(i) = <<items[i].kind, FlattenSeq([n \in DOMAIN c |-> Given(i, c[n])])>>
  BY DEF Kept, Given
<1>4. QED
  BY <1>2, <1>3 DEF Each

(* A content in pieces keeps an item if one piece does, and the others say *)
(* nothing of it.                                                          *)
LEMMA KeptInPieces ==
  ASSUME NEW i, NEW ss \in Seq(Seq(Block)), Content = FlattenSeq(ss), NEW k \in 1..Len(ss),
         Each(Take(i), ss[k]) = Said(i),
         \A j \in 1..Len(ss) : j # k => Each(Take(i), ss[j]) = <<>>
  PROVE  Kept(i) = SaidOf(i)
<1> DEFINE tt == [j \in DOMAIN ss |-> Each(Take(i), ss[j])]
<1>1. Puts(Take(i), Block, Nat)
  BY TakePuts
<1>2. Content \in Seq(Block)
  BY FlattenType
<1>3. Each(Take(i), FlattenSeq(ss)) = FlattenSeq(tt)
  BY <1>1, EachFlatten
<1>4. DOMAIN ss = 1..Len(ss) /\ Len(ss) \in Nat /\ \A j \in 1..Len(ss) : ss[j] \in Seq(Block)
  OBVIOUS
<1>5. \A j \in 1..Len(ss) : Each(Take(i), ss[j]) \in Seq(Nat)
  BY <1>1, <1>4, EachType
<1>6. /\ tt \in Seq(Seq(Nat)) /\ Len(tt) = Len(ss)
      /\ \A j \in 1..Len(ss) : tt[j] = Each(Take(i), ss[j])
  BY <1>4, <1>5
<1> HIDE DEF tt
<1>7. FlattenSeq(tt) = tt[k]
  <2>1. k \in 1..Len(tt) /\ \A j \in 1..Len(tt) : j # k => tt[j] = <<>>
    BY <1>6
  <2>2. QED
    BY <1>6, <2>1, FlattenOnly
<1>8. Each(Take(i), Content) = Said(i)
  BY <1>3, <1>6, <1>7
<1>9. QED
  BY <1>2, <1>8, KeptIs DEF SaidOf

(* A sequence is one of the set its elements are of.                       *)
LEMMA SeqNarrows ==
  ASSUME NEW X, NEW Y, NEW s \in Seq(X), \A n \in 1..Len(s) : s[n] \in Y
  PROVE  s \in Seq(Y)
<1>1. Len(s) \in Nat /\ DOMAIN s = 1..Len(s) /\ s = [n \in 1..Len(s) |-> s[n]]
  OBVIOUS
<1>2. s \in [1..Len(s) -> Y]
  BY <1>1
<1>3. QED
  BY <1>1, <1>2, SeqDef

(* No block is of an item of a kind that is not kept.                      *)
LEMMA KnownInPieces ==
  ASSUME NEW ss \in Seq(Seq(Block)), Content = FlattenSeq(ss),
         \A j \in 1..Len(ss) : \A n \in 1..Len(ss[j]) : items[Key(ss[j][n])].kind # "other"
  PROVE  \A n \in DOMAIN Content : items[Key(Content[n])].kind # "other"
<1> DEFINE X == {b \in Block : items[Key(b)].kind # "other"}
<1>1. \A j \in 1..Len(ss) : ss[j] \in Seq(Block)
  OBVIOUS
<1>2. ASSUME NEW j \in 1..Len(ss) PROVE ss[j] \in Seq(X)
  <2>1. \A n \in 1..Len(ss[j]) : ss[j][n] \in X
    BY <1>1
  <2> HIDE DEF X
  <2>2. QED
    BY <1>1, <2>1, SeqNarrows
<1> HIDE DEF X
<1>3. ss \in Seq(Seq(X))
  BY <1>2
<1>4. Content \in Seq(X)
  BY <1>3, FlattenType
<1>5. \A n \in DOMAIN Content : Content[n] \in X
  BY <1>4
<1>6. QED
  BY <1>5 DEF X

-----------------------------------------------------------------------------
(* Contents in pieces                                                      *)

(* A piece of the content that is what an item gave.                       *)
Mine(i, s) ==
  /\ \A n \in 1..Len(s) : s[n].item = i /\ items[i].kind # "other"
  /\ items[i].kind # "other" => Each(Take(i), s) = Said(i)

(* A content in pieces, the piece of each item being what it gave, keeps   *)
(* all that was said.                                                      *)
LEMMA KeepsOfItems ==
  ASSUME items \in Seq(Item), NEW bb \in Seq(Seq(Block)), Len(bb) = Len(items),
         Content = FlattenSeq(bb), \A i \in DOMAIN items : Mine(i, bb[i])
  PROVE  KeepsAllSaid
<1>1. DOMAIN items = 1..Len(items) /\ Len(items) \in Nat
  BY ItemFacts
<1>2. \A i \in DOMAIN items : bb[i] \in Seq(Block)
  BY <1>1
<1>3. ASSUME NEW j \in DOMAIN items, NEW n \in 1..Len(bb[j])
      PROVE  Key(bb[j][n]) = j /\ items[j].kind # "other"
  <2>1. bb[j][n].item = j /\ items[j].kind # "other"
    BY DEF Mine
  <2>2. j # 0
    BY <1>1
  <2>3. QED
    BY <2>1, <2>2 DEF Key
<1>4. ASSUME NEW i \in DOMAIN items, items[i].kind # "other" PROVE Kept(i) = SaidOf(i)
  <2>1. Each(Take(i), bb[i]) = Said(i)
    BY <1>4 DEF Mine
  <2>2. ASSUME NEW j \in DOMAIN items, j # i PROVE Each(Take(i), bb[j]) = <<>>
    <3>1. \A n \in 1..Len(bb[j]) : Given(i, bb[j][n]) = <<>>
      BY <1>3, <2>2 DEF Given
    <3>2. QED
      BY <1>2, <3>1, TakeNone
  <2>3. i \in 1..Len(bb) /\ \A j \in 1..Len(bb) : j # i => Each(Take(i), bb[j]) = <<>>
    BY <1>1, <2>2
  <2>4. QED
    BY <2>1, <2>3, KeptInPieces
<1>5. \A n \in DOMAIN Content : items[Key(Content[n])].kind # "other"
  <2>1. \A j \in 1..Len(bb) : \A n \in 1..Len(bb[j]) : items[Key(bb[j][n])].kind # "other"
    BY <1>1, <1>3
  <2>2. QED
    BY <2>1, KnownInPieces
<1>6. QED
  BY <1>4, <1>5 DEF KeepsAllSaid

(* The pieces the parsers make of an item.                                 *)
LEMMA WordsSame ==
  ASSUME NEW t \in Seq(Word)
  PROVE  Words(t) = t /\ Words(Object(t)) = t
<1>1. t # << 0 >>
  <2>1. 1 \in 1..Len(<< 0 >>) /\ << 0 >>[1] = 0
    OBVIOUS
  <2>2. ASSUME t = << 0 >> PROVE FALSE
    <3>1. t[1] \in Word
      BY <2>1, <2>2, ElementOfSeq
    <3>2. QED
      BY <2>1, <2>2, <3>1 DEF Word
  <2>3. QED
    BY <2>2
<1>2. QED
  BY <1>1 DEF Words, Object

(* Blocks are well formed.                                                 *)
LEMMA PieceTypes ==
  ASSUME NEW i \in Nat, NEW t \in Seq(Nat)
  PROVE  /\ Text(i, t) \in Seq(Block) /\ Call(i, t) \in Seq(Block)
         /\ NonEmpty(i, t) \in Seq(Block)
<1> DEFINE a == [kind |-> "text", item |-> i, value |-> t]
           b == [kind |-> "call", item |-> i, value |-> t]
<1>1. a \in Block /\ b \in Block
  BY DEF Block
<1>2. Text(i, t) = <<a>> /\ Call(i, t) = <<b>>
  BY DEF Text, Call
<1> HIDE DEF a, b
<1>3. QED
  BY <1>1, <1>2 DEF NonEmpty

(* An item of a kind that is not known has no block.                       *)
LEMMA NothingIsMine ==
  ASSUME NEW i \in DOMAIN items, items[i].kind = "other"
  PROVE  Mine(i, <<>>)
BY DEF Mine

(* A block with all the text of an item is what it gave, and so is no      *)
(* block for no text.                                                      *)
LEMMA TextIsMine ==
  ASSUME NEW i \in Nat \ {0}, NEW t \in Seq(Word), items[i].kind = "text", Said(i) = t
  PROVE  Mine(i, Text(i, t)) /\ Mine(i, NonEmpty(i, t))
<1> DEFINE b == [kind |-> "text", item |-> i, value |-> t]
<1>1. t \in Seq(Nat)
  BY SeqMonotonic DEF Word
<1>2. b \in Block /\ b.item = i /\ b.kind = "text" /\ b.value = t
  BY <1>1 DEF Block
<1>3. Text(i, t) = <<b>>
  BY DEF Text
<1> HIDE DEF b
<1>4. Each(Take(i), <<b>>) = t
  <2>1. Given(i, b) = t
    BY <1>2, WordsSame DEF Given, Key
  <2>2. QED
    BY <1>2, <2>1, TakeOne
<1>5. Mine(i, <<b>>)
  BY <1>2, <1>4 DEF Mine
<1>6. t = <<>> => Mine(i, <<>>)
  <2>1. Each(Take(i), <<>>) = <<>>
    BY TakeEmpty
  <2>2. QED
    BY <2>1 DEF Mine
<1>7. QED
  BY <1>3, <1>5, <1>6 DEF NonEmpty

(* A block with the arguments of a call, or with {} for none, is what it   *)
(* gave.                                                                   *)
LEMMA CallIsMine ==
  ASSUME NEW i \in Nat \ {0}, NEW t \in Seq(Nat), items[i].kind = "call", Words(t) = Said(i)
  PROVE  Mine(i, Call(i, t))
<1> DEFINE b == [kind |-> "call", item |-> i, value |-> t]
<1>1. b \in Block /\ b.item = i /\ b.kind = "call" /\ b.value = t
  BY DEF Block
<1>2. Call(i, t) = <<b>>
  BY DEF Call
<1> HIDE DEF b
<1>3. Each(Take(i), <<b>>) = Said(i)
  <2>1. Given(i, b) = Said(i)
    BY <1>1 DEF Given, Key
  <2>2. QED
    BY <1>1, <2>1, TakeOne
<1>4. Mine(i, <<b>>)
  BY <1>1, <1>3 DEF Mine
<1>5. QED
  BY <1>2, <1>4

(* mapOAIResponseObject: the parts of a message, one block each.           *)
PartsOf(i) == [n \in DOMAIN items[i].parts |-> Text(i, items[i].parts[n])]

(* The blocks of the parts of a message are what it gave, together.        *)
LEMMA PartsAreMine ==
  ASSUME items \in Seq(Item), NEW i \in DOMAIN items, items[i].kind = "text"
  PROVE  FlattenSeq(PartsOf(i)) \in Seq(Block) /\ Mine(i, FlattenSeq(PartsOf(i)))
<1> DEFINE parts == items[i].parts
           X == {b \in Block : b.item = i /\ b.kind = "text"}
           pp == PartsOf(i)
           tt == [n \in DOMAIN pp |-> Each(Take(i), pp[n])]
<1>1. /\ parts \in Seq(Seq(Word)) /\ i \in Nat \ {0}
      /\ DOMAIN parts = 1..Len(parts) /\ Len(parts) \in Nat
  BY ItemFacts
<1>2. \A n \in 1..Len(parts) : parts[n] \in Seq(Word) /\ parts[n] \in Seq(Nat)
  <2>1. \A n \in 1..Len(parts) : parts[n] \in Seq(Word)
    BY <1>1
  <2>2. QED
    BY <2>1, SeqMonotonic DEF Word
<1>3. ASSUME NEW n \in 1..Len(parts)
      PROVE  Text(i, parts[n]) \in Seq(X) /\ Each(Take(i), Text(i, parts[n])) = parts[n]
  <2> DEFINE b == [kind |-> "text", item |-> i, value |-> parts[n]]
  <2>1. b \in Block /\ b.item = i /\ b.kind = "text" /\ b.value = parts[n]
    BY <1>1, <1>2 DEF Block
  <2>2. Text(i, parts[n]) = <<b>>
    BY DEF Text
  <2> HIDE DEF b
  <2>3. b \in X
    BY <2>1
  <2>4. Given(i, b) = parts[n]
    <3>1. Words(parts[n]) = parts[n]
      BY <1>2, WordsSame
    <3>2. QED
      BY <1>1, <2>1, <3>1 DEF Given, Key
  <2>5. QED
    BY <2>1, <2>2, <2>3, <2>4, TakeOne
<1>4. /\ pp \in Seq(Seq(X)) /\ Len(pp) = Len(parts) /\ DOMAIN pp = DOMAIN parts
      /\ \A n \in 1..Len(parts) : pp[n] = Text(i, parts[n])
  <2> HIDE DEF X, parts
  <2>1. PartsOf(i) = [n \in 1..Len(parts) |-> Text(i, parts[n])]
    BY <1>1 DEF PartsOf, parts
  <2>2. \A n \in 1..Len(parts) : Text(i, parts[n]) \in Seq(X)
    BY <1>3
  <2>3. QED
    BY <1>1, <2>1, <2>2
<1>5. FlattenSeq(pp) \in Seq(X)
  BY <1>4, FlattenType
<1>6. FlattenSeq(pp) \in Seq(Block) /\ pp \in Seq(Seq(Block))
  <2>1. X \subseteq Block
    OBVIOUS
  <2> HIDE DEF X, pp
  <2>2. FlattenSeq(pp) \in Seq(Block)
    BY <1>5, <2>1, SeqMonotonic
  <2>3. pp \in Seq(Seq(Block))
    BY <1>4, <2>1
  <2>4. QED
    BY <2>2, <2>3
<1>7. \A n \in 1..Len(FlattenSeq(pp)) : FlattenSeq(pp)[n].item = i
  <2>1. \A n \in 1..Len(FlattenSeq(pp)) : FlattenSeq(pp)[n] \in X
    <3> HIDE DEF X, pp
    <3>1. QED
      BY <1>5
  <2>2. QED
    BY <2>1
<1>8. Each(Take(i), FlattenSeq(pp)) = Said(i)
  <2>1. Puts(Take(i), Block, Nat)
    BY TakePuts
  <2>2. Each(Take(i), FlattenSeq(pp)) = FlattenSeq(tt)
    <3> HIDE DEF pp
    <3>1. QED
      BY <1>6, <2>1, EachFlatten
  <2>3. tt = parts
    <3>1. tt = [n \in DOMAIN parts |-> parts[n]]
      BY <1>1, <1>3, <1>4
    <3> HIDE DEF parts, tt
    <3>2. parts = [n \in DOMAIN parts |-> parts[n]]
      BY <1>1
    <3>3. QED
      BY <3>1, <3>2
  <2>4. QED
    BY <2>2, <2>3 DEF Said
<1>9. QED
  BY <1>6, <1>7, <1>8 DEF Mine

-----------------------------------------------------------------------------
(* The contents of parseAnthropicSSE and parseOAIResponsesSSE              *)

(* What each parser makes of an item.                                      *)
Streamed(i) == CASE items[i].kind = "text" -> Text(i, Said(i))
                 [] items[i].kind = "call" -> Call(i, Said(i))
                 [] OTHER -> <<>>
StitchedOf(i) == CASE items[i].kind = "text" -> NonEmpty(i, Said(i))
                   [] items[i].kind = "call" -> Call(i, Said(i))
                   [] OTHER -> <<>>
Mapped(i) == CASE items[i].kind = "text" -> FlattenSeq(PartsOf(i))
               [] items[i].kind = "call" -> Call(i, Object(Said(i)))
               [] OTHER -> <<>>

(* Each parser makes of an item what it gave.                              *)
LEMMA PiecesAreMine ==
  ASSUME items \in Seq(Item), NEW i \in DOMAIN items
  PROVE  /\ Streamed(i) \in Seq(Block) /\ Mine(i, Streamed(i))
         /\ StitchedOf(i) \in Seq(Block) /\ Mine(i, StitchedOf(i))
         /\ Mapped(i) \in Seq(Block) /\ Mine(i, Mapped(i))
<1>1. /\ items[i].kind \in Kinds /\ Said(i) \in Seq(Word) /\ i \in Nat \ {0}
  BY ItemFacts
<1>2. Said(i) \in Seq(Nat) /\ Object(Said(i)) \in Seq(Nat)
  <2>1. Said(i) \in Seq(Nat)
    BY <1>1, SeqMonotonic DEF Word
  <2>2. QED
    BY <2>1 DEF Object
<1>3. CASE items[i].kind = "text"
  <2>1. /\ Text(i, Said(i)) \in Seq(Block) /\ NonEmpty(i, Said(i)) \in Seq(Block)
    BY <1>1, <1>2, PieceTypes
  <2>2. Mine(i, Text(i, Said(i))) /\ Mine(i, NonEmpty(i, Said(i)))
    BY <1>1, <1>3, TextIsMine
  <2>3. FlattenSeq(PartsOf(i)) \in Seq(Block) /\ Mine(i, FlattenSeq(PartsOf(i)))
    BY <1>3, PartsAreMine
  <2>4. QED
    BY <1>3, <2>1, <2>2, <2>3 DEF Streamed, StitchedOf, Mapped
<1>4. CASE items[i].kind = "call"
  <2>1. Call(i, Said(i)) \in Seq(Block) /\ Call(i, Object(Said(i))) \in Seq(Block)
    BY <1>1, <1>2, PieceTypes
  <2>2. Words(Said(i)) = Said(i) /\ Words(Object(Said(i))) = Said(i)
    BY <1>1, WordsSame
  <2>3. Mine(i, Call(i, Said(i))) /\ Mine(i, Call(i, Object(Said(i))))
    BY <1>1, <1>2, <1>4, <2>2, CallIsMine
  <2>4. QED
    BY <1>4, <2>1, <2>3 DEF Streamed, StitchedOf, Mapped
<1>5. CASE items[i].kind = "other"
  <2>1. Mine(i, <<>>) /\ <<>> \in Seq(Block)
    BY <1>5, NothingIsMine
  <2>2. Streamed(i) = <<>> /\ StitchedOf(i) = <<>> /\ Mapped(i) = <<>>
    BY <1>5 DEF Streamed, StitchedOf, Mapped
  <2>3. QED
    BY <2>1, <2>2
<1>6. QED
  BY <1>1, <1>3, <1>4, <1>5 DEF Kinds

(* The end of parseAnthropicSSE: a block for each item known, in order.    *)
LEMMA AnthropicPieces ==
  ASSUME StreamTypeOK, AnthropicTables
  PROVE  AnthropicContent = FlattenSeq([i \in 1..Len(items) |-> Streamed(i)])
<1> DEFINE block == [i \in DOMAIN kindOf |->
                       IF kindOf[i] = "call" THEN Call(i, args[i]) ELSE Text(i, text[i])]
           N == Len(items)
           S == Known
           all == Padded(block, S, N)
<1>1. items \in Seq(Item) /\ N \in Nat /\ DOMAIN items = 1..N
  BY TypeOf, ItemFacts
<1>2. DOMAIN kindOf = S /\ S \subseteq 1..N
  <2>1. S \subseteq DOMAIN items
    BY ItemsIs DEF Known
  <2>2. QED
    BY <1>1, <2>1 DEF AnthropicTables, Table
<1>3. ASSUME NEW i \in S PROVE block[i] = Streamed(i)
  <2>1. i \in DOMAIN items /\ kindOf[i] = items[i].kind /\ text[i] = Heard[i]
    BY <1>1, <1>2 DEF AnthropicTables, Table, Kind
  <2>2. items[i].kind = "text" \/ (items[i].kind = "call" /\ i \in ItemsOf("call"))
    BY DEF Known, ItemsOf
  <2>3. CASE items[i].kind = "text"
    BY <1>2, <2>1, <2>3 DEF Heard, Streamed
  <2>4. CASE items[i].kind = "call" /\ i \in ItemsOf("call")
    BY <1>2, <2>1, <2>4 DEF AnthropicTables, Table, Whole, Streamed
  <2>5. QED
    BY <2>2, <2>3, <2>4
<1>4. ASSUME NEW i \in 1..N, i \notin S PROVE Streamed(i) = <<>>
  BY <1>1, <1>4 DEF Streamed, Known, ItemsOf
<1>5. \A i \in S : block[i] \in Seq(Block)
  BY <1>1, <1>2, <1>3, PiecesAreMine
<1>6. AnthropicContent = Blocks(block, Sorted(S))
  BY <1>2 DEF AnthropicContent
<1> HIDE DEF block, S, N
<1>7. Blocks(block, Sorted(S)) = FlattenSeq(all)
  <2>1. N \in Nat /\ S \subseteq 1..N
    BY <1>1, <1>2
  <2>2. QED
    BY <1>5, <2>1, BlocksInOrder
<1>8. all = [i \in 1..N |-> Streamed(i)]
  BY <1>3, <1>4 DEF Padded
<1>9. QED
  BY <1>6, <1>7, <1>8 DEF N

(* The end of parseOAIResponsesSSE: blocks for each item, in order.        *)
LEMMA StitchedPieces ==
  ASSUME StreamTypeOK, ResponsesTables
  PROVE  Stitched = FlattenSeq([i \in 1..Len(items) |-> StitchedOf(i)])
<1> DEFINE block == [i \in DOMAIN kindOf |->
                       CASE kindOf[i] = "text" -> NonEmpty(i, Builder(text, i))
                         [] kindOf[i] = "call" -> Call(i, Builder(args, i))
                         [] OTHER -> <<>>]
           N == Len(items)
<1>1. N \in Nat /\ DOMAIN items = 1..N
  BY TypeOf, ItemFacts
<1>2. DOMAIN kindOf = 1..N /\ \A i \in 1..N : kindOf[i] = items[i].kind
  BY <1>1 DEF ResponsesTables, Table, Kind
<1>3. ASSUME NEW i \in 1..N PROVE block[i] = StitchedOf(i)
  <2>1. block[i] = CASE items[i].kind = "text" -> NonEmpty(i, Builder(text, i))
                     [] items[i].kind = "call" -> Call(i, Builder(args, i))
                     [] OTHER -> <<>>
    BY <1>2
  <2>2. items[i].kind = "text" => Builder(text, i) = Said(i)
    BY <1>1 DEF ResponsesTables, ItemsOf, Whole
  <2>3. items[i].kind = "call" => Builder(args, i) = Said(i)
    BY <1>1 DEF ResponsesTables, ItemsOf, Whole
  <2>4. QED
    BY <2>1, <2>2, <2>3 DEF StitchedOf
<1>4. Stitched = FlattenSeq([n \in DOMAIN order |-> block[order[n]]])
  BY DEF Stitched, Blocks
<1>5. DOMAIN order = 1..N /\ \A n \in 1..N : order[n] = n
  BY DEF ResponsesTables
<1> HIDE DEF block, N
<1>6. [n \in DOMAIN order |-> block[order[n]]] = [i \in 1..N |-> StitchedOf(i)]
  BY <1>3, <1>5
<1>7. QED
  BY <1>4, <1>6 DEF N

(* mapOAIResponseObject: blocks for each item, in order.                   *)
LEMMA MappedPieces ==
  ASSUME items \in Seq(Item)
  PROVE  MapResponseObject(items) = FlattenSeq([i \in 1..Len(items) |-> Mapped(i)])
<1> DEFINE map == [i \in DOMAIN items |->
                     LET parts == items[i].parts
                     IN  CASE items[i].kind = "text" ->
                                FlattenSeq([n \in DOMAIN parts |-> Text(i, parts[n])])
                           [] items[i].kind = "call" -> Call(i, Object(FlattenSeq(parts)))
                           [] OTHER -> <<>>]
<1>1. DOMAIN items = 1..Len(items)
  BY ItemFacts
<1>2. \A i \in DOMAIN items : map[i] = Mapped(i)
  BY DEF Mapped, PartsOf, Said
<1>3. map = [i \in 1..Len(items) |-> Mapped(i)]
  BY <1>1, <1>2
<1>4. MapResponseObject(items) = FlattenSeq(map)
  BY DEF MapResponseObject
<1>5. QED
  BY <1>3, <1>4

(* KeepsOfItems, for pieces that are a function of the position.           *)
LEMMA KeepsOf ==
  ASSUME items \in Seq(Item),
         NEW bb, DOMAIN bb = 1..Len(items), bb = [i \in 1..Len(items) |-> bb[i]],
         \A i \in DOMAIN items : bb[i] \in Seq(Block) /\ Mine(i, bb[i]),
         Content = FlattenSeq(bb)
  PROVE  KeepsAllSaid
<1>1. DOMAIN items = 1..Len(items) /\ Len(items) \in Nat
  BY ItemFacts
<1>2. bb \in Seq(Seq(Block)) /\ Len(bb) = Len(items)
  BY <1>1
<1>3. QED
  BY <1>2, KeepsOfItems

(* parseAnthropicSSE keeps all that was said.                              *)
LEMMA AnthropicKeeps ==
  ASSUME StreamTypeOK, AnthropicTables, provider = "anthropic"
  PROVE  KeepsAllSaid
<1> DEFINE bb == [i \in 1..Len(items) |-> Streamed(i)]
<1>1. items \in Seq(Item) /\ DOMAIN items = 1..Len(items)
  BY TypeOf, ItemFacts
<1>2. Content = FlattenSeq(bb)
  BY AnthropicPieces DEF Content
<1>3. DOMAIN bb = 1..Len(items) /\ bb = [i \in 1..Len(items) |-> bb[i]]
  OBVIOUS
<1>4. \A i \in DOMAIN items : bb[i] \in Seq(Block) /\ Mine(i, bb[i])
  BY <1>1, PiecesAreMine
<1> HIDE DEF bb
<1>5. QED
  BY <1>1, <1>2, <1>3, <1>4, KeepsOf

(* parseOAIResponsesSSE keeps all that was said, from the completed        *)
(* response or from the deltas.                                            *)
LEMMA ResponsesKeeps ==
  ASSUME StreamTypeOK, ResponsesTables, FinalIs, provider = "responses"
  PROVE  KeepsAllSaid
<1>1. items \in Seq(Item) /\ DOMAIN items = 1..Len(items)
  BY TypeOf, ItemFacts
<1>2. CASE final # <<>>
  <2> DEFINE bb == [i \in 1..Len(items) |-> Mapped(i)]
  <2>1. Content = FlattenSeq(bb)
    <3>1. final = items /\ Content = MapResponseObject(final)
      BY <1>2 DEF Content, ResponsesContent, FinalIs
    <3>2. QED
      BY <1>1, <3>1, MappedPieces
  <2>2. DOMAIN bb = 1..Len(items) /\ bb = [i \in 1..Len(items) |-> bb[i]]
    OBVIOUS
  <2>3. \A i \in DOMAIN items : bb[i] \in Seq(Block) /\ Mine(i, bb[i])
    BY <1>1, PiecesAreMine
  <2> HIDE DEF bb
  <2>4. QED
    BY <1>1, <2>1, <2>2, <2>3, KeepsOf
<1>3. CASE final = <<>>
  <2> DEFINE bb == [i \in 1..Len(items) |-> StitchedOf(i)]
  <2>1. Content = FlattenSeq(bb)
    <3>1. Content = Stitched
      BY <1>3 DEF Content, ResponsesContent
    <3>2. QED
      BY <3>1, StitchedPieces
  <2>2. DOMAIN bb = 1..Len(items) /\ bb = [i \in 1..Len(items) |-> bb[i]]
    OBVIOUS
  <2>3. \A i \in DOMAIN items : bb[i] \in Seq(Block) /\ Mine(i, bb[i])
    BY <1>1, PiecesAreMine
  <2> HIDE DEF bb
  <2>4. QED
    BY <1>1, <2>1, <2>2, <2>3, KeepsOf
<1>4. QED
  BY <1>2, <1>3

-----------------------------------------------------------------------------
(* The content of parseOpenAISSE                                           *)

(* parseOpenAISSE: the text of all chunks first, then the calls.           *)
Lead == NonEmpty(0, text[0])
CallOf(i) == IF items[i].kind = "call" THEN Call(i, Said(i)) ELSE <<>>
Calls == [i \in 1..Len(items) |-> CallOf(i)]
ChatPiece == <<Lead>> \o Calls

(* The text of all chunks, and that there is some only of a message with   *)
(* text.                                                                   *)
LEMMA TextZero ==
  ASSUME StreamTypeOK, ChatTables
  PROVE  /\ text[0] \in Seq(Word) /\ text[0] \in Seq(Nat)
         /\ text[0] # <<>> => ItemsOf("text") # {}
<1>1. CASE ItemsOf("text") = {}
  BY <1>1 DEF ChatTables
<1>2. CASE ItemsOf("text") # {}
  <2>1. PICK i \in ItemsOf("text") : TRUE
    BY <1>2
  <2>2. text[0] = Said(i) /\ i \in DOMAIN items
    BY DEF ChatTables, ItemsOf, Whole
  <2>3. text[0] \in Seq(Word)
    BY <2>2, TypeOf, ItemFacts
  <2>4. text[0] \in Seq(Nat)
    BY <2>3, SeqMonotonic DEF Word
  <2>5. QED
    BY <1>2, <2>3, <2>4
<1>3. QED
  BY <1>1, <1>2

(* The content of parseOpenAISSE in pieces, the text first.                *)
LEMMA ChatPieceFacts ==
  ASSUME StreamTypeOK, ChatTables
  PROVE  /\ Len(items) \in Nat /\ DOMAIN items = 1..Len(items)
         /\ Lead \in Seq(Block) /\ Calls \in Seq(Seq(Block)) /\ Len(Calls) = Len(items)
         /\ \A i \in 1..Len(items) : Calls[i] = CallOf(i)
         /\ ChatPiece \in Seq(Seq(Block)) /\ Len(ChatPiece) = Len(items) + 1
         /\ ChatPiece[1] = Lead
         /\ \A j \in 1..Len(items) : ChatPiece[j + 1] = CallOf(j)
<1> DEFINE N == Len(items)
<1>1. items \in Seq(Item) /\ N \in Nat /\ DOMAIN items = 1..N
  BY TypeOf, ItemFacts
<1>2. Lead \in Seq(Block)
  <2>1. text[0] \in Seq(Nat) /\ 0 \in Nat
    BY TextZero
  <2>2. QED
    BY <2>1, PieceTypes DEF Lead
<1>3. ASSUME NEW i \in 1..N PROVE CallOf(i) \in Seq(Block)
  <2>1. Said(i) \in Seq(Nat) /\ i \in Nat
    <3>1. Said(i) \in Seq(Word)
      BY <1>1, ItemFacts
    <3>2. QED
      BY <3>1, SeqMonotonic DEF Word
  <2>2. Call(i, Said(i)) \in Seq(Block)
    BY <2>1, PieceTypes
  <2>3. QED
    BY <2>2 DEF CallOf
<1> HIDE DEF N
<1>4. Calls = [i \in 1..N |-> CallOf(i)]
  BY DEF Calls, N
<1>5. Calls \in Seq(Seq(Block)) /\ Len(Calls) = N /\ \A i \in 1..N : Calls[i] = CallOf(i)
  BY <1>1, <1>3, <1>4
<1> DEFINE S == Seq(Block)
           one == <<Lead>>
<1>6. one \in Seq(S) /\ Len(one) = 1 /\ one[1] = Lead
  BY <1>2
<1>7. Calls \in Seq(S)
  BY <1>5
<1> HIDE DEF S, one
<1>8. /\ one \o Calls \in Seq(S) /\ Len(one \o Calls) = Len(one) + Len(Calls)
      /\ \A j \in 1..(Len(one) + Len(Calls)) :
           (one \o Calls)[j] = IF j <= Len(one) THEN one[j] ELSE Calls[j - Len(one)]
  BY <1>6, <1>7, ConcatProperties
<1>9. ChatPiece = one \o Calls
  BY DEF ChatPiece, one
<1>10. Len(ChatPiece) = N + 1 /\ ChatPiece[1] = Lead
  BY <1>1, <1>5, <1>6, <1>8, <1>9
<1>11. ASSUME NEW j \in 1..N PROVE ChatPiece[j + 1] = CallOf(j)
  <2>1. j + 1 \in 1..(1 + N) /\ ~(j + 1 <= 1) /\ (j + 1) - 1 = j
    BY <1>1
  <2>2. QED
    BY <1>5, <1>6, <1>8, <1>9, <2>1
<1>12. QED
  BY <1>1, <1>2, <1>5, <1>8, <1>9, <1>10, <1>11 DEF N, S

(* The end of parseOpenAISSE.                                              *)
LEMMA ChatPieces ==
  ASSUME StreamTypeOK, ChatTables
  PROVE  /\ ChatContent = Lead \o FlattenSeq(Calls)
         /\ ChatContent = FlattenSeq(ChatPiece)
<1> DEFINE block == [i \in DOMAIN args |-> Call(i, args[i])]
           N == Len(items)
           S == ItemsOf("call")
<1>1. /\ N \in Nat /\ DOMAIN items = 1..N /\ Lead \in Seq(Block)
      /\ Calls \in Seq(Seq(Block)) /\ Len(Calls) = N
      /\ \A i \in 1..N : Calls[i] = CallOf(i)
  BY ChatPieceFacts
<1>2. DOMAIN args = S /\ S \subseteq 1..N
  BY <1>1, ItemsIs DEF ChatTables, Table
<1>3. ASSUME NEW i \in S PROVE block[i] = CallOf(i)
  BY <1>1, <1>2 DEF ChatTables, Table, Whole, CallOf, ItemsOf
<1>4. ASSUME NEW i \in 1..N, i \notin S PROVE CallOf(i) = <<>>
  BY <1>1, <1>4 DEF CallOf, ItemsOf
<1>5. ChatContent = Lead \o Blocks(block, Sorted(S))
  BY <1>2 DEF ChatContent, Lead
<1>6. Calls = [i \in 1..N |-> CallOf(i)]
  BY DEF Calls
<1> HIDE DEF block, S, N
<1>7. \A i \in S : block[i] \in Seq(Block)
  <2>1. \A i \in 1..N : Calls[i] \in Seq(Block)
    BY <1>1 DEF N
  <2>2. QED
    BY <1>1, <1>2, <1>3, <2>1
<1>8. Blocks(block, Sorted(S)) = FlattenSeq(Padded(block, S, N))
  <2>1. N \in Nat /\ S \subseteq 1..N
    BY <1>1, <1>2
  <2>2. QED
    BY <1>7, <2>1, BlocksInOrder
<1>9. Padded(block, S, N) = Calls
  BY <1>3, <1>4, <1>6 DEF Padded
<1>10. FlattenSeq(ChatPiece) = Lead \o FlattenSeq(Calls)
  <2>1. <<Lead>> \in Seq(Seq(Block)) /\ FlattenSeq(<<Lead>>) = Lead
    BY <1>1, FlattenOne
  <2>2. FlattenSeq(<<Lead>> \o Calls) = FlattenSeq(<<Lead>>) \o FlattenSeq(Calls)
    BY <1>1, <2>1, FlattenConcat
  <2>3. QED
    BY <2>1, <2>2 DEF ChatPiece
<1>11. QED
  BY <1>5, <1>8, <1>9, <1>10

(* The first block is of the item with the text, and has all of it.        *)
LEMMA LeadSays ==
  ASSUME StreamTypeOK, ChatTables
  PROVE  /\ \A n \in 1..Len(Lead) :
              Lead[n].kind = "text" /\ items[Key(Lead[n])].kind = "text"
         /\ \A i \in ItemsOf("text") : Each(Take(i), Lead) = Said(i)
<1> DEFINE b == [kind |-> "text", item |-> 0, value |-> text[0]]
<1>1. text[0] \in Seq(Word) /\ text[0] \in Seq(Nat)
      /\ (text[0] # <<>> => ItemsOf("text") # {})
  BY TextZero
<1>2. b \in Block /\ b.kind = "text" /\ b.item = 0 /\ b.value = text[0]
  BY <1>1 DEF Block
<1>3. Lead = IF text[0] = <<>> THEN <<>> ELSE <<b>>
  BY DEF Lead, NonEmpty, Text
<1> HIDE DEF b
<1>4. ASSUME NEW i \in ItemsOf("text")
      PROVE  Key(b) = i /\ text[0] = Said(i) /\ items[i].kind = "text"
  <2>1. /\ text[0] = Whole[i] /\ ItemsOf("text") = {i}
        /\ i \in DOMAIN items /\ items[i].kind = "text"
    BY DEF ChatTables, ItemsOf
  <2>2. \A j \in DOMAIN items : items[j].kind = "text" <=> j = i
    BY <2>1 DEF ItemsOf
  <2>3. Key(b) = i
    BY <1>2, <2>1, <2>2 DEF Key
  <2>4. QED
    BY <2>1, <2>3 DEF Whole
<1>5. ASSUME NEW n \in 1..Len(Lead)
      PROVE  Lead[n].kind = "text" /\ items[Key(Lead[n])].kind = "text"
  <2>1. text[0] # <<>> /\ Lead = <<b>> /\ n = 1
    BY <1>3
  <2>2. PICK i \in ItemsOf("text") : TRUE
    BY <1>1, <2>1
  <2>3. QED
    BY <1>2, <1>4, <2>1
<1>6. ASSUME NEW i \in ItemsOf("text") PROVE Each(Take(i), Lead) = Said(i)
  <2>1. CASE text[0] = <<>>
    BY <1>3, <1>4, <2>1, TakeEmpty
  <2>2. CASE text[0] # <<>>
    <3>1. Given(i, b) = Said(i)
      BY <1>1, <1>2, <1>4, WordsSame DEF Given
    <3>2. Each(Take(i), <<b>>) = Given(i, b)
      BY <1>2, TakeOne
    <3>3. QED
      BY <1>3, <2>2, <3>1, <3>2
  <2>3. QED
    BY <2>1, <2>2
<1>7. QED
  BY <1>5, <1>6

(* The block of a call is of that call, and has all its arguments.         *)
LEMMA CallSays ==
  ASSUME StreamTypeOK, NEW j \in DOMAIN items
  PROVE  /\ CallOf(j) \in Seq(Block)
         /\ \A n \in 1..Len(CallOf(j)) :
              CallOf(j)[n].kind = "call" /\ Key(CallOf(j)[n]) = j /\ items[j].kind = "call"
         /\ items[j].kind = "call" => Each(Take(j), CallOf(j)) = Said(j)
<1> DEFINE b == [kind |-> "call", item |-> j, value |-> Said(j)]
<1>1. Said(j) \in Seq(Word) /\ Said(j) \in Seq(Nat) /\ j \in Nat \ {0}
  <2>1. Said(j) \in Seq(Word) /\ j \in Nat \ {0}
    BY TypeOf, ItemFacts
  <2>2. QED
    BY <2>1, SeqMonotonic DEF Word
<1>2. b \in Block /\ b.kind = "call" /\ b.item = j /\ b.value = Said(j)
  BY <1>1 DEF Block
<1>3. CallOf(j) = IF items[j].kind = "call" THEN <<b>> ELSE <<>>
  BY DEF CallOf, Call
<1> HIDE DEF b
<1>4. Key(b) = j
  BY <1>1, <1>2 DEF Key
<1>5. CallOf(j) \in Seq(Block)
  BY <1>2, <1>3
<1>6. \A n \in 1..Len(CallOf(j)) :
        CallOf(j)[n].kind = "call" /\ Key(CallOf(j)[n]) = j /\ items[j].kind = "call"
  BY <1>2, <1>3, <1>4
<1>7. ASSUME items[j].kind = "call" PROVE Each(Take(j), CallOf(j)) = Said(j)
  <2>1. Given(j, b) = Said(j)
    BY <1>1, <1>2, <1>4, <1>7, WordsSame DEF Given
  <2>2. Each(Take(j), <<b>>) = Given(j, b)
    BY <1>2, TakeOne
  <2>3. QED
    BY <1>3, <1>7, <2>1, <2>2
<1>8. QED
  BY <1>5, <1>6, <1>7

(* parseOpenAISSE keeps all that was said.                                 *)
LEMMA ChatKeeps ==
  ASSUME StreamTypeOK, ChatTables, provider = "chat"
  PROVE  KeepsAllSaid
<1> DEFINE N == Len(items)
           ss == ChatPiece
<1>1. /\ N \in Nat /\ DOMAIN items = 1..N /\ Lead \in Seq(Block)
      /\ ss \in Seq(Seq(Block)) /\ Len(ss) = N + 1
      /\ ss[1] = Lead /\ \A j \in 1..N : ss[j + 1] = CallOf(j)
  BY ChatPieceFacts
<1>2. Content = FlattenSeq(ss)
  BY ChatPieces DEF Content
<1>3. \A j \in 1..N : items[j].kind \in Kinds
  BY <1>1, TypeOf, ItemFacts
<1> HIDE DEF N, ss
<1>4. ASSUME NEW k \in 1..(N + 1), k # 1 PROVE k - 1 \in 1..N /\ ss[k] = CallOf(k - 1)
  <2>1. k - 1 \in 1..N /\ (k - 1) + 1 = k
    BY <1>1, <1>4
  <2>2. QED
    BY <1>1, <2>1
(* A call gives nothing to another item.                                   *)
<1>5. ASSUME NEW i \in 1..N, NEW j \in 1..N, i # j PROVE Each(Take(i), CallOf(j)) = <<>>
  <2>1. CallOf(j) \in Seq(Block) /\ \A n \in 1..Len(CallOf(j)) : Key(CallOf(j)[n]) = j
    BY <1>1, CallSays
  <2>2. \A n \in 1..Len(CallOf(j)) : Given(i, CallOf(j)[n]) = <<>>
    BY <1>5, <2>1 DEF Given
  <2>3. QED
    BY <2>1, <2>2, TakeNone
<1>6. ASSUME NEW i \in 1..N, items[i].kind # "other" PROVE Kept(i) = SaidOf(i)
  <2>1. CASE items[i].kind = "text"
    <3>1. i \in ItemsOf("text") /\ 1 \in 1..Len(ss) /\ Each(Take(i), ss[1]) = Said(i)
      BY <1>1, <2>1, LeadSays DEF ItemsOf
    <3>2. ASSUME NEW k \in 1..Len(ss), k # 1 PROVE Each(Take(i), ss[k]) = <<>>
      <4>1. k - 1 \in 1..N /\ ss[k] = CallOf(k - 1)
        BY <1>1, <1>4, <3>2
      <4>2. CASE k - 1 = i
        <5>1. CallOf(i) = <<>>
          BY <2>1 DEF CallOf
        <5>2. QED
          BY <4>1, <4>2, <5>1, TakeEmpty
      <4>3. CASE k - 1 # i
        BY <1>5, <4>1, <4>3
      <4>4. QED
        BY <4>2, <4>3
    <3>3. QED
      BY <1>1, <1>2, <3>1, <3>2, KeptInPieces
  <2>2. CASE items[i].kind = "call"
    <3>1. i + 1 \in 1..Len(ss) /\ ss[i + 1] = CallOf(i)
      BY <1>1
    <3>2. Each(Take(i), CallOf(i)) = Said(i)
      BY <1>1, <2>2, CallSays
    <3>3. ASSUME NEW k \in 1..Len(ss), k # i + 1 PROVE Each(Take(i), ss[k]) = <<>>
      <4>1. CASE k = 1
        <5>1. \A n \in 1..Len(Lead) : Given(i, Lead[n]) = <<>>
          BY <2>2, LeadSays DEF Given
        <5>2. QED
          BY <1>1, <4>1, <5>1, TakeNone
      <4>2. CASE k # 1
        <5>1. k - 1 \in 1..N /\ ss[k] = CallOf(k - 1) /\ k - 1 # i
          BY <1>1, <1>4, <3>3, <4>2
        <5>2. QED
          BY <1>5, <5>1
      <4>3. QED
        BY <4>1, <4>2
    <3>4. QED
      BY <1>1, <1>2, <3>1, <3>2, <3>3, KeptInPieces
  <2>3. QED
    BY <1>3, <1>6, <2>1, <2>2 DEF Kinds
<1>7. \A n \in DOMAIN Content : items[Key(Content[n])].kind # "other"
  <2>1. ASSUME NEW k \in 1..Len(ss), NEW n \in 1..Len(ss[k])
        PROVE  items[Key(ss[k][n])].kind # "other"
    <3>1. CASE k = 1
      BY <1>1, <3>1, LeadSays
    <3>2. CASE k # 1
      <4>1. k - 1 \in DOMAIN items /\ ss[k] = CallOf(k - 1)
        BY <1>1, <1>4, <3>2
      <4>2. QED
        BY <4>1, CallSays
    <3>3. QED
      BY <3>1, <3>2
  <2>2. QED
    BY <1>1, <1>2, <2>1, KnownInPieces
<1>8. QED
  BY <1>1, <1>6, <1>7 DEF KeepsAllSaid

(* What the invariant says of the maps is enough for KeepsAllSaid.         *)
LEMMA KeepsHeld == StreamHolds => KeepsAllSaid
<1> SUFFICES ASSUME StreamHolds PROVE KeepsAllSaid
  OBVIOUS
<1>1. provider \in {"anthropic", "chat", "responses"}
  BY ProvidersAssumption DEF StreamHolds, StreamTypeOK
<1>2. CASE provider = "anthropic"
  BY <1>2, AnthropicKeeps DEF StreamHolds
<1>3. CASE provider = "chat"
  BY <1>3, ChatKeeps DEF StreamHolds
<1>4. CASE provider = "responses"
  BY <1>4, ResponsesKeeps DEF StreamHolds
<1>5. QED
  BY <1>1, <1>2, <1>3, <1>4

(* Wherever the stream of any provider is cut, whatever the number of      *)
(* items, parts and deltas and their interleaving, the content the scanner *)
(* is given has every delta of a text or of arguments said before the cut, *)
(* in its item, in order and once.                                         *)
THEOREM AllSaidIsKept == StreamSpec => []KeepsAllSaid
<1>1. Init => StreamHolds
  BY StreamInit
<1>2. StreamHolds /\ [Next]_vars => StreamHolds'
  BY StreamStep
<1>3. StreamHolds => KeepsAllSaid
  BY KeepsHeld
<1>4. QED
  BY <1>1, <1>2, <1>3, PTL DEF StreamSpec

-----------------------------------------------------------------------------
(* The stream and the document                                             *)

Same == {p \in Block \X Block : Agrees(p[1], p[2])}

(* A content agrees with itself.                                           *)
LEMMA SameIsAlike ==
  ASSUME NEW s \in Seq(Block)
  PROVE  Alike(Same, s, s)
<1>1. \A n \in 1..Len(s) : s[n] \in Block
  OBVIOUS
<1>2. QED
  BY <1>1 DEF Alike, Same, Agrees

(* Contents that are alike agree block for block.                          *)
LEMMA AlikeAgrees ==
  ASSUME NEW s \in Seq(Block), NEW t, Alike(Same, s, t)
  PROVE  Len(s) = Len(t) /\ \A n \in DOMAIN s : Agrees(s[n], t[n])
<1>1. \A b, c : <<b, c>> \in Same => Agrees(b, c)
  BY DEF Same
<1>2. DOMAIN s = 1..Len(s)
  OBVIOUS
<1>3. QED
  BY <1>1, <1>2 DEF Alike

(* Item by item, the stream and the document of Anthropic agree.           *)
LEMMA AnthropicAlike ==
  ASSUME StreamTypeOK, AnthropicTables, provider = "anthropic", NEW i \in DOMAIN items
  PROVE  Alike(Same, Streamed(i), Mapped(i))
<1>1. /\ items \in Seq(Item) /\ items[i].kind \in Kinds /\ i \in Nat
      /\ items[i].parts \in Seq(Seq(Word)) /\ Said(i) \in Seq(Word)
  BY TypeOf, ItemFacts
<1>2. Said(i) \in Seq(Nat)
  BY <1>1, SeqMonotonic DEF Word
<1>3. Streamed(i) \in Seq(Block)
  BY <1>1, PiecesAreMine
<1>4. CASE items[i].kind = "text"
  <2> DEFINE parts == items[i].parts
  <2>1. Len(parts) = 1
    BY DEF AnthropicTables, Singles
  <2>2. parts = <<parts[1]>> /\ parts[1] \in Seq(Word)
    <3> HIDE DEF parts
    <3>1. parts \in Seq(Seq(Word))
      BY <1>1 DEF parts
    <3>2. QED
      BY <2>1, <3>1
  <2>3. Said(i) = parts[1]
    BY <2>2, FlattenOne DEF Said
  <2>4. PartsOf(i) = <<Text(i, Said(i))>>
    <3>1. DOMAIN parts = 1..1
      <4> HIDE DEF parts
      <4>1. QED
        BY <2>2
    <3>2. QED
      BY <2>3, <3>1 DEF PartsOf
  <2>5. Text(i, Said(i)) \in Seq(Block)
    BY <1>1, <1>2, PieceTypes
  <2>6. FlattenSeq(PartsOf(i)) = Text(i, Said(i))
    BY <2>4, <2>5, FlattenOne
  <2>7. Streamed(i) = Mapped(i)
    BY <1>4, <2>6 DEF Streamed, Mapped
  <2>8. QED
    BY <1>3, <2>7, SameIsAlike
<1>5. CASE items[i].kind = "call"
  <2>1. Streamed(i) = Call(i, Said(i)) /\ Mapped(i) = Call(i, Object(Said(i)))
    BY <1>5 DEF Streamed, Mapped
  <2>2. CASE Said(i) # <<>>
    BY <1>3, <2>1, <2>2, SameIsAlike DEF Object
  <2>3. CASE Said(i) = <<>>
    <3> DEFINE b == [kind |-> "call", item |-> i, value |-> <<>>]
               c == [kind |-> "call", item |-> i, value |-> << 0 >>]
    <3>1. /\ b \in Block /\ c \in Block /\ b.kind = "call"
          /\ b = [c EXCEPT !.value = <<>>] /\ c.value = << 0 >>
      BY <1>1 DEF Block
    <3>2. Streamed(i) = <<b>> /\ Mapped(i) = <<c>>
      BY <2>1, <2>3 DEF Call, Object
    <3> HIDE DEF b, c
    <3>3. Agrees(b, c)
      BY <3>1 DEF Agrees
    <3>4. <<b, c>> \in Same
      BY <3>1, <3>3 DEF Same
    <3>5. QED
      BY <3>2, <3>4 DEF Alike
  <2>4. QED
    BY <2>2, <2>3
<1>6. CASE items[i].kind = "other"
  <2>1. Streamed(i) = <<>> /\ Mapped(i) = <<>>
    BY <1>6 DEF Streamed, Mapped
  <2>2. Alike(Same, <<>>, <<>>)
    BY DEF Alike
  <2>3. QED
    BY <2>1, <2>2
<1>7. QED
  BY <1>1, <1>4, <1>5, <1>6 DEF Kinds

(* parseAnthropicSSE and parseAnthropicNonStreaming agree.                 *)
LEMMA AnthropicReads ==
  ASSUME StreamTypeOK, AnthropicTables, provider = "anthropic"
  PROVE  StreamReadsAsDocument
<1> DEFINE N == Len(items)
           ss == [i \in 1..N |-> Streamed(i)]
           tt == [i \in 1..N |-> Mapped(i)]
<1>1. items \in Seq(Item) /\ N \in Nat /\ DOMAIN items = 1..N
  BY TypeOf, ItemFacts
<1>2. Content = FlattenSeq(ss)
  BY AnthropicPieces DEF Content
<1>3. DocumentContent = FlattenSeq(tt)
  BY <1>1, MappedPieces DEF DocumentContent
<1>4. \A i \in 1..N : Streamed(i) \in Seq(Block) /\ Mapped(i) \in Seq(Block)
  BY <1>1, PiecesAreMine
<1>5. \A i \in 1..N : Alike(Same, Streamed(i), Mapped(i))
  BY <1>1, AnthropicAlike
<1> HIDE DEF N
<1>6. /\ ss \in Seq(Seq(Block)) /\ Len(ss) = N /\ \A i \in 1..N : ss[i] = Streamed(i)
      /\ tt \in Seq(Seq(Block)) /\ Len(tt) = N /\ \A i \in 1..N : tt[i] = Mapped(i)
  BY <1>1, <1>4
<1> HIDE DEF ss, tt
<1>7. Alike(Same, FlattenSeq(ss), FlattenSeq(tt))
  <2>1. Len(ss) = Len(tt) /\ \A i \in 1..Len(ss) : Alike(Same, ss[i], tt[i])
    BY <1>5, <1>6
  <2>2. QED
    BY <1>6, <2>1, FlattenAlike
<1>8. FlattenSeq(ss) \in Seq(Block)
  BY <1>6, FlattenType
<1>9. QED
  BY <1>2, <1>3, <1>7, <1>8, AlikeAgrees DEF StreamReadsAsDocument

(* The same content agrees.                                                *)
LEMMA SameReads ==
  ASSUME Content = DocumentContent
  PROVE  StreamReadsAsDocument
BY DEF StreamReadsAsDocument, Agrees

(* parseOAIResponsesSSE takes the response of the last event.              *)
LEMMA ResponsesReads ==
  ASSUME StreamTypeOK, ResponsesTables, FinalIs, provider = "responses", ended = "completed"
  PROVE  StreamReadsAsDocument
<1>1. items \in Seq(Item) /\ final = items /\ DocumentContent = MapResponseObject(items)
  BY TypeOf DEF FinalIs, DocumentContent
<1>2. CASE items # <<>>
  <2>1. Content = MapResponseObject(items)
    BY <1>1, <1>2 DEF Content, ResponsesContent
  <2>2. QED
    BY <1>1, <2>1, SameReads
<1>3. CASE items = <<>>
  <2>1. Content = Stitched
    BY <1>1, <1>3 DEF Content, ResponsesContent
  <2>2. [i \in 1..Len(items) |-> StitchedOf(i)] = [i \in 1..Len(items) |-> Mapped(i)]
    BY <1>3
  <2>3. QED
    BY <1>1, <2>1, <2>2, StitchedPieces, MappedPieces, SameReads
<1>4. QED
  BY <1>2, <1>3

(* parseOpenAISSE and parseOpenAINonStreaming agree: the arguments of a    *)
(* complete call are never empty.                                          *)
LEMMA ChatReads ==
  ASSUME StreamTypeOK, ChatTables, provider = "chat", Complete
  PROVE  StreamReadsAsDocument
<1> DEFINE N == Len(items)
           tt == [i \in 1..N |-> IF items[i].kind = "text" THEN NonEmpty(0, Said(i)) ELSE <<>>]
           cc == [i \in 1..N |-> IF items[i].kind = "call"
                                 THEN Call(i, Object(Said(i))) ELSE <<>>]
<1>1. /\ items \in Seq(Item) /\ N \in Nat /\ DOMAIN items = 1..N
      /\ \A i \in 1..N : Said(i) \in Seq(Nat)
  <2>1. items \in Seq(Item) /\ N \in Nat /\ DOMAIN items = 1..N
    BY TypeOf, ItemFacts
  <2>2. \A i \in 1..N : Said(i) \in Seq(Word)
    BY <2>1, ItemFacts
  <2>3. QED
    BY <2>1, <2>2, SeqMonotonic DEF Word
<1>2. DocumentContent = FlattenSeq(tt) \o FlattenSeq(cc)
  <2>1. tt = [i \in DOMAIN items |->
                IF items[i].kind = "text"
                THEN [j \in DOMAIN items |-> NonEmpty(0, Said(j))][i] ELSE <<>>]
    BY <1>1
  <2>2. cc = [i \in DOMAIN items |->
                IF items[i].kind = "call"
                THEN [j \in DOMAIN items |-> Call(j, Object(Said(j)))][i] ELSE <<>>]
    BY <1>1
  <2>3. QED
    BY <2>1, <2>2 DEF DocumentContent, ChatDocument
<1>3. cc = Calls
  <2>1. \A i \in 1..N : items[i].kind = "call" => Object(Said(i)) = Said(i)
    BY <1>1 DEF Complete, Object
  <2>2. QED
    BY <2>1 DEF Calls, CallOf
<1>4. \A i \in 1..N : NonEmpty(0, Said(i)) \in Seq(Block)
  BY <1>1, PieceTypes
<1>5. /\ tt \in Seq(Seq(Block)) /\ Len(tt) = N
      /\ \A i \in 1..N :
           tt[i] = IF items[i].kind = "text" THEN NonEmpty(0, Said(i)) ELSE <<>>
  <2> HIDE DEF N
  <2>1. \A i \in 1..N :
          (IF items[i].kind = "text" THEN NonEmpty(0, Said(i)) ELSE <<>>) \in Seq(Block)
    BY <1>4
  <2>2. QED
    BY <1>1, <2>1
<1> HIDE DEF tt, cc, N
<1>6. FlattenSeq(tt) = Lead
  <2>1. CASE ItemsOf("text") = {}
    <3>1. \A i \in 1..Len(tt) : tt[i] = <<>>
      BY <1>1, <1>5, <2>1 DEF ItemsOf
    <3>2. Lead = <<>>
      BY <2>1 DEF Lead, NonEmpty, ChatTables
    <3>3. QED
      BY <1>5, <3>1, <3>2, FlattenNone
  <2>2. CASE ItemsOf("text") # {}
    <3>1. PICK k \in ItemsOf("text") : TRUE
      BY <2>2
    <3>2. /\ text[0] = Whole[k] /\ ItemsOf("text") = {k}
          /\ k \in DOMAIN items /\ items[k].kind = "text"
      BY DEF ChatTables, ItemsOf
    <3>3. text[0] = Said(k)
      BY <3>2 DEF Whole
    <3>4. k \in 1..Len(tt) /\ tt[k] = Lead
      BY <1>1, <1>5, <3>2, <3>3 DEF Lead
    <3>5. \A i \in 1..Len(tt) : i # k => tt[i] = <<>>
      BY <1>1, <1>5, <3>2 DEF ItemsOf
    <3>6. QED
      BY <1>5, <3>4, <3>5, FlattenOnly
  <2>3. QED
    BY <2>1, <2>2
<1>7. Content = Lead \o FlattenSeq(Calls)
  BY ChatPieces DEF Content
<1>8. Content = DocumentContent
  BY <1>2, <1>3, <1>6, <1>7
<1>9. QED
  BY <1>8, SameReads

(* What the invariant says of the maps is enough for                       *)
(* StreamReadsAsDocument.                                                  *)
LEMMA ReadsHeld == StreamHolds => StreamReadsAsDocument
<1> SUFFICES ASSUME StreamHolds PROVE StreamReadsAsDocument
  OBVIOUS
<1>1. provider \in {"anthropic", "chat", "responses"}
  BY ProvidersAssumption DEF StreamHolds, StreamTypeOK
<1>2. CASE ended # "completed"
  BY <1>2 DEF StreamReadsAsDocument
<1>3. CASE provider = "anthropic"
  BY <1>3, AnthropicReads DEF StreamHolds
<1>4. CASE provider = "chat" /\ ended = "completed"
  BY <1>4, ChatReads DEF StreamHolds
<1>5. CASE provider = "responses" /\ ended = "completed"
  BY <1>5, ResponsesReads DEF StreamHolds
<1>6. QED
  BY <1>1, <1>2, <1>3, <1>4, <1>5

(* Streamed to its end, any message reads as it does in one document, but  *)
(* for the missing {} of a call of Anthropic.                              *)
THEOREM StreamAlwaysReadsAsDocument == StreamSpec => []StreamReadsAsDocument
<1>1. Init => StreamHolds
  BY StreamInit
<1>2. StreamHolds /\ [Next]_vars => StreamHolds'
  BY StreamStep
<1>3. StreamHolds => StreamReadsAsDocument
  BY ReadsHeld
<1>4. QED
  BY <1>1, <1>2, <1>3, PTL DEF StreamSpec
=============================================================================
