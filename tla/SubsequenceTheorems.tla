------------------------- MODULE SubsequenceTheorems ------------------------
(* What a subsequence by positions holds, and what becomes of it when the    *)
(* sequence grows.                                                           *)
EXTENDS Subsequences, Functions, FiniteSetTheorems, SequenceTheorems, TLAPS

\* Positions are told apart by their ranks, and every rank up to their number is
\* taken: ranks are a bijection between two finite sets of one size.
LEMMA RanksAreDistinct ==
    ASSUME NEW I \in SUBSET Nat, IsFiniteSet(I), NEW i \in I, NEW j \in I, i < j
    PROVE  /\ Rank(I, i) < Rank(I, j)
           /\ Rank(I, i) \in 1..Cardinality(I)
<1> DEFINE below == {k \in I : k <= i}  upto == {k \in I : k <= j}
<1>1. below \in SUBSET I /\ upto \in SUBSET I /\ below \in SUBSET upto /\ i \in below
  <2>1. i <= i
    OBVIOUS
  <2>2. ASSUME NEW k \in I, k <= i PROVE k <= j
    BY <2>2
  <2> QED BY <2>1, <2>2
<1>2. IsFiniteSet(below) /\ IsFiniteSet(upto)
      /\ Cardinality(below) <= Cardinality(upto) /\ Cardinality(below) <= Cardinality(I)
      /\ (Cardinality(below) = Cardinality(upto) => below = upto)
  BY <1>1, FS_Subset
<1>3. below # upto
  <2>1. j \in upto /\ j \notin below
    OBVIOUS
  <2> QED BY <2>1
<1>4. Cardinality(below) \in Nat /\ Cardinality(upto) \in Nat /\ Cardinality(I) \in Nat
      /\ Cardinality(below) # 0
  <2>1. below # {}
    BY <1>1
  <2> QED BY <1>2, <2>1, FS_CardinalityType, FS_EmptySet
<1> HIDE DEF below, upto
<1>5. Rank(I, i) = Cardinality(below) /\ Rank(I, j) = Cardinality(upto)
  BY DEF Rank, below, upto
<1> QED BY <1>2, <1>3, <1>4, <1>5

LEMMA RankRange ==
    ASSUME NEW I \in SUBSET Nat, IsFiniteSet(I), NEW i \in I
    PROVE  Rank(I, i) \in 1..Cardinality(I)
<1> DEFINE below == {k \in I : k <= i}
<1>1. below \in SUBSET I /\ i \in below
  OBVIOUS
<1>2. IsFiniteSet(below) /\ Cardinality(below) <= Cardinality(I)
  BY <1>1, FS_Subset
<1>3. Cardinality(below) \in Nat /\ Cardinality(I) \in Nat /\ Cardinality(below) # 0
  BY <1>1, <1>2, FS_CardinalityType, FS_EmptySet
<1> HIDE DEF below
<1>4. Rank(I, i) = Cardinality(below)
  BY DEF Rank, below
<1> QED BY <1>2, <1>3, <1>4

\* The n-th position is one, of that rank; positions and their ranks go up
\* together.
LEMMA NthPosition ==
    ASSUME NEW I \in SUBSET Nat, IsFiniteSet(I)
    PROVE  /\ Cardinality(I) \in Nat
           /\ \A n \in 1..Cardinality(I) : Nth(I, n) \in I /\ Rank(I, Nth(I, n)) = n
           /\ \A i \in I : Rank(I, i) \in 1..Cardinality(I) /\ Nth(I, Rank(I, i)) = i
           /\ \A m, n \in 1..Cardinality(I) : m < n => Nth(I, m) < Nth(I, n)
<1> DEFINE N == 1..Cardinality(I)
           r == [i \in I |-> Rank(I, i)]
<1>1. Cardinality(I) \in Nat
  BY FS_CardinalityType
<1>2. IsFiniteSet(N) /\ Cardinality(N) = Cardinality(I)
  <2>1. 1 > Cardinality(I) => Cardinality(I) = 0
    BY <1>1
  <2>2. Cardinality(I) - 1 + 1 = Cardinality(I)
    BY <1>1
  <2> QED BY <1>1, <2>1, <2>2, FS_Interval
<1>3. \A i, j \in I : Rank(I, i) = Rank(I, j) => i = j
  <2>1. \A i, j \in I : i < j => Rank(I, i) < Rank(I, j)
    BY RanksAreDistinct
  <2>2. \A i \in I : Rank(I, i) \in Nat
    BY <1>1, RankRange
  <2> QED BY <2>1, <2>2
<1>4. r \in Injection(I, N)
  BY <1>3, RankRange DEF Injection, IsInjective
<1>5. r \in Surjection(I, N)
  <2> HIDE DEF r, N
  <2> QED BY <1>2, <1>4, FS_Injection
<1>6. ASSUME NEW n \in N PROVE Nth(I, n) \in I /\ Rank(I, Nth(I, n)) = n
  <2>1. Ranked(I, n) # {}
    BY <1>5 DEF Surjection, Ranked
  <2>2. Nth(I, n) \in Ranked(I, n)
    BY <2>1 DEF Nth
  <2> QED BY <2>2 DEF Ranked
<1>7. ASSUME NEW i \in I PROVE Rank(I, i) \in N /\ Nth(I, Rank(I, i)) = i
  BY <1>3, <1>6, RankRange
<1>8. ASSUME NEW m \in N, NEW n \in N, m < n PROVE Nth(I, m) < Nth(I, n)
  <2>1. \A i, j \in I : i < j => Rank(I, i) < Rank(I, j)
    BY RanksAreDistinct
  <2>2. Nth(I, m) \in I /\ Rank(I, Nth(I, m)) = m /\ Nth(I, n) \in I /\ Rank(I, Nth(I, n)) = n
    BY <1>6
  <2>3. Nth(I, m) \in Nat /\ Nth(I, n) \in Nat
    BY <2>2
  <2>4. ~(Nth(I, n) < Nth(I, m))
    <3>1. ~(n < m)
      BY <1>1, <1>8
    <3> QED BY <2>1, <2>2, <3>1
  <2>5. Nth(I, n) # Nth(I, m)
    <3>1. m # n
      BY <1>1, <1>8
    <3> QED BY <2>2, <3>1
  <2> QED BY <2>3, <2>4, <2>5
<1> QED BY <1>1, <1>6, <1>7, <1>8

\* Whoever counts positions upwards, leaving none out, finds them by their ranks.
THEOREM Enumerated ==
    ASSUME NEW n \in Nat, NEW I \in SUBSET Nat, NEW f \in [1..n -> I],
           \A j, k \in 1..n : j < k => f[j] < f[k],
           \A i \in I : \E k \in 1..n : f[k] = i
    PROVE  IsFiniteSet(I) /\ Cardinality(I) = n /\ \A k \in 1..n : Nth(I, k) = f[k]
<1>1. IsFiniteSet(1..n) /\ Cardinality(1..n) = n
  <2>1. 1 > n => n = 0
    OBVIOUS
  <2> QED BY <2>1, FS_Interval
<1>2. \A j, k \in 1..n : f[j] = f[k] => j = k
  <2>1. \A k \in 1..n : f[k] \in Nat
    OBVIOUS
  <2> QED BY <2>1
<1>3. f \in Bijection(1..n, I)
  BY <1>2 DEF Bijection, Injection, Surjection, IsInjective
<1>4. IsFiniteSet(I) /\ Cardinality(I) = n
  BY <1>1, <1>3, FS_Bijection DEF ExistsBijection
<1>5. ASSUME NEW k \in 1..n PROVE Rank(I, f[k]) = k
  <2> DEFINE upto == {i \in I : i <= f[k]}
             g == [j \in 1..k |-> f[j]]
  <2>1. \A j \in 1..k : f[j] \in upto
    <3> SUFFICES ASSUME NEW j \in 1..k PROVE f[j] \in upto
      OBVIOUS
    <3>1. j \in 1..n /\ (j < k \/ j = k)
      OBVIOUS
    <3>2. f[j] \in I /\ f[j] \in Nat /\ f[k] \in Nat
      BY <3>1
    <3>3. f[j] < f[k] \/ f[j] = f[k]
      BY <3>1
    <3> QED BY <3>2, <3>3
  <2>2. \A i \in upto : \E j \in 1..k : f[j] = i
    <3> SUFFICES ASSUME NEW i \in upto PROVE \E j \in 1..k : f[j] = i
      OBVIOUS
    <3>1. PICK j \in 1..n : f[j] = i
      OBVIOUS
    <3>2. ~(k < j)
      <4>1. f[k] \in Nat /\ f[j] \in Nat /\ f[j] <= f[k]
        BY <3>1
      <4> QED BY <4>1
    <3> QED BY <3>1, <3>2
  <2>3. g \in Bijection(1..k, upto)
    <3>1. g \in [1..k -> upto]
      BY <2>1
    <3>2. \A i, j \in 1..k : g[i] = g[j] => i = j
      <4>1. \A j \in 1..k : j \in 1..n
        OBVIOUS
      <4> QED BY <1>2, <4>1
    <3>3. \A i \in upto : \E j \in 1..k : g[j] = i
      BY <2>2
    <3> QED BY <3>1, <3>2, <3>3 DEF Bijection, Injection, Surjection, IsInjective
  <2>4. IsFiniteSet(1..k) /\ Cardinality(1..k) = k
    <3>1. k \in Int /\ ~(1 > k)
      OBVIOUS
    <3> QED BY <3>1, FS_Interval
  <2>5. Cardinality(upto) = k
    <3> HIDE DEF upto, g
    <3> QED BY <2>3, <2>4, FS_Bijection DEF ExistsBijection
  <2> QED BY <2>5 DEF Rank
<1>6. ASSUME NEW k \in 1..n PROVE Nth(I, k) = f[k]
  BY <1>4, <1>5, NthPosition
<1> QED BY <1>4, <1>6

-----------------------------------------------------------------------------
\* A subsequence is a sequence.
THEOREM SubsequenceType ==
    ASSUME NEW S, NEW seq \in Seq(S), NEW I \in SUBSET (1..Len(seq))
    PROVE  /\ IsFiniteSet(I) /\ I \in SUBSET Nat
           /\ Subsequence(seq, I) \in Seq(S)
           /\ Cardinality(I) \in Nat /\ Len(Subsequence(seq, I)) = Cardinality(I)
           /\ \A n \in 1..Cardinality(I) :
                Nth(I, n) \in I /\ Subsequence(seq, I)[n] = seq[Nth(I, n)]
<1>1. Len(seq) \in Nat /\ \A i \in 1..Len(seq) : seq[i] \in S
  BY LenProperties, ElementOfSeq
<1>2. IsFiniteSet(I) /\ I \in SUBSET Nat
  <2>1. IsFiniteSet(1..Len(seq))
    BY <1>1, FS_Interval
  <2>2. IsFiniteSet(I)
    BY <2>1, FS_Subset
  <2> QED BY <1>1, <2>2
<1>3. Cardinality(I) \in Nat /\ \A n \in 1..Cardinality(I) : Nth(I, n) \in I
  BY <1>2, NthPosition
<1>4. Subsequence(seq, I) \in [1..Cardinality(I) -> S]
  BY <1>1, <1>3 DEF Subsequence
<1>5. Subsequence(seq, I) \in Seq(S) /\ Len(Subsequence(seq, I)) = Cardinality(I)
  BY <1>3, <1>4
<1> QED BY <1>2, <1>3, <1>5 DEF Subsequence

\* A sequence that grows by an element of no interest has the same subsequence.
THEOREM AppendDropped ==
    ASSUME NEW S, NEW seq \in Seq(S), NEW e \in S, NEW I \in SUBSET (1..Len(seq))
    PROVE  Subsequence(Append(seq, e), I) = Subsequence(seq, I)
<1> DEFINE longer == Append(seq, e)
<1>1. \A i \in 1..Len(seq) : longer[i] = seq[i]
  BY AppendProperties
<1>2. \A n \in 1..Cardinality(I) : Nth(I, n) \in 1..Len(seq)
  BY SubsequenceType
<1> HIDE DEF longer
<1>3. \A n \in 1..Cardinality(I) : longer[Nth(I, n)] = seq[Nth(I, n)]
  BY <1>1, <1>2
<1>4. Subsequence(longer, I) = Subsequence(seq, I)
  BY <1>3 DEF Subsequence
<1> QED BY <1>4 DEF longer

\* One that grows by an element of interest has it at the end of the subsequence.
THEOREM AppendKept ==
    ASSUME NEW S, NEW seq \in Seq(S), NEW e \in S, NEW I \in SUBSET (1..Len(seq))
    PROVE  Subsequence(Append(seq, e), I \cup {Len(seq) + 1}) = Append(Subsequence(seq, I), e)
<1> DEFINE longer == Append(seq, e)  last == Len(seq) + 1
           J == I \cup {last}  n == Cardinality(I)
           f == [k \in 1..(n + 1) |-> IF k <= n THEN Nth(I, k) ELSE last]
           s == Subsequence(seq, I)
<1>1. /\ Len(seq) \in Nat /\ longer \in Seq(S) /\ Len(longer) = last
      /\ (\A i \in 1..Len(seq) : longer[i] = seq[i]) /\ longer[last] = e
  BY AppendProperties, LenProperties
<1>2. /\ n \in Nat /\ s \in Seq(S) /\ Len(s) = n /\ IsFiniteSet(I) /\ I \in SUBSET Nat
      /\ \A k \in 1..n : Nth(I, k) \in I /\ s[k] = seq[Nth(I, k)]
  BY SubsequenceType
<1>3. /\ \A j, k \in 1..n : j < k => Nth(I, j) < Nth(I, k)
      /\ \A i \in I : Rank(I, i) \in 1..n /\ Nth(I, Rank(I, i)) = i
  BY <1>2, NthPosition
<1>4. Append(s, e) \in Seq(S) /\ Len(Append(s, e)) = n + 1
      /\ (\A k \in 1..n : Append(s, e)[k] = s[k]) /\ Append(s, e)[n + 1] = e
  BY <1>2, AppendProperties
<1>5. J \in SUBSET Nat
  <2>1. last \in Nat
    BY <1>1
  <2>2. I \in SUBSET Nat
    BY <1>2
  <2> QED BY <2>1, <2>2
<1> HIDE DEF longer, s, n
<1>6. f \in [1..(n + 1) -> J]
  BY <1>2
<1>7. ASSUME NEW j \in 1..(n + 1), NEW k \in 1..(n + 1), j < k PROVE f[j] < f[k]
  <2>0. j \in 1..n
    BY <1>2, <1>7
  <2>1. f[j] = Nth(I, j)
    BY <1>2, <2>0
  <2>4. Nth(I, j) \in I
    BY <1>2, <2>0
  <2>5. Nth(I, j) \in 1..Len(seq)
    BY <2>4
  <2>2. CASE k \in 1..n
    BY <1>3, <1>7, <2>0, <2>1, <2>2
  <2>3. CASE k = n + 1
    <3>1. f[k] = last
      BY <1>2, <2>3
    <3> QED BY <1>1, <2>1, <2>5, <3>1
  <2> QED BY <1>2, <2>2, <2>3
<1>8. ASSUME NEW i \in J PROVE \E k \in 1..(n + 1) : f[k] = i
  <2>1. CASE i \in I
    <3>1. Rank(I, i) \in 1..(n + 1) /\ f[Rank(I, i)] = i
      BY <1>2, <1>3, <2>1
    <3> QED BY <3>1
  <2>2. CASE i = last
    <3>1. n + 1 \in 1..(n + 1) /\ f[n + 1] = last
      BY <1>2
    <3> QED BY <2>2, <3>1
  <2> QED BY <2>1, <2>2
<1> HIDE DEF f, J
<1>9. Cardinality(J) = n + 1 /\ \A k \in 1..(n + 1) : Nth(J, k) = f[k]
  <2>1. n + 1 \in Nat
    BY <1>2
  <2> QED BY <1>5, <1>6, <1>7, <1>8, <2>1, Enumerated
<1>10. ASSUME NEW k \in 1..(n + 1) PROVE longer[f[k]] = Append(s, e)[k]
  <2>1. CASE k \in 1..n
    <3>1. f[k] = Nth(I, k)
      BY <1>2, <2>1 DEF f
    <3>2. Nth(I, k) \in 1..Len(seq)
      BY <1>2, <2>1
    <3> QED BY <1>1, <1>2, <1>4, <2>1, <3>1, <3>2
  <2>2. CASE k = n + 1
    <3>1. f[k] = last
      BY <1>2, <2>2 DEF f
    <3> QED BY <1>1, <1>4, <2>2, <3>1
  <2> QED BY <1>2, <2>1, <2>2
<1>11. Subsequence(longer, J) = [k \in 1..(n + 1) |-> longer[f[k]]]
  BY <1>9 DEF Subsequence
<1>12. Append(s, e) = [k \in 1..(n + 1) |-> Append(s, e)[k]]
  BY <1>4, LenProperties
<1>13. Subsequence(longer, J) = Append(s, e)
  BY <1>10, <1>11, <1>12
<1> QED BY <1>13 DEF longer, J, s

\* Nothing is kept of nothing, and a sequence is what is kept of all of it.
THEOREM SubsequenceOfAll ==
    ASSUME NEW S, NEW seq \in Seq(S)
    PROVE  Subsequence(seq, 1..Len(seq)) = seq
<1> DEFINE n == Len(seq)  I == 1..n  f == [k \in 1..n |-> k]
<1>1. n \in Nat /\ seq = [k \in 1..n |-> seq[k]]
  BY LenProperties
<1>2. f \in [1..n -> I] /\ I \in SUBSET Nat
      /\ (\A j, k \in 1..n : j < k => f[j] < f[k]) /\ (\A i \in I : \E k \in 1..n : f[k] = i)
  BY <1>1
<1>3. Cardinality(I) = n /\ \A k \in 1..n : Nth(I, k) = f[k]
  <2> HIDE DEF f, I, n
  <2> QED BY <1>1, <1>2, Enumerated
<1>4. \A k \in 1..n : Nth(I, k) = k
  BY <1>3
<1> HIDE DEF n, f, I
<1>5. Subsequence(seq, I) = [k \in 1..n |-> seq[k]]
  BY <1>3, <1>4 DEF Subsequence
<1> QED BY <1>1, <1>5 DEF I, n

-----------------------------------------------------------------------------
(* The elements wanted of a sequence *)

THEOREM ThoseType ==
    ASSUME NEW S, NEW seq \in Seq(S), NEW W
    PROVE  /\ Those(seq, W) \in Seq(S) /\ Len(Those(seq, W)) \in Nat
           /\ \A n \in 1..Len(Those(seq, W)) : Those(seq, W)[n] \in W \cap S
           /\ Len(Those(seq, W)) = Cardinality(PositionsOf(seq, W))
<1> DEFINE I == PositionsOf(seq, W)
<1>1. I \in SUBSET (1..Len(seq)) /\ \A i \in I : seq[i] \in W
  BY DEF PositionsOf
<1> HIDE DEF I
<1>2. /\ Those(seq, W) \in Seq(S) /\ Len(Those(seq, W)) = Cardinality(I)
      /\ Cardinality(I) \in Nat
      /\ \A n \in 1..Cardinality(I) : Nth(I, n) \in I /\ Those(seq, W)[n] = seq[Nth(I, n)]
  <2>1. Those(seq, W) = Subsequence(seq, I)
    BY DEF Those, I
  <2> QED BY <1>1, <2>1, SubsequenceType
<1>3. ASSUME NEW n \in 1..Len(Those(seq, W)) PROVE Those(seq, W)[n] \in W \cap S
  <2>1. Nth(I, n) \in I /\ Those(seq, W)[n] = seq[Nth(I, n)]
    BY <1>2
  <2>2. Those(seq, W)[n] \in W
    BY <1>1, <2>1
  <2>3. Those(seq, W)[n] \in S
    BY <1>2, ElementOfSeq
  <2> QED BY <2>2, <2>3
<1> QED BY <1>2, <1>3 DEF I

\* As a sequence grows by an element, so do those wanted of it, or not.
THEOREM ThoseOfAppend ==
    ASSUME NEW S, NEW seq \in Seq(S), NEW e \in S, NEW W
    PROVE  /\ e \in W => Those(Append(seq, e), W) = Append(Those(seq, W), e)
           /\ e \notin W => Those(Append(seq, e), W) = Those(seq, W)
<1> DEFINE longer == Append(seq, e)  I == PositionsOf(seq, W)  J == PositionsOf(longer, W)
<1>1. /\ Len(seq) \in Nat /\ longer \in Seq(S) /\ Len(longer) = Len(seq) + 1
      /\ (\A i \in 1..Len(seq) : longer[i] = seq[i]) /\ longer[Len(seq) + 1] = e
  BY AppendProperties, LenProperties
<1>2. I \in SUBSET (1..Len(seq))
  BY DEF PositionsOf
<1>3. 1..Len(longer) = (1..Len(seq)) \cup {Len(seq) + 1}
  <2> HIDE DEF longer
  <2> QED BY <1>1
<1> HIDE DEF longer
<1>4. CASE e \in W
  <2>1. J = I \cup {Len(seq) + 1}
    BY <1>1, <1>3, <1>4 DEF PositionsOf
  <2>2. Subsequence(longer, I \cup {Len(seq) + 1}) = Append(Subsequence(seq, I), e)
    <3> HIDE DEF I
    <3> QED BY <1>2, AppendKept DEF longer
  <2> QED BY <1>4, <2>1, <2>2 DEF Those, longer
<1>5. CASE e \notin W
  <2>1. J = I
    BY <1>1, <1>3, <1>5 DEF PositionsOf
  <2>2. Subsequence(longer, I) = Subsequence(seq, I)
    <3> HIDE DEF I
    <3> QED BY <1>2, AppendDropped DEF longer
  <2> QED BY <1>5, <2>1, <2>2 DEF Those, longer
<1> QED BY <1>4, <1>5

\* Of the empty sequence there are none; when all are wanted, it is the sequence.
THEOREM ThoseOfAll ==
    ASSUME NEW S, NEW seq \in Seq(S), NEW W, \A i \in 1..Len(seq) : seq[i] \in W
    PROVE  Those(seq, W) = seq
<1>1. PositionsOf(seq, W) = 1..Len(seq)
  BY DEF PositionsOf
<1> QED BY <1>1, SubsequenceOfAll DEF Those

\* When none is wanted, it is empty.
THEOREM ThoseOfNone ==
    ASSUME NEW S, NEW seq \in Seq(S), NEW W, \A i \in 1..Len(seq) : seq[i] \notin W
    PROVE  Those(seq, W) = <<>>
<1>1. PositionsOf(seq, W) = {}
  BY DEF PositionsOf
<1>2. Those(seq, W) \in Seq(S) /\ Len(Those(seq, W)) = 0
  BY <1>1, ThoseType, FS_EmptySet
<1> QED BY <1>2, EmptySeq

\* A finite set of positions has a greatest.
THEOREM GreatestPosition ==
    ASSUME NEW I \in SUBSET Nat, IsFiniteSet(I), I # {}
    PROVE  \E j \in I : \A k \in I : k <= j
<1> DEFINE n == Cardinality(I)
<1>1. /\ n \in Nat /\ \A k \in 1..n : Nth(I, k) \in I
      /\ \A i \in I : Rank(I, i) \in 1..n /\ Nth(I, Rank(I, i)) = i
      /\ \A j, k \in 1..n : j < k => Nth(I, j) < Nth(I, k)
  BY NthPosition
<1> HIDE DEF n
<1>2. n \in 1..n
  <2>1. PICK i \in I : Rank(I, i) \in 1..n
    BY <1>1
  <2> QED BY <1>1, <2>1
<1>3. ASSUME NEW k \in I PROVE k <= Nth(I, n)
  <2>1. Rank(I, k) \in 1..n /\ Nth(I, Rank(I, k)) = k
    BY <1>1
  <2>2. Rank(I, k) < n \/ Rank(I, k) = n
    BY <1>1, <2>1
  <2>3. Nth(I, n) \in Nat /\ k \in Nat
    BY <1>1, <1>2
  <2>4. Nth(I, Rank(I, k)) < Nth(I, n) \/ Rank(I, k) = n
    BY <1>1, <1>2, <2>1, <2>2
  <2> QED BY <2>1, <2>3, <2>4
<1> QED BY <1>1, <1>2, <1>3
=============================================================================
