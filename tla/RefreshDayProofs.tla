--------------------------- MODULE RefreshDayProofs ---------------------------
(***************************************************************************)
(* What holds of the daily refresh on every day, for any stores, trees,    *)
(* answers, hashes and faults.                                             *)
(*                                                                         *)
(* First what the plan of a day is made of: its terms are names of the     *)
(* store's matched departments, and where the quota reaches every          *)
(* department, every department has the name whose turn the day is.  The   *)
(* sequence operators of the plan are recursive functions, so what they    *)
(* return is proved by looking at a least counterexample (LeastNat) or at  *)
(* a longest prefix that is right (LargestNat).                            *)
(*                                                                         *)
(* Four invariants are built on one another.  RunInv has the types, the    *)
(* run's plan and its counts, and whose hashes are kept.  With it,         *)
(* PublishInv follows a priced offer through the top-up (Attempted or      *)
(* Pending) to the snapshot; ClashInv says of which plan the checkpoints   *)
(* of a date are; CoverInv bounds the days a name has gone unsearched by   *)
(* the days since its turn.                                                *)
(***************************************************************************)
EXTENDS RefreshDay, SequenceTheorems, FiniteSetTheorems, WellFoundedInduction, TLAPS

-----------------------------------------------------------------------------
(* Numbers, sequences and selections.                                       *)

\* A set of naturals that is not empty has a least element.
LEMMA LeastNat ==
    ASSUME NEW S \in SUBSET Nat, S # {}
    PROVE  \E m \in S : \A s \in S : m <= s
<1> DEFINE R == {p \in Nat \X Nat : p[1] < p[2]}
<1>1. IsWellFoundedOn(R, Nat)
  <2>1. R = OpToRel(<, Nat)
    BY DEF OpToRel
  <2> QED BY <2>1, NatLessThanWellFounded
<1>2. PICK m \in S : \A s \in S : ~ (<<s, m>> \in R)
  <2> HIDE DEF R
  <2> QED BY <1>1, WFMin
<1>3. ASSUME NEW s \in S PROVE m <= s
  <2>1. m \in Nat /\ s \in Nat /\ ~ (<<s, m>> \in R)
    BY <1>2
  <2>2. ~ (s < m)
    BY <2>1
  <2> QED BY <2>1, <2>2
<1> QED BY <1>3

\* A bounded set of naturals that is not empty has a largest element.
LEMMA LargestNat ==
    ASSUME NEW S \in SUBSET Nat, S # {}, NEW n \in Nat, \A s \in S : s <= n
    PROVE  \E m \in S : \A s \in S : s <= m
<1> DEFINE T == {k \in Nat : \A s \in S : s <= k}
<1>1. PICK m \in T : \A k \in T : m <= k
  <2>1. T \in SUBSET Nat /\ n \in T
    OBVIOUS
  <2> HIDE DEF T
  <2> QED BY <2>1, LeastNat
<1>2. CASE m \notin S
  <2>1. \A s \in S : s \in Nat /\ s < m
    BY <1>2
  <2>2. PICK x \in S : TRUE
    OBVIOUS
  <2>3. m \in Nat /\ m - 1 \in Nat
    BY <2>1, <2>2
  <2>4. \A s \in S : s <= m - 1
    BY <2>1, <2>3
  <2>5. m - 1 \in T
    BY <2>3, <2>4
  <2>6. m <= m - 1
    BY <1>1, <2>5
  <2> QED BY <2>3, <2>6
<1> QED BY <1>1, <1>2

\* A function on 1 .. n is a sequence of length n.
LEMMA FunIsSeq ==
    ASSUME NEW X, NEW n \in Nat, NEW f \in [1 .. n -> X]
    PROVE  f \in Seq(X) /\ Len(f) = n /\ (n # 0 => f # <<>>)
<1>1. f \in Seq(X)
  BY SeqDef
<1>2. Len(f) = n
  BY <1>1, LenProperties
<1> QED BY <1>1, <1>2, EmptySeq

\* Selecting keeps exactly the chosen elements: each of them is found at its rank.
LEMMA SelectionFacts ==
    ASSUME NEW X, NEW q \in Seq(X), NEW S \in SUBSET (1 .. Len(q))
    PROVE  /\ Selection(q, S) \in Seq({q[i] : i \in S})
           /\ Len(Selection(q, S)) = Cardinality(S)
           /\ \A i \in S : /\ Cardinality({j \in S : j <= i}) \in 1 .. Cardinality(S)
                           /\ Selection(q, S)[Cardinality({j \in S : j <= i})] = q[i]
<1> DEFINE Upto(i) == {j \in S : j <= i}
           Rank(i) == Cardinality(Upto(i))
<1>1. Len(q) \in Nat /\ IsFiniteSet(S) /\ Cardinality(S) \in Nat
      /\ \A i \in S : i \in Nat /\ i <= Len(q)
  <2>1. Len(q) \in Nat
    BY LenProperties
  <2>2. IsFiniteSet(1 .. Len(q))
    BY <2>1, FS_Interval
  <2>3. IsFiniteSet(S)
    BY <2>2, FS_Subset
  <2> QED BY <2>1, <2>3, FS_CardinalityType
<1>2. \A i \in S : /\ Upto(i) \in SUBSET S /\ IsFiniteSet(Upto(i)) /\ i \in Upto(i)
                   /\ Rank(i) \in 1 .. Cardinality(S)
  <2>1. ASSUME NEW i \in S
        PROVE  /\ Upto(i) \in SUBSET S /\ IsFiniteSet(Upto(i)) /\ i \in Upto(i)
               /\ Rank(i) \in 1 .. Cardinality(S)
    <3>1. Upto(i) \in SUBSET S /\ i \in Upto(i)
      BY <1>1
    <3> HIDE DEF Upto
    <3>2. /\ IsFiniteSet(Upto(i)) /\ Rank(i) <= Cardinality(S) /\ Rank(i) \in Nat
          /\ Rank(i) # 0
      BY <1>1, <3>1, FS_Subset, FS_CardinalityType, FS_EmptySet
    <3> QED BY <1>1, <3>1, <3>2
  <2> QED BY <2>1
<1>3. \A i, k \in S : i < k => Rank(i) < Rank(k)
  <2>1. ASSUME NEW i \in S, NEW k \in S, i < k PROVE Rank(i) < Rank(k)
    <3>0. i \in Nat /\ k \in Nat /\ \A j \in S : j \in Nat
      BY <1>1
    <3>1. Upto(i) \in SUBSET Upto(k) /\ k \in Upto(k) /\ k \notin Upto(i)
      <4>1. \A j \in S : j <= i => j <= k
        BY <2>1, <3>0
      <4>2. ~(k <= i) /\ k <= k
        BY <2>1, <3>0
      <4> QED BY <4>1, <4>2
    <3> HIDE DEF Upto
    <3>2. IsFiniteSet(Upto(i)) /\ IsFiniteSet(Upto(k)) /\ Rank(i) \in Nat /\ Rank(k) \in Nat
      BY <1>2, FS_CardinalityType
    <3>3. Rank(i) <= Rank(k) /\ Rank(i) # Rank(k)
      BY <3>1, <3>2, FS_Subset
    <3> QED BY <3>2, <3>3
  <2> QED BY <2>1
<1>4. ASSUME NEW k \in 1 .. Cardinality(S) PROVE \E i \in S : Rank(i) = k
  <2>1. S # {}
    BY <1>1, FS_EmptySet
  <2>2. PICK m \in S : \A s \in S : s <= m
    <3>1. S \in SUBSET Nat /\ Len(q) \in Nat /\ \A s \in S : s <= Len(q)
      BY <1>1
    <3> QED BY <2>1, <3>1, LargestNat
  <2>3. Upto(m) = S
    BY <2>2
  <2> DEFINE U == {i \in S : Rank(i) >= k}
  <2>4. m \in U
    <3>1. Rank(m) = Cardinality(S) /\ Cardinality(S) >= k
      <4>1. Rank(m) = Cardinality(S)
        BY <2>3
      <4> HIDE DEF Rank
      <4> QED BY <1>1, <4>1
    <3> HIDE DEF Rank
    <3> QED BY <3>1
  <2>5. PICK i \in U : \A u \in U : i <= u
    <3>1. U \in SUBSET Nat
      BY <1>1
    <3> HIDE DEF U
    <3> QED BY <2>4, <3>1, LeastNat
  <2>6. CASE Rank(i) # k
    <3> DEFINE V == Upto(i) \ {i}
    <3>1. /\ Rank(i) \in Nat /\ k < Rank(i) /\ IsFiniteSet(Upto(i)) /\ i \in Upto(i)
          /\ Upto(i) \in SUBSET S
      <4>1. i \in S /\ Rank(i) >= k
        BY <2>5
      <4> HIDE DEF Rank, Upto
      <4> QED BY <1>1, <1>2, <2>6, <4>1
    <3>2. Cardinality(V) = Rank(i) - 1
      <4> HIDE DEF Upto
      <4> QED BY <3>1, FS_RemoveElement
    <3>3. V # {} /\ V \in SUBSET Nat /\ (\A s \in V : s \in Nat /\ s <= Len(q) /\ s < i /\ s \in S)
          /\ \A s \in S : s < i => s \in V
      <4>1. \A s \in S : s \in Nat /\ s <= Len(q)
        BY <1>1
      <4>2. i \in S
        BY <2>5
      <4>3. \A s \in S : s \in V <=> s < i
        BY <4>1, <4>2
      <4>4. V \subseteq S
        OBVIOUS
      <4>5. V # {}
        <5>1. Cardinality(V) # 0
          <6> HIDE DEF V, Rank
          <6> QED BY <3>1, <3>2
        <5> HIDE DEF V
        <5> QED BY <5>1, FS_EmptySet
      <4> HIDE DEF V
      <4> QED BY <4>1, <4>3, <4>4, <4>5
    <3>4. PICK p \in V : \A s \in V : s <= p
      <4> HIDE DEF V
      <4> QED BY <1>1, <3>3, LargestNat
    <3>5. Upto(p) = V
      <4>1. p \in Nat /\ i \in Nat /\ p \in S /\ p < i /\ \A s \in S : s \in Nat
        BY <1>1, <2>5, <3>3, <3>4
      <4>2. \A s \in S : s <= p => s < i
        BY <4>1
      <4>3. \A s \in S : s <= p <=> s \in V
        BY <3>3, <3>4, <4>2
      <4>4. V \subseteq S
        OBVIOUS
      <4> HIDE DEF V
      <4> QED BY <4>3, <4>4
    <3>6. Rank(p) >= k
      <4>1. Rank(p) = Rank(i) - 1
        BY <3>2, <3>5
      <4> HIDE DEF Rank
      <4> QED BY <3>1, <4>1
    <3>7. p \in U /\ p < i
      BY <3>3, <3>4, <3>6
    <3>8. i <= p /\ i \in Nat /\ p \in Nat
      BY <1>1, <2>5, <3>7
    <3> QED BY <3>7, <3>8
  <2> QED BY <2>5, <2>6
<1> DEFINE At(k) == CHOOSE i \in S : Rank(i) = k
<1>5. \A k \in 1 .. Cardinality(S) : At(k) \in S /\ Rank(At(k)) = k
  <2> HIDE DEF Rank
  <2> QED BY <1>4
<1>6. Selection(q, S) = [k \in 1 .. Cardinality(S) |-> q[At(k)]]
  BY DEF Selection
<1>7. Selection(q, S) \in Seq({q[i] : i \in S}) /\ Len(Selection(q, S)) = Cardinality(S)
  <2> HIDE DEF At, Rank
  <2> DEFINE Y == {q[i] : i \in S}
  <2>1. \A k \in 1 .. Cardinality(S) : q[At(k)] \in Y
    BY <1>5
  <2>2. Selection(q, S) \in Seq(Y)
    <3> HIDE DEF Y
    <3>1. Selection(q, S) \in [1 .. Cardinality(S) -> Y]
      BY <1>6, <2>1
    <3> QED BY <1>1, <3>1, SeqDef
  <2>3. DOMAIN Selection(q, S) = 1 .. Cardinality(S)
    BY <1>6
  <2> QED BY <1>1, <2>2, <2>3, LenProperties
<1>8. ASSUME NEW i \in S
      PROVE  Rank(i) \in 1 .. Cardinality(S) /\ Selection(q, S)[Rank(i)] = q[i]
  <2>1. Rank(i) \in 1 .. Cardinality(S)
    BY <1>2
  <2> DEFINE r == Rank(i)
  <2>2. At(r) \in S /\ Rank(At(r)) = Rank(i)
    BY <1>5, <2>1
  <2> HIDE DEF At, Rank
  <2>3. At(r) = i
    <3>1. Rank(i) \in Nat /\ i \in Nat /\ At(r) \in Nat
      <4>1. Rank(i) \in Nat
        BY <1>1, <2>1
      <4>2. At(r) \in S /\ i \in S
        BY <2>2
      <4> HIDE DEF r
      <4> QED BY <1>1, <4>1, <4>2
    <3> HIDE DEF r
    <3>2. ~(At(r) < i) /\ ~(i < At(r))
      BY <1>3, <2>2, <3>1
    <3> QED BY <3>1, <3>2
  <2> QED BY <1>6, <2>1, <2>3
<1> QED BY <1>7, <1>8

\* FlattenSeq, one part at a time: the start of part i is the length of those before.
LEMMA FlattenParts ==
    ASSUME NEW X, NEW qs \in Seq(Seq(X))
    PROVE  \E f \in [1 .. Len(qs) -> Seq(X)] :
              \A i \in 1 .. Len(qs) : f[i] = IF i = 1 THEN qs[i] ELSE f[i-1] \o qs[i]
<1> DEFINE Fits(f, k) == \A i \in 1 .. k : f[i] = IF i = 1 THEN qs[i] ELSE f[i-1] \o qs[i]
           Bad == {k \in 0 .. Len(qs) : ~ \E f \in [1 .. k -> Seq(X)] : Fits(f, k)}
<1>1. Len(qs) \in Nat /\ \A i \in 1 .. Len(qs) : qs[i] \in Seq(X)
  BY LenProperties, ElementOfSeq
<1>2. CASE Bad # {}
  <2>1. PICK k \in Bad : \A j \in Bad : k <= j
    <3>1. Bad \in SUBSET Nat
      BY <1>1
    <3> HIDE DEF Bad
    <3> QED BY <1>2, <3>1, LeastNat
  <2>2. k \in 0 .. Len(qs) /\ ~ \E f \in [1 .. k -> Seq(X)] : Fits(f, k)
    BY <2>1
  <2>3. k # 0
    <3>1. SUFFICES ASSUME k = 0 PROVE FALSE
      OBVIOUS
    <3>2. [i \in 1 .. 0 |-> <<>>] \in [1 .. 0 -> Seq(X)] /\ 1 .. 0 = {}
      OBVIOUS
    <3>3. Fits([i \in 1 .. 0 |-> <<>>], 0)
      BY <3>2
    <3> HIDE DEF Fits
    <3> QED BY <2>2, <3>1, <3>2, <3>3
  <2>4. k \in Nat /\ k - 1 \in 0 .. Len(qs) /\ ~(k <= k - 1)
    BY <1>1, <2>2, <2>3
  <2>5. k - 1 \notin Bad
    BY <2>1, <2>4
  <2>6. PICK f \in [1 .. k - 1 -> Seq(X)] : Fits(f, k - 1)
    BY <2>4, <2>5
  <2> DEFINE last == IF k = 1 THEN qs[k] ELSE f[k - 1] \o qs[k]
             g == [i \in 1 .. k |-> IF i < k THEN f[i] ELSE last]
  <2>7. last \in Seq(X)
    <3>1. qs[k] \in Seq(X)
      BY <1>1, <2>2, <2>3
    <3>2. CASE k = 1
      BY <3>1, <3>2
    <3>3. CASE k # 1
      <4>1. k - 1 \in 1 .. k - 1
        BY <2>4, <2>3, <3>3
      <4>2. f[k - 1] \o qs[k] \in Seq(X)
        BY <3>1, <4>1, ConcatProperties
      <4> QED BY <3>3, <4>2
    <3> QED BY <3>2, <3>3
  <2>8. g \in [1 .. k -> Seq(X)]
    <3> HIDE DEF last
    <3> QED BY <2>4, <2>7
  <2>9. Fits(g, k)
    <3>1. ASSUME NEW i \in 1 .. k
          PROVE  g[i] = IF i = 1 THEN qs[i] ELSE g[i-1] \o qs[i]
      <4>1. CASE i < k
        <5>1. i \in 1 .. k - 1 /\ g[i] = f[i]
          BY <2>4, <4>1
        <5>2. f[i] = IF i = 1 THEN qs[i] ELSE f[i-1] \o qs[i]
          BY <2>6, <5>1
        <5>3. i # 1 => i - 1 \in 1 .. k /\ i - 1 < k
          BY <2>4, <4>1
        <5>4. i # 1 => g[i - 1] = f[i - 1]
          BY <5>3
        <5> QED BY <5>1, <5>2, <5>4
      <4>2. CASE i = k
        <5>1. g[i] = last
          BY <2>4, <4>2
        <5>2. i # 1 => i - 1 \in 1 .. k /\ i - 1 < k
          BY <2>4, <4>2
        <5>3. i # 1 => g[i - 1] = f[i - 1]
          BY <5>2
        <5> QED BY <4>2, <5>1, <5>3
      <4> QED BY <2>4, <4>1, <4>2
    <3> QED BY <3>1
  <2> HIDE DEF g, Fits
  <2> QED BY <2>2, <2>8, <2>9
<1>3. CASE Bad = {}
  <2>1. Len(qs) \in 0 .. Len(qs)
    BY <1>1
  <2>2. Len(qs) \notin Bad
    BY <1>3
  <2> HIDE DEF Fits
  <2>3. \E f \in [1 .. Len(qs) -> Seq(X)] : Fits(f, Len(qs))
    BY <2>1, <2>2
  <2> QED BY <2>3 DEF Fits
<1> QED BY <1>2, <1>3

\* Flattening loses nothing: each element of each part is in the result, and the
\* first part is its beginning.
LEMMA FlattenFacts ==
    ASSUME NEW X, NEW qs \in Seq(Seq(X))
    PROVE  /\ FlattenSeq(qs) \in Seq(X)
           /\ \A i \in 1 .. Len(qs) : \A j \in 1 .. Len(qs[i]) :
                \E n \in 1 .. Len(FlattenSeq(qs)) : FlattenSeq(qs)[n] = qs[i][j]
           /\ qs # <<>> => \A j \in 1 .. Len(qs[1]) :
                j <= Len(FlattenSeq(qs)) /\ FlattenSeq(qs)[j] = qs[1][j]
<1>1. /\ Len(qs) \in Nat
      /\ \A i \in 1 .. Len(qs) : qs[i] \in Seq(X) /\ Len(qs[i]) \in Nat
  BY LenProperties, ElementOfSeq
<1>2. CASE Len(qs) = 0
  <2>1. qs = <<>>
    BY <1>2, EmptySeq
  <2>2. FlattenSeq(qs) = qs
    BY <1>2 DEF FlattenSeq
  <2>3. FlattenSeq(qs) \in Seq(X)
    BY <2>1, <2>2, EmptySeq
  <2> QED BY <1>2, <2>1, <2>3
<1>3. CASE Len(qs) # 0
  <2> DEFINE Eq(f) == f = [i \in 1 .. Len(qs) |-> IF i = 1 THEN qs[i] ELSE f[i-1] \o qs[i]]
             fl == CHOOSE f : Eq(f)
  <2>1. FlattenSeq(qs) = fl[Len(qs)]
    BY <1>3, Zenon DEF FlattenSeq
  <2>2. Eq(fl)
    <3>1. PICK f \in [1 .. Len(qs) -> Seq(X)] :
              \A i \in 1 .. Len(qs) : f[i] = IF i = 1 THEN qs[i] ELSE f[i-1] \o qs[i]
      BY FlattenParts
    <3>2. Eq(f)
      BY <3>1
    <3> HIDE DEF Eq
    <3> QED BY <3>2
  <2>3. \A i \in 1 .. Len(qs) : fl[i] = IF i = 1 THEN qs[i] ELSE fl[i-1] \o qs[i]
    <3> HIDE DEF fl
    <3> QED BY <2>2
  <2> HIDE DEF fl, Eq
  <2> DEFINE Good(i) ==
        /\ fl[i] \in Seq(X)
        /\ \A a \in 1 .. i : \A j \in 1 .. Len(qs[a]) :
              \E n \in 1 .. Len(fl[i]) : fl[i][n] = qs[a][j]
        /\ \A j \in 1 .. Len(qs[1]) : j <= Len(fl[i]) /\ fl[i][j] = qs[1][j]
      Bad == {i \in 1 .. Len(qs) : ~Good(i)}
  <2>4. Bad = {}
    <3>1. SUFFICES ASSUME Bad # {} PROVE FALSE
      OBVIOUS
    <3>2. PICK k \in Bad : \A j \in Bad : k <= j
      <4>1. Bad \in SUBSET Nat
        BY <1>1
      <4> HIDE DEF Bad
      <4> QED BY <3>1, <4>1, LeastNat
    <3>3. k \in 1 .. Len(qs) /\ ~Good(k)
      BY <3>2
    <3>4. CASE k = 1
      <4>1. fl[k] = qs[1] /\ qs[1] \in Seq(X) /\ Len(qs[1]) \in Nat
        BY <1>1, <2>3, <3>3, <3>4
      <4>2. Good(k)
        BY <3>4, <4>1
      <4> QED BY <3>3, <4>2
    <3>5. CASE k # 1
      <4>1. k \in Nat /\ k - 1 \in 1 .. Len(qs) /\ ~(k <= k - 1) /\ k - 1 \in Nat
        BY <1>1, <3>3, <3>5
      <4>2. Good(k - 1)
        BY <3>2, <4>1
      <4> DEFINE p == fl[k - 1]
      <4>3. /\ fl[k] = p \o qs[k] /\ qs[k] \in Seq(X) /\ p \in Seq(X)
            /\ Len(p) \in Nat /\ Len(qs[k]) \in Nat
        BY <1>1, <2>3, <3>3, <3>5, <4>2, LenProperties
      <4>4. /\ fl[k] \in Seq(X) /\ Len(fl[k]) = Len(p) + Len(qs[k])
            /\ \A i \in 1 .. Len(p) + Len(qs[k]) :
                 fl[k][i] = IF i <= Len(p) THEN p[i] ELSE qs[k][i - Len(p)]
        <5> HIDE DEF p
        <5> QED BY <4>3, ConcatProperties
      <4>5. ASSUME NEW a \in 1 .. k, NEW j \in 1 .. Len(qs[a])
            PROVE  \E n \in 1 .. Len(fl[k]) : fl[k][n] = qs[a][j]
        <5>1. CASE a = k
          <6> DEFINE m == Len(p)
                     l == Len(qs[k])
                     n == m + j
          <6>1. m \in Nat /\ l \in Nat /\ j \in 1 .. l
            BY <4>3, <5>1
          <6>2. n \in 1 .. m + l /\ ~(n <= m) /\ n - m = j
            <7> HIDE DEF m, l
            <7> QED BY <6>1
          <6>3. fl[k][n] = qs[k][n - m] /\ n \in 1 .. Len(fl[k])
            <7> HIDE DEF p, n
            <7> QED BY <4>4, <6>2
          <6> HIDE DEF n, m
          <6> QED BY <5>1, <6>2, <6>3
        <5>2. CASE a # k
          <6>1. a \in 1 .. k - 1
            BY <4>1, <5>2
          <6>2. PICK n \in 1 .. Len(p) : p[n] = qs[a][j]
            BY <4>2, <6>1
          <6>3. n \in 1 .. Len(fl[k]) /\ fl[k][n] = p[n]
            <7> DEFINE m == Len(p)
                       l == Len(qs[k])
            <7>1. m \in Nat /\ l \in Nat /\ n \in 1 .. m
              BY <4>3, <6>2
            <7>2. n \in 1 .. m + l /\ n <= m
              <8> HIDE DEF m, l
              <8> QED BY <7>1
            <7> HIDE DEF p
            <7> QED BY <4>4, <7>2
          <6> QED BY <6>2, <6>3
        <5> QED BY <5>1, <5>2
      <4>6. ASSUME NEW j \in 1 .. Len(qs[1])
            PROVE  j <= Len(fl[k]) /\ fl[k][j] = qs[1][j]
        <5>1. j <= Len(p) /\ p[j] = qs[1][j]
          BY <4>2
        <5>2. Len(qs[1]) \in Nat
          BY <1>1, <1>3
        <5>3. j \in 1 .. Len(p) + Len(qs[k]) /\ j <= Len(p) + Len(qs[k])
          <6> DEFINE m == Len(p)
                     l == Len(qs[k])
                     h == Len(qs[1])
          <6>1. m \in Nat /\ l \in Nat /\ j \in 1 .. h /\ h \in Nat /\ j <= m
            BY <4>3, <5>1, <5>2
          <6>2. j \in 1 .. m + l /\ j <= m + l
            <7> HIDE DEF m, l, h
            <7> QED BY <6>1
          <6> QED BY <6>2
        <5> QED BY <4>4, <5>1, <5>3
      <4>7. Good(k)
        BY <4>4, <4>5, <4>6
      <4> QED BY <3>3, <4>7
    <3> QED BY <3>4, <3>5
  <2>5. Good(Len(qs))
    <3>1. Len(qs) \in 1 .. Len(qs)
      BY <1>1, <1>3
    <3> QED BY <2>4, <3>1
  <2> QED BY <1>1, <1>3, <2>1, <2>5
<1> QED BY <1>2, <1>3

\* Keeping first occurrences loses no value and moves none to a later place.
LEMMA DistinctFacts ==
    ASSUME NEW X, NEW q \in Seq(X)
    PROVE  /\ Distinct(q) \in Seq(X)
           /\ \A i \in 1 .. Len(q) : \E k \in 1 .. Len(Distinct(q)) :
                k <= i /\ Distinct(q)[k] = q[i]
<1> DEFINE S == {i \in DOMAIN q : \A j \in 1 .. i - 1 : q[j] # q[i]}
           Rank(i) == Cardinality({j \in S : j <= i})
<1>1. /\ Len(q) \in Nat /\ DOMAIN q = 1 .. Len(q) /\ S \in SUBSET (1 .. Len(q))
      /\ \A i \in 1 .. Len(q) : q[i] \in X
  BY LenProperties, ElementOfSeq
<1>2. Distinct(q) = Selection(q, S)
  BY DEF Distinct
<1>3. /\ Distinct(q) \in Seq({q[i] : i \in S})
      /\ Len(Distinct(q)) = Cardinality(S)
      /\ \A i \in S : Rank(i) \in 1 .. Cardinality(S) /\ Distinct(q)[Rank(i)] = q[i]
  <2> HIDE DEF S
  <2> QED BY <1>1, <1>2, SelectionFacts
<1>4. Distinct(q) \in Seq(X)
  <2>1. {q[i] : i \in S} \subseteq X
    BY <1>1
  <2> DEFINE Y == {q[i] : i \in S}
  <2> HIDE DEF Y, S
  <2> QED BY <1>3, <2>1, SeqMonotonic DEF Y
<1>5. ASSUME NEW i \in 1 .. Len(q)
      PROVE  \E k \in 1 .. Len(Distinct(q)) : k <= i /\ Distinct(q)[k] = q[i]
  <2> DEFINE E == {j \in 1 .. Len(q) : q[j] = q[i]}
  <2>1. PICK e \in E : \A j \in E : e <= j
    <3>1. E \in SUBSET Nat /\ i \in E
      BY <1>1
    <3> HIDE DEF E
    <3> QED BY <3>1, LeastNat
  <2>2. e \in S
    <3>1. ASSUME NEW j \in 1 .. e - 1 PROVE q[j] # q[e]
      <4>1. j \in 1 .. Len(q) /\ ~(e <= j)
        BY <1>1, <2>1
      <4> QED BY <2>1, <4>1
    <3> QED BY <1>1, <2>1, <3>1
  <2>3. e \in Nat /\ i \in Nat /\ e <= i
    BY <1>1, <2>1
  <2>4. Rank(e) <= e
    <3>1. {j \in S : j <= e} \in SUBSET (1 .. e)
      BY <1>1, <2>3
    <3>2. IsFiniteSet(1 .. e) /\ Cardinality(1 .. e) = e
      BY <2>3, FS_Interval
    <3> DEFINE T == {j \in S : j <= e}
    <3> HIDE DEF T
    <3> QED BY <3>1, <3>2, FS_Subset DEF T
  <2>5. Rank(e) \in 1 .. Len(Distinct(q)) /\ Distinct(q)[Rank(e)] = q[i]
    BY <1>3, <2>1, <2>2
  <2>6. Rank(e) <= i
    <3>1. Rank(e) \in Nat
      <4>1. Len(Distinct(q)) \in Nat
        BY <1>4, LenProperties
      <4> HIDE DEF Rank
      <4> QED BY <2>5, <4>1
    <3> HIDE DEF Rank
    <3> QED BY <2>3, <2>4, <3>1
  <2> HIDE DEF Rank
  <2> QED BY <2>5, <2>6
<1> QED BY <1>4, <1>5

\* A rotation is as long as what it rotates, and starts with the element at n.
LEMMA RotateFacts ==
    ASSUME NEW X, NEW q \in Seq(X), NEW n \in Nat
    PROVE  /\ Rotate(q, n) \in Seq(X) /\ Len(Rotate(q, n)) = Len(q)
           /\ \A i \in 1 .. Len(q) :
                /\ ((i - 1 + n) % Len(q)) + 1 \in 1 .. Len(q)
                /\ Rotate(q, n)[i] = q[((i - 1 + n) % Len(q)) + 1]
<1>1. Len(q) \in Nat /\ DOMAIN q = 1 .. Len(q) /\ \A i \in 1 .. Len(q) : q[i] \in X
  BY LenProperties, ElementOfSeq
<1>2. ASSUME NEW i \in 1 .. Len(q)
      PROVE  ((i - 1 + n) % Len(q)) + 1 \in 1 .. Len(q)
  <2>1. i - 1 + n \in Nat /\ Len(q) \in Nat \ {0}
    BY <1>1
  <2>2. (i - 1 + n) % Len(q) \in 0 .. Len(q) - 1
    <3> DEFINE a == i - 1 + n
               l == Len(q)
    <3>1. a \in Nat /\ l \in Nat \ {0}
      BY <2>1
    <3> HIDE DEF a, l
    <3>2. a % l \in 0 .. l - 1
      BY <3>1
    <3> QED BY <3>2 DEF a, l
  <2> DEFINE m == (i - 1 + n) % Len(q)
             l == Len(q)
  <2>3. m \in 0 .. l - 1 /\ l \in Nat
    BY <2>1, <2>2
  <2>4. m + 1 \in 1 .. l
    <3> HIDE DEF m, l
    <3> QED BY <2>3
  <2> QED BY <2>4
<1>3. Rotate(q, n) = [i \in 1 .. Len(q) |-> q[((i - 1 + n) % Len(q)) + 1]]
  BY <1>1 DEF Rotate
<1>4. Rotate(q, n) \in [1 .. Len(q) -> X]
  BY <1>1, <1>2, <1>3
<1>5. Rotate(q, n) \in Seq(X) /\ Len(Rotate(q, n)) = Len(q)
  <2>1. Rotate(q, n) \in Seq(X)
    BY <1>1, <1>4, SeqDef
  <2>2. DOMAIN Rotate(q, n) = 1 .. Len(q)
    BY <1>3
  <2> QED BY <1>1, <2>1, <2>2, LenProperties
<1> QED BY <1>2, <1>3, <1>5

\* Quotient and remainder.
LEMMA DivMod ==
    ASSUME NEW l \in Nat \ {0}, NEW n \in Nat
    PROVE  n % l \in 0 .. l - 1 /\ n \div l \in Nat /\ n = l * (n \div l) + (n % l)
OBVIOUS

\* The remainder is unique.
LEMMA ModUnique ==
    ASSUME NEW l \in Nat \ {0}, NEW q \in Nat, NEW r \in 0 .. l - 1
    PROVE  (l * q + r) % l = r
<1> DEFINE n == l * q + r
           p == n \div l
           t == n % l
<1>1. n \in Nat
  <2>1. l * q \in Nat
    OBVIOUS
  <2> DEFINE m == l * q
  <2> HIDE DEF m
  <2>2. m \in Nat => m + r \in Nat
    OBVIOUS
  <2> QED BY <2>1, <2>2 DEF m
<1>2. t \in 0 .. l - 1 /\ p \in Nat /\ n = l * p + t
  <2> HIDE DEF n
  <2> QED BY <1>1, DivMod
<1> HIDE DEF p, t
<1>3. ASSUME NEW a \in Nat, NEW b \in Nat, a < b, NEW x \in 0 .. l - 1, NEW y \in 0 .. l - 1
      PROVE  l * a + x # l * b + y
  <2>1. PICK d \in Nat : b = a + 1 + d
    <3>1. b - a - 1 \in Nat /\ b = a + 1 + (b - a - 1)
      BY <1>3
    <3> QED BY <3>1
  <2>2. l * b = l * a + l + l * d
    BY <2>1
  <2>3. l * d \in Nat /\ l * a \in Nat
    OBVIOUS
  <2> DEFINE la == l * a
             ld == l * d
  <2>4. la \in Nat /\ ld \in Nat /\ l * b = la + l + ld
    BY <2>2, <2>3
  <2>5. la + x # la + l + ld + y
    <3> HIDE DEF la, ld
    <3> QED BY <2>4
  <2> QED BY <2>4, <2>5
<1>4. p = q
  <2>1. ~(p < q) /\ ~(q < p)
    BY <1>2, <1>3
  <2> QED BY <1>2, <2>1
<1>5. t = r
  <2> DEFINE m == l * q
  <2>1. m + r = m + t /\ m \in Nat
    BY <1>2, <1>4
  <2> HIDE DEF m
  <2> QED BY <1>2, <2>1
<1> QED BY <1>5 DEF t

\* A rotation reaches every place.
LEMMA RotateOnto ==
    ASSUME NEW l \in Nat \ {0}, NEW n \in Nat, NEW j \in 1 .. l
    PROVE  \E i \in 1 .. l : ((i - 1 + n) % l) + 1 = j
<1> DEFINE q == n \div l
           r == n % l
           m == l * q
<1>1. r \in 0 .. l - 1 /\ q \in Nat /\ n = m + r /\ m \in Nat
  <2>1. r \in 0 .. l - 1 /\ q \in Nat /\ n = m + r
    BY DivMod
  <2>2. m \in Nat
    <3> HIDE DEF q
    <3> QED BY <2>1
  <2> QED BY <2>1, <2>2
<1>2. l * (q + 1) = m + l
  BY <1>1
<1>3. j - 1 \in 0 .. l - 1 /\ q + 1 \in Nat
  BY <1>1
<1>4. (m + (j - 1)) % l = j - 1 /\ (m + l + (j - 1)) % l = j - 1
  <2> HIDE DEF q
  <2>1. (l * q + (j - 1)) % l = j - 1 /\ (l * (q + 1) + (j - 1)) % l = j - 1
    BY <1>1, <1>3, ModUnique
  <2> QED BY <1>2, <2>1
<1> HIDE DEF m, q, r
<1>5. CASE r <= j - 1
  <2>1. j - r \in 1 .. l /\ (j - r) - 1 + n = m + (j - 1)
    BY <1>1, <1>3, <1>5
  <2>2. (((j - r) - 1 + n) % l) + 1 = j
    BY <1>4, <2>1
  <2> QED BY <2>1, <2>2
<1>6. CASE ~(r <= j - 1)
  <2>1. (j + l) - r \in 1 .. l /\ ((j + l) - r) - 1 + n = m + l + (j - 1)
    BY <1>1, <1>3, <1>6
  <2>2. ((((j + l) - r) - 1 + n) % l) + 1 = j
    BY <1>4, <2>1
  <2> QED BY <2>1, <2>2
<1> QED BY <1>5, <1>6

\* 1 .. n is finite and has n elements.
LEMMA CardUpto == \A n \in Nat : IsFiniteSet(1 .. n) /\ Cardinality(1 .. n) = n
BY FS_Interval

\* Finitely many naturals have a bound.
LEMMA Bounded ==
    ASSUME NEW m \in Nat, NEW f, \A i \in 1 .. m : f[i] \in Nat
    PROVE  \E b \in Nat : \A i \in 1 .. m : f[i] <= b
<1> DEFINE Bound(k) == \E b \in Nat : \A i \in 1 .. k : f[i] <= b
           Bad == {k \in 0 .. m : ~Bound(k)}
<1>1. CASE Bad # {}
  <2>1. PICK k \in Bad : \A j \in Bad : k <= j
    <3>1. Bad \in SUBSET Nat
      OBVIOUS
    <3> HIDE DEF Bad
    <3> QED BY <1>1, <3>1, LeastNat
  <2>2. k \in 0 .. m /\ ~Bound(k)
    BY <2>1
  <2>3. k # 0
    <3>1. \A i \in 1 .. 0 : f[i] <= 0
      OBVIOUS
    <3>2. Bound(0)
      BY <3>1
    <3> QED BY <2>2, <3>2
  <2>4. k \in Nat /\ k - 1 \in 0 .. m /\ ~(k <= k - 1) /\ k \in 1 .. m
    BY <2>2, <2>3
  <2>5. PICK b \in Nat : \A i \in 1 .. k - 1 : f[i] <= b
    BY <2>1, <2>4
  <2>6. PICK c \in Nat : b <= c /\ f[k] <= c
    <3>1. f[k] \in Nat
      BY <2>4
    <3>2. CASE b <= f[k]
      BY <3>1, <3>2
    <3>3. CASE ~(b <= f[k])
      BY <3>1, <3>3
    <3> QED BY <3>2, <3>3
  <2>7. ASSUME NEW i \in 1 .. k PROVE f[i] <= c
    <3>1. CASE i = k
      BY <2>6, <3>1
    <3>2. CASE i # k
      <4>1. i \in 1 .. k - 1 /\ i \in 1 .. m
        BY <2>4, <3>2
      <4>2. f[i] \in Nat /\ f[i] <= b
        BY <2>5, <4>1
      <4> QED BY <2>6, <4>2
    <3> QED BY <3>1, <3>2
  <2> QED BY <2>2, <2>7
<1>2. CASE Bad = {}
  <2>1. m \in 0 .. m
    OBVIOUS
  <2>2. Bound(m)
    <3> HIDE DEF Bound
    <3> QED BY <1>2, <2>1
  <2> QED BY <2>2
<1> QED BY <1>1, <1>2

-----------------------------------------------------------------------------
(* The plan.                                                                *)

\* The names a plan of store s may have.
NamesOf(t, s) == UNION {ToSet(ByDepartment(t, s)[i]) : i \in DOMAIN ByDepartment(t, s)}

\* A sequence over its own range.
LEMMA InRange ==
    ASSUME NEW q, q \in Seq(ToSet(q))
    PROVE  /\ Len(q) \in Nat /\ DOMAIN q = 1 .. Len(q)
           /\ \A i \in 1 .. Len(q) : q[i] \in ToSet(q)
BY LenProperties, ElementOfSeq

\* A department has at least one name to search: its own, when it has no children.
LEMMA ChildFacts ==
    ASSUME PlanConstants, NEW t \in Trees, NEW s \in ToSet(Sources), NEW d \in ToSet(Tree[t][s])
    PROVE  \E X : Names(ChildCategories(d)) \in Seq(X) /\ Names(ChildCategories(d)) # <<>>
<1> DEFINE N == Names(ChildCategories(d))
<1>1. CASE d.children = <<>>
  <2>1. ChildCategories(d) = << [name |-> d.name, path |-> <<d.id, 0>>] >>
    BY <1>1 DEF ChildCategories
  <2>2. N = [i \in 1 .. 1 |-> d.name]
    <3> DEFINE c == [name |-> d.name, path |-> <<d.id, 0>>]
    <3>1. c.name = d.name
      OBVIOUS
    <3> HIDE DEF c
    <3>2. DOMAIN <<c>> = 1 .. 1 /\ <<c>>[1] = c
      OBVIOUS
    <3> QED BY <2>1, <3>1, <3>2 DEF Names, c
  <2>3. PICK n \in Nat \ {0} : n = 1
    OBVIOUS
  <2> HIDE DEF N
  <2> DEFINE X == {d.name}
  <2>5. N \in [1 .. n -> X]
    BY <2>2, <2>3
  <2>4. N \in Seq(X) /\ N # <<>>
    <3> HIDE DEF X
    <3> QED BY <2>3, <2>5, FunIsSeq
  <2> QED BY <2>4 DEF N
<1>2. CASE d.children # <<>>
  <2> DEFINE n == Len(d.children)
             X == {N[i] : i \in 1 .. n}
  <2>1. d.children \in Seq(ToSet(d.children))
    BY DEF PlanConstants
  <2>2. n \in Nat \ {0} /\ DOMAIN d.children = 1 .. n
    BY <1>2, <2>1, LenProperties, EmptySeq
  <2>3. DOMAIN N = 1 .. n
    BY <1>2, <2>2 DEF ChildCategories, Names
  <2>4. N = [i \in 1 .. n |-> N[i]]
    BY <2>3 DEF Names
  <2> HIDE DEF N, n
  <2>5. N \in [1 .. n -> X]
    BY <2>4
  <2> HIDE DEF X
  <2>6. N \in Seq(X) /\ N # <<>>
    BY <2>2, <2>5, FunIsSeq
  <2> QED BY <2>6 DEF N
<1> QED BY <1>1, <1>2

\* A store has one group of names for each matched department, none of them empty.
LEMMA GroupFacts ==
    ASSUME PlanConstants, NEW t \in Trees, NEW s \in ToSet(Sources)
    PROVE  /\ ByDepartment(t, s) \in Seq(Seq(NamesOf(t, s)))
           /\ \A i \in 1 .. Len(ByDepartment(t, s)) : ByDepartment(t, s)[i] # <<>>
<1> DEFINE M == MatchedDepartments(t, s)
           G == ByDepartment(t, s)
<1>1. M \in Seq(ToSet(Tree[t][s]))
  <2> DEFINE S == {i \in DOMAIN Tree[t][s] : Tree[t][s][i].name \in Allowlist[s]}
  <2>1. Tree[t][s] \in Seq(ToSet(Tree[t][s]))
    BY DEF PlanConstants
  <2>2. S \in SUBSET (1 .. Len(Tree[t][s])) /\ \A i \in S : Tree[t][s][i] \in ToSet(Tree[t][s])
    BY <2>1, LenProperties, ElementOfSeq
  <2>3. M = Selection(Tree[t][s], S)
    BY DEF MatchedDepartments
  <2> HIDE DEF S, M
  <2>4. M \in Seq({Tree[t][s][i] : i \in S})
    BY <2>1, <2>2, <2>3, SelectionFacts
  <2> DEFINE Y == {Tree[t][s][i] : i \in S}
  <2>5. Y \subseteq ToSet(Tree[t][s])
    BY <2>2
  <2> HIDE DEF Y
  <2> QED BY <2>4, <2>5, SeqMonotonic DEF Y
<1>2. Len(M) \in Nat /\ DOMAIN M = 1 .. Len(M) /\ \A i \in 1 .. Len(M) : M[i] \in ToSet(Tree[t][s])
  <2> HIDE DEF M
  <2> QED BY <1>1, LenProperties, ElementOfSeq
<1>3. /\ G = [i \in 1 .. Len(M) |-> Distinct(Names(ChildCategories(M[i])))]
      /\ DOMAIN G = 1 .. Len(M)
  BY <1>2 DEF ByDepartment
<1>4. ASSUME NEW i \in 1 .. Len(M)
      PROVE  G[i] \in Seq(NamesOf(t, s)) /\ G[i] # <<>>
  <2>1. M[i] \in ToSet(Tree[t][s])
    BY <1>2
  <2> DEFINE N == Names(ChildCategories(M[i]))
  <2>2. PICK X : N \in Seq(X) /\ N # <<>>
    <3> HIDE DEF M
    <3> QED BY <2>1, ChildFacts
  <2>3. G[i] = Distinct(N)
    BY <1>3
  <2> HIDE DEF N, G, M
  <2>4. /\ G[i] \in Seq(X) /\ Len(G[i]) \in Nat
        /\ \A k \in 1 .. Len(N) : \E j \in 1 .. Len(G[i]) : j <= k /\ G[i][j] = N[k]
    BY <2>2, <2>3, DistinctFacts, LenProperties
  <2>5. G[i] # <<>>
    <3>1. Len(N) \in Nat \ {0}
      BY <2>2, EmptySeq
    <3>2. \E j \in 1 .. Len(G[i]) : TRUE
      BY <2>4, <3>1
    <3>3. Len(G[i]) # 0
      BY <2>4, <3>2
    <3> QED BY <3>3, EmptySeq
  <2>6. G[i] \in [1 .. Len(G[i]) -> X] /\ DOMAIN G[i] = 1 .. Len(G[i])
    BY <2>4, LenProperties
  <2>7. \A k \in 1 .. Len(G[i]) : G[i][k] \in NamesOf(t, s)
    <3>1. i \in DOMAIN G
      BY <1>3
    <3>2. \A k \in DOMAIN G[i] : G[i][k] \in ToSet(G[i])
      BY DEF ToSet
    <3> QED BY <2>6, <3>1, <3>2 DEF NamesOf, G
  <2>8. G[i] \in [1 .. Len(G[i]) -> NamesOf(t, s)]
    BY <2>6, <2>7
  <2> QED BY <2>4, <2>5, <2>8, FunIsSeq
<1>5. G \in Seq(Seq(NamesOf(t, s))) /\ Len(G) = Len(M)
  <2> HIDE DEF M, G
  <2>1. G \in [1 .. Len(M) -> Seq(NamesOf(t, s))]
    BY <1>3, <1>4
  <2> QED BY <1>2, <2>1, FunIsSeq
<1> HIDE DEF M
<1> QED BY <1>4, <1>5

\* On day d a department, wherever the rotation puts it, starts with the name
\* whose turn d is (rotateCategoryPlan).
LEMMA RotatePlanFacts ==
    ASSUME NEW N, NEW G \in Seq(Seq(N)), \A i \in 1 .. Len(G) : G[i] # <<>>, NEW date \in Nat
    PROVE  LET R == RotateCategoryPlan(G, date)
           IN /\ R \in Seq(Seq(N)) /\ Len(R) = Len(G)
              /\ \A i \in 1 .. Len(R) : R[i] # <<>>
              /\ \A j \in 1 .. Len(G) : \E i \in 1 .. Len(R) :
                    R[i][1] = G[j][(date % Len(G[j])) + 1]
<1> DEFINE T == Rotate(G, date)
           R == RotateCategoryPlan(G, date)
<1>1. /\ Len(G) \in Nat
      /\ \A i \in 1 .. Len(G) : G[i] \in Seq(N) /\ Len(G[i]) \in Nat \ {0}
  BY LenProperties, ElementOfSeq, EmptySeq
<1>2. /\ T \in Seq(Seq(N)) /\ Len(T) = Len(G)
      /\ \A i \in 1 .. Len(G) :
           /\ ((i - 1 + date) % Len(G)) + 1 \in 1 .. Len(G)
           /\ T[i] = G[((i - 1 + date) % Len(G)) + 1]
  BY RotateFacts
<1>3. DOMAIN T = 1 .. Len(G)
  <2> HIDE DEF T
  <2> QED BY <1>2, LenProperties
<1>4. R = [i \in 1 .. Len(G) |-> Rotate(T[i], date)]
  BY <1>3 DEF RotateCategoryPlan
<1>5. \A i \in 1 .. Len(G) : T[i] \in Seq(N) /\ Len(T[i]) \in Nat \ {0}
  BY <1>1, <1>2
<1>6. \A i \in 1 .. Len(G) :
        /\ R[i] \in Seq(N) /\ R[i] # <<>>
        /\ R[i][1] = T[i][(date % Len(T[i])) + 1]
  <2>1. ASSUME NEW i \in 1 .. Len(G)
        PROVE  /\ R[i] \in Seq(N) /\ R[i] # <<>>
               /\ R[i][1] = T[i][(date % Len(T[i])) + 1]
    <3>1. R[i] = Rotate(T[i], date)
      BY <1>4
    <3> HIDE DEF R, T
    <3>2. T[i] \in Seq(N) /\ Len(T[i]) \in Nat \ {0}
      BY <1>5
    <3>3. /\ R[i] \in Seq(N) /\ Len(R[i]) = Len(T[i])
          /\ R[i][1] = T[i][((1 - 1 + date) % Len(T[i])) + 1]
      <4> DEFINE t == T[i]
      <4>1. t \in Seq(N) /\ 1 \in 1 .. Len(t)
        BY <3>2
      <4> HIDE DEF t
      <4>2. /\ Rotate(t, date) \in Seq(N) /\ Len(Rotate(t, date)) = Len(t)
            /\ Rotate(t, date)[1] = t[((1 - 1 + date) % Len(t)) + 1]
        BY <4>1, RotateFacts
      <4> QED BY <3>1, <4>2 DEF t
    <3>4. 1 - 1 + date = date
      OBVIOUS
    <3>5. Len(R[i]) # 0
      BY <3>2, <3>3
    <3> QED BY <3>3, <3>4, <3>5, EmptySeq
  <2> QED BY <2>1
<1>7. R \in Seq(Seq(N)) /\ Len(R) = Len(G)
  <2>1. R \in [1 .. Len(G) -> Seq(N)]
    BY <1>4, <1>6
  <2> HIDE DEF R
  <2> QED BY <1>1, <2>1, FunIsSeq
<1> HIDE DEF R, T
<1>8. ASSUME NEW j \in 1 .. Len(G)
      PROVE  \E i \in 1 .. Len(R) : R[i][1] = G[j][(date % Len(G[j])) + 1]
  <2>1. PICK i \in 1 .. Len(G) : ((i - 1 + date) % Len(G)) + 1 = j
    <3>1. Len(G) \in Nat \ {0}
      BY <1>1
    <3> QED BY <3>1, RotateOnto
  <2>2. T[i] = G[j]
    BY <1>2, <2>1
  <2> QED BY <1>6, <1>7, <2>2
<1> QED BY <1>6, <1>7, <1>8 DEF R

\* The terms begin with the first names of the departments: that of the i-th is
\* among the first i (interleaveCategoryTerms).
LEMMA InterleaveFacts ==
    ASSUME NEW N, NEW R \in Seq(Seq(N)), \A i \in 1 .. Len(R) : R[i] # <<>>
    PROVE  /\ InterleaveCategoryTerms(R) \in Seq(N)
           /\ \A i \in 1 .. Len(R) : \E k \in 1 .. Len(InterleaveCategoryTerms(R)) :
                k <= i /\ InterleaveCategoryTerms(R)[k] = R[i][1]
<1> DEFINE sizes == {Len(R[i]) : i \in DOMAIN R}
           depth == IF R = <<>> THEN 0 ELSE CHOOSE n \in sizes : \A i \in DOMAIN R : Len(R[i]) <= n
           Deep(k) == Selection(R, {i \in DOMAIN R : Len(R[i]) >= k})
           Row(k) == [i \in DOMAIN Deep(k) |-> Deep(k)[i][k]]
           rows == [k \in 1 .. depth |-> Row(k)]
           all == FlattenSeq(rows)
<1>1. InterleaveCategoryTerms(R) = Distinct(all)
  BY DEF InterleaveCategoryTerms
<1>2. /\ Len(R) \in Nat /\ DOMAIN R = 1 .. Len(R)
      /\ \A i \in 1 .. Len(R) : R[i] \in Seq(N) /\ Len(R[i]) \in Nat \ {0}
  BY LenProperties, ElementOfSeq, EmptySeq
<1>3. depth \in Nat /\ (R # <<>> => depth # 0)
  <2>1. CASE R = <<>>
    BY <2>1
  <2>2. CASE R # <<>>
    <3>1. PICK b \in Nat : \A i \in 1 .. Len(R) : Len(R[i]) <= b
      <4> DEFINE f == [i \in 1 .. Len(R) |-> Len(R[i])]
      <4>1. \A i \in 1 .. Len(R) : f[i] \in Nat /\ f[i] = Len(R[i])
        BY <1>2
      <4> HIDE DEF f
      <4>2. \E b \in Nat : \A i \in 1 .. Len(R) : f[i] <= b
        BY <1>2, <4>1, Bounded
      <4> QED BY <4>1, <4>2
    <3>2. sizes \in SUBSET (Nat \ {0}) /\ \A n \in sizes : n <= b
      BY <1>2, <3>1
    <3>3. sizes # {}
      <4>1. Len(R) \in Nat \ {0}
        BY <2>2, EmptySeq
      <4>2. 1 \in DOMAIN R
        BY <1>2, <4>1
      <4> QED BY <4>2
    <3>4. \E n \in sizes : \A m \in sizes : m <= n
      <4> HIDE DEF sizes
      <4>1. sizes \in SUBSET Nat
        BY <3>2
      <4> QED BY <3>2, <3>3, <4>1, LargestNat
    <3>5. \E n \in sizes : \A i \in DOMAIN R : Len(R[i]) <= n
      BY <3>4
    <3>6. depth \in sizes
      <4> HIDE DEF sizes
      <4> QED BY <2>2, <3>5
    <3> HIDE DEF sizes, depth
    <3> QED BY <3>2, <3>6
  <2> QED BY <2>1, <2>2
<1>4. ASSUME NEW k \in 1 .. depth PROVE Row(k) \in Seq(N)
  <2> DEFINE S == {i \in DOMAIN R : Len(R[i]) >= k}
             Y == {R[i] : i \in S}
             D == Deep(k)
  <2>1. D \in Seq(Y)
    <3>1. S \in SUBSET (1 .. Len(R))
      BY <1>2
    <3>2. D = Selection(R, S)
      OBVIOUS
    <3> HIDE DEF S, D
    <3> QED BY <3>1, <3>2, SelectionFacts
  <2>2. k \in Nat \ {0}
    <3> HIDE DEF depth
    <3> QED BY <1>3
  <2>3. \A y \in Y : y[k] \in N
    <3>1. ASSUME NEW i \in S PROVE R[i][k] \in N
      <4>1. R[i] \in Seq(N) /\ k \in 1 .. Len(R[i])
        BY <1>2, <2>2
      <4> QED BY <4>1, ElementOfSeq
    <3> QED BY <3>1
  <2> HIDE DEF D, Y
  <2>4. Len(D) \in Nat /\ DOMAIN D = 1 .. Len(D) /\ \A i \in 1 .. Len(D) : D[i] \in Y
    BY <2>1, LenProperties, ElementOfSeq
  <2>5. [i \in DOMAIN D |-> D[i][k]] \in [1 .. Len(D) -> N]
    BY <2>3, <2>4
  <2>6. [i \in DOMAIN D |-> D[i][k]] \in Seq(N)
    BY <2>4, <2>5, FunIsSeq
  <2> QED BY <2>6 DEF D
<1>5. rows \in Seq(Seq(N)) /\ Len(rows) = depth
  <2>1. rows \in [1 .. depth -> Seq(N)]
    <3> HIDE DEF Row, depth
    <3> QED BY <1>4
  <2> HIDE DEF rows, depth
  <2> QED BY <1>3, <2>1, FunIsSeq
<1>6. /\ all \in Seq(N)
      /\ rows # <<>> => \A j \in 1 .. Len(rows[1]) : j <= Len(all) /\ all[j] = rows[1][j]
  <2> HIDE DEF rows
  <2> QED BY <1>5, FlattenFacts
<1>7. /\ Distinct(all) \in Seq(N)
      /\ \A i \in 1 .. Len(all) : \E k \in 1 .. Len(Distinct(all)) :
            k <= i /\ Distinct(all)[k] = all[i]
  <2> HIDE DEF all
  <2> QED BY <1>6, DistinctFacts
<1>8. ASSUME NEW i \in 1 .. Len(R)
      PROVE  i \in 1 .. Len(all) /\ all[i] = R[i][1]
  <2>1. R # <<>>
    BY <1>2, EmptySeq
  <2>2. 1 \in 1 .. depth /\ rows # <<>>
    <3> HIDE DEF depth, rows
    <3>1. Len(rows) # 0
      BY <1>3, <1>5, <2>1
    <3> QED BY <1>3, <2>1, <3>1, EmptySeq
  <2>3. rows[1] = Row(1)
    <3> HIDE DEF Row, depth
    <3> QED BY <2>2
  <2>4. {j \in DOMAIN R : Len(R[j]) >= 1} = 1 .. Len(R)
    BY <1>2
  <2> DEFINE D == Selection(R, 1 .. Len(R))
  <2>5. rows[1] = [j \in DOMAIN D |-> D[j][1]]
    BY <2>3, <2>4
  <2>6. \A j \in 1 .. Len(R) : {h \in 1 .. Len(R) : h <= j} = 1 .. j
    BY <1>2
  <2>7. Cardinality(1 .. Len(R)) = Len(R) /\ \A j \in 1 .. Len(R) : Cardinality(1 .. j) = j
    BY <1>2, CardUpto
  <2>8. /\ D \in Seq({R[j] : j \in 1 .. Len(R)}) /\ Len(D) = Len(R) /\ D[i] = R[i]
    <3>1. /\ D \in Seq({R[j] : j \in 1 .. Len(R)}) /\ Len(D) = Cardinality(1 .. Len(R))
          /\ D[Cardinality({h \in 1 .. Len(R) : h <= i})] = R[i]
      <4>1. 1 .. Len(R) \in SUBSET (1 .. Len(R))
        OBVIOUS
      <4> QED BY <4>1, SelectionFacts
    <3> HIDE DEF D
    <3> QED BY <2>6, <2>7, <3>1
  <2> HIDE DEF D, rows, all
  <2>9. DOMAIN D = 1 .. Len(R)
    BY <2>8, LenProperties
  <2>10. rows[1][i] = R[i][1] /\ DOMAIN rows[1] = 1 .. Len(R)
    BY <2>5, <2>8, <2>9
  <2>11. rows[1] \in Seq(N)
    BY <1>5, <2>2, ElementOfSeq, EmptySeq
  <2>12. Len(rows[1]) = Len(R)
    BY <2>10, <2>11, LenProperties, <1>2
  <2>13. i <= Len(all) /\ all[i] = rows[1][i] /\ Len(all) \in Nat
    BY <1>6, <2>2, <2>12, LenProperties
  <2> QED BY <1>2, <2>10, <2>13
<1> HIDE DEF all
<1>9. ASSUME NEW i \in 1 .. Len(R)
      PROVE  \E k \in 1 .. Len(Distinct(all)) : k <= i /\ Distinct(all)[k] = R[i][1]
  BY <1>7, <1>8
<1> QED BY <1>1, <1>7, <1>9

\* A quota is a number of batches.
LEMMA QuotaIsNat ==
    ASSUME PlanConstants, NEW s \in ToSet(Sources)
    PROVE  QuotaFor(s) \in Nat
<1>1. MaxBatches \in Nat /\ Override[s] \in Nat /\ Sources \in Seq(ToSet(Sources))
  BY DEF PlanConstants
<1>2. CASE Override[s] > 0
  BY <1>1, <1>2 DEF QuotaFor
<1>3. CASE ~(Override[s] > 0)
  <2> DEFINE n == Len(SharedSources)
             P == {i \in DOMAIN Sources : Override[Sources[i]] = 0}
  <2>1. P \in SUBSET (1 .. Len(Sources)) /\ Len(Sources) \in Nat
    BY <1>1, LenProperties
  <2>2. PICK i \in DOMAIN Sources : Sources[i] = s
    BY DEF ToSet
  <2>3. i \in P
    BY <1>1, <1>3, <2>2
  <2>4. n = Cardinality(P) /\ Cardinality({j \in P : j <= i}) \in 1 .. Cardinality(P)
    <3>1. SharedSources = Selection(Sources, P)
      BY DEF SharedSources
    <3> HIDE DEF P
    <3> QED BY <1>1, <2>1, <2>3, <3>1, SelectionFacts
  <2>5. Cardinality(P) \in Nat
    <3>1. IsFiniteSet(1 .. Len(Sources))
      BY <2>1, CardUpto
    <3> HIDE DEF P
    <3>2. IsFiniteSet(P)
      BY <2>1, <3>1, FS_Subset
    <3> QED BY <3>2, FS_CardinalityType
  <2>6. n \in Nat \ {0}
    <3> HIDE DEF P, n
    <3> QED BY <2>4, <2>5
  <2>7. MaxBatches \div n \in Nat
    <3> HIDE DEF n
    <3> QED BY <1>1, <2>6, DivMod
  <2>8. \A b \in BOOLEAN : MaxBatches \div n + (IF b THEN 1 ELSE 0) \in Nat
    <3> HIDE DEF n
    <3> QED BY <2>7
  <2> DEFINE rank == CHOOSE k \in 1 .. n : SharedSources[k] = s
             early == rank <= MaxBatches % n
  <2>9. QuotaFor(s) = MaxBatches \div n + (IF early THEN 1 ELSE 0)
    BY <1>3 DEF QuotaFor
  <2> HIDE DEF n, early
  <2>10. CASE early
    BY <2>7, <2>9, <2>10
  <2>11. CASE ~early
    BY <2>7, <2>9, <2>11
  <2> QED BY <2>10, <2>11
<1> QED BY <1>2, <1>3

\* A day's terms of a store are names of its departments; when its quota is not
\* below the number of departments, each department's turn is among them.
LEMMA StoreTermsFacts ==
    ASSUME PlanConstants, NEW t \in Trees, NEW s \in ToSet(Sources), NEW d \in Nat
    PROVE  /\ StoreTerms(t, s, d) \in Seq(NamesOf(t, s))
           /\ Len(ByDepartment(t, s)) <= QuotaFor(s) =>
                \A j \in 1 .. Len(ByDepartment(t, s)) : \E k \in 1 .. Len(StoreTerms(t, s, d)) :
                    StoreTerms(t, s, d)[k] =
                      ByDepartment(t, s)[j][(d % Len(ByDepartment(t, s)[j])) + 1]
<1> DEFINE G == ByDepartment(t, s)
           N == NamesOf(t, s)
           R == RotateCategoryPlan(G, d)
           I == InterleaveCategoryTerms(R)
           Q == QuotaFor(s)
           m == IF Len(I) < Q THEN Len(I) ELSE Q
           T == StoreTerms(t, s, d)
<1>1. G \in Seq(Seq(N)) /\ \A i \in 1 .. Len(G) : G[i] # <<>>
  BY GroupFacts
<1>2. Q \in Nat
  BY QuotaIsNat
<1>3. T = SubSeq(I, 1, m)
  BY DEF StoreTerms
<1> HIDE DEF N
<1>4. /\ R \in Seq(Seq(N)) /\ Len(R) = Len(G)
      /\ \A i \in 1 .. Len(R) : R[i] # <<>>
      /\ \A j \in 1 .. Len(G) : \E i \in 1 .. Len(R) : R[i][1] = G[j][(d % Len(G[j])) + 1]
  <2> HIDE DEF G
  <2> QED BY <1>1, RotatePlanFacts
<1>5. /\ I \in Seq(N)
      /\ \A i \in 1 .. Len(R) : \E k \in 1 .. Len(I) : k <= i /\ I[k] = R[i][1]
  <2> HIDE DEF R
  <2> QED BY <1>4, InterleaveFacts
<1> HIDE DEF I, Q
<1>6. Len(I) \in Nat /\ m \in Nat /\ m <= Len(I) /\ \A k \in 1 .. Len(I) : I[k] \in N
  BY <1>2, <1>5, LenProperties, ElementOfSeq
<1>7. /\ T \in Seq(N) /\ Len(T) = m
      /\ \A k \in 1 .. m : T[k] = I[k]
  <2> HIDE DEF m, T
  <2>1. \A k \in 1 .. m : I[k] \in N /\ 1 + k - 1 = k
    BY <1>6
  <2>2. /\ T \in Seq(N) /\ Len(T) = IF 1 <= m THEN m - 1 + 1 ELSE 0
        /\ \A k \in 1 .. m - 1 + 1 : T[k] = I[1 + k - 1]
    BY <1>3, <1>6, <2>1, SubSeqProperties
  <2>3. m - 1 + 1 = m
    BY <1>6
  <2> QED BY <1>6, <2>1, <2>2, <2>3
<1>8. ASSUME Len(G) <= Q, NEW j \in 1 .. Len(G)
      PROVE  \E k \in 1 .. Len(T) : T[k] = G[j][(d % Len(G[j])) + 1]
  <2>1. PICK i \in 1 .. Len(R) : R[i][1] = G[j][(d % Len(G[j])) + 1]
    BY <1>4
  <2>2. PICK k \in 1 .. Len(I) : k <= i /\ I[k] = R[i][1]
    BY <1>5
  <2>3. k \in 1 .. m
    <3>1. Len(G) \in Nat
      BY <1>1, LenProperties
    <3> HIDE DEF G, R
    <3>2. k <= Q
      BY <1>2, <1>4, <1>6, <1>8, <2>2, <3>1
    <3> QED BY <1>2, <1>6, <2>2, <3>2
  <2> HIDE DEF T, m
  <2> QED BY <1>7, <2>1, <2>2, <2>3
<1> QED BY <1>7, <1>8 DEF N, Q

\* The batches of the categories.
Searchable ==
    {[source |-> c[1], term |-> c[2], path |-> CategoryPath(t, c[1], c[2]), wide |-> Wide] :
        t \in Trees, c \in Categories}

\* A name of a store is one of its categories.
LEMMA InCategories ==
    ASSUME NEW t \in Trees, NEW s \in ToSet(Sources), NEW n \in NamesOf(t, s)
    PROVE  <<s, n>> \in CategoriesIn[t] /\ <<s, n>> \in Categories
<1>1. <<s, n>> \in CategoriesOf(t, s)
  BY DEF CategoriesOf, NamesOf
<1> QED BY <1>1 DEF CategoriesIn, Categories

\* The plan of a day has only batches of categories, and each term of each store.
LEMMA PlanFacts ==
    ASSUME PlanConstants, NEW t \in Trees, NEW d \in Nat
    PROVE  /\ BuildDiscoveryPlan(t, d) \in Seq(Searchable)
           /\ \A s \in ToSet(Sources) : \A k \in 1 .. Len(StoreTerms(t, s, d)) :
                \E n \in 1 .. Len(BuildDiscoveryPlan(t, d)) :
                  /\ BuildDiscoveryPlan(t, d)[n].source = s
                  /\ BuildDiscoveryPlan(t, d)[n].term = StoreTerms(t, s, d)[k]
<1> DEFINE Batch0(s, k) == [source |-> s, term |-> StoreTerms(t, s, d)[k],
                            path |-> CategoryPath(t, s, StoreTerms(t, s, d)[k]), wide |-> Wide]
           Part(s) == [k \in DOMAIN StoreTerms(t, s, d) |-> Batch0(s, k)]
           parts == [i \in DOMAIN Sources |-> Part(Sources[i])]
<1>1. /\ Len(Sources) \in Nat /\ DOMAIN Sources = 1 .. Len(Sources)
      /\ \A i \in 1 .. Len(Sources) : Sources[i] \in ToSet(Sources)
  BY InRange DEF PlanConstants
<1>2. ASSUME NEW s \in ToSet(Sources)
      PROVE  /\ Part(s) \in Seq(Searchable) /\ Len(Part(s)) = Len(StoreTerms(t, s, d))
             /\ \A k \in 1 .. Len(StoreTerms(t, s, d)) :
                  Part(s)[k].source = s /\ Part(s)[k].term = StoreTerms(t, s, d)[k]
  <2> DEFINE T == StoreTerms(t, s, d)
  <2>1. T \in Seq(NamesOf(t, s))
    BY StoreTermsFacts
  <2> HIDE DEF T
  <2>2. Len(T) \in Nat /\ DOMAIN T = 1 .. Len(T) /\ \A k \in 1 .. Len(T) : T[k] \in NamesOf(t, s)
    BY <2>1, LenProperties, ElementOfSeq
  <2>3. Part(s) = [k \in 1 .. Len(T) |->
                    [source |-> s, term |-> T[k], path |-> CategoryPath(t, s, T[k]), wide |-> Wide]]
    BY <2>2 DEF T
  <2>4. ASSUME NEW k \in 1 .. Len(T)
        PROVE  [source |-> s, term |-> T[k], path |-> CategoryPath(t, s, T[k]), wide |-> Wide]
                  \in Searchable
    <3> DEFINE c == <<s, T[k]>>
    <3>1. c \in Categories /\ c[1] = s /\ c[2] = T[k]
      BY <2>2, <2>4, InCategories
    <3> HIDE DEF c
    <3>2. [source |-> c[1], term |-> c[2], path |-> CategoryPath(t, c[1], c[2]), wide |-> Wide]
             \in Searchable
      BY <3>1 DEF Searchable
    <3> QED BY <3>1, <3>2
  <2>5. Part(s) \in [1 .. Len(T) -> Searchable]
    BY <2>3, <2>4
  <2>6. \A k \in 1 .. Len(T) : Part(s)[k].source = s /\ Part(s)[k].term = T[k]
    BY <2>3
  <2> HIDE DEF Part
  <2> QED BY <2>2, <2>5, <2>6, FunIsSeq DEF T
<1>3. parts \in Seq(Seq(Searchable)) /\ Len(parts) = Len(Sources)
  <2> HIDE DEF Part
  <2>1. parts \in [1 .. Len(Sources) -> Seq(Searchable)]
    BY <1>1, <1>2
  <2> HIDE DEF parts
  <2> QED BY <1>1, <2>1, FunIsSeq
<1>4. BuildDiscoveryPlan(t, d) = FlattenSeq(parts)
  BY DEF BuildDiscoveryPlan
<1>5. /\ FlattenSeq(parts) \in Seq(Searchable)
      /\ \A i \in 1 .. Len(parts) : \A j \in 1 .. Len(parts[i]) :
            \E n \in 1 .. Len(FlattenSeq(parts)) : FlattenSeq(parts)[n] = parts[i][j]
  <2> HIDE DEF parts
  <2> QED BY <1>3, FlattenFacts
<1>6. ASSUME NEW s \in ToSet(Sources), NEW k \in 1 .. Len(StoreTerms(t, s, d))
      PROVE  \E n \in 1 .. Len(BuildDiscoveryPlan(t, d)) :
                  /\ BuildDiscoveryPlan(t, d)[n].source = s
                  /\ BuildDiscoveryPlan(t, d)[n].term = StoreTerms(t, s, d)[k]
  <2>1. PICK i \in 1 .. Len(Sources) : Sources[i] = s
    BY <1>1 DEF ToSet
  <2>2. parts[i] = Part(s)
    <3> HIDE DEF Part
    <3> QED BY <1>1, <2>1
  <2> HIDE DEF parts, Part
  <2>3. i \in 1 .. Len(parts) /\ k \in 1 .. Len(parts[i])
    BY <1>2, <1>3, <2>2
  <2>4. PICK n \in 1 .. Len(FlattenSeq(parts)) : FlattenSeq(parts)[n] = parts[i][k]
    BY <1>5, <2>3
  <2>5. /\ n \in 1 .. Len(BuildDiscoveryPlan(t, d))
        /\ BuildDiscoveryPlan(t, d)[n] = Part(s)[k]
    BY <1>4, <2>2, <2>4
  <2>6. Part(s)[k].source = s /\ Part(s)[k].term = StoreTerms(t, s, d)[k]
    BY <1>2
  <2> QED BY <2>5, <2>6
<1> HIDE DEF parts
<1> QED BY <1>4, <1>5, <1>6

\* The batches a resolved plan may have.
Batches == Searchable \cup ToSet(FrozenPlan)

\* A resolved plan, discovered or frozen, is a sequence of batches.
LEMMA ResolvedPlan ==
    ASSUME PlanConstants, NEW t \in Trees, NEW d \in Nat, NEW b \in BOOLEAN
    PROVE  ResolvePlan(t, d, b).batches \in Seq(Batches)
<1>1. BuildDiscoveryPlan(t, d) \in Seq(Batches)
  BY PlanFacts, SeqMonotonic DEF Batches
<1>2. FrozenPlan \in Seq(Batches)
  <2>1. FrozenPlan \in Seq(ToSet(FrozenPlan)) /\ ToSet(FrozenPlan) \subseteq Batches
    BY DEF PlanConstants, Batches
  <2> QED BY <2>1, SeqMonotonic
<1> QED BY <1>1, <1>2 DEF ResolvePlan

-----------------------------------------------------------------------------
(* What a search returns.                                                   *)

\* Dropping junk and repetitions adds no record.
LEMMA FirstSightsIn ==
    ASSUME NEW X, NEW q \in Seq(X)
    PROVE  FirstSights(q) \subseteq X
<1>1. DOMAIN q = 1 .. Len(q) /\ \A i \in 1 .. Len(q) : q[i] \in X
  BY LenProperties, ElementOfSeq
<1> QED BY <1>1 DEF FirstSights

\* Nor does keeping the last of each.
LEMMA LastSightsIn ==
    ASSUME NEW X, NEW q \in Seq(X)
    PROVE  LastSights(q) \subseteq X
<1>1. Len(q) \in Nat /\ \A i \in 1 .. Len(q) : q[i] \in X
  BY LenProperties, ElementOfSeq
<1>2. Reverse(q) = [i \in 1 .. Len(q) |-> q[(Len(q) - i) + 1]]
  BY DEF Reverse
<1>3. \A i \in 1 .. Len(q) : q[(Len(q) - i) + 1] \in X
  BY <1>1
<1>4. Reverse(q) \in [1 .. Len(q) -> X]
  BY <1>2, <1>3
<1>5. Reverse(q) \in Seq(X)
  <2> DEFINE r == Reverse(q)
             n == Len(q)
  <2>1. n \in Nat /\ r \in [1 .. n -> X]
    BY <1>1, <1>4
  <2> HIDE DEF r, n
  <2>2. r \in Seq(X)
    BY <2>1, FunIsSeq
  <2> QED BY <2>2 DEF r
<1> QED BY <1>5, FirstSightsIn DEF LastSights

\* A page that begins below the cap is a sequence of the list's records.
LEMMA PageIn ==
    ASSUME SearchConstants, NEW X, NEW s, NEW a, a.list \in Seq(X), NEW p \in Nat \ {0},
           (p - 1) * PageSize < PageCap
    PROVE  Page(s, a, p) \in Seq(X)
<1> DEFINE before == (p - 1) * PageSize
           n == PageRequest(p)
           from == Offset(s, p)
           to == IF from + n < Len(a.list) THEN from + n ELSE Len(a.list)
<1>1. PageSize \in Nat \ {0} /\ PageCap \in Nat \ {0}
  BY DEF SearchConstants
<1>2. before \in Nat /\ before < PageCap
  <2>1. p - 1 \in Nat
    OBVIOUS
  <2> QED BY <1>1, <2>1
<1>3. n \in Nat
  <2>1. n = PageSize \/ n = PageCap - before
    BY DEF PageRequest
  <2> HIDE DEF before, n
  <2> QED BY <1>1, <1>2, <2>1
<1>4. from \in Nat
  <2>1. from = before \/ from = (p - 1) * n
    BY DEF Offset
  <2>2. p - 1 \in Nat
    OBVIOUS
  <2> HIDE DEF before, n, from
  <2> QED BY <1>2, <1>3, <2>1, <2>2
<1>5. Len(a.list) \in Nat /\ \A i \in 1 .. Len(a.list) : a.list[i] \in X
  BY LenProperties, ElementOfSeq
<1>6. Page(s, a, p) = SubSeq(a.list, from + 1, to)
  BY DEF Page
<1> HIDE DEF from, n
<1>7. from + 1 \in Int /\ to \in Int /\ \A i \in (from + 1) .. to : a.list[i] \in X
  BY <1>3, <1>4, <1>5
<1> HIDE DEF to
<1> QED BY <1>6, <1>7, SubSeqProperties

\* A paged search reads records of the list: its reading ends, at the cap if not before.
LEMMA ReadPagesIn ==
    ASSUME SearchConstants, NEW X, NEW s, NEW a, a.list \in Seq(X)
    PROVE  ReadPages(s, a).sights \subseteq X
<1> DEFINE Ends(p) == Exhausted(s, a, p) \/ a.failsAt = p + 1
           First(p) == /\ Exhausted(s, a, p) \/ a.failsAt = p + 1
                       /\ \A r \in 1 .. p - 1 : ~Exhausted(s, a, r) /\ a.failsAt # r + 1
           E == {p \in 1 .. PageCap : Ends(p)}
           last == CHOOSE p \in 1 .. PageCap : First(p)
           pages == [p \in 1 .. last |-> Page(s, a, p)]
<1>1. CASE a.failsAt = 1
  BY <1>1 DEF ReadPages, Raised
<1>2. CASE a.failsAt # 1
  <2>1. PageSize \in Nat \ {0} /\ PageCap \in Nat \ {0}
    BY DEF SearchConstants
  <2>2. PageCap \in E
    <3>1. PageCap * PageSize >= PageCap
      BY <2>1
    <3>2. Ends(PageCap)
      BY <3>1 DEF Exhausted
    <3> QED BY <2>1, <3>2
  <2>3. PICK m \in E : \A p \in E : m <= p
    <3>1. E \in SUBSET Nat
      OBVIOUS
    <3> HIDE DEF E
    <3> QED BY <2>2, <3>1, LeastNat
  <2>4. First(m)
    <3>1. ASSUME NEW r \in 1 .. m - 1, Ends(r) PROVE FALSE
      <4>1. r \in 1 .. PageCap /\ m \in 1 .. PageCap /\ ~(m <= r)
        BY <2>1, <2>3
      <4>2. r \in E
        BY <3>1, <4>1
      <4> QED BY <2>3, <4>1, <4>2
    <3> QED BY <2>3, <3>1
  <2>5. last \in 1 .. PageCap /\ First(last)
    <3>1. m \in 1 .. PageCap
      BY <2>3
    <3> HIDE DEF First
    <3> QED BY <2>4, <3>1
  <2>6. ReadPages(s, a).sights = FirstSights(FlattenSeq(pages))
    BY <1>2 DEF ReadPages
  <2> HIDE DEF last
  <2>7. ASSUME NEW p \in 1 .. last PROVE Page(s, a, p) \in Seq(X)
    <3>1. p \in Nat \ {0}
      BY <2>1, <2>5
    <3>2. (p - 1) * PageSize < PageCap
      <4>1. CASE p = 1
        BY <2>1, <4>1
      <4>2. CASE p # 1
        <5>1. p - 1 \in 1 .. last - 1
          BY <2>1, <2>5, <4>2
        <5>2. ~((p - 1) * PageSize >= PageCap)
          BY <2>5, <5>1 DEF Exhausted
        <5>3. (p - 1) * PageSize \in Nat
          <6>1. p - 1 \in Nat
            BY <3>1
          <6> QED BY <2>1, <6>1
        <5> DEFINE before == (p - 1) * PageSize
        <5> HIDE DEF before
        <5> QED BY <2>1, <5>2, <5>3 DEF before
      <4> QED BY <4>1, <4>2
    <3> QED BY <3>1, <3>2, PageIn
  <2>8. pages \in [1 .. last -> Seq(X)] /\ last \in Nat
    BY <2>1, <2>5, <2>7
  <2> HIDE DEF pages
  <2>9. FlattenSeq(pages) \in Seq(X)
    <3>1. pages \in Seq(Seq(X))
      BY <2>8, FunIsSeq
    <3> QED BY <3>1, FlattenFacts
  <2> QED BY <2>6, <2>9, FirstSightsIn
<1> QED BY <1>1, <1>2

\* An attempt stages records of the answer it gets.
LEMMA StageIn ==
    ASSUME SearchConstants, NEW X, NEW b, NEW attempt, NEW a, a.list \in Seq(X), NEW hash
    PROVE  Stage(b, attempt, a, hash).sights \subseteq X
<1>1. ReadPersisted(b.source, a, hash).sights \subseteq X
  <2>1. CASE hash = "none" \/ a.failsAt = 1
    BY <2>1 DEF ReadPersisted, Raised
  <2>2. CASE ~(hash = "none" \/ a.failsAt = 1)
    <3>1. ReadPersisted(b.source, a, hash).sights = LastSights(Page(b.source, a, 1))
      BY <2>2 DEF ReadPersisted
    <3>2. 1 \in Nat \ {0} /\ (1 - 1) * PageSize < PageCap
      BY DEF SearchConstants
    <3>3. Page(b.source, a, 1) \in Seq(X)
      BY <3>2, PageIn
    <3> QED BY <3>1, <3>3, LastSightsIn
  <2> QED BY <2>1, <2>2
<1>2. ReadPages(b.source, a).sights \subseteq X
  BY ReadPagesIn
<1> QED BY <1>1, <1>2 DEF Stage

\* The attempts of a batch are numbered from 1.
LEMMA AttemptsOf ==
    ASSUME SearchConstants, NEW b, b.term \in DOMAIN Words
    PROVE  \E n \in Nat : DOMAIN SearchAttempts(b) = 1 .. n
<1> DEFINE W == Words[b.term]
           A == {<<"category", b.path>>, <<"text", b.term>>} \cup {<<"text", w>> : w \in ToSet(W)}
           one == IF b.path # <<>> THEN << <<"category", b.path>> >> ELSE <<>>
           two == << <<"text", b.term>> >>
           three == [i \in DOMAIN W |-> <<"text", W[i]>>]
<1>1. W \in Seq(ToSet(W))
  BY DEF SearchConstants
<1>2. Len(W) \in Nat /\ DOMAIN W = 1 .. Len(W) /\ \A i \in 1 .. Len(W) : W[i] \in ToSet(W)
  BY <1>1, InRange
<1>3. three \in Seq(A)
  <2>1. \A i \in 1 .. Len(W) : <<"text", W[i]>> \in A
    BY <1>2
  <2>2. three \in [1 .. Len(W) -> A]
    <3> HIDE DEF A, W
    <3> QED BY <1>2, <2>1
  <2> HIDE DEF three, A
  <2> QED BY <1>2, <2>2, FunIsSeq
<1>4. one \in Seq(A) /\ two \in Seq(A)
  <2>1. <<"category", b.path>> \in A /\ <<"text", b.term>> \in A
    OBVIOUS
  <2> DEFINE x == <<"category", b.path>>
             y == <<"text", b.term>>
  <2>2. x \in A /\ y \in A
    BY <2>1
  <2> HIDE DEF A, x, y
  <2>3. <<x>> \in Seq(A) /\ <<y>> \in Seq(A) /\ <<>> \in Seq(A)
    BY <2>2
  <2> QED BY <2>3 DEF x, y
<1>5. SearchAttempts(b) = (one \o two) \o three
  BY DEF SearchAttempts
<1> HIDE DEF A, one, two, three
<1>6. one \o two \in Seq(A)
  BY <1>4, ConcatProperties
<1>7. (one \o two) \o three \in Seq(A)
  <2> DEFINE z == one \o two
  <2>1. z \in Seq(A)
    BY <1>6
  <2> HIDE DEF z
  <2>2. z \o three \in Seq(A)
    BY <1>3, <2>1, ConcatProperties
  <2> QED BY <2>2 DEF z
<1> QED BY <1>5, <1>7, LenProperties

\* A batch stages records of one of the answers to its attempts.
LEMMA SearchIn ==
    ASSUME SearchConstants, NEW X, NEW b, b.term \in DOMAIN Words, NEW answers, NEW hash,
           \A k \in DOMAIN SearchAttempts(b) : answers[k].list \in Seq(X)
    PROVE  Search(b, answers, hash).sights \subseteq X
<1> DEFINE staged == Staged(b, answers, hash)
           told == {k \in DOMAIN staged : staged[k].raised \/ staged[k].sights # {}}
           least == CHOOSE k \in told : \A j \in told : k <= j
<1>1. Search(b, answers, hash) = IF told = {} THEN Nothing ELSE staged[least]
  BY DEF Search
<1>2. DOMAIN staged = DOMAIN SearchAttempts(b)
  BY DEF Staged
<1>3. ASSUME NEW k \in DOMAIN SearchAttempts(b) PROVE staged[k].sights \subseteq X
  <2>1. staged[k] = Stage(b, SearchAttempts(b)[k], answers[k], hash)
    BY <1>3 DEF Staged
  <2>2. answers[k].list \in Seq(X)
    BY <1>3
  <2> HIDE DEF staged
  <2> QED BY <2>1, <2>2, StageIn
<1>4. CASE told = {}
  BY <1>1, <1>4 DEF Nothing
<1>5. CASE told # {}
  <2>1. told \in SUBSET Nat
    <3>1. PICK n \in Nat : DOMAIN SearchAttempts(b) = 1 .. n
      BY AttemptsOf
    <3>2. told \subseteq DOMAIN SearchAttempts(b)
      BY <1>2
    <3> HIDE DEF told
    <3> QED BY <3>1, <3>2
  <2>2. least \in told
    <3> HIDE DEF told
    <3> QED BY <1>5, <2>1, LeastNat
  <2>3. least \in DOMAIN SearchAttempts(b)
    BY <1>2, <2>2
  <2> HIDE DEF told, least, staged
  <2> QED BY <1>1, <1>3, <1>5, <2>3
<1> QED BY <1>4, <1>5

-----------------------------------------------------------------------------
(* A run's plan, its counts, its hashes.                                    *)

\* The plans a run of this day may have.
Plans == {ResolvePlan(tree, day, TRUE), ResolvePlan(tree, day, FALSE)}

\* A run has a plan of the day; no day begins under a run.
PlanOfRun ==
    /\ pc = "idle" => plan = NoPlan
    /\ pc # "idle" => plan \in Plans

\* Each empty batch is one that was searched, each skipped one was not.
Counted ==
    /\ empty \in Nat /\ skipped \in Nat
    /\ pc = "idle" => next = 1 /\ empty = 0 /\ skipped = 0
    /\ pc = "search" => /\ next \in 1 .. Len(plan.batches) + 1
                        /\ empty <= next - 1 /\ skipped = 0
    /\ pc \in {"read", "write", "judge"} => empty + skipped <= Len(plan.batches)
    /\ pc = "read" => next \in 1 .. Len(plan.batches) + 1
    /\ pc \in {"write", "judge"} => next \in 1 .. Len(RefreshSources) + 1

Hashes == (UNION {Accepts[s] : s \in Shops}) \cup {"none"}
\* Every store's hash, recorded or resolved in this process, is one it accepts.
OwnHashes ==
    /\ resolved \in [Shops -> Hashes]
    /\ \A s \in Shops : /\ resolved[s] \in Accepts[s] \cup {"none"}
                        /\ known[s] \in Accepts[s] \cup {"none"}

RunInv == TypeOK /\ PlanOfRun /\ Counted /\ OwnHashes

Constants == PlanConstants /\ SearchConstants /\ RefreshConstants
\* The assumptions on the constants, in one fact.
LEMMA ConstantsHold == Constants
BY PlanConstants, SearchConstants, RefreshConstants DEF Constants

\* The plan of a run is a sequence of batches.
LEMMA PlanFits ==
    ASSUME PlanConstants, RefreshConstants, tree \in Trees, day \in 0 .. Cycle - 1, PlanOfRun
    PROVE  plan.batches \in Seq(Batches) /\ Len(plan.batches) \in Nat
<1>1. day \in Nat
  <2>1. Cycle \in Nat
    BY DEF RefreshConstants
  <2> QED BY <2>1
<1>2. plan.batches \in Seq(Batches)
  <2>1. CASE pc = "idle"
    <3>1. plan.batches = <<>>
      BY <2>1 DEF PlanOfRun, NoPlan
    <3>2. <<>> \in Seq(Batches)
      OBVIOUS
    <3> QED BY <3>1, <3>2
  <2>2. CASE pc # "idle"
    BY <1>1, <2>2, ResolvedPlan DEF PlanOfRun, Plans
  <2> QED BY <2>1, <2>2
<1> QED BY <1>2, LenProperties

\* The top-up's stores and the cycle are numbers to count to.
LEMMA Lengths ==
    ASSUME RefreshConstants
    PROVE  Len(RefreshSources) \in Nat /\ Cycle \in Nat \ {0}
BY LenProperties DEF RefreshConstants

\* The batch at next is one of the plan, and what it asks has words and answers.
LEMMA BatchIn ==
    ASSUME PlanConstants, RefreshConstants, TypeOK, PlanOfRun, Counted,
           next <= Len(plan.batches), pc = "search"
    PROVE  Batch \in Batches /\ Batch.term \in DOMAIN Words /\ Batch.term \in DOMAIN AnswersTo
<1>1. plan.batches \in Seq(Batches) /\ Len(plan.batches) \in Nat
  BY PlanFits DEF TypeOK
<1>2. next \in 1 .. Len(plan.batches)
  <2> DEFINE n == Len(plan.batches)
  <2>1. n \in Nat /\ next \in 1 .. n + 1 /\ next <= n
    BY <1>1 DEF Counted
  <2> HIDE DEF n
  <2>2. next \in 1 .. n
    BY <2>1
  <2> QED BY <2>2 DEF n
<1>3. Batch \in Batches
  BY <1>1, <1>2, ElementOfSeq DEF Batch
<1>4. ASSUME NEW b \in Batches
      PROVE  b.term \in {c[2] : c \in Categories} \cup {x.term : x \in ToSet(FrozenPlan)}
  <2>1. CASE b \in ToSet(FrozenPlan)
    BY <2>1
  <2>2. CASE b \in Searchable
    <3>1. PICK t \in Trees, c \in Categories :
            b = [source |-> c[1], term |-> c[2], path |-> CategoryPath(t, c[1], c[2]), wide |-> Wide]
      BY <2>2 DEF Searchable
    <3> QED BY <3>1
  <2> QED BY <2>1, <2>2 DEF Batches
<1>5. Batch.term \in {c[2] : c \in Categories} \cup {x.term : x \in ToSet(FrozenPlan)}
  BY <1>3, <1>4
<1> QED BY <1>3, <1>5 DEF RefreshConstants

\* What a search comes to are sights of known offers.
LEMMA ResultsIn ==
    ASSUME SearchConstants, RefreshConstants, NEW b, NEW hash,
           b.term \in DOMAIN Words, b.term \in DOMAIN AnswersTo, NEW r \in Results(b, hash)
    PROVE  r.sights \subseteq Offers \X Sights
<1>1. PICK answers \in [DOMAIN SearchAttempts(b) -> AnswersTo[b.term]] :
          r = Search(b, answers, hash)
  BY DEF Results
<1>2. \A k \in DOMAIN SearchAttempts(b) : answers[k].list \in Seq(Offers \X Sights)
  <2>1. \A a \in AnswersTo[b.term] : a.list \in Seq(Offers \X Sights)
    BY DEF RefreshConstants
  <2> QED BY <1>1, <2>1
<1> QED BY <1>1, <1>2, SearchIn

\* The values of seen.
Looked == {"run", "day", "eve", "old"}
\* Committed rows: what they observe is seen in this run, and only they add a price.
LEMMA ObserveFacts ==
    ASSUME NEW sights, sights \subseteq Offers \X Sights, Observe(sights),
           priced \subseteq Offers, seen \in [Offers -> Looked]
    PROVE  /\ priced' \subseteq Offers /\ seen' \in [Offers -> Looked]
           /\ \A o \in Offers : seen[o] = "run" => seen'[o] = "run"
           /\ \A x \in sights : seen'[x[1]] = "run"
           /\ \A o \in priced' : o \in priced \/ seen'[o] = "run"
<1>1. \A x \in sights : x[1] \in Offers
  OBVIOUS
<1>2. seen' \in [Offers -> Looked] /\ \A o \in Offers : seen[o] = "run" => seen'[o] = "run"
  BY DEF Observe, Looked
<1>3. \A x \in sights : seen'[x[1]] = "run"
  BY <1>1 DEF Observe
<1>4. \A o \in priced' : o \in priced \/ \E x \in sights : o = x[1]
  BY DEF Observe
<1> QED BY <1>1, <1>2, <1>3, <1>4

\* The hash resolved for a batch is one its own store accepts, or none.
LEMMA HashIsAccepted ==
    ASSUME NEW b, NEW accepted \in {Accepts[b.source], {}}, OwnHashes, b.source \in Shops
    PROVE  HashFor(b, accepted) \in Accepts[b.source] \cup {"none"}
<1>1. Discover(Offered[b.source], accepted) \in Accepts[b.source] \cup {"none"}
  BY DEF Discover, Probe
<1>2. ResolveHash(Explicit, known[b.source], accepted, Offered[b.source])
         \in Accepts[b.source] \cup {"none"}
  BY <1>1 DEF ResolveHash, Probe
<1> QED BY <1>2 DEF HashFor, OwnHashes

\* A store's hashes are hashes.
LEMMA HashesOf ==
    \A s \in Shops : Accepts[s] \cup {"none"} \subseteq Hashes
BY DEF Hashes

\* No hash at all is a valid table of hashes.
LEMMA NoHashes ==
    LET none == [s \in Shops |-> "none"]
    IN none \in [Shops -> Hashes] /\ \A s \in Shops : none[s] = "none"
<1>1. "none" \in Hashes
  BY DEF Hashes
<1> QED BY <1>1

\* RunInv at first.
LEMMA InitRun == Init => RunInv
<1> SUFFICES ASSUME Init PROVE RunInv
  OBVIOUS
<1>1. Cycle \in Nat \ {0} /\ Len(RefreshSources) \in Nat
  BY ConstantsHold, Lengths DEF Constants
<1>2. Len(plan.batches) = 0
  BY DEF Init, NoPlan
<1>3. TypeOK
  <2>1. 0 \in 0 .. Cycle - 1
    BY <1>1
  <2>2. next \in 1 .. Len(plan.batches) + Len(RefreshSources) + 1
    BY <1>1, <1>2 DEF Init
  <2>3. empty + skipped <= Len(plan.batches)
    BY <1>2 DEF Init
  <2>4. known \in [Shops -> Hashes]
    BY NoHashes DEF Init
  <2>5. read \in [Offers -> EanAnswers \cup {"none", "due"}]
        /\ gap \in [Categories -> Nat] /\ seen \in [Offers -> {"run", "day", "eve", "old"}]
    BY DEF Init, Unread
  <2> QED BY <2>1, <2>2, <2>3, <2>4, <2>5 DEF Init, TypeOK, Hashes
<1>4. PlanOfRun /\ Counted
  BY DEF Init, PlanOfRun, Counted
<1>5. OwnHashes
  BY NoHashes DEF Init, OwnHashes
<1> QED BY <1>3, <1>4, <1>5 DEF RunInv

\* An aborted run leaves RunInv.
LEMMA ExitsKeepsRun ==
    ASSUME RunInv, Exits
    PROVE  RunInv'
<1>1. Len(RefreshSources) \in Nat
  BY ConstantsHold, Lengths DEF Constants
<1>2. Len(plan'.batches) = 0
  BY DEF Exits, Idle, NoPlan
<1>3. TypeOK'
  <2>1. (next \in 1 .. Len(plan.batches) + Len(RefreshSources) + 1)'
    BY <1>1, <1>2 DEF Exits, Idle
  <2>2. (empty + skipped <= Len(plan.batches))'
    BY <1>2 DEF Exits, Idle
  <2> QED BY <2>1, <2>2 DEF RunInv, TypeOK, Exits, Idle, Unread, clock, database, coverage
<1>4. PlanOfRun' /\ Counted'
  BY DEF Exits, Idle, PlanOfRun, Counted, NoPlan
<1>5. OwnHashes'
  BY NoHashes DEF RunInv, OwnHashes, Exits, Idle, database
<1> QED BY <1>3, <1>4, <1>5 DEF RunInv

\* One lemma per action: each keeps RunInv.
LEMMA UtcMidnightKeepsRun ==
    ASSUME RunInv, UtcMidnight
    PROVE  RunInv'
<1>1. day' \in 0 .. Cycle - 1
  <2>1. day \in Nat /\ day' = (day + 1) % Cycle /\ Cycle \in Nat \ {0}
    BY ConstantsHold, Lengths DEF Constants, RunInv, TypeOK, UtcMidnight
  <2>2. day + 1 \in Nat
    BY <2>1
  <2> QED BY <2>1, <2>2, DivMod
<1>2. TypeOK'
  <2>1. gap' \in [Categories -> Nat]
    BY DEF RunInv, TypeOK, UtcMidnight
  <2> QED BY <1>1, <2>1 DEF RunInv, TypeOK, UtcMidnight, database, counts
<1>3. PlanOfRun' /\ Counted'
  BY DEF RunInv, UtcMidnight, PlanOfRun, Counted, counts
<1>4. OwnHashes'
  BY DEF RunInv, OwnHashes, UtcMidnight, database
<1> QED BY <1>2, <1>3, <1>4 DEF RunInv

\* The local midnight keeps RunInv.
LEMMA LocalMidnightKeepsRun ==
    ASSUME RunInv, LocalMidnight
    PROVE  RunInv'
<1>1. TypeOK'
  <2>1. (seen \in [Offers -> {"run", "day", "eve", "old"}])'
    BY DEF RunInv, TypeOK, LocalMidnight
  <2> QED BY <2>1 DEF RunInv, TypeOK, LocalMidnight, coverage, counts
<1>2. PlanOfRun' /\ Counted'
  BY DEF RunInv, LocalMidnight, PlanOfRun, Counted, counts, Plans
<1>3. OwnHashes'
  BY DEF RunInv, OwnHashes, LocalMidnight
<1> QED BY <1>1, <1>2, <1>3 DEF RunInv

\* A run starts with a plan of its day, from the trees it read or the frozen one.
LEMMA PlanStarted ==
    ASSUME RunInv, StartRun
    PROVE  /\ tree' \in Trees /\ used' \subseteq Trees /\ used \subseteq used'
           /\ \/ plan' = ResolvePlan(tree', day, TRUE) /\ tree' \in used'
              \/ plan' = ResolvePlan(tree', day, FALSE)
           /\ \/ tree' = tree /\ UNCHANGED coverage
              \/ today' = {} /\ whole' = FALSE /\ gap' = [c \in Categories |-> 0]
<1>1. CASE ReadTrees
  <2>1. PICK p \in PlanOfDay :
          /\ p.day = day /\ plan' = p.plan
          /\ tree' = p.tree /\ used' = used \cup {p.tree}
          /\ IF tree' = tree THEN UNCHANGED coverage
             ELSE today' = {} /\ whole' = FALSE /\ gap' = [c \in Categories |-> 0]
    BY <1>1 DEF ReadTrees
  <2>2. PICK t \in Trees, d \in 0 .. Cycle - 1 :
          p = [tree |-> t, day |-> d, plan |-> ResolvePlan(t, d, TRUE)]
    <3> DEFINE Days == 0 .. Cycle - 1
               Entry(t, d) == [tree |-> t, day |-> d, plan |-> ResolvePlan(t, d, TRUE)]
    <3>1. PlanOfDay = {Entry(t, d) : t \in Trees, d \in Days}
      BY DEF PlanOfDay
    <3> HIDE DEF Days, Entry
    <3>2. \E t \in Trees, d \in Days : p = Entry(t, d)
      BY <2>1, <3>1
    <3> QED BY <3>2 DEF Days, Entry
  <2>3. tree' = t /\ plan' = ResolvePlan(t, day, TRUE) /\ used' = used \cup {t}
    BY <2>1, <2>2
  <2> QED BY <2>1, <2>3 DEF RunInv, TypeOK
<1>2. CASE plan' = ResolvePlan(tree, day, FALSE) /\ UNCHANGED <<tree, used, coverage>>
  BY <1>2 DEF RunInv, TypeOK
<1> QED BY <1>1, <1>2 DEF StartRun

\* The start of a run keeps RunInv.
LEMMA StartRunKeepsRun ==
    ASSUME RunInv, StartRun
    PROVE  RunInv'
<1>1. /\ pc' = "search" /\ day' = day /\ next' = 1
      /\ empty' = 0 /\ skipped' = 0
  BY DEF StartRun, RunInv, Counted, clock, counts
<1>2. PlanOfRun' /\ tree' \in Trees
  <2>1. plan' \in Plans'
    BY <1>1, PlanStarted DEF Plans
  <2> QED BY <1>1, <2>1, PlanStarted DEF PlanOfRun
<1>3. Len(RefreshSources) \in Nat /\ Len(plan.batches)' \in Nat
  <2>1. (day \in 0 .. Cycle - 1)'
    BY <1>1 DEF RunInv, TypeOK
  <2> QED BY <1>2, <2>1, ConstantsHold, Lengths, PlanFits DEF Constants
<1>4. TypeOK'
  <2>1. (next \in 1 .. Len(plan.batches) + Len(RefreshSources) + 1)'
    BY <1>1, <1>3
  <2>2. (empty + skipped <= Len(plan.batches))'
    BY <1>1, <1>3
  <2>3. (seen \in [Offers -> {"run", "day", "eve", "old"}])'
    BY DEF RunInv, TypeOK, StartRun
  <2>4. tree' \in Trees /\ used' \subseteq Trees
    BY PlanStarted
  <2>5. (today \subseteq Categories /\ gap \in [Categories -> Nat])'
    <3>1. CASE UNCHANGED coverage
      BY <3>1 DEF coverage, RunInv, TypeOK
    <3>2. CASE today' = {} /\ whole' = FALSE /\ gap' = [c \in Categories |-> 0]
      BY <3>2
    <3> QED BY <3>1, <3>2, PlanStarted
  <2> QED BY <2>1, <2>2, <2>3, <2>4, <2>5 DEF RunInv, TypeOK, StartRun, clock, counts
<1>5. Counted'
  BY <1>1, <1>3 DEF Counted
<1>6. OwnHashes'
  BY DEF RunInv, OwnHashes, StartRun
<1> QED BY <1>2, <1>4, <1>5, <1>6 DEF RunInv

\* What a batch does to the run, whether it replays or searches.
LEMMA BatchStep ==
    ASSUME RunInv, RunBatch
    PROVE  /\ pc = "search" /\ pc' = "search" /\ plan' = plan /\ day' = day /\ late' = late
           /\ next \in 1 .. Len(plan.batches) /\ next' = next + 1
           /\ empty' \in {empty, empty + 1} /\ skipped' = skipped
           /\ Batch \in Batches /\ UNCHANGED <<tree, used, read, snap, published, tried, whole, gap>>
           /\ today \subseteq today' /\ today' \subseteq Categories
           /\ priced' \subseteq Offers /\ seen' \in [Offers -> Looked]
           /\ failed' \in BOOLEAN
           /\ \E accepted \in {Accepts[Batch.source], {}} :
                LET hash == HashFor(Batch, accepted)
                IN /\ resolved' = IF NeedsHash(Batch)
                                  THEN [resolved EXCEPT ![Batch.source] = hash] ELSE resolved
                   /\ known' = known \/ known' = [known EXCEPT ![Batch.source] = hash]
<1>1. /\ pc = "search" /\ pc' = "search" /\ plan' = plan /\ day' = day /\ late' = late
      /\ skipped' = skipped /\ UNCHANGED <<tree, used, read, snap, published, whole, gap>>
      /\ next <= Len(plan.batches)
  BY DEF RunBatch, clock
<1>2. /\ Batch \in Batches /\ Batch.term \in DOMAIN Words /\ Batch.term \in DOMAIN AnswersTo
      /\ Len(plan.batches) \in Nat
  BY <1>1, ConstantsHold, BatchIn, PlanFits DEF RunInv, Constants, TypeOK
<1>3. next \in 1 .. Len(plan.batches)
  <2> DEFINE n == Len(plan.batches)
  <2>1. n \in Nat /\ next \in 1 .. n + 1 /\ next <= n
    BY <1>1, <1>2 DEF RunInv, Counted
  <2> HIDE DEF n
  <2>2. next \in 1 .. n
    BY <2>1
  <2> QED BY <2>2 DEF n
<1>4. PICK accepted \in {Accepts[Batch.source], {}} :
          ReplayBatch(Batch, HashFor(Batch, accepted)) \/ SearchBatch(Batch, HashFor(Batch, accepted))
  BY DEF RunBatch
<1> DEFINE hash == HashFor(Batch, accepted)
<1> HIDE DEF hash
<1>5. ReplayBatch(Batch, hash) \/ SearchBatch(Batch, hash)
  BY <1>4 DEF hash
<1>6. Goes(Batch, hash)
  BY <1>5 DEF ReplayBatch, SearchBatch
<1>7. today \subseteq Categories /\ failed \in BOOLEAN /\ priced \subseteq Offers
      /\ seen \in [Offers -> Looked]
  BY DEF RunInv, TypeOK, Looked
<1>8. CASE ReplayBatch(Batch, hash)
  <2>1. UNCHANGED <<priced, seen, known, empty, tried>>
    BY <1>8 DEF ReplayBatch, database
  <2>2. today \subseteq today' /\ today' \subseteq Categories /\ failed' \in BOOLEAN
    BY <1>7, <1>8 DEF ReplayBatch, Searched
  <2>3. next' = next + 1 /\ resolved' = IF NeedsHash(Batch)
                                  THEN [resolved EXCEPT ![Batch.source] = hash] ELSE resolved
    BY <1>6 DEF Goes
  <2> QED BY <1>1, <1>2, <1>3, <1>7, <2>1, <2>2, <2>3 DEF hash
<1>9. CASE SearchBatch(Batch, hash)
  <2>1. tried' = tried /\ today \subseteq today' /\ today' \subseteq Categories
        /\ known' \in {known, [known EXCEPT ![Batch.source] = hash]}
    BY <1>7, <1>9 DEF SearchBatch, Searched
  <2>2. next' = next + 1 /\ resolved' = IF NeedsHash(Batch)
                                  THEN [resolved EXCEPT ![Batch.source] = hash] ELSE resolved
    BY <1>6 DEF Goes
  <2>3. PICK r \in Results(Batch, hash), end \in {"completed", "rolled back", "unacknowledged"} :
          /\ IF r.sights = {} /\ ~r.raised /\ plan.mode = "discovered"
             THEN empty' = empty + 1 /\ UNCHANGED failed
             ELSE /\ failed' = (failed \/ end # "completed")
                  /\ UNCHANGED empty
          /\ IF end = "rolled back" THEN UNCHANGED <<priced, seen>>
             ELSE Observe(Admitted(r.sights))
    BY <1>9 DEF SearchBatch
  <2>4. empty' \in {empty, empty + 1} /\ failed' \in BOOLEAN
    BY <1>7, <2>3
  <2>5. Admitted(r.sights) \subseteq Offers \X Sights
    BY <1>2, ConstantsHold, ResultsIn DEF Constants, Admitted
  <2>6. priced' \subseteq Offers /\ seen' \in [Offers -> Looked]
    BY <1>7, <2>3, <2>5, ObserveFacts
  <2> QED BY <1>1, <1>2, <1>3, <2>1, <2>2, <2>4, <2>6 DEF hash
<1> QED BY <1>5, <1>8, <1>9

\* A batch keeps RunInv.
LEMMA RunBatchKeepsRun ==
    ASSUME RunInv, RunBatch
    PROVE  RunInv'
<1> DEFINE n == Len(plan.batches)
<1>1. n \in Nat /\ Len(RefreshSources) \in Nat
  BY ConstantsHold, PlanFits, Lengths DEF RunInv, Constants, TypeOK
<1>2. /\ pc = "search" /\ pc' = "search" /\ plan' = plan /\ day' = day
      /\ next \in 1 .. n /\ next' = next + 1
      /\ empty' \in {empty, empty + 1} /\ skipped' = skipped /\ late' = late
      /\ UNCHANGED <<tree, used>>
  BY BatchStep
<1>3. Len(plan.batches)' = n
  BY <1>2
<1>4. empty \in Nat /\ empty <= next - 1 /\ skipped = 0
  BY <1>2 DEF RunInv, Counted
<1>5. empty' \in Nat /\ empty' <= next' - 1 /\ next' \in 1 .. n + 1 /\ skipped' = 0
      /\ empty' + skipped' <= n /\ next' \in 1 .. n + Len(RefreshSources) + 1
  <2> DEFINE m == Len(RefreshSources)
  <2> HIDE DEF n, m
  <2>1. /\ n \in Nat /\ m \in Nat /\ next \in 1 .. n /\ next' = next + 1
        /\ empty' = empty \/ empty' = empty + 1
    BY <1>1, <1>2 DEF m
  <2>2. next' \in 1 .. n + 1 /\ next' \in 1 .. n + m + 1 /\ skipped' = 0
    BY <1>2, <1>4, <2>1
  <2>3. empty' \in Nat /\ empty' <= next' - 1 /\ empty' + skipped' <= n
    BY <1>4, <2>1, <2>2
  <2> QED BY <2>2, <2>3 DEF m
<1> HIDE DEF n
<1>6. TypeOK'
  <2>1. (next \in 1 .. Len(plan.batches) + Len(RefreshSources) + 1)'
        /\ (empty + skipped <= Len(plan.batches))'
    BY <1>3, <1>5
  <2>2. known' \in [Shops -> Hashes]
    <3>1. known \in [Shops -> Hashes]
      BY DEF RunInv, TypeOK, Hashes
    <3>2. PICK accepted \in {Accepts[Batch.source], {}} :
            known' = known \/ known' = [known EXCEPT ![Batch.source] = HashFor(Batch, accepted)]
      BY BatchStep
    <3> DEFINE hash == HashFor(Batch, accepted)
    <3>3. Batch.source \in Shops => hash \in Hashes
      BY HashIsAccepted, HashesOf DEF RunInv
    <3> HIDE DEF hash, Hashes
    <3>4. known' = known \/ known' = [known EXCEPT ![Batch.source] = hash]
      BY <3>2 DEF hash
    <3> QED BY <3>1, <3>3, <3>4
  <2>3. /\ priced' \subseteq Offers /\ seen' \in [Offers -> Looked] /\ failed' \in BOOLEAN
        /\ today' \subseteq Categories
        /\ read' = read /\ snap' = snap /\ tried' = tried /\ published' = published /\ gap' = gap
    BY BatchStep
  <2> QED BY <1>2, <2>1, <2>2, <2>3 DEF RunInv, TypeOK, Looked, Hashes
<1>7. PlanOfRun'
  BY <1>2 DEF RunInv, PlanOfRun, Plans
<1>8. Counted'
  BY <1>2, <1>3, <1>5 DEF Counted
<1>9. OwnHashes'
  <2>1. PICK accepted \in {Accepts[Batch.source], {}} :
          /\ \/ resolved' = resolved
             \/ resolved' = [resolved EXCEPT ![Batch.source] = HashFor(Batch, accepted)]
          /\ known' = known \/ known' = [known EXCEPT ![Batch.source] = HashFor(Batch, accepted)]
    BY BatchStep
  <2> DEFINE hash == HashFor(Batch, accepted)
  <2>2. Batch.source \in Shops => hash \in Accepts[Batch.source] \cup {"none"}
    BY HashIsAccepted DEF RunInv
  <2> HIDE DEF hash
  <2>3. /\ resolved' = resolved \/ resolved' = [resolved EXCEPT ![Batch.source] = hash]
        /\ known' = known \/ known' = [known EXCEPT ![Batch.source] = hash]
    BY <2>1 DEF hash
  <2>4. /\ resolved \in [Shops -> Hashes] /\ known \in [Shops -> Hashes]
        /\ \A s \in Shops : /\ resolved[s] \in Accepts[s] \cup {"none"}
                            /\ known[s] \in Accepts[s] \cup {"none"}
    BY DEF RunInv, OwnHashes, TypeOK, Hashes
  <2>5. Batch.source \in Shops => hash \in Hashes
    BY <2>2, HashesOf
  <2>6. resolved' \in [Shops -> Hashes]
    <3> HIDE DEF Hashes
    <3> QED BY <2>3, <2>4, <2>5
  <2>7. ASSUME NEW s \in Shops
        PROVE  /\ resolved'[s] \in Accepts[s] \cup {"none"}
               /\ known'[s] \in Accepts[s] \cup {"none"}
    <3> HIDE DEF Hashes
    <3> QED BY <2>2, <2>3, <2>4
  <2> QED BY <2>6, <2>7 DEF OwnHashes, Hashes
<1> QED BY <1>6, <1>7, <1>8, <1>9 DEF RunInv

\* The end of the searches keeps RunInv.
LEMMA EndSearchesKeepsRun ==
    ASSUME RunInv, EndSearches
    PROVE  RunInv'
<1> DEFINE n == Len(plan.batches)
           m == Len(RefreshSources)
<1>1. n \in Nat /\ m \in Nat
  BY ConstantsHold, PlanFits, Lengths DEF RunInv, Constants, TypeOK
<1>2. /\ pc = "search" /\ pc' = "read" /\ UNCHANGED <<plan, tree, used, day, late>>
      /\ next' = next /\ empty' = empty /\ skipped' = n - (next - 1)
  BY DEF EndSearches, clock
<1>3. next \in 1 .. n + 1 /\ empty \in Nat /\ empty <= next - 1
  BY <1>2 DEF RunInv, Counted
<1>4. Len(plan.batches)' = n
  BY <1>2
<1> HIDE DEF n, m
<1>5. /\ skipped' \in Nat /\ empty' + skipped' <= n /\ empty' \in Nat
      /\ next' \in 1 .. n + 1 /\ next' \in 1 .. n + m + 1
  BY <1>1, <1>2, <1>3
<1>6. TypeOK'
  <2>1. (next \in 1 .. Len(plan.batches) + Len(RefreshSources) + 1)'
        /\ (empty + skipped <= Len(plan.batches))'
    BY <1>4, <1>5 DEF m
  <2>2. read' \in [Offers -> EanAnswers \cup {"none", "due"}]
    BY DEF EndSearches
  <2> QED BY <1>2, <2>1, <2>2 DEF EndSearches, RunInv, TypeOK, clock, database
<1>7. PlanOfRun'
  BY <1>2 DEF RunInv, PlanOfRun, Plans
<1>8. Counted'
  BY <1>2, <1>4, <1>5 DEF Counted
<1>9. OwnHashes'
  BY DEF RunInv, OwnHashes, EndSearches, database
<1> QED BY <1>6, <1>7, <1>8, <1>9 DEF RunInv

\* The top-up's reads keep RunInv.
LEMMA ReadSourcesKeepsRun ==
    ASSUME RunInv, ReadSources
    PROVE  RunInv'
<1> DEFINE n == Len(plan.batches)
           m == Len(RefreshSources)
<1>1. n \in Nat /\ m \in Nat
  BY ConstantsHold, PlanFits, Lengths DEF RunInv, Constants, TypeOK
<1>2. /\ pc = "read" /\ pc' = "write" /\ UNCHANGED <<plan, tree, used, day, late>>
      /\ next' = 1 /\ empty' = empty /\ skipped' = skipped
  BY DEF ReadSources, clock, counts
<1>3. empty + skipped <= n /\ empty \in Nat /\ skipped \in Nat
  BY <1>2 DEF RunInv, Counted
<1>4. Len(plan.batches)' = n
  BY <1>2
<1> HIDE DEF n, m
<1>5. 1 \in 1 .. n + m + 1 /\ 1 \in 1 .. m + 1
  BY <1>1
<1>6. TypeOK'
  <2>1. (next \in 1 .. Len(plan.batches) + Len(RefreshSources) + 1)'
        /\ (empty + skipped <= Len(plan.batches))'
    BY <1>2, <1>3, <1>4, <1>5 DEF m
  <2>2. PICK answer \in [{o \in Offers : read[o] = "due"} -> EanAnswers] :
          /\ read' = [o \in Offers |-> IF o \in DOMAIN answer THEN answer[o] ELSE read[o]]
          /\ tried' = tried \cup {o \in DOMAIN answer : answer[o] = "failed"}
    BY DEF ReadSources
  <2>3. read \in [Offers -> EanAnswers \cup {"none", "due"}] /\ tried \subseteq Offers
    BY DEF RunInv, TypeOK
  <2>4. read' \in [Offers -> EanAnswers \cup {"none", "due"}] /\ tried' \subseteq Offers
    BY <2>2, <2>3
  <2> QED BY <1>2, <2>1, <2>4 DEF ReadSources, RunInv, TypeOK, clock, database, counts, coverage
<1>7. PlanOfRun'
  BY <1>2 DEF RunInv, PlanOfRun, Plans
<1>8. Counted'
  BY <1>2, <1>3, <1>4, <1>5 DEF Counted, m
<1>9. OwnHashes'
  BY DEF RunInv, OwnHashes, ReadSources, database
<1> QED BY <1>6, <1>7, <1>8, <1>9 DEF RunInv

\* The rows the top-up writes for one store, and what is refused of them.
LEMMA WriteSourceFacts ==
    ASSUME RunInv, WriteSource
    PROVE  /\ priced' \subseteq Offers /\ seen' \in [Offers -> Looked] /\ tried' \subseteq Offers
           /\ tried \subseteq tried'
           /\ \A o \in Offers : seen[o] = "run" => seen'[o] = "run"
           /\ \A o \in priced' : o \in priced \/ seen'[o] = "run"
           /\ \A o \in Offers :
                StoreOf[o] = RefreshSources[next] /\ read[o] \notin {"none", "failed"} =>
                  seen'[o] = "run" \/ o \in tried'
           /\ \A o \in Offers : o \in priced /\ o \notin priced' =>
                read[o] \notin {"none", "failed", "priced"}
<1> DEFINE s == RefreshSources[next]
<1>1. PICK spikes \in SUBSET {x \in TopUpRows(s) : x[2] = "priced"} :
          /\ Observe(TopUpRows(s) \ spikes)
          /\ tried' = tried \cup {x[1] : x \in spikes}
  BY DEF WriteSource
<1> HIDE DEF s
<1>2. TopUpRows(s) \subseteq Offers \X Sights
  BY DEF TopUpRows, Reads, Sights
<1> DEFINE rows == TopUpRows(s) \ spikes
<1>3. rows \subseteq Offers \X Sights /\ Observe(rows)
  BY <1>1, <1>2
<1>4. priced \subseteq Offers /\ seen \in [Offers -> Looked] /\ tried \subseteq Offers
  BY DEF RunInv, TypeOK, Looked
<1>5. /\ priced' \subseteq Offers /\ seen' \in [Offers -> Looked]
      /\ \A o \in Offers : seen[o] = "run" => seen'[o] = "run"
      /\ \A x \in rows : seen'[x[1]] = "run"
      /\ \A o \in priced' : o \in priced \/ seen'[o] = "run"
  <2> HIDE DEF rows
  <2> QED BY <1>3, <1>4, ObserveFacts
<1>6. tried' \subseteq Offers /\ tried \subseteq tried'
  BY <1>1, <1>2, <1>4
<1>7. ASSUME NEW o \in Offers, StoreOf[o] = s, read[o] \notin {"none", "failed"}
      PROVE  seen'[o] = "run" \/ o \in tried'
  <2> DEFINE x == <<o, IF read[o] = "priced" THEN "priced" ELSE "soldout">>
  <2>1. x \in TopUpRows(s) /\ x[1] = o
    BY <1>7 DEF TopUpRows, Reads, ReadsFailed
  <2> HIDE DEF x
  <2>2. CASE x \in spikes
    BY <1>1, <2>1, <2>2
  <2>3. CASE x \notin spikes
    BY <1>5, <2>1, <2>3
  <2> QED BY <2>2, <2>3
<1>8. ASSUME NEW o \in Offers, o \in priced, o \notin priced'
      PROVE  read[o] \notin {"none", "failed", "priced"}
  <2>1. PICK x \in rows : x[2] = "soldout" /\ x[1] = o
    <3> HIDE DEF rows
    <3> QED BY <1>3, <1>8 DEF Observe
  <2>2. PICK p \in Reads(s) \ ReadsFailed(s) :
          x = <<p, IF read[p] = "priced" THEN "priced" ELSE "soldout">>
    BY <2>1 DEF TopUpRows
  <2>3. p = o /\ read[p] # "priced"
    BY <2>1, <2>2
  <2> QED BY <2>2, <2>3 DEF Reads, ReadsFailed
<1> QED BY <1>5, <1>6, <1>7, <1>8 DEF s

\* A write of the top-up keeps RunInv.
LEMMA WriteSourceKeepsRun ==
    ASSUME RunInv, WriteSource
    PROVE  RunInv'
<1> DEFINE n == Len(plan.batches)
           m == Len(RefreshSources)
<1>1. n \in Nat /\ m \in Nat
  BY ConstantsHold, PlanFits, Lengths DEF RunInv, Constants, TypeOK
<1>2. /\ pc = "write" /\ pc' = "write" /\ UNCHANGED <<plan, tree, used, day, late>>
      /\ next' = next + 1 /\ empty' = empty /\ skipped' = skipped /\ next <= m
  BY DEF WriteSource, clock, counts
<1>3. empty + skipped <= n /\ empty \in Nat /\ skipped \in Nat /\ next \in 1 .. m + 1
  BY <1>2 DEF RunInv, Counted
<1>4. Len(plan.batches)' = n
  BY <1>2
<1> HIDE DEF n, m
<1>5. next' \in 1 .. n + m + 1 /\ next' \in 1 .. m + 1
  BY <1>1, <1>2, <1>3
<1>6. TypeOK'
  <2>1. (next \in 1 .. Len(plan.batches) + Len(RefreshSources) + 1)'
        /\ (empty + skipped <= Len(plan.batches))'
    BY <1>2, <1>3, <1>4, <1>5 DEF m
  <2>2. priced' \subseteq Offers /\ seen' \in [Offers -> Looked] /\ tried' \subseteq Offers
    BY WriteSourceFacts
  <2> QED BY <1>2, <2>1, <2>2
          DEF WriteSource, RunInv, TypeOK, Looked, clock, counts, coverage
<1>7. PlanOfRun'
  BY <1>2 DEF RunInv, PlanOfRun, Plans
<1>8. Counted'
  BY <1>2, <1>3, <1>4, <1>5 DEF Counted, m
<1>9. OwnHashes'
  BY DEF RunInv, OwnHashes, WriteSource
<1> QED BY <1>6, <1>7, <1>8, <1>9 DEF RunInv

\* The export keeps RunInv.
LEMMA ExportKeepsRun ==
    ASSUME RunInv, Export
    PROVE  RunInv'
<1>1. TypeOK'
  BY DEF Export, RunInv, TypeOK, clock, database, counts, coverage
<1>2. PlanOfRun' /\ OwnHashes'
  BY DEF Export, RunInv, PlanOfRun, Plans, OwnHashes, clock, database
<1>3. Counted'
  BY DEF Export, RunInv, Counted, counts
<1> QED BY <1>1, <1>2, <1>3 DEF RunInv

\* The verdict keeps RunInv.
LEMMA JudgeKeepsRun ==
    ASSUME RunInv, Judge
    PROVE  RunInv'
<1>1. Len(RefreshSources) \in Nat
  BY ConstantsHold, Lengths DEF Constants
<1>2. Len(plan'.batches) = 0
  BY DEF Judge, Idle, NoPlan
<1>3. TypeOK'
  <2>1. (next \in 1 .. Len(plan.batches) + Len(RefreshSources) + 1)'
    BY <1>1, <1>2 DEF Judge, Idle
  <2>2. (empty + skipped <= Len(plan.batches))'
    BY <1>2 DEF Judge, Idle
  <2>3. PICK early \in BOOLEAN : published' = Gates(early)
    BY DEF Judge
  <2>4. Gates(early) \in BOOLEAN
    BY DEF Gates, FreshEnough, ReadsHold
  <2>5. snap' \subseteq Offers /\ tried' \subseteq Offers
    BY DEF Judge, RunInv, TypeOK
  <2>6. published' \in BOOLEAN
    BY <2>3, <2>4
  <2> QED BY <2>1, <2>2, <2>5, <2>6
          DEF Judge, RunInv, TypeOK, Idle, Unread, clock, database, coverage
<1>4. PlanOfRun' /\ Counted'
  BY DEF Judge, Idle, PlanOfRun, Counted, NoPlan
<1>5. OwnHashes'
  BY NoHashes DEF RunInv, OwnHashes, Judge, Idle, database
<1> QED BY <1>3, <1>4, <1>5 DEF RunInv

\* Every step keeps RunInv.
LEMMA StepsKeepRun ==
    ASSUME RunInv, [Next]_vars
    PROVE  RunInv'
<1>1. CASE UNCHANGED vars
  BY <1>1 DEF vars, clock, database, counts, coverage, RunInv, TypeOK, PlanOfRun, Plans,
             Counted, OwnHashes
<1>2. CASE HashUnavailable \/ WriteFails \/ Die
  BY <1>2, ExitsKeepsRun DEF HashUnavailable, WriteFails, Die
<1> QED BY <1>1, <1>2, UtcMidnightKeepsRun, LocalMidnightKeepsRun, StartRunKeepsRun,
           RunBatchKeepsRun, EndSearchesKeepsRun, ReadSourcesKeepsRun, WriteSourceKeepsRun,
           ExportKeepsRun, JudgeKeepsRun DEF Next, Step

\* RunInv is an invariant.
LEMMA RunInvHolds == Spec => []RunInv
BY InitRun, StepsKeepRun, PTL DEF Spec

-----------------------------------------------------------------------------
(* What is published.                                                       *)

\* o was looked at in this run.
Attempted(o) == seen[o] = "run" \/ o \in tried

\* The answer of o is known and its store is still to be written.
Pending(o) ==
    /\ read[o] \in {"priced", "gone"}
    /\ \E i \in 1 .. Len(RefreshSources) : i >= next /\ RefreshSources[i] = StoreOf[o]

\* What the top-up knows of each priced offer, phase by phase.
TopUpInv ==
    /\ pc = "read" => \A o \in Offers : read[o] = IF Unobserved(o) THEN "due" ELSE "none"
    /\ pc \in {"write", "judge"} => \A o \in Offers : read[o] # "due"
    /\ pc = "write" => \A o \in priced : Attempted(o) \/ Pending(o)
    /\ pc = "judge" => /\ \A o \in priced : Attempted(o)
                       /\ snap = {o \in priced : StoreOf[o] \in Shops}
    /\ published => pc = "idle"

PublishInv == TopUpInv /\ PublishedIsAttempted /\ PublishedStoreIsFresh

\* Nothing is asked of a catalog that is not published.
LEMMA UnpublishedIsFine ==
    ASSUME ~published
    PROVE  PublishedIsAttempted /\ PublishedStoreIsFresh
BY DEF PublishedIsAttempted, PublishedStoreIsFresh

\* An aborted run publishes nothing new.
LEMMA ExitsKeepsPublish ==
    ASSUME PublishInv, Exits
    PROVE  PublishInv'
<1>1. pc' = "idle" /\ snap' = {} /\ published' = published
  BY DEF Exits, Idle
<1>2. TopUpInv'
  BY <1>1 DEF TopUpInv
<1>3. PublishedIsAttempted'
  BY <1>1 DEF PublishedIsAttempted
<1>4. pc # "idle" => ~published
  BY DEF PublishInv, TopUpInv
<1>5. PublishedStoreIsFresh'
  <2>1. seen' = seen /\ published' = published /\ snap' = {}
    BY DEF Exits, Idle, database
  <2>2. ASSUME NEW s \in Shops
        PROVE  2000 * Cardinality({o \in {x \in snap' : StoreOf[x] = s} : seen'[o] # "old"})
                  >= (20 * FreshnessFloor - 1) * Cardinality({x \in snap' : StoreOf[x] = s})
    <3>1. {x \in snap' : StoreOf[x] = s} = {}
          /\ {o \in {x \in snap' : StoreOf[x] = s} : seen'[o] # "old"} = {}
      BY <2>1
    <3>2. Cardinality({}) = 0 /\ FreshnessFloor \in Nat
      BY ConstantsHold, FS_EmptySet DEF Constants, RefreshConstants
    <3>3. 2000 * 0 >= (20 * FreshnessFloor - 1) * 0
      BY <3>2
    <3> QED BY <3>1, <3>2, <3>3
  <2> QED BY <2>2 DEF PublishedStoreIsFresh
<1> QED BY <1>2, <1>3, <1>5 DEF PublishInv

\* The top-up is due exactly the unobserved offers.
LEMMA EndSearchesKeepsPublish ==
    ASSUME RunInv, PublishInv, EndSearches
    PROVE  PublishInv'
<1>1. pc = "search" /\ pc' = "read" /\ UNCHANGED <<priced, seen, published>>
  BY DEF EndSearches, database
<1>2. ~published'
  BY <1>1 DEF PublishInv, TopUpInv
<1>3. \A o \in Offers : read'[o] = IF Unobserved(o)' THEN "due" ELSE "none"
  BY <1>1 DEF EndSearches, Unobserved
<1> QED BY <1>1, <1>2, <1>3, UnpublishedIsFine
        DEF PublishInv, TopUpInv, PublishedIsAttempted, PublishedStoreIsFresh

\* After the reads every priced offer was attempted or its answer waits to be written.
LEMMA ReadSourcesKeepsPublish ==
    ASSUME RunInv, PublishInv, ReadSources
    PROVE  PublishInv'
<1>1. pc = "read" /\ pc' = "write" /\ next' = 1 /\ UNCHANGED <<priced, seen, published>>
  BY DEF ReadSources, database
<1>2. ~published'
  BY <1>1 DEF PublishInv, TopUpInv
<1>3. PICK answer \in [{o \in Offers : read[o] = "due"} -> EanAnswers] :
        /\ read' = [o \in Offers |-> IF o \in DOMAIN answer THEN answer[o] ELSE read[o]]
        /\ tried' = tried \cup {o \in DOMAIN answer : answer[o] = "failed"}
  BY DEF ReadSources
<1>4. \A o \in Offers : read'[o] # "due"
  <2>1. \A o \in Offers : IF read[o] = "due" THEN read'[o] \in EanAnswers ELSE read'[o] = read[o]
    BY <1>3
  <2> QED BY <2>1 DEF EanAnswers
<1>5. ASSUME NEW o \in priced PROVE Attempted(o)' \/ Pending(o)'
  <2>1. o \in Offers /\ priced' = priced /\ seen' = seen
    BY <1>1 DEF RunInv, TypeOK
  <2>2. CASE seen[o] = "run"
    BY <2>1, <2>2 DEF Attempted
  <2>3. CASE seen[o] # "run"
    <3>1. read[o] = "due"
      BY <1>1, <2>1, <2>3 DEF PublishInv, TopUpInv, Unobserved
    <3>2. read'[o] \in EanAnswers /\ (read'[o] = "failed" => o \in tried')
      BY <1>3, <2>1, <3>1
    <3>3. CASE read'[o] = "failed"
      BY <3>2, <3>3 DEF Attempted
    <3>4. CASE read'[o] # "failed"
      <4>1. PICK i \in 1 .. Len(RefreshSources) : RefreshSources[i] = StoreOf[o]
        <5>1. StoreOf[o] \in ToSet(RefreshSources)
          BY <2>1, ConstantsHold DEF Constants, RefreshConstants
        <5>2. DOMAIN RefreshSources = 1 .. Len(RefreshSources)
          BY ConstantsHold, LenProperties DEF Constants, RefreshConstants
        <5> QED BY <5>1, <5>2 DEF ToSet
      <4>2. i >= next'
        <5>1. Len(RefreshSources) \in Nat
          BY ConstantsHold, Lengths DEF Constants
        <5> QED BY <1>1, <5>1
      <4> QED BY <3>2, <3>4, <4>1, <4>2 DEF Pending, EanAnswers
    <3> QED BY <3>3, <3>4
  <2> QED BY <2>2, <2>3
<1>6. TopUpInv'
  BY <1>1, <1>2, <1>4, <1>5 DEF TopUpInv
<1> QED BY <1>2, <1>6 DEF PublishInv, PublishedIsAttempted, PublishedStoreIsFresh

\* Writing a store settles the answers that waited for it.
LEMMA WriteSourceKeepsPublish ==
    ASSUME RunInv, PublishInv, WriteSource
    PROVE  PublishInv'
<1>1. pc = "write" /\ pc' = "write" /\ next' = next + 1 /\ UNCHANGED <<read, published>>
  BY DEF WriteSource
<1>2. ~published'
  BY <1>1 DEF PublishInv, TopUpInv
<1>3. ASSUME NEW o \in priced' PROVE Attempted(o)' \/ Pending(o)'
  <2>1. o \in Offers /\ tried \subseteq tried' /\ (seen[o] = "run" => seen'[o] = "run")
        /\ (o \in priced \/ seen'[o] = "run")
    BY WriteSourceFacts
  <2>2. CASE o \notin priced \/ Attempted(o)
    BY <2>1, <2>2 DEF Attempted
  <2>3. CASE o \in priced /\ ~Attempted(o)
    <3>1. Pending(o)
      BY <1>1, <2>3 DEF PublishInv, TopUpInv
    <3>2. PICK i \in 1 .. Len(RefreshSources) : i >= next /\ RefreshSources[i] = StoreOf[o]
      BY <3>1 DEF Pending
    <3>3. CASE i = next
      <4>1. StoreOf[o] = RefreshSources[next] /\ read[o] \notin {"none", "failed"}
        BY <3>1, <3>2, <3>3 DEF Pending
      <4> QED BY <2>1, <4>1, WriteSourceFacts DEF Attempted
    <3>4. CASE i # next
      <4>1. i \in Nat /\ next \in Nat
        <5>1. next \in 1 .. Len(RefreshSources) + 1 /\ Len(RefreshSources) \in Nat
          BY <1>1, ConstantsHold, Lengths DEF Constants, RunInv, Counted
        <5> QED BY <5>1
      <4>2. i >= next'
        BY <1>1, <3>2, <3>4, <4>1
      <4> QED BY <1>1, <3>1, <3>2, <4>2 DEF Pending
    <3> QED BY <3>3, <3>4
  <2> QED BY <2>2, <2>3
<1>4. TopUpInv'
  BY <1>1, <1>2, <1>3 DEF TopUpInv, PublishInv
<1> QED BY <1>2, <1>4 DEF PublishInv, PublishedIsAttempted, PublishedStoreIsFresh

\* After the last store nothing waits: the snapshot's offers were all attempted.
LEMMA ExportKeepsPublish ==
    ASSUME RunInv, PublishInv, Export
    PROVE  PublishInv'
<1>1. /\ pc = "write" /\ pc' = "judge" /\ snap' = {o \in priced : StoreOf[o] \in Shops}
      /\ next > Len(RefreshSources) /\ UNCHANGED <<priced, seen, read, tried, published>>
  BY DEF Export, database
<1>2. ~published'
  BY <1>1 DEF PublishInv, TopUpInv
<1>3. ASSUME NEW o \in priced PROVE Attempted(o)
  <2>1. ~Pending(o)
    <3>1. next \in Nat /\ Len(RefreshSources) \in Nat
      <4>1. next \in 1 .. Len(RefreshSources) + 1 /\ Len(RefreshSources) \in Nat
        BY <1>1, ConstantsHold, Lengths DEF Constants, RunInv, Counted
      <4> QED BY <4>1
    <3> QED BY <1>1, <3>1 DEF Pending
  <2> QED BY <1>1, <2>1 DEF PublishInv, TopUpInv
<1>4. TopUpInv'
  BY <1>1, <1>2, <1>3 DEF TopUpInv, PublishInv, Attempted
<1> QED BY <1>2, <1>4 DEF PublishInv, PublishedIsAttempted, PublishedStoreIsFresh

\* A product with a larger factor is not smaller.
LEMMA TimesMore ==
    ASSUME NEW n \in Nat, NEW p \in Nat, NEW q \in Nat, p <= q
    PROVE  n * p <= n * q
<1> DEFINE d == q - p
           x == n * p
           y == n * d
<1>1. d \in Nat /\ q = p + d
  OBVIOUS
<1> HIDE DEF d
<1>2. x \in Nat /\ y \in Nat /\ n * q = x + y
  BY <1>1
<1> HIDE DEF x, y
<1> QED BY <1>2 DEF x

\* A percentage that rounds to at least f falls short of it by half a tenth at most.
LEMMA RoundedTenths ==
    ASSUME NEW a \in Nat, NEW n \in Nat \ {0}, NEW f \in Nat, Tenths(a, n) >= 10 * f
    PROVE  2000 * a >= (20 * f - 1) * n
<1> DEFINE w == 2 * n
           x == 2000 * a + n
           q == x \div w
           b == w * q
           g == f * n
<1>1. w \in Nat \ {0} /\ x \in Nat /\ g \in Nat
  OBVIOUS
<1>2. q >= 10 * f
  BY DEF Tenths
<1>3. q \in Nat /\ x % w \in Nat /\ x = b + (x % w)
  <2> HIDE DEF w, x
  <2>1. x % w \in 0 .. w - 1 /\ x \div w \in Nat /\ x = w * (x \div w) + (x % w)
    BY <1>1, DivMod
  <2> QED BY <1>1, <2>1
<1>4. w * (10 * f) <= b
  <2> HIDE DEF w, q
  <2>1. 10 * f \in Nat
    OBVIOUS
  <2> QED BY <1>1, <1>2, <1>3, <2>1, TimesMore
<1>5. w * (10 * f) = 20 * g /\ (20 * f - 1) * n = 20 * g - n
  OBVIOUS
<1>6. b \in Nat
  <2> HIDE DEF w, q
  <2> QED BY <1>1, <1>3
<1> DEFINE m == x % w
<1>7. 2000 * a + n = b + m /\ 20 * g <= b /\ m \in Nat
  BY <1>3, <1>4, <1>5
<1> HIDE DEF b, g, m, w, q
<1>8. 2000 * a >= 20 * g - n
  BY <1>1, <1>6, <1>7
<1> QED BY <1>5, <1>8

\* A run that publishes has passed the freshness gate on what the snapshot shows.
LEMMA JudgeKeepsPublish ==
    ASSUME RunInv, PublishInv, Judge
    PROVE  PublishInv'
<1>1. pc = "judge" /\ pc' = "idle" /\ UNCHANGED <<priced, seen>>
  BY DEF Judge, Idle, database
<1>2. TopUpInv'
  BY <1>1 DEF TopUpInv
<1>3. CASE ~published'
  BY <1>2, <1>3 DEF PublishInv, PublishedIsAttempted, PublishedStoreIsFresh
<1>4. CASE published'
  <2>1. snap' = snap /\ tried' = tried
    BY <1>4 DEF Judge
  <2>2. PublishedIsAttempted'
    BY <1>1, <2>1 DEF PublishInv, TopUpInv, PublishedIsAttempted, Attempted
  <2>3. PICK early \in BOOLEAN : FreshEnough(early)
    BY <1>4 DEF Judge, Gates
  <2>4. ASSUME NEW s \in Shops
        PROVE  2000 * Cardinality({o \in {x \in snap : StoreOf[x] = s} : seen[o] # "old"})
                  >= (20 * FreshnessFloor - 1) * Cardinality({x \in snap : StoreOf[x] = s})
    <3> DEFINE U == {x \in snap : StoreOf[x] = s}
               A == {o \in U : Under24h(o, early)}
               B == {o \in U : seen[o] # "old"}
    <3>1. U = OffersOf(s)
      BY <1>1 DEF PublishInv, TopUpInv, OffersOf
    <3>2. U # {} => Tenths(Cardinality(A), Cardinality(U)) >= 10 * FreshnessFloor
      BY <2>3, <3>1 DEF FreshEnough
    <3>3. IsFiniteSet(U)
      <4>1. U \subseteq Offers /\ IsFiniteSet(Offers)
        BY ConstantsHold DEF Constants, RefreshConstants, RunInv, TypeOK
      <4> HIDE DEF U
      <4> QED BY <4>1, FS_Subset
    <3>4. A \in SUBSET B /\ B \in SUBSET U
      BY DEF Under24h
    <3> HIDE DEF U, A, B
    <3>5. IsFiniteSet(B) /\ IsFiniteSet(A)
      BY <3>3, <3>4, FS_Subset
    <3>6. Cardinality(A) <= Cardinality(B) /\ Cardinality(A) \in Nat /\ Cardinality(B) \in Nat
          /\ Cardinality(U) \in Nat
      BY <3>3, <3>4, <3>5, FS_Subset, FS_CardinalityType
    <3>7. FreshnessFloor \in Nat
      BY ConstantsHold DEF Constants, RefreshConstants
    <3> DEFINE n == Cardinality(U)
               a == Cardinality(A)
               b == Cardinality(B)
               g == (20 * FreshnessFloor - 1) * n
    <3>8. a <= b /\ a \in Nat /\ b \in Nat /\ n \in Nat /\ g \in Int
      BY <3>6, <3>7
    <3>9. CASE n = 0
      <4>1. g = 0 /\ 2000 * b >= 0
        BY <3>7, <3>8, <3>9
      <4> QED BY <4>1 DEF B, U
    <3>10. CASE n # 0
      <4>1. U # {}
        BY <3>10, FS_EmptySet
      <4>2. 2000 * a >= g
        BY <3>2, <3>7, <3>8, <3>10, <4>1, RoundedTenths
      <4> HIDE DEF g, a, b, n
      <4>3. 2000 * b >= g
        BY <3>8, <4>2
      <4> QED BY <4>3 DEF b, g, n, B, U
    <3> QED BY <3>9, <3>10
  <2>5. PublishedStoreIsFresh'
    BY <1>1, <2>1, <2>4 DEF PublishedStoreIsFresh
  <2> QED BY <1>2, <2>2, <2>5 DEF PublishInv
<1> QED BY <1>3, <1>4

\* Every step keeps PublishInv.
LEMMA StepsKeepPublish ==
    ASSUME RunInv, PublishInv, [Next]_vars
    PROVE  PublishInv'
<1>1. CASE UNCHANGED vars
  BY <1>1 DEF vars, clock, database, counts, coverage, PublishInv, TopUpInv, Attempted, Pending,
             Unobserved, PublishedIsAttempted, PublishedStoreIsFresh
<1>2. CASE HashUnavailable \/ WriteFails \/ Die
  BY <1>2, ExitsKeepsPublish DEF HashUnavailable, WriteFails, Die
<1>3. CASE UtcMidnight
  BY <1>3 DEF UtcMidnight, database, PublishInv, TopUpInv, PublishedIsAttempted,
             PublishedStoreIsFresh
<1>4. CASE LocalMidnight
  BY <1>4 DEF LocalMidnight, PublishInv, TopUpInv, PublishedIsAttempted, PublishedStoreIsFresh
<1>5. CASE StartRun
  BY <1>5 DEF StartRun, PublishInv, TopUpInv, PublishedIsAttempted, PublishedStoreIsFresh
<1>6. CASE RunBatch
  <2>1. pc = "search" /\ pc' = "search" /\ published' = published
    BY <1>6 DEF RunBatch
  <2>2. ~published'
    BY <2>1 DEF PublishInv, TopUpInv
  <2> QED BY <2>1, <2>2 DEF PublishInv, TopUpInv, PublishedIsAttempted, PublishedStoreIsFresh
<1> QED BY <1>1, <1>2, <1>3, <1>4, <1>5, <1>6, EndSearchesKeepsPublish, ReadSourcesKeepsPublish,
           WriteSourceKeepsPublish, ExportKeepsPublish, JudgeKeepsPublish DEF Next, Step

\* PublishInv is an invariant.
LEMMA PublishInvHolds == Spec => []PublishInv
<1>1. Init => PublishInv
  BY DEF Init, PublishInv, TopUpInv, PublishedIsAttempted, PublishedStoreIsFresh
<1> QED BY <1>1, RunInvHolds, StepsKeepPublish, PTL DEF Spec

(* Whichever batches ran, failed, were replayed or skipped: the types, that *)
(* every published offer was looked at by the run that published it, and    *)
(* that each store keeps only hashes it accepted.                           *)
THEOREM RunsAreSound == Spec => []Inv
<1>1. RunInv => TypeOK /\ HashBelongsToStore
  BY DEF RunInv, OwnHashes, HashBelongsToStore
<1>2. PublishInv => PublishedIsAttempted
  BY DEF PublishInv
<1>3. RunInv /\ PublishInv => Inv
  BY <1>1, <1>2 DEF Inv
<1> QED BY <1>3, RunInvHolds, PublishInvHolds, PTL

(* Every store of a published catalog shows the floor's share of offers     *)
(* observed on this date or the one before, for any sizes of the stores.    *)
THEOREM PublishedStoresAreFresh == Spec => []PublishedStoreIsFresh
<1>1. PublishInv => PublishedStoreIsFresh
  BY DEF PublishInv
<1> QED BY <1>1, PublishInvHolds, PTL

(* In the top-up an offer loses its price only on the store's answer that   *)
(* it is gone, never on a read that failed.                                 *)
THEOREM PricesAreLostOnAnswers == Spec => PriceLostOnAnswer
<1>1. ASSUME RunInv, PublishInv, [Next]_vars, NEW o \in Offers,
             pc = "write", o \in priced, o \notin priced'
      PROVE  read[o] = "gone"
  <2>1. WriteSource
    <3>1. ~UNCHANGED vars
      BY <1>1 DEF vars, database
    <3> QED BY <1>1, <3>1 DEF Next, Step, UtcMidnight, LocalMidnight, StartRun, RunBatch,
               HashUnavailable, EndSearches, ReadSources, WriteFails, Export, Judge, Die, Exits,
               Idle, database
  <2>2. read[o] \notin {"none", "failed", "priced"}
    BY <1>1, <2>1, WriteSourceFacts
  <2>3. read[o] # "due" /\ read[o] \in EanAnswers \cup {"none", "due"}
    BY <1>1 DEF PublishInv, TopUpInv, RunInv, TypeOK
  <2> QED BY <2>2, <2>3 DEF EanAnswers
<1>2. ASSUME RunInv, PublishInv, [Next]_vars
      PROVE  [\A o \in Offers : (pc = "write" /\ o \in priced /\ o \notin priced')
                                    => read[o] = "gone"]_vars
  BY <1>1, <1>2
<1> QED BY <1>2, RunInvHolds, PublishInvHolds, PTL DEF Spec, PriceLostOnAnswer

-----------------------------------------------------------------------------
(* The checkpoints of a date.                                               *)

\* The checkpoint of batch k of plan p.
CheckpointOf(x, p, k) ==
    x = [mode |-> p.mode, ordinal |-> k, source |-> p.batches[k].source,
         term |-> p.batches[k].term, promo |-> x.promo]

\* The plans of this day from the trees read on this date, and the frozen one.
PlansOfDate ==
    {[mode |-> "fallback", batches |-> FrozenPlan]}
        \cup {[mode |-> "discovered", batches |-> BuildDiscoveryPlan(t, day)] : t \in used}

PlanOfDate == pc # "idle" => plan \in PlansOfDate

\* Until the UTC day turns, the checkpoints of the date are of its plans.
CheckpointsOfDay ==
    ~late => \A x \in done : \E p \in PlansOfDate : CheckpointOf(x, p, x.ordinal)

ClashInv == PlanOfDate /\ CheckpointsOfDay /\ ClashHasCause

\* Trees read on this date whose plans of this day differ.
Moved == \E t, u \in used : BuildDiscoveryPlan(t, day) # BuildDiscoveryPlan(u, day)

\* Unless such trees were read, plans of the same mode are the same plan.
LEMMA OnePlanPerMode ==
    ASSUME ~Moved, NEW p \in PlansOfDate, NEW q \in PlansOfDate, p.mode = q.mode
    PROVE  p = q
<1>1. CASE p.mode = "fallback"
  <2>1. \A x \in PlansOfDate : x.mode = "fallback" => x = [mode |-> "fallback", batches |-> FrozenPlan]
    BY DEF PlansOfDate
  <2> QED BY <1>1, <2>1
<1>2. CASE p.mode # "fallback"
  <2>1. \A x \in PlansOfDate : x.mode # "fallback" =>
          \E t \in used : x = [mode |-> "discovered", batches |-> BuildDiscoveryPlan(t, day)]
    BY DEF PlansOfDate
  <2>2. PICK t \in used : p = [mode |-> "discovered", batches |-> BuildDiscoveryPlan(t, day)]
    BY <1>2, <2>1
  <2>3. PICK u \in used : q = [mode |-> "discovered", batches |-> BuildDiscoveryPlan(u, day)]
    BY <1>2, <2>1
  <2> QED BY <2>2, <2>3 DEF Moved
<1> QED BY <1>1, <1>2

\* A batch that meets a checkpoint of its date meets its own.
LEMMA RunBatchKeepsClash ==
    ASSUME RunInv, ClashInv, RunBatch
    PROVE  ClashInv'
<1>1. /\ pc = "search" /\ plan' = plan /\ day' = day /\ late' = late /\ used' = used
      /\ PlansOfDate' = PlansOfDate /\ Moved' = Moved
  <2>1. pc = "search" /\ plan' = plan /\ day' = day /\ late' = late
    BY BatchStep
  <2>2. used' = used
    BY DEF RunBatch
  <2> QED BY <2>1, <2>2 DEF PlansOfDate, Moved
<1>2. plan \in PlansOfDate
  BY <1>1 DEF ClashInv, PlanOfDate
<1>3. PlanOfDate'
  BY <1>1, <1>2 DEF PlanOfDate
<1>4. PICK hash : ReplayBatch(Batch, hash) \/ SearchBatch(Batch, hash)
  BY DEF RunBatch
<1>5. CASE ReplayBatch(Batch, hash)
  <2>1. done' = done
    BY <1>5 DEF ReplayBatch, database
  <2>2. PICK x \in done : SameId(x) /\ (x = Done(Batch, x.promo) => clash' = clash)
    BY <1>5 DEF ReplayBatch
  <2>3. ASSUME ~late, ~Moved PROVE clash' = clash
    <3>1. PICK p \in PlansOfDate : CheckpointOf(x, p, x.ordinal)
      BY <2>2, <2>3 DEF ClashInv, CheckpointsOfDay
    <3>2. x.mode = plan.mode /\ x.ordinal = next
      BY <2>2 DEF SameId
    <3>3. x.mode = p.mode
      BY <3>1 DEF CheckpointOf
    <3>4. p = plan
      BY <1>2, <2>3, <3>2, <3>3, OnePlanPerMode
    <3>5. x = Done(Batch, x.promo)
      BY <3>1, <3>2, <3>4 DEF CheckpointOf, Done, Batch
    <3> QED BY <2>2, <3>5
  <2>4. CheckpointsOfDay'
    BY <1>1, <2>1 DEF ClashInv, CheckpointsOfDay, CheckpointOf
  <2>5. ClashHasCause'
    <3>1. clash' => late \/ Moved
      BY <2>3 DEF ClashInv, ClashHasCause, Moved
    <3> QED BY <1>1, <3>1 DEF ClashHasCause, Moved
  <2> QED BY <1>3, <2>4, <2>5 DEF ClashInv
<1>6. CASE SearchBatch(Batch, hash)
  <2>1. clash' = clash
    BY <1>6 DEF SearchBatch
  <2>2. ASSUME NEW x \in done' PROVE x \in done \/ \E c : x = Done(Batch, c)
    BY <1>6 DEF SearchBatch
  <2>3. ASSUME NEW c PROVE CheckpointOf(Done(Batch, c), plan, Done(Batch, c).ordinal)
    BY DEF CheckpointOf, Done, Batch
  <2>4. ASSUME ~late, NEW x \in done' PROVE \E p \in PlansOfDate : CheckpointOf(x, p, x.ordinal)
    <3>1. CASE x \in done
      BY <2>4, <3>1 DEF ClashInv, CheckpointsOfDay
    <3>2. CASE x \notin done
      <4>1. PICK c : x = Done(Batch, c)
        BY <2>2, <3>2
      <4>2. CheckpointOf(x, plan, x.ordinal)
        BY <2>3, <4>1
      <4> QED BY <1>2, <4>2
    <3> QED BY <3>1, <3>2
  <2>5. CheckpointsOfDay'
    BY <1>1, <2>4 DEF CheckpointsOfDay, CheckpointOf
  <2>6. ClashHasCause'
    BY <1>1, <2>1 DEF ClashInv, ClashHasCause
  <2> QED BY <1>3, <2>5, <2>6 DEF ClashInv
<1> QED BY <1>4, <1>5, <1>6

\* A run starts with a plan of its date, and with no clash.
LEMMA StartRunKeepsClash ==
    ASSUME RunInv, ClashInv, StartRun
    PROVE  ClashInv'
<1>1. late' = late /\ day' = day /\ done' = done /\ clash' = FALSE
  BY DEF StartRun, clock
<1>2. /\ tree' \in Trees /\ used \subseteq used'
      /\ \/ plan' = ResolvePlan(tree', day, TRUE) /\ tree' \in used'
         \/ plan' = ResolvePlan(tree', day, FALSE)
  BY PlanStarted
<1>3. PlansOfDate \subseteq PlansOfDate'
  BY <1>1, <1>2 DEF PlansOfDate
<1>4. plan' \in PlansOfDate'
  BY <1>1, <1>2 DEF PlansOfDate, ResolvePlan
<1>5. CheckpointsOfDay'
  BY <1>1, <1>3 DEF ClashInv, CheckpointsOfDay, CheckpointOf
<1> QED BY <1>1, <1>4, <1>5 DEF ClashInv, PlanOfDate, ClashHasCause

\* Every step keeps ClashInv.
LEMMA StepsKeepClash ==
    ASSUME RunInv, ClashInv, [Next]_vars
    PROVE  ClashInv'
<1>1. ASSUME UNCHANGED <<late, day, used, done, clash>>,
             pc' = "idle" \/ (pc' # "idle" => pc # "idle" /\ plan' = plan)
      PROVE  ClashInv'
  <2>1. PlansOfDate' = PlansOfDate
    BY <1>1 DEF PlansOfDate
  <2> QED BY <1>1, <2>1
          DEF ClashInv, PlanOfDate, CheckpointsOfDay, ClashHasCause, CheckpointOf
<1>2. CASE UtcMidnight
  <2>1. late' = TRUE /\ pc' = "idle"
    BY <1>2 DEF UtcMidnight
  <2> QED BY <2>1 DEF ClashInv, PlanOfDate, CheckpointsOfDay, ClashHasCause
<1>3. CASE LocalMidnight
  <2>1. done' = {} /\ clash' = FALSE /\ pc' = "idle"
    BY <1>3 DEF LocalMidnight
  <2> QED BY <2>1 DEF ClashInv, PlanOfDate, CheckpointsOfDay, ClashHasCause
<1>4. CASE EndSearches \/ ReadSources \/ WriteSource \/ Export \/ Judge \/ HashUnavailable
             \/ WriteFails \/ Die \/ UNCHANGED vars
  <2>1. UNCHANGED <<late, day, used, done, clash>>
    BY <1>4 DEF EndSearches, ReadSources, WriteSource, Export, Judge, HashUnavailable, WriteFails,
               Die, Exits, vars, clock, database
  <2>2. pc' = "idle" \/ (pc # "idle" /\ plan' = plan) \/ UNCHANGED <<pc, plan>>
    BY <1>4 DEF EndSearches, ReadSources, WriteSource, Export, Judge, HashUnavailable, WriteFails,
               Die, Exits, Idle, vars
  <2> QED BY <1>1, <2>1, <2>2
<1> QED BY <1>2, <1>3, <1>4, RunBatchKeepsClash, StartRunKeepsClash DEF Next, Step

(* A batch meets the checkpoint of another contract only between the two    *)
(* midnights, or on a date whose runs read trees with different plans, for  *)
(* any trees, stores, quotas, answers and searches.                         *)
THEOREM ClashesHaveCause == Spec => []ClashHasCause
<1>1. Init => ClashInv
  BY DEF Init, ClashInv, PlanOfDate, CheckpointsOfDay, ClashHasCause
<1>2. ClashInv => ClashHasCause
  BY DEF ClashInv
<1> QED BY <1>1, <1>2, RunInvHolds, StepsKeepClash, PTL DEF Spec

-----------------------------------------------------------------------------
(* What whole plans cover.                                                  *)

\* Whole turns do not change the remainder.
LEMMA ModShift ==
    ASSUME NEW l \in Nat \ {0}, NEW n \in Nat, NEW q \in Nat
    PROVE  (l * q + n) % l = n % l
<1> DEFINE p == n \div l
           r == n % l
           a == l * q
           b == l * p
<1>1. r \in 0 .. l - 1 /\ p \in Nat /\ n = b + r
  BY DivMod
<1>2. a \in Nat /\ b \in Nat /\ l * (q + p) = a + b /\ q + p \in Nat
  <2> HIDE DEF p
  <2> QED BY <1>1
<1>3. (l * (q + p) + r) % l = r
  <2> DEFINE k == q + p
  <2>1. k \in Nat
    BY <1>2
  <2>2. (l * k + r) % l = r
    <3> HIDE DEF k, r
    <3> QED BY <1>1, <2>1, ModUnique
  <2> QED BY <2>2 DEF k
<1> HIDE DEF a, b, p, r
<1>4. l * q + n = l * (q + p) + r
  <2>1. a + n = (a + b) + r
    <3>1. r \in Nat
      BY <1>1
    <3> QED BY <1>1, <1>2, <3>1
  <2> QED BY <1>2, <2>1 DEF a
<1> QED BY <1>3, <1>4 DEF r

\* The remainder of the next number.
LEMMA ModNext ==
    ASSUME NEW l \in Nat \ {0}, NEW n \in Nat
    PROVE  /\ n % l # l - 1 => (n + 1) % l = (n % l) + 1
           /\ (n + 1) % l \in Nat
<1> DEFINE p == n \div l
           r == n % l
           b == l * p
<1>1. r \in 0 .. l - 1 /\ p \in Nat /\ n = b + r
  BY DivMod
<1>2. b \in Nat
  <2> HIDE DEF p
  <2> QED BY <1>1
<1>3. CASE r # l - 1
  <2>1. r + 1 \in 0 .. l - 1
    <3> HIDE DEF r
    <3> QED BY <1>1, <1>3
  <2> DEFINE x == r + 1
  <2>2. (l * p + x) % l = x
    <3> HIDE DEF p, x
    <3> QED BY <1>1, <2>1, ModUnique DEF x
  <2>3. n + 1 = b + x
    <3> HIDE DEF b, r
    <3> QED BY <1>1, <1>2
  <2> QED BY <2>2, <2>3
<1>4. (n + 1) % l \in Nat
  <2>1. n + 1 \in Nat
    OBVIOUS
  <2> DEFINE m == n + 1
  <2>2. m \in Nat
    BY <2>1
  <2> HIDE DEF m
  <2>3. m % l \in 0 .. l - 1
    BY <2>2, DivMod
  <2>4. m % l \in Nat
    BY <2>3
  <2> QED BY <2>4 DEF m
<1> QED BY <1>3, <1>4

\* The days from one search of the i-th name of a department of l names to the next.
LEMMA TurnOfName ==
    ASSUME NEW l \in Nat \ {0}, NEW d \in Nat, NEW i \in 1 .. l, (d % l) + 1 # i
    PROVE  (d + l - i) % l # l - 1
<1> DEFINE e == d + l - i
           p == e \div l
           b == l * p
<1>1. e \in Nat
  OBVIOUS
<1>2. e % l \in 0 .. l - 1 /\ p \in Nat /\ e = b + (e % l)
  <2> HIDE DEF e
  <2> QED BY <1>1, DivMod
<1>3. b \in Nat
  <2> HIDE DEF p
  <2> QED BY <1>2
<1>4. ASSUME e % l = l - 1 PROVE FALSE
  <2>1. d = b + (i - 1) /\ i - 1 \in 0 .. l - 1
    <3>1. e = b + (l - 1)
      BY <1>2, <1>4
    <3> HIDE DEF b
    <3> QED BY <1>3, <3>1
  <2> DEFINE k == i - 1
  <2>2. (l * p + k) % l = k
    <3> HIDE DEF p, k
    <3> QED BY <1>2, <2>1, ModUnique DEF k
  <2>3. d % l = i - 1
    BY <2>1, <2>2
  <2> QED BY <2>3
<1> QED BY <1>4

\* The departments of a store, and whether its quota reaches all of them.
Groups(s) == ByDepartment(tree, s)
QuotaReaches(s) == Len(Groups(s)) <= QuotaFor(s)

\* The groups of a store and their lengths.
LEMMA GroupLengths ==
    ASSUME PlanConstants, tree \in Trees, NEW s \in Shops
    PROVE  /\ Len(Groups(s)) \in Nat /\ DOMAIN Groups(s) = 1 .. Len(Groups(s))
           /\ \A j \in 1 .. Len(Groups(s)) :
                /\ Len(Groups(s)[j]) \in Nat \ {0}
                /\ DOMAIN Groups(s)[j] = 1 .. Len(Groups(s)[j])
<1> DEFINE G == ByDepartment(tree, s)
           N == NamesOf(tree, s)
<1>1. G \in Seq(Seq(N)) /\ \A j \in 1 .. Len(G) : G[j] # <<>>
  BY GroupFacts DEF Shops
<1> HIDE DEF G, N
<1>2. Len(G) \in Nat /\ DOMAIN G = 1 .. Len(G) /\ \A j \in 1 .. Len(G) : G[j] \in Seq(N)
  BY <1>1, LenProperties, ElementOfSeq
<1>3. ASSUME NEW j \in 1 .. Len(G)
      PROVE  Len(G[j]) \in Nat \ {0} /\ DOMAIN G[j] = 1 .. Len(G[j])
  <2>1. G[j] \in Seq(N) /\ G[j] # <<>>
    BY <1>1, <1>2
  <2> QED BY <2>1, LenProperties, EmptySeq
<1> QED BY <1>2, <1>3 DEF G, Groups

\* The window is at least as long as any department's list of names.
LEMMA WindowBounds ==
    ASSUME PlanConstants, tree \in Trees
    PROVE  /\ WindowDays[tree] \in Nat
           /\ \A s \in Shops : \A j \in 1 .. Len(Groups(s)) : Len(Groups(s)[j]) <= WindowDays[tree]
<1> DEFINE sizes == UNION {{Len(ByDepartment(tree, s)[i]) : i \in DOMAIN ByDepartment(tree, s)} :
                             s \in ToSet(Sources)}
           Bounds(s, b) == \A j \in 1 .. Len(Groups(s)) : Len(Groups(s)[j]) <= b
           f == [i \in 1 .. Len(Sources) |-> CHOOSE b \in Nat : Bounds(Sources[i], b)]
<1>1. ASSUME NEW s \in Shops PROVE \E b \in Nat : Bounds(s, b)
  <2> DEFINE m == Len(Groups(s))
             g == [j \in 1 .. m |-> Len(Groups(s)[j])]
  <2>1. m \in Nat /\ \A j \in 1 .. m : g[j] \in Nat
    BY GroupLengths
  <2>2. \E b \in Nat : \A j \in 1 .. m : g[j] <= b
    <3> HIDE DEF m, g
    <3> QED BY <2>1, Bounded
  <2> QED BY <2>2
<1>2. /\ Len(Sources) \in Nat /\ DOMAIN Sources = 1 .. Len(Sources)
      /\ \A i \in 1 .. Len(Sources) : Sources[i] \in Shops
  BY InRange DEF PlanConstants, Shops
<1>3. ASSUME NEW i \in 1 .. Len(Sources) PROVE f[i] \in Nat /\ Bounds(Sources[i], f[i])
  <2>1. \E b \in Nat : Bounds(Sources[i], b)
    BY <1>1, <1>2
  <2> HIDE DEF Bounds
  <2> QED BY <2>1
<1>4. PICK b \in Nat : \A i \in 1 .. Len(Sources) : f[i] <= b
  <2> HIDE DEF f
  <2> QED BY <1>2, <1>3, Bounded
<1>5. ASSUME NEW s \in Shops, NEW j \in 1 .. Len(Groups(s)) PROVE Len(Groups(s)[j]) <= b
  <2>1. PICK i \in 1 .. Len(Sources) : Sources[i] = s
    BY <1>2 DEF Shops, ToSet
  <2>2. f[i] \in Nat /\ f[i] <= b /\ Len(Groups(s)[j]) <= f[i]
    <3> HIDE DEF f
    <3> QED BY <1>3, <1>4, <1>5, <2>1
  <2>3. Len(Groups(s)[j]) \in Nat
    BY GroupLengths
  <2> DEFINE l == Len(Groups(s)[j])
             k == f[i]
  <2> HIDE DEF l, k
  <2>4. l <= b
    BY <2>2, <2>3 DEF l, k
  <2> QED BY <2>4 DEF l
<1>6. \A n \in sizes : \E s \in Shops : \E j \in 1 .. Len(Groups(s)) : n = Len(Groups(s)[j])
  BY GroupLengths DEF Shops, Groups
<1>7. ASSUME NEW s \in Shops, NEW j \in 1 .. Len(Groups(s))
      PROVE  Len(Groups(s)[j]) \in sizes
  <2>1. j \in DOMAIN ByDepartment(tree, s)
    BY GroupLengths DEF Groups
  <2> DEFINE own == {Len(ByDepartment(tree, s)[i]) : i \in DOMAIN ByDepartment(tree, s)}
  <2>2. Len(ByDepartment(tree, s)[j]) \in own
    BY <2>1
  <2>3. own \subseteq sizes
    BY DEF Shops
  <2> QED BY <2>2, <2>3 DEF Groups
<1>8. \A n \in sizes : n \in Nat /\ n <= b
  <2>1. ASSUME NEW n \in sizes PROVE n \in Nat /\ n <= b
    <3>1. PICK s \in Shops : \E j \in 1 .. Len(Groups(s)) : n = Len(Groups(s)[j])
      BY <1>6
    <3>2. PICK j \in 1 .. Len(Groups(s)) : n = Len(Groups(s)[j])
      BY <3>1
    <3>3. Len(Groups(s)[j]) \in Nat /\ Len(Groups(s)[j]) <= b
      BY <1>5, GroupLengths
    <3> QED BY <3>2, <3>3
  <2> QED BY <2>1
<1> HIDE DEF sizes
<1>9. PICK w \in sizes \cup {0} : \A n \in sizes \cup {0} : n <= w
  <2> DEFINE S == sizes \cup {0}
  <2>1. S \in SUBSET Nat /\ S # {} /\ \A n \in S : n <= b
    BY <1>8
  <2> HIDE DEF S
  <2>2. \E w \in S : \A n \in S : n <= w
    BY <2>1, LargestNat
  <2> QED BY <2>2 DEF S
<1>10. WindowDays[tree] = CHOOSE n \in sizes \cup {0} : \A m \in sizes : m <= n
  BY DEF WindowDays, sizes
<1>11. WindowDays[tree] \in sizes \cup {0} /\ \A m \in sizes : m <= WindowDays[tree]
  BY <1>9, <1>10
<1>12. WindowDays[tree] \in Nat
  BY <1>8, <1>11
<1> QED BY <1>7, <1>11, <1>12

\* The category a batch names.
NameOf(b) == <<b.source, b.term>>

\* Of the first n batches of q, those that name a category were searched today.
SearchedUpto(q, n) == \A k \in 1 .. n : NameOf(q[k]) \in Categories => NameOf(q[k]) \in today

\* gap of a name: at most the days since the last one whose plan names it.
GapsFit ==
    \A s \in Shops : QuotaReaches(s) =>
        \A j \in 1 .. Len(Groups(s)) : \A i \in 1 .. Len(Groups(s)[j]) :
            gap[<<s, Groups(s)[j][i]>>]
                <= (day + Len(Groups(s)[j]) - i) % Len(Groups(s)[j])

\* What was searched so far, today, and since each name's turn.
CoverInv ==
    /\ pc = "search" /\ ~clash /\ plan.mode = "discovered" =>
          SearchedUpto(plan.batches, next - 1)
    /\ whole => SearchedUpto(BuildDiscoveryPlan(tree, day), Len(BuildDiscoveryPlan(tree, day)))
    /\ GapsFit

\* A name of a group is a category.
LEMMA InGroup ==
    ASSUME PlanConstants, tree \in Trees, NEW s \in Shops, NEW j \in 1 .. Len(Groups(s)),
           NEW i \in 1 .. Len(Groups(s)[j])
    PROVE  /\ <<s, Groups(s)[j][i]>> \in Categories
           /\ <<s, Groups(s)[j][i]>> \in CategoriesIn[tree]
<1>1. j \in DOMAIN ByDepartment(tree, s) /\ i \in DOMAIN ByDepartment(tree, s)[j]
  BY GroupLengths DEF Groups
<1>2. Groups(s)[j][i] \in NamesOf(tree, s)
  BY <1>1 DEF NamesOf, Groups, ToSet
<1> QED BY <1>2, InCategories DEF Shops

\* On a day whose whole plan was searched, each department's turn was searched.
LEMMA WholeDayNames ==
    ASSUME PlanConstants, tree \in Trees, day \in Nat, CoverInv, whole,
           NEW s \in Shops, QuotaReaches(s),
           NEW j \in 1 .. Len(Groups(s)), NEW i \in 1 .. Len(Groups(s)[j]),
           (day % Len(Groups(s)[j])) + 1 = i
    PROVE  <<s, Groups(s)[j][i]>> \in today
<1>1. PICK k \in 1 .. Len(StoreTerms(tree, s, day)) : StoreTerms(tree, s, day)[k] = Groups(s)[j][i]
  <2> DEFINE G == ByDepartment(tree, s)
             T == StoreTerms(tree, s, day)
  <2>1. Len(G) <= QuotaFor(s) =>
          \A h \in 1 .. Len(G) : \E k \in 1 .. Len(T) : T[k] = G[h][(day % Len(G[h])) + 1]
    BY StoreTermsFacts DEF Shops
  <2> QED BY <2>1 DEF Groups, QuotaReaches
<1>2. PICK n \in 1 .. Len(BuildDiscoveryPlan(tree, day)) :
        /\ BuildDiscoveryPlan(tree, day)[n].source = s
        /\ BuildDiscoveryPlan(tree, day)[n].term = StoreTerms(tree, s, day)[k]
  <2> DEFINE T == StoreTerms(tree, s, day)
             P == BuildDiscoveryPlan(tree, day)
  <2>1. \A h \in 1 .. Len(T) : \E n \in 1 .. Len(P) : P[n].source = s /\ P[n].term = T[h]
    <3>1. \A r \in ToSet(Sources) : \A h \in 1 .. Len(StoreTerms(tree, r, day)) :
             \E n \in 1 .. Len(P) : P[n].source = r /\ P[n].term = StoreTerms(tree, r, day)[h]
      BY PlanFacts
    <3> QED BY <3>1 DEF Shops
  <2> QED BY <1>1, <2>1
<1>3. NameOf(BuildDiscoveryPlan(tree, day)[n]) = <<s, Groups(s)[j][i]>>
  BY <1>1, <1>2 DEF NameOf
<1> QED BY <1>2, <1>3, InGroup DEF CoverInv, SearchedUpto

\* A name that was not searched has had one more day since its turn.
LEMMA UtcMidnightKeepsGaps ==
    ASSUME RunInv, CoverInv, UtcMidnight
    PROVE  GapsFit'
<1>1. PlanConstants /\ RefreshConstants
  BY ConstantsHold DEF Constants
<1>2. day \in 0 .. Cycle - 1 /\ Cycle \in Nat \ {0} /\ day \in Nat /\ gap \in [Categories -> Nat]
      /\ day' = (day + 1) % Cycle /\ tree \in Trees /\ tree' = tree
  BY <1>1, Lengths DEF RunInv, TypeOK, UtcMidnight
<1>3. ASSUME NEW s \in Shops, QuotaReaches(s),
             NEW j \in 1 .. Len(Groups(s)), NEW i \in 1 .. Len(Groups(s)[j])
      PROVE  gap'[<<s, Groups(s)[j][i]>>]
                <= (day' + Len(Groups(s)[j]) - i) % Len(Groups(s)[j])
  <2> DEFINE l == Len(Groups(s)[j])
             c == <<s, Groups(s)[j][i]>>
             e == day + l - i
  <2>1. l \in Nat \ {0} /\ i \in 1 .. l /\ c \in Categories /\ c \in CategoriesIn[tree]
    BY <1>1, <1>2, GroupLengths, InGroup
  <2>2. gap[c] <= e % l /\ gap[c] \in Nat
    BY <1>2, <1>3, <2>1 DEF CoverInv, GapsFit
  <2>3. gap'[c] = IF whole /\ c \notin today THEN gap[c] + 1 ELSE 0
    <3> HIDE DEF c
    <3> QED BY <2>1 DEF UtcMidnight
  <2>4. whole /\ i = (day % l) + 1 => c \in today
    BY <1>1, <1>2, <1>3, WholeDayNames
  <2>5. Cycle % l = 0
    <3>1. j \in DOMAIN ByDepartment(tree, s)
      BY <1>1, <1>2, GroupLengths DEF Groups
    <3>2. \A t \in Trees : \A h \in DOMAIN ByDepartment(t, s) :
             Cycle % Len(ByDepartment(t, s)[h]) = 0
      BY <1>1 DEF RefreshConstants, Shops
    <3> QED BY <1>2, <3>1, <3>2 DEF Groups
  <2> HIDE DEF l, c
  <2>6. e \in Nat
    BY <1>2, <2>1
  <2>7. (day' + l - i) % l = (e + 1) % l
    <3>1. CASE day + 1 < Cycle
      <4>1. day' = day + 1
        BY <1>2, <3>1
      <4>2. day \in Nat /\ l \in Nat /\ i \in Nat
        BY <1>2, <2>1
      <4>3. day' + l - i = e + 1
        BY <4>1, <4>2
      <4> QED BY <4>3
    <3>2. CASE ~(day + 1 < Cycle)
      <4>1. day + 1 = Cycle
        BY <1>2, <3>2
      <4>2. day' = 0
        BY <1>2, <4>1
      <4> DEFINE q == Cycle \div l
                 n == l - i
      <4>3. q \in Nat /\ Cycle = l * q /\ n \in Nat
        <5>1. q \in Nat /\ Cycle = l * q + (Cycle % l)
          BY <1>2, <2>1, DivMod
        <5> DEFINE m == l * q
        <5>2. m \in Nat
          <6> HIDE DEF q
          <6> QED BY <2>1, <5>1
        <5>3. Cycle = m + 0
          BY <2>5, <5>1
        <5> HIDE DEF m
        <5>4. Cycle = m
          BY <5>2, <5>3
        <5> QED BY <2>1, <5>1, <5>4 DEF m
      <4>4. (l * q + n) % l = n % l
        <5> HIDE DEF q, n
        <5> QED BY <2>1, <4>3, ModShift
      <4>5. e + 1 = Cycle + n /\ day' + l - i = n
        BY <1>2, <2>1, <4>1, <4>2
      <4>6. e + 1 = l * q + n
        BY <4>3, <4>5
      <4> QED BY <4>4, <4>5, <4>6
    <3> QED BY <3>1, <3>2
  <2>8. (e % l # l - 1 => (e + 1) % l = (e % l) + 1) /\ (e + 1) % l \in Nat
    <3> HIDE DEF e
    <3> QED BY <2>1, <2>6, ModNext
  <2>9. CASE whole /\ c \notin today
    <3>1. (day % l) + 1 # i
      BY <2>4, <2>9
    <3>2. e % l # l - 1
      BY <1>2, <2>1, <3>1, TurnOfName
    <3>3. gap'[c] = gap[c] + 1 /\ (e + 1) % l = (e % l) + 1
      BY <2>3, <2>8, <2>9, <3>2
    <3> DEFINE r == e % l
    <3>4. r \in Nat
      <4> HIDE DEF e
      <4>1. e % l \in 0 .. l - 1
        BY <2>1, <2>6, DivMod
      <4>2. e % l \in Nat
        BY <4>1
      <4> QED BY <4>2
    <3>5. gap[c] <= r /\ gap'[c] = gap[c] + 1 /\ (day' + l - i) % l = r + 1
      BY <2>2, <2>7, <3>3
    <3> HIDE DEF r
    <3>6. gap'[c] <= r + 1
      BY <2>2, <3>4, <3>5
    <3>7. gap'[c] <= (day' + l - i) % l
      BY <3>5, <3>6
    <3> QED BY <3>7 DEF c, l
  <2>10. CASE ~(whole /\ c \notin today)
    <3> DEFINE r == (e + 1) % l
    <3>1. r \in Nat /\ gap'[c] = 0 /\ (day' + l - i) % l = r
      BY <2>3, <2>7, <2>8, <2>10
    <3> HIDE DEF r
    <3>2. gap'[c] <= r
      BY <3>1
    <3>3. gap'[c] <= (day' + l - i) % l
      BY <3>1, <3>2
    <3> QED BY <3>3 DEF c, l
  <2> QED BY <2>9, <2>10
<1> QED BY <1>2, <1>3 DEF GapsFit, Groups, QuotaReaches

\* A batch, replayed or searched, adds its name to the day's.
LEMMA RunBatchKeepsCover ==
    ASSUME RunInv, CoverInv, RunBatch
    PROVE  CoverInv'
<1>1. /\ pc = "search" /\ pc' = "search" /\ plan' = plan /\ day' = day
      /\ next \in 1 .. Len(plan.batches) /\ next' = next + 1
      /\ today \subseteq today' /\ whole' = whole /\ gap' = gap /\ tree' = tree
  BY BatchStep DEF RunBatch
<1>2. GapsFit' /\ (whole' => SearchedUpto(BuildDiscoveryPlan(tree, day), Len(BuildDiscoveryPlan(tree, day)))')
  BY <1>1 DEF CoverInv, GapsFit, Groups, QuotaReaches, SearchedUpto
<1>3. PICK hash : ReplayBatch(Batch, hash) \/ SearchBatch(Batch, hash)
  BY DEF RunBatch
<1>4. clash' \/ (Searched(Batch) /\ clash' = clash)
  BY <1>3 DEF ReplayBatch, SearchBatch
<1>5. ASSUME ~clash', plan.mode = "discovered" PROVE SearchedUpto(plan.batches, next - 1)'
  <2>1. Searched(Batch) /\ ~clash
    BY <1>4, <1>5
  <2>2. SearchedUpto(plan.batches, next - 1)
    BY <1>1, <1>5, <2>1 DEF CoverInv
  <2>3. ASSUME NEW k \in 1 .. next' - 1, NameOf(plan.batches[k]) \in Categories
        PROVE  NameOf(plan.batches[k]) \in today'
    <3>1. k \in 1 .. next - 1 \/ k = next
      <4>1. next \in Nat
        <5>1. Len(plan.batches) \in Nat
          BY ConstantsHold, PlanFits DEF RunInv, Constants, TypeOK
        <5> QED BY <1>1, <5>1
      <4> QED BY <1>1, <4>1
    <3>2. CASE k \in 1 .. next - 1
      BY <1>1, <2>2, <2>3, <3>2 DEF SearchedUpto
    <3>3. CASE k = next
      BY <2>1, <2>3, <3>3 DEF Searched, NameOf, Batch
    <3> QED BY <3>1, <3>2, <3>3
  <2> QED BY <1>1, <2>3 DEF SearchedUpto
<1> QED BY <1>1, <1>2, <1>5 DEF CoverInv

\* A whole plan was searched when no batch of it was skipped.
LEMMA EndSearchesKeepsCover ==
    ASSUME RunInv, CoverInv, EndSearches
    PROVE  CoverInv'
<1>1. /\ pc = "search" /\ pc' = "read" /\ UNCHANGED <<tree, day, today, gap>>
      /\ skipped' = Len(plan.batches) - (next - 1)
      /\ whole' = (whole \/ (skipped' = 0 /\ plan.mode = "discovered" /\ ~clash))
  BY DEF EndSearches, clock
<1>2. GapsFit'
  BY <1>1 DEF CoverInv, GapsFit, Groups, QuotaReaches
<1>3. ASSUME skipped' = 0, plan.mode = "discovered", ~clash
      PROVE  SearchedUpto(BuildDiscoveryPlan(tree, day), Len(BuildDiscoveryPlan(tree, day)))
  <2>1. plan.batches = BuildDiscoveryPlan(tree, day)
    BY <1>1, <1>3 DEF RunInv, PlanOfRun, Plans, ResolvePlan
  <2>2. next - 1 = Len(plan.batches)
    <3> DEFINE n == Len(plan.batches)
    <3>1. n \in Nat /\ next \in 1 .. n + 1
      BY <1>1, ConstantsHold, PlanFits DEF RunInv, Constants, TypeOK, Counted
    <3>2. skipped' = n - (next - 1)
      BY <1>1
    <3> HIDE DEF n
    <3>3. next - 1 = n
      BY <1>3, <3>1, <3>2
    <3> QED BY <3>3 DEF n
  <2>3. SearchedUpto(plan.batches, next - 1)
    BY <1>1, <1>3 DEF CoverInv
  <2> QED BY <2>1, <2>2, <2>3
<1>4. whole' => SearchedUpto(BuildDiscoveryPlan(tree, day), Len(BuildDiscoveryPlan(tree, day)))'
  BY <1>1, <1>3 DEF CoverInv, SearchedUpto
<1> QED BY <1>1, <1>2, <1>4 DEF CoverInv

\* No days passed since any name: within the days since its turn.
LEMMA NoGapFits ==
    ASSUME PlanConstants, NEW t \in Trees, NEW d \in Nat, NEW s \in Shops,
           NEW j \in 1 .. Len(ByDepartment(t, s)), NEW i \in 1 .. Len(ByDepartment(t, s)[j])
    PROVE  /\ <<s, ByDepartment(t, s)[j][i]>> \in Categories
           /\ 0 <= (d + Len(ByDepartment(t, s)[j]) - i) % Len(ByDepartment(t, s)[j])
<1> DEFINE G == ByDepartment(t, s)
           N == NamesOf(t, s)
           l == Len(G[j])
           e == d + l - i
           r == e % l
<1>1. G \in Seq(Seq(N)) /\ \A k \in 1 .. Len(G) : G[k] # <<>>
  BY GroupFacts DEF Shops
<1> HIDE DEF N
<1>2. DOMAIN G = 1 .. Len(G) /\ G[j] \in Seq(N) /\ G[j] # <<>>
  <2> HIDE DEF G
  <2> QED BY <1>1, LenProperties, ElementOfSeq DEF G
<1>3. l \in Nat \ {0} /\ DOMAIN G[j] = 1 .. l
  <2> HIDE DEF G
  <2> QED BY <1>2, LenProperties, EmptySeq
<1>4. G[j][i] \in NamesOf(t, s)
  <2>1. G[j][i] \in ToSet(G[j])
    BY <1>3 DEF ToSet
  <2>2. j \in DOMAIN G
    BY <1>2
  <2> QED BY <2>1, <2>2 DEF NamesOf
<1>5. <<s, G[j][i]>> \in Categories
  BY <1>4, InCategories DEF Shops
<1>6. i \in 1 .. l
  OBVIOUS
<1> HIDE DEF G, l
<1>7. e \in Nat
  BY <1>3, <1>6
<1>8. r \in 0 .. l - 1
  <2> HIDE DEF e
  <2> QED BY <1>3, <1>7, DivMod
<1>9. 0 <= r
  <2> HIDE DEF r
  <2> QED BY <1>3, <1>8
<1> QED BY <1>5, <1>9 DEF G, l

\* New trees start the count again, the same ones go on with it.
LEMMA StartRunKeepsCover ==
    ASSUME RunInv, CoverInv, StartRun
    PROVE  CoverInv'
<1>1. day' = day /\ next' = 1 /\ PlanConstants /\ day \in Nat
  <2>1. day \in 0 .. Cycle - 1 /\ Cycle \in Nat
    BY ConstantsHold, Lengths DEF Constants, RunInv, TypeOK
  <2> QED BY <2>1, ConstantsHold DEF StartRun, clock, Constants
<1>2. SearchedUpto(plan.batches, next - 1)'
  BY <1>1 DEF SearchedUpto
<1>3. CASE tree' = tree /\ UNCHANGED coverage
  <2>1. today' = today /\ whole' = whole /\ gap' = gap
    BY <1>3 DEF coverage
  <2> QED BY <1>1, <1>2, <1>3, <2>1 DEF CoverInv, SearchedUpto, GapsFit, Groups, QuotaReaches
<1>4. CASE today' = {} /\ whole' = FALSE /\ gap' = [c \in Categories |-> 0]
  <2>1. tree' \in Trees
    BY PlanStarted
  <2>2. ASSUME NEW s \in Shops, NEW j \in 1 .. Len(ByDepartment(tree', s)),
               NEW i \in 1 .. Len(ByDepartment(tree', s)[j])
        PROVE  gap'[<<s, ByDepartment(tree', s)[j][i]>>]
                  <= (day' + Len(ByDepartment(tree', s)[j]) - i) % Len(ByDepartment(tree', s)[j])
    <3>1. /\ <<s, ByDepartment(tree', s)[j][i]>> \in Categories
          /\ 0 <= (day + Len(ByDepartment(tree', s)[j]) - i) % Len(ByDepartment(tree', s)[j])
      BY <1>1, <2>1, NoGapFits
    <3> QED BY <1>1, <1>4, <3>1
  <2>3. GapsFit'
    BY <2>2 DEF GapsFit, Groups
  <2> QED BY <1>2, <1>4, <2>3 DEF CoverInv
<1> QED BY <1>3, <1>4, PlanStarted

\* Every step keeps CoverInv.
LEMMA StepsKeepCover ==
    ASSUME RunInv, CoverInv, [Next]_vars
    PROVE  CoverInv'
<1>1. CASE UNCHANGED vars
  BY <1>1 DEF vars, clock, coverage, CoverInv, SearchedUpto, GapsFit, Groups, QuotaReaches
<1>2. CASE UtcMidnight
  <2>1. pc' = "idle" /\ whole' = FALSE
    BY <1>2 DEF UtcMidnight
  <2> QED BY <1>2, <2>1, UtcMidnightKeepsGaps DEF CoverInv
<1>3. CASE LocalMidnight
  BY <1>3 DEF LocalMidnight, coverage, CoverInv, SearchedUpto, GapsFit, Groups, QuotaReaches
<1>4. CASE ReadSources \/ WriteSource \/ Export
  <2>1. pc' # "search" /\ UNCHANGED <<tree, day, today, whole, gap>>
    BY <1>4 DEF ReadSources, WriteSource, Export, clock, coverage
  <2> QED BY <2>1 DEF CoverInv, SearchedUpto, GapsFit, Groups, QuotaReaches
<1>5. CASE Judge \/ HashUnavailable \/ WriteFails \/ Die
  <2>1. pc' # "search" /\ UNCHANGED <<tree, day, today, whole, gap>>
    BY <1>5 DEF Judge, HashUnavailable, WriteFails, Die, Exits, Idle, clock, coverage
  <2> QED BY <2>1 DEF CoverInv, SearchedUpto, GapsFit, Groups, QuotaReaches
<1> QED BY <1>1, <1>2, <1>3, <1>4, <1>5, RunBatchKeepsCover, StartRunKeepsCover,
           EndSearchesKeepsCover DEF Next, Step

\* The days since a name's turn are fewer than the names of its department.
LEMMA GapsStayInWindow ==
    ASSUME RunInv, CoverInv
    PROVE  CoveredInWindow
<1>1. PlanConstants /\ tree \in Trees /\ day \in Nat /\ gap \in [Categories -> Nat]
  <2>1. day \in 0 .. Cycle - 1 /\ Cycle \in Nat
    BY ConstantsHold, Lengths DEF Constants, RunInv, TypeOK
  <2> QED BY <2>1, ConstantsHold DEF Constants, RunInv, TypeOK
<1>2. ASSUME NEW s \in Shops, QuotaReaches(s),
             NEW j \in 1 .. Len(Groups(s)), NEW i \in 1 .. Len(Groups(s)[j])
      PROVE  gap[<<s, Groups(s)[j][i]>>] < WindowDays[tree]
  <2> DEFINE l == Len(Groups(s)[j])
             e == day + l - i
             r == e % l
             g == gap[<<s, Groups(s)[j][i]>>]
  <2>1. l \in Nat \ {0} /\ l <= WindowDays[tree] /\ WindowDays[tree] \in Nat
    BY <1>1, GroupLengths, WindowBounds
  <2>2. g <= r /\ g \in Nat
    BY <1>1, <1>2, InGroup DEF CoverInv, GapsFit
  <2> HIDE DEF g
  <2>3. e \in Nat
    <3> HIDE DEF l
    <3> QED BY <1>1, <1>2, <2>1 DEF l
  <2>4. r \in 0 .. l - 1
    <3> HIDE DEF e, l
    <3> QED BY <2>1, <2>3, DivMod
  <2> HIDE DEF r, l
  <2>5. g < WindowDays[tree]
    BY <2>1, <2>2, <2>4
  <2> QED BY <2>5 DEF g
<1>3. ASSUME NEW c \in WithinQuota[tree] PROVE gap[c] < WindowDays[tree]
  <2>1. PICK s \in Shops : QuotaReaches(s) /\ c \in CategoriesOf(tree, s)
    BY <1>1, <1>3 DEF WithinQuota, Shops, QuotaReaches, Groups
  <2>2. PICK j \in DOMAIN Groups(s) : \E n \in ToSet(Groups(s)[j]) : c = <<s, n>>
    BY <2>1 DEF CategoriesOf, Groups
  <2>3. PICK i \in DOMAIN Groups(s)[j] : c = <<s, Groups(s)[j][i]>>
    BY <2>2 DEF ToSet
  <2>4. j \in 1 .. Len(Groups(s)) /\ i \in 1 .. Len(Groups(s)[j])
    BY <1>1, <2>2, <2>3, GroupLengths
  <2> QED BY <1>2, <2>1, <2>3, <2>4
<1> QED BY <1>3 DEF CoveredInWindow

\* CoverInv at first.
LEMMA InitCovers == Init => CoverInv
<1> SUFFICES ASSUME Init PROVE CoverInv
  OBVIOUS
<1>1. /\ PlanConstants /\ tree \in Trees /\ day = 0 /\ pc = "idle" /\ ~whole
      /\ gap = [c \in Categories |-> 0]
  BY ConstantsHold DEF Init, Constants
<1>2. ASSUME NEW s \in Shops, NEW j \in 1 .. Len(ByDepartment(tree, s)),
             NEW i \in 1 .. Len(ByDepartment(tree, s)[j])
      PROVE  gap[<<s, ByDepartment(tree, s)[j][i]>>]
                <= (day + Len(ByDepartment(tree, s)[j]) - i) % Len(ByDepartment(tree, s)[j])
  <2>1. /\ <<s, ByDepartment(tree, s)[j][i]>> \in Categories
        /\ 0 <= (day + Len(ByDepartment(tree, s)[j]) - i) % Len(ByDepartment(tree, s)[j])
    BY <1>1, NoGapFits
  <2> QED BY <1>1, <2>1
<1> QED BY <1>1, <1>2 DEF CoverInv, GapsFit, Groups

(* Where the quota reaches all departments, whole plans from the same trees *)
(* search every name within the window, for any trees, allowlist, quota and *)
(* number of stores, and whenever the trees change.                         *)
THEOREM WholePlansCover == Spec => []CoveredInWindow
BY InitCovers, RunInvHolds, StepsKeepCover, GapsStayInWindow, PTL DEF Spec

=============================================================================
