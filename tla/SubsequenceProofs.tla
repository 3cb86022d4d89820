-------------------------- MODULE SubsequenceProofs --------------------------
(***************************************************************************)
(* Facts about lists that the proofs about the hooks share: what filtering *)
(* a list keeps, and what cutting it keeps.                                *)
(***************************************************************************)
EXTENDS Subsequences, SequencesExt, FiniteSetTheorems, SequenceTheorems, TLAPS

\* The positions of a list are a finite set of naturals.
LEMMA PositionsFinite ==
    ASSUME NEW T, NEW s \in Seq(T), NEW S
    PROVE  /\ Positions(s, S) \subseteq 1..Len(s)
           /\ Positions(s, S) \in SUBSET Int
           /\ IsFiniteSet(Positions(s, S))
           /\ Cardinality(Positions(s, S)) \in Nat
  <1>1. Positions(s, S) \subseteq 1..Len(s)
    BY DEF Positions
  <1>2. IsFiniteSet(1..Len(s))
    BY FS_Interval, LenProperties
  <1>3. QED
    BY <1>1, <1>2, FS_Subset, FS_CardinalityType

\* Ranks count a finite set from 1 ..
LEMMA RankInRange ==
    ASSUME NEW P \in SUBSET Int, IsFiniteSet(P), NEW i \in P
    PROVE  Rank(P, i) \in 1..Cardinality(P)
  <1> DEFINE Upto == {j \in P : j <= i}
  <1>1. Upto \in SUBSET P /\ i \in Upto
    OBVIOUS
  <1>2. Cardinality(P) \in Nat
    BY FS_CardinalityType
  <1>3. IsFiniteSet(Upto) /\ Cardinality(Upto) <= Cardinality(P)
    BY <1>1, FS_Subset
  <1>4. Cardinality(Upto) \in Nat /\ Cardinality(Upto) # 0
    BY <1>1, <1>3, FS_CardinalityType, FS_EmptySet
  <1>5. Rank(P, i) = Cardinality(Upto)
    BY DEF Rank
  <1> HIDE DEF Upto
  <1>6. QED
    BY <1>2, <1>3, <1>4, <1>5

\* .. and grow with it.
LEMMA RankGrows ==
    ASSUME NEW P \in SUBSET Int, IsFiniteSet(P), NEW i \in P, NEW j \in P, i < j
    PROVE  Rank(P, i) < Rank(P, j)
  <1> DEFINE Upto(k) == {l \in P : l <= k}
  <1>1. i \in Int /\ j \in Int /\ \A l \in P : l \in Int
    OBVIOUS
  <1>2. \A l \in P : l <= i => l <= j
    BY <1>1
  <1>3. Upto(i) \in SUBSET Upto(j) /\ Upto(j) \in SUBSET P
    BY <1>2
  <1>4. j \in Upto(j) /\ j \notin Upto(i)
    BY <1>1
  <1>5. Upto(i) # Upto(j)
    BY <1>4
  <1>6. IsFiniteSet(Upto(j))
    BY <1>3, FS_Subset
  <1>7. /\ IsFiniteSet(Upto(i))
        /\ Cardinality(Upto(i)) <= Cardinality(Upto(j))
        /\ Cardinality(Upto(i)) # Cardinality(Upto(j))
    BY <1>3, <1>5, <1>6, FS_Subset
  <1>8. Cardinality(Upto(i)) \in Nat /\ Cardinality(Upto(j)) \in Nat
    BY <1>6, <1>7, FS_CardinalityType
  <1>9. Rank(P, i) = Cardinality(Upto(i)) /\ Rank(P, j) = Cardinality(Upto(j))
    BY DEF Rank
  <1> HIDE DEF Upto
  <1>10. QED
    BY <1>7, <1>8, <1>9

\* So ranks are ordered as the positions are.
LEMMA RankOrder ==
    ASSUME NEW P \in SUBSET Int, IsFiniteSet(P), NEW i \in P, NEW j \in P
    PROVE  /\ Rank(P, i) <= Rank(P, j) => i <= j
           /\ Rank(P, i) = Rank(P, j) => i = j
  <1>1. Cardinality(P) \in Nat
    BY FS_CardinalityType
  <1>2. Rank(P, i) \in Int /\ Rank(P, j) \in Int
    BY <1>1, RankInRange
  <1>3. i \in Int /\ j \in Int
    OBVIOUS
  <1>4. i < j => Rank(P, i) < Rank(P, j)
    BY RankGrows
  <1>5. j < i => Rank(P, j) < Rank(P, i)
    BY RankGrows
  <1>6. QED
    BY <1>2, <1>3, <1>4, <1>5

\* Every number from 1 to their count is the rank of one position.
LEMMA RankOnto ==
    ASSUME NEW P \in SUBSET Int, IsFiniteSet(P), NEW k \in 1..Cardinality(P)
    PROVE  \E i \in P : Rank(P, i) = k
  <1> DEFINE N == 1..Cardinality(P)
             f == [i \in P |-> Rank(P, i)]
  <1>1. Cardinality(P) \in Nat
    BY FS_CardinalityType
  <1>2. IsFiniteSet(N) /\ Cardinality(N) = Cardinality(P)
    BY <1>1, FS_Interval
  <1>3. f \in [P -> N]
    BY RankInRange
  <1>4. \A i, j \in P : f[i] = f[j] => i = j
    BY RankOrder
  <1>5. f \in Injection(P, N)
    BY <1>3, <1>4 DEF Injection, IsInjective
  <1>6. f \in Surjection(P, N)
    BY <1>2, <1>5, FS_Injection
  <1>7. QED
    BY <1>6 DEF Surjection

\* The k-th position is the one of rank k.
LEMMA NthRank ==
    ASSUME NEW P \in SUBSET Int, IsFiniteSet(P), NEW k \in 1..Cardinality(P)
    PROVE  Nth(P, k) \in P /\ Rank(P, Nth(P, k)) = k
  BY RankOnto DEF Nth

\* The positions are counted in their order ..
LEMMA NthGrows ==
    ASSUME NEW P \in SUBSET Int, IsFiniteSet(P),
           NEW k \in 1..Cardinality(P), NEW l \in 1..Cardinality(P), k < l
    PROVE  Nth(P, k) < Nth(P, l)
  <1>1. Nth(P, k) \in P /\ Nth(P, l) \in P
    BY NthRank
  <1>2. Rank(P, Nth(P, k)) = k /\ Rank(P, Nth(P, l)) = l
    BY NthRank
  <1>3. Cardinality(P) \in Nat
    BY FS_CardinalityType
  <1>4. k \in Int /\ l \in Int
    BY <1>3
  <1>5. Nth(P, k) \in Int /\ Nth(P, l) \in Int
    BY <1>1
  <1>6. Rank(P, Nth(P, k)) <= Rank(P, Nth(P, l)) => Nth(P, k) <= Nth(P, l)
    BY <1>1, RankOrder
  <1>7. Nth(P, k) # Nth(P, l)
    BY <1>2, <1>4
  <1>8. QED
    BY <1>2, <1>4, <1>5, <1>6, <1>7

\* .. and none is left out.
LEMMA NthOnto ==
    ASSUME NEW P \in SUBSET Int, IsFiniteSet(P), NEW i \in P
    PROVE  \E k \in 1..Cardinality(P) : Nth(P, k) = i
  <1>1. Rank(P, i) \in 1..Cardinality(P)
    BY RankInRange
  <1>2. Nth(P, Rank(P, i)) \in P /\ Rank(P, Nth(P, Rank(P, i))) = Rank(P, i)
    BY <1>1, NthRank
  <1>3. Nth(P, Rank(P, i)) = i
    BY <1>2, RankOrder
  <1>4. QED
    BY <1>1, <1>3

\* A filtered list is read off the list at growing positions, which are all
\* those that hold an element of S.
LEMMA KeptWitness ==
    ASSUME NEW T, NEW s \in Seq(T), NEW S
    PROVE  /\ Kept(s, S) \in Seq(T)
           /\ Len(Kept(s, S)) = Cardinality(Positions(s, S))
           /\ \A k \in 1..Len(Kept(s, S)) :
                 /\ Nth(Positions(s, S), k) \in Positions(s, S)
                 /\ Kept(s, S)[k] = s[Nth(Positions(s, S), k)]
           /\ \A k, l \in 1..Len(Kept(s, S)) :
                 k < l => Nth(Positions(s, S), k) < Nth(Positions(s, S), l)
           /\ \A i \in Positions(s, S) :
                 \E k \in 1..Len(Kept(s, S)) : Nth(Positions(s, S), k) = i
  <1>1. PICK P : P = Positions(s, S)
    OBVIOUS
  <1>2. PICK n \in Nat : n = Cardinality(P)
    BY <1>1, PositionsFinite
  <1>3. P \subseteq 1..Len(s) /\ IsFiniteSet(P) /\ P \in SUBSET Int
    BY <1>1, PositionsFinite
  <1>4. Kept(s, S) = [k \in 1..n |-> s[Nth(P, k)]]
    BY <1>1, <1>2 DEF Kept
  <1>5. \A k \in 1..n : Nth(P, k) \in P
    BY <1>2, <1>3, NthRank
  <1>6. \A k \in 1..n : s[Nth(P, k)] \in T
    BY <1>3, <1>5, ElementOfSeq
  <1>7. Kept(s, S) \in Seq(T) /\ Len(Kept(s, S)) = n
    BY <1>4, <1>6
  <1>8. \A k \in 1..n : Kept(s, S)[k] = s[Nth(P, k)]
    BY <1>4
  <1>9. \A k, l \in 1..n : k < l => Nth(P, k) < Nth(P, l)
    BY <1>2, <1>3, NthGrows
  <1>10. \A i \in P : \E k \in 1..n : Nth(P, k) = i
    BY <1>2, <1>3, NthOnto
  <1>11. QED
    BY <1>1, <1>2, <1>5, <1>7, <1>8, <1>9, <1>10

\* The elements of a filtered list.
LEMMA KeptElements ==
    ASSUME NEW T, NEW s \in Seq(T), NEW S
    PROVE  /\ Kept(s, S) \in Seq(T)
           /\ Len(Kept(s, S)) <= Len(s)
           /\ ToSet(Kept(s, S)) = ToSet(s) \intersect S
           /\ IsInjective(s) => IsInjective(Kept(s, S))
  <1>1. PICK P : P = Positions(s, S)
    OBVIOUS
  <1>2. P = {i \in 1..Len(s) : s[i] \in S} /\ Len(s) \in Nat
    BY <1>1 DEF Positions
  <1>3. PICK m : m = Kept(s, S)
    OBVIOUS
  <1>4. /\ m \in Seq(T) /\ Len(m) = Cardinality(P)
        /\ \A k \in 1..Len(m) : Nth(P, k) \in P /\ m[k] = s[Nth(P, k)]
        /\ \A k, l \in 1..Len(m) : k < l => Nth(P, k) < Nth(P, l)
        /\ \A i \in P : \E k \in 1..Len(m) : Nth(P, k) = i
    BY <1>1, <1>3, KeptWitness
  <1>5. Len(m) <= Len(s)
    <2>1. IsFiniteSet(1..Len(s)) /\ Cardinality(1..Len(s)) = Len(s)
      BY <1>2, FS_Interval
    <2>2. P \in SUBSET (1..Len(s))
      BY <1>2
    <2>3. Cardinality(P) <= Len(s)
      BY <2>1, <2>2, FS_Subset
    <2>4. QED
      BY <1>4, <2>3
  <1>6. ToSet(m) = {s[i] : i \in P}
    BY <1>4 DEF ToSet
  <1>7. {s[i] : i \in P} = ToSet(s) \intersect S
    BY <1>2 DEF ToSet
  <1>8. ASSUME IsInjective(s), NEW k \in 1..Len(m), NEW l \in 1..Len(m), m[k] = m[l]
        PROVE  k = l
    <2>1. Nth(P, k) = Nth(P, l)
      BY <1>2, <1>4, <1>8 DEF IsInjective
    <2>2. k \in Int /\ l \in Int /\ Nth(P, k) \in Int
      BY <1>2, <1>4
    <2>3. ~(k < l) /\ ~(l < k)
      BY <1>4, <2>1, <2>2
    <2>4. QED
      BY <2>2, <2>3
  <1>9. DOMAIN m = 1..Len(m)
    BY <1>4
  <1>10. IsInjective(s) => IsInjective(m)
    BY <1>8, <1>9 DEF IsInjective
  <1>11. QED
    BY <1>3, <1>4, <1>5, <1>6, <1>7, <1>10

\* The elements of a list, by position.
LEMMA InToSet ==
    ASSUME NEW T, NEW s \in Seq(T)
    PROVE  /\ \A i \in 1..Len(s) : s[i] \in ToSet(s)
           /\ \A e \in ToSet(s) : e \in T /\ \E i \in 1..Len(s) : s[i] = e
           /\ ToSet(s) \subseteq T
  BY DEF ToSet

\* Two lists without a common element, one after the other.
LEMMA ConcatOnce ==
    ASSUME NEW T, NEW s \in Seq(T), NEW t \in Seq(T)
    PROVE  /\ s \o t \in Seq(T)
           /\ Len(s \o t) = Len(s) + Len(t)
           /\ ToSet(s \o t) = ToSet(s) \union ToSet(t)
           /\ IsInjective(s) /\ IsInjective(t) /\ ToSet(s) \intersect ToSet(t) = {} =>
                 IsInjective(s \o t)
  <1>1. PICK u : u = s \o t
    OBVIOUS
  <1>2. /\ u \in Seq(T) /\ Len(u) = Len(s) + Len(t)
        /\ \A i \in 1..Len(u) : u[i] = IF i <= Len(s) THEN s[i] ELSE t[i - Len(s)]
    BY <1>1, ConcatProperties
  <1>3. /\ Len(s) \in Nat /\ Len(t) \in Nat
        /\ DOMAIN s = 1..Len(s) /\ DOMAIN t = 1..Len(t) /\ DOMAIN u = 1..Len(u)
    BY <1>2
  <1>4. \A i \in 1..Len(s) : i \in 1..Len(u) /\ u[i] = s[i]
    BY <1>2, <1>3
  <1>5. \A i \in 1..Len(t) : i + Len(s) \in 1..Len(u) /\ u[i + Len(s)] = t[i]
    BY <1>2, <1>3
  <1>6. \A i \in 1..Len(u) : \/ i \in 1..Len(s) /\ u[i] = s[i]
                             \/ i - Len(s) \in 1..Len(t) /\ u[i] = t[i - Len(s)]
    BY <1>2, <1>3
  <1>7. ToSet(u) = ToSet(s) \union ToSet(t)
    <2>1. \A e \in ToSet(u) : e \in ToSet(s) \/ e \in ToSet(t)
      BY <1>3, <1>6 DEF ToSet
    <2>2. \A e \in ToSet(s) : e \in ToSet(u)
      BY <1>3, <1>4 DEF ToSet
    <2>3. \A e \in ToSet(t) : e \in ToSet(u)
      BY <1>3, <1>5 DEF ToSet
    <2>4. QED
      BY <2>1, <2>2, <2>3
  <1>8. ASSUME IsInjective(s), IsInjective(t), ToSet(s) \intersect ToSet(t) = {},
               NEW i \in 1..Len(u), NEW j \in 1..Len(u), u[i] = u[j]
        PROVE  i = j
    <2>1. CASE i \in 1..Len(s) /\ j \in 1..Len(s)
      BY <1>3, <1>4, <1>8, <2>1 DEF IsInjective
    <2>2. CASE i - Len(s) \in 1..Len(t) /\ j - Len(s) \in 1..Len(t)
      <3>1. t[i - Len(s)] = t[j - Len(s)]
        BY <1>2, <1>3, <1>8, <2>2
      <3>2. i - Len(s) = j - Len(s)
        BY <1>3, <1>8, <2>2, <3>1 DEF IsInjective
      <3>3. QED
        BY <1>3, <3>2
    <2>3. CASE /\ i \in 1..Len(s) /\ u[i] = s[i]
               /\ j - Len(s) \in 1..Len(t) /\ u[j] = t[j - Len(s)]
      <3>1. u[i] \in ToSet(s) /\ u[j] \in ToSet(t)
        BY <2>3, InToSet
      <3>2. QED
        BY <1>8, <3>1
    <2>4. CASE /\ j \in 1..Len(s) /\ u[j] = s[j]
               /\ i - Len(s) \in 1..Len(t) /\ u[i] = t[i - Len(s)]
      <3>1. u[j] \in ToSet(s) /\ u[i] \in ToSet(t)
        BY <2>4, InToSet
      <3>2. QED
        BY <1>8, <3>1
    <2>5. QED
      BY <1>6, <2>1, <2>2, <2>3, <2>4
  <1>9. IsInjective(s) /\ IsInjective(t) /\ ToSet(s) \intersect ToSet(t) = {} => IsInjective(u)
    BY <1>3, <1>8 DEF IsInjective
  <1>10. QED
    BY <1>1, <1>2, <1>7, <1>9

\* An element at the end of a list.
LEMMA AppendOnce ==
    ASSUME NEW T, NEW s \in Seq(T), NEW e \in T
    PROVE  /\ Append(s, e) \in Seq(T)
           /\ Len(Append(s, e)) = Len(s) + 1
           /\ ToSet(Append(s, e)) = ToSet(s) \union {e}
           /\ IsInjective(s) /\ e \notin ToSet(s) => IsInjective(Append(s, e))
  <1>1. PICK t : t = <<e>>
    OBVIOUS
  <1>2. t \in Seq(T) /\ Len(t) = 1 /\ t[1] = e /\ DOMAIN t = 1..1
    BY <1>1
  <1>3. ToSet(t) = {e} /\ IsInjective(t)
    BY <1>2 DEF ToSet, IsInjective
  <1>4. Append(s, e) = s \o t
    BY <1>1, AppendIsConcat
  <1>5. e \notin ToSet(s) => ToSet(s) \intersect ToSet(t) = {}
    BY <1>3
  <1>6. QED
    BY <1>2, <1>3, <1>4, <1>5, ConcatOnce

\* The first element of a list, and the others.
LEMMA HeadAndTail ==
    ASSUME NEW T, NEW s \in Seq(T), s # <<>>
    PROVE  /\ Head(s) \in T /\ Tail(s) \in Seq(T)
           /\ Len(Tail(s)) = Len(s) - 1
           /\ ToSet(s) = {Head(s)} \union ToSet(Tail(s))
           /\ IsInjective(s) => IsInjective(Tail(s)) /\ Head(s) \notin ToSet(Tail(s))
  <1>1. PICK t : t = Tail(s)
    OBVIOUS
  <1>2. /\ Len(s) \in Nat \ {0} /\ Head(s) = s[1] /\ Head(s) \in T
        /\ t \in Seq(T) /\ Len(t) = Len(s) - 1
    BY <1>1, EmptySeq, HeadTailProperties
  <1>3. \A i \in 1..Len(t) : i + 1 \in 1..Len(s) /\ t[i] = s[i + 1]
    BY <1>1, <1>2, HeadTailProperties
  <1>4. \A i \in 1..Len(s) : i = 1 \/ (i - 1 \in 1..Len(t) /\ t[i - 1] = s[i])
    BY <1>2, <1>3
  <1>5. DOMAIN s = 1..Len(s) /\ DOMAIN t = 1..Len(t)
    BY <1>2
  <1>6. ToSet(s) = {Head(s)} \union ToSet(t)
    <2>1. \A e \in ToSet(s) : e = Head(s) \/ e \in ToSet(t)
      BY <1>2, <1>4, <1>5 DEF ToSet
    <2>2. \A e \in ToSet(t) : e \in ToSet(s)
      BY <1>3, <1>5 DEF ToSet
    <2>3. Head(s) \in ToSet(s)
      BY <1>2, <1>5 DEF ToSet
    <2>4. QED
      BY <2>1, <2>2, <2>3
  <1>7. ASSUME IsInjective(s)
        PROVE  IsInjective(t) /\ Head(s) \notin ToSet(t)
    <2>1. ASSUME NEW i \in 1..Len(t), NEW j \in 1..Len(t), t[i] = t[j]
          PROVE  i = j
      <3>1. i + 1 = j + 1
        BY <1>3, <1>5, <1>7, <2>1 DEF IsInjective
      <3>2. QED
        BY <1>2, <3>1
    <2>2. ASSUME NEW i \in 1..Len(t)
          PROVE  t[i] # Head(s)
      BY <1>2, <1>3, <1>5, <1>7, <2>2 DEF IsInjective
    <2>3. QED
      BY <1>5, <2>1, <2>2 DEF IsInjective, ToSet
  <1>8. QED
    BY <1>1, <1>2, <1>6, <1>7

\* The last c elements of a longer list.
LEMMA SuffixOnce ==
    ASSUME NEW T, NEW s \in Seq(T), NEW c \in Nat, Len(s) > c
    PROVE  LET r == SubSeq(s, Len(s) - c + 1, Len(s))
           IN  /\ r \in Seq(T) /\ Len(r) = c
               /\ \A i \in 1..c : i + (Len(s) - c) \in 1..Len(s) /\ r[i] = s[i + (Len(s) - c)]
               /\ ToSet(r) \subseteq ToSet(s)
               /\ IsInjective(s) => IsInjective(r)
  <1>1. PICK r : r = SubSeq(s, Len(s) - c + 1, Len(s))
    OBVIOUS
  <1>2. PICK m \in Nat : m = Len(s) - c
    OBVIOUS
  <1>3. Len(s) = m + c /\ m > 0
    BY <1>2
  <1>4. \A i \in m + 1 .. Len(s) : s[i] \in T
    BY <1>3
  <1>5. /\ r \in Seq(T) /\ Len(r) = c
        /\ \A i \in 1..c : r[i] = s[i + m]
    <2>1. r = SubSeq(s, m + 1, m + c)
      BY <1>1, <1>2, <1>3
    <2>2. m + 1 \in Int /\ m + c \in Int /\ \A i \in m + 1 .. m + c : s[i] \in T
      BY <1>3, <1>4
    <2>3. /\ r \in Seq(T)
          /\ Len(r) = IF m + 1 <= m + c THEN (m + c) - (m + 1) + 1 ELSE 0
          /\ \A i \in 1 .. (m + c) - (m + 1) + 1 : r[i] = s[(m + 1) + i - 1]
      BY <2>1, <2>2, SubSeqProperties
    <2>4. QED
      BY <2>3
  <1>6. \A i \in 1..c : i + m \in 1..Len(s)
    BY <1>3
  <1>7. DOMAIN r = 1..c /\ DOMAIN s = 1..Len(s)
    BY <1>5
  <1>8. ToSet(r) \subseteq ToSet(s)
    BY <1>5, <1>6, <1>7 DEF ToSet
  <1>9. ASSUME IsInjective(s), NEW i \in 1..c, NEW j \in 1..c, r[i] = r[j]
        PROVE  i = j
    <2>1. i + m = j + m
      BY <1>5, <1>6, <1>7, <1>9 DEF IsInjective
    <2>2. QED
      BY <2>1
  <1>10. IsInjective(s) => IsInjective(r)
    BY <1>7, <1>9 DEF IsInjective
  <1>11. QED
    BY <1>1, <1>2, <1>5, <1>6, <1>8, <1>10

\* A finite set of numbers has a greatest element ..
LEMMA MaxOf ==
    ASSUME NEW P \in SUBSET Int, IsFiniteSet(P), P # {}
    PROVE  Max(P) \in P /\ \A i \in P : i <= Max(P)
  <1>1. Cardinality(P) \in Nat /\ Cardinality(P) # 0
    BY FS_CardinalityType, FS_EmptySet
  <1>2. PICK m \in P : Rank(P, m) = Cardinality(P)
    BY <1>1, RankOnto
  <1>3. \A i \in P : i <= m
    <2> SUFFICES ASSUME NEW i \in P PROVE i <= m
      OBVIOUS
    <2>1. Rank(P, i) \in 1..Cardinality(P)
      BY RankInRange
    <2>2. Rank(P, i) <= Rank(P, m)
      BY <1>1, <1>2, <2>1
    <2>3. QED
      BY <2>2, RankOrder
  <1>4. \A i \in P : m >= i
    BY <1>3
  <1>5. Max(P) \in P /\ \A i \in P : Max(P) >= i
    BY <1>4 DEF Max
  <1>6. QED
    BY <1>5

\* .. and no other is.
LEMMA MaxIs ==
    ASSUME NEW P \in SUBSET Int, IsFiniteSet(P), NEW m \in P, \A i \in P : i <= m
    PROVE  Max(P) = m
  <1>1. Max(P) \in P /\ m <= Max(P)
    BY MaxOf
  <1>2. Max(P) <= m /\ Max(P) \in Int /\ m \in Int
    BY <1>1
  <1>3. QED
    BY <1>1, <1>2

\* The same of a least element.
LEMMA MinOf ==
    ASSUME NEW P \in SUBSET Int, IsFiniteSet(P), P # {}
    PROVE  Min(P) \in P /\ \A i \in P : Min(P) <= i
  <1>1. Cardinality(P) \in Nat /\ Cardinality(P) # 0
    BY FS_CardinalityType, FS_EmptySet
  <1>2. PICK m \in P : Rank(P, m) = 1
    BY <1>1, RankOnto
  <1>3. \A i \in P : m <= i
    <2> SUFFICES ASSUME NEW i \in P PROVE m <= i
      OBVIOUS
    <2>1. Rank(P, i) \in 1..Cardinality(P)
      BY RankInRange
    <2>2. Rank(P, m) <= Rank(P, i)
      BY <1>1, <1>2, <2>1
    <2>3. QED
      BY <2>2, RankOrder
  <1>4. QED
    BY <1>3 DEF Min

LEMMA MinIs ==
    ASSUME NEW P \in SUBSET Int, IsFiniteSet(P), NEW m \in P, \A i \in P : m <= i
    PROVE  Min(P) = m
  <1>1. Min(P) \in P /\ Min(P) <= m
    BY MinOf
  <1>2. m <= Min(P) /\ Min(P) \in Int /\ m \in Int
    BY <1>1
  <1>3. QED
    BY <1>1, <1>2

\* Positions that are read off others in growing order: the last of them leads to
\* the last of the others.
LEMMA MaxAlong ==
    ASSUME NEW P \in SUBSET Int, IsFiniteSet(P), NEW Q \in SUBSET Int, IsFiniteSet(Q),
           NEW f, P # {},
           \A k \in P : f[k] \in Q,
           \A k, l \in P : k < l => f[k] < f[l],
           \A i \in Q : \E k \in P : f[k] = i
    PROVE  Q # {} /\ Max(Q) = f[Max(P)]
  <1>1. Max(P) \in P /\ \A i \in P : i <= Max(P)
    BY MaxOf
  <1>2. f[Max(P)] \in Q
    BY <1>1
  <1>3. \A i \in Q : i <= f[Max(P)]
    <2> SUFFICES ASSUME NEW i \in Q PROVE i <= f[Max(P)]
      OBVIOUS
    <2>1. PICK k \in P : f[k] = i
      OBVIOUS
    <2>2. k \in Int /\ Max(P) \in Int /\ i \in Int /\ f[Max(P)] \in Int
      BY <1>1, <1>2
    <2>3. k = Max(P) \/ k < Max(P)
      BY <1>1, <2>2
    <2>4. QED
      BY <1>1, <2>1, <2>2, <2>3
  <1>4. QED
    BY <1>2, <1>3, MaxIs

\* Positions up to n, and the next one.
LEMMA NextPosition ==
    ASSUME NEW n \in Nat, NEW S \in SUBSET (1..n)
    PROVE  /\ S \in SUBSET Int /\ IsFiniteSet(S) /\ Cardinality(S) \in Nat
           /\ S # {} => Max(S) \in S /\ Min(S) \in S
           /\ Max(S \union {n + 1}) = n + 1
           /\ Min(S \union {n + 1}) = IF S = {} THEN n + 1 ELSE Min(S)
           /\ Cardinality(S \union {n + 1}) = Cardinality(S) + 1
  <1>1. S \in SUBSET Int /\ (\A i \in S : i <= n + 1) /\ n + 1 \notin S /\ n + 1 \in Int
    OBVIOUS
  <1>2. IsFiniteSet(1..n)
    BY FS_Interval
  <1>3. IsFiniteSet(S) /\ Cardinality(S) \in Nat
    BY <1>2, FS_Subset, FS_CardinalityType
  <1>4. S # {} => Max(S) \in S /\ Min(S) \in S /\ \A i \in S : Min(S) <= i
    BY <1>1, <1>3, MaxOf, MinOf
  <1>5. PICK U : U = S \union {n + 1}
    OBVIOUS
  <1>6. IsFiniteSet(U) /\ Cardinality(U) = Cardinality(S) + 1
    BY <1>1, <1>3, <1>5, FS_AddElement
  <1>7. U \in SUBSET Int /\ n + 1 \in U /\ (\A i \in U : i <= n + 1)
    BY <1>1, <1>5
  <1>8. Max(U) = n + 1
    BY <1>6, <1>7, MaxIs
  <1>9. CASE S = {}
    <2>1. \A i \in U : n + 1 <= i
      BY <1>1, <1>5, <1>9
    <2>2. Min(U) = n + 1
      BY <1>6, <1>7, <2>1, MinIs
    <2>3. QED
      BY <1>1, <1>3, <1>4, <1>5, <1>6, <1>8, <1>9, <2>2
  <1>10. CASE S # {}
    <2>1. Min(S) \in U /\ Min(S) <= n + 1
      BY <1>1, <1>4, <1>5, <1>10
    <2>2. \A i \in U : Min(S) <= i
      BY <1>4, <1>5, <1>10, <2>1
    <2>3. Min(U) = Min(S)
      BY <1>6, <1>7, <2>1, <2>2, MinIs
    <2>4. QED
      BY <1>1, <1>3, <1>4, <1>5, <1>6, <1>8, <1>10, <2>3
  <1>11. QED
    BY <1>9, <1>10
=============================================================================
