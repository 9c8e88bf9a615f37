----------------------------- MODULE ListingProofs ------------------------------
(***************************************************************************)
(* What Listing!Ascending returns, for any finite set of integers.  Ranks  *)
(* are different and below the number of elements; so each of as many      *)
(* places has its element.                                                 *)
(***************************************************************************)
EXTENDS Listing, Sequences, FiniteSetTheorems, TLAPS

\* An element's rank is one of the places, counted from zero.
LEMMA RankType ==
    ASSUME NEW S \in SUBSET Int, IsFiniteSet(S), NEW n \in S
    PROVE  /\ Rank(S, n) \in Nat
           /\ Rank(S, n) + 1 \in 1 .. Cardinality(S)
<1> DEFINE Below == {m \in S : m < n}
<1>1. n \notin Below
  OBVIOUS
<1>2. IsFiniteSet(Below) /\ Cardinality(Below) <= Cardinality(S)
  BY FS_Subset
<1>3. Cardinality(S) # Cardinality(Below)
  BY <1>1, FS_Subset
<1>4. Cardinality(Below) \in Nat /\ Cardinality(S) \in Nat
  BY <1>2, FS_CardinalityType
<1> QED
  BY <1>2, <1>3, <1>4 DEF Rank

\* Ranks ascend with the elements.
LEMMA RankOrder ==
    ASSUME NEW S \in SUBSET Int, IsFiniteSet(S), NEW n \in S, NEW m \in S, n < m
    PROVE  Rank(S, n) < Rank(S, m)
<1> DEFINE Below(k) == {j \in S : j < k}
<1>1. Below(n) \in SUBSET Below(m) /\ n \in Below(m) /\ n \notin Below(n)
  <2>1. n \in Int /\ m \in Int /\ \A j \in S : j \in Int
    OBVIOUS
  <2>2. \A j \in S : j < n => j < m
    BY <2>1
  <2>3. Below(n) \subseteq Below(m)
    BY <2>2
  <2>4. n \in Below(m) /\ n \notin Below(n)
    BY <2>1
  <2> QED
    BY <2>3, <2>4
<1>2. IsFiniteSet(Below(m)) /\ IsFiniteSet(Below(n))
  BY FS_Subset
<1>3. Cardinality(Below(n)) <= Cardinality(Below(m))
  BY <1>1, <1>2, FS_Subset
<1>4. Cardinality(Below(m)) # Cardinality(Below(n))
  BY <1>1, <1>2, FS_Subset
<1>5. Cardinality(Below(n)) \in Nat /\ Cardinality(Below(m)) \in Nat
  BY <1>2, FS_CardinalityType
<1> QED
  BY <1>3, <1>4, <1>5 DEF Rank

\* Every place has an element.
LEMMA RankOnto ==
    ASSUME NEW S \in SUBSET Int, IsFiniteSet(S), NEW i \in 1 .. Cardinality(S)
    PROVE  \E n \in S : Rank(S, n) = i - 1
<1> DEFINE Places == 1 .. Cardinality(S)
           place == [n \in S |-> Rank(S, n) + 1]
<1>1. Cardinality(S) \in Nat
  BY FS_CardinalityType
<1>2. IsFiniteSet(Places) /\ Cardinality(Places) = Cardinality(S)
  BY <1>1, FS_Interval
<1>3. place \in [S -> Places]
  BY RankType
<1>4. ASSUME NEW n \in S, NEW m \in S, place[n] = place[m]
      PROVE  n = m
  <2>1. Rank(S, n) = Rank(S, m)
    BY <1>4, RankType
  <2> QED
    BY <2>1, RankOrder, RankType
<1>5. place \in Injection(S, Places)
  BY <1>3, <1>4 DEF Injection, IsInjective
<1>6. place \in Surjection(S, Places)
  <2> HIDE DEF Places, place
  <2> QED
    BY <1>2, <1>5, FS_Injection
<1>7. PICK n \in S : place[n] = i
  BY <1>6 DEF Surjection
<1> QED
  BY <1>7, RankType

\* The listing of a set has its elements and no others, in order; each but the
\* last is followed by the next larger one.
THEOREM ListingIsSorted ==
    ASSUME NEW S \in SUBSET Int, IsFiniteSet(S)
    PROVE  /\ Ascending(S) \in Seq(S)
           /\ Len(Ascending(S)) = Cardinality(S)
           /\ \A i, j \in 1 .. Len(Ascending(S)) :
                i < j => Ascending(S)[i] < Ascending(S)[j]
           /\ \A n \in S : \E i \in 1 .. Len(Ascending(S)) : Ascending(S)[i] = n
<1> DEFINE s == Ascending(S)
<1>1. Cardinality(S) \in Nat
  BY FS_CardinalityType
<1>2. \A i \in 1 .. Cardinality(S) : s[i] \in S /\ Rank(S, s[i]) = i - 1
  BY RankOnto DEF Ascending
<1>3. s \in Seq(S) /\ Len(s) = Cardinality(S)
  BY <1>1, <1>2 DEF Ascending
<1> HIDE DEF s
<1>4. \A n \in S : n \in Int /\ Rank(S, n) \in Int
  BY RankType
<1>5. ASSUME NEW i \in 1 .. Len(s), NEW j \in 1 .. Len(s), i < j
      PROVE  s[i] < s[j]
  <2>1. /\ s[i] \in S /\ Rank(S, s[i]) = i - 1
        /\ s[j] \in S /\ Rank(S, s[j]) = j - 1
    BY <1>2, <1>3
  <2>2. Rank(S, s[i]) < Rank(S, s[j])
    BY <1>1, <1>3, <1>5, <2>1
  <2>3. s[i] \in Int /\ s[j] \in Int /\ Rank(S, s[i]) \in Int /\ Rank(S, s[j]) \in Int
    BY <1>4, <2>1
  <2>4. s[i] # s[j] /\ ~ s[j] < s[i]
    BY <2>1, <2>2, <2>3, RankOrder
  <2> QED
    BY <2>3, <2>4
<1>6. ASSUME NEW n \in S
      PROVE  \E i \in 1 .. Len(s) : s[i] = n
  <2> DEFINE i == Rank(S, n) + 1
  <2>1. i \in 1 .. Len(s) /\ Rank(S, n) = i - 1
    BY <1>3, RankType
  <2>2. s[i] \in S /\ Rank(S, s[i]) = Rank(S, n)
    BY <1>2, <1>3, <2>1
  <2>3. s[i] = n
    <3> HIDE DEF s, i
    <3>1. s[i] \in Int /\ n \in Int /\ Rank(S, n) \in Int
      BY <1>4, <2>2
    <3>2. ~ s[i] < n /\ ~ n < s[i]
      BY <2>2, <3>1, RankOrder
    <3> QED
      BY <3>1, <3>2
  <2> QED
    BY <2>1, <2>3
<1> QED
  BY <1>3, <1>5, <1>6 DEF s
===============================================================================
