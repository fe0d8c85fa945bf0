------------------------------ MODULE SeqLemmas -----------------------------
(***************************************************************************)
(* Sequences and the positions in them, as the proofs about the pools and  *)
(* tables of nbstftp need them: which entry is the first of its kind, what *)
(* removing an entry leaves, and how many entries of a kind there are.     *)
(***************************************************************************)
EXTENDS Integers, FiniteSets, SequencesExt, SequenceTheorems, FiniteSetTheorems, FunctionTheorems,
        WellFoundedInduction, TLAPS

\* A non-empty set of positions has a least one, which Min returns.
LEMMA LeastPosition ==
    ASSUME NEW n \in Nat, NEW I, I \subseteq 1..n, I # {}
    PROVE  Min(I) \in I /\ \A y \in I : Min(I) <= y
  <1>1. I \subseteq Nat
    OBVIOUS
  <1>2. PICK x \in I : \A y \in I : ~(<<y, x>> \in OpToRel(<, Nat))
    BY <1>1, NatLessThanWellFounded, WFMin
  <1>3. ASSUME NEW y \in I PROVE x <= y
    <2>1. SUFFICES ASSUME y < x PROVE FALSE
      BY <1>1
    <2>2. <<y, x>> \in Nat \X Nat
      BY <1>1
    <2>3. <<y, x>> \in OpToRel(<, Nat)
      BY <2>1, <2>2 DEF OpToRel
    <2> QED
      BY <1>2, <2>3
  <1> QED
    BY <1>3 DEF Min

\* It has a greatest one, which Max returns: the least when counted from the end.
LEMMA GreatestPosition ==
    ASSUME NEW n \in Nat, NEW I, I \subseteq 1..n, I # {}
    PROVE  Max(I) \in I /\ \A y \in I : y <= Max(I)
  <1> DEFINE J == {j \in 1..n : n + 1 - j \in I}
  <1>1. \A i \in I : i \in 1..n /\ n + 1 - i \in J
    OBVIOUS
  <1>2. J \subseteq 1..n /\ J # {}
    BY <1>1
  <1>3. Min(J) \in J /\ \A y \in J : Min(J) <= y
    BY <1>2, LeastPosition
  <1> DEFINE x == n + 1 - Min(J)
  <1>4. x \in I /\ Min(J) \in 1..n
    BY <1>3
  <1>5. ASSUME NEW y \in I PROVE y <= x
    <2>1. y \in 1..n /\ Min(J) <= n + 1 - y
      BY <1>1, <1>3
    <2> QED
      BY <1>4, <2>1
  <1> HIDE DEF x, J
  <1>6. \A y \in I : x >= y
    BY <1>1, <1>4, <1>5
  <1> QED
    BY <1>1, <1>4, <1>6 DEF Max

\* Removing a position closes the gap and keeps the order.
LEMMA RemoveAtProperties ==
    ASSUME NEW S, NEW s \in Seq(S), NEW i \in 1..Len(s)
    PROVE  /\ RemoveAt(s, i) \in Seq(S)
           /\ Len(RemoveAt(s, i)) = Len(s) - 1
           /\ \A j \in 1..Len(s) - 1 :
                RemoveAt(s, i)[j] = IF j < i THEN s[j] ELSE s[j + 1]
  <1> DEFINE a == SubSeq(s, 1, i - 1)
             b == SubSeq(s, i + 1, Len(s))
  <1>1. a \in Seq(S) /\ Len(a) = i - 1 /\ \A j \in 1..i - 1 : a[j] = s[j]
    BY SubSeqProperties, LenProperties
  <1>2. b \in Seq(S) /\ Len(b) = Len(s) - i /\ \A j \in 1..Len(s) - i : b[j] = s[i + j]
    BY SubSeqProperties, LenProperties
  <1>3. Len(s) \in Nat
    BY LenProperties
  <1> HIDE DEF a, b
  <1>4. /\ a \o b \in Seq(S)
        /\ Len(a \o b) = Len(a) + Len(b)
        /\ \A j \in 1..Len(a) + Len(b) :
             (a \o b)[j] = IF j <= Len(a) THEN a[j] ELSE b[j - Len(a)]
    BY <1>1, <1>2, ConcatProperties
  <1>5. Len(a \o b) = Len(s) - 1
    BY <1>1, <1>2, <1>3, <1>4
  <1>6. \A j \in 1..Len(s) - 1 : (a \o b)[j] = IF j < i THEN s[j] ELSE s[j + 1]
    BY <1>1, <1>2, <1>3, <1>4
  <1> QED
    BY <1>4, <1>5, <1>6 DEF RemoveAt, a, b

-----------------------------------------------------------------------------
(***************************************************************************)
(* Counting the entries of a kind.                                         *)
(***************************************************************************)
Positions(s, E) == {i \in 1..Len(s) : s[i] \in E}

\* The positions of a sequence can be counted.
LEMMA PositionsFinite ==
    ASSUME NEW S, NEW s \in Seq(S), NEW E
    PROVE  /\ IsFiniteSet(Positions(s, E)) /\ Cardinality(Positions(s, E)) \in Nat
           /\ (\E i \in 1..Len(s) : s[i] \in E) => Cardinality(Positions(s, E)) # 0
  <1>1. Len(s) \in Nat
    BY LenProperties
  <1>2. IsFiniteSet(1..Len(s))
    BY <1>1, FS_Interval
  <1>3. Positions(s, E) \in SUBSET (1..Len(s))
    BY DEF Positions
  <1>4. IsFiniteSet(Positions(s, E))
    BY <1>2, <1>3, FS_Subset
  <1>5. (\E i \in 1..Len(s) : s[i] \in E) => Positions(s, E) # {}
    BY DEF Positions
  <1> HIDE DEF Positions
  <1> QED
    BY <1>4, <1>5, FS_CardinalityType, FS_EmptySet

\* The sequence without entries has none of any kind.
LEMMA CountEmpty ==
    ASSUME NEW E
    PROVE  Cardinality(Positions(<<>>, E)) = 0
  <1>1. Positions(<<>>, E) = {}
    BY DEF Positions
  <1> QED
    BY <1>1, FS_EmptySet

\* A new entry at the end counts if it is of the kind.
LEMMA CountAppend ==
    ASSUME NEW S, NEW s \in Seq(S), NEW x \in S, NEW E
    PROVE  Cardinality(Positions(Append(s, x), E)) =
               Cardinality(Positions(s, E)) + IF x \in E THEN 1 ELSE 0
  <1> DEFINE t == Append(s, x)
             n == Len(s) + 1
  <1>1. /\ Len(s) \in Nat /\ Len(t) = n /\ t[n] = x
        /\ \A i \in 1..Len(s) : t[i] = s[i]
    BY LenProperties, AppendProperties
  <1> HIDE DEF t
  <1>2. IsFiniteSet(Positions(s, E)) /\ Cardinality(Positions(s, E)) \in Nat
    BY PositionsFinite
  <1>3. n \notin Positions(s, E)
    BY <1>1 DEF Positions
  <1>4. CASE x \in E
    <2>1. Positions(t, E) = Positions(s, E) \union {n}
      BY <1>1, <1>4 DEF Positions
    <2> HIDE DEF n
    <2>2. Cardinality(Positions(s, E) \union {n}) = Cardinality(Positions(s, E)) + 1
      BY <1>2, <1>3, FS_AddElement
    <2> QED
      BY <1>4, <2>1, <2>2 DEF t
  <1>5. CASE x \notin E
    <2>1. Positions(t, E) = Positions(s, E)
      BY <1>1, <1>5 DEF Positions
    <2> QED
      BY <1>2, <1>5, <2>1 DEF t
  <1> QED
    BY <1>4, <1>5

\* An entry that is removed no longer counts; the others still do.
LEMMA CountRemove ==
    ASSUME NEW S, NEW s \in Seq(S), NEW k \in 1..Len(s), NEW E
    PROVE  Cardinality(Positions(RemoveAt(s, k), E)) =
               Cardinality(Positions(s, E)) - IF s[k] \in E THEN 1 ELSE 0
  <1> DEFINE t == RemoveAt(s, k)
             P == Positions(s, E)
             Q == Positions(t, E)
             R == P \ {k}
             f == [i \in Q |-> IF i < k THEN i ELSE i + 1]
  <1>1. /\ Len(s) \in Nat /\ Len(t) = Len(s) - 1
        /\ \A i \in 1..Len(t) : t[i] = IF i < k THEN s[i] ELSE s[i + 1]
    BY LenProperties, RemoveAtProperties
  <1> HIDE DEF t
  <1>2. IsFiniteSet(P) /\ Cardinality(P) \in Nat
    BY PositionsFinite
  <1>3. \A i \in Q : i \in Int /\ (IF i < k THEN i ELSE i + 1) \in R
    BY <1>1 DEF Positions
  <1>4. \A i, j \in Q : (IF i < k THEN i ELSE i + 1) = (IF j < k THEN j ELSE j + 1) => i = j
    BY <1>3
  <1>5. ASSUME NEW r \in R PROVE \E i \in Q : f[i] = r
    <2> DEFINE i == IF r < k THEN r ELSE r - 1
    <2>1. r \in 1..Len(s) /\ r # k /\ s[r] \in E
      BY DEF Positions
    <2>2. i \in 1..Len(t) /\ t[i] = s[r] /\ (IF i < k THEN i ELSE i + 1) = r
      BY <1>1, <2>1
    <2> HIDE DEF i
    <2>3. i \in Q
      BY <2>1, <2>2 DEF Positions
    <2> QED
      BY <2>2, <2>3
  <1> HIDE DEF P, Q, R
  <1>6. f \in Bijection(Q, R)
    <2>1. f \in [Q -> R]
      BY <1>3
    <2>2. \A i, j \in Q : f[i] = f[j] => i = j
      BY <1>4
    <2> HIDE DEF f
    <2> QED
      BY <1>5, <2>1, <2>2, Fun_IsBij
  <1>7. IsFiniteSet(R) /\ Cardinality(R) = IF k \in P THEN Cardinality(P) - 1 ELSE Cardinality(P)
    BY <1>2, FS_RemoveElement DEF R
  <1>8. Cardinality(Q) = Cardinality(R)
    <2>1. ExistsBijection(Q, R)
      BY <1>6 DEF ExistsBijection
    <2>2. ExistsBijection(R, Q)
      BY <2>1, Fun_ExistsBijSymmetric
    <2> QED
      BY <1>7, <2>2, FS_Bijection
  <1>9. k \in P <=> s[k] \in E
    BY DEF P, Positions
  <1> QED
    BY <1>2, <1>7, <1>8, <1>9 DEF P, Q, t

\* Changing entries in place without changing their kind changes no count.
LEMMA CountSame ==
    ASSUME NEW s, NEW t, NEW E, Len(t) = Len(s),
           \A i \in 1..Len(s) : t[i] \in E <=> s[i] \in E
    PROVE  Positions(t, E) = Positions(s, E)
  BY DEF Positions

=============================================================================
