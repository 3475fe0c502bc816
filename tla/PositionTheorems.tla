-------------------------- MODULE PositionTheorems --------------------------
(***************************************************************************)
(* Lemmas about sets of positions, and induction on the natural numbers.   *)
(***************************************************************************)
EXTENDS Positions, Sequences, FiniteSetTheorems, TLAPS

\* Induction on the natural numbers, for membership of a set: the numbers below the
\* least one outside it are a least finite set among their like.
LEMMA SetInduction ==
  ASSUME NEW S, 0 \in S, \A n \in Nat : n \in S => n + 1 \in S
  PROVE  \A n \in Nat : n \in S
<1> SUFFICES ASSUME NEW m \in Nat, m \notin S PROVE FALSE
  OBVIOUS
<1> DEFINE T == {0..k : k \in Nat \ S}
<1>1. T # {}
  OBVIOUS
<1>2. T \subseteq FiniteSubsetsOf(Nat)
  <2> SUFFICES ASSUME NEW k \in Nat PROVE 0..k \in FiniteSubsetsOf(Nat)
    OBVIOUS
  <2>1. 0..k \in SUBSET Nat
    OBVIOUS
  <2>2. IsFiniteSet(0..k)
    BY FS_Interval
  <2> QED BY <2>1, <2>2 DEF FiniteSubsetsOf
<1>3. IsWellFoundedOn(StrictSubsetOrdering(Nat), FiniteSubsetsOf(Nat))
  BY FS_StrictSubsetOrderingWellFounded
<1> HIDE DEF T
<1>4. PICK x \in T : \A y \in T : ~ (<<y, x>> \in StrictSubsetOrdering(Nat))
  BY <1>1, <1>2, <1>3, WFMin
<1>5. PICK k \in Nat \ S : x = 0..k
  BY DEF T
<1>6. k # 0 /\ k - 1 \in Nat /\ k - 1 \notin S
  <2>1. k # 0
    OBVIOUS
  <2>2. k - 1 \in Nat
    BY <2>1
  <2>3. (k - 1) + 1 = k
    BY <2>2
  <2> QED BY <2>1, <2>2, <2>3
<1>7. 0..(k - 1) \in T
  BY <1>6 DEF T
<1>8. <<0..(k - 1), x>> \in StrictSubsetOrdering(Nat)
  <2>1. 0..(k-1) \subseteq Nat /\ 0..k \subseteq Nat /\ 0..(k-1) \subseteq 0..k
    BY <1>6
  <2>2. k \in 0..k /\ k \notin 0..(k-1)
    BY <1>6
  <2>3. 0..(k-1) # 0..k
    BY <2>2
  <2> QED BY <1>5, <2>1, <2>3 DEF StrictSubsetOrdering
<1> QED BY <1>4, <1>7, <1>8

\* A set of positions that is not empty has a first one.
LEMMA FirstExists ==
  ASSUME NEW positions, positions \subseteq Nat, positions # {}
  PROVE  First(positions) # {}
<1> SUFFICES ASSUME First(positions) = {} PROVE FALSE
  OBVIOUS
<1> DEFINE Below == {k \in Nat : \A p \in positions : k <= p}
<1>1. 0 \in Below
  OBVIOUS
<1>2. ASSUME NEW k \in Nat, k \in Below PROVE k + 1 \in Below
  <2>1. k \notin positions
    BY <1>2 DEF First
  <2> QED BY <1>2, <2>1
<1>3. \A k \in Nat : k \in Below
  <2> HIDE DEF Below
  <2> QED BY <1>1, <1>2, SetInduction
<1>4. PICK p \in positions : p \in Nat
  OBVIOUS
<1>5. p + 1 \in Below
  BY <1>3, <1>4
<1> QED BY <1>4, <1>5

LEMMA TheMember ==
  ASSUME NEW S, S # {}
  PROVE  The(S) \in S
BY DEF The

LEMMA TheOnly ==
  ASSUME NEW x
  PROVE  The({x}) = x
BY DEF The

LEMMA LatestOfMore ==
  ASSUME NEW n \in Nat, NEW positions, positions \subseteq 1..n
  PROVE  Latest(positions \cup {n + 1}) = {n + 1}
<1>1. \A q \in positions : q <= n + 1 /\ ~ n + 1 <= q
  OBVIOUS
<1>2. n + 1 <= n + 1
  OBVIOUS
<1> QED BY <1>1, <1>2 DEF Latest

\* A set of positions that is not empty has a last one.
LEMMA LatestExists ==
  ASSUME NEW n \in Nat, NEW positions, positions \subseteq 1..n, positions # {}
  PROVE  The(Latest(positions)) \in positions
<1> DEFINE P == {k \in Nat : \A S \in SUBSET (1..k) : S # {} => Latest(S) # {}}
<1>1. 0 \in P
  <2>1. 1..0 = {}
    OBVIOUS
  <2> QED BY <2>1
<1>2. ASSUME NEW k \in Nat, k \in P PROVE k + 1 \in P
  <2> SUFFICES ASSUME NEW S \in SUBSET (1..k + 1), S # {} PROVE Latest(S) # {}
    OBVIOUS
  <2>1. CASE k + 1 \in S
    <3>1. PICK T : T \subseteq 1..k /\ S = T \cup {k + 1}
      <4>1. S \ {k + 1} \subseteq 1..k /\ S = (S \ {k + 1}) \cup {k + 1}
        BY <2>1
      <4> QED BY <4>1
    <3>2. Latest(T \cup {k + 1}) = {k + 1}
      <4> HIDE DEF P
      <4> QED BY <3>1, LatestOfMore
    <3> QED BY <3>1, <3>2
  <2>2. CASE k + 1 \notin S
    BY <1>2, <2>2
  <2> QED BY <2>1, <2>2
<1>3. \A k \in Nat : k \in P
  <2> HIDE DEF P
  <2> QED BY <1>1, <1>2, SetInduction
<1>4. Latest(positions) # {}
  BY <1>3
<1>5. Latest(positions) \subseteq positions
  BY DEF Latest
<1> QED BY <1>4, <1>5, TheMember

LEMMA LatestIs ==
  ASSUME NEW positions, positions \subseteq Nat, NEW last \in positions,
         \A p \in positions : p <= last
  PROVE  The(Latest(positions)) = last
<1>1. last \in Latest(positions)
  BY DEF Latest
<1>2. ASSUME NEW p \in Latest(positions) PROVE p = last
  <2>1. p \in Nat /\ last \in Nat /\ p <= last /\ last <= p
    BY DEF Latest
  <2> QED BY <2>1
<1>3. Latest(positions) = {last}
  BY <1>1, <1>2
<1> QED BY <1>3, TheOnly

\* The same for positions that may begin at zero.
LEMMA LatestFromZero ==
  ASSUME NEW n \in Nat, NEW positions, positions \subseteq 0..n, positions # {}
  PROVE  The(Latest(positions)) \in positions
<1>1. CASE positions = {0}
  BY <1>1, LatestIs
<1>2. CASE positions # {0}
  <2> DEFINE later == positions \ {0}
  <2>1. later \subseteq 1..n /\ later # {}
    BY <1>2
  <2>2. Latest(later) = Latest(positions)
    <3>1. positions = later \/ positions = later \cup {0}
      BY <1>2
    <3>2. \A p \in later : p \in Nat /\ 0 <= p /\ ~ p <= 0
      BY <2>1
    <3> HIDE DEF later
    <3> QED BY <2>1, <3>1, <3>2 DEF Latest
  <2> QED BY <2>1, <2>2, LatestExists
<1> QED BY <1>1, <1>2

\* A later position comes after all the others.
LEMMA NthOfMore ==
  ASSUME NEW n \in Nat, NEW positions, positions \subseteq 1..n
  PROVE  /\ Cardinality(positions) \in Nat
         /\ Cardinality(positions \cup {n + 1}) = Cardinality(positions) + 1
         /\ \A k \in 1..Cardinality(positions) :
              Nth(positions \cup {n + 1}, k) = Nth(positions, k)
         /\ Nth(positions \cup {n + 1}, Cardinality(positions) + 1) = {n + 1}
<1> DEFINE more == positions \cup {n + 1}
<1>1. IsFiniteSet(positions)
  <2>1. IsFiniteSet(1..n)
    BY FS_Interval
  <2> QED BY <2>1, FS_Subset
<1>2. Cardinality(positions) \in Nat
  BY <1>1, FS_CardinalityType
<1>3. Cardinality(more) = Cardinality(positions) + 1
  <2>1. n + 1 \notin positions
    OBVIOUS
  <2> QED BY <1>1, <2>1, FS_AddElement
<1>4. ASSUME NEW p \in positions
      PROVE  /\ {q \in more : q <= p} = {q \in positions : q <= p}
             /\ Cardinality({q \in positions : q <= p}) <= Cardinality(positions)
  <2>1. {q \in more : q <= p} = {q \in positions : q <= p}
    OBVIOUS
  <2>2. {q \in positions : q <= p} \subseteq positions
    OBVIOUS
  <2> QED BY <1>1, <2>1, <2>2, FS_Subset
<1>5. {q \in more : q <= n + 1} = more
  <2>1. \A q \in more : q <= n + 1
    OBVIOUS
  <2> QED BY <2>1
<1>6. ASSUME NEW k \in 1..Cardinality(positions) PROVE Nth(more, k) = Nth(positions, k)
  <2>1. \A p \in positions : p \in Nth(more, k) <=> p \in Nth(positions, k)
    BY <1>4 DEF Nth
  <2>2. n + 1 \notin Nth(more, k)
    BY <1>2, <1>3, <1>5 DEF Nth
  <2>3. Nth(more, k) \subseteq more /\ Nth(positions, k) \subseteq positions
    BY DEF Nth
  <2> QED BY <2>1, <2>2, <2>3
<1>7. Nth(more, Cardinality(positions) + 1) = {n + 1}
  <2>1. ASSUME NEW p \in positions PROVE p \notin Nth(more, Cardinality(positions) + 1)
    <3>1. Cardinality({q \in more : q <= p}) <= Cardinality(positions)
      BY <1>4
    <3> QED BY <1>2, <3>1 DEF Nth
  <2>2. n + 1 \in Nth(more, Cardinality(positions) + 1)
    BY <1>3, <1>5 DEF Nth
  <2>3. Nth(more, Cardinality(positions) + 1) \subseteq more
    BY DEF Nth
  <2> QED BY <2>1, <2>2, <2>3
<1> QED BY <1>2, <1>3, <1>6, <1>7

LEMMA NthExists ==
  ASSUME NEW n \in Nat, NEW positions, positions \subseteq 1..n,
         NEW k \in 1..Cardinality(positions)
  PROVE  The(Nth(positions, k)) \in positions
<1> DEFINE P == {m \in Nat : \A S \in SUBSET (1..m) : \A j \in 1..Cardinality(S) : Nth(S, j) # {}}
<1>1. 0 \in P
  <2> SUFFICES ASSUME NEW S \in SUBSET (1..0), NEW j \in 1..Cardinality(S) PROVE FALSE
    OBVIOUS
  <2>1. S = {}
    OBVIOUS
  <2> QED BY <2>1, FS_EmptySet
<1>2. ASSUME NEW m \in Nat, m \in P PROVE m + 1 \in P
  <2> SUFFICES ASSUME NEW S \in SUBSET (1..m + 1), NEW j \in 1..Cardinality(S)
               PROVE  Nth(S, j) # {}
    OBVIOUS
  <2>1. CASE m + 1 \in S
    <3> DEFINE T == S \ {m + 1}
    <3>1. T \subseteq 1..m /\ S = T \cup {m + 1}
      BY <2>1
    <3> HIDE DEF T
    <3>2. /\ Cardinality(T) \in Nat
          /\ Cardinality(S) = Cardinality(T) + 1
          /\ \A i \in 1..Cardinality(T) : Nth(S, i) = Nth(T, i)
          /\ Nth(S, Cardinality(T) + 1) = {m + 1}
      <4> HIDE DEF P
      <4>1. T \subseteq 1..m
        BY <3>1
      <4>2. /\ Cardinality(T) \in Nat
            /\ Cardinality(T \cup {m + 1}) = Cardinality(T) + 1
            /\ \A i \in 1..Cardinality(T) : Nth(T \cup {m + 1}, i) = Nth(T, i)
            /\ Nth(T \cup {m + 1}, Cardinality(T) + 1) = {m + 1}
        BY <4>1, NthOfMore
      <4> QED BY <3>1, <4>2
    <3>3. \A i \in 1..Cardinality(T) : Nth(T, i) # {}
      BY <1>2, <3>1
    <3>4. j \in 1..Cardinality(T) \/ j = Cardinality(T) + 1
      BY <3>2
    <3> QED BY <3>2, <3>3, <3>4
  <2>2. CASE m + 1 \notin S
    BY <1>2, <2>2
  <2> QED BY <2>1, <2>2
<1>3. \A m \in Nat : m \in P
  <2> HIDE DEF P
  <2> QED BY <1>1, <1>2, SetInduction
<1>4. Nth(positions, k) # {}
  BY <1>3
<1>5. Nth(positions, k) \subseteq positions
  BY DEF Nth
<1> QED BY <1>4, <1>5, TheMember

\* Nothing stands at no position.
LEMMA ValuesInOrderOfNone ==
  ASSUME NEW at, DOMAIN at = {}
  PROVE  ValuesInOrder(at) = <<>>
<1>1. Cardinality(DOMAIN at) = 0
  BY FS_EmptySet
<1>2. 1..Cardinality(DOMAIN at) = {}
  BY <1>1
<1> QED BY <1>2 DEF ValuesInOrder

\* In order, what stands at a later position comes after all the others.
LEMMA ValuesInOrderOfMore ==
  ASSUME NEW n \in Nat, NEW at, NEW more, DOMAIN at \subseteq 1..n,
         DOMAIN more = DOMAIN at \cup {n + 1}, \A p \in DOMAIN at : more[p] = at[p]
  PROVE  ValuesInOrder(more) = Append(ValuesInOrder(at), more[n + 1])
<1> DEFINE S == DOMAIN at
<1>1. /\ Cardinality(S) \in Nat
      /\ Cardinality(S \cup {n + 1}) = Cardinality(S) + 1
      /\ \A k \in 1..Cardinality(S) : Nth(S \cup {n + 1}, k) = Nth(S, k)
      /\ Nth(S \cup {n + 1}, Cardinality(S) + 1) = {n + 1}
  BY NthOfMore
<1>2. PICK c \in Nat : c = Cardinality(S)
  BY <1>1
<1>3. ValuesInOrder(at) = [k \in 1..c |-> at[The(Nth(S, k))]]
  BY <1>2 DEF ValuesInOrder
<1>4. ValuesInOrder(more) = [k \in 1..c + 1 |-> more[The(Nth(S \cup {n + 1}, k))]]
  BY <1>1, <1>2 DEF ValuesInOrder
<1>5. \A k \in 1..c : more[The(Nth(S \cup {n + 1}, k))] = at[The(Nth(S, k))]
  <2> TAKE k \in 1..c
  <2>1. The(Nth(S, k)) \in S
    BY <1>2, NthExists
  <2>2. The(Nth(S \cup {n + 1}, k)) = The(Nth(S, k))
    BY <1>1, <1>2
  <2> QED BY <2>1, <2>2
<1>6. more[The(Nth(S \cup {n + 1}, c + 1))] = more[n + 1]
  BY <1>1, <1>2, TheOnly
<1> DEFINE Values(k) == at[The(Nth(S, k))]
           MoreValues(k) == more[The(Nth(S \cup {n + 1}, k))]
<1>7. ValuesInOrder(at) = [k \in 1..c |-> Values(k)] /\ ValuesInOrder(more) = [k \in 1..c + 1 |-> MoreValues(k)]
  BY <1>3, <1>4
<1>8. (\A k \in 1..c : MoreValues(k) = Values(k)) /\ MoreValues(c + 1) = more[n + 1]
  BY <1>5, <1>6
<1> HIDE DEF Values, MoreValues
<1> QED BY <1>7, <1>8

Agree(s, t, n) == \A k \in 1..n : s[k] = t[k]

\* In order, what stands at the positions up to n comes first.
LEMMA ValuesInOrderPrefix ==
  ASSUME NEW n \in Nat, NEW m \in Nat, NEW at, NEW more,
         DOMAIN more \subseteq 1..m, DOMAIN at = {p \in DOMAIN more : p <= n},
         \A p \in DOMAIN at : more[p] = at[p]
  PROVE  /\ Cardinality(DOMAIN at) \in Nat /\ Cardinality(DOMAIN more) \in Nat
         /\ Cardinality(DOMAIN at) <= Cardinality(DOMAIN more)
         /\ Agree(ValuesInOrder(more), ValuesInOrder(at), Cardinality(DOMAIN at))
<1> DEFINE S == DOMAIN at
           T == DOMAIN more
<1>1. IsFiniteSet(T)
  <2>1. IsFiniteSet(1..m)
    BY FS_Interval
  <2> QED BY <2>1, FS_Subset
<1>2. S \subseteq T /\ IsFiniteSet(S) /\ Cardinality(S) \in Nat /\ Cardinality(T) \in Nat
      /\ Cardinality(S) <= Cardinality(T)
  <2>1. S \subseteq T
    OBVIOUS
  <2> QED BY <1>1, <2>1, FS_Subset, FS_CardinalityType
<1>3. ASSUME NEW k \in 1..Cardinality(S) PROVE Nth(T, k) = Nth(S, k)
  <2>1. ASSUME NEW p \in S PROVE p \in Nth(T, k) <=> p \in Nth(S, k)
    <3>1. {q \in T : q <= p} = {q \in S : q <= p}
      OBVIOUS
    <3> QED BY <1>2, <3>1 DEF Nth
  <2>2. ASSUME NEW p \in T, p \notin S PROVE p \notin Nth(T, k)
    <3> DEFINE low == {q \in T : q <= p}
    <3>1. S \cup {p} \subseteq low /\ low \subseteq T
      BY <1>2, <2>2
    <3>2. IsFiniteSet(low)
      BY <1>1, <3>1, FS_Subset
    <3>3. Cardinality(S \cup {p}) = Cardinality(S) + 1
      BY <1>2, <2>2, FS_AddElement
    <3> HIDE DEF low
    <3>4. Cardinality(S) + 1 <= Cardinality(low) /\ Cardinality(low) \in Nat
      BY <3>1, <3>2, <3>3, FS_Subset, FS_CardinalityType
    <3>5. Cardinality(low) # k
      BY <1>2, <3>4
    <3> QED BY <3>5 DEF Nth, low
  <2>3. Nth(T, k) \subseteq T /\ Nth(S, k) \subseteq S
    BY DEF Nth
  <2> QED BY <1>2, <2>1, <2>2, <2>3
<1>4. ASSUME NEW k \in 1..Cardinality(S) PROVE ValuesInOrder(more)[k] = ValuesInOrder(at)[k]
  <2>1. The(Nth(S, k)) \in S
    BY NthExists
  <2>2. ValuesInOrder(at)[k] = at[The(Nth(S, k))]
    BY DEF ValuesInOrder
  <2>3. ValuesInOrder(more)[k] = more[The(Nth(T, k))]
    BY <1>2 DEF ValuesInOrder
  <2> QED BY <1>3, <2>1, <2>2, <2>3
<1> QED BY <1>2, <1>4 DEF Agree

\* What stands at the positions, in order, is a sequence of their values.
LEMMA ValuesInOrderType ==
  ASSUME NEW n \in Nat, NEW V, NEW at, DOMAIN at \subseteq 1..n,
         \A p \in DOMAIN at : at[p] \in V
  PROVE  ValuesInOrder(at) \in Seq(V)
<1>1. IsFiniteSet(DOMAIN at)
  <2>1. IsFiniteSet(1..n)
    BY FS_Interval
  <2> QED BY <2>1, FS_Subset
<1>2. Cardinality(DOMAIN at) \in Nat
  BY <1>1, FS_CardinalityType
<1>3. \A k \in 1..Cardinality(DOMAIN at) : The(Nth(DOMAIN at, k)) \in DOMAIN at
  BY NthExists
<1> QED BY <1>2, <1>3 DEF ValuesInOrder

LEMMA ValuesInOrderLength ==
  ASSUME NEW n \in Nat, NEW at, DOMAIN at \subseteq 1..n
  PROVE  Len(ValuesInOrder(at)) = Cardinality(DOMAIN at) /\ Cardinality(DOMAIN at) \in Nat
<1>1. IsFiniteSet(DOMAIN at)
  <2>1. IsFiniteSet(1..n)
    BY FS_Interval
  <2> QED BY <2>1, FS_Subset
<1>2. PICK c \in Nat : c = Cardinality(DOMAIN at)
  BY <1>1, FS_CardinalityType
<1> DEFINE V == {at[p] : p \in DOMAIN at}
<1>3. ValuesInOrder(at) \in Seq(V)
  BY ValuesInOrderType
<1>4. DOMAIN ValuesInOrder(at) = 1..c
  BY <1>2 DEF ValuesInOrder
<1>5. Len(ValuesInOrder(at)) \in Nat /\ DOMAIN ValuesInOrder(at) = 1..Len(ValuesInOrder(at))
  BY <1>3
<1>6. PICK l \in Nat : l = Len(ValuesInOrder(at)) /\ 1..l = 1..c
  BY <1>4, <1>5
<1>7. l = c
  <2>1. ~ l < c
    <3>1. l < c => c \in 1..c /\ c \notin 1..l
      OBVIOUS
    <3> QED BY <1>6, <3>1
  <2>2. ~ c < l
    <3>1. c < l => l \in 1..l /\ l \notin 1..c
      OBVIOUS
    <3> QED BY <1>6, <3>1
  <2> QED BY <2>1, <2>2
<1> QED BY <1>2, <1>6, <1>7

=============================================================================
