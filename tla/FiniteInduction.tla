---- MODULE FiniteInduction ----
(***************************************************************************)
(* Induction over finite sets and over numbers, for properties that are    *)
(* given as the set of what has them, and facts about cardinalities and    *)
(* sorted sets.                                                            *)
(***************************************************************************)
EXTENDS Integers, FiniteSets, FiniteSetTheorems, WellFoundedInduction, TLAPS

\* What holds of the empty set, and of a set with one element more, holds of a
\* finite set: no subset is a smallest one outside P.
LEMMA FiniteSetInduction ==
  ASSUME NEW S, IsFiniteSet(S), NEW P, {} \in P,
         \A T \in SUBSET S : \A x \in S \ T : T \in P => T \cup {x} \in P
  PROVE  S \in P
<1> DEFINE Out == {T \in SUBSET S : T \notin P}
<1> SUFFICES ASSUME Out # {} PROVE FALSE
  OBVIOUS
<1>1. IsWellFoundedOn(StrictSubsetOrdering(S), SUBSET S)
  BY FS_StrictSubsetOrderingWellFounded, FS_FiniteSubsetsOfFinite
<1>2. PICK T \in Out : \A U \in Out : <<U, T>> \notin StrictSubsetOrdering(S)
  <2> HIDE DEF Out
  <2>1. Out \subseteq SUBSET S
    BY DEF Out
  <2> QED
    BY <1>1, <2>1, WFMin
<1>3. PICK x \in T : TRUE
  BY <1>2
<1>4. T \ {x} \in P
  <2>1. <<T \ {x}, T>> \in StrictSubsetOrdering(S)
    BY <1>3 DEF StrictSubsetOrdering
  <2> QED
    BY <1>2, <2>1
<1>5. (T \ {x}) \cup {x} = T
  BY <1>3
<1>6. T \ {x} \in SUBSET S /\ x \in S \ (T \ {x})
  BY <1>3
<1> QED
  BY <1>4, <1>5, <1>6

\* What holds of 0, and of a successor, holds of a number.
LEMMA CountInduction ==
  ASSUME NEW n \in Nat, NEW P, 0 \in P, \A k \in 0 .. n - 1 : k \in P => k + 1 \in P
  PROVE  n \in P
<1> DEFINE Q == {T \in SUBSET (1 .. n) : Cardinality(T) \in P}
<1>1. IsFiniteSet(1 .. n) /\ Cardinality(1 .. n) = n
  BY FS_Interval
<1>2. {} \in Q
  BY FS_EmptySet
<1>3. ASSUME NEW T \in SUBSET (1 .. n), NEW x \in (1 .. n) \ T, T \in Q
      PROVE  T \cup {x} \in Q
  <2>1. IsFiniteSet(T) /\ IsFiniteSet(T \cup {x})
    BY <1>1, FS_Subset, FS_AddElement
  <2>2. Cardinality(T) \in Nat /\ Cardinality(T \cup {x}) = Cardinality(T) + 1
    BY <2>1, FS_AddElement, FS_CardinalityType
  <2>3. Cardinality(T \cup {x}) <= n
    <3>1. T \cup {x} \in SUBSET (1 .. n)
      OBVIOUS
    <3> QED
      BY <1>1, <3>1, FS_Subset
  <2> QED
    BY <1>3, <2>2, <2>3
<1> HIDE DEF Q
<1>4. 1 .. n \in Q
  BY <1>1, <1>2, <1>3, FiniteSetInduction
<1> QED
  BY <1>1, <1>4 DEF Q

LEMMA CardDisjoint ==
  ASSUME NEW A, NEW B, IsFiniteSet(A), IsFiniteSet(B), A \cap B = {}
  PROVE  /\ IsFiniteSet(A \cup B) /\ Cardinality(A) \in Nat /\ Cardinality(B) \in Nat
         /\ Cardinality(A \cup B) = Cardinality(A) + Cardinality(B)
<1>1. /\ IsFiniteSet(A \cup B)
      /\ Cardinality(A \cup B) = Cardinality(A) + Cardinality(B) - Cardinality(A \cap B)
  BY FS_Union
<1>2. Cardinality(A) \in Nat /\ Cardinality(B) \in Nat /\ Cardinality(A \cap B) = 0
  BY FS_CardinalityType, FS_EmptySet
<1> QED
  BY <1>1, <1>2

\* One element for each, in both directions.
LEMMA OneForOne ==
  ASSUME NEW S, IsFiniteSet(S), NEW v, \A x, y \in S : v[x] = v[y] => x = y
  PROVE  IsFiniteSet({v[x] : x \in S}) /\ Cardinality({v[x] : x \in S}) = Cardinality(S)
<1> DEFINE f == [x \in S |-> v[x]]
           T == {v[x] : x \in S}
<1>1. f \in Surjection(S, T) /\ f \in Injection(S, T)
  BY DEF Surjection, Injection, IsInjective
<1> QED
  BY <1>1, FS_Surjection

\* An image has at most as many elements.
LEMMA ImageFinite ==
  ASSUME NEW S, IsFiniteSet(S), NEW v
  PROVE  IsFiniteSet({v[x] : x \in S}) /\ Cardinality({v[x] : x \in S}) <= Cardinality(S)
<1> DEFINE f == [x \in S |-> v[x]]
           T == {v[x] : x \in S}
<1>1. f \in Surjection(S, T)
  BY DEF Surjection
<1> HIDE DEF f, T
<1>2. IsFiniteSet(T) /\ Cardinality(T) <= Cardinality(S)
  BY <1>1, FS_Surjection
<1> QED
  BY <1>2 DEF T

\* A strict total order, as the set of its pairs.
Ordered(R, less) ==
  /\ \A t \in R : <<t, t>> \notin less
  /\ \A s, t \in R : s # t => <<s, t>> \in less \/ <<t, s>> \in less
  /\ \A r, s, t \in R : <<r, s>> \in less /\ <<s, t>> \in less => <<r, t>> \in less

\* The place of an element: one after as many as come before it.
PlaceOf(R, less, t) == 1 + Cardinality({s \in R : <<s, t>> \in less})

LEMMA Places ==
  ASSUME NEW R, IsFiniteSet(R), NEW less, Ordered(R, less)
  PROVE  /\ Cardinality(R) \in Nat /\ \A t \in R : PlaceOf(R, less, t) \in 1 .. Cardinality(R)
         /\ \A s, t \in R : <<s, t>> \in less <=> PlaceOf(R, less, s) < PlaceOf(R, less, t)
         /\ \A k \in 1 .. Cardinality(R) : \E t \in R : PlaceOf(R, less, t) = k
<1> DEFINE n == Cardinality(R)
           until(t) == {s \in R : <<s, t>> \in less}
           pos == [t \in R |-> 1 + Cardinality(until(t))]
<1>1. n \in Nat
  BY FS_CardinalityType
<1>2. /\ \A t \in R : <<t, t>> \notin less
      /\ \A s, t \in R : s # t => <<s, t>> \in less \/ <<t, s>> \in less
      /\ \A r, s, t \in R : <<r, s>> \in less /\ <<s, t>> \in less => <<r, t>> \in less
  BY DEF Ordered
<1>3. ASSUME NEW s \in R, NEW t \in R, <<s, t>> \in less PROVE pos[s] < pos[t]
  <2>1. until(s) \subseteq until(t) /\ s \in until(t) /\ s \notin until(s)
    BY <1>2, <1>3
  <2>2. IsFiniteSet(until(s)) /\ IsFiniteSet(until(t))
    BY FS_Subset
  <2>3. Cardinality(until(s)) <= Cardinality(until(t)) /\ Cardinality(until(s)) # Cardinality(until(t))
    BY <2>1, <2>2, FS_Subset
  <2>4. Cardinality(until(s)) \in Nat /\ Cardinality(until(t)) \in Nat
    BY <2>2, FS_CardinalityType
  <2> HIDE DEF until
  <2> QED
    BY <2>3, <2>4
<1>4. ASSUME NEW t \in R PROVE pos[t] \in 1 .. n
  <2>1. until(t) \in SUBSET R /\ t \in R \ until(t)
    BY <1>2
  <2>2. IsFiniteSet(until(t)) /\ Cardinality(until(t)) <= n /\ Cardinality(until(t)) # n
    BY <2>1, FS_Subset
  <2>3. Cardinality(until(t)) \in Nat
    BY <2>2, FS_CardinalityType
  <2> HIDE DEF until, n
  <2> QED
    BY <1>1, <2>2, <2>3
<1>5. pos \in Injection(R, 1 .. n)
  <2>1. \A s, t \in R : pos[s] = pos[t] => s = t
    <3> HIDE DEF pos
    <3>1. \A t \in R : pos[t] \in Int
      BY <1>1, <1>4
    <3>2. \A s, t \in R : <<s, t>> \in less => pos[s] < pos[t]
      BY <1>3
    <3>3. ASSUME NEW s \in R, NEW t \in R, s # t PROVE pos[s] # pos[t]
      <4>1. <<s, t>> \in less \/ <<t, s>> \in less
        BY <1>2, <3>3
      <4>2. pos[s] < pos[t] \/ pos[t] < pos[s]
        BY <3>2, <4>1
      <4> QED
        BY <3>1, <4>2
    <3> QED
      BY <3>3
  <2>2. pos \in [R -> 1 .. n]
    <3>1. \A t \in R : pos[t] \in 1 .. n
      BY <1>4
    <3> HIDE DEF n, until
    <3> QED
      BY <3>1
  <2> HIDE DEF pos, n
  <2> QED
    BY <2>1, <2>2 DEF Injection, IsInjective
<1>6. pos \in Surjection(R, 1 .. n)
  <2>1. IsFiniteSet(1 .. n) /\ Cardinality(1 .. n) = n
    BY <1>1, FS_Interval
  <2> HIDE DEF pos
  <2> QED
    BY <1>5, <2>1, FS_Injection
<1>7. \A k \in 1 .. n : \E t \in R : pos[t] = k
  BY <1>6 DEF Surjection
<1>8. \A t \in R : pos[t] = PlaceOf(R, less, t)
  BY DEF PlaceOf
<1> HIDE DEF pos, n
<1>9. \A s, t \in R : pos[s] < pos[t] => <<s, t>> \in less
  <2>1. ASSUME NEW s \in R, NEW t \in R, pos[s] < pos[t], <<s, t>> \notin less PROVE FALSE
    <3>1. pos[s] \in Int /\ pos[t] \in Int
      <4>1. n \in Nat
        BY <1>1
      <4> QED
        BY <1>4, <4>1
    <3>2. s = t \/ <<t, s>> \in less
      BY <1>2, <2>1
    <3>3. CASE s = t
      BY <2>1, <3>1, <3>3
    <3>4. CASE <<t, s>> \in less
      <4>1. pos[t] < pos[s]
        BY <1>3, <3>4
      <4> QED
        BY <2>1, <3>1, <4>1
    <3> QED
      BY <3>2, <3>3, <3>4
  <2> QED
    BY <2>1
<1> QED
  BY <1>1, <1>3, <1>4, <1>7, <1>8, <1>9 DEF n

\* The elements of a finite set in order.
LEMMA SortedEnumeration ==
  ASSUME NEW R, IsFiniteSet(R), NEW less, Ordered(R, less)
  PROVE  \E p \in [1 .. Cardinality(R) -> R] :
           \A i, j \in 1 .. Cardinality(R) : i < j => p[i] # p[j] /\ <<p[i], p[j]>> \in less
<1> DEFINE n == Cardinality(R)
           pos == [t \in R |-> PlaceOf(R, less, t)]
           p == [k \in 1 .. n |-> CHOOSE t \in R : pos[t] = k]
<1>1. /\ n \in Nat /\ \A s, t \in R : <<s, t>> \in less <=> pos[s] < pos[t]
      /\ \A k \in 1 .. n : \E t \in R : pos[t] = k
  BY Places
<1> HIDE DEF pos, n
<1>2. p \in [1 .. n -> R] /\ \A k \in 1 .. n : pos[p[k]] = k
  BY <1>1
<1> HIDE DEF p
<1>3. \A i, j \in 1 .. n : i < j => p[i] # p[j] /\ <<p[i], p[j]>> \in less
  BY <1>1, <1>2
<1> QED
  BY <1>2, <1>3 DEF n
====
