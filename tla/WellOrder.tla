----------------------------- MODULE WellOrder ------------------------------
(***************************************************************************)
(* A lemma about the natural numbers that the proofs of several components *)
(* use in the place of an induction.                                       *)
(***************************************************************************)
EXTENDS Naturals, WellFoundedInduction, TLAPS

(* Every nonempty set of naturals has a least element. *)
LEMMA LeastNatural ==
    ASSUME NEW S \in SUBSET Nat, S # {}
    PROVE  \E m \in S : \A n \in S : m <= n
<1>. DEFINE R == OpToRel(<, Nat)
<1>1. IsWellFoundedOn(R, Nat)
  BY NatLessThanWellFounded
<1>2. \A n, m \in Nat : n < m => <<n, m>> \in R
  BY DEF OpToRel
<1>. HIDE DEF R
<1>3. PICK m \in S : \A n \in S : ~(<<n, m>> \in R)
  BY <1>1, WFMin, Zenon
<1>4. \A n \in S : ~(n < m)
  BY <1>2, <1>3
<1>. QED  BY <1>4

-----------------------------------------------------------------------------
(* Recursive definitions over a graph whose cycles nobody excludes.  What is  *)
(* reached from a node is the least set that is closed under its edges.       *)
ClosedUnder(next, S) == \A y \in S : next[y] \subseteq S
ReachedFrom(D, next, x) == {z \in D : \A S \in SUBSET D : x \in S /\ ClosedUnder(next, S) => z \in S}

(* What is reached from a node is the node, and what is reached from the ones
   it leads to. *)
LEMMA ReachedStep ==
    ASSUME NEW D, NEW next \in [D -> SUBSET D], NEW x \in D
    PROVE  ReachedFrom(D, next, x) = {x} \cup UNION {ReachedFrom(D, next, y) : y \in next[x]}
<1>. DEFINE T == {x} \cup UNION {ReachedFrom(D, next, y) : y \in next[x]}
<1>1. \A y \in D : y \in ReachedFrom(D, next, y)
  BY DEF ReachedFrom
<1>2. \A y \in D : \A z \in ReachedFrom(D, next, y) : next[z] \subseteq ReachedFrom(D, next, y)
  BY DEF ReachedFrom, ClosedUnder
<1>3. T \in SUBSET D /\ x \in T
  BY DEF ReachedFrom
<1>4. ClosedUnder(next, T)
  BY <1>1, <1>2 DEF ClosedUnder
<1>5. ReachedFrom(D, next, x) \subseteq T
  <2>. HIDE DEF T
  <2>. QED  BY <1>3, <1>4 DEF ReachedFrom
<1>6. ASSUME NEW y \in next[x], NEW z \in ReachedFrom(D, next, y)
      PROVE  z \in ReachedFrom(D, next, x)
  BY <1>6 DEF ReachedFrom, ClosedUnder
<1>. QED  BY <1>1, <1>5, <1>6

(* The functions that collect the nodes below each node, and those that follow
   the only edge of each node until it stops. *)
Collects(f, D, next) == f = [x \in D |-> {x} \cup UNION {f[y] : y \in next[x]}]
Walks(f, D, stop, next) == f = [x \in D |-> IF x \in stop THEN x ELSE f[next[x]]]

(* The former can be defined by recursion. *)
LEMMA CollectingExists ==
    ASSUME NEW D, NEW next \in [D -> SUBSET D]
    PROVE  \E f : Collects(f, D, next)
<1>. DEFINE f == [x \in D |-> ReachedFrom(D, next, x)]
<1>1. ASSUME NEW x \in D
      PROVE  f[x] = {x} \cup UNION {f[y] : y \in next[x]}
  <2>1. \A y \in next[x] : f[y] = ReachedFrom(D, next, y)
    OBVIOUS
  <2>2. {f[y] : y \in next[x]} = {ReachedFrom(D, next, y) : y \in next[x]}
    BY <2>1
  <2>. QED  BY <2>2, ReachedStep
<1>2. f = [x \in D |-> {x} \cup UNION {f[y] : y \in next[x]}]
  BY <1>1
<1>. QED  BY <1>2 DEF Collects

(* So can the latter. *)
LEMMA WalkingExists ==
    ASSUME NEW D, NEW stop \in SUBSET D, NEW next \in [D \ stop -> D]
    PROVE  \E f : Walks(f, D, stop, next)
<1>. DEFINE edges == [x \in D |-> IF x \in stop THEN {} ELSE {next[x]}]
            Ends(x) == ReachedFrom(D, edges, x) \cap stop
            f == [x \in D |-> CHOOSE y : y \in Ends(x)]
<1>1. edges \in [D -> SUBSET D]
  OBVIOUS
<1>2. ASSUME NEW x \in stop  PROVE  Ends(x) = {x}
  <2>1. ReachedFrom(D, edges, x) = {x} \cup UNION {ReachedFrom(D, edges, y) : y \in edges[x]}
    BY <1>1, ReachedStep
  <2>2. edges[x] = {}
    OBVIOUS
  <2>. QED  BY <2>1, <2>2
<1>3. ASSUME NEW x \in D \ stop  PROVE  Ends(x) = Ends(next[x])
  <2>1. ReachedFrom(D, edges, x) = {x} \cup UNION {ReachedFrom(D, edges, y) : y \in edges[x]}
    BY <1>1, ReachedStep
  <2>2. edges[x] = {next[x]}
    OBVIOUS
  <2>3. ReachedFrom(D, edges, x) = {x} \cup ReachedFrom(D, edges, next[x])
    BY <2>1, <2>2
  <2>. QED  BY <2>3
<1>4. \A x \in D : f[x] = CHOOSE y : y \in Ends(x)
  OBVIOUS
<1>. HIDE DEF Ends
<1>5. ASSUME NEW x \in D
      PROVE  f[x] = IF x \in stop THEN x ELSE f[next[x]]
  <2>1. CASE x \in stop
    BY <1>2, <1>4, <2>1
  <2>2. CASE x \notin stop
    BY <1>3, <1>4, <2>2
  <2>. QED  BY <2>1, <2>2
<1>6. f = [x \in D |-> IF x \in stop THEN x ELSE f[next[x]]]
  <2>1. f = [x \in D |-> f[x]]
    OBVIOUS
  <2>. HIDE DEF f
  <2>. QED  BY <1>5, <2>1
<1>. QED  BY <1>6 DEF Walks

=============================================================================
