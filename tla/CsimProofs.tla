----------------------------- MODULE CsimProofs -----------------------------
(***************************************************************************)
(* Theorems about the cache simulator, for any number of sets and lines:   *)
(* the lines of a set stay ordered by their counters, and with them the    *)
(* simulator implements an LRU cache.                                      *)
(***************************************************************************)
EXTENDS Csim, WellOrder, FiniteSetTheorems, SequenceTheorems

(* 1 << k is the number of subsets of k things, and so at least 1. *)
LEMMA PowerOfTwo == ASSUME NEW k \in Nat PROVE 2^k \in Nat \ {0}
<1>1. IsFiniteSet(1 .. k) /\ Cardinality(1 .. k) = k
  BY FS_Interval
<1>2. IsFiniteSet(SUBSET (1 .. k)) /\ Cardinality(SUBSET (1 .. k)) = 2^k
  BY <1>1, FS_SUBSET
<1>3. SUBSET (1 .. k) # {}
  OBVIOUS
<1>4. Cardinality(SUBSET (1 .. k)) # 0
  BY <1>2, <1>3, FS_EmptySet
<1>. QED  BY <1>2, <1>4, FS_CardinalityType

(* 1 << (j + k) is the product: a subset of j + k things is a subset of the
   first j and one of the others. *)
LEMMA PowerOfSum == ASSUME NEW j \in Nat, NEW k \in Nat PROVE 2^(j + k) = 2^j * 2^k
<1>. DEFINE A == 1 .. j
            B == j + 1 .. j + k
            f == [T \in SUBSET (A \cup B) |-> <<T \cap A, T \cap B>>]
<1>1. /\ IsFiniteSet(A) /\ Cardinality(A) = j
      /\ IsFiniteSet(B) /\ Cardinality(B) = k
  BY FS_Interval
<1>2. A \cap B = {} /\ A \cup B = 1 .. j + k
  OBVIOUS
<1>. HIDE DEF A, B
<1>3. IsFiniteSet(A \cup B) /\ Cardinality(A \cup B) = j + k
  <2>. DEFINE n == j + k
  <2>0. n \in Nat
    OBVIOUS
  <2>. HIDE DEF n
  <2>2. IsFiniteSet(1 .. n) /\ Cardinality(1 .. n) = n
    BY <2>0, FS_Interval
  <2>1. IsFiniteSet(1 .. j + k) /\ Cardinality(1 .. j + k) = j + k
    BY <2>2 DEF n
  <2>. QED  BY <1>2, <2>1
<1>4. f \in Bijection(SUBSET (A \cup B), (SUBSET A) \X (SUBSET B))
  <2>1. f \in [SUBSET (A \cup B) -> (SUBSET A) \X (SUBSET B)]
    OBVIOUS
  <2>2. \A T, U \in SUBSET (A \cup B) : f[T] = f[U] => T = U
    <3>. SUFFICES ASSUME NEW T \in SUBSET (A \cup B), NEW U \in SUBSET (A \cup B), f[T] = f[U]
                  PROVE  T = U
      OBVIOUS
    <3>1. T \cap A = U \cap A /\ T \cap B = U \cap B
      OBVIOUS
    <3>. QED  BY <3>1
  <2>3. \A y \in (SUBSET A) \X (SUBSET B) : \E T \in SUBSET (A \cup B) : f[T] = y
    <3>. TAKE y \in (SUBSET A) \X (SUBSET B)
    <3>1. PICK X \in SUBSET A, Y \in SUBSET B : y = <<X, Y>>
      OBVIOUS
    <3>2. X \cup Y \in SUBSET (A \cup B) /\ (X \cup Y) \cap A = X /\ (X \cup Y) \cap B = Y
      BY <1>2
    <3>. QED  BY <3>1, <3>2
  <2>. QED  BY <2>1, <2>2, <2>3 DEF Bijection, Injection, Surjection, IsInjective
<1>5. /\ IsFiniteSet(SUBSET A) /\ Cardinality(SUBSET A) = 2^j
      /\ IsFiniteSet(SUBSET B) /\ Cardinality(SUBSET B) = 2^k
      /\ IsFiniteSet(SUBSET (A \cup B)) /\ Cardinality(SUBSET (A \cup B)) = 2^(j + k)
  BY <1>1, <1>3, FS_SUBSET
<1>6. Cardinality((SUBSET A) \X (SUBSET B)) = 2^j * 2^k
  BY <1>5, FS_Product
<1>. HIDE DEF f
<1>7. ExistsBijection(SUBSET (A \cup B), (SUBSET A) \X (SUBSET B))
  BY <1>4 DEF ExistsBijection
<1>. QED  BY <1>5, <1>6, <1>7, FS_Bijection

(* The powers of two that the options give. *)
LEMMA Powers ==
    /\ 2^s \in Nat \ {0} /\ 2^b \in Nat \ {0} /\ 2^(b + s) \in Nat \ {0}
    /\ 2^TagBits \in Nat \ {0} /\ 2^(b + s) = 2^b * 2^s
<1>1. s \in Nat /\ b \in Nat /\ TagBits \in Nat /\ b + s \in Nat
  BY OptionsAssumption, TraceAssumption
<1>2. 2^s \in Nat \ {0} /\ 2^b \in Nat \ {0} /\ 2^TagBits \in Nat \ {0}
  BY <1>1, PowerOfTwo
<1>3. 2^(b + s) \in Nat \ {0}
  BY <1>1, PowerOfTwo
<1>4. 2^(b + s) = 2^b * 2^s
  BY <1>1, PowerOfSum
<1>. QED  BY <1>2, <1>3, <1>4

(* The set index of an address is that of a set, and its tag a number. *)
LEMMA AddressParts ==
    ASSUME NEW addr \in Nat
    PROVE  i_tag(addr) \in Nat /\ s_index(addr) \in Sets
<1>1. /\ 2^s \in Nat \ {0} /\ 2^b \in Nat \ {0} /\ 2^(b + s) \in Nat \ {0}
      /\ 2^TagBits \in Nat \ {0} /\ 2^(b + s) = 2^b * 2^s
  BY Powers
<1>. DEFINE S == 2^s
            B == 2^b
            A == addr % 2^(b + s)
<1>2. A \in Nat /\ A < B * S /\ S \in Nat \ {0} /\ B \in Nat \ {0}
  <2>. DEFINE D == 2^(b + s)
  <2>1. addr % D \in Nat /\ addr % D < D
    <3>. HIDE DEF D
    <3>1. D \in Nat \ {0}
      BY <1>1 DEF D
    <3>. QED  BY <3>1
  <2>. QED  BY <1>1, <2>1
<1>. HIDE DEF A, B, S
<1>3. A \div B \in Nat /\ A = B * (A \div B) + (A % B) /\ A % B \in Nat
  BY <1>2
<1>4. A \div B < S
  <2>1. SUFFICES ASSUME A \div B >= S PROVE FALSE
    BY <1>2, <1>3
  <2>. DEFINE q == A \div B
  <2>2. q \in Nat /\ q >= S /\ B * q <= A
    BY <1>2, <1>3, <2>1
  <2>. HIDE DEF q
  <2>3. B * q >= B * S
    BY <1>2, <2>2
  <2>4. B * q \in Nat /\ B * S \in Nat
    BY <1>2, <2>2
  <2>. QED  BY <1>2, <2>2, <2>3, <2>4
<1>5. i_tag(addr) \in Nat
  BY <1>1 DEF i_tag
<1>. QED  BY <1>2, <1>3, <1>4, <1>5 DEF s_index, Sets, A, B, S

-----------------------------------------------------------------------------
(* The scan stops at a line it looked for, and passed only lines in use that
   hold other blocks. *)
LEMMA StopIsFirst ==
    ASSUME NEW lines \in [Lines -> Line], NEW tag \in Nat, Stops(lines, tag) # {}
    PROVE  /\ Stop(lines, tag) \in Lines
           /\ \/ lines[Stop(lines, tag)].v_bit = 0
              \/ lines[Stop(lines, tag)].v_bit = 1 /\ lines[Stop(lines, tag)].tag = tag
           /\ \A k \in Lines : k < Stop(lines, tag) =>
                 lines[k].v_bit = 1 /\ lines[k].tag # tag
<1>. DEFINE S == Stops(lines, tag)
<1>1. Lines \in SUBSET Nat /\ S \in SUBSET Lines
  BY OptionsAssumption DEF Lines, Stops
<1>2. \E k \in S : \A j \in S : k <= j
  BY <1>1, LeastNatural
<1>3. Stop(lines, tag) \in S /\ \A j \in S : Stop(lines, tag) <= j
  BY <1>2 DEF Stop
<1>. DEFINE m == Stop(lines, tag)
<1>4. m \in S /\ m \in Lines /\ m \in Nat /\ \A j \in S : m <= j /\ j \in Nat
  BY <1>1, <1>3
<1>. HIDE DEF m
<1>5. \A k \in Lines : lines[k].v_bit \in 0 .. 1
  BY DEF Line
<1>6. \/ lines[m].v_bit = 0
      \/ lines[m].v_bit = 1 /\ lines[m].tag = tag
  BY <1>4, <1>5 DEF Stops
<1>7. ASSUME NEW k \in Lines, k < m PROVE lines[k].v_bit = 1 /\ lines[k].tag # tag
  <2>1. k \notin S
    <3>1. k \in Nat
      BY <1>1
    <3>. HIDE DEF S
    <3>. QED  BY <1>4, <1>7, <3>1
  <2>. QED  BY <1>5, <2>1 DEF Stops
<1>. QED  BY <1>4, <1>6, <1>7 DEF m

(* Some line has a counter that no other exceeds and no later one equals: for
   the first line alone, and for the first n + 1 when for the first n. *)
LEMMA OldestExists ==
    ASSUME NEW lines \in [Lines -> Line]
    PROVE  /\ Oldest(lines) \in Lines
           /\ \A j \in Lines : lines[j].counter <= lines[Oldest(lines)].counter
<1>. DEFINE OldestOf(n, k) == \A j \in 0 .. n :
              (lines[j].counter <= lines[k].counter)
              /\ (j > k => lines[j].counter < lines[k].counter)
            Bad == {n \in Lines : ~\E k \in 0 .. n : OldestOf(n, k)}
<1>1. E \in Nat /\ E > 0 /\ \A j \in Lines : lines[j].counter \in Int
  BY OptionsAssumption DEF Line
<1>2. Bad = {}
  <2>1. SUFFICES ASSUME Bad # {} PROVE FALSE
    OBVIOUS
  <2>2. PICK n \in Bad : \A m \in Bad : n <= m
    <3>1. Bad \in SUBSET Nat
      BY <1>1 DEF Lines
    <3>. QED  BY <2>1, <3>1, LeastNatural
  <2>3. n \in Lines /\ n \in Nat /\ \A j \in 0 .. n : j \in Lines
    BY <1>1, <2>2 DEF Lines
  <2>4. n # 0
    <3>1. 0 \in 0 .. 0 /\ \A j \in 0 .. 0 : j = 0
      OBVIOUS
    <3>2. n = 0 => OldestOf(n, 0)
      BY <1>1, <2>3, <3>1
    <3>. QED  BY <2>2, <3>1, <3>2
  <2>5. n - 1 \in Lines /\ n - 1 \notin Bad
    <3>. HIDE DEF Bad
    <3>1. n - 1 \in Lines /\ n - 1 \in Nat /\ ~(n <= n - 1)
      BY <1>1, <2>3, <2>4 DEF Lines
    <3>. QED  BY <2>2, <3>1
  <2>6. PICK k \in 0 .. n - 1 : OldestOf(n - 1, k)
    BY <2>5
  <2>7. k \in 0 .. n /\ n \in 0 .. n /\ \A j \in 0 .. n : j \in 0 .. n - 1 \/ j = n
    BY <2>3, <2>4, <2>6
  <2>8. CASE lines[n].counter < lines[k].counter
    <3>1. OldestOf(n, k)
      BY <1>1, <2>3, <2>6, <2>7, <2>8
    <3>. QED  BY <2>2, <2>7, <3>1
  <2>9. CASE lines[k].counter <= lines[n].counter
    <3>1. OldestOf(n, n)
      BY <1>1, <2>3, <2>6, <2>7, <2>9
    <3>. QED  BY <2>2, <2>7, <3>1
  <2>. QED  BY <1>1, <2>3, <2>7, <2>8, <2>9
<1>3. E - 1 \in Lines /\ Lines = 0 .. E - 1
  BY <1>1 DEF Lines
<1>4. \E k \in Lines : OldestOf(E - 1, k)
  BY <1>2, <1>3
<1>. QED  BY <1>3, <1>4 DEF Oldest

(* Aging a line changes its counter. *)
LEMMA AgedLine ==
    ASSUME NEW line \in Line
    PROVE  /\ Aged(line) \in Line /\ Aged(line).v_bit = line.v_bit
           /\ Aged(line).tag = line.tag
           /\ line.counter \in Int /\ Aged(line).counter = line.counter + 1
<1>1. line.counter \in Int /\ line.counter + 1 \in Int
  BY DEF Line
<1>. QED  BY <1>1 DEF Aged, Line

(* A hit, a miss and an eviction keep a set ordered: the line used gets counter
   0, and every other line in use a counter above 0, in the same order. *)
LEMMA HitOrdered ==
    ASSUME NEW lines \in [Lines -> Line], Ordered(lines), NEW hit \in Used(lines)
    PROVE  AfterHit(lines, hit) \in [Lines -> Line] /\ Ordered(AfterHit(lines, hit))
<1>. DEFINE new == AfterHit(lines, hit)
<1>1. \A k \in Lines :
         /\ lines[k] \in Line
         /\ new[k] = IF k = hit THEN [lines[k] EXCEPT !.counter = 0] ELSE Aged(lines[k])
  BY DEF AfterHit
<1>2. new \in [Lines -> Line] /\ Used(new) = Used(lines)
  BY <1>1 DEF AfterHit, Aged, Line, Used
<1>3. \A k \in Lines : /\ new[k].tag = lines[k].tag
                       /\ new[k].counter = IF k = hit THEN 0 ELSE lines[k].counter + 1
  BY <1>1 DEF Aged, Line
<1>4. \A k \in Used(lines) : k \in Lines /\ lines[k].counter \in Nat
  BY DEF Ordered, Used
<1>. HIDE DEF new
<1>5. \A j, k \in Used(new) : j # k => new[j].tag # new[k].tag /\ new[j].counter # new[k].counter
  BY <1>2, <1>3, <1>4 DEF Ordered
<1>6. \A k \in Used(new), j \in Lines : j < k => j \in Used(new)
  BY <1>2 DEF Ordered
<1>7. \A k \in Used(new) : new[k].counter \in Nat
  BY <1>2, <1>3, <1>4
<1>8. Ordered(new)
  BY <1>5, <1>6, <1>7 DEF Ordered
<1>. QED  BY <1>2, <1>8 DEF new

(* A miss takes the first free line, all lines before it being in use, and
   counts up the lines in use, none of which holds the block. *)
LEMMA MissLines ==
    ASSUME NEW lines \in [Lines -> Line], Ordered(lines), NEW tag \in Nat, Stops(lines, tag) # {},
           lines[Stop(lines, tag)].v_bit = 0
    PROVE  LET free == Stop(lines, tag)
               new == AfterMiss(lines, free, tag)
           IN  /\ free \in Lines /\ free \notin Used(lines) /\ new \in [Lines -> Line]
               /\ \A k \in Lines : k < free => k \in Used(lines)
               /\ Used(new) = Used(lines) \cup {free}
               /\ new[free].counter = 0 /\ new[free].tag = tag
               /\ \A k \in Used(lines) : /\ new[k].counter = lines[k].counter + 1
                                         /\ lines[k].counter \in Nat
                                         /\ new[k].tag = lines[k].tag /\ lines[k].tag # tag
                                         /\ k < free
<1>. DEFINE free == Stop(lines, tag)
            new == AfterMiss(lines, free, tag)
<1>0. lines \in [Lines -> Line] /\ Lines \in SUBSET Nat
  BY OptionsAssumption DEF Ordered, Lines
<1>1. /\ free \in Lines /\ free \notin Used(lines)
      /\ \A k \in Lines : k < free => k \in Used(lines) /\ lines[k].tag # tag
  BY <1>0, StopIsFirst DEF Used
<1>. HIDE DEF free
<1>2. ASSUME NEW k \in Used(lines) PROVE k < free
  <2>1. k \in Lines /\ k \in Nat /\ free \in Nat /\ k # free
    BY <1>0, <1>1 DEF Used
  <2>2. ~(free < k)
    BY <1>1 DEF Ordered
  <2>. QED  BY <2>1, <2>2
<1>3. \A k \in Lines :
         /\ lines[k] \in Line
         /\ new[k] = IF k = free THEN [v_bit |-> 1, tag |-> tag, counter |-> 0]
                     ELSE IF k < free THEN Aged(lines[k]) ELSE lines[k]
  BY <1>0 DEF AfterMiss
<1>. USE DEF new
<1>11. DOMAIN new = Lines /\ new = [k \in Lines |-> new[k]]
  BY DEF AfterMiss
<1>. HIDE DEF new
<1>7. /\ new[free] \in Line /\ free \in Used(new)
      /\ new[free].tag = tag /\ new[free].counter = 0
  BY <1>1, <1>3 DEF Used, Line
<1>4. ASSUME NEW k \in Used(lines)
      PROVE  /\ k \in Used(new) /\ new[k] \in Line
             /\ new[k].tag = lines[k].tag
             /\ lines[k].counter \in Nat /\ new[k].counter = lines[k].counter + 1
  <2>1. k \in Lines /\ new[k] = Aged(lines[k])
    <3>1. k \in Lines /\ free \in Nat /\ k \in Nat
      BY <1>0, <1>1 DEF Used
    <3>. QED  BY <3>1, <1>2, <1>3
  <2>2. lines[k].counter \in Nat
    BY DEF Ordered
  <2>. QED  BY <1>3, <2>1, <2>2, AgedLine DEF Used
<1>5. ASSUME NEW k \in Lines, k \notin Used(lines), k # free
      PROVE  new[k] = lines[k] /\ k \notin Used(new)
  <2>1. ~(k < free)
    BY <1>1, <1>5
  <2>2. new[k] = lines[k]
    BY <1>3, <1>5, <2>1
  <2>. QED  BY <1>5, <2>2 DEF Used
<1>6. new \in [Lines -> Line] /\ Used(new) = Used(lines) \cup {free}
  <2>1. \A k \in Lines : new[k] \in Line
    BY <1>3, <1>4, <1>5, <1>7
  <2>2. Used(new) \subseteq Lines /\ Used(lines) \subseteq Lines
    BY DEF Used
  <2>. QED  BY <1>1, <1>4, <1>5, <1>7, <1>11, <2>1, <2>2
<1>8. \A k \in Used(lines) : k \in Lines /\ k < free /\ lines[k].tag # tag
  BY <1>1, <1>2 DEF Used
<1>. QED  BY <1>1, <1>4, <1>6, <1>7, <1>8 DEF new, free

(* And so it keeps a set ordered. *)
LEMMA MissOrdered ==
    ASSUME NEW lines \in [Lines -> Line], Ordered(lines), NEW tag \in Nat, Stops(lines, tag) # {},
           lines[Stop(lines, tag)].v_bit = 0
    PROVE  /\ AfterMiss(lines, Stop(lines, tag), tag) \in [Lines -> Line]
           /\ Ordered(AfterMiss(lines, Stop(lines, tag), tag))
<1>. DEFINE free == Stop(lines, tag)
            new == AfterMiss(lines, free, tag)
<1>1. /\ free \in Lines /\ free \notin Used(lines) /\ new \in [Lines -> Line]
      /\ \A k \in Lines : k < free => k \in Used(lines)
      /\ Used(new) = Used(lines) \cup {free}
      /\ new[free].counter = 0 /\ new[free].tag = tag
      /\ \A k \in Used(lines) : /\ new[k].counter = lines[k].counter + 1
                                /\ lines[k].counter \in Nat
                                /\ new[k].tag = lines[k].tag /\ lines[k].tag # tag
                                /\ k < free
  BY MissLines
<1>. HIDE DEF free, new
<1>2. \A j, k \in Used(new) : j # k => new[j].tag # new[k].tag /\ new[j].counter # new[k].counter
  <2>1. \A k \in Used(lines) : new[k].counter # 0 /\ new[k].tag # tag
    BY <1>1
  <2>2. \A j, k \in Used(lines) : j # k => new[j].tag # new[k].tag /\ new[j].counter # new[k].counter
    BY <1>1 DEF Ordered
  <2>. QED  BY <1>1, <2>1, <2>2
<1>3. ASSUME NEW k \in Used(new), NEW j \in Lines, j < k PROVE j \in Used(new)
  <2>1. CASE k = free
    BY <1>1, <1>3, <2>1
  <2>2. CASE k \in Used(lines)
    BY <1>1, <1>3, <2>2 DEF Ordered
  <2>. QED  BY <1>1, <2>1, <2>2
<1>4. \A k \in Used(new) : new[k].counter \in Nat
  BY <1>1
<1>5. Ordered(new)
  BY <1>2, <1>3, <1>4 DEF Ordered
<1>. QED  BY <1>1, <1>5 DEF new, free

(* An eviction finds every line in use, and the block in none. *)
LEMMA EvictionLines ==
    ASSUME NEW lines \in [Lines -> Line], Ordered(lines), NEW tag \in Nat, Stops(lines, tag) = {}
    PROVE  LET old == Oldest(lines)
               new == AfterEviction(lines, tag)
           IN  /\ old \in Lines /\ new \in [Lines -> Line]
               /\ Used(lines) = Lines /\ Used(new) = Lines
               /\ \A k \in Lines : lines[k].tag # tag /\ lines[k].counter \in Nat
               /\ new[old].tag = tag /\ new[old].counter = 0
               /\ \A k \in Lines : k # old => /\ new[k].tag = lines[k].tag
                                              /\ new[k].counter = lines[k].counter + 1
<1>. DEFINE old == Oldest(lines)
            new == AfterEviction(lines, tag)
<1>0. lines \in [Lines -> Line] /\ old \in Lines
  BY OldestExists DEF Ordered
<1>1. Used(lines) = Lines /\ \A k \in Lines : lines[k].tag # tag
  BY <1>0 DEF Stops, Used, Line
<1>. HIDE DEF old
<1>2. \A k \in Lines :
         /\ lines[k] \in Line
         /\ new[k] = IF k = old THEN [lines[k] EXCEPT !.tag = tag, !.counter = 0]
                     ELSE Aged(lines[k])
  BY <1>0 DEF AfterEviction, old
<1>3. DOMAIN new = Lines /\ new = [k \in Lines |-> new[k]]
  BY DEF AfterEviction
<1>. HIDE DEF new
<1>4. \A k \in Lines : lines[k].v_bit = 1
  BY <1>1 DEF Used
<1>8. \A k \in Lines : lines[k].counter \in Nat
  BY <1>1 DEF Ordered
<1>5. /\ new[old] \in Line /\ new[old].v_bit = 1
      /\ new[old].tag = tag /\ new[old].counter = 0
  <2>1. /\ lines[old] \in Line /\ lines[old].v_bit = 1
        /\ new[old] = [lines[old] EXCEPT !.tag = tag, !.counter = 0]
    BY <1>0, <1>2, <1>4
  <2>2. [lines[old] EXCEPT !.tag = tag, !.counter = 0]
            = [[lines[old] EXCEPT !.tag = tag] EXCEPT !.counter = 0]
    BY Zenon
  <2>3. new[old] = [v_bit |-> 1, tag |-> tag, counter |-> 0]
    <3>1. [lines[old] EXCEPT !.tag = tag]
             = [v_bit |-> 1, tag |-> tag, counter |-> lines[old].counter]
      BY <2>1 DEF Line
    <3>2. [[v_bit |-> 1, tag |-> tag, counter |-> lines[old].counter] EXCEPT !.counter = 0]
             = [v_bit |-> 1, tag |-> tag, counter |-> 0]
      OBVIOUS
    <3>. QED  BY <2>1, <2>2, <3>1, <3>2
  <2>. QED  BY <2>3 DEF Line
<1>6. ASSUME NEW k \in Lines, k # old
      PROVE  /\ new[k] \in Line /\ new[k].v_bit = 1
             /\ new[k].tag = lines[k].tag /\ new[k].tag # tag
             /\ new[k].counter = lines[k].counter + 1 /\ new[k].counter # 0
             /\ lines[k].counter \in Nat
  <2>1. new[k] = Aged(lines[k])
    BY <1>2, <1>6
  <2>2. /\ new[k] \in Line /\ new[k].v_bit = 1 /\ new[k].tag = lines[k].tag
        /\ new[k].counter = lines[k].counter + 1 /\ lines[k].counter \in Nat
    <3>1. lines[k] \in Line /\ lines[k].v_bit = 1 /\ lines[k].counter \in Nat
      BY <1>2, <1>4, <1>6, <1>8
    <3>. QED  BY <2>1, <3>1, AgedLine, Zenon
  <2>3. new[k].counter # 0
    BY <2>2
  <2>. QED  BY <1>1, <2>2, <2>3
<1>7. new \in [Lines -> Line] /\ Used(new) = Lines
  <2>1. \A k \in Lines : new[k] \in Line /\ new[k].v_bit = 1
    BY <1>5, <1>6
  <2>. QED  BY <1>3, <2>1 DEF Used
<1>. QED  BY <1>0, <1>1, <1>5, <1>6, <1>7, <1>8 DEF new, old

(* And so it keeps a set ordered. *)
LEMMA EvictionOrdered ==
    ASSUME NEW lines \in [Lines -> Line], Ordered(lines), NEW tag \in Nat, Stops(lines, tag) = {}
    PROVE  /\ AfterEviction(lines, tag) \in [Lines -> Line]
           /\ Ordered(AfterEviction(lines, tag))
<1>. DEFINE old == Oldest(lines)
            new == AfterEviction(lines, tag)
<1>1. /\ old \in Lines /\ new \in [Lines -> Line]
      /\ Used(lines) = Lines /\ Used(new) = Lines
      /\ \A k \in Lines : lines[k].tag # tag /\ lines[k].counter \in Nat
      /\ new[old].tag = tag /\ new[old].counter = 0
      /\ \A k \in Lines : k # old => /\ new[k].tag = lines[k].tag
                                     /\ new[k].counter = lines[k].counter + 1
  BY EvictionLines
<1>. HIDE DEF old, new
<1>2. ASSUME NEW j \in Lines, NEW k \in Lines, j # k
      PROVE  new[j].tag # new[k].tag /\ new[j].counter # new[k].counter
  <2>1. lines[j].tag # lines[k].tag /\ lines[j].counter # lines[k].counter
    BY <1>1, <1>2 DEF Ordered
  <2>2. CASE j # old /\ k # old
    BY <1>1, <2>1, <2>2
  <2>3. CASE j = old
    BY <1>1, <1>2, <2>3
  <2>4. CASE k = old
    BY <1>1, <1>2, <2>4
  <2>. QED  BY <2>2, <2>3, <2>4
<1>3. \A k \in Used(new) : new[k].counter \in Nat
  <2>. TAKE k \in Used(new)
  <2>1. k \in Lines /\ lines[k].counter \in Nat
    BY <1>1
  <2>. QED  BY <1>1, <2>1
<1>4. Ordered(new)
  BY <1>1, <1>2, <1>3 DEF Ordered
<1>. QED  BY <1>1, <1>4 DEF new

(* Each operation of the trace keeps every set ordered. *)
LEMMA OrderedStep == LinesOrdered /\ [Next]_vars => LinesOrdered'
<1>. SUFFICES ASSUME LinesOrdered, [Next]_vars PROVE LinesOrdered'
  OBVIOUS
<1>0. /\ \A i \in Sets : Ordered(cache[i])
      /\ cache \in [Sets -> [Lines -> Line]]
      /\ hits \in Nat /\ misses \in Nat /\ evictions \in Nat /\ ops \in 0 .. MaxOps
  BY DEF LinesOrdered, TypeOK
<1>1. ASSUME NEW i \in Sets, NEW lines \in [Lines -> Line], Ordered(lines), cache' = [cache EXCEPT ![i] = lines],
             hits' \in Nat, misses' \in Nat, evictions' \in Nat, ops' = ops + 1, ops < MaxOps
      PROVE  LinesOrdered'
  <2>2. TypeOK'
    BY <1>0, <1>1, TraceAssumption DEF TypeOK
  <2>3. \A k \in Sets : Ordered(cache'[k])
    BY <1>0, <1>1
  <2>. QED  BY <2>2, <2>3 DEF LinesOrdered, Ordered, Used
<1>2. CASE UNCHANGED vars
  BY <1>2 DEF vars, LinesOrdered, TypeOK, Ordered, Used
<1>3. CASE Operation
  <2>1. ops < MaxOps /\ ops' = ops + 1
    BY <1>3 DEF Operation
  <2>2. CASE Instruction
    <3>1. TypeOK'
      BY <1>0, <2>1, <2>2, TraceAssumption DEF Instruction, TypeOK
    <3>. QED  BY <2>2, <3>1 DEF Instruction, LinesOrdered, Ordered, Used
  <2>3. ASSUME NEW op \in {"L", "S", "M"}, NEW addr \in Addresses,
               Hit(op, addr) \/ Miss(op, addr) \/ MissEviction(op, addr)
        PROVE  LinesOrdered'
    <3>. DEFINE i == s_index(addr)
                tag == i_tag(addr)
                lines == cache[i]
    <3>1. i \in Sets /\ tag \in Nat /\ Extra(op) \in Nat
      BY AddressParts, TraceAssumption DEF Extra
    <3>2. Ordered(lines) /\ lines \in [Lines -> Line]
      BY <1>0, <3>1
    <3>3. CASE Hit(op, addr)
      <4>1. /\ Stops(lines, tag) # {} /\ lines[Stop(lines, tag)].v_bit = 1
            /\ cache' = [cache EXCEPT ![i] = AfterHit(lines, Stop(lines, tag))]
            /\ hits' \in Nat /\ misses' \in Nat /\ evictions' \in Nat
        BY <1>0, <3>1, <3>3 DEF Hit
      <4>2. Stop(lines, tag) \in Used(lines)
        BY <3>1, <3>2, <4>1, StopIsFirst DEF Used
      <4>3. /\ AfterHit(lines, Stop(lines, tag)) \in [Lines -> Line]
            /\ Ordered(AfterHit(lines, Stop(lines, tag)))
        BY <3>2, <4>2, HitOrdered
      <4>. HIDE DEF lines, tag, i
      <4>. QED  BY <1>1, <2>1, <3>1, <4>1, <4>3
    <3>4. CASE Miss(op, addr)
      <4>1. /\ Stops(lines, tag) # {} /\ lines[Stop(lines, tag)].v_bit = 0
            /\ cache' = [cache EXCEPT ![i] = AfterMiss(lines, Stop(lines, tag), tag)]
            /\ hits' \in Nat /\ misses' \in Nat /\ evictions' \in Nat
        BY <1>0, <3>1, <3>4 DEF Miss
      <4>2. /\ AfterMiss(lines, Stop(lines, tag), tag) \in [Lines -> Line]
            /\ Ordered(AfterMiss(lines, Stop(lines, tag), tag))
        BY <3>1, <3>2, <4>1, MissOrdered
      <4>. HIDE DEF lines, tag, i
      <4>. QED  BY <1>1, <2>1, <3>1, <4>1, <4>2
    <3>5. CASE MissEviction(op, addr)
      <4>1. /\ Stops(lines, tag) = {}
            /\ cache' = [cache EXCEPT ![i] = AfterEviction(lines, tag)]
            /\ hits' \in Nat /\ misses' \in Nat /\ evictions' \in Nat
        BY <1>0, <3>1, <3>5 DEF MissEviction
      <4>2. /\ AfterEviction(lines, tag) \in [Lines -> Line]
            /\ Ordered(AfterEviction(lines, tag))
        BY <3>1, <3>2, <4>1, EvictionOrdered
      <4>. HIDE DEF lines, tag, i
      <4>. QED  BY <1>1, <2>1, <3>1, <4>1, <4>2
    <3>. QED  BY <2>3, <3>3, <3>4, <3>5
  <2>. QED  BY <1>3, <2>2, <2>3 DEF Operation
<1>. QED  BY <1>2, <1>3 DEF Next, EndOfTrace

(* No line is in use when the simulator starts, whatever malloc left. *)
LEMMA ClearedLines ==
    ASSUME Init
    PROVE  /\ cache \in [Sets -> [Lines -> Line]]
           /\ \A i \in Sets : Used(cache[i]) = {} /\ cache[i] \in [Lines -> Line]
<1>1. PICK left \in Garbage : cache = Cleared(left)
  BY DEF Init
<1>2. left \in [Sets -> [Lines -> Line]]
  BY GarbageAssumption
<1>3. ASSUME NEW i \in Sets, NEW k \in Lines
      PROVE  cache[i][k] \in Line /\ cache[i][k].v_bit = 0
  <2>1. left[i][k] \in Line /\ cache[i][k] = [left[i][k] EXCEPT !.v_bit = 0]
    BY <1>1, <1>2 DEF Cleared
  <2>. QED  BY <2>1 DEF Line
<1>4. cache = [i \in Sets |-> [k \in Lines |-> cache[i][k]]]
  BY <1>1 DEF Cleared
<1>. QED  BY <1>3, <1>4 DEF Used

(* And so its sets are ordered. *)
LEMMA OrderedInit == Init => LinesOrdered
<1>. SUFFICES ASSUME Init PROVE LinesOrdered
  OBVIOUS
<1>1. \A i \in Sets : Used(cache[i]) = {} /\ cache[i] \in [Lines -> Line]
  BY ClearedLines
<1>2. cache \in [Sets -> [Lines -> Line]]
  BY <1>1, ClearedLines
<1>. QED  BY <1>1, <1>2, TraceAssumption DEF Init, LinesOrdered, TypeOK, Ordered

(* Whatever the trace, the options and what malloc left in the counters: the
   lines in use come first, hold different blocks and have different counters,
   so the line that is evicted is the only one of its age. *)
THEOREM CountersOrder == Spec => []LinesOrdered
  BY OrderedInit, OrderedStep, PTL DEF Spec

-----------------------------------------------------------------------------
(* The addresses of the trace are short enough for their tags to fit i_tag. *)
TagsFit == \A addr \in Addresses : addr \div 2^(b + s) < 2^TagBits

(* A quotient and a remainder are those of the division. *)
LEMMA Divided ==
    ASSUME NEW d \in Nat \ {0}, NEW q \in Nat, NEW r \in Nat, r < d
    PROVE  ((q * d) + r) \div d = q /\ ((q * d) + r) % d = r
<1>. DEFINE n == (q * d) + r
            x == n \div d
            y == n % d
<1>1. n \in Nat /\ q * d \in Nat
  OBVIOUS
<1>. HIDE DEF n
<1>2. x \in Nat /\ y \in Nat /\ y < d /\ n = (x * d) + y /\ x * d \in Nat
  BY <1>1
<1>. HIDE DEF x, y
<1>3. (q * d) + r = (x * d) + y
  BY <1>2 DEF n
<1>4. ~(q < x)
  <2>1. SUFFICES ASSUME q + 1 <= x PROVE FALSE
    BY <1>2
  <2>2. (q + 1) * d <= x * d /\ (q + 1) * d = (q * d) + d
    BY <1>2, <2>1
  <2>. HIDE DEF x, y
  <2>. QED  BY <1>1, <1>2, <1>3, <2>2
<1>5. ~(x < q)
  <2>1. SUFFICES ASSUME x + 1 <= q PROVE FALSE
    BY <1>2
  <2>2. (x + 1) * d <= q * d /\ (x + 1) * d = (x * d) + d
    BY <1>2, <2>1
  <2>. QED  BY <1>1, <1>2, <1>3, <2>2
<1>6. x = q
  BY <1>2, <1>4, <1>5
<1>7. y = r
  BY <1>1, <1>2, <1>3, <1>6
<1>. QED  BY <1>6, <1>7 DEF x, y, n

(* An address is of the block that its tag and its set index make up, and the
   block is of that set. *)
LEMMA BlockOfAddress ==
    ASSUME TagsFit, NEW addr \in Addresses
    PROVE  /\ addr \div 2^b = (i_tag(addr) * 2^s) + s_index(addr)
           /\ (addr \div 2^b) % 2^s = s_index(addr)
<1>. DEFINE S == 2^s
            B == 2^b
            t == addr \div (B * S)
            r == addr % (B * S)
            x == r \div B
            y == r % B
<1>1. /\ addr \in Nat /\ S \in Nat \ {0} /\ B \in Nat \ {0} /\ 2^(b + s) = B * S
      /\ 2^TagBits \in Nat \ {0}
  BY Powers, TraceAssumption
<1>2. i_tag(addr) = t
  <2>. DEFINE T == 2^TagBits
  <2>1. t < T /\ t \in Nat /\ T \in Nat \ {0}
    <3>1. B * S \in Nat \ {0}
      BY <1>1
    <3>2. t \in Nat
      BY <1>1, <3>1
    <3>. QED  BY <1>1, <3>2 DEF TagsFit
  <2>2. i_tag(addr) = t % T
    BY <1>1 DEF i_tag
  <2>. HIDE DEF T, t
  <2>. QED  BY <2>1, <2>2
<1>3. s_index(addr) = x
  BY <1>1 DEF s_index
<1>4. x \in 0 .. S - 1
  BY <1>1, <1>3, AddressParts DEF Sets
<1>. HIDE DEF S, B
<1>5. B * S \in Nat \ {0}
  BY <1>1
<1>6. t \in Nat /\ r \in Nat /\ addr = (t * (B * S)) + r
  <2>. DEFINE D == B * S
  <2>. HIDE DEF D
  <2>1. D \in Nat \ {0}
    BY <1>5 DEF D
  <2>2. addr \div D \in Nat /\ addr % D \in Nat /\ addr = ((addr \div D) * D) + (addr % D)
    BY <1>1, <2>1
  <2>. QED  BY <2>2 DEF D
<1>. HIDE DEF t, r
<1>7. x \in Nat /\ y \in Nat /\ y < B /\ r = (x * B) + y
  BY <1>1, <1>6
<1>. HIDE DEF x, y
<1>8. addr = (((t * S) + x) * B) + y
  <2>1. t * (B * S) = (t * S) * B /\ ((t * S) + x) * B = ((t * S) * B) + (x * B)
    BY <1>1, <1>6, <1>7
  <2>2. (t * S) * B \in Nat /\ x * B \in Nat
    BY <1>1, <1>6, <1>7
  <2>. QED  BY <1>6, <1>7, <2>1, <2>2
<1>9. (t * S) + x \in Nat
  BY <1>1, <1>6, <1>7
<1>10. addr \div B = (t * S) + x
  BY <1>1, <1>7, <1>8, <1>9, Divided
<1>11. ((t * S) + x) % S = x
  BY <1>1, <1>4, <1>6, <1>7, Divided
<1>. QED  BY <1>2, <1>3, <1>10, <1>11 DEF S, B

(* Blocks of one set are equal when their tags are. *)
LEMMA SameBlock ==
    ASSUME NEW t \in Nat, NEW u \in Nat, NEW i \in Sets, (t * 2^s) + i = (u * 2^s) + i
    PROVE  t = u
<1>. DEFINE S == 2^s
<1>1. S \in Nat \ {0} /\ i \in Nat /\ i < S
  BY Powers DEF Sets
<1>2. (t * S) + i = (u * S) + i
  OBVIOUS
<1>. HIDE DEF S
<1>3. t = ((t * S) + i) \div S /\ u = ((u * S) + i) \div S
  BY <1>1, Divided
<1>. QED  BY <1>2, <1>3

-----------------------------------------------------------------------------
(* p lists the lines of a set that are in use, the youngest first; none of them
   has the counter that malloc left. *)
Ranks(p, n, lines) ==
    /\ p \in [1 .. n -> Used(lines)]
    /\ \A k \in Used(lines) : \E a \in 1 .. n : p[a] = k
    /\ \A x, y \in 1 .. n : x < y => lines[p[x]].counter < lines[p[y]].counter
    /\ \A k \in Used(lines) : lines[k].counter \in Nat
Ranked == \A i \in Sets : \E n \in Nat : \E p \in [1 .. n -> Lines] : Ranks(p, n, cache[i])

(* A list of the lines by age is the one the refinement mapping chooses. *)
LEMMA RanksAreBlocks ==
    ASSUME NEW lines \in [Lines -> Line], NEW n \in Nat, NEW p, Ranks(p, n, lines), NEW i \in Sets
    PROVE  /\ Cardinality(Used(lines)) = n
           /\ BlocksOf(lines, i) = [a \in 1 .. n |-> lines[p[a]].tag * 2^s + i]
<1>. DEFINE U == Used(lines)
            C(k) == lines[k].counter
<1>0. /\ p \in [1 .. n -> U] /\ \A k \in U : k \in Lines /\ C(k) \in Nat
      /\ \A x, y \in 1 .. n : x < y => C(p[x]) < C(p[y])
      /\ \A k \in U : \E a \in 1 .. n : p[a] = k
  BY DEF Ranks, Used, Line
<1>. HIDE DEF U, C
<1>1. \A x, y \in 1 .. n : (x < y <=> C(p[x]) < C(p[y])) /\ (p[x] = p[y] => x = y)
  <2>. SUFFICES ASSUME NEW x \in 1 .. n, NEW y \in 1 .. n
                PROVE  (x < y <=> C(p[x]) < C(p[y])) /\ (p[x] = p[y] => x = y)
    OBVIOUS
  <2>1. C(p[x]) \in Nat /\ C(p[y]) \in Nat /\ x \in Nat /\ y \in Nat
    BY <1>0
  <2>2. (x < y => C(p[x]) < C(p[y])) /\ (y < x => C(p[y]) < C(p[x]))
    BY <1>0
  <2>. QED  BY <2>1, <2>2
<1>2. p \in Bijection(1 .. n, U)
  BY <1>0, <1>1 DEF Bijection, Injection, Surjection, IsInjective
<1>3. Cardinality(U) = n
  <2>1. ExistsBijection(1 .. n, U)
    BY <1>2 DEF ExistsBijection
  <2>. QED  BY <2>1, FS_CountingElements
<1>4. ASSUME NEW a \in 1 .. n PROVE Cardinality(Younger(lines, p[a])) = a - 1
  <2>. DEFINE Y == Younger(lines, p[a])
              q == [x \in 1 .. a - 1 |-> p[x]]
  <2>1. Y = {k \in U : C(k) < C(p[a])}
    BY DEF Younger, U, C
  <2>2. \A x \in 1 .. a - 1 : x \in 1 .. n /\ x < a /\ p[x] \in U
    BY <1>0
  <2>. HIDE DEF Y
  <2>3. q \in [1 .. a - 1 -> Y]
    BY <1>0, <2>1, <2>2
  <2>4. \A k \in Y : \E x \in 1 .. a - 1 : q[x] = k
    <3>. TAKE k \in Y
    <3>1. PICK x \in 1 .. n : p[x] = k
      BY <1>0, <2>1
    <3>2. x < a
      BY <1>1, <2>1, <3>1
    <3>3. x \in 1 .. a - 1
      BY <3>2
    <3>. QED  BY <3>1, <3>3
  <2>5. \A x, y \in 1 .. a - 1 : q[x] = q[y] => x = y
    BY <1>1, <2>2
  <2>6. q \in Bijection(1 .. a - 1, Y)
    BY <2>3, <2>4, <2>5 DEF Bijection, Injection, Surjection, IsInjective
  <2>7. ExistsBijection(1 .. a - 1, Y)
    BY <2>6 DEF ExistsBijection
  <2>8. a - 1 \in Nat
    OBVIOUS
  <2>9. Cardinality(Y) = a - 1
    BY <2>7, <2>8, FS_CountingElements
  <2>. QED  BY <2>9 DEF Y
<1>5. ASSUME NEW a \in 1 .. n PROVE NthYoungest(lines, a) = p[a]
  <2>. DEFINE N == Cardinality(Younger(lines, p[a]))
  <2>1. p[a] \in Used(lines) /\ Cardinality(Younger(lines, p[a])) = a - 1
    BY <1>0, <1>4 DEF U
  <2>2. ASSUME NEW k \in Used(lines), Cardinality(Younger(lines, k)) = a - 1
        PROVE  k = p[a]
    <3>1. PICK x \in 1 .. n : p[x] = k
      BY <1>0 DEF U
    <3>2. x - 1 = a - 1
      BY <1>4, <2>2, <3>1
    <3>3. x = a
      BY <3>2
    <3>. QED  BY <3>1, <3>3
  <2>. QED  BY <2>1, <2>2 DEF NthYoungest
<1>. QED  BY <1>3, <1>5 DEF BlocksOf, U

(* Line number n of a list moved to its front. *)
Moved(p, m, n) == [a \in 1 .. m |-> IF a = 1 THEN p[n] ELSE IF a <= n THEN p[a - 1] ELSE p[a]]

(* When the counter of one line in use is cleared and the others are counted
   up, this line becomes the youngest and the others keep their order. *)
LEMMA MovedRanks ==
    ASSUME NEW lines \in [Lines -> Line], NEW new \in [Lines -> Line],
           NEW m \in Nat, NEW p, Ranks(p, m, lines), NEW n \in 1 .. m,
           Used(new) = Used(lines), new[p[n]].counter = 0,
           \A k \in Used(lines) : k # p[n] => new[k].counter = lines[k].counter + 1
    PROVE  Ranks(Moved(p, m, n), m, new)
<1>. DEFINE U == Used(lines)
            f == Moved(p, m, n)
            from(a) == IF a = 1 THEN n ELSE IF a <= n THEN a - 1 ELSE a
<1>0. /\ p \in [1 .. m -> U] /\ \A k \in U : lines[k].counter \in Nat
      /\ \A x, y \in 1 .. m : x < y => lines[p[x]].counter < lines[p[y]].counter
      /\ \A k \in U : \E a \in 1 .. m : p[a] = k
  BY DEF Ranks, Used, Line
<1>1. ASSUME NEW a \in 1 .. m
      PROVE  from(a) \in 1 .. m /\ f[a] = p[from(a)] /\ (from(a) = n <=> a = 1)
  BY DEF Moved
<1>2. \A x, y \in 1 .. m : x < y /\ x # 1 => from(x) < from(y) /\ from(x) # n /\ from(y) # n
  OBVIOUS
<1>3. DOMAIN f = 1 .. m /\ f = [a \in 1 .. m |-> f[a]]
  BY DEF Moved
<1>. HIDE DEF U, f, from
<1>4. f \in [1 .. m -> U]
  BY <1>0, <1>1, <1>3
<1>5. \A x \in 1 .. m : x # n => /\ p[x] # p[n]
                                 /\ new[p[x]].counter = lines[p[x]].counter + 1
                                 /\ lines[p[x]].counter \in Nat
  <2>. TAKE x \in 1 .. m
  <2>. HAVE x # n
  <2>1. p[x] # p[n]
    <3>1. x < n \/ n < x
      OBVIOUS
    <3>2. lines[p[x]].counter # lines[p[n]].counter
      BY <1>0, <3>1
    <3>. QED  BY <3>2
  <2>. QED  BY <1>0, <2>1 DEF U
<1>6. \A k \in U : \E a \in 1 .. m : f[a] = k
  <2>. TAKE k \in U
  <2>1. PICK x \in 1 .. m : p[x] = k
    BY <1>0
  <2>2. \E a \in 1 .. m : from(a) = x
    <3>. DEFINE a == IF x = n THEN 1 ELSE IF x < n THEN x + 1 ELSE x
    <3>1. a \in 1 .. m /\ from(a) = x
      BY DEF from
    <3>. QED  BY <3>1
  <2>. QED  BY <1>1, <2>1, <2>2
<1>7. ASSUME NEW x \in 1 .. m, NEW y \in 1 .. m, x < y
      PROVE  new[f[x]].counter < new[f[y]].counter
  <2>1. f[x] = p[from(x)] /\ f[y] = p[from(y)] /\ from(x) \in 1 .. m /\ from(y) \in 1 .. m
    BY <1>1
  <2>2. y # 1 /\ from(y) # n
    BY <1>1, <1>7
  <2>3. /\ new[f[y]].counter = lines[f[y]].counter + 1 /\ lines[f[y]].counter \in Nat
    BY <1>5, <2>1, <2>2
  <2>4. CASE x = 1
    <3>1. f[x] = p[n]
      BY <1>1, <2>1, <2>4
    <3>2. new[f[x]].counter = 0
      BY <3>1
    <3>. QED  BY <2>3, <3>2
  <2>5. CASE x # 1
    <3>1. from(x) < from(y) /\ from(x) # n
      BY <1>2, <1>7, <2>5
    <3>2. /\ new[f[x]].counter = lines[f[x]].counter + 1 /\ lines[f[x]].counter \in Nat
      BY <1>5, <2>1, <3>1
    <3>3. lines[f[x]].counter < lines[f[y]].counter
      BY <1>0, <2>1, <3>1
    <3>. QED  BY <2>3, <3>2, <3>3
  <2>. QED  BY <2>4, <2>5
<1>8. \A k \in Used(new) : new[k].counter \in Nat
  <2>. TAKE k \in Used(new)
  <2>1. k \in Used(lines) /\ lines[k].counter \in Nat
    BY <1>0 DEF U
  <2>. QED  BY <2>1
<1>9. Ranks(f, m, new)
  BY <1>4, <1>6, <1>7, <1>8 DEF Ranks, U
<1>. QED  BY <1>9 DEF f

(* When a free line is taken with counter 0 and the lines in use are counted
   up, it becomes the youngest. *)
LEMMA AddedRanks ==
    ASSUME NEW lines \in [Lines -> Line], NEW new \in [Lines -> Line],
           NEW m \in Nat, NEW p, Ranks(p, m, lines), NEW free \in Lines,
           free \notin Used(lines),
           Used(new) = Used(lines) \cup {free}, new[free].counter = 0,
           \A k \in Used(lines) : new[k].counter = lines[k].counter + 1
    PROVE  Ranks([a \in 1 .. m + 1 |-> IF a = 1 THEN free ELSE p[a - 1]], m + 1, new)
<1>. DEFINE U == Used(lines)
            f == [a \in 1 .. m + 1 |-> IF a = 1 THEN free ELSE p[a - 1]]
<1>0. /\ p \in [1 .. m -> U] /\ \A k \in U : lines[k].counter \in Nat
      /\ \A x, y \in 1 .. m : x < y => lines[p[x]].counter < lines[p[y]].counter
      /\ \A k \in U : \E a \in 1 .. m : p[a] = k
  BY DEF Ranks, Used, Line
<1>1. f[1] = free /\ \A a \in 1 .. m + 1 : a # 1 => a - 1 \in 1 .. m /\ f[a] = p[a - 1]
  OBVIOUS
<1>2. \A a \in 1 .. m : a + 1 \in 1 .. m + 1 /\ f[a + 1] = p[a]
  OBVIOUS
<1>. HIDE DEF U
<1>3. f \in [1 .. m + 1 -> U \cup {free}]
  BY <1>0
<1>. HIDE DEF f
<1>4. \A k \in U \cup {free} : \E a \in 1 .. m + 1 : f[a] = k
  <2>. TAKE k \in U \cup {free}
  <2>1. CASE k = free
    <3>1. 1 \in 1 .. m + 1
      OBVIOUS
    <3>. QED  BY <1>1, <2>1, <3>1
  <2>2. CASE k \in U
    <3>1. PICK a \in 1 .. m : p[a] = k
      BY <1>0, <2>2
    <3>. QED  BY <1>2, <3>1
  <2>. QED  BY <2>1, <2>2
<1>5. ASSUME NEW x \in 1 .. m + 1, NEW y \in 1 .. m + 1, x < y
      PROVE  new[f[x]].counter < new[f[y]].counter
  <2>1. y # 1 /\ f[y] = p[y - 1] /\ y - 1 \in 1 .. m
    BY <1>1, <1>5
  <2>2. /\ new[f[y]].counter = lines[f[y]].counter + 1 /\ lines[f[y]].counter \in Nat
    BY <1>0, <2>1 DEF U
  <2>3. CASE x = 1
    BY <1>1, <2>2, <2>3
  <2>4. CASE x # 1
    <3>1. f[x] = p[x - 1] /\ x - 1 \in 1 .. m /\ x - 1 < y - 1
      BY <1>1, <1>5, <2>4
    <3>2. /\ new[f[x]].counter = lines[f[x]].counter + 1 /\ lines[f[x]].counter \in Nat
      BY <1>0, <3>1 DEF U
    <3>3. lines[f[x]].counter < lines[f[y]].counter
      BY <1>0, <2>1, <3>1
    <3>. QED  BY <2>2, <3>2, <3>3
  <2>. QED  BY <2>3, <2>4
<1>6. \A k \in Used(new) : new[k].counter \in Nat
  BY <1>0 DEF U
<1>7. Ranks(f, m + 1, new)
  BY <1>3, <1>4, <1>5, <1>6 DEF Ranks, U
<1>. QED  BY <1>7 DEF f

-----------------------------------------------------------------------------
(* A sequence with a new first element. *)
LEMMA Prepended ==
    ASSUME NEW S, NEW r \in Seq(S), NEW x \in S
    PROVE  /\ <<x>> \o r \in Seq(S) /\ Len(<<x>> \o r) = Len(r) + 1
           /\ \A a \in 1 .. Len(r) + 1 : (<<x>> \o r)[a] = IF a = 1 THEN x ELSE r[a - 1]
<1>. DEFINE t == <<x>> \o r
<1>1. <<x>> \in Seq(S) /\ Len(<<x>>) = 1 /\ <<x>>[1] = x /\ Len(r) \in Nat
  BY LenProperties
<1>2. /\ t \in Seq(S) /\ Len(t) = Len(<<x>>) + Len(r)
      /\ \A a \in 1 .. Len(<<x>>) + Len(r) :
            t[a] = IF a <= Len(<<x>>) THEN <<x>>[a] ELSE r[a - Len(<<x>>)]
  BY <1>1, ConcatProperties
<1>. HIDE DEF t
<1>3. /\ t \in Seq(S) /\ Len(t) = Len(r) + 1
      /\ \A a \in 1 .. Len(r) + 1 : t[a] = IF a = 1 THEN x ELSE r[a - 1]
  BY <1>1, <1>2
<1>. QED  BY <1>3 DEF t

(* The first n - 1 elements of a sequence. *)
LEMMA FrontPart ==
    ASSUME NEW S, NEW r \in Seq(S), NEW n \in 1 .. Len(r)
    PROVE  /\ SubSeq(r, 1, n - 1) \in Seq(S) /\ Len(SubSeq(r, 1, n - 1)) = n - 1
           /\ \A a \in 1 .. n - 1 : SubSeq(r, 1, n - 1)[a] = r[a]
<1>. DEFINE front == SubSeq(r, 1, n - 1)
<1>1. Len(r) \in Nat /\ n \in Nat /\ 1 <= n /\ n <= Len(r) /\ 1 \in Int /\ n - 1 \in Int
  BY LenProperties
<1>2. \A a \in 1 .. n - 1 : r[a] \in S
  BY <1>1, ElementOfSeq
<1>3. /\ front \in Seq(S) /\ Len(front) = IF 1 <= n - 1 THEN n - 1 - 1 + 1 ELSE 0
      /\ \A a \in 1 .. n - 1 - 1 + 1 : front[a] = r[1 + a - 1]
  BY <1>1, <1>2, SubSeqProperties
<1>. HIDE DEF front
<1>4. /\ front \in Seq(S) /\ Len(front) = n - 1
      /\ \A a \in 1 .. n - 1 : front[a] = r[a]
  BY <1>1, <1>3
<1>. QED  BY <1>4 DEF front

(* What is left of a sequence without element n. *)
LEMMA RemovedAt ==
    ASSUME NEW S, NEW r \in Seq(S), NEW n \in 1 .. Len(r)
    PROVE  /\ Lru!RemoveAt(r, n) \in Seq(S) /\ Len(Lru!RemoveAt(r, n)) = Len(r) - 1
           /\ \A a \in 1 .. Len(r) - 1 :
                 Lru!RemoveAt(r, n)[a] = IF a < n THEN r[a] ELSE r[a + 1]
<1>. DEFINE front == SubSeq(r, 1, n - 1)
            back == SubSeq(r, n + 1, Len(r))
            rest == front \o back
<1>0. Len(r) \in Nat /\ n \in Nat /\ 1 <= n /\ n <= Len(r)
  BY LenProperties
<1>1. front \in Seq(S) /\ Len(front) = n - 1 /\ \A a \in 1 .. n - 1 : front[a] = r[a]
  BY FrontPart
<1>2. /\ back \in Seq(S) /\ Len(back) = Len(r) - n
      /\ \A a \in 1 .. Len(r) - n : back[a] = r[n + a]
  <2>1. \A a \in n + 1 .. Len(r) : r[a] \in S
    BY <1>0, ElementOfSeq
  <2>2. n + 1 \in Int /\ Len(r) \in Int
    BY <1>0
  <2>3. /\ back \in Seq(S) /\ Len(back) = IF n + 1 <= Len(r) THEN Len(r) - (n + 1) + 1 ELSE 0
        /\ \A a \in 1 .. Len(r) - (n + 1) + 1 : back[a] = r[(n + 1) + a - 1]
    BY <2>1, <2>2, SubSeqProperties
  <2>. HIDE DEF back
  <2>. QED  BY <1>0, <2>3
<1>. HIDE DEF front, back
<1>3. /\ rest \in Seq(S) /\ Len(rest) = Len(front) + Len(back)
      /\ \A a \in 1 .. Len(front) + Len(back) :
            rest[a] = IF a <= Len(front) THEN front[a] ELSE back[a - Len(front)]
  BY <1>1, <1>2, ConcatProperties
<1>4. rest = Lru!RemoveAt(r, n)
  BY DEF front, back, Lru!RemoveAt
<1>. HIDE DEF rest
<1>5. ASSUME NEW a \in 1 .. Len(r) - 1 PROVE rest[a] = IF a < n THEN r[a] ELSE r[a + 1]
  <2>1. a \in 1 .. Len(front) + Len(back)
    BY <1>0, <1>1, <1>2
  <2>2. CASE a < n
    <3>1. a <= Len(front) /\ a \in 1 .. n - 1
      BY <1>0, <1>1, <2>2
    <3>2. rest[a] = front[a]
      BY <1>3, <2>1, <3>1
    <3>3. front[a] = r[a]
      BY <1>1, <3>1
    <3>. QED  BY <2>2, <3>2, <3>3
  <2>3. CASE ~(a < n)
    <3>1. ~(a <= Len(front)) /\ a - Len(front) \in 1 .. Len(r) - n /\ n + (a - Len(front)) = a + 1
      BY <1>0, <1>1, <2>3
    <3>2. rest[a] = back[a - Len(front)]
      BY <1>3, <2>1, <3>1
    <3>. QED  BY <1>2, <2>3, <3>1, <3>2
  <2>. QED  BY <2>2, <2>3
<1>6. Len(rest) = Len(r) - 1
  BY <1>0, <1>1, <1>2, <1>3
<1>. QED  BY <1>3, <1>4, <1>5, <1>6

(* The blocks of a set, given a list of its lines by age. *)
LEMMA BlocksAreSeq ==
    ASSUME NEW lines \in [Lines -> Line], NEW m \in Nat, NEW p, Ranks(p, m, lines), NEW i \in Sets
    PROVE  /\ BlocksOf(lines, i) \in Seq(Nat) /\ Len(BlocksOf(lines, i)) = m
           /\ \A a \in 1 .. m : BlocksOf(lines, i)[a] = (lines[p[a]].tag * 2^s) + i
<1>. DEFINE r == [a \in 1 .. m |-> lines[p[a]].tag * 2^s + i]
<1>1. BlocksOf(lines, i) = r
  BY RanksAreBlocks
<1>2. \A a \in 1 .. m : lines[p[a]].tag * 2^s + i \in Nat
  <2>1. \A a \in 1 .. m : lines[p[a]].tag \in Nat
    BY DEF Ranks, Used, Line
  <2>2. 2^s \in Nat /\ i \in Nat
    BY Powers DEF Sets
  <2>. QED  BY <2>1, <2>2
<1>3. r \in [1 .. m -> Nat]
  BY <1>2
<1>4. \A a \in 1 .. m : r[a] = (lines[p[a]].tag * 2^s) + i
  OBVIOUS
<1>. HIDE DEF r
<1>5. r \in Seq(Nat) /\ Len(r) = m
  BY <1>3
<1>. QED  BY <1>1, <1>4, <1>5

(* A hit moves its block to the front. *)
LEMMA HitBlocks ==
    ASSUME NEW lines \in [Lines -> Line], NEW m \in Nat, NEW p, Ranks(p, m, lines),
           NEW n \in 1 .. m, NEW i \in Sets
    PROVE  LET new == AfterHit(lines, p[n])
               r == BlocksOf(lines, i)
           IN  /\ Ranks(Moved(p, m, n), m, new)
               /\ BlocksOf(new, i) = <<r[n]>> \o Lru!RemoveAt(r, n)
<1>. DEFINE new == AfterHit(lines, p[n])
            r == BlocksOf(lines, i)
            f == Moved(p, m, n)
            t == <<r[n]>> \o Lru!RemoveAt(r, n)
<1>0. \A k \in Lines :
         /\ lines[k] \in Line
         /\ new[k] = IF k = p[n] THEN [lines[k] EXCEPT !.counter = 0] ELSE Aged(lines[k])
  BY DEF AfterHit
<1>1. \A k \in Lines : /\ new[k].tag = lines[k].tag /\ new[k].v_bit = lines[k].v_bit
                       /\ new[k].counter = IF k = p[n] THEN 0 ELSE lines[k].counter + 1
                       /\ new[k] \in Line
  <2>1. ASSUME NEW k \in Lines
        PROVE  /\ [lines[k] EXCEPT !.counter = 0] \in Line
               /\ [lines[k] EXCEPT !.counter = 0].tag = lines[k].tag
               /\ [lines[k] EXCEPT !.counter = 0].v_bit = lines[k].v_bit
               /\ [lines[k] EXCEPT !.counter = 0].counter = 0
    BY <1>0 DEF Line
  <2>. QED  BY <1>0, <2>1, AgedLine
<1>2. new \in [Lines -> Line] /\ Used(new) = Used(lines)
  <2>1. new = [k \in Lines |-> new[k]]
    BY DEF AfterHit
  <2>. HIDE DEF new
  <2>. QED  BY <1>1, <2>1 DEF Used
<1>3. \A a \in 1 .. m : p[a] \in Lines /\ p[a] \in Used(lines)
  BY DEF Ranks, Used
<1>4. Ranks(f, m, new)
  <2>. HIDE DEF new
  <2>1. new[p[n]].counter = 0 /\ \A k \in Used(lines) : k # p[n] => new[k].counter = lines[k].counter + 1
    BY <1>1, <1>3 DEF Used
  <2>. QED  BY <1>2, <2>1, MovedRanks
<1>5. /\ r \in Seq(Nat) /\ Len(r) = m /\ \A a \in 1 .. m : r[a] = (lines[p[a]].tag * 2^s) + i
  BY BlocksAreSeq
<1>. HIDE DEF new, r
<1>6. /\ BlocksOf(new, i) \in Seq(Nat) /\ Len(BlocksOf(new, i)) = m
      /\ \A a \in 1 .. m : BlocksOf(new, i)[a] = (new[f[a]].tag * 2^s) + i
  <2>. HIDE DEF f
  <2>. QED  BY <1>2, <1>4, BlocksAreSeq
<1>7. ASSUME NEW a \in 1 .. m
      PROVE  BlocksOf(new, i)[a] = IF a = 1 THEN r[n] ELSE IF a <= n THEN r[a - 1] ELSE r[a]
  <2>1. /\ f[a] = IF a = 1 THEN p[n] ELSE IF a <= n THEN p[a - 1] ELSE p[a]
        /\ a # 1 => a - 1 \in 1 .. m
    BY DEF Moved
  <2>2. f[a] \in Lines /\ new[f[a]].tag = lines[f[a]].tag
    BY <1>1, <1>3, <2>1
  <2>. HIDE DEF f
  <2>3. BlocksOf(new, i)[a] = (lines[f[a]].tag * 2^s) + i
    BY <1>6, <2>2
  <2>4. CASE a = 1
    BY <1>5, <2>1, <2>3, <2>4
  <2>5. CASE a # 1 /\ a <= n
    BY <1>5, <2>1, <2>3, <2>5
  <2>6. CASE a # 1 /\ ~(a <= n)
    BY <1>5, <2>1, <2>3, <2>6
  <2>. QED  BY <2>4, <2>5, <2>6
<1>8. /\ t \in Seq(Nat) /\ Len(t) = m
      /\ \A a \in 1 .. m : t[a] = IF a = 1 THEN r[n] ELSE IF a <= n THEN r[a - 1] ELSE r[a]
  <2>. DEFINE rest == Lru!RemoveAt(r, n)
  <2>1. /\ rest \in Seq(Nat) /\ Len(rest) = m - 1 /\ n \in 1 .. Len(r) /\ r[n] \in Nat
        /\ \A a \in 1 .. m - 1 : rest[a] = IF a < n THEN r[a] ELSE r[a + 1]
    BY <1>5, RemovedAt, ElementOfSeq
  <2>. HIDE DEF rest
  <2>2. /\ <<r[n]>> \o rest \in Seq(Nat) /\ Len(<<r[n]>> \o rest) = (m - 1) + 1
        /\ \A a \in 1 .. (m - 1) + 1 : (<<r[n]>> \o rest)[a] = IF a = 1 THEN r[n] ELSE rest[a - 1]
    BY <2>1, Prepended
  <2>3. t = <<r[n]>> \o rest
    BY DEF rest
  <2>. HIDE DEF t
  <2>4. \A a \in 1 .. m : t[a] = IF a = 1 THEN r[n] ELSE rest[a - 1]
    BY <2>2, <2>3
  <2>. QED  BY <2>1, <2>2, <2>3, <2>4
<1>. HIDE DEF t
<1>9. BlocksOf(new, i) = t
  <2>. DEFINE u == BlocksOf(new, i)
  <2>1. u \in Seq(Nat) /\ Len(u) = Len(t) /\ Len(u) = m
    BY <1>6, <1>8
  <2>2. \A a \in 1 .. m : u[a] = t[a]
    BY <1>7, <1>8
  <2>. HIDE DEF u
  <2>3. u = t
    BY <1>8, <2>1, <2>2, SeqEqual
  <2>. QED  BY <2>3 DEF u
<1>. QED  BY <1>4, <1>9 DEF new, r, f, t

(* A miss puts its block in front of the others. *)
LEMMA MissBlocks ==
    ASSUME NEW lines \in [Lines -> Line], Ordered(lines), NEW m \in Nat, NEW p, Ranks(p, m, lines),
           NEW tag \in Nat, Stops(lines, tag) # {}, lines[Stop(lines, tag)].v_bit = 0, NEW i \in Sets
    PROVE  LET new == AfterMiss(lines, Stop(lines, tag), tag)
               r == BlocksOf(lines, i)
           IN  /\ \E q : Ranks(q, m + 1, new)
               /\ BlocksOf(new, i) = <<(tag * 2^s) + i>> \o r
               /\ m < E /\ \A k \in Used(lines) : lines[k].tag # tag
<1>. DEFINE free == Stop(lines, tag)
            new == AfterMiss(lines, free, tag)
            r == BlocksOf(lines, i)
            x == (tag * 2^s) + i
            f == [a \in 1 .. m + 1 |-> IF a = 1 THEN free ELSE p[a - 1]]
<1>1. /\ free \in Lines /\ free \notin Used(lines) /\ new \in [Lines -> Line]
      /\ Used(new) = Used(lines) \cup {free}
      /\ new[free].counter = 0 /\ new[free].tag = tag
      /\ \A k \in Used(lines) : /\ new[k].counter = lines[k].counter + 1
                                /\ new[k].tag = lines[k].tag /\ lines[k].tag # tag
  BY MissLines
<1>. HIDE DEF free, new
<1>2. Ranks(f, m + 1, new)
  BY <1>1, AddedRanks
<1>3. m < E
  <2>1. E \in Nat /\ IsFiniteSet(Lines) /\ Cardinality(Lines) = E
    BY OptionsAssumption, FS_Interval DEF Lines
  <2>2. Cardinality(Used(lines)) = m
    BY RanksAreBlocks
  <2>3. Used(lines) \subseteq Lines /\ Used(lines) # Lines
    BY <1>1 DEF Used
  <2>4. Cardinality(Used(lines)) <= Cardinality(Lines) /\ Cardinality(Used(lines)) # Cardinality(Lines)
    BY <2>1, <2>3, FS_Subset
  <2>. QED  BY <2>1, <2>2, <2>4
<1>4. r \in Seq(Nat) /\ Len(r) = m /\ \A a \in 1 .. m : r[a] = (lines[p[a]].tag * 2^s) + i
  BY BlocksAreSeq
<1>. HIDE DEF r
<1>5. /\ BlocksOf(new, i) \in Seq(Nat) /\ Len(BlocksOf(new, i)) = m + 1
      /\ \A a \in 1 .. m + 1 : BlocksOf(new, i)[a] = (new[f[a]].tag * 2^s) + i
  <2>. HIDE DEF f
  <2>1. m + 1 \in Nat
    OBVIOUS
  <2>. QED  BY <1>1, <1>2, <2>1, BlocksAreSeq
<1>6. x \in Nat
  BY Powers DEF Sets
<1>7. ASSUME NEW a \in 1 .. m + 1 PROVE BlocksOf(new, i)[a] = IF a = 1 THEN x ELSE r[a - 1]
  <2>1. f[a] = IF a = 1 THEN free ELSE p[a - 1]
    OBVIOUS
  <2>2. a # 1 => a - 1 \in 1 .. m
    OBVIOUS
  <2>3. BlocksOf(new, i)[a] = (new[f[a]].tag * 2^s) + i
    BY <1>5
  <2>. HIDE DEF f
  <2>4. CASE a = 1
    BY <1>1, <2>1, <2>3, <2>4
  <2>5. CASE a # 1
    <3>1. p[a - 1] \in Used(lines)
      BY <2>2, <2>5 DEF Ranks
    <3>. QED  BY <1>1, <1>4, <2>1, <2>2, <2>3, <2>5, <3>1
  <2>. QED  BY <2>4, <2>5
<1>. HIDE DEF x, f
<1>8. /\ <<x>> \o r \in Seq(Nat) /\ Len(<<x>> \o r) = m + 1
      /\ \A a \in 1 .. m + 1 : (<<x>> \o r)[a] = IF a = 1 THEN x ELSE r[a - 1]
  BY <1>4, <1>6, Prepended
<1>9. BlocksOf(new, i) = <<x>> \o r
  <2>1. PICK v, w : v = BlocksOf(new, i) /\ w = <<x>> \o r
    OBVIOUS
  <2>2. v \in Seq(Nat) /\ w \in Seq(Nat) /\ Len(v) = Len(w) /\ Len(v) = m + 1
    BY <1>5, <1>8, <2>1
  <2>3. \A n \in 1 .. m + 1 : v[n] = w[n]
    BY <1>7, <1>8, <2>1
  <2>4. v = w
    BY <2>2, <2>3, SeqEqual
  <2>. QED  BY <2>1, <2>4
<1>. QED  BY <1>1, <1>2, <1>3, <1>9 DEF free, new, r, x

(* An eviction drops the last block, that of the oldest line. *)
LEMMA EvictionBlocks ==
    ASSUME NEW lines \in [Lines -> Line], Ordered(lines), NEW m \in Nat, NEW p, Ranks(p, m, lines),
           NEW tag \in Nat, Stops(lines, tag) = {}, NEW i \in Sets
    PROVE  LET new == AfterEviction(lines, tag)
               r == BlocksOf(lines, i)
           IN  /\ \E q : Ranks(q, m, new)
               /\ BlocksOf(new, i) = <<(tag * 2^s) + i>> \o Lru!Front(r)
               /\ m = E /\ \A k \in Used(lines) : lines[k].tag # tag
<1>. DEFINE old == Oldest(lines)
            new == AfterEviction(lines, tag)
            r == BlocksOf(lines, i)
            x == (tag * 2^s) + i
            f == Moved(p, m, m)
<1>1. /\ old \in Lines /\ \A j \in Lines : lines[j].counter <= lines[old].counter
      /\ new \in [Lines -> Line]
      /\ Used(new) = Lines /\ Used(lines) = Lines
      /\ new[old].counter = 0 /\ new[old].tag = tag
      /\ \A k \in Lines : lines[k].tag # tag /\ lines[k].counter \in Nat
      /\ \A k \in Lines : k # old => /\ new[k].counter = lines[k].counter + 1
                                     /\ new[k].tag = lines[k].tag
  BY EvictionLines, OldestExists
<1>. HIDE DEF old, new
<1>2. m = E /\ m \in 1 .. m
  <2>1. E \in Nat \ {0} /\ Cardinality(Lines) = E
    BY OptionsAssumption, FS_Interval DEF Lines
  <2>2. Cardinality(Used(lines)) = m
    BY RanksAreBlocks
  <2>. QED  BY <1>1, <2>1, <2>2
<1>3. p[m] = old
  <2>1. PICK a \in 1 .. m : p[a] = old
    BY <1>1 DEF Ranks
  <2>2. p[m] \in Lines
    BY <1>1, <1>2 DEF Ranks
  <2>3. ~(a < m)
    <3>1. a < m => lines[p[a]].counter < lines[p[m]].counter
      BY <1>2 DEF Ranks
    <3>2. lines[p[m]].counter <= lines[p[a]].counter
      BY <1>1, <2>1, <2>2
    <3>3. lines[p[m]].counter \in Nat /\ lines[p[a]].counter \in Nat
      BY <1>1, <2>1, <2>2
    <3>. QED  BY <3>1, <3>2, <3>3
  <2>. QED  BY <2>1, <2>3
<1>4. Ranks(f, m, new)
  <2>1. new[p[m]].counter = 0 /\ \A k \in Used(lines) : k # p[m] => new[k].counter = lines[k].counter + 1
    BY <1>1, <1>3
  <2>. QED  BY <1>1, <1>2, <2>1, MovedRanks
<1>5. r \in Seq(Nat) /\ Len(r) = m /\ \A a \in 1 .. m : r[a] = (lines[p[a]].tag * 2^s) + i
  BY BlocksAreSeq
<1>. HIDE DEF r
<1>6. /\ BlocksOf(new, i) \in Seq(Nat) /\ Len(BlocksOf(new, i)) = m
      /\ \A a \in 1 .. m : BlocksOf(new, i)[a] = (new[f[a]].tag * 2^s) + i
  <2>. HIDE DEF f
  <2>. QED  BY <1>1, <1>4, BlocksAreSeq
<1>7. x \in Nat
  BY Powers DEF Sets
<1>8. ASSUME NEW a \in 1 .. m PROVE BlocksOf(new, i)[a] = IF a = 1 THEN x ELSE r[a - 1]
  <2>1. f[a] = IF a = 1 THEN p[m] ELSE p[a - 1]
    BY DEF Moved
  <2>2. a # 1 => a - 1 \in 1 .. m /\ a - 1 < m
    OBVIOUS
  <2>3. BlocksOf(new, i)[a] = (new[f[a]].tag * 2^s) + i
    BY <1>6
  <2>. HIDE DEF f
  <2>4. CASE a = 1
    BY <1>1, <1>3, <2>1, <2>3, <2>4
  <2>5. CASE a # 1
    <3>1. p[a - 1] \in Lines /\ lines[p[a - 1]].counter < lines[p[m]].counter
      BY <1>1, <1>2, <2>2, <2>5 DEF Ranks
    <3>2. p[a - 1] # old
      BY <1>1, <1>3, <3>1
    <3>. QED  BY <1>1, <1>5, <2>1, <2>2, <2>3, <2>5, <3>1, <3>2
  <2>. QED  BY <2>4, <2>5
<1>. HIDE DEF x, f
<1>9. /\ <<x>> \o Lru!Front(r) \in Seq(Nat) /\ Len(<<x>> \o Lru!Front(r)) = m
      /\ \A a \in 1 .. m : (<<x>> \o Lru!Front(r))[a] = IF a = 1 THEN x ELSE r[a - 1]
  <2>. DEFINE rest == Lru!Front(r)
              t == <<x>> \o rest
  <2>1. /\ rest \in Seq(Nat) /\ Len(rest) = m - 1
        /\ \A a \in 1 .. m - 1 : rest[a] = r[a]
    BY <1>2, <1>5, FrontPart DEF Lru!Front
  <2>. HIDE DEF rest
  <2>2. /\ t \in Seq(Nat) /\ Len(t) = (m - 1) + 1
        /\ \A a \in 1 .. (m - 1) + 1 : t[a] = IF a = 1 THEN x ELSE rest[a - 1]
    BY <1>7, <2>1, Prepended
  <2>. HIDE DEF t
  <2>3. \A a \in 1 .. m : t[a] = IF a = 1 THEN x ELSE rest[a - 1]
    BY <2>2
  <2>4. /\ t \in Seq(Nat) /\ Len(t) = m
        /\ \A a \in 1 .. m : t[a] = IF a = 1 THEN x ELSE r[a - 1]
    BY <2>1, <2>2, <2>3
  <2>. QED  BY <2>4 DEF t, rest
<1>10. BlocksOf(new, i) = <<x>> \o Lru!Front(r)
  <2>. DEFINE t == <<x>> \o Lru!Front(r)
  <2>1. /\ t \in Seq(Nat) /\ Len(t) = m
        /\ \A a \in 1 .. m : t[a] = IF a = 1 THEN x ELSE r[a - 1]
    BY <1>9
  <2>. HIDE DEF t
  <2>. DEFINE u == BlocksOf(new, i)
  <2>2. u \in Seq(Nat) /\ Len(u) = Len(t) /\ Len(u) = m
    BY <1>6, <2>1
  <2>3. \A a \in 1 .. m : u[a] = t[a]
    BY <1>8, <2>1
  <2>. HIDE DEF u
  <2>4. u = t
    BY <2>1, <2>2, <2>3, SeqEqual
  <2>. QED  BY <2>4 DEF t, u
<1>. QED  BY <1>1, <1>2, <1>4, <1>10 DEF new, r, x

-----------------------------------------------------------------------------
(* A step that replaces the lines of one set, of which there is again a list
   by age, replaces the blocks of that set. *)
LEMMA SetReplaced ==
    ASSUME LinesOrdered, Ranked, NEW i \in Sets, NEW new \in [Lines -> Line],
           cache' = [cache EXCEPT ![i] = new],
           NEW m \in Nat, NEW p, Ranks(p, m, new)
    PROVE  Ranked' /\ Recency' = [Recency EXCEPT ![i] = BlocksOf(new, i)]
<1>1. /\ cache \in [Sets -> [Lines -> Line]] /\ cache'[i] = new
      /\ \A k \in Sets : k # i => cache'[k] = cache[k]
  BY DEF LinesOrdered, TypeOK
<1>2. p \in [1 .. m -> Lines]
  BY DEF Ranks, Used
<1>3. ASSUME NEW k \in Sets
      PROVE  \E n \in Nat : \E q \in [1 .. n -> Lines] : Ranks(q, n, cache'[k])
  <2>1. CASE k = i
    BY <1>1, <1>2, <2>1
  <2>2. CASE k # i
    BY <1>1, <2>2 DEF Ranked
  <2>. QED  BY <2>1, <2>2
<1>4. Ranked'
  BY <1>3 DEF Ranked
<1>5. Recency = [k \in Sets |-> BlocksOf(cache[k], k)] /\ Recency' = [k \in Sets |-> BlocksOf(cache'[k], k)]
  BY DEF Recency
<1>6. Recency' = [Recency EXCEPT ![i] = BlocksOf(new, i)]
  <2>1. ASSUME NEW k \in Sets
        PROVE  BlocksOf(cache'[k], k) = [Recency EXCEPT ![i] = BlocksOf(new, i)][k]
    BY <1>1, <1>5
  <2>. QED  BY <1>5, <2>1
<1>. QED  BY <1>4, <1>6

(* Nothing is in use when the simulator starts. *)
LEMMA RankedInit == Init => Ranked /\ Lru!Init
<1>. SUFFICES ASSUME Init PROVE Ranked /\ Lru!Init
  OBVIOUS
<1>1. \A i \in Sets : Used(cache[i]) = {} /\ cache[i] \in [Lines -> Line]
  BY ClearedLines
<1>. DEFINE p == [a \in 1 .. 0 |-> 0]
<1>2. ASSUME NEW i \in Sets
      PROVE  /\ p \in [1 .. 0 -> Lines] /\ Ranks(p, 0, cache[i])
             /\ BlocksOf(cache[i], i) = << >>
  <2>1. Used(cache[i]) = {} /\ cache[i] \in [Lines -> Line]
    BY <1>1
  <2>2. p \in [1 .. 0 -> Lines] /\ Ranks(p, 0, cache[i])
    BY <2>1 DEF Ranks
  <2>3. BlocksOf(cache[i], i) \in Seq(Nat) /\ Len(BlocksOf(cache[i], i)) = 0
    BY <2>1, <2>2, BlocksAreSeq
  <2>. QED  BY <2>2, <2>3, EmptySeq, SeqEqual
<1>3. Ranked
  BY <1>2 DEF Ranked
<1>4. Recency = [i \in Sets |-> << >>]
  BY <1>2 DEF Recency
<1>. QED  BY <1>3, <1>4 DEF Lru!Init, Init, Sets

(* Each operation of the trace is one of the LRU cache. *)
LEMMA LruStep ==
    ASSUME TagsFit
    PROVE  LinesOrdered /\ Ranked /\ [Next]_vars =>
               Ranked' /\ [Lru!Next]_<<Recency, hits, misses, evictions>>
<1>. DEFINE lru == <<Recency, hits, misses, evictions>>
<1>. SUFFICES ASSUME LinesOrdered, Ranked, [Next]_vars PROVE Ranked' /\ [Lru!Next]_lru
  OBVIOUS
<1>1. ASSUME cache' = cache, hits' = hits, misses' = misses, evictions' = evictions
      PROVE  Ranked' /\ [Lru!Next]_lru
  BY <1>1 DEF Ranked, Recency
<1>2. ASSUME NEW op \in {"L", "S", "M"}, NEW addr \in Addresses,
             Hit(op, addr) \/ Miss(op, addr) \/ MissEviction(op, addr)
      PROVE  Ranked' /\ Lru!Next
  <2>. DEFINE i == s_index(addr)
              tag == i_tag(addr)
              lines == cache[i]
              block == addr \div 2^b
              r == BlocksOf(lines, i)
              S == 2^s
  <2>1. i \in Sets /\ tag \in Nat /\ Extra(op) \in 0 .. 1
    BY AddressParts, TraceAssumption DEF Extra
  <2>2. block = (tag * S) + i /\ Lru!SetOf(block) = i /\ block \in Lru!Blocks
    BY BlockOfAddress DEF Lru!SetOf, Lru!Blocks
  <2>3. lines \in [Lines -> Line] /\ Ordered(lines) /\ Recency[i] = r
    BY <2>1 DEF LinesOrdered, TypeOK, Recency
  <2>. HIDE DEF i, tag, block
  <2>4. PICK m \in Nat : \E p \in [1 .. m -> Lines] : Ranks(p, m, lines)
    BY <2>1 DEF Ranked
  <2>5. PICK p : Ranks(p, m, lines)
    BY <2>4
  <2>. HIDE DEF lines
  <2>6. /\ r \in Seq(Nat) /\ Len(r) = m /\ DOMAIN r = 1 .. m
        /\ \A a \in 1 .. m : r[a] = (lines[p[a]].tag * S) + i
    <3>1. /\ r \in Seq(Nat) /\ Len(r) = m
          /\ \A a \in 1 .. m : r[a] = (lines[p[a]].tag * S) + i
      BY <2>1, <2>3, <2>5, BlocksAreSeq
    <3>. HIDE DEF r
    <3>. QED  BY <3>1, LenProperties
  <2>. HIDE DEF r, S
  <2>7. ASSUME \A k \in Used(lines) : lines[k].tag # tag PROVE ~Lru!Resident(block)
    <3>1. SUFFICES ASSUME Lru!Resident(block) PROVE FALSE
      OBVIOUS
    <3>2. PICK a \in 1 .. m : r[a] = block
      BY <2>2, <2>3, <2>6, <3>1 DEF Lru!Resident, Lru!ToSet
    <3>3. p[a] \in Used(lines) /\ lines[p[a]].tag \in Nat
      BY <2>3, <2>5 DEF Ranks, Used, Line
    <3>4. lines[p[a]].tag = tag
      BY <2>1, <2>2, <2>6, <3>2, <3>3, SameBlock DEF S
    <3>. QED  BY <2>7, <3>3, <3>4
  <2>8. CASE Hit(op, addr)
    <3>. DEFINE hit == Stop(lines, tag)
    <3>1. /\ Stops(lines, tag) # {} /\ lines[hit].v_bit = 1
          /\ cache' = [cache EXCEPT ![i] = AfterHit(lines, hit)]
          /\ hits' = hits + 1 + Extra(op) /\ UNCHANGED <<misses, evictions>>
      BY <2>8 DEF Hit, i, tag, lines
    <3>2. hit \in Used(lines) /\ lines[hit].tag = tag
      BY <2>1, <2>3, <3>1, StopIsFirst DEF Used
    <3>. HIDE DEF hit
    <3>3. PICK n \in 1 .. m : p[n] = hit
      BY <2>5, <3>2 DEF Ranks
    <3>4. r[n] = block /\ Lru!Resident(block)
      BY <2>2, <2>3, <2>6, <3>2, <3>3 DEF Lru!Resident, Lru!ToSet
    <3>5. /\ Ranks(Moved(p, m, n), m, AfterHit(lines, hit))
          /\ BlocksOf(AfterHit(lines, hit), i) = <<block>> \o Lru!RemoveAt(r, n)
      BY <2>1, <2>3, <2>5, <3>3, <3>4, HitBlocks DEF r
    <3>6. AfterHit(lines, hit) \in [Lines -> Line]
      BY <2>3, <3>2, HitOrdered
    <3>7. Ranked' /\ Recency' = [Recency EXCEPT ![i] = <<block>> \o Lru!RemoveAt(r, n)]
      BY <2>1, <3>1, <3>5, <3>6, SetReplaced
    <3>8. Lru!Hit(block, Extra(op))
      BY <2>2, <2>3, <2>6, <3>1, <3>4, <3>7 DEF Lru!Hit, Lru!Use
    <3>. QED  BY <2>1, <2>2, <3>7, <3>8 DEF Lru!Next
  <2>9. CASE Miss(op, addr)
    <3>. DEFINE free == Stop(lines, tag)
                new == AfterMiss(lines, free, tag)
    <3>1. /\ Stops(lines, tag) # {} /\ lines[free].v_bit = 0
          /\ cache' = [cache EXCEPT ![i] = new]
          /\ misses' = misses + 1 /\ hits' = hits + Extra(op) /\ UNCHANGED evictions
      BY <2>9 DEF Miss, i, tag, lines
    <3>2. /\ \E q : Ranks(q, m + 1, new)
          /\ BlocksOf(new, i) = <<block>> \o r
          /\ m < E /\ \A k \in Used(lines) : lines[k].tag # tag
      BY <2>1, <2>2, <2>3, <2>5, <3>1, MissBlocks DEF r, S
    <3>3. new \in [Lines -> Line]
      BY <2>1, <2>3, <3>1, MissOrdered
    <3>. HIDE DEF new
    <3>4. Ranked' /\ Recency' = [Recency EXCEPT ![i] = <<block>> \o r]
      <4>1. m + 1 \in Nat
        OBVIOUS
      <4>. QED  BY <2>1, <3>1, <3>2, <3>3, <4>1, SetReplaced
    <3>5. Lru!Miss(block, Extra(op))
      BY <2>2, <2>3, <2>6, <2>7, <3>1, <3>2, <3>4 DEF Lru!Miss, Lru!Use
    <3>. QED  BY <2>1, <2>2, <3>4, <3>5 DEF Lru!Next
  <2>10. CASE MissEviction(op, addr)
    <3>. DEFINE new == AfterEviction(lines, tag)
    <3>1. /\ Stops(lines, tag) = {} /\ cache' = [cache EXCEPT ![i] = new]
          /\ misses' = misses + 1 /\ evictions' = evictions + 1 /\ hits' = hits + Extra(op)
      BY <2>10 DEF MissEviction, i, tag, lines
    <3>2. /\ \E q : Ranks(q, m, new)
          /\ BlocksOf(new, i) = <<block>> \o Lru!Front(r)
          /\ m = E /\ \A k \in Used(lines) : lines[k].tag # tag
      BY <2>1, <2>2, <2>3, <2>5, <3>1, EvictionBlocks DEF r, S
    <3>3. new \in [Lines -> Line]
      BY <2>1, <2>3, <3>1, EvictionOrdered
    <3>. HIDE DEF new
    <3>4. Ranked' /\ Recency' = [Recency EXCEPT ![i] = <<block>> \o Lru!Front(r)]
      BY <2>1, <3>1, <3>2, <3>3, SetReplaced
    <3>5. Lru!MissEviction(block, Extra(op))
      BY <2>2, <2>3, <2>6, <2>7, <3>1, <3>2, <3>4 DEF Lru!MissEviction, Lru!Use
    <3>. QED  BY <2>1, <2>2, <3>4, <3>5 DEF Lru!Next
  <2>. QED  BY <1>2, <2>8, <2>9, <2>10
<1>3. CASE UNCHANGED vars
  BY <1>1, <1>3 DEF vars
<1>4. CASE Next
  BY <1>1, <1>2, <1>4 DEF Next, Operation, Instruction, EndOfTrace, vars
<1>. QED  BY <1>3, <1>4

(* For addresses whose tags fit in i_tag, whatever the trace and the options:
   the simulator's hits, misses and evictions are those of a cache that holds,
   in each set, the E blocks used most recently. *)
THEOREM CountersImplementLru ==
    ASSUME TagsFit PROVE Spec => ImplementsLru
<1>1. Init => Ranked /\ Lru!Init
  BY RankedInit
<1>2. LinesOrdered /\ Ranked /\ [Next]_vars =>
          Ranked' /\ [Lru!Next]_<<Recency, hits, misses, evictions>>
  BY LruStep
<1>. QED  BY <1>1, <1>2, CountersOrder, PTL DEF Spec, ImplementsLru, Lru!Spec

=============================================================================
