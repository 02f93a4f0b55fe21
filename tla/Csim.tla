-------------------------------- MODULE Csim --------------------------------
(***************************************************************************)
(* The cache simulator csim.c.  Each line of a set has an age counter; an  *)
(* access scans the lines of its set in order, ages those it passes, and   *)
(* stops at a line that is free or holds the block; when there is none it  *)
(* replaces the oldest.                                                    *)
(***************************************************************************)
EXTENDS Integers, Sequences, FiniteSets

CONSTANTS
    s, E, b,       \* the options: 2^s sets of E lines of 2^b bytes
    Addresses,     \* the addresses of the trace
    TagBits,       \* the width of the int i_tag the address is shifted into
    Garbage,       \* what malloc may leave in the lines
    MaxOps         \* bound of the model: operations of the trace

ASSUME OptionsAssumption == s \in Nat /\ b \in Nat /\ E \in Nat \ {0}
ASSUME TraceAssumption == Addresses \subseteq Nat /\ TagBits \in Nat /\ MaxOps \in Nat

VARIABLES
    cache,         \* the lines: valid bit, tag and counter
    hits, misses, evictions,     \* h, m and e
    ops            \* operations read so far

vars == <<cache, hits, misses, evictions, ops>>

Sets == 0 .. 2^s - 1
Lines == 0 .. E - 1

(* A tag is the word of an int as a natural number; a counter is its value. *)
Line == [v_bit : 0 .. 1, tag : Nat, counter : Int]
ASSUME GarbageAssumption == \A left \in Garbage : left \in [Sets -> [Lines -> Line]]

TypeOK ==
    /\ cache \in [Sets -> [Lines -> Line]]
    /\ hits \in Nat /\ misses \in Nat /\ evictions \in Nat /\ ops \in 0 .. MaxOps

(* Only the valid bits are initialised; the rest of each line is what was left. *)
Cleared(left) == [i \in Sets |-> [k \in Lines |-> [left[i][k] EXCEPT !.v_bit = 0]]]

Init ==
    /\ cache \in {Cleared(left) : left \in Garbage}
    /\ hits = 0 /\ misses = 0 /\ evictions = 0
    /\ ops = 0

i_tag(addr) == (addr \div 2^(b + s)) % 2^TagBits
s_index(addr) == (addr % 2^(b + s)) \div 2^b

(* The lines a scan for tag stops at, and the first of them. *)
Stops(lines, tag) == {k \in Lines : lines[k].v_bit = 0 \/ lines[k].tag = tag}
Stop(lines, tag) ==
    CHOOSE k \in Stops(lines, tag) : \A j \in Stops(lines, tag) : k <= j

Aged(line) == [line EXCEPT !.counter = @ + 1]

(* The last line whose counter no other exceeds: `>=' keeps moving on. *)
Oldest(lines) ==
    CHOOSE k \in Lines : \A j \in Lines :
        /\ lines[j].counter <= lines[k].counter
        /\ j > k => lines[j].counter < lines[k].counter

(* mutant: the lines behind a hit are not aged *)
AfterHitShort(lines, hit) ==
    [k \in Lines |-> IF k = hit THEN [lines[k] EXCEPT !.counter = 0]
                     ELSE IF k < hit THEN Aged(lines[k]) ELSE lines[k]]

AfterHit(lines, hit) ==
    [k \in Lines |-> IF k = hit THEN [lines[k] EXCEPT !.counter = 0] ELSE Aged(lines[k])]

AfterMiss(lines, free, tag) ==
    [k \in Lines |-> IF k = free THEN [v_bit |-> 1, tag |-> tag, counter |-> 0]
                     ELSE IF k < free THEN Aged(lines[k]) ELSE lines[k]]

(* mutant: the line that is replaced keeps its age *)
AfterEvictionNoReset(lines, tag) ==
    [k \in Lines |-> IF k = Oldest(lines) THEN [Aged(lines[k]) EXCEPT !.tag = tag]
                     ELSE Aged(lines[k])]

AfterEviction(lines, tag) ==
    [k \in Lines |-> IF k = Oldest(lines)
                     THEN [lines[k] EXCEPT !.tag = tag, !.counter = 0]
                     ELSE Aged(lines[k])]

Extra(op) == IF op = "M" THEN 1 ELSE 0       \* a modify's store hits as well

Hit(op, addr) ==
    LET lines == cache[s_index(addr)]
        stop  == Stop(lines, i_tag(addr))
    IN  /\ Stops(lines, i_tag(addr)) # {} /\ lines[stop].v_bit = 1
        /\ cache' = [cache EXCEPT ![s_index(addr)] = AfterHit(lines, stop)]
        /\ hits' = hits + 1 + Extra(op)
        /\ UNCHANGED <<misses, evictions>>

Miss(op, addr) ==
    LET lines == cache[s_index(addr)]
        stop  == Stop(lines, i_tag(addr))
    IN  /\ Stops(lines, i_tag(addr)) # {} /\ lines[stop].v_bit = 0
        /\ cache' = [cache EXCEPT ![s_index(addr)] = AfterMiss(lines, stop, i_tag(addr))]
        /\ misses' = misses + 1 /\ hits' = hits + Extra(op)
        /\ UNCHANGED evictions

MissEviction(op, addr) ==
    LET lines == cache[s_index(addr)]
    IN  /\ Stops(lines, i_tag(addr)) = {}
        /\ cache' = [cache EXCEPT ![s_index(addr)] = AfterEviction(lines, i_tag(addr))]
        /\ misses' = misses + 1 /\ evictions' = evictions + 1 /\ hits' = hits + Extra(op)

(* The lines of a valgrind trace for instruction fetches change nothing. *)
Instruction == UNCHANGED <<cache, hits, misses, evictions>>

Operation ==
    /\ ops < MaxOps
    /\ ops' = ops + 1
    /\ \/ Instruction
       \/ \E op \in {"L", "S", "M"}, addr \in Addresses :
              Hit(op, addr) \/ Miss(op, addr) \/ MissEviction(op, addr)

EndOfTrace == ops = MaxOps /\ UNCHANGED vars

Next == Operation \/ EndOfTrace

Spec == Init /\ [][Next]_vars

-----------------------------------------------------------------------------
Used(lines) == {k \in Lines : lines[k].v_bit = 1}
Ordered(lines) ==
    /\ \A k \in Used(lines) : lines[k].counter \in Nat
    /\ \A k \in Used(lines), j \in Lines : j < k => j \in Used(lines)
    /\ \A j, k \in Used(lines) : j # k => /\ lines[j].tag # lines[k].tag
                                          /\ lines[j].counter # lines[k].counter

(* What the replacement relies on: the lines in use are the first of the set,
   hold different blocks, and have different counters, none of them left by
   malloc, so that the oldest is one line, though hits, misses and evictions age different lines. *)
LinesOrdered == TypeOK /\ \A i \in Sets : Ordered(cache[i])

(* The refinement mapping: a set's blocks in the order of their counters. *)
Younger(lines, k) == {j \in Used(lines) : lines[j].counter < lines[k].counter}
NthYoungest(lines, n) ==
    CHOOSE k \in Used(lines) : Cardinality(Younger(lines, k)) = n - 1
BlocksOf(lines, i) ==
    [n \in 1 .. Cardinality(Used(lines)) |-> lines[NthYoungest(lines, n)].tag * 2^s + i]
Recency == [i \in Sets |-> BlocksOf(cache[i], i)]

Lru == INSTANCE LruCache WITH recency <- Recency, h <- hits, m <- misses, e <- evictions

(* The counters implement least-recently-used replacement, and hits, misses and
   evictions are those of that cache, for any trace. *)
ImplementsLru == Lru!Spec

=============================================================================
