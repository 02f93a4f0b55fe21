-------------------------------- MODULE Fcyc --------------------------------
(***************************************************************************)
(* The K-best scheme of fcyc.c over the cycle counter of clock.c: a function *)
(* is timed until the K smallest times are close together, or there were     *)
(* enough samples; the smallest is the result.  The counter is read as two   *)
(* words, and its difference is taken word by word with a borrow.            *)
(***************************************************************************)
EXTENDS Integers, Sequences, SequencesExt

CONSTANTS
    KBest,         \* kbest
    MaxSamples,    \* maxsamples
    Epsilon,       \* epsilon, in percent
    Unsigned,          \* values of an unsigned
    Times          \* how many cycles a run of the function may take

ASSUME FcycAssumption ==
    /\ KBest \in Nat \ {0} /\ MaxSamples \in Nat \ {0} /\ Epsilon \in Nat
    /\ Unsigned \in Nat \ {0} /\ Times \subseteq 0 .. Unsigned * Unsigned - 1

VARIABLES
    values,        \* the smallest samples so far
    samplecount,
    fcycResult,    \* what fcyc returned
    taken          \* history: what the runs really took, in order of size

fcycVars == <<values, samplecount, fcycResult, taken>>
NoResult == -1

(* mutant: the borrow is forgotten *)
DifferenceNoBorrow(old, new) ==
    LET lo == (new.lo - old.lo) % Unsigned
        hi == (new.hi - old.hi) % Unsigned
    IN  hi * Unsigned + lo

(* get_counter: unsigned subtraction wraps, and then lo exceeds the minuend. *)
Difference(old, new) ==
    LET lo == (new.lo - old.lo) % Unsigned
        borrow == IF lo > new.lo THEN 1 ELSE 0
        hi == (new.hi - old.hi - borrow) % Unsigned
    IN  hi * Unsigned + lo

(* access_counter at time t; the counter itself wraps, too. *)
Counter(t) == [hi |-> (t \div Unsigned) % Unsigned, lo |-> t % Unsigned]

(* the insertion sort of add_sample: the new value moves down to behind the
   first that is not larger *)
InsertSorted(s, val) ==
    LET below == Max({i \in 0 .. Len(s) : i = 0 \/ s[i] <= val})
    IN  InsertAt(s, below + 1, val)

(* add_sample: once the array is full a smaller value replaces the largest. *)
Added(val) ==
    IF samplecount < KBest THEN InsertSorted(values, val)
    ELSE IF val < values[KBest] THEN InsertSorted(Front(values), val) ELSE values

HasConverged(vals, count) == count >= KBest /\ (100 + Epsilon) * vals[1] >= 100 * vals[KBest]

FcycInit == values = <<>> /\ samplecount = 0 /\ fcycResult = NoResult /\ taken = <<>>

Sample ==
    /\ fcycResult = NoResult
    /\ \E t \in 0 .. Unsigned * Unsigned - 1, cycles \in Times :
           /\ values' = Added(Difference(Counter(t), Counter(t + cycles)))
           /\ taken' = InsertSorted(taken, cycles)
    /\ samplecount' = samplecount + 1
    /\ fcycResult' = IF HasConverged(values', samplecount') \/ samplecount' >= MaxSamples
                     THEN values'[1] ELSE NoResult

FcycNext == Sample

FcycSpec == FcycInit /\ [][FcycNext]_fcycVars

(* The array holds the smallest of the times that the runs took, in order,
   whenever the counter was started and wherever its low word wrapped; the
   result is the smallest of all of them, and sampling ends in time. *)
KBestKept ==
    /\ values = SubSeq(taken, 1, Len(values))
    /\ Len(values) = IF samplecount < KBest THEN samplecount ELSE KBest
    /\ samplecount <= MaxSamples
    /\ fcycResult # NoResult => fcycResult = taken[1]

=============================================================================
