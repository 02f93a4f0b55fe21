------------------------------- MODULE Btest --------------------------------
(***************************************************************************)
(* btest.c: every function of decl.c's list that is asked for is compared   *)
(* with its test function on generated values, up to the first difference   *)
(* or a time limit, and gets its rating or nothing.  The limit is an alarm  *)
(* whose handler jumps back into test_function; it is never cancelled.      *)
(*                                                                         *)
(* The text of an option is what get_num_val finds in it: whether it looks  *)
(* like a float, whether something follows the number, and the two halves  *)
(* of the 64 bits.                                                          *)
(***************************************************************************)
EXTENDS Bits, SequencesExt, FiniteSetsExt

CONSTANTS
    TestRange,     \* TEST_RANGE
    MaxTestVals,   \* MAX_TEST_VALS
    Weights,       \* what rand, which is never seeded, gives: eighths of RAND_MAX
    Commands,      \* the command lines
    MaxAlarms      \* bound: functions charged that do not loop

ASSUME BtestAssumption ==
    /\ TestRange \in Nat \ {0} /\ MaxTestVals \in Nat
    /\ DOMAIN Weights = 0 .. TestRange - 1 /\ \A i \in DOMAIN Weights : Weights[i] \in 0 .. 8
    /\ MaxAlarms \in Nat

VARIABLES
    options,    \* test_fname, timeout_limit, global_rating, argval by argument
    at,         \* function, phase of its test, tests made
    armed,      \* an alarm is set
    failed,     \* the functions that got no points
    points,     \* points and max_points
    charged     \* history: the functions charged by an alarm

btestVars == <<options, at, armed, failed, points, charged>>

-----------------------------------------------------------------------------
(* decl.c *)
Word == <<TMin, TMax>>
Bitlevel == <<1, 1>>
Test(name, rating, limits) == [name |-> name, rating |-> rating, ranges |-> limits]
test_set == <<
    Test("bitAnd", 1, <<Word, Word>>),       Test("getByte", 2, <<Word, <<0, 3>>>>),
    Test("logicalShift", 3, <<Word, <<0, 31>>>>),
    Test("bitCount", 4, <<Word>>),           Test("bang", 4, <<Word>>),
    Test("tmin", 1, <<>>),                   Test("fitsBits", 2, <<Word, <<1, 32>>>>),
    Test("divpwr2", 2, <<Word, <<0, 30>>>>), Test("negate", 2, <<Word>>),
    Test("isPositive", 3, <<Word>>),         Test("isLessOrEqual", 3, <<Word, Word>>),
    Test("ilog2", 4, <<<<1, TMax>>>>),       Test("float_neg", 2, <<Bitlevel>>),
    Test("float_i2f", 4, <<Bitlevel>>),      Test("float_twice", 4, <<Bitlevel>>)>>

Differs(name, x, y) ==
    CASE name = "bitAnd"        -> bitAnd(x, y) # test_bitAnd(x, y)
      [] name = "getByte"       -> getByte(x, y) # test_getByte(x, y)
      [] name = "logicalShift"  -> logicalShift(x, y) # test_logicalShift(x, y)
      [] name = "bitCount"      -> bitCount(x) # test_bitCount(x)
      [] name = "bang"          -> bang(x) # test_bang(x)
      [] name = "tmin"          -> tmin # test_tmin
      [] name = "fitsBits"      -> fitsBits(x, y) # test_fitsBits(x, y)
      [] name = "divpwr2"       -> divpwr2(x, y) # test_divpwr2(x, y)
      [] name = "negate"        -> negate(x) # test_negate(x)
      [] name = "isPositive"    -> isPositive(x) # test_isPositive(x)
      [] name = "isLessOrEqual" -> isLessOrEqual(x, y) # test_isLessOrEqual(x, y)
      [] name = "ilog2"         -> ilog2(x) # test_ilog2(x)
      [] name = "float_neg"     -> float_neg(x) # test_float_neg(x)
      [] name = "float_i2f"     -> float_i2f(x) # test_float_i2f(x)
      [] name = "float_twice"   -> float_twice(x) # test_float_twice(x)

(* test_ilog2 looks for a bit that is set. *)
Loops(name, x) == name = "ilog2" /\ x = 0

-----------------------------------------------------------------------------
(* gen_vals *)

random_val(min, max, i) == (min \div 8) * (8 - Weights[i]) + (max \div 8) * Weights[i]

FloatVals(range) ==
    LET norm == Shl(1, 23)
        one == Shl(127, 23)
        largest == Shl(254, 23)
        both(v) == <<v, OrW(TMin, v)>>
        near(v, i) == <<v + i, v - i, OrW(TMin, v + i), OrW(TMin, v - i)>>
    IN  FlattenSeq([k \in 1 .. range |->
                        both(k - 1) \o near(norm, k - 1) \o near(one, k - 1) \o both(largest - (k - 1))])
            \o both(Shl(255, 23)) \o both(Join(32704, 0))

SampledVals(min, max, range) ==
    FlattenSeq([k \in 1 .. range |->
        <<min + (k - 1), max - (k - 1)>>
            \o SelectSeq(<<k - 1, 1 - k>>, LAMBDA v : v >= min /\ v <= max)
            \o <<random_val(min, max, k - 1)>>])

gen_vals(limits, range, fixed) ==
    LET min == limits[1]
        max == limits[2]
    IN  IF fixed # {} THEN SetToSeq(fixed)
        ELSE IF limits = Bitlevel THEN FloatVals(range)
        ELSE IF max - MaxTestVals <= min THEN [k \in 1 .. max - min + 1 |-> min + k - 1]
        ELSE SampledVals(min, max, range)

(* The arguments of all tests of a function, the last one fastest.  An absent
   argument is 0. *)
SquareRoot == CHOOSE r \in 0 .. TestRange : r * r <= TestRange /\ (r + 1) * (r + 1) > TestRange
Tests(t, fixed) ==
    LET vals(k) == IF k > Len(t.ranges) THEN <<0>>
                   ELSE gen_vals(t.ranges[k], IF Len(t.ranges) = 1 THEN TestRange ELSE SquareRoot, fixed[k])
        first == vals(1)
        second == vals(2)
    IN  [k \in 1 .. Len(first) * Len(second) |->
            <<first[(k - 1) \div Len(second) + 1], second[((k - 1) % Len(second)) + 1]>>]

NoArgument == <<{}, {}>>
Outcome(t, args) == IF Loops(t.name, args[1]) THEN Endless
                    ELSE IF Differs(t.name, args[1], args[2]) THEN "error" ELSE "same"
Outcomes(t, fixed) == LET args == Tests(t, fixed) IN [k \in DOMAIN args |-> Outcome(t, args[k])]
GeneratedOutcomes == [f \in DOMAIN test_set |-> Outcomes(test_set[f], NoArgument)]
OutcomesOf(f) == IF options.fixed = NoArgument THEN GeneratedOutcomes[f]
                 ELSE Outcomes(test_set[f], options.fixed)

-----------------------------------------------------------------------------
(* get_num_val: an integer is refused when the place for it is not 0, whatever
   follows the number in the text; a float when something follows it. *)
get_num_val(text, old) ==
    IF text.float THEN [ok |-> ~text.junk, val |-> text.word]
    ELSE [ok |-> old = 0 /\ text.high \in {0, -1, 1}, val |-> text.word]

(* the options -1 one after the other, from argval = 0 and no argument *)
Argument(texts) ==
    FoldLeft(LAMBDA got, text :
                 IF got.ok THEN get_num_val(text, got.val) ELSE got,
             [ok |-> TRUE, val |-> 0], texts)

BtestInit ==
    /\ options \in {[name |-> c.name, limit |-> c.limit, rating |-> c.rating,
                     texts |-> c.texts, fixed |-> NoArgument] : c \in Commands}
    /\ at = [f |-> 0, phase |-> "main", made |-> 0]
    /\ armed = FALSE /\ failed = {} /\ points = [got |-> 0, max |-> 0] /\ charged = {}

Ends(phase) == at' = [at EXCEPT !.phase = phase] /\ armed' = FALSE
                   /\ UNCHANGED <<options, failed, points, charged>>

Main ==
    /\ at.phase = "main"
    /\ LET arg == Argument(options.texts)
       IN  IF options.rating < 0 \/ ~arg.ok THEN Ends("exit")
           ELSE /\ options' = [options EXCEPT !.fixed = IF options.texts = <<>> THEN NoArgument
                                                        ELSE <<{arg.val}, {}>>]
                /\ at' = [at EXCEPT !.f = 1, !.phase = "next"]
                /\ UNCHANGED <<armed, failed, points, charged>>

(* run_tests: the loop over the list *)
Asked(f) == options.name = "all" \/ test_set[f].name = options.name
RunTests ==
    /\ at.phase = "next"
    /\ \/ /\ at.f > Len(test_set)
          /\ Ends("exit")
       \/ /\ at.f <= Len(test_set)
          /\ at' = IF Asked(at.f) THEN [at EXCEPT !.phase = "gen", !.made = 0] ELSE [at EXCEPT !.f = @ + 1]
          /\ UNCHANGED <<options, armed, failed, points, charged>>

(* mutant: the time is not limited *)
ArmsNot == FALSE

Arms == options.limit > 0

(* test_function: the values are there; sigsetjmp, alarm *)
StartTests ==
    /\ at.phase = "gen"
    /\ at' = [at EXCEPT !.phase = "run"]
    /\ armed' = (armed \/ Arms)
    /\ UNCHANGED <<options, failed, points, charged>>

(* test_function returns terrors, and run_tests goes on. *)
Return(terrors) ==
    LET rating == IF options.rating # 0 THEN options.rating ELSE test_set[at.f].rating
    IN  /\ points' = [got |-> points.got + (IF terrors = 0 THEN rating ELSE 0), max |-> points.max + rating]
        /\ failed' = IF terrors = 0 THEN failed ELSE failed \cup {at.f}
        /\ at' = [f |-> at.f + 1, phase |-> "next", made |-> 0]
        /\ UNCHANGED options

(* test_0_arg, test_1_arg or test_2_arg; one that loops makes no step. *)
Looping == at.phase = "run" /\ OutcomesOf(at.f)[at.made + 1] = Endless
RunTest ==
    /\ at.phase = "run" /\ ~Looping
    /\ LET outcomes == OutcomesOf(at.f)
           outcome == outcomes[at.made + 1]
       IN  IF outcome = "error" THEN Return(1)
           ELSE IF at.made + 1 = Len(outcomes) THEN Return(0)
           ELSE at' = [at EXCEPT !.made = @ + 1] /\ UNCHANGED <<options, failed, points>>
    /\ UNCHANGED <<armed, charged>>

(* timeout_handler jumps into test_function as it was at the last sigsetjmp.  If
   that call is over, the next one may have its frame, which is then charged;
   otherwise the frame is not there any more. *)
Alarm ==
    /\ armed
    /\ Cardinality(charged) < MaxAlarms \/ Looping
    /\ \/ /\ at.phase \in {"gen", "run"}
          /\ Return(1)
          /\ charged' = charged \cup {at.f}
          /\ armed' = FALSE
       \/ at.phase \in {"gen", "next"} /\ Ends("crash")

BtestNext == Main \/ RunTests \/ StartTests \/ RunTest \/ Alarm

-----------------------------------------------------------------------------
(* A function gets no points exactly when it differs from its test function on
   one of its values or an alarm charged it; on the values btest generates the
   functions that differ are the three that bits.c leaves undone and ilog2. *)
PointsHonest ==
    LET judged == {f \in 1 .. at.f - 1 : Asked(f)}
        differing == {f \in judged : \E k \in DOMAIN OutcomesOf(f) : OutcomesOf(f)[k] # "same"}
    IN  /\ failed = differing \cup charged
        /\ options.fixed = NoArgument =>
               differing = {f \in judged : test_set[f].name \in {"bitCount", "ilog2", "float_i2f", "float_twice"}}
        /\ (points.got = points.max) <=> failed = {}

(* A run of btest with a time limit comes to an end, also when a function it
   tests or its test function does not. *)
TestsEnd == options.limit > 0 ~> at.phase \in {"exit", "crash"}

=============================================================================
