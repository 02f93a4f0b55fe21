----------------------------- MODULE TestTrans ------------------------------
(***************************************************************************)
(* How the cache lab rates trans.c: test-trans runs tracegen under valgrind *)
(* for one registered function after the other, has the reference simulator *)
(* count the misses of the trace, and prints the result of the submission,  *)
(* which driver.py turns into a score.  tracegen is also run by itself, for *)
(* all functions in one process.                                            *)
(***************************************************************************)
EXTENDS Transpose

CONSTANTS
    Jobs,          \* runs: program (test-trans or tracegen), M and N
    OldMisses,     \* what an earlier simulation left in .csim_results, or NoFile
    MaxFailures    \* bound: programs of one run that fail

ASSUME TestTransAssumption == MaxFailures \in Nat

Registered == <<"transpose_submit", "trans", "transpose_1">>     \* registered
MaxN == 256                                                     \* MAXN
IntMax == 2147483647
NoScore == -1
NoFile == -1                                                    \* no .csim_results

VARIABLES
    task,          \* the run
    step,          \* phase, function, rows done
    unwritten,     \* elements of B this function has not stored
    wrong,         \* elements of B that were wrong when it was called
    sim,           \* lines of the reference simulator, misses of the trace
    csim_results,  \* the file
    func_list,     \* for each function whether it is correct, and its misses
    results,       \* test-trans: correct, misses of the submission
    score,         \* driver.py: tenths of points
    failures,      \* programs that failed
    truth          \* history: what each function left unwritten, misses of its trace

transVars == <<task, step, unwritten, wrong, sim, csim_results, func_list, results,
               score, failures, truth>>

All == 0 .. task.M * task.N - 1
In(phase) == step.phase = phase
Become(phase) == step' = [step EXCEPT !.phase = phase]

(* The function dies by a division by zero. *)
Dies(fn) == Registered[fn] = "transpose_submit" /\ task.N < 4
RowsOf == [run \in Jobs |->
              [fn \in DOMAIN Registered |->
                  CASE fn = 1 -> IF run.N < 4 THEN <<>> ELSE transpose_submit(run.M, run.N)
                    [] fn = 2 -> trans(run.M, run.N)
                    [] fn = 3 -> transpose_1(run.M, run.N)]]

TransInit ==
    /\ task \in Jobs
    /\ step = [phase |-> "main", fn |-> 1, rows |-> 0]
    /\ unwritten = {} /\ wrong = {} /\ sim = [lines |-> NoLines, misses |-> 0]
    /\ csim_results \in OldMisses
    /\ func_list = [fn \in DOMAIN Registered |-> [correct |-> FALSE, misses |-> 0]]
    /\ results = [correct |-> 0, misses |-> IntMax]
    /\ score = NoScore /\ failures = 0
    /\ truth = [fn \in DOMAIN Registered |-> [unwritten |-> {}, misses |-> 0, died |-> FALSE, stale |-> FALSE]]

(* main of test-trans up to eval_perf, or of tracegen: initMatrix *)
StartTrans ==
    /\ In("main")
    /\ IF task.program = "test-trans" /\ (task.M = 0 \/ task.N = 0 \/ task.M > MaxN \/ task.N > MaxN)
       THEN Become("refused") /\ UNCHANGED wrong
       ELSE Become("system") /\ wrong' = All
    /\ UNCHANGED <<task, unwritten, sim, csim_results, func_list, results, score, failures, truth>>

(* eval_perf goes on to the next function, or is done. *)
NextFunction ==
    step' = IF step.fn = Len(Registered) THEN [step EXCEPT !.phase = "print"]
            ELSE [phase |-> "system", fn |-> step.fn + 1, rows |-> 0]

(* mutant: B is only filled for the first function *)
FilledOnce == wrong \cap unwritten

(* Each tracegen -F fills B; without -F it is as the function before left it. *)
Filled == IF task.program = "test-trans" THEN All ELSE wrong \cap unwritten

(* The markers and what main reads to call the function share two blocks. *)
Entry == <<16384, 16385, 16384, 16384>>
Leave == <<16384>>

StartTracegen ==
    /\ In("system")
    /\ Become("rows")
    /\ wrong' = IF step.fn = 1 THEN All ELSE Filled
    /\ unwritten' = All
    /\ sim' = Simulated(NoLines, Entry)
    /\ UNCHANGED <<task, csim_results, func_list, results, score, failures, truth>>

(* The shell finds no valgrind: not 0, and the function is skipped. *)
NoValgrind ==
    /\ In("system") /\ task.program = "test-trans" /\ failures < MaxFailures
    /\ failures' = failures + 1
    /\ NextFunction
    /\ UNCHANGED <<task, unwritten, wrong, sim, csim_results, func_list, results, score, truth>>

(* One innermost loop of the function. *)
DoRow ==
    /\ In("rows") /\ ~Dies(step.fn)
    /\ LET rows == RowsOf[task][step.fn]
           row == rows[step.rows + 1]
           after == Simulated(sim.lines, Accesses(task.M, task.N, row))
       IN  /\ step.rows < Len(rows)
           /\ sim' = [after EXCEPT !.misses = @ + sim.misses]
           /\ unwritten' = unwritten \ Stored(task.M, task.N, row)
           /\ step' = [step EXCEPT !.rows = @ + 1]
    /\ UNCHANGED <<task, wrong, csim_results, func_list, results, score, failures, truth>>

Truth(died) == truth' = [truth EXCEPT ![step.fn].unwritten = unwritten, ![step.fn].died = died]

(* test-trans takes a function for correct, and simulates its trace. *)
TakenForCorrect ==
    /\ Become("simulate")
    /\ func_list' = [func_list EXCEPT ![step.fn].correct = TRUE]
    /\ results' = IF step.fn = 1 THEN [results EXCEPT !.correct = 1] ELSE results

(* validate compares B with correctTrans. *)
Validate ==
    /\ In("rows") /\ ~Dies(step.fn) /\ step.rows = Len(RowsOf[task][step.fn])
    /\ Truth(FALSE)
    /\ LET after == Simulated(sim.lines, Leave) IN sim' = [after EXCEPT !.misses = @ + sim.misses]
    /\ \/ /\ wrong \cap unwritten # {}
          /\ UNCHANGED <<func_list, results>>
          /\ IF task.program = "test-trans" THEN NextFunction ELSE Become("failed")
       \/ /\ wrong \cap unwritten = {}
          /\ IF task.program = "test-trans" THEN TakenForCorrect
             ELSE NextFunction /\ UNCHANGED <<func_list, results>>
    /\ UNCHANGED <<task, unwritten, wrong, csim_results, score, failures>>

(* tracegen is killed.  A shell that waits for it makes an exit status of the
   signal; one that exec'd it dies of the signal, and WEXITSTATUS is 0.  The
   filtered trace is then still open when the simulator reads it, as only an end
   marker closes it, and its few lines are not in the file. *)
Die ==
    /\ In("rows") /\ Dies(step.fn)
    /\ Truth(TRUE)
    /\ \/ task.program = "tracegen" /\ Become("failed") /\ UNCHANGED <<sim, func_list, results>>
       \/ task.program = "test-trans" /\ NextFunction /\ UNCHANGED <<sim, func_list, results>>
       \/ task.program = "test-trans" /\ TakenForCorrect /\ sim' = [lines |-> NoLines, misses |-> 0]
    /\ UNCHANGED <<task, unwritten, wrong, csim_results, score, failures>>

(* test-trans reads .csim_results, whoever wrote it. *)
Collect ==
    /\ func_list' = [func_list EXCEPT ![step.fn].misses = csim_results']
    /\ results' = IF step.fn = 1 THEN [results EXCEPT !.misses = csim_results'] ELSE results
    /\ NextFunction

(* csim-ref writes .csim_results, unless it fails, which nobody notices when there
   is an old file; without one an assertion ends test-trans. *)
Simulate ==
    /\ In("simulate")
    /\ \/ /\ csim_results' = sim.misses
          /\ UNCHANGED failures
          /\ truth' = [truth EXCEPT ![step.fn].misses = sim.misses]
          /\ Collect
       \/ /\ failures < MaxFailures
          /\ failures' = failures + 1
          /\ UNCHANGED csim_results
          /\ \/ /\ csim_results # NoFile
                /\ truth' = [truth EXCEPT ![step.fn].misses = sim.misses, ![step.fn].stale = TRUE]
                /\ Collect
             \/ /\ csim_results = NoFile
                /\ Become("aborted")
                /\ UNCHANGED <<func_list, results, truth>>
    /\ UNCHANGED <<task, unwritten, wrong, sim, score>>

(* sigalrm_handler, after 120 seconds: what is printed is 0:0. *)
TransAlarm ==
    /\ task.program = "test-trans" /\ step.phase \in {"system", "rows", "simulate"}
    /\ results' = [correct |-> 0, misses |-> 0]
    /\ Become("print")
    /\ UNCHANGED <<task, unwritten, wrong, sim, csim_results, func_list, score, failures, truth>>

-----------------------------------------------------------------------------
(* driver.py *)
Rate(lower, upper, full) == [lower |-> lower, upper |-> upper, full |-> full]
RateOf == CASE task.N = 32 -> Rate(300, 600, 8)
            [] task.N = 64 -> Rate(1300, 2000, 8)
            [] task.N = 67 -> Rate(2000, 3000, 10)
Graded == task.program = "test-trans" /\ <<task.M, task.N>> \in {<<32, 32>>, <<64, 64>>, <<61, 67>>}

computeMissScore(miss, rate) ==
    IF miss <= rate.lower THEN 10 * rate.full
    ELSE IF miss >= rate.upper THEN 0
    ELSE (20 * rate.full * (rate.upper - miss) + (rate.upper - rate.lower))
             \div (2 * (rate.upper - rate.lower))

PrintResults ==
    /\ In("print")
    /\ Become("printed")
    /\ score' = IF Graded THEN computeMissScore(results.misses, RateOf) * results.correct ELSE NoScore
    /\ UNCHANGED <<task, unwritten, wrong, sim, csim_results, func_list, results, failures, truth>>

TransNext == \/ StartTrans \/ StartTracegen \/ NoValgrind \/ DoRow \/ Validate \/ Die
             \/ Simulate \/ TransAlarm \/ PrintResults

TransSpec == TransInit /\ [][TransNext]_transVars

-----------------------------------------------------------------------------
(* What test-trans takes for correct stored every element of B, or died where
   the shell hides it; and the misses it reports are those of that function's
   trace, unless the simulator failed on it.  ("Validating and generating
   memory traces", test-trans.c:68.) *)
CorrectIsWhole ==
    \A fn \in DOMAIN Registered :
        /\ func_list[fn].correct => truth[fn].unwritten = {} \/ truth[fn].died
        /\ func_list[fn].misses # 0 =>
               /\ func_list[fn].correct
               /\ func_list[fn].misses = truth[fn].misses \/ truth[fn].stale

(* The submission gets full marks for 32 x 32 and 61 x 67 and half of them for
   64 x 64, unless the time was over or a program failed on it. *)
SubmissionRated ==
    In("printed") /\ Graded =>
        \/ results = [correct |-> 0, misses |-> 0]
        \/ results = [correct |-> 0, misses |-> IntMax] /\ failures > 0
        \/ truth[1].stale
        \/ score = IF task.N = 64 THEN 40 ELSE 10 * RateOf.full

=============================================================================
