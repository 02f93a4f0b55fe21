------------------------------ MODULE Evaluate ------------------------------
(***************************************************************************)
(* The evaluation that mdriver.c makes of a malloc package: it reads one    *)
(* trace after the other, tests the package on it, and for a valid one      *)
(* measures utilisation and speed; then it computes the index.  The         *)
(* package is any: its answers are addresses it likes, and only that it     *)
(* gives the same ones after each mm_init is assumed.                       *)
(*                                                                         *)
(* A trace file is what its header says and its requests, none of which is *)
(* for an index that was never allocated.  Addresses are    *)
(* offsets in the simulated memory.                                         *)
(***************************************************************************)
EXTENDS Integers, Sequences, SequencesExt, FiniteSetsExt

CONSTANTS
    Files,         \* the trace files there are
    NumFiles,      \* how many a run of the driver evaluates
    MaxHeap,       \* MAX_HEAP
    Alignment      \* ALIGNMENT

ASSUME EvaluateAssumption ==
    /\ NumFiles \in Nat \ {0} /\ Alignment \in Nat \ {0} /\ MaxHeap \in Nat \ {0}
    /\ \A file \in Files :
           file.requests \in Seq([type : {"malloc", "realloc", "free"}, id : Nat, size : Nat])

VARIABLES
    files,      \* the files of the run
    job,        \* phase, number of the trace, requests carried out
    table,      \* trace->blocks and trace->block_sizes
    ranges,     \* the range list, newest first
    brk,        \* the break
    errors,     \* malloc_error's count
    stats,      \* mm_stats
    index,      \* the performance index, once printed
    enclosed    \* history: a payload was accepted that encloses another

evalVars == <<files, job, table, ranges, brk, errors, stats, index, enclosed>>

Null == -1
NoIndex == -1
NoTable == [blocks |-> <<>>, sizes |-> <<>>]

EvalInit ==
    /\ files \in [1 .. NumFiles -> Files]
    /\ \E first \in {"libc", "read"} : job = [phase |-> first, i |-> 1, pos |-> 0]
    /\ table = NoTable /\ ranges = <<>> /\ brk = 0 /\ errors = 0
    /\ stats = [i \in 1 .. NumFiles |-> [valid |-> FALSE, util |-> 0]]
    /\ index = NoIndex /\ enclosed = FALSE

Trace == files[job.i].requests
Phase(p) == job.phase = p
Exit == job' = [job EXCEPT !.phase = "exit"] /\ UNCHANGED <<files, table, ranges, brk, errors, stats, index, enclosed>>

-----------------------------------------------------------------------------
(* read_trace: the header must agree with the requests.  The largest index is
   that of a malloc or realloc, 0 if there is none.  Requests the header does
   not announce are stored behind the array before it is asserted that there
   were none. *)
WellFormed(file) ==
    LET named == {0} \cup {file.requests[k].id : k \in {j \in DOMAIN file.requests :
                                                       file.requests[j].type # "free"}}
    IN  /\ Max(named) = file.num_ids - 1
        /\ file.num_ops = Len(file.requests)

ReadTrace ==
    /\ Phase("read") /\ job.i <= NumFiles
    /\ \/ /\ WellFormed(files[job.i])
          /\ job' = [job EXCEPT !.phase = "init"]
          /\ table' = [blocks |-> [id \in 0 .. files[job.i].num_ids - 1 |-> Null],
                       sizes |-> [id \in 0 .. files[job.i].num_ids - 1 |-> 0]]
          /\ UNCHANGED <<files, ranges, brk, errors, stats, index, enclosed>>
       \/ ~WellFormed(files[job.i]) /\ Exit

(* With -l: eval_libc_valid and eval_libc_speed end the driver when a call of
   libc fails, and nothing else is tested. *)
EvalLibc ==
    /\ Phase("libc")
    /\ \/ /\ WellFormed(files[job.i])
          /\ job' = IF job.i = NumFiles THEN [job EXCEPT !.phase = "read", !.i = 1]
                    ELSE [job EXCEPT !.i = @ + 1]
          /\ UNCHANGED <<files, table, ranges, brk, errors, stats, index, enclosed>>
       \/ Exit

-----------------------------------------------------------------------------
(* eval_mm_valid *)

(* malloc_error, and the verdict: the next trace. *)
Invalid ==
    /\ errors' = errors + 1
    /\ job' = [phase |-> "read", i |-> job.i + 1, pos |-> 0]
    /\ UNCHANGED <<files, table, stats, index>>

(* mem_reset_brk, clear_ranges and mm_init, which may take memory or fail. *)
EvalInitHeap ==
    /\ Phase("init")
    /\ ranges' = <<>>
    /\ \/ /\ \E b \in 0 .. MaxHeap : brk' = b
          /\ job' = [job EXCEPT !.phase = "valid", !.pos = 0]
          /\ UNCHANGED <<files, table, errors, stats, index, enclosed>>
       \/ brk' = 0 /\ Invalid /\ UNCHANGED enclosed

Payload(p, size) == [lo |-> p, hi |-> p + size - 1]
Within(a, r) == r.lo <= a /\ a <= r.hi

(* mutant: only the lower end is compared *)
OverlapsLow(r, old) == Within(r.lo, old)

(* the test of add_range, which compares the two ends of the new payload *)
Overlaps(r, old) == Within(r.lo, old) \/ Within(r.hi, old)

AddRangeOk(r, others, b) ==
    /\ r.lo % Alignment = 0
    /\ r.lo \in 0 .. b - 1 /\ r.hi \in 0 .. b - 1
    /\ \A k \in DOMAIN others : ~Overlaps(r, others[k])

(* remove_range takes out the first with that address, if there is one. *)
RemoveRange(lo) ==
    LET place == SelectInSeq(ranges, LAMBDA r : r.lo = lo)
    IN  IF place = 0 THEN ranges ELSE RemoveAt(ranges, place)

Apart(r, s) == r.hi < s.lo \/ s.hi < r.lo
Encloses(r, s) == r.lo < s.lo /\ s.hi < r.hi

(* What follows an answer p that leaves the break at b: tests, memset, table. *)
Answered(id, size, p, b, others, kept) ==
    LET r == Payload(p, size)
        accepted == p # Null /\ AddRangeOk(r, others, b)
    IN  /\ brk' = b
        /\ ranges' = IF accepted THEN <<r>> \o others ELSE IF p = Null THEN ranges ELSE others
        /\ enclosed' = (enclosed \/ (accepted /\ \E k \in DOMAIN others : Encloses(r, others[k])))
        /\ IF accepted /\ kept
           THEN /\ table' = [blocks |-> [table.blocks EXCEPT ![id] = p],
                             sizes |-> [table.sizes EXCEPT ![id] = size]]
                /\ job' = [job EXCEPT !.pos = @ + 1]
                /\ UNCHANGED <<files, errors, stats, index>>
           ELSE Invalid

Requests(type) == Phase("valid") /\ job.pos < Len(Trace) /\ Trace[job.pos + 1].type = type
Request == Trace[job.pos + 1]
Answers == {Null} \cup 0 .. MaxHeap

(* assert(size > 0) of add_range *)
EvalMalloc ==
    /\ Requests("malloc")
    /\ \E p \in Answers, b \in brk .. MaxHeap :
           IF Request.size = 0 /\ p # Null THEN Exit
           ELSE Answered(Request.id, Request.size, p, b, ranges, TRUE)

(* kept: the new block has the data of the old one *)
EvalRealloc ==
    /\ Requests("realloc")
    /\ \E p \in Answers, b \in brk .. MaxHeap, kept \in BOOLEAN :
           IF Request.size = 0 /\ p # Null THEN Exit
           ELSE Answered(Request.id, Request.size, p, b, RemoveRange(table.blocks[Request.id]), kept)

EvalFree ==
    /\ Requests("free")
    /\ ranges' = RemoveRange(table.blocks[Request.id])
    /\ \E b \in brk .. MaxHeap : brk' = b
    /\ job' = [job EXCEPT !.pos = @ + 1]
    /\ UNCHANGED <<files, table, errors, stats, index, enclosed>>

EvalValid ==
    /\ Phase("valid") /\ job.pos = Len(Trace)
    /\ job' = [job EXCEPT !.phase = "util"]
    /\ stats' = [stats EXCEPT ![job.i].valid = TRUE]
    /\ UNCHANGED <<files, table, ranges, brk, errors, index, enclosed>>

-----------------------------------------------------------------------------
(* mutant: what is freed stays counted *)
AccountNoFree(t, request) ==
    LET total == t.total + (CASE request.type = "malloc"  -> request.size
                              [] request.type = "realloc" -> request.size - t.sizes[request.id]
                              [] request.type = "free"    -> 0)
    IN  [sizes |-> [t.sizes EXCEPT ![request.id] = request.size],
         total |-> total, max |-> IF total > t.max THEN total ELSE t.max]

(* eval_mm_util: the high water mark of what is allocated.  The sizes are still
   those of eval_mm_valid's run; a free does not clear them. *)
Account(t, request) ==
    LET delta == CASE request.type = "malloc"  -> request.size
                   [] request.type = "realloc" -> request.size - t.sizes[request.id]
                   [] request.type = "free"    -> 0 - t.sizes[request.id]
        total == t.total + delta
    IN  [sizes |-> IF request.type = "free" THEN t.sizes
                   ELSE [t.sizes EXCEPT ![request.id] = request.size],
         total |-> total, max |-> IF total > t.max THEN total ELSE t.max]

HighWater(sizes, requests) ==
    FoldLeft(Account, [sizes |-> sizes, total |-> 0, max |-> 0], requests).max

(* In percent of the heap; a heap of length 0 makes it no number. *)
EvalUtil ==
    /\ Phase("util")
    /\ stats' = [stats EXCEPT ![job.i].util =
                     IF brk = 0 THEN 0 ELSE (100 * HighWater(table.sizes, Trace)) \div brk]
    /\ job' = [job EXCEPT !.phase = "speed"]
    /\ UNCHANGED <<files, table, ranges, brk, errors, index, enclosed>>

(* fsecs runs eval_mm_speed, each time from mem_reset_brk and mm_init on; then
   the trace is freed. *)
EvalSpeed ==
    /\ Phase("speed")
    /\ job' = [phase |-> "read", i |-> job.i + 1, pos |-> 0]
    /\ UNCHANGED <<files, table, ranges, brk, errors, stats, index, enclosed>>

-----------------------------------------------------------------------------
(* main, after the last trace: 60 % utilisation, and up to 40 % throughput. *)
PerfIndex(util, thru) == (60 * util) \div 100 + thru
AverageUtil == FoldLeft(LAMBDA u, s : u + s.util, 0, stats) \div NumFiles

(* mutant: the index is printed whatever happened *)
PrintsAlways == TRUE

Prints == errors = 0

EvalReport ==
    /\ Phase("read") /\ job.i > NumFiles
    /\ \E thru \in {0, 20, 40} :
           index' = IF Prints THEN PerfIndex(AverageUtil, thru) ELSE 0
    /\ job' = [job EXCEPT !.phase = "done"]
    /\ UNCHANGED <<files, table, ranges, brk, errors, stats, enclosed>>

EvalNext == \/ ReadTrace \/ EvalLibc \/ EvalInitHeap \/ EvalMalloc \/ EvalRealloc \/ EvalFree
            \/ EvalValid \/ EvalUtil \/ EvalSpeed \/ EvalReport

EvalSpec == EvalInit /\ [][EvalNext]_evalVars

-----------------------------------------------------------------------------
(* "The payload must not overlap any other payloads" (mdriver.c:407): of two
   payloads in the list the older is apart from the newer one, or strictly
   inside it, which the comparison of the ends does not find. *)
AcceptedApart ==
    \A k \in DOMAIN ranges : \A l \in k + 1 .. Len(ranges) :
        Apart(ranges[k], ranges[l]) \/ Encloses(ranges[k], ranges[l])

(* Each error is the verdict on one trace, and the index is zero if there was
   one: no package is rated on the traces it got right. *)
IndexHonest ==
    /\ job.phase \notin {"libc", "exit"} =>
           errors = Cardinality({i \in 1 .. job.i - 1 : ~stats[i].valid})
    /\ index > 0 => \A i \in DOMAIN stats : stats[i].valid

(* The utilisation is at most 100 percent, as the payloads in use at any time
   are apart and in the heap, unless one was accepted that encloses another. *)
UtilisationBounded == ~enclosed => \A i \in DOMAIN stats : stats[i].util <= 100

=============================================================================
