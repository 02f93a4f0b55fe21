------------------------------- MODULE MCLabs -------------------------------
(* The programs that rate a solution of a lab, side by side: each behaviour is
   of one of them, and the others are not started. *)
EXTENDS Evaluate, Fcyc, Btest, TestTrans, Csim, TLC

VARIABLE lab

Malloc(id, size) == [type |-> "malloc", id |-> id, size |-> size]
Realloc(id, size) == [type |-> "realloc", id |-> id, size |-> size]
Free(id) == [type |-> "free", id |-> id, size |-> 0]
File(ids, count, requests) == [num_ids |-> ids, num_ops |-> count, requests |-> requests]
Small == File(1, 1, <<Malloc(0, 0)>>)
MCFiles == {
    File(2, 5, <<Malloc(0, 2), Malloc(1, 1), Free(0), Malloc(0, 3), Realloc(1, 2)>>),
    File(2, 3, <<Malloc(1, 1), Malloc(0, 2), Realloc(0, 4)>>),
    Small,
    File(1, 1, <<Malloc(0, 1), Free(0)>>)}

MCWeights == 0 :> 3 @@ 1 :> 7 @@ 2 :> 1 @@ 3 :> 5
Text(float, junk, high, word) == [float |-> float, junk |-> junk, high |-> high, word |-> word]
Command(name, limit, rating, texts) == [name |-> name, limit |-> limit, rating |-> rating, texts |-> texts]
Whole == Command("all", 0, 0, <<>>)
MCCommands ==
    {Whole, Command("all", 10, 0, <<>>), Command("all", 10, -1, <<>>)}
        \cup {Command("ilog2", limit, 5, <<Text(FALSE, TRUE, 0, w)>>) : limit \in {0, 10}, w \in {0, 8}}
        \cup {Command("float_neg", 10, 0, <<Text(TRUE, junk, 0, 1000)>>) : junk \in BOOLEAN}
        \cup {Command("negate", 10, 0, <<Text(FALSE, FALSE, high, TMin), Text(FALSE, FALSE, 0, 1)>>) : high \in {1, 2}}

Job(program, M, N) == [program |-> program, M |-> M, N |-> N]
MCJobs == {Job("test-trans", 32, 32), Job("test-trans", 64, 64), Job("test-trans", 61, 67),
           Job("test-trans", 16, 18), Job("test-trans", 8, 2), Job("test-trans", 257, 4),
           Job("tracegen", 61, 67), Job("tracegen", 16, 18), Job("tracegen", 8, 2)}

(* No .csim_results, or that of an empty or of a longer trace. *)
MCOldMisses == {NoFile, 0, 5000}

(* Two sets of three lines with two-byte blocks; the addresses give the first
   set four blocks, one of them under two addresses, and the second one, so that
   one set evicts and the other never fills up. *)
MCAddresses == {0, 1, 4, 8, 12, 2}

(* Left in the lines: nothing, or tags of the trace and counters of any sign, in
   either order. *)
Left(tags, counters) ==
    [i \in 0 .. 1 |-> [k \in 0 .. 2 |-> [v_bit |-> 1, tag |-> tags[k + 1], counter |-> counters[k + 1]]]]
Zeros == <<0, 0, 0>>
MCGarbage == {Left(Zeros, Zeros), Left(<<1, 0, 1>>, <<-9, 7, -9>>), Left(<<2, 3, 0>>, <<9, 1, -1>>)}

labsVars == <<lab, vars, evalVars, fcycVars, btestVars, transVars>>
Started(program) == lab = program
LabsInit ==
    /\ lab \in {"mdriver", "fcyc", "btest", "trans", "csim"}
    /\ EvalInit /\ (Started("mdriver") \/ (files = [i \in 1 .. NumFiles |-> Small] /\ Phase("read")))
    /\ FcycInit
    /\ BtestInit /\ (Started("btest") \/ (options.name = "all" /\ options.limit = 0))
    /\ TransInit /\ (Started("trans") \/ (task = Job("tracegen", 8, 2) /\ csim_results = 0))
    /\ Init /\ (Started("csim") \/ cache = Cleared(Left(Zeros, Zeros)))

BtestStep == Started("btest") /\ BtestNext /\ UNCHANGED <<lab, vars, evalVars, fcycVars, transVars>>
LabsNext ==
    \/ Started("mdriver") /\ EvalNext /\ UNCHANGED <<lab, vars, fcycVars, btestVars, transVars>>
    \/ Started("fcyc") /\ FcycNext /\ UNCHANGED <<lab, vars, evalVars, btestVars, transVars>>
    \/ BtestStep
    \/ Started("trans") /\ TransNext /\ UNCHANGED <<lab, vars, evalVars, fcycVars, btestVars>>
    \/ Started("csim") /\ Next /\ UNCHANGED <<lab, evalVars, fcycVars, btestVars, transVars>>

LabsSpec == LabsInit /\ [][LabsNext]_labsVars /\ WF_labsVars(BtestStep)
=============================================================================
