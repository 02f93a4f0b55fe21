------------------------------ MODULE LruCache ------------------------------
(***************************************************************************)
(* The cache that csim.c is to simulate: 2^s sets, each holding the E      *)
(* blocks of the set that were used most recently.  A set is the sequence  *)
(* of its blocks, the most recently used first.                            *)
(***************************************************************************)
EXTENDS Integers, Sequences, SequencesExt

CONSTANTS s, E, b,        \* sets, lines and block size, as csim's options
          Addresses

VARIABLES recency, h, m, e

SetOf(block) == block % 2^s
Resident(block) == block \in ToSet(recency[SetOf(block)])

Blocks == {addr \div 2^b : addr \in Addresses}

Init == /\ recency = [i \in 0 .. 2^s - 1 |-> <<>>]
        /\ h = 0 /\ m = 0 /\ e = 0

Use(block, others) ==
    recency' = [recency EXCEPT ![SetOf(block)] = <<block>> \o others]

Hit(block, extra) ==
    /\ \E n \in DOMAIN recency[SetOf(block)] :
          /\ recency[SetOf(block)][n] = block
          /\ Use(block, RemoveAt(recency[SetOf(block)], n))
    /\ h' = h + 1 + extra
    /\ UNCHANGED <<m, e>>

Miss(block, extra) ==
    /\ ~Resident(block) /\ Len(recency[SetOf(block)]) < E
    /\ Use(block, recency[SetOf(block)])
    /\ m' = m + 1 /\ h' = h + extra
    /\ UNCHANGED e

MissEviction(block, extra) ==
    /\ ~Resident(block) /\ Len(recency[SetOf(block)]) = E
    /\ Use(block, Front(recency[SetOf(block)]))
    /\ m' = m + 1 /\ e' = e + 1 /\ h' = h + extra

(* extra: the second hit of a modify, a load and a store to the same block *)
Next == \E block \in Blocks, extra \in 0 .. 1 :
            Hit(block, extra) \/ Miss(block, extra) \/ MissEviction(block, extra)

Spec == Init /\ [][Next]_<<recency, h, m, e>>

=============================================================================
