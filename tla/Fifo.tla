-------------------------------- MODULE Fifo --------------------------------
(***************************************************************************)
(* What sbuf.c promises its callers: a bounded, shared first-in first-out  *)
(* buffer, in which each inserted item is returned by one removal, the     *)
(* oldest item first.                                                      *)
(***************************************************************************)
EXTENDS Integers, Sequences

CONSTANTS Producers, Consumers, Items, NoItem,
          n              \* the capacity

VARIABLES queue,         \* the items inserted and not yet removed
          in,            \* the item each producer is inserting, NoItem if none
          out            \* the item each consumer has last been given

Init == /\ queue = <<>>
        /\ in = [p \in Producers |-> NoItem]
        /\ out = [c \in Consumers |-> NoItem]

Call(p) == /\ in[p] = NoItem
           /\ \E item \in Items : in' = [in EXCEPT ![p] = item]
           /\ UNCHANGED <<queue, out>>

Insert(p) == /\ in[p] # NoItem /\ Len(queue) < n
             /\ queue' = Append(queue, in[p])
             /\ in' = [in EXCEPT ![p] = NoItem]
             /\ UNCHANGED out

Remove(c) == /\ queue # <<>>
             /\ queue' = Tail(queue)
             /\ out' = [out EXCEPT ![c] = Head(queue)]
             /\ UNCHANGED in

Return(c) == /\ out[c] # NoItem
             /\ out' = [out EXCEPT ![c] = NoItem]
             /\ UNCHANGED <<queue, in>>

Next == \/ \E p \in Producers : Call(p) \/ Insert(p)
        \/ \E c \in Consumers : Remove(c) \/ Return(c)

Spec == Init /\ [][Next]_<<queue, in, out>>

=============================================================================
