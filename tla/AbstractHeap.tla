---------------------------- MODULE AbstractHeap ----------------------------
(***************************************************************************)
(* What a malloc package owes its clients: every block it hands out is an  *)
(* aligned extent of the address range that no other client's extent       *)
(* meets, and that stays where it is until that client returns it or asks  *)
(* for another size.                                                       *)
(***************************************************************************)
EXTENDS Integers

CONSTANTS
    Ids,            \* clients
    First, Limit,   \* first and last address
    Sizes,          \* how many bytes a client may ask for
    Alignment

VARIABLE extent

NoExtent == [lo |-> 0, size |-> 0]

Within(x) == /\ x.lo % Alignment = 0
             /\ {x.lo, x.lo + x.size - 1} \subseteq First .. Limit

Apart(x, y) == x.lo + x.size <= y.lo \/ y.lo + y.size <= x.lo

Clear(id, x) ==
    /\ Within(x)
    /\ \A other \in Ids \ {id} : Apart(x, extent[other])

Init == extent = [id \in Ids |-> NoExtent]

(* an answer to a first request, or to one for another size: that one may
   keep, move, shrink or grow the extent *)
Give(id, x) == Clear(id, x) /\ extent' = [extent EXCEPT ![id] = x]

Free(id) == extent[id] # NoExtent /\ extent' = [extent EXCEPT ![id] = NoExtent]

Reset == extent' = [id \in Ids |-> NoExtent]

Next == \/ \E id \in Ids : Free(id)
        \/ \E id \in Ids, lo \in First .. Limit, size \in Sizes :
               Give(id, [lo |-> lo, size |-> size])
        \/ Reset

Spec == Init /\ [][Next]_extent

(* no two clients share a byte *)
Disjoint == \A i, j \in Ids : i # j => Apart(extent[i], extent[j])

=============================================================================
