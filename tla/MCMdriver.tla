----------------------------- MODULE MCMdriver -----------------------------
(***************************************************************************)
(* Two ways to run the driver: from an empty heap with any requests, and   *)
(* from a heap in which every block of Layout was allocated in that order, *)
(* when the blocks of Movable are freed and requested again in any order   *)
(* while the ones between them stay.  The second makes every tree of that  *)
(* many sizes without the requests it takes to get there.                  *)
(***************************************************************************)
EXTENDS Mdriver, Sequences, SequencesExt, TLC

Symmetry == Permutations(Ids)

-----------------------------------------------------------------------------
CONSTANTS i1, i2, i3, i4, i5, i6, i7, p1, p2, p3, p4, p5, p6, p7

Movable == {i1, i2, i3, i4, i5, i6, i7}
TreeIds == Movable \cup {p1, p2, p3, p4, p5, p6, p7}

(* the requests that lay out the heap: index and size *)
Layout == << <<i1, 12>>, <<p1, 8>>, <<i2, 28>>, <<p2, 8>>, <<i3, 20>>, <<p3, 8>>, <<i4, 36>>,
             <<p4, 8>>, <<i5, 28>>, <<p5, 8>>, <<i6, 44>>, <<p6, 8>>, <<i7, 52>>, <<p7, 8>> >>

SizeOf(id) == (CHOOSE request \in ToSet(Layout) : request[1] = id)[2]

Laid ==
    LET serve(laid, request) ==
            LET new == mm_malloc(laid.mem, request[2])
            IN  [mem  |-> Fill(new.mem, new.ptr, request[2], request[1]),
                 ptrs |-> (request[1] :> new.ptr) @@ laid.ptrs]
    IN  FoldLeft(serve, [mem |-> mm_init, ptrs |-> <<>>], Layout)

TreeInit ==
    /\ blocks = Laid.ptrs
    /\ block_sizes = [id \in TreeIds |-> SizeOf(id)]
    /\ heap = Forget(Laid.mem, blocks, block_sizes)
    /\ ranges = {RangeOf(blocks[id], block_sizes[id]) : id \in TreeIds}
    /\ verdict = "ok"

TreeNext == \E id \in Movable : Free(id) \/ Alloc(id, SizeOf(id))

TreeSpec == TreeInit /\ [][TreeNext]_vars

=============================================================================
