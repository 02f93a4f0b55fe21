------------------------------ MODULE Mdriver ------------------------------
(***************************************************************************)
(* mdriver.c running traces against the malloc package: eval_mm_valid       *)
(* carries out one request of a trace after the other, keeps the range of   *)
(* every payload it was given and fills it with the request's index, and    *)
(* stops a trace with a verdict when an answer is wrong.                    *)
(*                                                                         *)
(* A trace is any sequence of requests in which an index is allocated      *)
(* before it is resized or freed; an index that was freed stands for the   *)
(* next new one.                                                           *)
(***************************************************************************)
EXTENDS Mm

CONSTANTS
    Ids,       \* indices of a trace
    Sizes      \* sizes its requests ask for, whole words

ASSUME MdriverAssumption ==
    /\ Sizes \subseteq {n \in 1 .. MAX_HEAP : n % WSIZE = 0}
    /\ 0 \notin Ids /\ Junk \notin Ids

VARIABLES
    heap,          \* the simulated memory
    blocks,        \* trace->blocks: where each index's payload starts, 0 if none
    block_sizes,   \* trace->block_sizes
    ranges,        \* the list of payload ranges
    verdict        \* "ok", or why the trace was given up

vars == <<heap, blocks, block_sizes, ranges, verdict>>

Allocated == {id \in Ids : blocks[id] # 0}
RangeOf(lo, size) == [lo |-> lo, hi |-> lo + size - 1]

(* The memory is one stretch of words that ends within MAX_HEAP, the table   *)
(* holds addresses in it, and the range list repeats the table.             *)
TypeOK ==
    /\ DOMAIN heap = Words(mem_start_brk, mem_brk(heap))
    /\ mem_brk(heap) <= mem_start_brk + MAX_HEAP
    /\ blocks \in [Ids -> DOMAIN heap \cup {0}]
    /\ block_sizes \in [Ids -> Sizes \cup {0}]
    /\ ranges = {RangeOf(blocks[id], block_sizes[id]) : id \in Allocated}
    /\ verdict \in {"ok", "misaligned", "outside", "overlap", "lost", "failed"}

-----------------------------------------------------------------------------
(* The words whose contents matter to somebody; the others hold whatever was *)
(* left there, which is forgotten after every request: nobody may use it.   *)

Links(m, bp) ==
    {PTR_NEXT_PTR(bp), PTR_PREV_PTR(bp)} \cup
    (IF Big(Size(m, bp)) /\ m[PTR_PREV_PTR(bp)] = 0
     THEN {PTR_LEFT_PTR(bp), PTR_RIGHT_PTR(bp)}
     ELSE {})

Meaningful(m, bs, szs) ==
    Words(mem_start_brk, FirstBlock - WSIZE)
    \cup {mem_brk(m) - WSIZE}
    \cup (UNION {{HDRP(bp), FTRP(m, bp)} : bp \in Blocks(m)})
    \cup (UNION {Links(m, bp) : bp \in FreeBlocks(m)})
    \cup (UNION {Words(bs[id], bs[id] + szs[id]) : id \in Ids})

Forget(m, bs, szs) ==
    LET kept == Meaningful(m, bs, szs)
    IN  [w \in DOMAIN m |-> IF w \in kept THEN m[w] ELSE Junk]

-----------------------------------------------------------------------------
(* add_range's tests of a new payload, in their order *)
RangeVerdict(m, others, r) ==
    CASE r.lo % DSIZE # 0 -> "misaligned"
      [] r.lo % DSIZE = 0 /\ ~({r.lo, r.hi} \subseteq mem_start_brk .. mem_brk(m) - 1) -> "outside"
      [] r.lo % DSIZE = 0 /\ \E p \in others : r.lo \in p.lo .. p.hi \/ r.hi \in p.lo .. p.hi -> "overlap"
      [] OTHER -> "ok"

(* memset(p, index, size) *)
Fill(m, p, size, id) == Write(m, [w \in Words(p, p + size) |-> id])

(* what follows an answer: an accepted payload is filled and remembered, any
   other answer ends the trace; NULL does so before the old range is removed *)
Answer(id, size, new, others, judged) ==
    LET why == IF new.ptr = 0 THEN "failed" ELSE judged
    IN  /\ verdict' = why
        /\ IF why = "ok"
           THEN /\ blocks' = [blocks EXCEPT ![id] = new.ptr]
                /\ block_sizes' = [block_sizes EXCEPT ![id] = size]
                /\ ranges' = others \cup {RangeOf(new.ptr, size)}
                /\ heap' = Forget(Fill(new.mem, new.ptr, size, id), blocks', block_sizes')
           ELSE /\ heap' = new.mem
                /\ ranges' = IF new.ptr = 0 THEN ranges ELSE others
                /\ UNCHANGED <<blocks, block_sizes>>

Init ==
    /\ heap = mm_init
    /\ blocks = [id \in Ids |-> 0] /\ block_sizes = [id \in Ids |-> 0]
    /\ ranges = {}
    /\ verdict = "ok"

Alloc(id, size) ==
    LET Judged(new) ==
            Answer(id, size, new, ranges, RangeVerdict(new.mem, ranges, RangeOf(new.ptr, size)))
    IN  /\ verdict = "ok" /\ blocks[id] = 0
        /\ Judged(mm_malloc(heap, size))

(* the old data is in the new block *)
Preserved(m, id, p, size) ==
    \A w \in Words(p, p + Min({size, block_sizes[id]})) : m[w] = id

Realloc(id, size) ==
    LET others == {r \in ranges : r.lo # blocks[id]}
        Kept(new, range) ==
            IF range = "ok" /\ ~Preserved(new.mem, id, new.ptr, size) THEN "lost" ELSE range
        Judged(new) ==
            Answer(id, size, new, others,
                   Kept(new, RangeVerdict(new.mem, others, RangeOf(new.ptr, size))))
    IN  /\ verdict = "ok" /\ blocks[id] # 0
        /\ Judged(mm_realloc(heap, blocks[id], size))

Free(id) ==
    /\ verdict = "ok" /\ blocks[id] # 0
    /\ ranges' = {r \in ranges : r.lo # blocks[id]}
    /\ blocks' = [blocks EXCEPT ![id] = 0]
    /\ block_sizes' = [block_sizes EXCEPT ![id] = 0]
    /\ heap' = Forget(mm_free(heap, blocks[id]), blocks', block_sizes')
    /\ UNCHANGED verdict

(* the trace is over, wherever it stands: the next one resets the break, clears
   the ranges and calls mm_init *)
NextTrace ==
    /\ heap' = mm_init
    /\ blocks' = [id \in Ids |-> 0] /\ block_sizes' = [id \in Ids |-> 0]
    /\ ranges' = {}
    /\ verdict' = "ok"

Next == \/ \E id \in Ids, size \in Sizes : Alloc(id, size) \/ Realloc(id, size)
        \/ \E id \in Ids : Free(id)
        \/ NextTrace

Spec == Init /\ [][Next]_vars

-----------------------------------------------------------------------------
(* mdriver's own verdict: whatever the trace, every payload is aligned and   *)
(* inside the heap, meets no other one, and a resized block keeps its data. *)
DriverSatisfied == verdict \in {"ok", "failed"}

(* The boundary tags tile the heap: the walk over the headers meets every    *)
(* word from the prologue to the epilogue, every footer repeats its header,  *)
(* and the blocks marked allocated are the payloads in the driver's table,   *)
(* each with room for the size asked for: no block leaks, none is freed      *)
(* twice.  With it the type invariant: nothing is written outside the heap.  *)
HeapTiled ==
    /\ TypeOK
    /\ UNION {Words(HDRP(bp), HDRP(NEXT_BLKP(heap, bp))) : bp \in Blocks(heap)}
           = Words(HDRP(FirstBlock), HDRP(mem_brk(heap)))
    /\ heap[ptr_begin] = DSIZE + 1 /\ heap[mem_brk(heap) - WSIZE] = 1
    /\ \A bp \in Blocks(heap) :
           /\ Size(heap, bp) >= MinBlock /\ Size(heap, bp) % DSIZE = 0
           /\ heap[FTRP(heap, bp)] = heap[HDRP(bp)]
    /\ verdict = "ok" =>
           /\ Blocks(heap) \ FreeBlocks(heap) = {blocks[id] : id \in Allocated}
           /\ \A id \in Allocated : Size(heap, blocks[id]) >= block_sizes[id] + DSIZE

(* check_free_block: no two neighbours are both free. *)
Coalesced ==
    \A bp \in FreeBlocks(heap) : NEXT_BLKP(heap, bp) \notin FreeBlocks(heap)

(* The blocks on the list whose head is in word w. *)
OnList(w) ==
    LET from[bp \in DOMAIN heap] ==
            {bp} \cup (IF heap[PTR_NEXT_PTR(bp)] \in DOMAIN heap
                       THEN from[heap[PTR_NEXT_PTR(bp)]]
                       ELSE {})
    IN  IF heap[w] = 0 THEN {} ELSE from[heap[w]]

(* The words of the tree that hold a pointer to a node or 0. *)
TreeWords ==
    LET sides(w) == IF heap[w] \in DOMAIN heap
                    THEN {PTR_LEFT_PTR(heap[w]), PTR_RIGHT_PTR(heap[w])} \cap DOMAIN heap
                    ELSE {}
        below[w \in DOMAIN heap] == {w} \cup UNION {below[side] : side \in sides(w)}
    IN  below[ptr_big]

SmallWords == {PTR_LIST(size) : size \in {n \in MinBlock .. SmallMax : n % DSIZE = 0}}

(* both ends of every link of a list agree, and nothing precedes its head *)
DoublyLinked(w) ==
    /\ heap[w] # 0 => heap[PTR_PREV_PTR(heap[w])] = 0
    /\ \A bp \in OnList(w) :
           LET next == heap[PTR_NEXT_PTR(bp)]
           IN  next # 0 => next \in OnList(w) /\ heap[PTR_PREV_PTR(next)] = bp

(* check_list_in, both ways: the blocks marked free are the members of the   *)
(* lists, each once; every list is doubly linked and all its blocks have the *)
(* size it is for, and a node is the node its size's search finds, so the    *)
(* tree is ordered.                                                          *)
ListsExact ==
    /\ UNION {OnList(w) : w \in SmallWords \cup TreeWords} = FreeBlocks(heap)
    /\ \A w, v \in SmallWords \cup TreeWords : w # v => OnList(w) \cap OnList(v) = {}
    /\ \A w \in SmallWords \cup TreeWords : DoublyLinked(w)
    /\ \A w \in SmallWords : \A bp \in OnList(w) :
           PTR_LIST(Size(heap, bp)) = w /\ ~Big(Size(heap, bp))
    /\ \A w \in TreeWords : \A bp \in OnList(w) :
           Slot(heap, Size(heap, bp)) = w /\ Big(Size(heap, bp))

BestFit ==
    \A id \in Ids, size \in Sizes :
        LET need    == ALIGN(size + DSIZE)
            fitting == {bp \in FreeBlocks(heap) : Size(heap, bp) >= need}
        IN  Alloc(id, size) =>
              IF fitting # {}
              THEN /\ mem_brk(heap') = mem_brk(heap)
                   /\ blocks'[id] \in fitting
                   /\ \A bp \in fitting : Size(heap, blocks'[id]) <= Size(heap, bp)
              ELSE (verdict' = "failed") <=> ~CanSbrk(heap, Max({need, CHUNKSIZE}))

(* findfit and extend_heap: a request is given a free block that is the      *)
(* smallest one large enough; the heap grows only when there is none, and    *)
(* the request fails only when it cannot grow.                               *)
FitsBest == [][BestFit]_vars

Abstract == INSTANCE AbstractHeap WITH
    Alignment <- DSIZE,
    First     <- mem_start_brk,
    Limit     <- mem_start_brk + MAX_HEAP - 1,
    extent    <- [id \in Ids |-> [lo |-> blocks[id], size |-> block_sizes[id]]]

(* Every payload stays its owner's alone: the driver's table implements the  *)
(* extents of an abstract allocator.  add_range alone would not show it: it  *)
(* tests the two ends of the new payload, and accepts one that encloses      *)
(* another.                                                                  *)
ImplementsAllocator == Abstract!Spec

=============================================================================
