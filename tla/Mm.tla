--------------------------------- MODULE Mm ---------------------------------
(***************************************************************************)
(* The malloc package of malloclab-handout/mm.c over the simulated memory  *)
(* of memlib.c.  A memory m is a function from the addresses of the words  *)
(* between mem_start_brk and mem_brk to their contents: boundary tags,     *)
(* pointers, or what a client stored.  Every operator takes the memory     *)
(* before a call and returns the one after it.                             *)
(*                                                                         *)
(* A free block of at most SmallMax bytes is on the doubly linked list of  *)
(* its size, whose head is one of the words at the start of the heap.  The *)
(* larger ones are in a binary search tree of sizes with its root at       *)
(* ptr_big: a node is the first of the list of the blocks of its size, and *)
(* only the node carries the left and right pointers.                      *)
(***************************************************************************)
EXTENDS Integers, FiniteSets, FiniteSetsExt

CONSTANTS
    SmallMax,    \* largest size that has a list: 40+DSIZE
    CHUNKSIZE,   \* least growth of the heap
    MAX_HEAP,    \* bytes of the simulated memory
    Junk         \* what a word holds that nobody has written

WSIZE == 4
DSIZE == 8
MinBlock == 2 * DSIZE    \* two tags and two links: the least rest a split leaves

mem_start_brk == 8
ptr_big == mem_start_brk + (SmallMax \div DSIZE) * WSIZE
ptr_begin == ptr_big + 2 * WSIZE
FirstBlock == ptr_begin + DSIZE

ASSUME MmAssumption ==
    /\ SmallMax \in Nat /\ SmallMax >= MinBlock /\ SmallMax % MinBlock = 0
    /\ CHUNKSIZE \in Nat /\ CHUNKSIZE >= MinBlock /\ CHUNKSIZE % DSIZE = 0
    /\ MAX_HEAP \in Nat /\ MAX_HEAP >= FirstBlock - mem_start_brk + CHUNKSIZE

ALIGN(n) == ((n + DSIZE - 1) \div DSIZE) * DSIZE

Words(lo, hi) == {w \in lo .. hi - 1 : w % WSIZE = 0}

(* the memory with the words of another one written over its own *)
Write(m, new) ==
    [w \in DOMAIN m \cup DOMAIN new |-> IF w \in DOMAIN new THEN new[w] ELSE m[w]]

PUT(m, p, v) == Write(m, [w \in {p} |-> v])

-----------------------------------------------------------------------------
(* memlib.c: the break is where the words end.                             *)

mem_brk(m) == mem_start_brk + WSIZE * Cardinality(DOMAIN m)

CanSbrk(m, incr) == mem_brk(m) + incr <= mem_start_brk + MAX_HEAP

mem_sbrk(m, incr) == Write(m, [w \in Words(mem_brk(m), mem_brk(m) + incr) |-> Junk])

-----------------------------------------------------------------------------
(* Boundary tags.                                                          *)

GET_SIZE(m, p) == m[p] - (m[p] % DSIZE)
GET_ALLOC(m, p) == m[p] % 2

HDRP(bp) == bp - WSIZE
Size(m, bp) == GET_SIZE(m, HDRP(bp))
FTRP(m, bp) == bp + Size(m, bp) - DSIZE
NEXT_BLKP(m, bp) == bp + Size(m, bp)
PREV_BLKP(m, bp) == bp - GET_SIZE(m, bp - DSIZE)

Tag(m, bp, size, alloc) ==
    PUT(PUT(m, HDRP(bp), size + alloc), bp + size - DSIZE, size + alloc)

-----------------------------------------------------------------------------
(* Lists and tree.  NULL is not the address of a word.  What follows links    *)
(* follows them only within the memory, so that it is a function whatever the *)
(* words hold.                                                                *)

PTR_NEXT_PTR(bp) == bp
PTR_PREV_PTR(bp) == bp + WSIZE
PTR_LEFT_PTR(bp) == bp + 2 * WSIZE
PTR_RIGHT_PTR(bp) == bp + 3 * WSIZE
PTR_LIST(size) == mem_start_brk + ((size - DSIZE) \div DSIZE) * WSIZE

Big(size) == size > SmallMax

LastOf(m, head) ==
    LET last[bp \in DOMAIN m] ==
            IF m[PTR_NEXT_PTR(bp)] \in DOMAIN m THEN last[m[PTR_NEXT_PTR(bp)]] ELSE bp
    IN  last[head]

find_biggest(m, node) ==
    LET biggest[bp \in DOMAIN m] ==
            IF m[PTR_RIGHT_PTR(bp)] \in DOMAIN m THEN biggest[m[PTR_RIGHT_PTR(bp)]] ELSE bp
    IN  biggest[node]

(* where the search for a size leaves a node that has another one *)
Side(m, node, size) ==
    IF Size(m, node) > size THEN PTR_LEFT_PTR(node) ELSE PTR_RIGHT_PTR(node)

(* the word at which the search for a size ends: it holds 0 or the node *)
Slot(m, size) ==
    LET below(w) == Side(m, m[w], size)
        search[w \in DOMAIN m] ==
            IF m[w] = 0 \/ Size(m, m[w]) = size \/ below(w) \notin DOMAIN m
            THEN w
            ELSE search[below(w)]
    IN  search[ptr_big]

find_precise(m, size) == m[Slot(m, size)]

FirstInTree(m, size) ==
    LET descend[node \in DOMAIN m \cup {0}] ==
            IF node = 0 THEN 0
            ELSE IF Size(m, node) >= size THEN LastOf(m, node)
            ELSE descend[m[PTR_RIGHT_PTR(node)]]
    IN  descend[m[ptr_big]]

(* a node, and below it or in it a size that is large enough *)
Fits(m, node, size) == node \in DOMAIN m /\ Size(m, find_biggest(m, node)) >= size

(* the smallest node of at least a size below a node that fits *)
Descend(m, node, size) ==
    LET child(n) == m[Side(m, n, size)]
        descend[n \in DOMAIN m] ==
            IF Size(m, n) # size /\ Fits(m, child(n), size) THEN descend[child(n)] ELSE n
    IN  descend[node]

(* the last block of the list of the smallest such size; 0 if there is none *)
FindInTree(m, size) ==
    LET root == m[ptr_big]
    IN  IF Fits(m, root, size) THEN LastOf(m, Descend(m, root, size)) ELSE 0

findfit(m, asize) ==
    LET small == {size \in asize .. SmallMax :
                      size % DSIZE = 0 /\ m[PTR_LIST(size)] # 0}
    IN  IF small # {}
        THEN LastOf(m, m[PTR_LIST(Min(small))])
        ELSE FindInTree(m, Max({asize, SmallMax + DSIZE}))

-----------------------------------------------------------------------------
(* Adding a free block.                                                    *)

(* a block becomes the only one of the list whose head is in word w *)
Start(m, w, bp) ==
    PUT(PUT(PUT(m, w, bp), PTR_NEXT_PTR(bp), 0), PTR_PREV_PTR(bp), 0)

add_free_block(m, w, bp) ==
    IF m[w] = 0
    THEN Start(m, w, bp)
    ELSE LET last == LastOf(m, m[w])
         IN  PUT(PUT(PUT(m, PTR_NEXT_PTR(last), bp),
                     PTR_NEXT_PTR(bp), 0),
                 PTR_PREV_PTR(bp), last)

add_block_list(m, bp) ==
    PUT(PUT(Start(m, Slot(m, Size(m, bp)), bp), PTR_LEFT_PTR(bp), 0),
        PTR_RIGHT_PTR(bp), 0)

add_block(m, bp) ==
    LET size == Size(m, bp)
    IN  CASE Big(size) /\ find_precise(m, size) = 0 -> add_block_list(m, bp)
          [] Big(size) /\ find_precise(m, size) # 0 -> add_free_block(m, Slot(m, size), bp)
          [] ~Big(size)                             -> add_free_block(m, PTR_LIST(size), bp)

-----------------------------------------------------------------------------
(* Removing a free block.                                                  *)

DeleteFirstPrevKept(m, w, bp) ==
    LET next  == m[PTR_NEXT_PTR(bp)]
        moved == IF Big(Size(m, bp))
                 THEN PUT(PUT(m, PTR_LEFT_PTR(next), m[PTR_LEFT_PTR(bp)]),
                          PTR_RIGHT_PTR(next), m[PTR_RIGHT_PTR(bp)])
                 ELSE m
    IN  PUT(moved, w, next)

(* the first block of the list at word w goes, the next one takes its place,
   in the tree with the node's children *)
DeleteFirst(m, w, bp) ==
    LET next  == m[PTR_NEXT_PTR(bp)]
        moved == IF Big(Size(m, bp))
                 THEN PUT(PUT(m, PTR_LEFT_PTR(next), m[PTR_LEFT_PTR(bp)]),
                          PTR_RIGHT_PTR(next), m[PTR_RIGHT_PTR(bp)])
                 ELSE m
        headed == PUT(moved, w, next)
    IN  IF next = 0 THEN headed ELSE PUT(headed, PTR_PREV_PTR(next), 0)

(* the block in front of bp on the list that starts with head *)
Before(m, head, bp) ==
    LET before[b \in DOMAIN m] ==
            IF m[PTR_NEXT_PTR(b)] = bp \/ m[PTR_NEXT_PTR(b)] \notin DOMAIN m
            THEN b
            ELSE before[m[PTR_NEXT_PTR(b)]]
    IN  before[head]

delete_free_block(m, w, bp) ==
    LET next == m[PTR_NEXT_PTR(bp)]
        prev == Before(m, m[w], bp)
    IN  IF m[w] = bp
        THEN DeleteFirst(m, w, bp)
        ELSE LET linked == PUT(m, PTR_NEXT_PTR(prev), next)
             IN  IF next = 0 THEN linked ELSE PUT(linked, PTR_PREV_PTR(next), prev)

(* the tree without a node that lacks a child: the other child replaces it *)
Splice(m, node) ==
    LET left == m[PTR_LEFT_PTR(node)]
    IN  PUT(m, Slot(m, Size(m, node)),
            IF left = 0 THEN m[PTR_RIGHT_PTR(node)] ELSE left)

DeleteNodeKeepLeft(m, node) ==
    IF m[PTR_LEFT_PTR(node)] = 0 \/ m[PTR_RIGHT_PTR(node)] = 0
    THEN Splice(m, node)
    ELSE LET mm      == find_biggest(m, m[PTR_LEFT_PTR(node)])
             without == Splice(m, mm)
             hung    == PUT(without, Slot(m, Size(m, node)), mm)
         IN  PUT(hung, PTR_RIGHT_PTR(mm), without[PTR_RIGHT_PTR(node)])

delete_block_list(m, node) ==
    IF m[PTR_LEFT_PTR(node)] = 0 \/ m[PTR_RIGHT_PTR(node)] = 0
    THEN Splice(m, node)
    ELSE LET mm      == find_biggest(m, m[PTR_LEFT_PTR(node)])
             without == Splice(m, mm)
             hung    == PUT(without, Slot(m, Size(m, node)), mm)
             left    == PUT(hung, PTR_LEFT_PTR(mm), without[PTR_LEFT_PTR(node)])
         IN  PUT(left, PTR_RIGHT_PTR(mm), without[PTR_RIGHT_PTR(node)])

delete_block(m, bp) ==
    LET size == Size(m, bp)
        w    == IF Big(size) THEN Slot(m, size) ELSE PTR_LIST(size)
    IN  IF Big(size) /\ m[PTR_NEXT_PTR(m[w])] = 0
        THEN delete_block_list(m, m[w])
        ELSE delete_free_block(m, w, bp)

-----------------------------------------------------------------------------
(* Blocks merge when they become free and split when they are taken.       *)

PrevFree(m, bp) == GET_ALLOC(m, FTRP(m, PREV_BLKP(m, bp))) = 0
NextFree(m, bp) == GET_ALLOC(m, HDRP(NEXT_BLKP(m, bp))) = 0

CoalescedAt(m, bp) == IF PrevFree(m, bp) THEN PREV_BLKP(m, bp) ELSE bp

coalesce(m, bp) ==
    LET prev  == PREV_BLKP(m, bp)
        next  == NEXT_BLKP(m, bp)
        m1    == IF PrevFree(m, bp) THEN delete_block(m, prev) ELSE m
        m2    == IF NextFree(m, bp) THEN delete_block(m1, next) ELSE m1
        start == CoalescedAt(m, bp)
        end   == IF NextFree(m, bp) THEN NEXT_BLKP(m, next) ELSE next
        alone == ~PrevFree(m, bp) /\ ~NextFree(m, bp)
    IN  add_block(IF alone THEN m ELSE Tag(m2, start, end - start, 0), start)

extend_heap(m, size) ==
    LET bp    == mem_brk(m)
        grown == Tag(mem_sbrk(m, size), bp, size, 0)
        ended == PUT(grown, HDRP(bp + size), 1)
    IN  [mem |-> coalesce(ended, bp), ptr |-> CoalescedAt(ended, bp)]

place(m, bp, asize) ==
    LET csize == Size(m, bp)
        lsize == csize - asize
        taken == delete_block(m, bp)
        rest  == bp + asize
    IN  IF lsize >= MinBlock
        THEN add_block(Tag(Tag(taken, bp, asize, 1), rest, lsize, 0), rest)
        ELSE Tag(taken, bp, csize, 1)

-----------------------------------------------------------------------------
(* The package's interface.  A call that returns a pointer yields the       *)
(* memory and the pointer, 0 for NULL.                                      *)

mm_init ==
    LET prologue == [w \in Words(mem_start_brk, FirstBlock) |->
                        CASE w \in {ptr_begin - WSIZE, ptr_begin} -> DSIZE + 1
                          [] w = HDRP(FirstBlock)                 -> 1
                          [] OTHER                                -> 0]
    IN  extend_heap(prologue, CHUNKSIZE).mem

Null(m) == [mem |-> m, ptr |-> 0]
Placed(m, bp, asize) == [mem |-> place(m, bp, asize), ptr |-> bp]

Serve(m, newsize, fit) ==
    LET growth        == Max({newsize, CHUNKSIZE})
        PlacedIn(new) == Placed(new.mem, new.ptr, newsize)
    IN  CASE fit # 0                         -> Placed(m, fit, newsize)
          [] fit = 0 /\ CanSbrk(m, growth)  -> PlacedIn(extend_heap(m, growth))
          [] fit = 0 /\ ~CanSbrk(m, growth) -> Null(m)

mm_malloc(m, size) ==
    LET newsize == ALIGN(size + DSIZE)
    IN  IF size = 0 THEN Null(m) ELSE Serve(m, newsize, findfit(m, newsize))

FreeHeaderOnly(m, ptr) == coalesce(PUT(m, HDRP(ptr), Size(m, ptr)), ptr)

FreeNoCoalesce(m, ptr) == add_block(Tag(m, ptr, Size(m, ptr), 0), ptr)

mm_free(m, ptr) == coalesce(Tag(m, ptr, Size(m, ptr), 0), ptr)

(* memcpy of n bytes *)
Copy(m, to, from, n) == Write(m, [w \in Words(to, to + n) |-> m[from + w - to]])

MoveFreeFirst(m, from, to, n) == Copy(mm_free(m, from), to, from, n)

Move(m, from, to, n) == mm_free(Copy(m, to, from, n), from)

(* the answer of a mm_realloc that had to ask for a new block *)
Moved(m, ptr, new, n) ==
    IF new.ptr = 0 THEN Null(m) ELSE [mem |-> Move(new.mem, ptr, new.ptr, n), ptr |-> new.ptr]

SpareUnchecked(m, ptr) == Size(m, NEXT_BLKP(m, ptr))

(* what a block can grow by where it is *)
Spare(m, ptr) == IF NextFree(m, ptr) THEN Size(m, NEXT_BLKP(m, ptr)) ELSE 0

(* a block resized where it is: it takes what follows it, and gives back a rest
   that is large enough *)
Resized(m, ptr, freesize, newsize) ==
    LET rest  == ptr + newsize
        alone == IF NextFree(m, ptr) THEN delete_block(m, NEXT_BLKP(m, ptr)) ELSE m
    IN  IF freesize >= newsize + MinBlock
        THEN add_block(Tag(Tag(alone, ptr, newsize, 1), rest, freesize - newsize, 0), rest)
        ELSE Tag(alone, ptr, freesize, 1)

mm_realloc(m, ptr, size) ==
    LET oldsize  == Size(m, ptr)
        newsize  == ALIGN(size + DSIZE)
        freesize == oldsize + Spare(m, ptr)
    IN  CASE oldsize = size + DSIZE -> [mem |-> m, ptr |-> ptr]
          [] oldsize # size + DSIZE /\ freesize >= newsize ->
                 [mem |-> Resized(m, ptr, freesize, newsize), ptr |-> ptr]
          [] freesize < newsize ->
                 Moved(m, ptr, mm_malloc(m, size), Min({size, oldsize - DSIZE}))

-----------------------------------------------------------------------------
(* The blocks of a heap, as the walk of check_free_block and print_block    *)
(* meets them, from the prologue to the epilogue.                           *)

Blocks(m) ==
    LET from[bp \in DOMAIN m] ==
            {bp} \cup (IF NEXT_BLKP(m, bp) \in DOMAIN m THEN from[NEXT_BLKP(m, bp)] ELSE {})
    IN  from[FirstBlock]

FreeBlocks(m) == {bp \in Blocks(m) : GET_ALLOC(m, HDRP(bp)) = 0}

=============================================================================
