--------------------------- MODULE MdriverProofs ---------------------------
(***************************************************************************)
(* Theorems about the malloc package under the driver: for any trace, any  *)
(* sizes of requests and heap, and any limit between lists and tree.       *)
(*                                                                         *)
(* The invariant, IInv, says what a heap S of blocks is, U of them         *)
(* allocated, and how it serves the driver's table:                        *)
(*   Listed  the free blocks are on the lists of their sizes, linked both  *)
(*           ways and in no circle, and the lists of the larger sizes hang *)
(*           on a search tree whose nodes are between the bounds of theirs *)
(*   HeapOf  the blocks follow each other from the prologue to the end,    *)
(*           with both tags; X are the blocks whose tags are being written *)
(*   Whole   every block that is not allocated is listed, and no two       *)
(*           neighbours are free                                           *)
(*   Served  the allocated blocks are the payloads of the table, each with *)
(*           room for its size and full of its index                       *)
(* The parts follow the code: add_block and delete_block keep Listed;      *)
(* coalesce, place, extend_heap and mm_realloc divide and join blocks of a *)
(* HeapOf and end with a Whole one; the driver's calls keep Served.        *)
(***************************************************************************)
EXTENDS Mdriver, WellOrder, FiniteSetTheorems

-----------------------------------------------------------------------------
(* Words and tags.                                                         *)

(* Where the parts of the heap are: the words of the lists, the word of the
   tree, the two words of the prologue, the first block. *)
LEMMA Places ==
    /\ mem_start_brk = 8 /\ WSIZE = 4 /\ DSIZE = 8 /\ MinBlock = 16
    /\ SmallMax \in Nat /\ SmallMax >= 16 /\ SmallMax % 8 = 0
    /\ ptr_big \in Nat /\ ptr_big >= 16 /\ ptr_big % 8 = 0
    /\ ptr_begin = ptr_big + 8 /\ FirstBlock = ptr_big + 16
    /\ MAX_HEAP \in Nat /\ CHUNKSIZE \in Nat /\ CHUNKSIZE >= 16 /\ CHUNKSIZE % 8 = 0
    /\ MAX_HEAP >= FirstBlock - 8 + CHUNKSIZE
  BY MmAssumption DEF mem_start_brk, WSIZE, DSIZE, MinBlock, ptr_big, ptr_begin, FirstBlock

(* The word of a list is in front of the word of the tree, and its own. *)
LEMMA ListWords ==
    ASSUME NEW s \in Nat, s % 8 = 0, s >= 16, s <= SmallMax
    PROVE  /\ PTR_LIST(s) \in Nat /\ PTR_LIST(s) >= 8 /\ PTR_LIST(s) < ptr_big /\ PTR_LIST(s) % 4 = 0
           /\ \A t \in Nat : t % 8 = 0 /\ t >= 16 /\ t <= SmallMax /\ t # s => PTR_LIST(t) # PTR_LIST(s)
  BY MmAssumption DEF PTR_LIST, mem_start_brk, WSIZE, DSIZE, MinBlock, ptr_big

(* PUT changes one word. *)
LEMMA PutIs ==
    ASSUME NEW m, NEW p \in DOMAIN m, NEW v
    PROVE  /\ DOMAIN PUT(m, p, v) = DOMAIN m
           /\ PUT(m, p, v)[p] = v
           /\ \A w \in DOMAIN m : w # p => PUT(m, p, v)[w] = m[w]
  BY DEF PUT, Write

(* A tag holds a size and whether the block is allocated. *)
LEMMA TagValue ==
    ASSUME NEW s \in Nat, s % 8 = 0, NEW a \in {0, 1}
    PROVE  (s + a) - ((s + a) % 8) = s /\ (s + a) % 2 = a
  OBVIOUS

-----------------------------------------------------------------------------
(* Listed blocks.  S gives the size of each block, G is a set of blocks that *)
(* are apart from each other, F the ones among them that are on the lists.   *)

(* the first address behind the memory the driver simulates *)
MaxSize == mem_start_brk + MAX_HEAP

(* the blocks of G are in the memory, with their links, and apart *)
Laid(m, S, G) ==
    /\ \A b \in G :
        /\ b \in Nat /\ b % 8 = 0 /\ b >= FirstBlock
        /\ S[b] \in Nat /\ S[b] % 8 = 0 /\ S[b] >= 16 /\ S[b] < MaxSize
        /\ Size(m, b) = S[b]
        /\ {b - 4, b, b + 4} \subseteq DOMAIN m
        /\ Big(S[b]) => {b + 8, b + 12} \subseteq DOMAIN m
    /\ \A b, c \in G : b < c => b + S[b] <= c
    /\ 0 \notin DOMAIN m
    /\ \A s \in Nat : s % 8 = 0 /\ s >= 16 /\ s <= SmallMax => PTR_LIST(s) \in DOMAIN m
    /\ ptr_big \in DOMAIN m

(* both ends of every link agree, and join blocks of one size *)
Chained(m, S, F) ==
    \A b \in F :
        /\ m[b] \in F \cup {0} /\ m[b + 4] \in F \cup {0}
        /\ m[b] # 0 => S[m[b]] = S[b] /\ m[m[b] + 4] = b
        /\ m[b + 4] # 0 => m[m[b + 4]] = b

(* the links go forward: no list is circular *)
Ordered(m, F, pos, n) ==
    /\ n \in Nat /\ pos \in [F -> 0 .. n]
    /\ \A b \in F : m[b] # 0 => pos[b] < pos[m[b]]

(* the sizes that have a list *)
IsSmall(s) == s \in Nat /\ s % 8 = 0 /\ s >= 16 /\ s <= SmallMax

(* the list of a small size starts with the block nothing precedes *)
Headed(m, S, F) ==
    /\ \A s : IsSmall(s) /\ m[PTR_LIST(s)] # 0 =>
           /\ m[PTR_LIST(s)] \in F /\ S[m[PTR_LIST(s)]] = s /\ m[m[PTR_LIST(s)] + 4] = 0
    /\ \A b \in F : ~Big(S[b]) /\ m[b + 4] = 0 => m[PTR_LIST(S[b])] = b

(* The links of different blocks are different words, none of them a tag or
   the head of a list. *)
LEMMA LinksApart ==
    ASSUME NEW m, NEW S, NEW G, Laid(m, S, G), NEW b \in G, NEW c \in G, b # c
    PROVE  /\ b # c + 4 /\ b + 4 # c /\ b + 4 # c + 4
           /\ c - 4 # b /\ c - 4 # b + 4 /\ c - 4 # b - 4
           /\ Big(S[b]) => /\ b + 8 # c /\ b + 8 # c + 4 /\ b + 8 # c - 4
                           /\ b + 12 # c /\ b + 12 # c + 4 /\ b + 12 # c - 4
           /\ Big(S[b]) /\ Big(S[c]) => /\ b + 8 # c + 8 /\ b + 8 # c + 12
                                        /\ b + 12 # c + 8 /\ b + 12 # c + 12
<1>. b \in Nat /\ c \in Nat /\ S[b] \in Nat /\ S[c] \in Nat /\ S[b] >= 16 /\ S[c] >= 16
     /\ b % 8 = 0 /\ c % 8 = 0 /\ S[b] % 8 = 0 /\ S[c] % 8 = 0
  BY DEF Laid
<1>1. b + S[b] <= c \/ c + S[c] <= b
  BY DEF Laid
<1>2. Big(S[b]) => S[b] >= 24
  BY Places DEF Big
<1>3. Big(S[c]) => S[c] >= 24
  BY Places DEF Big
<1>. QED  BY <1>1, <1>2, <1>3

(* None of them is at the start of the heap. *)
LEMMA LinksHigh ==
    ASSUME NEW m, NEW S, NEW G, Laid(m, S, G), NEW b \in G
    PROVE  b - 4 > ptr_big /\ b > ptr_big /\ b + 4 > ptr_big /\ b + 8 > ptr_big /\ b + 12 > ptr_big
           /\ b \in Nat /\ b # 0
           /\ \A s : IsSmall(s) => PTR_LIST(s) < ptr_big /\ PTR_LIST(s) \in Nat
  BY Places, ListWords DEF Laid, IsSmall

(* What does not touch the headers leaves the blocks where they are. *)
LEMMA LaidStays ==
    ASSUME NEW m, NEW S, NEW G, Laid(m, S, G), NEW m2, DOMAIN m2 = DOMAIN m,
           \A b \in G : m2[b - 4] = m[b - 4]
    PROVE  Laid(m2, S, G)
<1>1. \A b \in G : Size(m2, b) = Size(m, b)
  BY Places DEF Size, GET_SIZE, HDRP
<1>. QED  BY <1>1 DEF Laid

-----------------------------------------------------------------------------
(* Walks along a list.                                                      *)

(* LastOf follows the links. *)
LEMMA LastSteps ==
    ASSUME NEW m
    PROVE  \E f : /\ \A head : LastOf(m, head) = f[head]
                  /\ \A b \in DOMAIN m : f[b] = IF m[b] \in DOMAIN m THEN f[m[b]] ELSE b
<1>. DEFINE stop == {b \in DOMAIN m : m[b] \notin DOMAIN m}
            next == [b \in DOMAIN m \ stop |-> m[b]]
            P(f) == f = [b \in DOMAIN m |-> IF m[b] \in DOMAIN m THEN f[m[b]] ELSE b]
            g == CHOOSE f : P(f)
<1>1. \E f : P(f)
  <2>0. stop \in SUBSET DOMAIN m /\ next \in [DOMAIN m \ stop -> DOMAIN m]
    OBVIOUS
  <2>1. PICK f : Walks(f, DOMAIN m, stop, next)
    <3>. HIDE DEF stop, next
    <3>. QED  BY <2>0, WalkingExists
  <2>2. \A x \in DOMAIN m : (IF x \in stop THEN x ELSE f[next[x]]) = IF m[x] \in DOMAIN m THEN f[m[x]] ELSE x
    OBVIOUS
  <2>3. P(f)
    BY <2>1, <2>2 DEF Walks
  <2>. QED  BY <2>3
<1>2. P(g)
  <2>. HIDE DEF P
  <2>. QED  BY <1>1
<1>3. \A head : LastOf(m, head) = g[head]
  BY DEF LastOf, PTR_NEXT_PTR
<1>. HIDE DEF g
<1>. QED  BY <1>2, <1>3

(* Before does so until the next block is the one that is sought. *)
LEMMA BeforeSteps ==
    ASSUME NEW m, NEW bp
    PROVE  \E f : /\ \A head : Before(m, head, bp) = f[head]
                  /\ \A b \in DOMAIN m :
                         f[b] = IF m[b] = bp \/ m[b] \notin DOMAIN m THEN b ELSE f[m[b]]
<1>. DEFINE stop == {b \in DOMAIN m : m[b] = bp \/ m[b] \notin DOMAIN m}
            next == [b \in DOMAIN m \ stop |-> m[b]]
            P(f) == f = [b \in DOMAIN m |-> IF m[b] = bp \/ m[b] \notin DOMAIN m THEN b ELSE f[m[b]]]
            g == CHOOSE f : P(f)
<1>1. \E f : P(f)
  <2>0. stop \in SUBSET DOMAIN m /\ next \in [DOMAIN m \ stop -> DOMAIN m]
    OBVIOUS
  <2>1. PICK f : Walks(f, DOMAIN m, stop, next)
    <3>. HIDE DEF stop, next
    <3>. QED  BY <2>0, WalkingExists
  <2>2. \A x \in DOMAIN m : (IF x \in stop THEN x ELSE f[next[x]])
                                = IF m[x] = bp \/ m[x] \notin DOMAIN m THEN x ELSE f[m[x]]
    OBVIOUS
  <2>3. P(f)
    BY <2>1, <2>2 DEF Walks
  <2>. QED  BY <2>3
<1>2. P(g)
  <2>. HIDE DEF P
  <2>. QED  BY <1>1
<1>3. \A head : Before(m, head, bp) = g[head]
  BY DEF Before, PTR_NEXT_PTR
<1>. HIDE DEF g
<1>. QED  BY <1>2, <1>3

(* The walk from a listed block ends at the last one of its list. *)
LEMMA LastIsLast ==
    ASSUME NEW m, NEW S, NEW G, NEW F \in SUBSET G, Laid(m, S, G), Chained(m, S, F),
           NEW pos, NEW n, Ordered(m, F, pos, n), NEW h \in F
    PROVE  LastOf(m, h) \in F /\ S[LastOf(m, h)] = S[h] /\ m[LastOf(m, h)] = 0
<1>1. PICK f : /\ \A head : LastOf(m, head) = f[head]
               /\ \A b \in DOMAIN m : f[b] = IF m[b] \in DOMAIN m THEN f[m[b]] ELSE b
  BY LastSteps
<1>. DEFINE Good(b) == f[b] \in F /\ S[f[b]] = S[b] /\ m[f[b]] = 0
            Bad == {b \in F : ~Good(b)}
            Ranks == {n - pos[b] : b \in Bad}
<1>2. F \subseteq DOMAIN m /\ 0 \notin DOMAIN m
  BY DEF Laid
<1>3. \A b \in F : pos[b] \in 0 .. n /\ n \in Nat
  BY DEF Ordered
<1>4. Ranks \in SUBSET Nat
  BY <1>3
<1>5. Bad = {}
  <2>. SUFFICES ASSUME Bad # {} PROVE FALSE
    OBVIOUS
  <2>1. Ranks # {}
    OBVIOUS
  <2>2. PICK r \in Ranks : \A q \in Ranks : r <= q
    BY <1>4, <2>1, LeastNatural
  <2>3. PICK b \in Bad : r = n - pos[b]
    OBVIOUS
  <2>4. \A c \in Bad : pos[c] <= pos[b]
    BY <2>2, <2>3, <1>3
  <2>5. CASE m[b] = 0
    BY <1>1, <1>2, <2>5
  <2>6. CASE m[b] # 0
    <3>1. m[b] \in F /\ S[m[b]] = S[b] /\ pos[b] < pos[m[b]]
      BY <2>6 DEF Chained, Ordered
    <3>2. m[b] \notin Bad
      BY <1>3, <2>4, <3>1
    <3>3. f[b] = f[m[b]]
      BY <1>1, <1>2, <3>1
    <3>. QED  BY <3>1, <3>2, <3>3
  <2>. QED  BY <2>5, <2>6
<1>6. Good(h)
  BY <1>5
<1>. QED  BY <1>1, <1>6

(* Every listed block is on a list with a first one, and the walk from there
   finds the block in front of it. *)
LEMMA FirstExists ==
    ASSUME NEW m, NEW S, NEW G, NEW F \in SUBSET G, Laid(m, S, G), Chained(m, S, F),
           NEW pos, NEW n, Ordered(m, F, pos, n), NEW bp \in F
    PROVE  \E h \in F : /\ S[h] = S[bp] /\ m[h + 4] = 0
                        /\ m[bp + 4] # 0 => h # bp /\ Before(m, h, bp) = m[bp + 4]
<1>1. PICK f : /\ \A head : Before(m, head, bp) = f[head]
               /\ \A b \in DOMAIN m : f[b] = IF m[b] = bp \/ m[b] \notin DOMAIN m THEN b ELSE f[m[b]]
  BY BeforeSteps
<1>2. F \subseteq DOMAIN m /\ 0 \notin DOMAIN m
  BY DEF Laid
<1>3. \A b \in F : pos[b] \in Nat
  BY DEF Ordered
<1>4. CASE m[bp + 4] = 0
  BY <1>4
<1>5. CASE m[bp + 4] # 0
  <2>. DEFINE Ahead == {b \in F : S[b] = S[bp] /\ pos[b] < pos[bp] /\ f[b] = m[bp + 4]}
              Ranks == {pos[b] : b \in Ahead}
  <2>1. m[bp + 4] \in Ahead
    <3>1. m[bp + 4] \in F /\ m[m[bp + 4]] = bp
      BY <1>5 DEF Chained
    <3>2. S[m[bp + 4]] = S[bp]
      BY <3>1, <1>2 DEF Chained
    <3>3. pos[m[bp + 4]] < pos[bp]
      BY <3>1, <1>2 DEF Ordered
    <3>4. f[m[bp + 4]] = m[bp + 4]
      BY <3>1, <1>1, <1>2
    <3>. QED  BY <3>1, <3>2, <3>3, <3>4
  <2>2. Ranks \in SUBSET Nat /\ Ranks # {}
    BY <1>3, <2>1
  <2>3. PICK r \in Ranks : \A q \in Ranks : r <= q
    BY <2>2, LeastNatural
  <2>4. PICK h \in Ahead : r = pos[h]
    OBVIOUS
  <2>5. m[h + 4] = 0
    <3>. SUFFICES ASSUME m[h + 4] # 0 PROVE FALSE
      OBVIOUS
    <3>1. m[h + 4] \in F /\ m[m[h + 4]] = h
      BY DEF Chained
    <3>2. S[m[h + 4]] = S[h] /\ pos[m[h + 4]] < pos[h]
      BY <3>1, <1>2 DEF Chained, Ordered
    <3>3. h # bp /\ pos[m[h + 4]] < pos[bp]
      BY <1>3, <3>1, <3>2
    <3>4. f[m[h + 4]] = f[h]
      BY <3>1, <3>3, <1>1, <1>2
    <3>5. m[h + 4] \in Ahead
      BY <3>1, <3>2, <3>3, <3>4
    <3>6. pos[h] <= pos[m[h + 4]]
      BY <2>3, <2>4, <3>5
    <3>. QED  BY <1>3, <3>1, <3>2, <3>6
  <2>6. h # bp
    BY <1>3
  <2>. QED  BY <1>1, <2>5, <2>6
<1>. QED  BY <1>4, <1>5

-----------------------------------------------------------------------------
(* The tree.  N are its nodes; the sizes that may be below or in node n are  *)
(* those between lo[n] and hi[n].                                            *)

(* the words of the tree: its root, and the two children of each node *)
TreeWord(N, w) == w = ptr_big \/ \E p \in N : w \in {p + 8, p + 12}

(* the size of each node is between its bounds *)
Bounded(S, N, lo, hi) ==
    /\ lo \in [N -> Int] /\ hi \in [N -> Int]
    /\ \A n \in N : 0 <= lo[n] /\ lo[n] < S[n] /\ S[n] < hi[n] /\ hi[n] <= MaxSize

(* what may be held by the words of the tree *)
Rooted(m, N, lo, hi) ==
    /\ m[ptr_big] \in N \cup {0}
    /\ m[ptr_big] # 0 => lo[m[ptr_big]] = 0 /\ hi[m[ptr_big]] = MaxSize

(* each child is smaller on the left, larger on the right *)
Branched(m, S, N, lo, hi) ==
    \A n \in N :
        /\ m[n + 8] \in N \cup {0} /\ m[n + 12] \in N \cup {0}
        /\ m[n + 8] # 0 => lo[m[n + 8]] = lo[n] /\ hi[m[n + 8]] = S[n]
        /\ m[n + 12] # 0 => lo[m[n + 12]] = S[n] /\ hi[m[n + 12]] = hi[n]

(* every node is held by a word of the tree *)
Held(m, N) == \A n \in N : m[ptr_big] = n \/ \E p \in N : m[p + 8] = n \/ m[p + 12] = n

(* the tree of the first blocks of the larger sizes *)
Tree(m, S, N, lo, hi) ==
    Bounded(S, N, lo, hi) /\ Rooted(m, N, lo, hi) /\ Branched(m, S, N, lo, hi) /\ Held(m, N)

(* The blocks of the tree are large. *)
AllBig(S, N) == \A n \in N : Big(S[n])

(* Slot goes from word to word. *)
LEMMA SlotSteps ==
    ASSUME NEW m, NEW s
    PROVE  \E f : /\ Slot(m, s) = f[ptr_big]
                  /\ \A w \in DOMAIN m :
                         f[w] = IF m[w] = 0 \/ Size(m, m[w]) = s \/ Side(m, m[w], s) \notin DOMAIN m
                                THEN w ELSE f[Side(m, m[w], s)]
<1>. DEFINE stop == {w \in DOMAIN m : m[w] = 0 \/ Size(m, m[w]) = s \/ Side(m, m[w], s) \notin DOMAIN m}
            next == [w \in DOMAIN m \ stop |-> Side(m, m[w], s)]
            P(f) == f = [w \in DOMAIN m |->
                            IF m[w] = 0 \/ Size(m, m[w]) = s \/ Side(m, m[w], s) \notin DOMAIN m
                            THEN w ELSE f[Side(m, m[w], s)]]
            g == CHOOSE f : P(f)
<1>1. \E f : P(f)
  <2>0. stop \in SUBSET DOMAIN m /\ next \in [DOMAIN m \ stop -> DOMAIN m]
    OBVIOUS
  <2>1. PICK f : Walks(f, DOMAIN m, stop, next)
    <3>. HIDE DEF stop, next
    <3>. QED  BY <2>0, WalkingExists
  <2>2. \A x \in DOMAIN m : (IF x \in stop THEN x ELSE f[next[x]])
            = IF m[x] = 0 \/ Size(m, m[x]) = s \/ Side(m, m[x], s) \notin DOMAIN m
              THEN x ELSE f[Side(m, m[x], s)]
    OBVIOUS
  <2>3. P(f)
    BY <2>1, <2>2 DEF Walks
  <2>. QED  BY <2>3
<1>2. P(g)
  <2>. HIDE DEF P
  <2>. QED  BY <1>1
<1>3. Slot(m, s) = g[ptr_big]
  BY DEF Slot
<1>. HIDE DEF g
<1>. QED  BY <1>2, <1>3

(* In the tree it turns left or right at a node of another size. *)
LEMMA SearchSteps ==
    ASSUME NEW m, NEW S, NEW G, NEW N \in SUBSET G, Laid(m, S, G), AllBig(S, N), NEW s
    PROVE  \E f : /\ Slot(m, s) = f[ptr_big]
                  /\ \A w \in DOMAIN m : m[w] = 0 => f[w] = w
                  /\ \A w \in DOMAIN m : m[w] \in N =>
                         f[w] = IF S[m[w]] = s THEN w
                                ELSE IF S[m[w]] > s THEN f[m[w] + 8] ELSE f[m[w] + 12]
<1>1. PICK f : /\ Slot(m, s) = f[ptr_big]
               /\ \A w \in DOMAIN m :
                      f[w] = IF m[w] = 0 \/ Size(m, m[w]) = s \/ Side(m, m[w], s) \notin DOMAIN m
                             THEN w ELSE f[Side(m, m[w], s)]
  BY SlotSteps
<1>2. \A n \in N : Size(m, n) = S[n] /\ n # 0 /\ Side(m, n, s) \in DOMAIN m
                   /\ Side(m, n, s) = IF S[n] > s THEN n + 8 ELSE n + 12
  BY Places DEF Laid, AllBig, Side, PTR_LEFT_PTR, PTR_RIGHT_PTR
<1>3. \A w \in DOMAIN m : m[w] = 0 => f[w] = w
  BY <1>1
<1>4. ASSUME NEW w \in DOMAIN m, m[w] \in N
      PROVE  f[w] = IF S[m[w]] = s THEN w
                    ELSE IF S[m[w]] > s THEN f[m[w] + 8] ELSE f[m[w] + 12]
  BY <1>1, <1>2, <1>4
<1>. QED  BY <1>1, <1>3, <1>4

(* The words of the tree are in the memory. *)
LEMMA TreeWordsInMemory ==
    ASSUME NEW m, NEW S, NEW G, NEW N \in SUBSET G, Laid(m, S, G), AllBig(S, N)
    PROVE  \A w : TreeWord(N, w) => w \in DOMAIN m
  BY DEF Laid, AllBig, TreeWord

(* The search for a size that may be below node n comes by the word that holds
   n. *)
LEMMA SearchComesBy ==
    ASSUME NEW m, NEW S, NEW G, NEW N \in SUBSET G, Laid(m, S, G), AllBig(S, N),
           NEW lo, NEW hi, Tree(m, S, N, lo, hi), NEW s \in Int, NEW f,
           \A w \in DOMAIN m : m[w] = 0 => f[w] = w,
           \A w \in DOMAIN m : m[w] \in N =>
               f[w] = IF S[m[w]] = s THEN w
                      ELSE IF S[m[w]] > s THEN f[m[w] + 8] ELSE f[m[w] + 12]
    PROVE  \A w : TreeWord(N, w) /\ m[w] \in N /\ lo[m[w]] < s /\ s < hi[m[w]] => f[w] = f[ptr_big]
<1>. DEFINE Bad == {n \in N : /\ lo[n] < s /\ s < hi[n]
                              /\ \E w : TreeWord(N, w) /\ m[w] = n /\ f[w] # f[ptr_big]}
            Ranks == {MaxSize - (hi[n] - lo[n]) : n \in Bad}
<1>0. MaxSize \in Nat /\ N \subseteq DOMAIN m /\ 0 \notin N
  BY Places DEF Laid, MaxSize
<1>1. \A n \in N : /\ lo[n] \in Int /\ hi[n] \in Int /\ S[n] \in Int
                   /\ 0 <= lo[n] /\ lo[n] < S[n] /\ S[n] < hi[n] /\ hi[n] <= MaxSize
  BY DEF Tree, Bounded, Laid
<1>2. Ranks \in SUBSET Nat
  BY <1>0, <1>1
<1>3. Bad = {}
  <2>. SUFFICES ASSUME Bad # {} PROVE FALSE
    OBVIOUS
  <2>1. Ranks # {}
    OBVIOUS
  <2>2. PICK r \in Ranks : \A q \in Ranks : r <= q
    BY <1>2, <2>1, LeastNatural
  <2>3. PICK n \in Bad : r = MaxSize - (hi[n] - lo[n])
    OBVIOUS
  <2>4. \A p \in Bad : MaxSize - (hi[n] - lo[n]) <= MaxSize - (hi[p] - lo[p])
    BY <2>2, <2>3
  <2>5. PICK w : TreeWord(N, w) /\ m[w] = n /\ f[w] # f[ptr_big]
    OBVIOUS
  <2>6. PICK p \in N : w \in {p + 8, p + 12}
    BY <2>5 DEF TreeWord
  <2>7. /\ w = p + 8 => lo[n] = lo[p] /\ hi[n] = S[p]
        /\ w = p + 12 => lo[n] = S[p] /\ hi[n] = hi[p]
    BY <1>0, <2>5, <2>6 DEF Tree, Branched
  <2>8. /\ lo[p] < s /\ s < hi[p] /\ S[p] # s
        /\ w = p + 8 => S[p] > s
        /\ w = p + 12 => ~(S[p] > s)
        /\ hi[p] - lo[p] > hi[n] - lo[n]
    BY <1>1, <2>6, <2>7
  <2>9. p \notin Bad
    BY <1>0, <1>1, <2>4, <2>8
  <2>10. PICK v : TreeWord(N, v) /\ m[v] = p
    BY <2>6 DEF Tree, Held, TreeWord
  <2>11. f[v] = f[w]
    <3>1. v \in DOMAIN m
      BY <2>10, TreeWordsInMemory
    <3>2. w = p + 8 \/ w = p + 12
      BY <2>6
    <3>3. p + 8 # p + 12
      BY DEF Laid
    <3>. QED  BY <2>8, <2>10, <3>1, <3>2, <3>3
  <2>12. f[v] = f[ptr_big]
    BY <2>8, <2>9, <2>10
  <2>. QED  BY <2>5, <2>11, <2>12
<1>. QED  BY <1>3

(* Hence the search for the size of a node finds the word that holds it. *)
LEMMA SlotFindsNode ==
    ASSUME NEW m, NEW S, NEW G, NEW N \in SUBSET G, Laid(m, S, G), AllBig(S, N),
           NEW lo, NEW hi, Tree(m, S, N, lo, hi), NEW w, TreeWord(N, w), m[w] \in N
    PROVE  Slot(m, S[m[w]]) = w
<1>. DEFINE s == S[m[w]]
<1>1. s \in Int /\ lo[m[w]] < s /\ s < hi[m[w]]
  BY DEF Laid, Tree, Bounded
<1>2. w \in DOMAIN m
  BY TreeWordsInMemory
<1>. HIDE DEF s
<1>3. PICK f : /\ Slot(m, s) = f[ptr_big]
               /\ \A v \in DOMAIN m : m[v] = 0 => f[v] = v
               /\ \A v \in DOMAIN m : m[v] \in N =>
                      f[v] = IF S[m[v]] = s THEN v
                             ELSE IF S[m[v]] > s THEN f[m[v] + 8] ELSE f[m[v] + 12]
  BY SearchSteps
<1>4. f[w] = f[ptr_big]
  BY <1>1, <1>3, SearchComesBy
<1>5. f[w] = w
  BY <1>2, <1>3 DEF s
<1>. QED  BY <1>3, <1>4, <1>5 DEF s

(* Every node is held by one word only, and has a size of its own. *)
LEMMA NodesApart ==
    ASSUME NEW m, NEW S, NEW G, NEW N \in SUBSET G, Laid(m, S, G), AllBig(S, N),
           NEW lo, NEW hi, Tree(m, S, N, lo, hi)
    PROVE  /\ \A n \in N : TreeWord(N, Slot(m, S[n])) /\ m[Slot(m, S[n])] = n
           /\ \A w : TreeWord(N, w) /\ m[w] \in N => w = Slot(m, S[m[w]])
           /\ \A n, k \in N : S[n] = S[k] => n = k
<1>1. ASSUME NEW n \in N
      PROVE  TreeWord(N, Slot(m, S[n])) /\ m[Slot(m, S[n])] = n
  <2>1. PICK w : TreeWord(N, w) /\ m[w] = n
    BY DEF Tree, Held, TreeWord
  <2>. QED  BY <2>1, SlotFindsNode
<1>2. \A w : TreeWord(N, w) /\ m[w] \in N => w = Slot(m, S[m[w]])
  BY SlotFindsNode
<1>3. \A n, k \in N : S[n] = S[k] => n = k
  BY <1>1
<1>. QED  BY <1>1, <1>2, <1>3

(* where a size that no node has may be inserted *)
Gap(m, S, N, lo, hi, s, w) ==
    /\ m[w] = 0
    /\ \/ w = ptr_big /\ 0 < s /\ s < MaxSize
       \/ \E p \in N : \/ w = p + 8 /\ lo[p] < s /\ s < S[p]
                       \/ w = p + 12 /\ S[p] < s /\ s < hi[p]

(* The search for a size ends at the node that has it or at the word where it
   has its place. *)
LEMMA SlotFindsPlace ==
    ASSUME NEW m, NEW S, NEW G, NEW N \in SUBSET G, Laid(m, S, G), AllBig(S, N),
           NEW lo, NEW hi, Tree(m, S, N, lo, hi), NEW s \in Int, 0 < s, s < MaxSize,
           \A n \in N : S[n] # s
    PROVE  Gap(m, S, N, lo, hi, s, Slot(m, s))
<1>1. PICK f : /\ Slot(m, s) = f[ptr_big]
               /\ \A v \in DOMAIN m : m[v] = 0 => f[v] = v
               /\ \A v \in DOMAIN m : m[v] \in N =>
                      f[v] = IF S[m[v]] = s THEN v
                             ELSE IF S[m[v]] > s THEN f[m[v] + 8] ELSE f[m[v] + 12]
  BY SearchSteps
<1>2. ptr_big \in DOMAIN m /\ MaxSize \in Nat /\ 0 \notin N
  BY Places DEF Laid, MaxSize
<1>3. CASE m[ptr_big] = 0
  BY <1>1, <1>2, <1>3 DEF Gap
<1>4. CASE m[ptr_big] # 0
  <2>. DEFINE On == {n \in N : lo[n] < s /\ s < hi[n]
                               /\ \E w : TreeWord(N, w) /\ m[w] = n /\ f[w] = f[ptr_big]}
              Ranks == {hi[n] - lo[n] : n \in On}
  <2>1. \A n \in N : /\ lo[n] \in Int /\ hi[n] \in Int /\ S[n] \in Int
                     /\ 0 <= lo[n] /\ lo[n] < S[n] /\ S[n] < hi[n] /\ hi[n] <= MaxSize
    BY DEF Tree, Bounded, Laid
  <2>2. Ranks \in SUBSET Nat
    BY <2>1
  <2>3. m[ptr_big] \in On
    BY <1>4 DEF Tree, Rooted, TreeWord
  <2>4. Ranks # {}
    BY <2>3
  <2>5. PICK r \in Ranks : \A q \in Ranks : r <= q
    BY <2>2, <2>4, LeastNatural
  <2>6. PICK n \in On : r = hi[n] - lo[n]
    OBVIOUS
  <2>7. PICK w : TreeWord(N, w) /\ m[w] = n /\ f[w] = f[ptr_big]
    OBVIOUS
  <2>. DEFINE side == IF S[n] > s THEN n + 8 ELSE n + 12
  <2>8. f[side] = f[ptr_big]
    <3>1. w \in DOMAIN m
      BY <2>7, TreeWordsInMemory
    <3>. QED  BY <1>1, <2>7, <3>1
  <2>9. TreeWord(N, side) /\ side \in DOMAIN m
    <3>1. TreeWord(N, side)
      BY DEF TreeWord
    <3>. QED  BY <3>1, TreeWordsInMemory
  <2>10. m[side] = 0
    <3>. SUFFICES ASSUME m[side] # 0 PROVE FALSE
      OBVIOUS
    <3>1. /\ m[side] \in N
          /\ S[n] > s => lo[m[side]] = lo[n] /\ hi[m[side]] = S[n]
          /\ ~(S[n] > s) => lo[m[side]] = S[n] /\ hi[m[side]] = hi[n]
      BY DEF Tree, Branched
    <3>2. lo[m[side]] < s /\ s < hi[m[side]] /\ hi[m[side]] - lo[m[side]] < hi[n] - lo[n]
      BY <2>1, <3>1
    <3>3. m[side] \in On
      BY <2>8, <2>9, <3>1, <3>2
    <3>. QED  BY <2>1, <2>5, <2>6, <3>1, <3>2, <3>3
  <2>11. f[side] = side
    BY <1>1, <2>9, <2>10
  <2>12. /\ S[n] > s => lo[n] < s /\ s < S[n]
         /\ ~(S[n] > s) => S[n] < s /\ s < hi[n]
    BY <2>1
  <2>. QED  BY <1>1, <2>8, <2>10, <2>11, <2>12 DEF Gap
<1>. QED  BY <1>3, <1>4

(* The bounds of the nodes are integers, and in order. *)
LEMMA BoundsOrder ==
    ASSUME NEW m, NEW S, NEW G, NEW N \in SUBSET G, Laid(m, S, G),
           NEW lo, NEW hi, Tree(m, S, N, lo, hi)
    PROVE  /\ MaxSize \in Nat /\ 0 \notin N /\ 0 \notin G
           /\ \A n \in N : /\ lo[n] \in Int /\ hi[n] \in Int
                           /\ 0 <= lo[n] /\ lo[n] < S[n] /\ S[n] < hi[n] /\ hi[n] <= MaxSize
           /\ \A b \in G : b \in Nat /\ b > ptr_big /\ S[b] \in Nat /\ S[b] < MaxSize
  BY Places DEF Laid, Tree, Bounded, MaxSize

(* A new leaf where the search for its size ends. *)
LEMMA LeafAdded ==
    ASSUME NEW m, NEW S, NEW G, NEW N \in SUBSET G, Laid(m, S, G), AllBig(S, N),
           NEW lo, NEW hi, Tree(m, S, N, lo, hi),
           NEW b \in G, b \notin N, Big(S[b]), \A n \in N : S[n] # S[b],
           NEW m2, m2[Slot(m, S[b])] = b, m2[b + 8] = 0, m2[b + 12] = 0,
           \A v : TreeWord(N, v) /\ v # Slot(m, S[b]) => m2[v] = m[v]
    PROVE  \E lo2, hi2 : Tree(m2, S, N \cup {b}, lo2, hi2)
<1>. DEFINE w == Slot(m, S[b])
            s == S[b]
<1>0. /\ MaxSize \in Nat /\ 0 \notin N /\ 0 \notin G
      /\ \A n \in N : /\ lo[n] \in Int /\ hi[n] \in Int
                      /\ 0 <= lo[n] /\ lo[n] < S[n] /\ S[n] < hi[n] /\ hi[n] <= MaxSize
      /\ \A c \in G : c \in Nat /\ c > ptr_big /\ S[c] \in Nat /\ S[c] < MaxSize
  BY BoundsOrder
<1>1. s \in Int /\ 0 < s /\ s < MaxSize
  BY <1>0, Places DEF Big
<1>2. Gap(m, S, N, lo, hi, s, w)
  <2>. HIDE DEF w
  <2>1. \A n \in N : S[n] # s
    OBVIOUS
  <2>. HIDE DEF s
  <2>2. Gap(m, S, N, lo, hi, s, Slot(m, s))
    BY <1>1, <2>1, SlotFindsPlace
  <2>. QED  BY <2>2 DEF w, s
<1>3. m[w] = 0 /\ m2[w] = b
  BY <1>2 DEF Gap
<1>4. \A v : TreeWord(N, v) /\ v # w => m2[v] = m[v]
  OBVIOUS
<1>5. PICK l \in Int, h \in Int :
         /\ 0 <= l /\ l < s /\ s < h /\ h <= MaxSize
         /\ \/ w = ptr_big /\ l = 0 /\ h = MaxSize
            \/ \E p \in N : \/ w = p + 8 /\ l = lo[p] /\ h = S[p]
                            \/ w = p + 12 /\ l = S[p] /\ h = hi[p]
  <2>1. CASE w = ptr_big
    BY <1>0, <1>1, <2>1
  <2>2. ASSUME NEW p \in N, w = p + 8 /\ lo[p] < s /\ s < S[p]
        PROVE  \E l \in Int, h \in Int :
                 /\ 0 <= l /\ l < s /\ s < h /\ h <= MaxSize
                 /\ \E q \in N : w = q + 8 /\ l = lo[q] /\ h = S[q]
    BY <1>0, <2>2
  <2>3. ASSUME NEW p \in N, w = p + 12 /\ S[p] < s /\ s < hi[p]
        PROVE  \E l \in Int, h \in Int :
                 /\ 0 <= l /\ l < s /\ s < h /\ h <= MaxSize
                 /\ \E q \in N : w = q + 12 /\ l = S[q] /\ h = hi[q]
    BY <1>0, <2>3
  <2>. QED  BY <1>2, <2>1, <2>2, <2>3 DEF Gap
<1>. DEFINE lo2 == [n \in N \cup {b} |-> IF n = b THEN l ELSE lo[n]]
            hi2 == [n \in N \cup {b} |-> IF n = b THEN h ELSE hi[n]]
<1>6. /\ lo2[b] = l /\ hi2[b] = h
      /\ \A n \in N : lo2[n] = lo[n] /\ hi2[n] = hi[n]
      /\ lo2 \in [N \cup {b} -> Int] /\ hi2 \in [N \cup {b} -> Int]
  BY <1>0
<1>. HIDE DEF lo2, hi2
<1>7. Bounded(S, N \cup {b}, lo2, hi2)
  BY <1>0, <1>5, <1>6 DEF Bounded
<1>8. TreeWord(N, w)
  BY <1>5 DEF TreeWord
<1>. HIDE DEF w
<1>9. Rooted(m2, N \cup {b}, lo2, hi2)
  <2>1. CASE w = ptr_big
    <3>1. \A p \in N : w # p + 8 /\ w # p + 12
      BY <1>0, <2>1, Places
    <3>. QED  BY <1>3, <1>5, <1>6, <2>1, <3>1 DEF Rooted
  <2>2. CASE w # ptr_big
    BY <1>4, <1>6, <2>2 DEF Tree, Rooted, TreeWord
  <2>. QED  BY <2>1, <2>2
<1>10. ASSUME NEW n \in N \cup {b}
       PROVE  /\ m2[n + 8] \in N \cup {b} \cup {0} /\ m2[n + 12] \in N \cup {b} \cup {0}
              /\ m2[n + 8] # 0 => lo2[m2[n + 8]] = lo2[n] /\ hi2[m2[n + 8]] = S[n]
              /\ m2[n + 12] # 0 => lo2[m2[n + 12]] = S[n] /\ hi2[m2[n + 12]] = hi2[n]
  <2>1. CASE n = b
    BY <2>1
  <2>2. CASE n \in N
    <3>1. \A p \in N : p # n => p + 8 # n + 8 /\ p + 8 # n + 12 /\ p + 12 # n + 8 /\ p + 12 # n + 12
      BY LinksApart DEF AllBig
    <3>2. n + 8 # n + 12 /\ n + 8 # ptr_big /\ n + 12 # ptr_big
      BY <1>0, Places
    <3>3. TreeWord(N, n + 8) /\ TreeWord(N, n + 12)
      BY <2>2 DEF TreeWord
    <3>4. CASE w = n + 8
      <4>1. l = lo[n] /\ h = S[n]
        BY <1>5, <2>2, <3>1, <3>2, <3>4
      <4>2. m2[n + 12] = m[n + 12]
        BY <1>4, <3>2, <3>3, <3>4
      <4>. QED  BY <1>3, <1>6, <2>2, <3>4, <4>1, <4>2 DEF Tree, Branched
    <3>5. CASE w = n + 12
      <4>1. l = S[n] /\ h = hi[n]
        BY <1>5, <2>2, <3>1, <3>2, <3>5
      <4>2. m2[n + 8] = m[n + 8]
        BY <1>4, <3>2, <3>3, <3>5
      <4>. QED  BY <1>3, <1>6, <2>2, <3>5, <4>1, <4>2 DEF Tree, Branched
    <3>6. CASE w # n + 8 /\ w # n + 12
      <4>1. m2[n + 8] = m[n + 8] /\ m2[n + 12] = m[n + 12]
        BY <1>4, <3>3, <3>6
      <4>. QED  BY <1>6, <2>2, <4>1 DEF Tree, Branched
    <3>. QED  BY <3>4, <3>5, <3>6
  <2>. QED  BY <2>1, <2>2
<1>11. Branched(m2, S, N \cup {b}, lo2, hi2)
  BY <1>10 DEF Branched
<1>12. Held(m2, N \cup {b})
  <2>1. m2[ptr_big] = b \/ \E p \in N : m2[p + 8] = b \/ m2[p + 12] = b
    BY <1>3, <1>8 DEF TreeWord
  <2>2. \A v : TreeWord(N, v) /\ m[v] # 0 => m2[v] = m[v]
    BY <1>3, <1>4
  <2>3. \A n \in N : m2[ptr_big] = n \/ \E p \in N : m2[p + 8] = n \/ m2[p + 12] = n
    BY <1>0, <2>2 DEF Tree, Held, TreeWord
  <2>. QED  BY <2>1, <2>3 DEF Held
<1>. QED  BY <1>7, <1>9, <1>11, <1>12 DEF Tree

(* The bounds of the others when one size in them becomes another. *)
Renamed(f, N, s, t) == [n \in N |-> IF f[n] = s THEN t ELSE f[n]]

(* the words of a tree but one hold what they held *)
TreeKept(m, m2, N, w) == \A v : TreeWord(N, v) /\ v # w => m2[v] = m[v]

(* A node that lacks a child is replaced by the other one. *)
LEMMA NodeSpliced ==
    ASSUME NEW m, NEW S, NEW G, NEW N \in SUBSET G, Laid(m, S, G), AllBig(S, N),
           NEW lo, NEW hi, Tree(m, S, N, lo, hi),
           NEW d \in N, NEW c, \/ m[d + 8] = 0 /\ c = m[d + 12]
                               \/ m[d + 12] = 0 /\ c = m[d + 8],
           NEW m2, m2[Slot(m, S[d])] = c, TreeKept(m, m2, N, Slot(m, S[d]))
    PROVE  Tree(m2, S, N \ {d}, Renamed(lo, N \ {d}, S[d], lo[d]), Renamed(hi, N \ {d}, S[d], hi[d]))
<1>. DEFINE w == Slot(m, S[d])
            R == N \ {d}
            lo2 == Renamed(lo, R, S[d], lo[d])
            hi2 == Renamed(hi, R, S[d], hi[d])
<1>0. /\ MaxSize \in Nat /\ 0 \notin N /\ 0 \notin G
      /\ \A n \in N : /\ lo[n] \in Int /\ hi[n] \in Int
                      /\ 0 <= lo[n] /\ lo[n] < S[n] /\ S[n] < hi[n] /\ hi[n] <= MaxSize
      /\ \A k \in G : k \in Nat /\ k > ptr_big /\ S[k] \in Nat /\ S[k] < MaxSize
  BY BoundsOrder
<1>1. TreeWord(N, w) /\ m[w] = d
  BY NodesApart
<1>2. \A v : TreeWord(N, v) /\ v # w => m2[v] = m[v] /\ m[v] # d
  <2>1. \A v : TreeWord(N, v) /\ m[v] = d => v = w
    BY NodesApart
  <2>. QED  BY <2>1 DEF TreeKept
<1>3. m2[w] = c
  OBVIOUS
<1>4. \A n \in R : S[n] # S[d]
  BY NodesApart
<1>5. /\ \A n \in R : /\ lo2[n] = IF lo[n] = S[d] THEN lo[d] ELSE lo[n]
                      /\ hi2[n] = IF hi[n] = S[d] THEN hi[d] ELSE hi[n]
      /\ lo2 \in [R -> Int] /\ hi2 \in [R -> Int]
  BY <1>0 DEF Renamed
<1>. HIDE DEF lo2, hi2, w
<1>6. c \in R \cup {0}
  <2>1. m[d + 8] # d /\ m[d + 12] # d
    BY <1>0 DEF Tree, Branched
  <2>. QED  BY <2>1 DEF Tree, Branched
<1>7. c # 0 => lo2[c] = lo[d] /\ hi2[c] = hi[d]
  <2>1. c # 0 => \/ lo[c] = S[d] /\ hi[c] = hi[d]
                 \/ lo[c] = lo[d] /\ hi[c] = S[d]
    BY DEF Tree, Branched
  <2>. QED  BY <1>0, <1>5, <1>6, <2>1
<1>8. w # d + 8 /\ w # d + 12
  BY <1>0, <1>1 DEF Tree, Branched
<1>9. Bounded(S, R, lo2, hi2)
  BY <1>0, <1>4, <1>5 DEF Bounded
<1>10. Rooted(m2, R, lo2, hi2)
  <2>1. CASE w = ptr_big
    <3>1. lo[d] = 0 /\ hi[d] = MaxSize
      BY <1>0, <1>1, <2>1 DEF Tree, Rooted
    <3>. QED  BY <1>3, <1>6, <1>7, <2>1, <3>1 DEF Rooted
  <2>2. CASE w # ptr_big
    <3>1. m2[ptr_big] = m[ptr_big] /\ m[ptr_big] # d
      BY <1>2, <2>2 DEF TreeWord
    <3>2. m[ptr_big] \in R \cup {0} /\ (m[ptr_big] # 0 => lo[m[ptr_big]] = 0 /\ hi[m[ptr_big]] = MaxSize)
      BY <3>1 DEF Tree, Rooted
    <3>3. S[d] # 0 /\ S[d] # MaxSize
      BY <1>0
    <3>. QED  BY <1>5, <3>1, <3>2, <3>3 DEF Rooted
  <2>. QED  BY <2>1, <2>2
<1>11. ASSUME NEW n \in R
       PROVE  /\ m2[n + 8] \in R \cup {0}
              /\ m2[n + 8] # 0 => lo2[m2[n + 8]] = lo2[n] /\ hi2[m2[n + 8]] = S[n]
  <2>1. TreeWord(N, n + 8)
    BY DEF TreeWord
  <2>2. CASE w = n + 8
    <3>1. lo[d] = lo[n] /\ hi[d] = S[n]
      BY <1>0, <1>1, <2>2 DEF Tree, Branched
    <3>2. lo2[n] = lo[d]
      BY <1>0, <1>5, <3>1
    <3>. QED  BY <1>3, <1>6, <1>7, <2>2, <3>1, <3>2
  <2>3. CASE w # n + 8
    <3>1. m2[n + 8] = m[n + 8] /\ m[n + 8] # d
      BY <1>2, <2>1, <2>3
    <3>2. m[n + 8] \in R \cup {0} /\ (m[n + 8] # 0 => lo[m[n + 8]] = lo[n] /\ hi[m[n + 8]] = S[n])
      BY <3>1 DEF Tree, Branched
    <3>. QED  BY <1>4, <1>5, <3>1, <3>2
  <2>. QED  BY <2>2, <2>3
<1>12. ASSUME NEW n \in R
       PROVE  /\ m2[n + 12] \in R \cup {0}
              /\ m2[n + 12] # 0 => lo2[m2[n + 12]] = S[n] /\ hi2[m2[n + 12]] = hi2[n]
  <2>1. TreeWord(N, n + 12)
    BY DEF TreeWord
  <2>2. CASE w = n + 12
    <3>1. lo[d] = S[n] /\ hi[d] = hi[n]
      BY <1>0, <1>1, <2>2 DEF Tree, Branched
    <3>2. hi2[n] = hi[d]
      BY <1>0, <1>5, <3>1
    <3>. QED  BY <1>3, <1>6, <1>7, <2>2, <3>1, <3>2
  <2>3. CASE w # n + 12
    <3>1. m2[n + 12] = m[n + 12] /\ m[n + 12] # d
      BY <1>2, <2>1, <2>3
    <3>2. m[n + 12] \in R \cup {0} /\ (m[n + 12] # 0 => lo[m[n + 12]] = S[n] /\ hi[m[n + 12]] = hi[n])
      BY <3>1 DEF Tree, Branched
    <3>. QED  BY <1>4, <1>5, <3>1, <3>2
  <2>. QED  BY <2>2, <2>3
<1>13. ASSUME NEW n \in R
       PROVE  m2[ptr_big] = n \/ \E p \in R : m2[p + 8] = n \/ m2[p + 12] = n
  <2>1. PICK v : TreeWord(N, v) /\ m[v] = n
    BY DEF Tree, Held, TreeWord
  <2>2. CASE v \in {d + 8, d + 12}
    <3>1. n = c
      BY <1>0, <2>1, <2>2
    <3>. QED  BY <1>1, <1>3, <1>8, <3>1 DEF TreeWord
  <2>3. CASE v \notin {d + 8, d + 12}
    <3>1. v # w /\ m2[v] = n
      BY <1>1, <1>2, <2>1
    <3>. QED  BY <2>1, <2>3, <3>1 DEF TreeWord
  <2>. QED  BY <2>2, <2>3
<1>14. Branched(m2, S, R, lo2, hi2) /\ Held(m2, R)
  BY <1>11, <1>12, <1>13 DEF Branched, Held
<1>. QED  BY <1>9, <1>10, <1>14 DEF Tree, lo2, hi2

(* a size fits between what is below a node on either side *)
Parts(S, N, lo, hi, d, s) ==
    \A n \in N \ {d} : (hi[n] = S[d] => S[n] < s) /\ (lo[n] = S[d] => S[n] > s)

(* One node takes the place of another: its size fits between what is below it
   on either side. *)
LEMMA NodeReplaced ==
    ASSUME NEW m, NEW S, NEW G, NEW N \in SUBSET G, Laid(m, S, G), AllBig(S, N),
           NEW lo, NEW hi, Tree(m, S, N, lo, hi),
           NEW d \in N, NEW b \in G, b \notin N, Big(S[b]), lo[d] < S[b], S[b] < hi[d],
           Parts(S, N, lo, hi, d, S[b]),
           NEW m2, m2[Slot(m, S[d])] = b, m2[b + 8] = m[d + 8], m2[b + 12] = m[d + 12],
           TreeKept(m, m2, N \ {d}, Slot(m, S[d]))
    PROVE  \E lo2, hi2 : Tree(m2, S, (N \ {d}) \cup {b}, lo2, hi2)
<1>. DEFINE w == Slot(m, S[d])
            R == N \ {d}
            N2 == R \cup {b}
            lo2 == [n \in N2 |-> IF n = b THEN lo[d] ELSE Renamed(lo, R, S[d], S[b])[n]]
            hi2 == [n \in N2 |-> IF n = b THEN hi[d] ELSE Renamed(hi, R, S[d], S[b])[n]]
<1>0. /\ MaxSize \in Nat /\ 0 \notin N /\ 0 \notin G
      /\ \A n \in N : /\ lo[n] \in Int /\ hi[n] \in Int
                      /\ 0 <= lo[n] /\ lo[n] < S[n] /\ S[n] < hi[n] /\ hi[n] <= MaxSize
      /\ \A k \in G : k \in Nat /\ k > ptr_big /\ S[k] \in Nat /\ S[k] < MaxSize
  BY BoundsOrder
<1>1. TreeWord(N, w) /\ m[w] = d
  BY NodesApart
<1>2. \A v : TreeWord(N, v) /\ v # w => m[v] # d
  BY NodesApart
<1>3. m2[w] = b
  OBVIOUS
<1>4. \A n \in R : S[n] # S[d]
  BY NodesApart
<1>5. /\ lo2[b] = lo[d] /\ hi2[b] = hi[d]
      /\ \A n \in R : /\ lo2[n] = IF lo[n] = S[d] THEN S[b] ELSE lo[n]
                      /\ hi2[n] = IF hi[n] = S[d] THEN S[b] ELSE hi[n]
      /\ lo2 \in [N2 -> Int] /\ hi2 \in [N2 -> Int]
  BY <1>0 DEF Renamed
<1>6. \A v : TreeWord(R, v) /\ v # w => m2[v] = m[v]
  BY DEF TreeKept
<1>. HIDE DEF lo2, hi2, w
<1>7. w # d + 8 /\ w # d + 12
  BY <1>0, <1>1 DEF Tree, Branched
<1>8. TreeWord(R, w)
  BY <1>1, <1>7 DEF TreeWord
<1>9. Bounded(S, N2, lo2, hi2)
  <2>1. 0 <= lo2[b] /\ lo2[b] < S[b] /\ S[b] < hi2[b] /\ hi2[b] <= MaxSize
    BY <1>0, <1>5
  <2>2. ASSUME NEW n \in R
        PROVE  0 <= lo2[n] /\ lo2[n] < S[n] /\ S[n] < hi2[n] /\ hi2[n] <= MaxSize
    <3>1. lo2[n] = lo[n] \/ (lo2[n] = S[b] /\ lo[n] = S[d])
      BY <1>5
    <3>2. hi2[n] = hi[n] \/ (hi2[n] = S[b] /\ hi[n] = S[d])
      BY <1>5
    <3>. QED  BY <1>0, <3>1, <3>2 DEF Parts
  <2>. QED  BY <1>5, <2>1, <2>2 DEF Bounded
<1>10. Rooted(m2, N2, lo2, hi2)
  <2>1. CASE w = ptr_big
    <3>1. lo[d] = 0 /\ hi[d] = MaxSize
      BY <1>0, <1>1, <2>1 DEF Tree, Rooted
    <3>. QED  BY <1>3, <1>5, <2>1, <3>1 DEF Rooted
  <2>2. CASE w # ptr_big
    <3>1. m2[ptr_big] = m[ptr_big] /\ m[ptr_big] # d
      BY <1>2, <1>6, <2>2 DEF TreeWord
    <3>2. m[ptr_big] \in R \cup {0} /\ (m[ptr_big] # 0 => lo[m[ptr_big]] = 0 /\ hi[m[ptr_big]] = MaxSize)
      BY <3>1 DEF Tree, Rooted
    <3>3. S[d] # 0 /\ S[d] # MaxSize
      BY <1>0
    <3>. QED  BY <1>5, <3>1, <3>2, <3>3 DEF Rooted
  <2>. QED  BY <2>1, <2>2
<1>11. ASSUME NEW n \in R
       PROVE  /\ m2[n + 8] \in N2 \cup {0}
              /\ m2[n + 8] # 0 => lo2[m2[n + 8]] = lo2[n] /\ hi2[m2[n + 8]] = S[n]
  <2>1. TreeWord(R, n + 8) /\ TreeWord(N, n + 8)
    BY DEF TreeWord
  <2>2. CASE w = n + 8
    <3>1. lo[d] = lo[n] /\ hi[d] = S[n]
      BY <1>0, <1>1, <2>2 DEF Tree, Branched
    <3>2. lo2[n] = lo[d]
      BY <1>0, <1>5, <3>1
    <3>. QED  BY <1>3, <1>5, <2>2, <3>1, <3>2
  <2>3. CASE w # n + 8
    <3>1. m2[n + 8] = m[n + 8] /\ m[n + 8] # d
      BY <1>2, <1>6, <2>1, <2>3
    <3>2. m[n + 8] \in R \cup {0} /\ (m[n + 8] # 0 => lo[m[n + 8]] = lo[n] /\ hi[m[n + 8]] = S[n])
      BY <3>1 DEF Tree, Branched
    <3>. QED  BY <1>4, <1>5, <3>1, <3>2
  <2>. QED  BY <2>2, <2>3
<1>12. ASSUME NEW n \in R
       PROVE  /\ m2[n + 12] \in N2 \cup {0}
              /\ m2[n + 12] # 0 => lo2[m2[n + 12]] = S[n] /\ hi2[m2[n + 12]] = hi2[n]
  <2>1. TreeWord(R, n + 12) /\ TreeWord(N, n + 12)
    BY DEF TreeWord
  <2>2. CASE w = n + 12
    <3>1. lo[d] = S[n] /\ hi[d] = hi[n]
      BY <1>0, <1>1, <2>2 DEF Tree, Branched
    <3>2. hi2[n] = hi[d]
      BY <1>0, <1>5, <3>1
    <3>. QED  BY <1>3, <1>5, <2>2, <3>1, <3>2
  <2>3. CASE w # n + 12
    <3>1. m2[n + 12] = m[n + 12] /\ m[n + 12] # d
      BY <1>2, <1>6, <2>1, <2>3
    <3>2. m[n + 12] \in R \cup {0} /\ (m[n + 12] # 0 => lo[m[n + 12]] = S[n] /\ hi[m[n + 12]] = hi[n])
      BY <3>1 DEF Tree, Branched
    <3>. QED  BY <1>4, <1>5, <3>1, <3>2
  <2>. QED  BY <2>2, <2>3
<1>13. /\ m2[b + 8] \in N2 \cup {0} /\ m2[b + 12] \in N2 \cup {0}
       /\ m2[b + 8] # 0 => lo2[m2[b + 8]] = lo2[b] /\ hi2[m2[b + 8]] = S[b]
       /\ m2[b + 12] # 0 => lo2[m2[b + 12]] = S[b] /\ hi2[m2[b + 12]] = hi2[b]
  <2>1. m[d + 8] # d /\ m[d + 12] # d
    BY <1>0 DEF Tree, Branched
  <2>2. m[d + 8] \in R \cup {0} /\ (m[d + 8] # 0 => lo[m[d + 8]] = lo[d] /\ hi[m[d + 8]] = S[d])
    BY <2>1 DEF Tree, Branched
  <2>3. m[d + 12] \in R \cup {0} /\ (m[d + 12] # 0 => lo[m[d + 12]] = S[d] /\ hi[m[d + 12]] = hi[d])
    BY <2>1 DEF Tree, Branched
  <2>. QED  BY <1>0, <1>5, <2>2, <2>3
<1>14. ASSUME NEW n \in R
       PROVE  m2[ptr_big] = n \/ \E p \in N2 : m2[p + 8] = n \/ m2[p + 12] = n
  <2>1. PICK v : TreeWord(N, v) /\ m[v] = n
    BY DEF Tree, Held, TreeWord
  <2>2. CASE v \in {d + 8, d + 12}
    BY <2>1, <2>2
  <2>3. CASE v \notin {d + 8, d + 12}
    <3>1. TreeWord(R, v)
      BY <2>1, <2>3 DEF TreeWord
    <3>2. m2[v] = n
      BY <1>1, <1>6, <2>1, <3>1
    <3>. QED  BY <3>1, <3>2 DEF TreeWord
  <2>. QED  BY <2>2, <2>3
<1>15. m2[ptr_big] = b \/ \E p \in N2 : m2[p + 8] = b \/ m2[p + 12] = b
  BY <1>3, <1>8 DEF TreeWord
<1>16. Branched(m2, S, N2, lo2, hi2) /\ Held(m2, N2)
  BY <1>11, <1>12, <1>13, <1>14, <1>15 DEF Branched, Held
<1>. QED  BY <1>9, <1>10, <1>16 DEF Tree

(* find_biggest goes from node to node. *)
LEMMA BiggestSteps ==
    ASSUME NEW m
    PROVE  \E f : /\ \A node : find_biggest(m, node) = f[node]
                  /\ \A b \in DOMAIN m : f[b] = IF m[b + 12] \in DOMAIN m THEN f[m[b + 12]] ELSE b
<1>. DEFINE stop == {b \in DOMAIN m : m[b + 12] \notin DOMAIN m}
            next == [b \in DOMAIN m \ stop |-> m[b + 12]]
            P(f) == f = [b \in DOMAIN m |-> IF m[b + 12] \in DOMAIN m THEN f[m[b + 12]] ELSE b]
            g == CHOOSE f : P(f)
<1>1. \E f : P(f)
  <2>0. stop \in SUBSET DOMAIN m /\ next \in [DOMAIN m \ stop -> DOMAIN m]
    OBVIOUS
  <2>1. PICK f : Walks(f, DOMAIN m, stop, next)
    <3>. HIDE DEF stop, next
    <3>. QED  BY <2>0, WalkingExists
  <2>2. \A x \in DOMAIN m : (IF x \in stop THEN x ELSE f[next[x]])
            = IF m[x + 12] \in DOMAIN m THEN f[m[x + 12]] ELSE x
    OBVIOUS
  <2>3. P(f)
    BY <2>1, <2>2 DEF Walks
  <2>. QED  BY <2>3
<1>2. P(g)
  <2>. HIDE DEF P
  <2>. QED  BY <1>1
<1>3. \A b : PTR_RIGHT_PTR(b) = b + 12
  BY Places DEF PTR_RIGHT_PTR
<1>4. \A node : find_biggest(m, node) = g[node]
  BY <1>3 DEF find_biggest
<1>. HIDE DEF g
<1>. QED  BY <1>2, <1>4

(* It finds the node below n, or n itself, that has no right child, and no
   node below n is larger. *)
LEMMA BiggestIs ==
    ASSUME NEW m, NEW S, NEW G, NEW N \in SUBSET G, Laid(m, S, G), AllBig(S, N),
           NEW lo, NEW hi, Tree(m, S, N, lo, hi), NEW n \in N
    PROVE  LET x == find_biggest(m, n)
           IN  /\ x \in N /\ m[x + 12] = 0 /\ hi[x] = hi[n] /\ lo[n] <= lo[x] /\ S[n] <= S[x]
               /\ \A k \in N : lo[n] < S[k] /\ S[k] < hi[n] => S[k] <= S[x]
<1>0. /\ MaxSize \in Nat /\ 0 \notin N /\ 0 \notin G
      /\ \A k \in N : /\ lo[k] \in Int /\ hi[k] \in Int
                      /\ 0 <= lo[k] /\ lo[k] < S[k] /\ S[k] < hi[k] /\ hi[k] <= MaxSize
      /\ \A k \in G : k \in Nat /\ k > ptr_big /\ S[k] \in Nat /\ S[k] < MaxSize
  BY BoundsOrder
<1>1. PICK f : /\ \A node : find_biggest(m, node) = f[node]
               /\ \A b \in DOMAIN m : f[b] = IF m[b + 12] \in DOMAIN m THEN f[m[b + 12]] ELSE b
  BY BiggestSteps
<1>. DEFINE Good(k) == f[k] \in N /\ m[f[k] + 12] = 0 /\ hi[f[k]] = hi[k] /\ lo[k] <= lo[f[k]]
                       /\ S[k] <= S[f[k]]
            Bad == {k \in N : ~Good(k)}
            Ranks == {hi[k] - lo[k] : k \in Bad}
<1>2. Bad = {}
  <2>. SUFFICES ASSUME Bad # {} PROVE FALSE
    OBVIOUS
  <2>1. Ranks \in SUBSET Nat /\ Ranks # {}
    BY <1>0
  <2>2. PICK r \in Ranks : \A q \in Ranks : r <= q
    BY <2>1, LeastNatural
  <2>3. PICK k \in Bad : r = hi[k] - lo[k]
    OBVIOUS
  <2>4. k \in DOMAIN m /\ 0 \notin DOMAIN m /\ N \subseteq DOMAIN m
    BY DEF Laid
  <2>5. CASE m[k + 12] = 0
    BY <1>0, <1>1, <2>4, <2>5
  <2>6. CASE m[k + 12] # 0
    <3>1. m[k + 12] \in N /\ lo[m[k + 12]] = S[k] /\ hi[m[k + 12]] = hi[k]
      BY <2>6 DEF Tree, Branched
    <3>2. m[k + 12] \notin Bad
      <4>1. \A q \in Bad : hi[k] - lo[k] <= hi[q] - lo[q]
        BY <2>2, <2>3
      <4>. QED  BY <1>0, <3>1, <4>1
    <3>3. f[k] = f[m[k + 12]]
      BY <1>1, <2>4, <3>1
    <3>. QED  BY <1>0, <3>1, <3>2, <3>3
  <2>. QED  BY <2>5, <2>6
<1>. DEFINE x == find_biggest(m, n)
<1>3. x \in N /\ m[x + 12] = 0 /\ hi[x] = hi[n] /\ lo[n] <= lo[x] /\ S[n] <= S[x]
  BY <1>1, <1>2
<1>. HIDE DEF x
<1>4. ASSUME NEW k \in N, lo[n] < S[k], S[k] < hi[n], S[k] > S[x]
      PROVE  FALSE
  <2>. DEFINE s == S[k]
  <2>1. s \in Int /\ lo[x] < s /\ s < hi[x]
    BY <1>0, <1>3, <1>4
  <2>2. ~(S[x] > s) /\ S[x] # s
    BY <1>0, <1>3, <1>4
  <2>. HIDE DEF s
  <2>3. PICK g : /\ Slot(m, s) = g[ptr_big]
                 /\ \A v \in DOMAIN m : m[v] = 0 => g[v] = v
                 /\ \A v \in DOMAIN m : m[v] \in N =>
                        g[v] = IF S[m[v]] = s THEN v
                               ELSE IF S[m[v]] > s THEN g[m[v] + 8] ELSE g[m[v] + 12]
    BY SearchSteps
  <2>4. PICK w : TreeWord(N, w) /\ m[w] = x
    BY <1>3, NodesApart
  <2>5. g[w] = g[ptr_big]
    BY <1>3, <2>1, <2>3, <2>4, SearchComesBy
  <2>6. w \in DOMAIN m /\ x + 12 \in DOMAIN m
    <3>1. TreeWord(N, x + 12)
      BY <1>3 DEF TreeWord
    <3>. QED  BY <2>4, <3>1, TreeWordsInMemory
  <2>7. g[w] = x + 12
    BY <1>3, <2>2, <2>3, <2>4, <2>6
  <2>8. m[Slot(m, s)] = k
    BY NodesApart DEF s
  <2>. QED  BY <1>0, <1>3, <2>3, <2>5, <2>7, <2>8
<1>5. \A k \in N : lo[n] < S[k] /\ S[k] < hi[n] => S[k] <= S[x]
  BY <1>0, <1>3, <1>4
<1>. QED  BY <1>3, <1>5 DEF x

-----------------------------------------------------------------------------
(* Lists and tree together.                                                 *)

(* the first block of each larger size is a node *)
Nodes(m, S, F) == {b \in F : Big(S[b]) /\ m[b + 4] = 0}

(* the blocks of F are listed, by small sizes and in the tree *)
Listed(m, S, F) ==
    /\ Chained(m, S, F) /\ Headed(m, S, F)
    /\ \E pos, n : Ordered(m, F, pos, n)
    /\ \E lo, hi : Tree(m, S, Nodes(m, S, F), lo, hi)

(* the words of a block that link it when it is listed *)
OwnLinks(S, b) == {b, b + 4} \cup (IF Big(S[b]) THEN {b + 8, b + 12} ELSE {})

(* only the heads of the lists and the links of listed blocks may differ *)
Framed(m, m2, S, F) ==
    /\ DOMAIN m2 = DOMAIN m
    /\ \A w \in DOMAIN m : w > ptr_big /\ (\A b \in F : w \notin OwnLinks(S, b)) => m2[w] = m[w]

(* What is framed leaves the blocks where they are. *)
LEMMA FramedLaid ==
    ASSUME NEW m, NEW S, NEW G, NEW F \in SUBSET G, Laid(m, S, G), NEW m2, Framed(m, m2, S, F)
    PROVE  Laid(m2, S, G) /\ \A b \in G : m2[b - 4] = m[b - 4]
<1>1. ASSUME NEW b \in G PROVE m2[b - 4] = m[b - 4]
  <2>1. b - 4 \in DOMAIN m /\ b - 4 > ptr_big /\ b \in Nat
    BY LinksHigh DEF Laid
  <2>2. ASSUME NEW c \in F PROVE b - 4 \notin OwnLinks(S, c)
    <3>1. c \in Nat
      BY DEF Laid
    <3>2. CASE c = b
      BY <2>1, <3>2 DEF OwnLinks
    <3>3. CASE c # b
      <4>1. /\ b - 4 # c /\ b - 4 # c + 4
            /\ Big(S[c]) => c + 8 # b - 4 /\ c + 12 # b - 4
        BY <3>3, LinksApart
      <4>. QED  BY <2>1, <3>1, <4>1 DEF OwnLinks
    <3>. QED  BY <3>2, <3>3
  <2>. QED  BY <2>1, <2>2 DEF Framed
<1>2. DOMAIN m2 = DOMAIN m
  BY DEF Framed
<1>. QED  BY <1>1, <1>2, LaidStays

(* The tree stays when its words do. *)
LEMMA TreeSame ==
    ASSUME NEW m, NEW S, NEW N, NEW lo, NEW hi, Tree(m, S, N, lo, hi),
           NEW m2, \A v : TreeWord(N, v) => m2[v] = m[v]
    PROVE  Tree(m2, S, N, lo, hi)
  BY DEF Tree, TreeWord, Rooted, Branched, Held

(* Which words of the lists a word of the tree can be: none. *)
LEMMA TreeWordsElsewhere ==
    ASSUME NEW m, NEW S, NEW G, NEW F \in SUBSET G, Laid(m, S, G)
    PROVE  \A v : TreeWord(Nodes(m, S, F), v) =>
               /\ v \in DOMAIN m
               /\ \A b \in G : v # b /\ v # b + 4
               /\ \A b \in G : b \notin Nodes(m, S, F) /\ Big(S[b]) => v # b + 8 /\ v # b + 12
               /\ \A s : IsSmall(s) => v # PTR_LIST(s)
<1>. DEFINE N == Nodes(m, S, F)
<1>1. N \in SUBSET G /\ AllBig(S, N)
  BY DEF Nodes, AllBig
<1>. HIDE DEF N
<1>2. ptr_big \in Nat
  BY Places
<1>3. ASSUME NEW v, TreeWord(N, v), NEW b \in G
      PROVE  v # b /\ v # b + 4 /\ (b \notin N /\ Big(S[b]) => v # b + 8 /\ v # b + 12)
  <2>1. CASE v = ptr_big
    BY <1>2, <2>1, LinksHigh
  <2>2. ASSUME NEW p \in N, v \in {p + 8, p + 12}
        PROVE  v # b /\ v # b + 4 /\ (b \notin N /\ Big(S[b]) => v # b + 8 /\ v # b + 12)
    <3>1. p \in Nat /\ b \in Nat
      BY <1>1 DEF Laid
    <3>2. CASE p = b
      BY <2>2, <3>1, <3>2
    <3>3. CASE p # b
      <4>1. /\ Big(S[p]) => p + 8 # b /\ p + 8 # b + 4 /\ p + 12 # b /\ p + 12 # b + 4
            /\ Big(S[p]) /\ Big(S[b]) => /\ p + 8 # b + 8 /\ p + 8 # b + 12
                                         /\ p + 12 # b + 8 /\ p + 12 # b + 12
        BY <1>1, <3>3, LinksApart
      <4>2. Big(S[p])
        BY <1>1 DEF AllBig
      <4>. QED  BY <2>2, <3>1, <4>1, <4>2
    <3>. QED  BY <3>2, <3>3
  <2>. QED  BY <1>3, <2>1, <2>2 DEF TreeWord
<1>4. \A v : TreeWord(N, v) => v \in DOMAIN m
  BY <1>1, TreeWordsInMemory
<1>5. ASSUME NEW v, TreeWord(N, v), NEW s, IsSmall(s)
      PROVE  v # PTR_LIST(s)
  <2>1. PTR_LIST(s) < ptr_big /\ PTR_LIST(s) \in Nat
    BY <1>5, ListWords DEF IsSmall
  <2>2. \A p \in N : p + 8 > ptr_big /\ p + 12 > ptr_big /\ p \in Nat
    BY <1>1, LinksHigh
  <2>. QED  BY <1>2, <1>5, <2>1, <2>2 DEF TreeWord
<1>. QED  BY <1>3, <1>4, <1>5 DEF N

(* What distinguishes the words of listed blocks, for the lemmas below. *)
LEMMA LinkWords ==
    ASSUME NEW m, NEW S, NEW G, Laid(m, S, G)
    PROVE  /\ \A b \in G : b \in Nat /\ b # 0 /\ b # b + 4 /\ b \in DOMAIN m /\ b + 4 \in DOMAIN m
           /\ \A b, c \in G : b + 4 # c /\ (b # c => b + 4 # c + 4)
           /\ \A b \in G : \A s : IsSmall(s) => PTR_LIST(s) # b /\ PTR_LIST(s) # b + 4
           /\ \A s, t : IsSmall(s) /\ IsSmall(t) /\ s # t => PTR_LIST(s) # PTR_LIST(t)
           /\ \A b \in G : ~Big(S[b]) => IsSmall(S[b])
           /\ \A s : IsSmall(s) => ~Big(s) /\ PTR_LIST(s) \in DOMAIN m
<1>1. \A b \in G : b \in Nat /\ b # 0 /\ b # b + 4 /\ b \in DOMAIN m /\ b + 4 \in DOMAIN m
  BY LinksHigh DEF Laid
<1>2. ASSUME NEW b \in G, NEW c \in G
      PROVE  b + 4 # c /\ (b # c => b + 4 # c + 4)
  <2>1. b \in Nat /\ c \in Nat
    BY <1>1
  <2>2. CASE b = c
    BY <2>1, <2>2
  <2>3. CASE b # c
    <3>1. b % 8 = 0 /\ c % 8 = 0
      BY DEF Laid
    <3>. QED  BY <2>1, <2>3, <3>1
  <2>. QED  BY <2>2, <2>3
<1>3. ASSUME NEW b \in G, NEW s, IsSmall(s)
      PROVE  PTR_LIST(s) # b /\ PTR_LIST(s) # b + 4
  BY <1>3, LinksHigh, Places
<1>4. \A s, t : IsSmall(s) /\ IsSmall(t) /\ s # t => PTR_LIST(s) # PTR_LIST(t)
  BY ListWords DEF IsSmall
<1>5. \A b \in G : ~Big(S[b]) => IsSmall(S[b])
  BY Places DEF Laid, Big, IsSmall
<1>6. \A s : IsSmall(s) => ~Big(s) /\ PTR_LIST(s) \in DOMAIN m
  BY Places DEF IsSmall, Big, Laid
<1>. QED  BY <1>1, <1>2, <1>3, <1>4, <1>5, <1>6

-----------------------------------------------------------------------------
(* A block is listed.                                                      *)

(* A block that becomes the last one of a list. *)
LEMMA Appended ==
    ASSUME NEW m, NEW S, NEW G, NEW F \in SUBSET G, Laid(m, S, G), Listed(m, S, F),
           NEW b \in G, b \notin F, NEW last \in F, S[last] = S[b], m[last] = 0,
           NEW m2, m2[last] = b, m2[b] = 0, m2[b + 4] = last, DOMAIN m2 = DOMAIN m,
           \A w \in DOMAIN m : w \notin {last, b, b + 4} => m2[w] = m[w]
    PROVE  Listed(m2, S, F \cup {b}) /\ Framed(m, m2, S, F \cup {b})
<1>. DEFINE F2 == F \cup {b}
<1>1. /\ \A c \in G : c \in Nat /\ c # 0 /\ c # c + 4 /\ c \in DOMAIN m /\ c + 4 \in DOMAIN m
      /\ \A c, d \in G : c + 4 # d /\ (c # d => c + 4 # d + 4)
      /\ \A c \in G : \A s : IsSmall(s) => PTR_LIST(s) # c /\ PTR_LIST(s) # c + 4
      /\ \A c \in G : ~Big(S[c]) => IsSmall(S[c])
      /\ \A s : IsSmall(s) => ~Big(s) /\ PTR_LIST(s) \in DOMAIN m
  BY LinkWords
<1>2. \A c \in F : /\ c # last => m2[c] = m[c]
                   /\ m2[c + 4] = m[c + 4] /\ c # b
  BY <1>1
<1>3. Chained(m2, S, F2)
  <2>1. ASSUME NEW c \in F, c # last
        PROVE  /\ m2[c] \in F2 \cup {0} /\ m2[c + 4] \in F2 \cup {0}
               /\ m2[c] # 0 => S[m2[c]] = S[c] /\ m2[m2[c] + 4] = c
               /\ m2[c + 4] # 0 => m2[m2[c + 4]] = c
    <3>1. m[c + 4] # last
      BY <1>1, <2>1 DEF Listed, Chained
    <3>. QED  BY <1>1, <1>2, <2>1, <3>1 DEF Listed, Chained
  <2>2. /\ m2[last] \in F2 \cup {0} /\ m2[last + 4] \in F2 \cup {0}
        /\ m2[last] # 0 => S[m2[last]] = S[last] /\ m2[m2[last] + 4] = last
        /\ m2[last + 4] # 0 => m2[m2[last + 4]] = last
    <3>1. m[last + 4] # last
      BY <1>1 DEF Listed, Chained
    <3>. QED  BY <1>1, <1>2, <3>1 DEF Listed, Chained
  <2>3. /\ m2[b] \in F2 \cup {0} /\ m2[b + 4] \in F2 \cup {0}
        /\ m2[b] = 0 /\ m2[m2[b + 4]] = b
    BY <1>1
  <2>. QED  BY <2>1, <2>2, <2>3 DEF Chained
<1>4. Headed(m2, S, F2)
  <2>1. ASSUME NEW s, IsSmall(s) PROVE m2[PTR_LIST(s)] = m[PTR_LIST(s)]
    BY <1>1, <2>1
  <2>2. \A c \in F2 : m2[c + 4] = 0 => c \in F /\ m[c + 4] = 0
    BY <1>1, <1>2
  <2>. QED  BY <1>1, <1>2, <2>1, <2>2 DEF Listed, Headed
<1>5. \E pos, n : Ordered(m2, F2, pos, n)
  <2>1. PICK pos, n : Ordered(m, F, pos, n)
    BY DEF Listed
  <2>. DEFINE pos2 == [c \in F2 |-> IF c = b THEN n + 1 ELSE pos[c]]
  <2>2. n \in Nat /\ \A c \in F : pos[c] \in 0 .. n
    BY <2>1 DEF Ordered
  <2>3. pos2 \in [F2 -> 0 .. n + 1]
    BY <2>2
  <2>4. ASSUME NEW c \in F2, m2[c] # 0 PROVE pos2[c] < pos2[m2[c]]
    <3>1. CASE c = last
      BY <2>2, <3>1
    <3>2. CASE c # last
      <4>1. c \in F /\ m2[c] = m[c] /\ m[c] \in F
        BY <1>2, <2>4, <3>2 DEF Listed, Chained
      <4>2. pos[c] < pos[m[c]]
        BY <2>1, <2>4, <4>1 DEF Ordered
      <4>. QED  BY <1>2, <4>1, <4>2
    <3>. QED  BY <3>1, <3>2
  <2>5. Ordered(m2, F2, pos2, n + 1)
    <3>. HIDE DEF pos2
    <3>. QED  BY <2>2, <2>3, <2>4 DEF Ordered
  <2>. QED  BY <2>5
<1>6. Nodes(m2, S, F2) = Nodes(m, S, F)
  BY <1>1, <1>2 DEF Nodes
<1>7. \A v : TreeWord(Nodes(m, S, F), v) => m2[v] = m[v]
  BY TreeWordsElsewhere
<1>8. \E lo, hi : Tree(m2, S, Nodes(m2, S, F2), lo, hi)
  BY <1>6, <1>7, TreeSame DEF Listed
<1>9. Framed(m, m2, S, F2)
  BY DEF Framed, OwnLinks
<1>. QED  BY <1>3, <1>4, <1>5, <1>8, <1>9 DEF Listed

(* A block that becomes the only one of a list of small blocks. *)
LEMMA SmallStarted ==
    ASSUME NEW m, NEW S, NEW G, NEW F \in SUBSET G, Laid(m, S, G), Listed(m, S, F),
           NEW b \in G, b \notin F, ~Big(S[b]), m[PTR_LIST(S[b])] = 0,
           NEW m2, m2[PTR_LIST(S[b])] = b, m2[b] = 0, m2[b + 4] = 0, DOMAIN m2 = DOMAIN m,
           \A w \in DOMAIN m : w \notin {PTR_LIST(S[b]), b, b + 4} => m2[w] = m[w]
    PROVE  Listed(m2, S, F \cup {b}) /\ Framed(m, m2, S, F \cup {b})
<1>. DEFINE F2 == F \cup {b}
            head == PTR_LIST(S[b])
<1>1. /\ \A c \in G : c \in Nat /\ c # 0 /\ c # c + 4 /\ c \in DOMAIN m /\ c + 4 \in DOMAIN m
      /\ \A c, d \in G : c + 4 # d /\ (c # d => c + 4 # d + 4)
      /\ \A c \in G : \A s : IsSmall(s) => PTR_LIST(s) # c /\ PTR_LIST(s) # c + 4
      /\ \A s, t : IsSmall(s) /\ IsSmall(t) /\ s # t => PTR_LIST(s) # PTR_LIST(t)
      /\ \A c \in G : ~Big(S[c]) => IsSmall(S[c])
      /\ \A s : IsSmall(s) => ~Big(s) /\ PTR_LIST(s) \in DOMAIN m
  BY LinkWords
<1>2. \A c \in F : m2[c] = m[c] /\ m2[c + 4] = m[c + 4] /\ c # b
  BY <1>1
<1>3. Chained(m2, S, F2)
  <2>1. ASSUME NEW c \in F
        PROVE  /\ m2[c] \in F \cup {0} /\ m2[c + 4] \in F \cup {0}
               /\ m2[c] # 0 => S[m2[c]] = S[c] /\ m2[m2[c] + 4] = c
               /\ m2[c + 4] # 0 => m2[m2[c + 4]] = c
    BY <1>2 DEF Listed, Chained
  <2>. QED  BY <2>1 DEF Chained
<1>4. Headed(m2, S, F2)
  <2>1. ASSUME NEW s, IsSmall(s), s # S[b] PROVE m2[PTR_LIST(s)] = m[PTR_LIST(s)]
    BY <1>1, <2>1
  <2>2. ASSUME NEW c \in F, ~Big(S[c]), m[c + 4] = 0 PROVE S[c] # S[b]
    BY <1>1, <2>2 DEF Listed, Headed
  <2>3. ASSUME NEW s, IsSmall(s), m2[PTR_LIST(s)] # 0
        PROVE  /\ m2[PTR_LIST(s)] \in F2 /\ S[m2[PTR_LIST(s)]] = s /\ m2[m2[PTR_LIST(s)] + 4] = 0
    <3>1. CASE s = S[b]
      BY <3>1
    <3>2. CASE s # S[b]
      BY <1>2, <2>1, <2>3, <3>2 DEF Listed, Headed
    <3>. QED  BY <3>1, <3>2
  <2>4. ASSUME NEW c \in F2, ~Big(S[c]), m2[c + 4] = 0
        PROVE  m2[PTR_LIST(S[c])] = c
    <3>1. CASE c = b
      BY <3>1
    <3>2. CASE c # b
      <4>1. c \in F /\ m[c + 4] = 0 /\ S[c] # S[b]
        BY <1>2, <2>2, <2>4, <3>2
      <4>. QED  BY <1>1, <2>1, <2>4, <4>1 DEF Listed, Headed
    <3>. QED  BY <3>1, <3>2
  <2>. QED  BY <2>3, <2>4 DEF Headed
<1>5. \E pos, n : Ordered(m2, F2, pos, n)
  <2>1. PICK pos, n : Ordered(m, F, pos, n)
    BY DEF Listed
  <2>. DEFINE pos2 == [c \in F2 |-> IF c = b THEN 0 ELSE pos[c]]
  <2>2. n \in Nat /\ \A c \in F : pos[c] \in 0 .. n
    BY <2>1 DEF Ordered
  <2>3. pos2 \in [F2 -> 0 .. n]
    BY <2>2
  <2>4. ASSUME NEW c \in F2, m2[c] # 0 PROVE pos2[c] < pos2[m2[c]]
    <3>1. c \in F /\ m2[c] = m[c] /\ m[c] \in F
      BY <1>2, <2>4 DEF Listed, Chained
    <3>2. pos[c] < pos[m[c]]
      BY <2>1, <2>4, <3>1 DEF Ordered
    <3>. QED  BY <1>2, <3>1, <3>2
  <2>5. Ordered(m2, F2, pos2, n)
    <3>. HIDE DEF pos2
    <3>. QED  BY <2>2, <2>3, <2>4 DEF Ordered
  <2>. QED  BY <2>5
<1>6. Nodes(m2, S, F2) = Nodes(m, S, F)
  BY <1>1, <1>2 DEF Nodes
<1>7. \A v : TreeWord(Nodes(m, S, F), v) => m2[v] = m[v]
  <2>1. IsSmall(S[b])
    BY <1>1
  <2>. QED  BY <2>1, TreeWordsElsewhere
<1>8. \E lo, hi : Tree(m2, S, Nodes(m2, S, F2), lo, hi)
  BY <1>6, <1>7, TreeSame DEF Listed
<1>9. Framed(m, m2, S, F2)
  <2>1. PTR_LIST(S[b]) < ptr_big /\ PTR_LIST(S[b]) \in Nat /\ ptr_big \in Nat
    BY <1>1, ListWords, Places DEF IsSmall
  <2>. QED  BY <2>1 DEF Framed, OwnLinks
<1>. QED  BY <1>3, <1>4, <1>5, <1>8, <1>9 DEF Listed

(* A block that becomes a leaf of the tree. *)
LEMMA LeafStarted ==
    ASSUME NEW m, NEW S, NEW G, NEW F \in SUBSET G, Laid(m, S, G), Listed(m, S, F),
           NEW b \in G, b \notin F, Big(S[b]), m[Slot(m, S[b])] = 0,
           NEW m2, m2[Slot(m, S[b])] = b, m2[b] = 0, m2[b + 4] = 0, m2[b + 8] = 0, m2[b + 12] = 0,
           DOMAIN m2 = DOMAIN m,
           \A w \in DOMAIN m : w \notin {Slot(m, S[b]), b, b + 4, b + 8, b + 12} => m2[w] = m[w]
    PROVE  Listed(m2, S, F \cup {b}) /\ Framed(m, m2, S, F \cup {b})
<1>. DEFINE F2 == F \cup {b}
            N == Nodes(m, S, F)
<1>1. /\ \A c \in G : c \in Nat /\ c # 0 /\ c # c + 4 /\ c \in DOMAIN m /\ c + 4 \in DOMAIN m
      /\ \A c, d \in G : c + 4 # d /\ (c # d => c + 4 # d + 4)
      /\ \A c \in G : \A s : IsSmall(s) => PTR_LIST(s) # c /\ PTR_LIST(s) # c + 4
      /\ \A c \in G : ~Big(S[c]) => IsSmall(S[c])
      /\ \A s : IsSmall(s) => ~Big(s) /\ PTR_LIST(s) \in DOMAIN m
  BY LinkWords
<1>2. N \in SUBSET G /\ AllBig(S, N) /\ b \notin N
  BY DEF Nodes, AllBig
<1>3. PICK lo, hi : Tree(m, S, N, lo, hi)
  BY DEF Listed
<1>. HIDE DEF N
<1>4. \A n \in N : S[n] # S[b]
  <2>1. \A n \in N : m[Slot(m, S[n])] = n /\ n # 0
    BY <1>1, <1>2, <1>3, NodesApart
  <2>. QED  BY <2>1
<1>5. TreeWord(N, Slot(m, S[b]))
  <2>1. S[b] \in Int /\ 0 < S[b] /\ S[b] < MaxSize
    BY DEF Laid
  <2>. DEFINE s == S[b]
  <2>2. \A n \in N : S[n] # s
    BY <1>4
  <2>. HIDE DEF s
  <2>3. s \in Int /\ 0 < s /\ s < MaxSize
    BY <2>1 DEF s
  <2>4. Gap(m, S, N, lo, hi, s, Slot(m, s))
    BY <1>2, <1>3, <2>2, <2>3, SlotFindsPlace
  <2>. QED  BY <2>4 DEF Gap, TreeWord, s
<1>. DEFINE w0 == Slot(m, S[b])
<1>6. /\ w0 \in DOMAIN m
      /\ \A c \in G : w0 # c /\ w0 # c + 4
      /\ w0 # b + 8 /\ w0 # b + 12
      /\ \A s : IsSmall(s) => w0 # PTR_LIST(s)
  BY <1>2, <1>5, TreeWordsElsewhere DEF N
<1>7. /\ b + 8 \in DOMAIN m /\ b + 12 \in DOMAIN m
      /\ \A c \in F : b + 8 # c /\ b + 12 # c /\ b + 8 # c + 4 /\ b + 12 # c + 4
      /\ \A s : IsSmall(s) => PTR_LIST(s) # b + 8 /\ PTR_LIST(s) # b + 12
  <2>1. b + 8 \in DOMAIN m /\ b + 12 \in DOMAIN m
    BY DEF Laid
  <2>2. ASSUME NEW c \in F PROVE b + 8 # c /\ b + 12 # c /\ b + 8 # c + 4 /\ b + 12 # c + 4
    BY LinksApart
  <2>3. ASSUME NEW s, IsSmall(s) PROVE PTR_LIST(s) # b + 8 /\ PTR_LIST(s) # b + 12
    BY <2>3, LinksHigh, Places
  <2>. QED  BY <2>1, <2>2, <2>3
<1>8. \A c \in F : m2[c] = m[c] /\ m2[c + 4] = m[c + 4] /\ c # b
  BY <1>1, <1>6, <1>7
<1>9. Chained(m2, S, F2)
  <2>1. ASSUME NEW c \in F
        PROVE  /\ m2[c] \in F \cup {0} /\ m2[c + 4] \in F \cup {0}
               /\ m2[c] # 0 => S[m2[c]] = S[c] /\ m2[m2[c] + 4] = c
               /\ m2[c + 4] # 0 => m2[m2[c + 4]] = c
    BY <1>8 DEF Listed, Chained
  <2>. QED  BY <2>1 DEF Chained
<1>10. Headed(m2, S, F2)
  <2>1. ASSUME NEW s, IsSmall(s) PROVE m2[PTR_LIST(s)] = m[PTR_LIST(s)]
    BY <1>1, <1>6, <1>7, <2>1
  <2>2. \A c \in F2 : ~Big(S[c]) => c \in F
    OBVIOUS
  <2>. QED  BY <1>1, <1>8, <2>1, <2>2 DEF Listed, Headed
<1>11. \E pos, n : Ordered(m2, F2, pos, n)
  <2>1. PICK pos, n : Ordered(m, F, pos, n)
    BY DEF Listed
  <2>. DEFINE pos2 == [c \in F2 |-> IF c = b THEN 0 ELSE pos[c]]
  <2>2. n \in Nat /\ \A c \in F : pos[c] \in 0 .. n
    BY <2>1 DEF Ordered
  <2>3. pos2 \in [F2 -> 0 .. n]
    BY <2>2
  <2>4. ASSUME NEW c \in F2, m2[c] # 0 PROVE pos2[c] < pos2[m2[c]]
    <3>1. c \in F /\ m2[c] = m[c] /\ m[c] \in F
      BY <1>8, <2>4 DEF Listed, Chained
    <3>2. pos[c] < pos[m[c]]
      BY <2>1, <2>4, <3>1 DEF Ordered
    <3>. QED  BY <1>8, <3>1, <3>2
  <2>5. Ordered(m2, F2, pos2, n)
    <3>. HIDE DEF pos2
    <3>. QED  BY <2>2, <2>3, <2>4 DEF Ordered
  <2>. QED  BY <2>5
<1>12. Nodes(m2, S, F2) = N \cup {b}
  BY <1>1, <1>8 DEF Nodes, N
<1>13. \A v : TreeWord(N, v) /\ v # w0 => m2[v] = m[v]
  <2>1. \A v : TreeWord(N, v) => v \in DOMAIN m /\ v # b /\ v # b + 4 /\ v # b + 8 /\ v # b + 12
    BY <1>2, TreeWordsElsewhere DEF N
  <2>. QED  BY <2>1
<1>14. \E lo2, hi2 : Tree(m2, S, N \cup {b}, lo2, hi2)
  BY <1>2, <1>3, <1>4, <1>13, LeafAdded
<1>15. Framed(m, m2, S, F2)
  <2>1. ASSUME NEW w \in DOMAIN m, w > ptr_big, \A c \in F2 : w \notin OwnLinks(S, c)
        PROVE  m2[w] = m[w]
    <3>1. w # b /\ w # b + 4 /\ w # b + 8 /\ w # b + 12
      BY <2>1 DEF OwnLinks
    <3>2. w # w0
      <4>1. \A n \in N : n \in F2 /\ Big(S[n])
        BY DEF N, Nodes
      <4>. QED  BY <1>5, <2>1, <4>1, Places DEF TreeWord, OwnLinks
    <3>. QED  BY <3>1, <3>2
  <2>. QED  BY <2>1 DEF Framed
<1>. QED  BY <1>9, <1>10, <1>11, <1>12, <1>14, <1>15 DEF Listed

-----------------------------------------------------------------------------
(* A block leaves the lists.                                               *)

(* A block that is not the first of its list leaves it. *)
LEMMA Unlinked ==
    ASSUME NEW m, NEW S, NEW G, NEW F \in SUBSET G, Laid(m, S, G), Listed(m, S, F),
           NEW b \in F, NEW p, p = m[b + 4], p # 0,
           NEW m2, m2[p] = m[b], m[b] # 0 => m2[m[b] + 4] = p, DOMAIN m2 = DOMAIN m,
           \A w \in DOMAIN m : w # p /\ (m[b] # 0 => w # m[b] + 4) => m2[w] = m[w]
    PROVE  Listed(m2, S, F \ {b}) /\ Framed(m, m2, S, F)
<1>. DEFINE R == F \ {b}
            nx == m[b]
<1>1. /\ \A c \in G : c \in Nat /\ c # 0 /\ c # c + 4 /\ c \in DOMAIN m /\ c + 4 \in DOMAIN m
      /\ \A c, d \in G : c + 4 # d /\ (c # d => c + 4 # d + 4)
      /\ \A c \in G : \A s : IsSmall(s) => PTR_LIST(s) # c /\ PTR_LIST(s) # c + 4
      /\ \A c \in G : ~Big(S[c]) => IsSmall(S[c])
      /\ \A s : IsSmall(s) => ~Big(s) /\ PTR_LIST(s) \in DOMAIN m
  BY LinkWords
<1>2. \E pos, n : Ordered(m, F, pos, n)
  BY DEF Listed
<1>3. /\ p \in R /\ m[p] = b /\ S[p] = S[b]
      /\ nx \in R \cup {0} /\ (nx # 0 => nx # p /\ S[nx] = S[b] /\ m[nx + 4] = b)
  <2>1. PICK pos, n : Ordered(m, F, pos, n)
    BY <1>2
  <2>2. p \in F /\ m[p] = b
    BY DEF Listed, Chained
  <2>3. S[p] = S[b] /\ pos[p] < pos[b] /\ \A c \in F : pos[c] \in Nat
    BY <1>1, <2>1, <2>2 DEF Listed, Chained, Ordered
  <2>4. nx \in F \cup {0} /\ (nx # 0 => S[nx] = S[b] /\ m[nx + 4] = b /\ pos[b] < pos[nx])
    BY <2>1 DEF Listed, Chained, Ordered
  <2>. QED  BY <2>2, <2>3, <2>4
<1>4. \A c \in R : /\ c # p => m2[c] = m[c] /\ m[c] # b
                   /\ c # nx => m2[c + 4] = m[c + 4] /\ m[c + 4] # b
  <2>1. ASSUME NEW c \in R, c # p PROVE m2[c] = m[c] /\ m[c] # b
    <3>1. m[c] # b
      BY <1>1, <2>1 DEF Listed, Chained
    <3>. QED  BY <1>1, <1>3, <2>1, <3>1
  <2>2. ASSUME NEW c \in R, c # nx PROVE m2[c + 4] = m[c + 4] /\ m[c + 4] # b
    <3>1. m[c + 4] # b
      BY <1>1, <2>2 DEF Listed, Chained
    <3>. QED  BY <1>1, <1>3, <2>2, <3>1
  <2>. QED  BY <2>1, <2>2
<1>5. Chained(m2, S, R)
  <2>1. ASSUME NEW c \in R
        PROVE  m2[c] \in R \cup {0} /\ (m2[c] # 0 => S[m2[c]] = S[c] /\ m2[m2[c] + 4] = c)
    <3>1. CASE c = p
      BY <1>3, <3>1
    <3>2. CASE c # p
      <4>1. m2[c] = m[c] /\ m[c] \in R \cup {0}
        BY <1>4, <3>2 DEF Listed, Chained
      <4>2. m[c] # 0 => m[c] # nx /\ S[m[c]] = S[c] /\ m[m[c] + 4] = c
        BY <1>1, <1>3 DEF Listed, Chained
      <4>. QED  BY <1>4, <4>1, <4>2
    <3>. QED  BY <3>1, <3>2
  <2>2. ASSUME NEW c \in R
        PROVE  m2[c + 4] \in R \cup {0} /\ (m2[c + 4] # 0 => m2[m2[c + 4]] = c)
    <3>1. CASE c = nx
      BY <1>1, <1>3, <3>1
    <3>2. CASE c # nx
      <4>1. m2[c + 4] = m[c + 4] /\ m[c + 4] \in R \cup {0}
        BY <1>4, <3>2 DEF Listed, Chained
      <4>2. m[c + 4] # 0 => m[c + 4] # p /\ m[m[c + 4]] = c
        BY <1>1, <1>3 DEF Listed, Chained
      <4>. QED  BY <1>4, <4>1, <4>2
    <3>. QED  BY <3>1, <3>2
  <2>. QED  BY <2>1, <2>2 DEF Chained
<1>6. \A c \in R : m2[c + 4] = 0 <=> m[c + 4] = 0
  <2>1. p # 0 /\ b # 0
    BY <1>1
  <2>2. ASSUME NEW c \in R PROVE m2[c + 4] = 0 <=> m[c + 4] = 0
    <3>1. CASE c = nx
      BY <1>1, <1>3, <2>1, <3>1
    <3>2. CASE c # nx
      BY <1>4, <3>2
    <3>. QED  BY <3>1, <3>2
  <2>. QED  BY <2>2
<1>7. Headed(m2, S, R)
  <2>1. ASSUME NEW s, IsSmall(s) PROVE m2[PTR_LIST(s)] = m[PTR_LIST(s)]
    BY <1>1, <1>3, <2>1
  <2>2. ASSUME NEW s, IsSmall(s), m[PTR_LIST(s)] # 0
        PROVE  m[PTR_LIST(s)] \in R /\ S[m[PTR_LIST(s)]] = s /\ m2[m[PTR_LIST(s)] + 4] = 0
    <3>1. m[PTR_LIST(s)] \in F /\ S[m[PTR_LIST(s)]] = s /\ m[m[PTR_LIST(s)] + 4] = 0
      BY <2>2 DEF Listed, Headed
    <3>2. m[PTR_LIST(s)] # b
      BY <3>1
    <3>. QED  BY <1>6, <3>1, <3>2
  <2>3. ASSUME NEW c \in R, ~Big(S[c]), m2[c + 4] = 0 PROVE m2[PTR_LIST(S[c])] = c
    BY <1>1, <1>6, <2>1, <2>3 DEF Listed, Headed
  <2>. QED  BY <2>1, <2>2, <2>3 DEF Headed
<1>8. \E pos, n : Ordered(m2, R, pos, n)
  <2>1. PICK pos, n : Ordered(m, F, pos, n)
    BY <1>2
  <2>. DEFINE pos2 == [c \in R |-> pos[c]]
  <2>2. n \in Nat /\ \A c \in F : pos[c] \in 0 .. n
    BY <2>1 DEF Ordered
  <2>3. pos2 \in [R -> 0 .. n]
    BY <2>2
  <2>4. ASSUME NEW c \in R, m2[c] # 0 PROVE pos2[c] < pos2[m2[c]]
    <3>1. m2[c] \in R
      BY <1>5, <2>4 DEF Chained
    <3>2. CASE c = p
      <4>1. pos[p] < pos[b] /\ pos[b] < pos[nx] /\ nx \in R /\ m2[c] = nx
        BY <1>1, <1>3, <2>1, <2>4, <3>2 DEF Ordered
      <4>. QED  BY <2>2, <3>2, <4>1
    <3>3. CASE c # p
      <4>1. pos[c] < pos[m[c]] /\ m2[c] = m[c]
        BY <1>4, <2>1, <2>4, <3>3 DEF Ordered
      <4>. QED  BY <3>1, <4>1
    <3>. QED  BY <3>2, <3>3
  <2>5. Ordered(m2, R, pos2, n)
    <3>. HIDE DEF pos2
    <3>. QED  BY <2>2, <2>3, <2>4 DEF Ordered
  <2>. QED  BY <2>5
<1>9. Nodes(m2, S, R) = Nodes(m, S, F)
  BY <1>6 DEF Nodes
<1>10. \A v : TreeWord(Nodes(m, S, F), v) => m2[v] = m[v]
  BY <1>3, TreeWordsElsewhere
<1>11. \E lo, hi : Tree(m2, S, Nodes(m2, S, R), lo, hi)
  BY <1>9, <1>10, TreeSame DEF Listed
<1>12. Framed(m, m2, S, F)
  <2>1. ASSUME NEW w \in DOMAIN m, \A c \in F : w \notin OwnLinks(S, c) PROVE m2[w] = m[w]
    <3>1. w # p /\ (nx # 0 => w # nx + 4)
      BY <1>3, <2>1 DEF OwnLinks
    <3>. QED  BY <3>1
  <2>. QED  BY <2>1 DEF Framed
<1>. QED  BY <1>5, <1>7, <1>8, <1>11, <1>12 DEF Listed

(* The chains without a block that was the first of its own. *)
LEMMA WithoutFirst ==
    ASSUME NEW m, NEW S, NEW G, NEW F \in SUBSET G, Laid(m, S, G), Chained(m, S, F),
           NEW pos, NEW n, Ordered(m, F, pos, n), NEW b \in F, m[b + 4] = 0,
           NEW m2, \A c \in F \ {b} : m2[c] = m[c] /\ (c # m[b] => m2[c + 4] = m[c + 4]),
           m[b] # 0 => m2[m[b] + 4] = 0
    PROVE  /\ Chained(m2, S, F \ {b})
           /\ \E pos2, n2 : Ordered(m2, F \ {b}, pos2, n2)
           /\ m[b] \in (F \ {b}) \cup {0}
           /\ m[b] # 0 => S[m[b]] = S[b] /\ m[m[b] + 4] = b
           /\ \A c \in F \ {b} : m2[c + 4] = 0 <=> m[c + 4] = 0 \/ c = m[b]
<1>. DEFINE R == F \ {b}
            nx == m[b]
<1>1. \A c \in G : c \in Nat /\ c # 0 /\ c # c + 4
  BY LinkWords
<1>2. \A c \in F : pos[c] \in Nat
  BY DEF Ordered
<1>3. nx \in R \cup {0} /\ (nx # 0 => S[nx] = S[b] /\ m[nx + 4] = b)
  <2>1. nx \in F \cup {0} /\ (nx # 0 => S[nx] = S[b] /\ m[nx + 4] = b /\ pos[b] < pos[nx])
    BY DEF Chained, Ordered
  <2>. QED  BY <1>2, <2>1
<1>4. \A c \in R : m[c] # b
  BY <1>1 DEF Chained
<1>5. \A c \in R : c # nx => m[c + 4] # b
  BY <1>1 DEF Chained
<1>6. \A c \in R : m2[c + 4] = 0 <=> m[c + 4] = 0 \/ c = nx
  BY <1>1
<1>7. Chained(m2, S, R)
  <2>1. ASSUME NEW c \in R
        PROVE  m2[c] \in R \cup {0} /\ (m2[c] # 0 => S[m2[c]] = S[c] /\ m2[m2[c] + 4] = c)
    <3>1. m2[c] = m[c] /\ m[c] \in R \cup {0}
      BY <1>4 DEF Chained
    <3>2. m[c] # 0 => m[c] # nx /\ S[m[c]] = S[c] /\ m[m[c] + 4] = c
      BY <1>3 DEF Chained
    <3>. QED  BY <3>1, <3>2
  <2>2. ASSUME NEW c \in R
        PROVE  m2[c + 4] \in R \cup {0} /\ (m2[c + 4] # 0 => m2[m2[c + 4]] = c)
    <3>1. CASE c = nx
      BY <1>1, <3>1
    <3>2. CASE c # nx
      <4>1. m2[c + 4] = m[c + 4] /\ m[c + 4] \in R \cup {0}
        BY <1>5, <3>2 DEF Chained
      <4>2. m[c + 4] # 0 => m[m[c + 4]] = c
        BY DEF Chained
      <4>. QED  BY <4>1, <4>2
    <3>. QED  BY <3>1, <3>2
  <2>. QED  BY <2>1, <2>2 DEF Chained
<1>8. \E pos2, n2 : Ordered(m2, R, pos2, n2)
  <2>. DEFINE pos2 == [c \in R |-> pos[c]]
  <2>1. pos2 \in [R -> 0 .. n] /\ n \in Nat
    BY DEF Ordered
  <2>2. ASSUME NEW c \in R, m2[c] # 0 PROVE pos2[c] < pos2[m2[c]]
    <3>1. m2[c] = m[c] /\ m[c] \in R
      BY <1>7, <2>2 DEF Chained
    <3>2. pos[c] < pos[m[c]]
      BY <2>2, <3>1 DEF Ordered
    <3>. QED  BY <3>1, <3>2
  <2>3. Ordered(m2, R, pos2, n)
    <3>. HIDE DEF pos2
    <3>. QED  BY <2>1, <2>2 DEF Ordered
  <2>. QED  BY <2>3
<1>. QED  BY <1>3, <1>6, <1>7, <1>8

(* The first block of a list of small blocks leaves it. *)
LEMMA SmallFirstLeaves ==
    ASSUME NEW m, NEW S, NEW G, NEW F \in SUBSET G, Laid(m, S, G), Listed(m, S, F),
           NEW b \in F, m[b + 4] = 0, ~Big(S[b]),
           NEW m2, m2[PTR_LIST(S[b])] = m[b], m[b] # 0 => m2[m[b] + 4] = 0, DOMAIN m2 = DOMAIN m,
           \A w \in DOMAIN m : w # PTR_LIST(S[b]) /\ (m[b] # 0 => w # m[b] + 4) => m2[w] = m[w]
    PROVE  Listed(m2, S, F \ {b}) /\ Framed(m, m2, S, F)
<1>. DEFINE R == F \ {b}
            nx == m[b]
            head == PTR_LIST(S[b])
<1>1. /\ \A c \in G : c \in Nat /\ c # 0 /\ c # c + 4 /\ c \in DOMAIN m /\ c + 4 \in DOMAIN m
      /\ \A c, d \in G : c + 4 # d /\ (c # d => c + 4 # d + 4)
      /\ \A c \in G : \A s : IsSmall(s) => PTR_LIST(s) # c /\ PTR_LIST(s) # c + 4
      /\ \A s, t : IsSmall(s) /\ IsSmall(t) /\ s # t => PTR_LIST(s) # PTR_LIST(t)
      /\ \A c \in G : ~Big(S[c]) => IsSmall(S[c])
      /\ \A s : IsSmall(s) => ~Big(s) /\ PTR_LIST(s) \in DOMAIN m
  BY LinkWords
<1>2. nx \in F \cup {0}
  BY DEF Listed, Chained
<1>3. \A c \in R : m2[c] = m[c] /\ (c # nx => m2[c + 4] = m[c + 4])
  BY <1>1, <1>2
<1>4. /\ Chained(m2, S, R) /\ \E pos2, n2 : Ordered(m2, R, pos2, n2)
      /\ nx \in R \cup {0}
      /\ nx # 0 => S[nx] = S[b] /\ m[nx + 4] = b
      /\ \A c \in R : m2[c + 4] = 0 <=> m[c + 4] = 0 \/ c = nx
  <2>1. PICK pos, n : Ordered(m, F, pos, n)
    BY DEF Listed
  <2>. QED  BY <1>3, <2>1, WithoutFirst DEF Listed
<1>5. Headed(m2, S, R)
  <2>1. ASSUME NEW s, IsSmall(s), s # S[b] PROVE m2[PTR_LIST(s)] = m[PTR_LIST(s)]
    BY <1>1, <1>2, <2>1
  <2>2. m[head] = b
    BY DEF Listed, Headed
  <2>3. ASSUME NEW s, IsSmall(s), m2[PTR_LIST(s)] # 0
        PROVE  m2[PTR_LIST(s)] \in R /\ S[m2[PTR_LIST(s)]] = s /\ m2[m2[PTR_LIST(s)] + 4] = 0
    <3>1. CASE s = S[b]
      BY <1>4, <2>3, <3>1
    <3>2. CASE s # S[b]
      <4>1. /\ m2[PTR_LIST(s)] = m[PTR_LIST(s)] /\ m[PTR_LIST(s)] \in F
            /\ S[m[PTR_LIST(s)]] = s /\ m[m[PTR_LIST(s)] + 4] = 0
        BY <2>1, <2>3, <3>2 DEF Listed, Headed
      <4>. QED  BY <1>4, <3>2, <4>1
    <3>. QED  BY <3>1, <3>2
  <2>4. ASSUME NEW c \in R, ~Big(S[c]), m2[c + 4] = 0 PROVE m2[PTR_LIST(S[c])] = c
    <3>1. CASE c = nx
      BY <1>1, <1>4, <3>1
    <3>2. CASE c # nx
      <4>1. m[c + 4] = 0 /\ m[PTR_LIST(S[c])] = c
        BY <1>4, <2>4, <3>2 DEF Listed, Headed
      <4>2. S[c] # S[b]
        BY <2>2, <4>1
      <4>. QED  BY <1>1, <2>1, <2>4, <4>1, <4>2
    <3>. QED  BY <3>1, <3>2
  <2>. QED  BY <2>3, <2>4 DEF Headed
<1>6. Nodes(m2, S, R) = Nodes(m, S, F)
  <2>1. \A c \in R : Big(S[c]) => c # nx
    BY <1>1, <1>4
  <2>2. \A c \in R : Big(S[c]) => (m2[c + 4] = 0 <=> m[c + 4] = 0)
    BY <1>4, <2>1
  <2>3. \A c \in F : Big(S[c]) => c \in R
    OBVIOUS
  <2>. HIDE DEF R
  <2>4. R \subseteq F
    BY DEF R
  <2>. QED  BY <2>2, <2>3, <2>4 DEF Nodes
<1>7. \A v : TreeWord(Nodes(m, S, F), v) => m2[v] = m[v]
  <2>1. IsSmall(S[b])
    BY <1>1
  <2>. QED  BY <1>2, <2>1, TreeWordsElsewhere
<1>8. \E lo, hi : Tree(m2, S, Nodes(m2, S, R), lo, hi)
  BY <1>6, <1>7, TreeSame DEF Listed
<1>9. Framed(m, m2, S, F)
  <2>1. head < ptr_big /\ head \in Nat /\ ptr_big \in Nat
    BY <1>1, ListWords, Places DEF IsSmall
  <2>2. ASSUME NEW w \in DOMAIN m, w > ptr_big, \A c \in F : w \notin OwnLinks(S, c) PROVE m2[w] = m[w]
    <3>1. w # head /\ (nx # 0 => w # nx + 4)
      BY <1>2, <2>1, <2>2 DEF OwnLinks
    <3>. QED  BY <3>1
  <2>. QED  BY <2>2 DEF Framed
<1>. QED  BY <1>4, <1>5, <1>8, <1>9 DEF Listed

(* What the word of the tree that holds a node is not. *)
LEMMA NodeWord ==
    ASSUME NEW m, NEW S, NEW G, NEW F \in SUBSET G, Laid(m, S, G),
           NEW lo, NEW hi, Tree(m, S, Nodes(m, S, F), lo, hi), NEW d \in Nodes(m, S, F)
    PROVE  LET w == Slot(m, S[d])
           IN  /\ TreeWord(Nodes(m, S, F), w) /\ m[w] = d /\ w \in DOMAIN m
               /\ \A c \in G : w # c /\ w # c + 4
               /\ \A s : IsSmall(s) => w # PTR_LIST(s)
               /\ \A c \in G : c \notin Nodes(m, S, F) /\ Big(S[c]) => w # c + 8 /\ w # c + 12
               /\ w > ptr_big => \E c \in Nodes(m, S, F) : w \in OwnLinks(S, c)
<1>. DEFINE N == Nodes(m, S, F)
            w == Slot(m, S[d])
<1>1. N \in SUBSET G /\ AllBig(S, N)
  BY DEF Nodes, AllBig
<1>2. TreeWord(N, w) /\ m[w] = d
  <2>1. Tree(m, S, N, lo, hi) /\ d \in N
    OBVIOUS
  <2>. HIDE DEF N
  <2>. QED  BY <1>1, <2>1, NodesApart
<1>3. w > ptr_big => \E c \in N : w \in OwnLinks(S, c)
  <2>1. ~(ptr_big > ptr_big)
    BY Places
  <2>. HIDE DEF w, N
  <2>. QED  BY <1>1, <1>2, <2>1 DEF TreeWord, OwnLinks, AllBig
<1>. HIDE DEF w
<1>4. /\ w \in DOMAIN m
      /\ \A c \in G : w # c /\ w # c + 4
      /\ \A s : IsSmall(s) => w # PTR_LIST(s)
      /\ \A c \in G : c \notin N /\ Big(S[c]) => w # c + 8 /\ w # c + 12
  BY <1>2, TreeWordsElsewhere
<1>. QED  BY <1>2, <1>3, <1>4 DEF w

(* The first of several blocks of a large size leaves; the next one takes its
   place in the tree. *)
LEMMA BigFirstLeaves ==
    ASSUME NEW m, NEW S, NEW G, NEW F \in SUBSET G, Laid(m, S, G), Listed(m, S, F),
           NEW b \in F, m[b + 4] = 0, Big(S[b]), NEW k, k = m[b], k # 0,
           NEW m2, m2[Slot(m, S[b])] = k, m2[k + 4] = 0, m2[k + 8] = m[b + 8], m2[k + 12] = m[b + 12],
           DOMAIN m2 = DOMAIN m,
           \A w \in DOMAIN m : w \notin {Slot(m, S[b]), k + 4, k + 8, k + 12} => m2[w] = m[w]
    PROVE  Listed(m2, S, F \ {b}) /\ Framed(m, m2, S, F)
<1>. DEFINE R == F \ {b}
            N == Nodes(m, S, F)
            w0 == Slot(m, S[b])
<1>1. /\ \A c \in G : c \in Nat /\ c # 0 /\ c # c + 4 /\ c \in DOMAIN m /\ c + 4 \in DOMAIN m
      /\ \A c, d \in G : c + 4 # d /\ (c # d => c + 4 # d + 4)
      /\ \A c \in G : \A s : IsSmall(s) => PTR_LIST(s) # c /\ PTR_LIST(s) # c + 4
      /\ \A c \in G : ~Big(S[c]) => IsSmall(S[c])
      /\ \A s : IsSmall(s) => ~Big(s) /\ PTR_LIST(s) \in DOMAIN m
  BY LinkWords
<1>2. k \in F /\ S[k] = S[b] /\ m[k + 4] = b
  BY DEF Listed, Chained
<1>3. PICK lo, hi : Tree(m, S, N, lo, hi)
  BY DEF Listed
<1>4. b \in N /\ k \notin N /\ N \in SUBSET G /\ AllBig(S, N)
  BY <1>1, <1>2 DEF Nodes, AllBig
<1>5. /\ TreeWord(N, w0) /\ m[w0] = b /\ w0 \in DOMAIN m
      /\ \A c \in G : w0 # c /\ w0 # c + 4
      /\ \A s : IsSmall(s) => w0 # PTR_LIST(s)
      /\ w0 > ptr_big => \E c \in N : w0 \in OwnLinks(S, c)
  BY <1>3, <1>4, NodeWord
<1>6. /\ \A c \in G : k + 8 # c /\ k + 12 # c /\ k + 8 # c + 4 /\ k + 12 # c + 4
      /\ \A s : IsSmall(s) => PTR_LIST(s) # k + 8 /\ PTR_LIST(s) # k + 12
  <2>1. ASSUME NEW c \in G PROVE k + 8 # c /\ k + 12 # c /\ k + 8 # c + 4 /\ k + 12 # c + 4
    <3>1. c = k \/ c # k
      OBVIOUS
    <3>2. k \in Nat /\ k \in G /\ Big(S[k])
      BY <1>1, <1>2
    <3>. QED  BY <3>1, <3>2, LinksApart
  <2>2. ASSUME NEW s, IsSmall(s) PROVE PTR_LIST(s) # k + 8 /\ PTR_LIST(s) # k + 12
    BY <1>2, <2>2, LinksHigh, Places
  <2>. QED  BY <2>1, <2>2
<1>. HIDE DEF w0
<1>7. \A w \in DOMAIN m : w \notin {w0, k + 4, k + 8, k + 12} => m2[w] = m[w]
  BY DEF w0
<1>8. \A c \in R : m2[c] = m[c] /\ (c # k => m2[c + 4] = m[c + 4])
  BY <1>1, <1>2, <1>5, <1>6, <1>7
<1>9. /\ Chained(m2, S, R) /\ \E pos2, n2 : Ordered(m2, R, pos2, n2)
      /\ \A c \in R : m2[c + 4] = 0 <=> m[c + 4] = 0 \/ c = k
  <2>1. PICK pos, n : Ordered(m, F, pos, n)
    BY DEF Listed
  <2>2. \A c \in F \ {b} : m2[c] = m[c] /\ (c # m[b] => m2[c + 4] = m[c + 4])
    BY <1>8
  <2>3. Chained(m, S, F)
    BY DEF Listed
  <2>4. m[b] # 0 => m2[m[b] + 4] = 0
    OBVIOUS
  <2>5. /\ Chained(m2, S, F \ {b}) /\ \E pos2, n2 : Ordered(m2, F \ {b}, pos2, n2)
        /\ \A c \in F \ {b} : m2[c + 4] = 0 <=> m[c + 4] = 0 \/ c = m[b]
    BY <2>1, <2>2, <2>3, <2>4, WithoutFirst
  <2>. QED  BY <2>5
<1>10. Headed(m2, S, R)
  <2>1. ASSUME NEW s, IsSmall(s) PROVE m2[PTR_LIST(s)] = m[PTR_LIST(s)]
    BY <1>1, <1>2, <1>5, <1>6, <1>7, <2>1
  <2>2. \A c \in F : ~Big(S[c]) => c \in R /\ c # k
    BY <1>2
  <2>3. \A s : IsSmall(s) => ~Big(s)
    BY <1>1
  <2>. QED  BY <1>1, <1>9, <2>1, <2>2, <2>3 DEF Listed, Headed
<1>11. Nodes(m2, S, R) = (N \ {b}) \cup {k}
  <2>1. k \in R /\ Big(S[k])
    BY <1>1, <1>2
  <2>. QED  BY <1>9, <2>1 DEF Nodes
<1>12. \A v : TreeWord(N \ {b}, v) /\ v # w0 => m2[v] = m[v]
  <2>1. \A v : TreeWord(N \ {b}, v) => TreeWord(N, v)
    BY DEF TreeWord
  <2>2. \A v : TreeWord(N, v) => v \in DOMAIN m /\ v # k + 4 /\ v # k + 8 /\ v # k + 12
    BY <1>2, <1>4, TreeWordsElsewhere
  <2>. QED  BY <1>7, <2>1, <2>2
<1>13. \E lo2, hi2 : Tree(m2, S, (N \ {b}) \cup {k}, lo2, hi2)
  <2>. HIDE DEF N
  <2>1. \A n \in N : lo[n] < S[n] /\ S[n] < hi[n]
    BY <1>3, <1>4, BoundsOrder
  <2>2. k \in G /\ Big(S[k]) /\ lo[b] < S[k] /\ S[k] < hi[b]
    BY <1>2, <1>4, <2>1
  <2>3. \A n \in N \ {b} : hi[n] = S[b] => S[n] < S[k]
    BY <1>2, <2>1
  <2>7. \A n \in N \ {b} : lo[n] = S[b] => S[n] > S[k]
    BY <1>2, <1>4, <2>1 DEF Laid
  <2>4. Parts(S, N, lo, hi, b, S[k])
    BY <2>3, <2>7 DEF Parts
  <2>5. TreeKept(m, m2, N \ {b}, Slot(m, S[b]))
    BY <1>12 DEF w0, TreeKept
  <2>6. m2[Slot(m, S[b])] = k /\ m2[k + 8] = m[b + 8] /\ m2[k + 12] = m[b + 12]
    OBVIOUS
  <2>. HIDE DEF w0
  <2>. QED  BY <1>3, <1>4, <2>2, <2>4, <2>5, <2>6, NodeReplaced
<1>14. Framed(m, m2, S, F)
  <2>1. ASSUME NEW w \in DOMAIN m, w > ptr_big, \A c \in F : w \notin OwnLinks(S, c) PROVE m2[w] = m[w]
    <3>1. w # k + 4 /\ w # k + 8 /\ w # k + 12
      BY <1>2, <2>1 DEF OwnLinks
    <3>2. w # w0
      BY <1>5, <2>1 DEF Nodes
    <3>. QED  BY <1>7, <3>1, <3>2
  <2>. QED  BY <2>1 DEF Framed
<1>. QED  BY <1>9, <1>10, <1>11, <1>13, <1>14 DEF Listed

(* The only block of a large size leaves: what its node's removal does to the
   tree is all that is left to show. *)
LEMMA NodeLeaves ==
    ASSUME NEW m, NEW S, NEW G, NEW F \in SUBSET G, Laid(m, S, G), Listed(m, S, F),
           NEW b \in F, m[b + 4] = 0, m[b] = 0, Big(S[b]),
           NEW m2, DOMAIN m2 = DOMAIN m,
           \A w \in DOMAIN m : ~TreeWord(Nodes(m, S, F), w) => m2[w] = m[w],
           \E lo, hi : Tree(m2, S, Nodes(m, S, F) \ {b}, lo, hi)
    PROVE  Listed(m2, S, F \ {b}) /\ Framed(m, m2, S, F)
<1>. DEFINE R == F \ {b}
            N == Nodes(m, S, F)
<1>1. /\ \A c \in G : c \in Nat /\ c # 0 /\ c # c + 4 /\ c \in DOMAIN m /\ c + 4 \in DOMAIN m
      /\ \A s : IsSmall(s) => ~Big(s) /\ PTR_LIST(s) \in DOMAIN m
  BY LinkWords
<1>2. \A c \in G : m2[c] = m[c] /\ m2[c + 4] = m[c + 4]
  <2>1. \A c \in G : ~TreeWord(N, c) /\ ~TreeWord(N, c + 4)
    BY TreeWordsElsewhere
  <2>. QED  BY <1>1, <2>1
<1>3. \A s : IsSmall(s) => m2[PTR_LIST(s)] = m[PTR_LIST(s)]
  <2>1. \A s : IsSmall(s) => ~TreeWord(N, PTR_LIST(s))
    BY TreeWordsElsewhere
  <2>. QED  BY <1>1, <2>1
<1>4. /\ Chained(m2, S, R) /\ \E pos2, n2 : Ordered(m2, R, pos2, n2)
      /\ \A c \in R : m2[c + 4] = 0 <=> m[c + 4] = 0
  <2>1. PICK pos, n : Ordered(m, F, pos, n)
    BY DEF Listed
  <2>2. \A c \in F \ {b} : m2[c] = m[c] /\ (c # m[b] => m2[c + 4] = m[c + 4])
    BY <1>2
  <2>3. Chained(m, S, F)
    BY DEF Listed
  <2>4. Chained(m2, S, R) /\ \E pos2, n2 : Ordered(m2, R, pos2, n2)
    BY <2>1, <2>2, <2>3, WithoutFirst
  <2>. QED  BY <1>2, <2>4
<1>5. Headed(m2, S, R)
  <2>1. \A c \in F : ~Big(S[c]) => c \in R
    OBVIOUS
  <2>2. \A s : IsSmall(s) => ~Big(s)
    BY <1>1
  <2>3. \A c \in G : ~Big(S[c]) => IsSmall(S[c])
    BY LinkWords
  <2>. QED  BY <1>2, <1>3, <1>4, <2>1, <2>2, <2>3 DEF Listed, Headed
<1>6. Nodes(m2, S, R) = N \ {b}
  BY <1>4 DEF Nodes
<1>7. Framed(m, m2, S, F)
  <2>1. ASSUME NEW w \in DOMAIN m, w > ptr_big, \A c \in F : w \notin OwnLinks(S, c) PROVE m2[w] = m[w]
    <3>1. ~(ptr_big > ptr_big)
      BY Places
    <3>2. ~TreeWord(N, w)
      BY <2>1, <3>1 DEF TreeWord, OwnLinks, Nodes
    <3>. QED  BY <3>2
  <2>. QED  BY <2>1 DEF Framed
<1>. QED  BY <1>4, <1>5, <1>6, <1>7 DEF Listed

(* It lacks a child: the other one replaces it. *)
LEMMA LeafLeaves ==
    ASSUME NEW m, NEW S, NEW G, NEW F \in SUBSET G, Laid(m, S, G), Listed(m, S, F),
           NEW b \in F, m[b + 4] = 0, m[b] = 0, Big(S[b]),
           NEW x, \/ m[b + 8] = 0 /\ x = m[b + 12]
                  \/ m[b + 12] = 0 /\ x = m[b + 8],
           NEW m2, m2[Slot(m, S[b])] = x, DOMAIN m2 = DOMAIN m,
           \A w \in DOMAIN m : w # Slot(m, S[b]) => m2[w] = m[w]
    PROVE  Listed(m2, S, F \ {b}) /\ Framed(m, m2, S, F)
<1>. DEFINE N == Nodes(m, S, F)
<1>1. b \in N /\ N \in SUBSET G /\ AllBig(S, N)
  BY DEF Nodes, AllBig
<1>2. PICK lo, hi : Tree(m, S, N, lo, hi)
  BY DEF Listed
<1>. HIDE DEF N
<1>3. TreeKept(m, m2, N, Slot(m, S[b]))
  BY <1>1, TreeWordsInMemory DEF TreeKept
<1>4. \E lo2, hi2 : Tree(m2, S, N \ {b}, lo2, hi2)
  BY <1>1, <1>2, <1>3, NodeSpliced
<1>5. TreeWord(N, Slot(m, S[b]))
  BY <1>1, <1>2, NodesApart
<1>6. \A w \in DOMAIN m : ~TreeWord(N, w) => m2[w] = m[w]
  BY <1>5
<1>. QED  BY <1>4, <1>6, NodeLeaves DEF N

(* It has two: the largest node of the left side is spliced out and takes its
   place. *)
LEMMA ForkLeaves ==
    ASSUME NEW m, NEW S, NEW G, NEW F \in SUBSET G, Laid(m, S, G), Listed(m, S, F),
           NEW b \in F, m[b + 4] = 0, m[b] = 0, Big(S[b]), m[b + 8] # 0,
           NEW d, d = find_biggest(m, m[b + 8]),
           NEW m1, m1[Slot(m, S[d])] = m[d + 8], DOMAIN m1 = DOMAIN m,
           \A w \in DOMAIN m : w # Slot(m, S[d]) => m1[w] = m[w],
           NEW m2, m2[Slot(m, S[b])] = d, m2[d + 8] = m1[b + 8], m2[d + 12] = m1[b + 12],
           DOMAIN m2 = DOMAIN m,
           \A w \in DOMAIN m : w \notin {Slot(m, S[b]), d + 8, d + 12} => m2[w] = m1[w]
    PROVE  /\ Listed(m2, S, F \ {b}) /\ Framed(m, m2, S, F)
           /\ d \in F /\ d # b /\ S[d] # S[b] /\ Big(S[d]) /\ m[d + 4] = 0 /\ m[d + 12] = 0
           /\ Slot(m, S[b]) \notin {d + 8, d + 12}
<1>. DEFINE N == Nodes(m, S, F)
            R == N \ {d}
            w0 == Slot(m, S[b])
<1>1. b \in N /\ N \in SUBSET G /\ AllBig(S, N) /\ N \subseteq F
  BY DEF Nodes, AllBig
<1>2. PICK lo, hi : Tree(m, S, N, lo, hi)
  BY DEF Listed
<1>3. \A n \in N : Big(S[n]) /\ m[n + 4] = 0
  BY DEF Nodes
<1>. HIDE DEF N
<1>4. /\ MaxSize \in Nat /\ 0 \notin N
      /\ \A k \in N : /\ lo[k] \in Int /\ hi[k] \in Int /\ S[k] \in Nat /\ k \in Nat /\ k > ptr_big
                      /\ 0 <= lo[k] /\ lo[k] < S[k] /\ S[k] < hi[k] /\ hi[k] <= MaxSize
  <2>1. /\ MaxSize \in Nat /\ 0 \notin N
        /\ \A k \in N : /\ lo[k] \in Int /\ hi[k] \in Int
                        /\ 0 <= lo[k] /\ lo[k] < S[k] /\ S[k] < hi[k] /\ hi[k] <= MaxSize
        /\ \A k \in G : k \in Nat /\ k > ptr_big /\ S[k] \in Nat /\ S[k] < MaxSize
    BY <1>1, <1>2, BoundsOrder, ZenonT(30)
  <2>. QED  BY <1>1, <2>1
<1>5. m[b + 8] \in N /\ lo[m[b + 8]] = lo[b] /\ hi[m[b + 8]] = S[b]
  BY <1>1, <1>2 DEF Tree, Branched
<1>6. /\ d \in N /\ m[d + 12] = 0 /\ hi[d] = S[b] /\ lo[b] <= lo[d]
      /\ \A k \in N : lo[b] < S[k] /\ S[k] < S[b] => S[k] <= S[d]
  BY <1>1, <1>2, <1>5, BiggestIs
<1>7. S[d] < S[b] /\ lo[b] < S[d] /\ d # b
  BY <1>1, <1>4, <1>6
<1>8. /\ TreeWord(N, w0) /\ m[w0] = b
      /\ \A n, k \in N : S[n] = S[k] => n = k
      /\ TreeWord(N, Slot(m, S[d])) /\ m[Slot(m, S[d])] = d
  BY <1>1, <1>2, <1>6, NodesApart
<1>9. w0 \notin {d + 8, d + 12}
  <2>1. m[d + 8] = b => hi[b] = S[d]
    BY <1>1, <1>2, <1>4, <1>6 DEF Tree, Branched
  <2>2. m[d + 8] # b /\ m[d + 12] # b
    BY <1>1, <1>4, <1>6, <1>7, <2>1
  <2>. QED  BY <1>8, <2>2
<1>10. Tree(m1, S, R, Renamed(lo, R, S[d], lo[d]), Renamed(hi, R, S[d], hi[d]))
  <2>1. TreeKept(m, m1, N, Slot(m, S[d]))
    BY <1>1, TreeWordsInMemory DEF TreeKept
  <2>2. m[d + 12] = 0 /\ m1[Slot(m, S[d])] = m[d + 8] /\ d \in N
    BY <1>6
  <2>. QED  BY <1>1, <1>2, <2>1, <2>2, NodeSpliced
<1>. DEFINE lo1 == Renamed(lo, R, S[d], lo[d])
            hi1 == Renamed(hi, R, S[d], hi[d])
<1>11. \A n \in R : /\ lo1[n] = IF lo[n] = S[d] THEN lo[d] ELSE lo[n]
                    /\ hi1[n] = IF hi[n] = S[d] THEN hi[d] ELSE hi[n]
  BY DEF Renamed
<1>. HIDE DEF lo1, hi1
<1>12. Laid(m1, S, G)
  <2>1. \A c \in G : c - 4 # Slot(m, S[d]) /\ c - 4 \in DOMAIN m
    <3>1. ASSUME NEW c \in G, NEW n \in N PROVE c - 4 # n + 8 /\ c - 4 # n + 12
      <4>1. c \in Nat /\ n \in Nat /\ Big(S[n])
        BY <1>1, <1>3 DEF Laid
      <4>2. c = n \/ c # n
        OBVIOUS
      <4>. QED  BY <1>1, <4>1, <4>2, LinksApart
    <3>2. \A c \in G : c - 4 # ptr_big
      BY LinksHigh, Places
    <3>. QED  BY <1>8, <3>1, <3>2 DEF TreeWord, Laid
  <2>. QED  BY <2>1, LaidStays
<1>13. R \in SUBSET G /\ AllBig(S, R) /\ b \in R /\ d \in G /\ d \notin R /\ Big(S[d])
  BY <1>1, <1>3, <1>6, <1>7 DEF AllBig
<1>14. Slot(m1, S[b]) = w0
  <2>1. TreeWord(R, w0)
    BY <1>8, <1>9 DEF TreeWord
  <2>2. w0 # Slot(m, S[d])
    BY <1>7, <1>8
  <2>3. m1[w0] = b
    BY <1>1, <1>8, <2>2, TreeWordsInMemory
  <2>4. Tree(m1, S, R, lo1, hi1)
    BY <1>10 DEF lo1, hi1
  <2>. QED  BY <1>12, <1>13, <2>1, <2>3, <2>4, NodesApart
<1>15. lo1[b] < S[d] /\ S[d] < hi1[b]
  <2>1. lo1[b] = lo[b] /\ hi1[b] = hi[b]
    BY <1>1, <1>4, <1>6, <1>7, <1>11, <1>13
  <2>. QED  BY <1>1, <1>4, <1>6, <1>7, <2>1
<1>16. ASSUME NEW n \in R \ {b}, hi1[n] = S[b] PROVE S[n] < S[d]
  <2>1. n \in N /\ n # d /\ n # b
    OBVIOUS
  <2>2. hi[n] = S[b] \/ hi[n] = S[d]
    BY <1>11, <1>16
  <2>3. lo[b] < S[n] => S[n] < S[d]
    <3>1. S[n] < S[b]
      BY <1>1, <1>4, <1>6, <1>7, <2>1, <2>2
    <3>2. S[n] # S[d]
      BY <1>6, <1>8, <2>1
    <3>. QED  BY <1>4, <1>6, <2>1, <3>1, <3>2
  <2>4. ~(lo[b] < S[n]) => S[n] < S[d]
    BY <1>1, <1>4, <1>6, <1>7, <2>1
  <2>. QED  BY <2>3, <2>4
<1>17. ASSUME NEW n \in R \ {b}, lo1[n] = S[b] PROVE S[n] > S[d]
  <2>1. n \in N /\ lo[n] <= S[n]
    BY <1>4
  <2>2. S[n] > S[b]
    BY <1>1, <1>4, <1>6, <1>7, <1>11, <1>17, <2>1
  <2>. QED  BY <1>1, <1>4, <1>6, <1>7, <2>1, <2>2
<1>. HIDE DEF R, lo1, hi1, w0
<1>18. \E lo2, hi2 : Tree(m2, S, (R \ {b}) \cup {d}, lo2, hi2)
  <2>1. \A v : TreeWord(R \ {b}, v) => v \in DOMAIN m /\ v # d + 8 /\ v # d + 12
    <3>1. ASSUME NEW n \in R PROVE n + 8 # d + 8 /\ n + 8 # d + 12 /\ n + 12 # d + 8 /\ n + 12 # d + 12
      BY <1>13, LinksApart DEF AllBig
    <3>2. ptr_big # d + 8 /\ ptr_big # d + 12
      BY <1>4, <1>6, Places
    <3>3. \A v : TreeWord(R \ {b}, v) => TreeWord(N, v)
      BY DEF TreeWord, R
    <3>4. \A v : TreeWord(R \ {b}, v) => v \in DOMAIN m
      BY <1>1, <3>3, TreeWordsInMemory
    <3>. QED  BY <3>1, <3>2, <3>4 DEF TreeWord
  <2>2. TreeKept(m1, m2, R \ {b}, Slot(m1, S[b]))
    BY <1>14, <2>1 DEF w0, TreeKept
  <2>3. m2[Slot(m1, S[b])] = d /\ m2[d + 8] = m1[b + 8] /\ m2[d + 12] = m1[b + 12]
    BY <1>14 DEF w0
  <2>4. Tree(m1, S, R, lo1, hi1)
    BY <1>10 DEF R, lo1, hi1
  <2>5. Parts(S, R, lo1, hi1, b, S[d])
    BY <1>16, <1>17 DEF Parts
  <2>. QED  BY <1>12, <1>13, <1>15, <2>2, <2>3, <2>4, <2>5, NodeReplaced
<1>19. (R \ {b}) \cup {d} = N \ {b}
  BY <1>6, <1>7 DEF R
<1>20. \A w \in DOMAIN m : ~TreeWord(N, w) => m2[w] = m[w]
  <2>1. TreeWord(N, d + 8) /\ TreeWord(N, d + 12)
    BY <1>6 DEF TreeWord
  <2>. QED  BY <1>8, <2>1 DEF w0
<1>21. \E lo2, hi2 : Tree(m2, S, N \ {b}, lo2, hi2)
  BY <1>18, <1>19
<1>22. Listed(m2, S, F \ {b}) /\ Framed(m, m2, S, F)
  BY <1>20, <1>21, NodeLeaves DEF N
<1>23. S[d] # S[b] /\ d \in F
  BY <1>1, <1>4, <1>6, <1>7
<1>. QED  BY <1>3, <1>6, <1>7, <1>9, <1>22, <1>23 DEF w0

-----------------------------------------------------------------------------
(* What add_block and delete_block do.                                      *)

(* Two words written. *)
LEMMA TwoPuts ==
    ASSUME NEW m, NEW p \in DOMAIN m, NEW q \in DOMAIN m, p # q, NEW x, NEW y
    PROVE  LET m2 == PUT(PUT(m, p, x), q, y)
           IN  /\ DOMAIN m2 = DOMAIN m /\ m2[p] = x /\ m2[q] = y
               /\ \A w \in DOMAIN m : w # p /\ w # q => m2[w] = m[w]
<1>1. DOMAIN PUT(m, p, x) = DOMAIN m
  BY PutIs
<1>. QED  BY <1>1, PutIs

(* Three words written. *)
LEMMA ThreePuts ==
    ASSUME NEW m, NEW p \in DOMAIN m, NEW q \in DOMAIN m, NEW r \in DOMAIN m, p # q, p # r, q # r,
           NEW x, NEW y, NEW z
    PROVE  LET m2 == PUT(PUT(PUT(m, p, x), q, y), r, z)
           IN  /\ DOMAIN m2 = DOMAIN m /\ m2[p] = x /\ m2[q] = y /\ m2[r] = z
               /\ \A w \in DOMAIN m : w # p /\ w # q /\ w # r => m2[w] = m[w]
<1>. DEFINE m1 == PUT(PUT(m, p, x), q, y)
<1>1. /\ DOMAIN m1 = DOMAIN m /\ m1[p] = x /\ m1[q] = y
      /\ \A w \in DOMAIN m : w # p /\ w # q => m1[w] = m[w]
  BY TwoPuts
<1>. HIDE DEF m1
<1>2. LET m2 == PUT(m1, r, z)
      IN  /\ DOMAIN m2 = DOMAIN m /\ m2[p] = x /\ m2[q] = y /\ m2[r] = z
          /\ \A w \in DOMAIN m : w # p /\ w # q /\ w # r => m2[w] = m[w]
  BY <1>1, PutIs
<1>. QED  BY <1>2 DEF m1

(* The pointers of a block. *)
LEMMA Pointers ==
    ASSUME NEW bp
    PROVE  /\ PTR_NEXT_PTR(bp) = bp /\ PTR_PREV_PTR(bp) = bp + 4
           /\ PTR_LEFT_PTR(bp) = bp + 8 /\ PTR_RIGHT_PTR(bp) = bp + 12 /\ HDRP(bp) = bp - 4
  BY Places DEF PTR_NEXT_PTR, PTR_PREV_PTR, PTR_LEFT_PTR, PTR_RIGHT_PTR, HDRP

(* the word at which the list of a size starts *)
ListWord(m, size) == IF Big(size) THEN Slot(m, size) ELSE PTR_LIST(size)

(* The word at which the list of a listed or new block's size starts, and
   what it holds. *)
LEMMA ListStarts ==
    ASSUME NEW m, NEW S, NEW G, NEW F \in SUBSET G, Laid(m, S, G), Listed(m, S, F), NEW b \in G
    PROVE  LET w == ListWord(m, S[b])
           IN  /\ w \in DOMAIN m
               /\ \A c \in G : w # c /\ w # c + 4
               /\ Big(S[b]) /\ b \notin Nodes(m, S, F) => w # b + 8 /\ w # b + 12
               /\ m[w] # 0 => m[w] \in F /\ S[m[w]] = S[b] /\ m[m[w] + 4] = 0
               /\ \A c \in F : S[c] = S[b] /\ m[c + 4] = 0 => m[w] = c
<1>. DEFINE N == Nodes(m, S, F)
            s == S[b]
<1>1. CASE ~Big(s)
  <2>1. IsSmall(s)
    BY <1>1, LinkWords
  <2>. QED  BY <1>1, <2>1, LinkWords DEF ListWord, Listed, Headed
<1>2. CASE Big(s)
  <2>1. PICK lo, hi : Tree(m, S, N, lo, hi)
    BY DEF Listed
  <2>2. N \in SUBSET G /\ AllBig(S, N) /\ \A c \in F : c \in N <=> Big(S[c]) /\ m[c + 4] = 0
    BY DEF Nodes, AllBig
  <2>3. s \in Int /\ 0 < s /\ s < MaxSize
    BY DEF Laid
  <2>4. N \subseteq F
    BY DEF Nodes
  <2>. HIDE DEF N, s
  <2>5. \A n \in N : TreeWord(N, Slot(m, S[n])) /\ m[Slot(m, S[n])] = n
    BY <2>1, <2>2, NodesApart
  <2>6. TreeWord(N, Slot(m, s)) /\ (m[Slot(m, s)] # 0 => m[Slot(m, s)] \in N /\ S[m[Slot(m, s)]] = s)
    <3>1. CASE \A n \in N : S[n] # s
      <4>1. Gap(m, S, N, lo, hi, s, Slot(m, s))
        BY <2>1, <2>2, <2>3, <3>1, SlotFindsPlace
      <4>. QED  BY <4>1 DEF Gap, TreeWord
    <3>2. CASE \E n \in N : S[n] = s
      BY <2>5, <3>2
    <3>. QED  BY <3>1, <3>2
  <2>. DEFINE w == Slot(m, s)
  <2>7. w \in DOMAIN m /\ (\A c \in G : w # c /\ w # c + 4) /\ (b \notin N => w # b + 8 /\ w # b + 12)
    <3>. HIDE DEF w
    <3>1. TreeWord(N, w)
      BY <2>6 DEF w
    <3>. QED  BY <1>2, <3>1, TreeWordsElsewhere DEF N, s
  <2>8. \A c \in F : S[c] = s /\ m[c + 4] = 0 => m[w] = c
    BY <1>2, <2>2, <2>5
  <2>. QED  BY <1>2, <2>2, <2>4, <2>6, <2>7, <2>8 DEF ListWord, N, s
<1>. QED  BY <1>1, <1>2

(* add_block: a block goes at the end of the list of its size, or becomes the
   only one on it. *)
LEMMA AddBlock ==
    ASSUME NEW m, NEW S, NEW G, NEW F \in SUBSET G, Laid(m, S, G), Listed(m, S, F),
           NEW b \in G, b \notin F
    PROVE  /\ Listed(add_block(m, b), S, F \cup {b})
           /\ Framed(m, add_block(m, b), S, F \cup {b})
<1>. DEFINE w == ListWord(m, S[b])
            m2 == add_block(m, b)
<1>1. Size(m, b) = S[b] /\ b \in DOMAIN m /\ b + 4 \in DOMAIN m /\ b # b + 4 /\ b \in Nat
      /\ (Big(S[b]) => b + 8 \in DOMAIN m /\ b + 12 \in DOMAIN m)
  BY LinkWords DEF Laid
<1>2. b \notin Nodes(m, S, F)
  BY DEF Nodes
<1>3. /\ w \in DOMAIN m
      /\ \A c \in G : w # c /\ w # c + 4
      /\ Big(S[b]) => w # b + 8 /\ w # b + 12
      /\ m[w] # 0 => m[w] \in F /\ S[m[w]] = S[b] /\ m[m[w] + 4] = 0
  BY <1>2, ListStarts
<1>. HIDE DEF w, m2
<1>4. CASE m[w] # 0
  <2>. DEFINE last == LastOf(m, m[w])
  <2>1. m2 = PUT(PUT(PUT(m, last, b), b, 0), b + 4, last)
    BY <1>1, <1>4, Pointers DEF w, m2, ListWord, add_block, add_free_block, find_precise
  <2>2. last \in F /\ S[last] = S[b] /\ m[last] = 0
    <3>1. PICK pos, n : Ordered(m, F, pos, n)
      BY DEF Listed
    <3>2. Chained(m, S, F)
      BY DEF Listed
    <3>. DEFINE h == m[w]
    <3>3. h \in F /\ S[h] = S[b]
      BY <1>3, <1>4
    <3>. HIDE DEF h
    <3>4. LastOf(m, h) \in F /\ S[LastOf(m, h)] = S[h] /\ m[LastOf(m, h)] = 0
      BY <3>1, <3>2, <3>3, LastIsLast
    <3>. QED  BY <3>3, <3>4 DEF h
  <2>. HIDE DEF last
  <2>3. last \in DOMAIN m /\ last # b /\ last # b + 4
    BY <2>2, LinkWords
  <2>4. /\ m2[last] = b /\ m2[b] = 0 /\ m2[b + 4] = last /\ DOMAIN m2 = DOMAIN m
        /\ \A v \in DOMAIN m : v \notin {last, b, b + 4} => m2[v] = m[v]
    BY <1>1, <2>1, <2>3, ThreePuts
  <2>5. Listed(m2, S, F \cup {b}) /\ Framed(m, m2, S, F \cup {b})
    BY <2>2, <2>4, Appended
  <2>. QED  BY <2>5 DEF m2
<1>5. CASE m[w] = 0 /\ ~Big(S[b])
  <2>1. m2 = PUT(PUT(PUT(m, w, b), b, 0), b + 4, 0)
    BY <1>1, <1>5, Pointers DEF w, m2, ListWord, add_block, add_free_block, Start
  <2>2. /\ m2[w] = b /\ m2[b] = 0 /\ m2[b + 4] = 0 /\ DOMAIN m2 = DOMAIN m
        /\ \A v \in DOMAIN m : v \notin {w, b, b + 4} => m2[v] = m[v]
    BY <1>1, <1>3, <2>1, ThreePuts
  <2>3. w = PTR_LIST(S[b])
    BY <1>5 DEF w, ListWord
  <2>4. Listed(m2, S, F \cup {b}) /\ Framed(m, m2, S, F \cup {b})
    BY <1>5, <2>2, <2>3, SmallStarted
  <2>. QED  BY <2>4 DEF m2
<1>6. CASE m[w] = 0 /\ Big(S[b])
  <2>. DEFINE m1 == PUT(PUT(PUT(m, w, b), b, 0), b + 4, 0)
  <2>1. m2 = PUT(PUT(m1, b + 8, 0), b + 12, 0)
    BY <1>1, <1>6, Pointers DEF w, m2, ListWord, add_block, add_block_list, Start, find_precise
  <2>2. /\ m1[w] = b /\ m1[b] = 0 /\ m1[b + 4] = 0 /\ DOMAIN m1 = DOMAIN m
        /\ \A v \in DOMAIN m : v \notin {w, b, b + 4} => m1[v] = m[v]
    BY <1>1, <1>3, ThreePuts
  <2>. HIDE DEF m1
  <2>3. /\ m2[b + 8] = 0 /\ m2[b + 12] = 0 /\ DOMAIN m2 = DOMAIN m
        /\ \A v \in DOMAIN m : v # b + 8 /\ v # b + 12 => m2[v] = m1[v]
    BY <1>1, <1>6, <2>1, <2>2, TwoPuts
  <2>4. /\ m2[w] = b /\ m2[b] = 0 /\ m2[b + 4] = 0
        /\ \A v \in DOMAIN m : v \notin {w, b, b + 4, b + 8, b + 12} => m2[v] = m[v]
    BY <1>1, <1>3, <1>6, <2>2, <2>3
  <2>5. w = Slot(m, S[b])
    BY <1>6 DEF w, ListWord
  <2>6. Listed(m2, S, F \cup {b}) /\ Framed(m, m2, S, F \cup {b})
    BY <1>6, <2>3, <2>4, <2>5, LeafStarted
  <2>. QED  BY <2>6 DEF m2
<1>. QED  BY <1>4, <1>5, <1>6

(* delete_free_block: the first block of a list of small blocks, or of several
   of a large size. *)
LEMMA DeleteFirstIs ==
    ASSUME NEW m, NEW S, NEW G, NEW F \in SUBSET G, Laid(m, S, G), Listed(m, S, F),
           NEW b \in F, m[b + 4] = 0, Big(S[b]) => m[b] # 0
    PROVE  LET m2 == DeleteFirst(m, ListWord(m, S[b]), b)
           IN  Listed(m2, S, F \ {b}) /\ Framed(m, m2, S, F)
<1>. DEFINE w == ListWord(m, S[b])
            m2 == DeleteFirst(m, w, b)
            k == m[b]
<1>1. Size(m, b) = S[b] /\ b \in Nat
  BY LinkWords DEF Laid
<1>2. w \in DOMAIN m /\ \A c \in G : w # c /\ w # c + 4
  BY ListStarts
<1>3. k \in F \cup {0} /\ (k # 0 => S[k] = S[b] /\ m[k + 4] = b)
  BY DEF Listed, Chained
<1>4. k # 0 => /\ k + 4 \in DOMAIN m /\ k \in Nat /\ (Big(S[b]) => k + 8 \in DOMAIN m /\ k + 12 \in DOMAIN m)
               /\ k \notin Nodes(m, S, F)
  <2>. SUFFICES ASSUME k # 0
                PROVE  /\ k + 4 \in DOMAIN m /\ k \in Nat /\ (Big(S[b]) => k + 8 \in DOMAIN m /\ k + 12 \in DOMAIN m)
                       /\ k \notin Nodes(m, S, F)
    OBVIOUS
  <2>1. k \in F /\ k \in G /\ S[k] = S[b] /\ m[k + 4] = b
    BY <1>3
  <2>. HIDE DEF k
  <2>2. k + 4 \in DOMAIN m /\ k \in Nat /\ (Big(S[k]) => k + 8 \in DOMAIN m /\ k + 12 \in DOMAIN m)
    BY <2>1 DEF Laid
  <2>3. b # 0
    BY LinkWords
  <2>. QED  BY <2>1, <2>2, <2>3 DEF Nodes
<1>5. ASSUME k # 0, Big(S[b]) PROVE w # k + 8 /\ w # k + 12
  <2>. HIDE DEF w, k
  <2>1. k \in G /\ S[k] = S[b] /\ k \notin Nodes(m, S, F)
    BY <1>3, <1>4, <1>5
  <2>2. ListWord(m, S[k]) # k + 8 /\ ListWord(m, S[k]) # k + 12
    BY <1>5, <2>1, ListStarts
  <2>. QED  BY <2>1, <2>2 DEF w
<1>. HIDE DEF w, m2
<1>6. CASE ~Big(S[b]) /\ k = 0
  <2>1. m2 = PUT(m, w, k)
    BY <1>1, <1>6, Pointers DEF m2, DeleteFirst
  <2>2. m2[w] = k /\ DOMAIN m2 = DOMAIN m /\ \A v \in DOMAIN m : v # w => m2[v] = m[v]
    BY <1>2, <2>1, PutIs
  <2>3. w = PTR_LIST(S[b])
    BY <1>6 DEF w, ListWord
  <2>4. Listed(m2, S, F \ {b}) /\ Framed(m, m2, S, F)
    BY <1>6, <2>2, <2>3, SmallFirstLeaves
  <2>. QED  BY <2>4 DEF m2, w
<1>7. CASE ~Big(S[b]) /\ k # 0
  <2>1. m2 = PUT(PUT(m, w, k), k + 4, 0)
    BY <1>1, <1>7, Pointers DEF m2, DeleteFirst
  <2>2. w # k + 4
    BY <1>2, <1>3, <1>7
  <2>. HIDE DEF k
  <2>3. /\ m2[w] = k /\ m2[k + 4] = 0 /\ DOMAIN m2 = DOMAIN m
        /\ \A v \in DOMAIN m : v # w /\ v # k + 4 => m2[v] = m[v]
    BY <1>2, <1>4, <1>7, <2>1, <2>2, TwoPuts
  <2>. USE DEF k
  <2>4. w = PTR_LIST(S[b])
    BY <1>7 DEF w, ListWord
  <2>5. Listed(m2, S, F \ {b}) /\ Framed(m, m2, S, F)
    BY <1>7, <2>3, <2>4, SmallFirstLeaves
  <2>. QED  BY <2>5 DEF m2, w
<1>8. CASE Big(S[b])
  <2>. DEFINE m1 == PUT(PUT(m, k + 8, m[b + 8]), k + 12, m[b + 12])
  <2>0. k # 0
    BY <1>8
  <2>1. m2 = PUT(PUT(m1, w, k), k + 4, 0)
    BY <1>1, <1>8, <2>0, Pointers DEF m2, DeleteFirst
  <2>. HIDE DEF k
  <2>2. k + 8 # k + 12 /\ k + 4 # k + 8 /\ k + 4 # k + 12 /\ w # k + 4 /\ w # k + 8 /\ w # k + 12
    BY <1>2, <1>3, <1>4, <1>5, <1>8, <2>0
  <2>3. /\ m1[k + 8] = m[b + 8] /\ m1[k + 12] = m[b + 12] /\ DOMAIN m1 = DOMAIN m
        /\ \A v \in DOMAIN m : v # k + 8 /\ v # k + 12 => m1[v] = m[v]
    BY <1>4, <1>8, <2>0, <2>2, TwoPuts
  <2>. HIDE DEF m1
  <2>4. /\ m2[w] = k /\ m2[k + 4] = 0 /\ DOMAIN m2 = DOMAIN m
        /\ \A v \in DOMAIN m : v # w /\ v # k + 4 => m2[v] = m1[v]
    BY <1>2, <1>4, <2>0, <2>1, <2>2, <2>3, TwoPuts
  <2>5. m2[k + 8] = m[b + 8] /\ m2[k + 12] = m[b + 12]
    BY <1>4, <1>8, <2>0, <2>2, <2>3, <2>4
  <2>6. \A v \in DOMAIN m : v \notin {w, k + 4, k + 8, k + 12} => m2[v] = m[v]
    BY <2>3, <2>4
  <2>7. w = Slot(m, S[b])
    BY <1>8 DEF w, ListWord
  <2>8. k = m[b]
    BY DEF k
  <2>9. Listed(m2, S, F \ {b}) /\ Framed(m, m2, S, F)
    BY <1>8, <2>0, <2>4, <2>5, <2>6, <2>7, <2>8, BigFirstLeaves
  <2>. QED  BY <2>9 DEF m2, w
<1>. QED  BY <1>6, <1>7, <1>8

(* delete_free_block: a block behind the first one of its list. *)
LEMMA DeleteBehindIs ==
    ASSUME NEW m, NEW S, NEW G, NEW F \in SUBSET G, Laid(m, S, G), Listed(m, S, F),
           NEW b \in F, NEW p, p = m[b + 4], p # 0, NEW m2,
           m2 = LET linked == PUT(m, PTR_NEXT_PTR(p), m[b])
                IN  IF m[b] = 0 THEN linked ELSE PUT(linked, PTR_PREV_PTR(m[b]), p)
    PROVE  Listed(m2, S, F \ {b}) /\ Framed(m, m2, S, F)
<1>. DEFINE k == m[b]
<1>1. p \in F /\ p \in DOMAIN m
  BY LinkWords DEF Listed, Chained
<1>2. k \in F \cup {0}
  BY DEF Listed, Chained
<1>3. k # 0 => k + 4 \in DOMAIN m /\ p # k + 4
  BY <1>1, <1>2, LinkWords
<1>4. CASE k = 0
  <2>1. m2 = PUT(m, p, k)
    BY <1>4, Pointers
  <2>2. m2[p] = k /\ DOMAIN m2 = DOMAIN m /\ \A v \in DOMAIN m : v # p => m2[v] = m[v]
    BY <1>1, <2>1, PutIs
  <2>. QED  BY <1>4, <2>2, Unlinked
<1>5. CASE k # 0
  <2>1. m2 = PUT(PUT(m, p, k), k + 4, p)
    BY <1>5, Pointers
  <2>. HIDE DEF k
  <2>2. /\ m2[p] = k /\ m2[k + 4] = p /\ DOMAIN m2 = DOMAIN m
        /\ \A v \in DOMAIN m : v # p /\ v # k + 4 => m2[v] = m[v]
    BY <1>1, <1>3, <1>5, <2>1, TwoPuts
  <2>. QED  BY <1>5, <2>2, Unlinked DEF k
<1>. QED  BY <1>4, <1>5

(* delete_block_list: the only block of a large size. *)
LEMMA DeleteNodeIs ==
    ASSUME NEW m, NEW S, NEW G, NEW F \in SUBSET G, Laid(m, S, G), Listed(m, S, F),
           NEW b \in F, m[b + 4] = 0, m[b] = 0, Big(S[b])
    PROVE  Listed(delete_block_list(m, b), S, F \ {b}) /\ Framed(m, delete_block_list(m, b), S, F)
<1>. DEFINE m2 == delete_block_list(m, b)
            N == Nodes(m, S, F)
            w0 == Slot(m, S[b])
<1>1. Size(m, b) = S[b] /\ b \in Nat
  BY LinkWords DEF Laid
<1>2. b \in N
  BY DEF Nodes
<1>3. PICK lo, hi : Tree(m, S, N, lo, hi)
  BY DEF Listed
<1>4. w0 \in DOMAIN m /\ TreeWord(N, w0)
  BY <1>2, <1>3, NodeWord
<1>. HIDE DEF w0, m2
<1>5. CASE m[b + 8] = 0 \/ m[b + 12] = 0
  <2>. DEFINE x == IF m[b + 8] = 0 THEN m[b + 12] ELSE m[b + 8]
  <2>1. m2 = PUT(m, w0, x)
    BY <1>1, <1>5, Pointers DEF m2, w0, delete_block_list, Splice
  <2>2. m2[w0] = x /\ DOMAIN m2 = DOMAIN m /\ \A v \in DOMAIN m : v # w0 => m2[v] = m[v]
    BY <1>4, <2>1, PutIs
  <2>3. (m[b + 8] = 0 /\ x = m[b + 12]) \/ (m[b + 12] = 0 /\ x = m[b + 8])
    BY <1>5
  <2>. HIDE DEF x
  <2>4. Listed(m2, S, F \ {b}) /\ Framed(m, m2, S, F)
    BY <2>2, <2>3, LeafLeaves DEF w0
  <2>. QED  BY <2>4 DEF m2
<1>6. CASE m[b + 8] # 0 /\ m[b + 12] # 0
  <2>. DEFINE d == find_biggest(m, m[b + 8])
              m1 == Splice(m, d)
              v0 == Slot(m, S[d])
              hung == PUT(m1, w0, d)
              left == PUT(hung, d + 8, m1[b + 8])
  <2>1. m2 = PUT(left, d + 12, m1[b + 12])
    BY <1>1, <1>6, Pointers DEF m2, w0, delete_block_list
  <2>2. N \in SUBSET G /\ AllBig(S, N) /\ \A n \in N : Big(S[n]) /\ n \in F
    BY DEF Nodes, AllBig
  <2>3. m[b + 8] \in N
    BY <1>2, <1>3, <1>6 DEF Tree, Branched
  <2>. HIDE DEF N
  <2>4. d \in N /\ m[d + 12] = 0
    BY <1>3, <2>2, <2>3, BiggestIs
  <2>. HIDE DEF d
  <2>5. /\ Size(m, d) = S[d] /\ d \in Nat /\ d \in G /\ d + 8 \in DOMAIN m /\ d + 12 \in DOMAIN m
        /\ v0 \in DOMAIN m
    <3>1. v0 \in DOMAIN m
      BY <1>3, <2>4, NodeWord DEF N
    <3>. QED  BY <2>2, <2>4, <3>1, LinkWords DEF Laid
  <2>6. m1 = PUT(m, v0, m[d + 8])
    BY <2>4, <2>5, Pointers DEF Splice
  <2>. HIDE DEF v0
  <2>7. m1[v0] = m[d + 8] /\ DOMAIN m1 = DOMAIN m /\ \A v \in DOMAIN m : v # v0 => m1[v] = m[v]
    BY <2>5, <2>6, PutIs
  <2>. HIDE DEF m1
  <2>8. w0 # d + 8 /\ w0 # d + 12 /\ d + 8 # d + 12
    <3>1. w0 # d + 8 /\ w0 # d + 12
      <4>1. m[w0] = b
        BY <1>2, <1>3, NodeWord DEF w0, N
      <4>2. /\ MaxSize \in Nat /\ 0 \notin N
            /\ \A n \in N : /\ lo[n] \in Int /\ hi[n] \in Int
                            /\ 0 <= lo[n] /\ lo[n] < S[n] /\ S[n] < hi[n] /\ hi[n] <= MaxSize
            /\ \A c \in G : c \in Nat /\ c > ptr_big /\ S[c] \in Nat /\ S[c] < MaxSize
        BY <1>3, <2>2, BoundsOrder
      <4>3. hi[m[b + 8]] = S[b] /\ hi[d] = hi[m[b + 8]]
        <5>1. hi[m[b + 8]] = S[b]
          BY <1>2, <1>3, <1>6 DEF Tree, Branched
        <5>2. hi[d] = hi[m[b + 8]]
          BY <1>3, <2>2, <2>3, BiggestIs DEF d
        <5>. QED  BY <5>1, <5>2
      <4>4. m[d + 8] # b
        <5>1. m[d + 8] = b => hi[b] = S[d]
          BY <1>2, <1>3, <2>4, <4>2 DEF Tree, Branched
        <5>. QED  BY <1>2, <2>2, <2>4, <4>2, <4>3, <5>1
      <4>5. m[d + 12] # b
        BY <1>2, <2>4, <4>2
      <4>. QED  BY <2>4, <4>1, <4>4, <4>5
    <3>. QED  BY <2>5, <3>1
  <2>9. /\ m2[w0] = d /\ m2[d + 8] = m1[b + 8] /\ m2[d + 12] = m1[b + 12] /\ DOMAIN m2 = DOMAIN m
        /\ \A v \in DOMAIN m : v \notin {w0, d + 8, d + 12} => m2[v] = m1[v]
    BY <1>4, <2>1, <2>5, <2>7, <2>8, ThreePuts
  <2>10. d = find_biggest(m, m[b + 8])
    BY DEF d
  <2>11. Listed(m2, S, F \ {b}) /\ Framed(m, m2, S, F)
    BY <1>6, <2>7, <2>9, <2>10, ForkLeaves DEF w0, v0
  <2>. QED  BY <2>11 DEF m2
<1>. QED  BY <1>5, <1>6

(* delete_block: a block leaves the lists. *)
LEMMA DeleteBlock ==
    ASSUME NEW m, NEW S, NEW G, NEW F \in SUBSET G, Laid(m, S, G), Listed(m, S, F), NEW b \in F
    PROVE  /\ Listed(delete_block(m, b), S, F \ {b})
           /\ Framed(m, delete_block(m, b), S, F)
<1>. DEFINE w == ListWord(m, S[b])
<1>1. Size(m, b) = S[b] /\ b \in Nat /\ 0 \notin DOMAIN m /\ F \subseteq DOMAIN m
  BY LinkWords DEF Laid
<1>2. PICK pos, n : Ordered(m, F, pos, n)
  BY DEF Listed
<1>3. Chained(m, S, F)
  BY DEF Listed
<1>4. PICK h \in F : /\ S[h] = S[b] /\ m[h + 4] = 0
                     /\ m[b + 4] # 0 => h # b /\ Before(m, h, b) = m[b + 4]
  BY <1>2, <1>3, FirstExists
<1>5. m[w] = h
  BY <1>4, ListStarts
<1>6. m[h] = 0 => h = b
  <2>. SUFFICES ASSUME m[h] = 0, h # b PROVE FALSE
    OBVIOUS
  <2>1. m[b + 4] = 0 => m[w] = b
    BY ListStarts
  <2>2. m[b + 4] # 0
    BY <1>5, <2>1
  <2>3. Before(m, h, b) = h
    BY <1>1, BeforeSteps
  <2>4. m[m[b + 4]] = b
    BY <1>3, <2>2 DEF Chained
  <2>5. m[h] = b
    BY <1>4, <2>2, <2>3, <2>4
  <2>. QED  BY <1>1, <2>5
<1>. HIDE DEF w
<1>7. CASE Big(S[b]) /\ m[h] = 0
  <2>1. delete_block(m, b) = delete_block_list(m, b)
    BY <1>1, <1>5, <1>6, <1>7, Pointers DEF delete_block, w, ListWord
  <2>2. m[b + 4] = 0 /\ m[b] = 0
    BY <1>4, <1>6, <1>7
  <2>. QED  BY <1>7, <2>1, <2>2, DeleteNodeIs
<1>8. CASE ~(Big(S[b]) /\ m[h] = 0)
  <2>1. delete_block(m, b) = delete_free_block(m, w, b)
    BY <1>1, <1>5, <1>8, Pointers DEF delete_block, w, ListWord
  <2>2. CASE h = b
    <3>1. delete_free_block(m, w, b) = DeleteFirst(m, w, b)
      BY <1>5, <2>2 DEF delete_free_block
    <3>2. m[b + 4] = 0 /\ (Big(S[b]) => m[b] # 0)
      BY <1>4, <1>8, <2>2
    <3>. QED  BY <2>1, <3>1, <3>2, DeleteFirstIs DEF w
  <2>3. CASE h # b
    <3>. DEFINE p == m[b + 4]
                m2 == delete_free_block(m, w, b)
    <3>1. p # 0
      <4>1. p = 0 => m[w] = b
        BY ListStarts DEF w
      <4>. QED  BY <1>5, <2>3, <4>1
    <3>2. Before(m, h, b) = p
      BY <1>4, <3>1
    <3>3. m2 = LET linked == PUT(m, PTR_NEXT_PTR(p), m[b])
               IN  IF m[b] = 0 THEN linked ELSE PUT(linked, PTR_PREV_PTR(m[b]), p)
      BY <1>5, <2>3, <3>2, Pointers DEF delete_free_block
    <3>. HIDE DEF m2
    <3>4. Listed(m2, S, F \ {b}) /\ Framed(m, m2, S, F)
      BY <3>1, <3>3, DeleteBehindIs
    <3>. QED  BY <2>1, <3>4 DEF m2
  <2>. QED  BY <2>2, <2>3
<1>. QED  BY <1>7, <1>8

-----------------------------------------------------------------------------
(* What findfit finds.                                                      *)

(* Where a node has no left child there is no node. *)
LEMMA NothingLeft ==
    ASSUME NEW m, NEW S, NEW G, NEW N \in SUBSET G, Laid(m, S, G), AllBig(S, N),
           NEW lo, NEW hi, Tree(m, S, N, lo, hi), NEW n \in N, m[n + 8] = 0,
           NEW k \in N, lo[n] < S[k], S[k] < S[n]
    PROVE  FALSE
<1>. DEFINE s == S[k]
<1>0. /\ 0 \notin N
      /\ \A c \in N : /\ lo[c] \in Int /\ hi[c] \in Int /\ S[c] \in Int /\ c \in Nat
                      /\ 0 <= lo[c] /\ lo[c] < S[c] /\ S[c] < hi[c] /\ hi[c] <= MaxSize
  BY BoundsOrder
<1>1. s \in Int /\ lo[n] < s /\ s < hi[n] /\ S[n] > s /\ S[n] # s
  BY <1>0
<1>2. m[Slot(m, s)] = k
  BY NodesApart
<1>. HIDE DEF s
<1>3. PICK g : /\ Slot(m, s) = g[ptr_big]
               /\ \A v \in DOMAIN m : m[v] = 0 => g[v] = v
               /\ \A v \in DOMAIN m : m[v] \in N =>
                      g[v] = IF S[m[v]] = s THEN v
                             ELSE IF S[m[v]] > s THEN g[m[v] + 8] ELSE g[m[v] + 12]
  BY SearchSteps
<1>4. PICK w : TreeWord(N, w) /\ m[w] = n
  BY NodesApart
<1>5. g[w] = g[ptr_big]
  BY <1>1, <1>3, <1>4, SearchComesBy
<1>6. w \in DOMAIN m /\ n + 8 \in DOMAIN m
  <2>1. TreeWord(N, n + 8)
    BY DEF TreeWord
  <2>. QED  BY <1>4, <2>1, TreeWordsInMemory
<1>7. g[w] = n + 8
  BY <1>1, <1>3, <1>4, <1>6
<1>. QED  BY <1>0, <1>2, <1>3, <1>5, <1>7

(* An empty tree has no nodes. *)
LEMMA NothingAtRoot ==
    ASSUME NEW m, NEW S, NEW G, NEW N \in SUBSET G, Laid(m, S, G), AllBig(S, N),
           NEW lo, NEW hi, Tree(m, S, N, lo, hi), m[ptr_big] = 0
    PROVE  N = {}
<1>1. ASSUME NEW s PROVE Slot(m, s) = ptr_big
  <2>1. ptr_big \in DOMAIN m
    BY DEF Laid
  <2>2. PICK f : Slot(m, s) = f[ptr_big] /\ \A w \in DOMAIN m : m[w] = 0 => f[w] = w
    BY SearchSteps
  <2>. QED  BY <2>1, <2>2
<1>2. \A n \in N : m[Slot(m, S[n])] = n
  BY NodesApart
<1>3. 0 \notin N
  BY BoundsOrder
<1>. QED  BY <1>1, <1>2, <1>3

(* Descend goes from node to node. *)
LEMMA DescendSteps ==
    ASSUME NEW m, NEW size
    PROVE  \E f : /\ \A node : Descend(m, node, size) = f[node]
                  /\ \A n \in DOMAIN m :
                         f[n] = IF Size(m, n) # size /\ Fits(m, m[Side(m, n, size)], size)
                                THEN f[m[Side(m, n, size)]] ELSE n
<1>. DEFINE child(n) == m[Side(m, n, size)]
            go(n) == Size(m, n) # size /\ Fits(m, child(n), size)
            stop == {n \in DOMAIN m : ~go(n)}
            next == [n \in DOMAIN m \ stop |-> child(n)]
            P(f) == f = [n \in DOMAIN m |->
                            IF Size(m, n) # size /\ Fits(m, child(n), size) THEN f[child(n)] ELSE n]
            g == CHOOSE f : P(f)
<1>1. \E f : P(f)
  <2>0. stop \in SUBSET DOMAIN m /\ next \in [DOMAIN m \ stop -> DOMAIN m]
    BY DEF Fits
  <2>1. PICK f : Walks(f, DOMAIN m, stop, next)
    <3>. HIDE DEF stop, next
    <3>. QED  BY <2>0, WalkingExists
  <2>. HIDE DEF child
  <2>2. \A x \in DOMAIN m : (IF x \in stop THEN x ELSE f[next[x]])
            = IF Size(m, x) # size /\ Fits(m, child(x), size) THEN f[child(x)] ELSE x
    OBVIOUS
  <2>3. P(f)
    BY <2>1, <2>2 DEF Walks
  <2>. QED  BY <2>3
<1>2. P(g)
  <2>. HIDE DEF P
  <2>. QED  BY <1>1
<1>3. \A node : Descend(m, node, size) = g[node]
  BY DEF Descend
<1>. HIDE DEF g
<1>4. ASSUME NEW n \in DOMAIN m
      PROVE  g[n] = IF Size(m, n) # size /\ Fits(m, child(n), size) THEN g[child(n)] ELSE n
  <2>. HIDE DEF child
  <2>. QED  BY <1>2
<1>. QED  BY <1>3, <1>4

(* It finds the smallest node of at least a size below one that fits. *)
LEMMA DescendFinds ==
    ASSUME NEW m, NEW S, NEW G, NEW N \in SUBSET G, Laid(m, S, G), AllBig(S, N),
           NEW lo, NEW hi, Tree(m, S, N, lo, hi), NEW n \in N, NEW size \in Nat, Fits(m, n, size)
    PROVE  LET x == Descend(m, n, size)
           IN  /\ x \in N /\ S[x] >= size
               /\ \A k \in N : lo[n] < S[k] /\ S[k] < hi[n] /\ S[k] >= size => S[x] <= S[k]
<1>0. /\ MaxSize \in Nat /\ 0 \notin N /\ 0 \notin DOMAIN m /\ N \subseteq DOMAIN m
      /\ \A k \in N : /\ lo[k] \in Int /\ hi[k] \in Int /\ S[k] \in Int
                      /\ 0 <= lo[k] /\ lo[k] < S[k] /\ S[k] < hi[k] /\ hi[k] <= MaxSize
      /\ \A k \in G : Size(m, k) = S[k]
  <2>1. 0 \notin DOMAIN m /\ N \subseteq DOMAIN m /\ \A k \in G : Size(m, k) = S[k]
    BY DEF Laid
  <2>. QED  BY <2>1, BoundsOrder
<1>1. PICK f : /\ \A node : Descend(m, node, size) = f[node]
               /\ \A b \in DOMAIN m :
                      f[b] = IF Size(m, b) # size /\ Fits(m, m[Side(m, b, size)], size)
                             THEN f[m[Side(m, b, size)]] ELSE b
  BY DescendSteps
<1>. DEFINE Good(k) == /\ f[k] \in N /\ S[f[k]] >= size
                       /\ \A j \in N : lo[k] < S[j] /\ S[j] < hi[k] /\ S[j] >= size => S[f[k]] <= S[j]
            Bad == {k \in N : Fits(m, k, size) /\ ~Good(k)}
            Ranks == {hi[k] - lo[k] : k \in Bad}
<1>2. \A k \in N : Fits(m, k, size) <=> S[find_biggest(m, k)] >= size
  <2>1. \A k \in N : find_biggest(m, k) \in N
    BY BiggestIs
  <2>. QED  BY <1>0, <2>1 DEF Fits
<1>3. Bad = {}
  <2>. SUFFICES ASSUME Bad # {} PROVE FALSE
    OBVIOUS
  <2>1. Ranks \in SUBSET Nat /\ Ranks # {}
    BY <1>0
  <2>2. PICK r \in Ranks : \A q \in Ranks : r <= q
    BY <2>1, LeastNatural
  <2>3. PICK k \in Bad : r = hi[k] - lo[k]
    OBVIOUS
  <2>4. \A q \in Bad : hi[k] - lo[k] <= hi[q] - lo[q]
    BY <2>2, <2>3
  <2>5. k \in N /\ S[find_biggest(m, k)] >= size /\ ~Good(k)
    BY <1>2
  <2>. DEFINE c == m[Side(m, k, size)]
              left == m[k + 8]
              right == m[k + 12]
  <2>6. c = IF S[k] > size THEN left ELSE right
    BY <1>0, <2>5, Pointers DEF Side
  <2>7. f[k] = IF S[k] # size /\ Fits(m, c, size) THEN f[c] ELSE k
    BY <1>0, <1>1, <2>5
  <2>8. /\ left \in N \cup {0} /\ right \in N \cup {0}
        /\ left # 0 => lo[left] = lo[k] /\ hi[left] = S[k]
        /\ right # 0 => lo[right] = S[k] /\ hi[right] = hi[k]
    BY <2>5 DEF Tree, Branched
  <2>9. Fits(m, c, size) => c \in N /\ c # 0
    BY <1>0, <2>6, <2>8 DEF Fits
  <2>. HIDE DEF Good, c, left, right
  <2>10. CASE S[k] = size
    <3>1. f[k] = k
      BY <2>7, <2>10
    <3>. QED  BY <1>0, <2>5, <2>10, <3>1 DEF Good
  <2>11. CASE S[k] > size /\ Fits(m, c, size)
    <3>1. c = left /\ c \in N /\ f[k] = f[c] /\ lo[c] = lo[k] /\ hi[c] = S[k]
      BY <1>0, <2>5, <2>6, <2>7, <2>8, <2>9, <2>11
    <3>2. hi[c] - lo[c] < hi[k] - lo[k]
      BY <1>0, <2>5, <3>1
    <3>3. Good(c)
      BY <1>0, <2>4, <2>5, <2>11, <3>1, <3>2
    <3>. DEFINE x == find_biggest(m, c)
    <3>4. x \in N /\ hi[x] = hi[c] /\ lo[c] <= lo[x] /\ S[x] >= size
      BY <1>2, <2>11, <3>1, BiggestIs
    <3>. HIDE DEF x
    <3>5. lo[c] < S[x] /\ S[x] < S[k]
      BY <1>0, <2>5, <3>1, <3>4
    <3>6. f[c] \in N /\ S[f[c]] <= S[x]
      BY <1>0, <3>1, <3>3, <3>4, <3>5 DEF Good
    <3>7. ASSUME NEW j \in N, lo[k] < S[j], S[j] < hi[k], S[j] >= size PROVE S[f[k]] <= S[j]
      <4>1. CASE S[j] < S[k]
        BY <3>1, <3>3, <3>7, <4>1 DEF Good
      <4>2. CASE S[j] >= S[k]
        BY <1>0, <2>5, <3>1, <3>4, <3>5, <3>6, <4>2
      <4>. QED  BY <1>0, <2>5, <4>1, <4>2
    <3>. QED  BY <2>5, <3>1, <3>3, <3>7 DEF Good
  <2>12. CASE S[k] > size /\ ~Fits(m, c, size)
    <3>1. c = left /\ f[k] = k
      BY <2>6, <2>7, <2>12
    <3>2. ASSUME NEW j \in N, lo[k] < S[j], S[j] < S[k], S[j] >= size PROVE FALSE
      <4>1. CASE left = 0
        BY <2>5, <3>2, <4>1, NothingLeft DEF left
      <4>2. CASE left # 0
        <5>1. left \in N /\ lo[left] = lo[k] /\ hi[left] = S[k]
          BY <2>8, <4>2
        <5>2. find_biggest(m, left) \in N /\ S[j] <= S[find_biggest(m, left)]
          BY <3>2, <5>1, BiggestIs
        <5>3. ~(S[find_biggest(m, left)] >= size)
          BY <1>2, <2>12, <3>1, <5>1
        <5>. QED  BY <1>0, <3>2, <5>2, <5>3
      <4>. QED  BY <4>1, <4>2
    <3>. QED  BY <1>0, <2>5, <2>12, <3>1, <3>2 DEF Good
  <2>13. CASE S[k] < size
    <3>1. c = right
      BY <1>0, <2>5, <2>6, <2>13
    <3>2. right # 0 /\ find_biggest(m, k) = find_biggest(m, right)
      <4>1. right = 0 => find_biggest(m, k) = k
        BY <1>0, <2>5, BiggestSteps DEF right
      <4>2. right # 0
        BY <1>0, <2>5, <2>13, <4>1
      <4>3. right \in DOMAIN m
        BY <1>0, <2>8, <4>2
      <4>. QED  BY <1>0, <2>5, <4>2, <4>3, BiggestSteps DEF right
    <3>3. right \in N /\ Fits(m, right, size)
      BY <1>2, <2>5, <2>8, <3>2
    <3>4. f[k] = f[right] /\ lo[right] = S[k] /\ hi[right] = hi[k]
      BY <1>0, <2>5, <2>7, <2>8, <2>13, <3>1, <3>2, <3>3
    <3>5. Good(right)
      BY <1>0, <2>4, <2>5, <3>3, <3>4
    <3>. QED  BY <1>0, <2>5, <2>13, <3>4, <3>5 DEF Good
  <2>. QED  BY <1>0, <2>5, <2>10, <2>11, <2>12, <2>13
<1>4. Good(n)
  BY <1>3
<1>. QED  BY <1>1, <1>4

(* The last block of a list, and its first one. *)
LEMMA ListEnds ==
    ASSUME NEW m, NEW S, NEW G, NEW F \in SUBSET G, Laid(m, S, G), Listed(m, S, F), NEW b \in F
    PROVE  /\ LastOf(m, b) \in F /\ S[LastOf(m, b)] = S[b]
           /\ \E h \in F : S[h] = S[b] /\ m[h + 4] = 0 /\ m[ListWord(m, S[b])] = h
<1>1. PICK pos, n : Ordered(m, F, pos, n)
  BY DEF Listed
<1>2. Chained(m, S, F)
  BY DEF Listed
<1>3. LastOf(m, b) \in F /\ S[LastOf(m, b)] = S[b]
  BY <1>1, <1>2, LastIsLast
<1>4. PICK h \in F : S[h] = S[b] /\ m[h + 4] = 0
  BY <1>1, <1>2, FirstExists
<1>5. m[ListWord(m, S[b])] = h
  BY <1>4, ListStarts
<1>. QED  BY <1>3, <1>4, <1>5

(* FindInTree: the smallest large block that is large enough. *)
LEMMA FindInTreeFinds ==
    ASSUME NEW m, NEW S, NEW G, NEW F \in SUBSET G, Laid(m, S, G), Listed(m, S, F), NEW size \in Nat
    PROVE  LET r == FindInTree(m, size)
           IN  /\ r = 0 => \A b \in F : Big(S[b]) => S[b] < size
               /\ r # 0 => /\ r \in F /\ S[r] >= size /\ Big(S[r])
                           /\ \A b \in F : Big(S[b]) /\ S[b] >= size => S[r] <= S[b]
<1>. DEFINE N == Nodes(m, S, F)
            root == m[ptr_big]
            r == FindInTree(m, size)
<1>1. PICK lo, hi : Tree(m, S, N, lo, hi)
  BY DEF Listed
<1>2. N \in SUBSET G /\ AllBig(S, N) /\ N \subseteq F /\ \A n \in N : Big(S[n])
  BY DEF Nodes, AllBig
<1>3. ASSUME NEW b \in F, Big(S[b]) PROVE \E h \in N : S[h] = S[b]
  BY <1>3, ListEnds DEF Nodes
<1>4. \A b \in G : S[b] \in Nat /\ S[b] < MaxSize /\ 0 < S[b]
  BY DEF Laid
<1>. HIDE DEF N, r
<1>5. root \in N \cup {0} /\ (root # 0 => lo[root] = 0 /\ hi[root] = MaxSize)
  BY <1>1 DEF Tree, Rooted
<1>6. 0 \notin DOMAIN m /\ 0 \notin F /\ N \subseteq DOMAIN m /\ \A n \in G : Size(m, n) = S[n]
  BY <1>2 DEF Laid
<1>. HIDE DEF root
<1>7. CASE root = 0
  <2>1. N = {}
    BY <1>1, <1>2, <1>7, NothingAtRoot DEF root
  <2>2. r = 0
    BY <1>6, <1>7 DEF r, FindInTree, Fits, root
  <2>. QED  BY <1>3, <2>1, <2>2 DEF r
<1>8. CASE root # 0 /\ ~Fits(m, root, size)
  <2>. DEFINE x == find_biggest(m, root)
  <2>1. root \in N /\ lo[root] = 0 /\ hi[root] = MaxSize
    BY <1>5, <1>8
  <2>2. x \in N /\ \A k \in N : lo[root] < S[k] /\ S[k] < hi[root] => S[k] <= S[x]
    BY <1>1, <1>2, <2>1, BiggestIs
  <2>. HIDE DEF x
  <2>3. S[x] < size
    BY <1>2, <1>4, <1>6, <1>8, <2>1, <2>2 DEF Fits, x
  <2>4. \A k \in N : S[k] < size
    BY <1>2, <1>4, <2>1, <2>2, <2>3
  <2>5. r = 0
    BY <1>8 DEF r, FindInTree, root
  <2>. QED  BY <1>3, <2>4, <2>5 DEF r
<1>9. CASE root # 0 /\ Fits(m, root, size)
  <2>. DEFINE x == Descend(m, root, size)
  <2>1. root \in N /\ lo[root] = 0 /\ hi[root] = MaxSize
    BY <1>5, <1>9
  <2>2. /\ x \in N /\ S[x] >= size
        /\ \A k \in N : lo[root] < S[k] /\ S[k] < hi[root] /\ S[k] >= size => S[x] <= S[k]
    BY <1>1, <1>2, <1>9, <2>1, DescendFinds
  <2>. HIDE DEF x
  <2>3. r = LastOf(m, x)
    BY <1>9 DEF r, FindInTree, root, x
  <2>4. r \in F /\ S[r] = S[x]
    BY <1>2, <2>2, <2>3, ListEnds
  <2>5. \A k \in N : S[k] >= size => S[x] <= S[k]
    BY <1>2, <1>4, <2>1, <2>2
  <2>6. ASSUME NEW b \in F, Big(S[b]), S[b] >= size PROVE S[r] <= S[b]
    BY <1>3, <2>4, <2>5, <2>6
  <2>7. r # 0 /\ Big(S[r]) /\ S[r] >= size
    BY <1>2, <1>6, <2>2, <2>4
  <2>. QED  BY <2>4, <2>6, <2>7 DEF r
<1>. QED  BY <1>7, <1>8, <1>9

(* The greater of two numbers. *)
LEMMA MaxIs ==
    ASSUME NEW a \in Int, NEW b \in Int
    PROVE  Max({a, b}) = IF a >= b THEN a ELSE b
<1>1. CASE a >= b
  <2>1. \A x \in {a, b} : (\A y \in {a, b} : x >= y) <=> x = a
    BY <1>1
  <2>. QED  BY <1>1, <2>1 DEF Max
<1>2. CASE a < b
  <2>1. \A x \in {a, b} : (\A y \in {a, b} : x >= y) <=> x = b
    BY <1>2
  <2>. QED  BY <1>2, <2>1 DEF Max
<1>. QED  BY <1>1, <1>2

(* The lesser of two numbers. *)
LEMMA MinIs ==
    ASSUME NEW a \in Int, NEW b \in Int
    PROVE  Min({a, b}) = IF a <= b THEN a ELSE b
<1>1. CASE a <= b
  <2>1. \A x \in {a, b} : (\A y \in {a, b} : x <= y) <=> x = a
    BY <1>1
  <2>. QED  BY <1>1, <2>1 DEF Min
<1>2. CASE a > b
  <2>1. \A x \in {a, b} : (\A y \in {a, b} : x <= y) <=> x = b
    BY <1>2
  <2>. QED  BY <1>2, <2>1 DEF Min
<1>. QED  BY <1>1, <1>2

(* findfit: the smallest free block that is large enough. *)
LEMMA FindFit ==
    ASSUME NEW m, NEW S, NEW G, NEW F \in SUBSET G, Laid(m, S, G), Listed(m, S, F),
           NEW asize \in Nat, asize % 8 = 0, asize >= 16
    PROVE  LET r == findfit(m, asize)
           IN  /\ r = 0 => \A b \in F : S[b] < asize
               /\ r # 0 => r \in F /\ S[r] >= asize /\ \A b \in F : S[b] >= asize => S[r] <= S[b]
<1>. DEFINE small == {size \in asize .. SmallMax : size % DSIZE = 0 /\ m[PTR_LIST(size)] # 0}
            r == findfit(m, asize)
<1>1. /\ \A b \in G : S[b] \in Nat /\ S[b] % 8 = 0 /\ S[b] >= 16
      /\ SmallMax \in Nat /\ SmallMax % 8 = 0 /\ DSIZE = 8
      /\ \A s : Big(s) <=> s > SmallMax
  BY Places DEF Laid, Big
<1>2. \A s \in small : IsSmall(s) /\ s >= asize /\ m[PTR_LIST(s)] # 0
  BY <1>1 DEF IsSmall
<1>3. ASSUME NEW b \in F, S[b] >= asize, ~Big(S[b]) PROVE S[b] \in small
  <2>1. PICK h \in F : m[ListWord(m, S[b])] = h
    BY ListEnds
  <2>2. h # 0
    BY DEF Laid
  <2>3. m[PTR_LIST(S[b])] # 0
    BY <1>3, <2>1, <2>2 DEF ListWord
  <2>. QED  BY <1>1, <1>3, <2>3
<1>4. CASE small # {}
  <2>1. small \in SUBSET Nat
    BY <1>2 DEF IsSmall
  <2>2. PICK s \in small : \A t \in small : s <= t
    BY <1>4, <2>1, LeastNatural
  <2>3. Min(small) = s
    <3>. HIDE DEF small
    <3>1. \A x \in small : (\A y \in small : x <= y) <=> x = s
      BY <2>1, <2>2
    <3>. QED  BY <3>1 DEF Min
  <2>4. r = LastOf(m, m[PTR_LIST(s)])
    BY <1>4, <2>3 DEF findfit
  <2>. HIDE DEF small, r
  <2>5. m[PTR_LIST(s)] \in F /\ S[m[PTR_LIST(s)]] = s
    BY <1>2, <2>2 DEF Listed, Headed
  <2>6. r \in F /\ S[r] = s
    BY <2>4, <2>5, ListEnds
  <2>7. r # 0
    BY <2>6 DEF Laid
  <2>8. ASSUME NEW b \in F, S[b] >= asize PROVE s <= S[b]
    <3>1. CASE ~Big(S[b])
      BY <1>3, <2>2, <2>8, <3>1
    <3>2. CASE Big(S[b])
      BY <1>1, <1>2, <2>2, <3>2 DEF IsSmall
    <3>. QED  BY <3>1, <3>2
  <2>. QED  BY <1>2, <2>2, <2>6, <2>7, <2>8 DEF r
<1>5. CASE small = {}
  <2>. DEFINE need == Max({asize, SmallMax + DSIZE})
  <2>1. r = FindInTree(m, need)
    BY <1>5 DEF findfit
  <2>2. need = IF asize >= SmallMax + 8 THEN asize ELSE SmallMax + 8
    BY <1>1, MaxIs
  <2>. HIDE DEF need, small, r
  <2>3. need \in Nat /\ need >= asize
    BY <1>1, <2>2
  <2>4. ASSUME NEW b \in F, S[b] >= asize PROVE Big(S[b]) /\ S[b] >= need
    <3>1. Big(S[b])
      BY <1>3, <1>5, <2>4
    <3>. QED  BY <1>1, <2>2, <2>4, <3>1
  <2>5. /\ r = 0 => \A b \in F : Big(S[b]) => S[b] < need
        /\ r # 0 => /\ r \in F /\ S[r] >= need /\ Big(S[r])
                    /\ \A b \in F : Big(S[b]) /\ S[b] >= need => S[r] <= S[b]
    BY <2>1, <2>3, FindInTreeFinds
  <2>6. r = 0 => \A b \in F : S[b] < asize
    BY <1>1, <2>3, <2>4, <2>5
  <2>7. r # 0 => r \in F /\ S[r] >= asize /\ \A b \in F : S[b] >= asize => S[r] <= S[b]
    BY <1>1, <2>3, <2>4, <2>5
  <2>. QED  BY <2>6, <2>7 DEF r
<1>. QED  BY <1>4, <1>5

-----------------------------------------------------------------------------
(* The heap.  S gives the size of each block, U are the allocated ones, F the *)
(* ones on the lists; the tags of the blocks in X are yet to be written.      *)

(* brk is the end of the memory *)
InMem(m, brk) ==
    /\ brk \in Nat /\ brk % 8 = 0 /\ FirstBlock <= brk /\ brk <= MaxSize
    /\ DOMAIN m = Words(mem_start_brk, brk)

(* between the prologue and the end the blocks follow each other *)
Tiling(S, brk) ==
    /\ \A b \in DOMAIN S :
           /\ b \in Nat /\ b % 8 = 0 /\ b >= FirstBlock
           /\ S[b] \in Nat /\ S[b] % 8 = 0 /\ S[b] >= 16 /\ b + S[b] <= brk
    /\ \A b, c \in DOMAIN S : b < c => b + S[b] <= c
    /\ \A b \in DOMAIN S : b + S[b] = brk \/ b + S[b] \in DOMAIN S
    /\ \A e \in DOMAIN S \cup {brk} : e = FirstBlock \/ \E p \in DOMAIN S : p + S[p] = e
    /\ FirstBlock \in DOMAIN S \cup {brk}

(* the bit of a tag that says whether the block is allocated *)
Bit(U, b) == IF b \in U THEN 1 ELSE 0

(* prologue, epilogue, and the two tags of every block but those of X *)
Tagged(m, S, U, X, brk) ==
    /\ m[ptr_begin - 4] = 9 /\ m[ptr_begin] = 9 /\ m[brk - 4] = 1
    /\ \A b \in DOMAIN S \ X : m[b - 4] = S[b] + Bit(U, b) /\ m[b + S[b] - 8] = S[b] + Bit(U, b)

(* a heap of blocks S, of which U are allocated and F listed *)
HeapOf(m, S, U, F, X) ==
    /\ InMem(m, mem_brk(m))
    /\ Tiling(S, mem_brk(m))
    /\ U \subseteq DOMAIN S /\ F \subseteq DOMAIN S \ (X \cup U)
    /\ Tagged(m, S, U, X, mem_brk(m))
    /\ Listed(m, S, F)

(* The break is where the words end. *)
LEMMA BreakIs ==
    ASSUME NEW brk \in Nat, brk >= 8, brk % 4 = 0, NEW m, DOMAIN m = Words(mem_start_brk, brk)
    PROVE  mem_brk(m) = brk
<1>. DEFINE n == (brk - 8) \div 4
            W == Words(mem_start_brk, brk)
            f == [i \in 1 .. n |-> 4 + 4 * i]
<1>1. n \in Nat /\ brk = 8 + 4 * n
  OBVIOUS
<1>. HIDE DEF n
<1>2. \A w : w \in W <=> w \in Nat /\ 8 <= w /\ w < brk /\ w % 4 = 0
  BY Places DEF Words
<1>. HIDE DEF W
<1>3. f \in [1 .. n -> W]
  <2>1. \A i \in 1 .. n : 4 + 4 * i \in W
    BY <1>1, <1>2
  <2>. QED  BY <2>1
<1>4. \A i, j \in 1 .. n : f[i] = f[j] => i = j
  OBVIOUS
<1>5. ASSUME NEW w \in W PROVE \E i \in 1 .. n : f[i] = w
  <2>. DEFINE i == (w - 4) \div 4
  <2>1. w \in Nat /\ 8 <= w /\ w < brk /\ w % 4 = 0
    BY <1>2
  <2>2. i \in Int /\ w = 4 + 4 * i
    BY <2>1
  <2>. HIDE DEF i
  <2>3. i \in 1 .. n
    BY <1>1, <2>1, <2>2
  <2>. QED  BY <2>2, <2>3
<1>. HIDE DEF f
<1>6. f \in Bijection(1 .. n, W)
  BY <1>3, <1>4, <1>5 DEF Bijection, Injection, Surjection, IsInjective
<1>7. Cardinality(W) = n
  BY <1>1, <1>6, FS_CountingElements DEF ExistsBijection
<1>. QED  BY <1>1, <1>7, Places DEF mem_brk, W

(* The words of a heap. *)
LEMMA HeapWords ==
    ASSUME NEW m, NEW brk, InMem(m, brk)
    PROVE  /\ \A w : w \in DOMAIN m <=> w \in Nat /\ 8 <= w /\ w < brk /\ w % 4 = 0
           /\ mem_brk(m) = brk
<1>1. \A w : w \in DOMAIN m <=> w \in Nat /\ 8 <= w /\ w < brk /\ w % 4 = 0
  BY Places DEF InMem, Words
<1>2. mem_brk(m) = brk
  BY BreakIs, Places DEF InMem
<1>. QED  BY <1>1, <1>2

(* The blocks of a heap with the right tags can be listed. *)
LEMMA HeapLaid ==
    ASSUME NEW m, NEW S, NEW U, NEW X, NEW brk, InMem(m, brk), Tiling(S, brk), Tagged(m, S, U, X, brk)
    PROVE  Laid(m, S, DOMAIN S \ X)
<1>1. /\ \A w : w \in DOMAIN m <=> w \in Nat /\ 8 <= w /\ w < brk /\ w % 4 = 0
      /\ brk \in Nat /\ FirstBlock <= brk /\ brk <= MaxSize
  BY HeapWords DEF InMem
<1>2. ASSUME NEW b \in DOMAIN S \ X
      PROVE  /\ b \in Nat /\ b % 8 = 0 /\ b >= FirstBlock
             /\ S[b] \in Nat /\ S[b] % 8 = 0 /\ S[b] >= 16 /\ S[b] < MaxSize
             /\ {b - 4, b, b + 4} \subseteq DOMAIN m
             /\ Big(S[b]) => {b + 8, b + 12} \subseteq DOMAIN m
  <2>1. /\ b \in Nat /\ b % 8 = 0 /\ b >= FirstBlock
        /\ S[b] \in Nat /\ S[b] % 8 = 0 /\ S[b] >= 16 /\ b + S[b] <= brk
    BY DEF Tiling
  <2>2. FirstBlock \in Nat /\ FirstBlock >= 32 /\ MaxSize \in Nat
    BY Places DEF MaxSize
  <2>3. S[b] < MaxSize
    BY <1>1, <2>1, <2>2
  <2>4. b - 4 \in DOMAIN m /\ b \in DOMAIN m /\ b + 4 \in DOMAIN m
    BY <1>1, <2>1, <2>2
  <2>5. Big(S[b]) => S[b] >= 24
    BY <2>1, Places DEF Big
  <2>6. Big(S[b]) => b + 8 \in DOMAIN m /\ b + 12 \in DOMAIN m
    BY <1>1, <2>1, <2>2, <2>5
  <2>. QED  BY <2>1, <2>3, <2>4, <2>6
<1>3. ASSUME NEW b \in DOMAIN S \ X PROVE Size(m, b) = S[b]
  <2>1. m[b - 4] = S[b] + Bit(U, b) /\ Bit(U, b) \in {0, 1}
    BY DEF Tagged, Bit
  <2>2. S[b] \in Nat /\ S[b] % 8 = 0
    BY <1>2
  <2>. DEFINE s == S[b]
              a == Bit(U, b)
  <2>3. s \in Nat /\ s % 8 = 0 /\ a \in {0, 1} /\ m[b - 4] = s + a
    BY <2>1, <2>2
  <2>. HIDE DEF s, a
  <2>4. (s + a) - ((s + a) % 8) = s
    BY <2>3, TagValue
  <2>5. Size(m, b) = s
    BY <2>3, <2>4, Pointers, Places DEF Size, GET_SIZE
  <2>. QED  BY <2>5 DEF s
<1>4. 0 \notin DOMAIN m /\ ptr_big \in DOMAIN m
  BY <1>1, Places
<1>5. ASSUME NEW s \in Nat, s % 8 = 0, s >= 16, s <= SmallMax PROVE PTR_LIST(s) \in DOMAIN m
  BY <1>1, <1>5, ListWords, Places
<1>6. \A b, c \in DOMAIN S \ X : b < c => b + S[b] <= c
  BY DEF Tiling
<1>. QED  BY <1>2, <1>3, <1>4, <1>5, <1>6 DEF Laid

(* The links that matter: those to the children only at a node. *)
NodeLinks(m, S, b) == {b, b + 4} \cup (IF Big(S[b]) /\ m[b + 4] = 0 THEN {b + 8, b + 12} ELSE {})

(* The lists stay when their heads, the root and those links do. *)
LEMMA ListedStays ==
    ASSUME NEW m, NEW S, NEW F, Listed(m, S, F), NEW m2, NEW S2,
           \A b \in F : S2[b] = S[b] /\ \A w \in NodeLinks(m, S, b) : m2[w] = m[w],
           \A b \in F : ~Big(S[b]) => IsSmall(S[b]),
           m2[ptr_big] = m[ptr_big],
           \A s : IsSmall(s) => m2[PTR_LIST(s)] = m[PTR_LIST(s)]
    PROVE  Listed(m2, S2, F)
<1>1. \A b \in F : S2[b] = S[b] /\ m2[b] = m[b] /\ m2[b + 4] = m[b + 4]
  BY DEF NodeLinks
<1>2. Chained(m2, S2, F)
  BY <1>1 DEF Listed, Chained
<1>3. Headed(m2, S2, F)
  <2>1. \A b \in F : ~Big(S[b]) /\ m[b + 4] = 0 => m2[PTR_LIST(S[b])] = b
    BY DEF Listed, Headed
  <2>. QED  BY <1>1, <2>1 DEF Listed, Headed
<1>4. \E pos, n : Ordered(m2, F, pos, n)
  BY <1>1 DEF Listed, Ordered
<1>5. Nodes(m2, S2, F) = Nodes(m, S, F)
  BY <1>1 DEF Nodes
<1>6. PICK lo, hi : Tree(m, S, Nodes(m, S, F), lo, hi)
  BY DEF Listed
<1>. DEFINE N == Nodes(m, S, F)
<1>7. \A n \in N : n \in F /\ m2[n + 8] = m[n + 8] /\ m2[n + 12] = m[n + 12] /\ S2[n] = S[n]
  BY DEF Nodes, NodeLinks
<1>. HIDE DEF N
<1>8. \A v : TreeWord(N, v) => m2[v] = m[v]
  BY <1>7 DEF TreeWord
<1>9. Tree(m2, S, N, lo, hi)
  BY <1>6, <1>8, TreeSame DEF N
<1>10. Tree(m2, S2, N, lo, hi)
  <2>1. Bounded(S2, N, lo, hi)
    BY <1>7, <1>9 DEF Tree, Bounded
  <2>2. Branched(m2, S2, N, lo, hi)
    BY <1>7, <1>9 DEF Tree, Branched
  <2>. QED  BY <1>9, <2>1, <2>2 DEF Tree
<1>. QED  BY <1>2, <1>3, <1>4, <1>5, <1>10 DEF Listed, N

(* what the allocated blocks in V hold *)
SamePayloads(m, m2, S, V) ==
    \A b \in V : \A w \in DOMAIN m : b <= w /\ w < b + S[b] - 8 => m2[w] = m[w]

(* What is known of the blocks of a heap. *)
LEMMA HeapFacts ==
    ASSUME NEW m, NEW S, NEW U, NEW F, NEW X, HeapOf(m, S, U, F, X)
    PROVE  /\ Laid(m, S, DOMAIN S \ X)
           /\ mem_brk(m) \in Nat /\ mem_brk(m) % 8 = 0
           /\ FirstBlock <= mem_brk(m) /\ mem_brk(m) <= MaxSize
           /\ \A w : w \in DOMAIN m <=> w \in Nat /\ 8 <= w /\ w < mem_brk(m) /\ w % 4 = 0
           /\ \A b \in DOMAIN S :
                  /\ b \in Nat /\ b % 8 = 0 /\ b >= FirstBlock /\ b > ptr_big + 8
                  /\ S[b] \in Nat /\ S[b] % 8 = 0 /\ S[b] >= 16 /\ b + S[b] <= mem_brk(m)
           /\ \A b, c \in DOMAIN S : b < c => b + S[b] <= c
           /\ FirstBlock \in Nat /\ FirstBlock = ptr_big + 16 /\ ptr_big \in Nat /\ ptr_begin = ptr_big + 8
           /\ FirstBlock % 8 = 0 /\ ptr_big % 8 = 0
<1>1. Laid(m, S, DOMAIN S \ X)
  BY HeapLaid DEF HeapOf
<1>2. /\ FirstBlock \in Nat /\ FirstBlock = ptr_big + 16 /\ ptr_big \in Nat /\ ptr_begin = ptr_big + 8
      /\ FirstBlock % 8 = 0 /\ ptr_big % 8 = 0
  BY Places
<1>3. /\ mem_brk(m) \in Nat /\ mem_brk(m) % 8 = 0
      /\ FirstBlock <= mem_brk(m) /\ mem_brk(m) <= MaxSize
  BY DEF HeapOf, InMem
<1>4. \A w : w \in DOMAIN m <=> w \in Nat /\ 8 <= w /\ w < mem_brk(m) /\ w % 4 = 0
  BY HeapWords DEF HeapOf
<1>5. \A b \in DOMAIN S :
         /\ b \in Nat /\ b % 8 = 0 /\ b >= FirstBlock
         /\ S[b] \in Nat /\ S[b] % 8 = 0 /\ S[b] >= 16 /\ b + S[b] <= mem_brk(m)
  BY DEF HeapOf, Tiling
<1>6. \A b, c \in DOMAIN S : b < c => b + S[b] <= c
  BY DEF HeapOf, Tiling
<1>. QED  BY <1>1, <1>2, <1>3, <1>4, <1>5, <1>6

(* The links of a block are in it, between its tags. *)
LEMMA LinksInside ==
    ASSUME NEW m, NEW S, NEW U, NEW F, NEW X, HeapOf(m, S, U, F, X), NEW b \in DOMAIN S,
           NEW w \in OwnLinks(S, b)
    PROVE  b <= w /\ w < b + S[b] - 8
<1>1. b \in Nat /\ S[b] \in Nat /\ S[b] % 8 = 0 /\ S[b] >= 16
  BY HeapFacts
<1>2. Big(S[b]) => S[b] >= 24
  BY <1>1, Places DEF Big
<1>. QED  BY <1>1, <1>2 DEF OwnLinks

(* A word that is neither at the start of the heap nor in one of certain
   blocks is not among their links. *)
LEMMA FramedOutside ==
    ASSUME NEW m, NEW S, NEW U, NEW F0, NEW X, HeapOf(m, S, U, F0, X), NEW F \in SUBSET DOMAIN S,
           NEW m2, Framed(m, m2, S, F), NEW w \in DOMAIN m, w > ptr_big,
           \A b \in F : ~(b <= w /\ w < b + S[b] - 8)
    PROVE  m2[w] = m[w]
  BY LinksInside DEF Framed

(* The tags of a heap are in none of its blocks' payloads. *)
LEMMA TagsOutside ==
    ASSUME NEW m, NEW S, NEW U, NEW F, NEW X, HeapOf(m, S, U, F, X), NEW b \in DOMAIN S
    PROVE  /\ \A c \in DOMAIN S : /\ ~(b <= c - 4 /\ c - 4 < b + S[b] - 8)
                                  /\ ~(b <= c + S[c] - 8 /\ c + S[c] - 8 < b + S[b] - 8)
           /\ ~(b <= mem_brk(m) - 4 /\ mem_brk(m) - 4 < b + S[b] - 8)
           /\ ~(b <= ptr_begin) /\ ~(b <= ptr_begin - 4)
           /\ \A c \in DOMAIN S : b # c => /\ ~(b <= c /\ c < b + S[b])
                                           /\ \A w \in Nat : ~(b <= w /\ w < b + S[b] /\ c <= w /\ w < c + S[c])
           /\ {b - 4, b + S[b] - 8, mem_brk(m) - 4, ptr_begin, ptr_begin - 4} \subseteq DOMAIN m
           /\ b - 4 > ptr_big /\ b + S[b] - 8 > ptr_big
           /\ mem_brk(m) - 4 > ptr_big /\ ptr_begin > ptr_big /\ ptr_begin - 4 > ptr_big
<1>0. /\ mem_brk(m) \in Nat /\ mem_brk(m) % 8 = 0 /\ FirstBlock <= mem_brk(m)
      /\ \A w : w \in DOMAIN m <=> w \in Nat /\ 8 <= w /\ w < mem_brk(m) /\ w % 4 = 0
      /\ \A c \in DOMAIN S :
             /\ c \in Nat /\ c % 8 = 0 /\ c >= FirstBlock /\ c > ptr_big + 8
             /\ S[c] \in Nat /\ S[c] % 8 = 0 /\ S[c] >= 16 /\ c + S[c] <= mem_brk(m)
      /\ FirstBlock \in Nat /\ FirstBlock = ptr_big + 16 /\ ptr_big \in Nat /\ ptr_begin = ptr_big + 8
      /\ FirstBlock % 8 = 0 /\ ptr_big % 8 = 0
  BY HeapFacts
<1>1. ASSUME NEW c \in DOMAIN S
      PROVE  c = b \/ b + S[b] <= c \/ c + S[c] <= b
  <2>1. \A x, y \in DOMAIN S : x < y => x + S[x] <= y
    BY HeapFacts
  <2>. QED  BY <1>0, <2>1
<1>2. \A c \in DOMAIN S : /\ ~(b <= c - 4 /\ c - 4 < b + S[b] - 8)
                          /\ ~(b <= c + S[c] - 8 /\ c + S[c] - 8 < b + S[b] - 8)
  BY <1>0, <1>1
<1>3. \A c \in DOMAIN S : b # c => /\ ~(b <= c /\ c < b + S[b])
                                   /\ \A w \in Nat : ~(b <= w /\ w < b + S[b] /\ c <= w /\ w < c + S[c])
  BY <1>0, <1>1
<1>4. b - 4 \in DOMAIN m /\ b + S[b] - 8 \in DOMAIN m
  BY <1>0
<1>5. mem_brk(m) - 4 \in DOMAIN m /\ ptr_begin \in DOMAIN m /\ ptr_begin - 4 \in DOMAIN m
  <2>1. ptr_big >= 16
    BY Places
  <2>2. mem_brk(m) - 4 \in DOMAIN m
    BY <1>0
  <2>3. ptr_begin \in DOMAIN m /\ ptr_begin - 4 \in DOMAIN m
    BY <1>0, <2>1
  <2>. QED  BY <2>2, <2>3
<1>6. /\ b - 4 > ptr_big /\ b + S[b] - 8 > ptr_big
      /\ mem_brk(m) - 4 > ptr_big /\ ptr_begin > ptr_big /\ ptr_begin - 4 > ptr_big
      /\ ~(b <= mem_brk(m) - 4 /\ mem_brk(m) - 4 < b + S[b] - 8)
      /\ ~(b <= ptr_begin) /\ ~(b <= ptr_begin - 4)
  BY <1>0
<1>. QED  BY <1>2, <1>3, <1>4, <1>5, <1>6

(* The lists may change as long as only the links of free blocks do. *)
LEMMA FramedHeap ==
    ASSUME NEW m, NEW S, NEW U, NEW F0, HeapOf(m, S, U, F0, {}),
           NEW F \in SUBSET (DOMAIN S \ U), NEW m2, Framed(m, m2, S, F),
           NEW F2 \in SUBSET (DOMAIN S \ U), Listed(m2, S, F2)
    PROVE  /\ HeapOf(m2, S, U, F2, {}) /\ SamePayloads(m, m2, S, U)
           /\ DOMAIN m2 = DOMAIN m /\ mem_brk(m2) = mem_brk(m)
<1>1. DOMAIN m2 = DOMAIN m /\ mem_brk(m2) = mem_brk(m)
  BY DEF Framed, mem_brk
<1>2. \A w \in DOMAIN m : w > ptr_big /\ (\A b \in F : ~(b <= w /\ w < b + S[b] - 8)) => m2[w] = m[w]
  BY FramedOutside
<1>3. /\ m2[ptr_begin - 4] = 9 /\ m2[ptr_begin] = 9 /\ m2[mem_brk(m) - 4] = 1
      /\ \A b \in DOMAIN S : m2[b - 4] = m[b - 4] /\ m2[b + S[b] - 8] = m[b + S[b] - 8]
  <2>1. m[ptr_begin - 4] = 9 /\ m[ptr_begin] = 9 /\ m[mem_brk(m) - 4] = 1
    BY DEF HeapOf, Tagged
  <2>2. CASE F = {}
    <3>1. \A w \in DOMAIN m : w > ptr_big => m2[w] = m[w]
      BY <1>2, <2>2
    <3>2. \A b \in DOMAIN S : m2[b - 4] = m[b - 4] /\ m2[b + S[b] - 8] = m[b + S[b] - 8]
      BY <3>1, TagsOutside
    <3>3. /\ {mem_brk(m) - 4, ptr_begin, ptr_begin - 4} \subseteq DOMAIN m
          /\ mem_brk(m) - 4 > ptr_big /\ ptr_begin > ptr_big /\ ptr_begin - 4 > ptr_big
      <4>1. /\ mem_brk(m) \in Nat /\ mem_brk(m) % 8 = 0 /\ FirstBlock <= mem_brk(m)
            /\ \A w : w \in DOMAIN m <=> w \in Nat /\ 8 <= w /\ w < mem_brk(m) /\ w % 4 = 0
            /\ FirstBlock = ptr_big + 16 /\ ptr_big \in Nat /\ ptr_begin = ptr_big + 8
            /\ ptr_big % 8 = 0 /\ ptr_big >= 16
        BY HeapFacts, Places
      <4>. QED  BY <4>1
    <3>. QED  BY <2>1, <3>1, <3>2, <3>3
  <2>3. CASE F # {}
    <3>1. PICK c \in F : TRUE
      BY <2>3
    <3>2. /\ {mem_brk(m) - 4, ptr_begin, ptr_begin - 4} \subseteq DOMAIN m
          /\ mem_brk(m) - 4 > ptr_big /\ ptr_begin > ptr_big /\ ptr_begin - 4 > ptr_big
      BY <3>1, TagsOutside
    <3>3. \A b \in F : /\ ~(b <= mem_brk(m) - 4 /\ mem_brk(m) - 4 < b + S[b] - 8)
                       /\ ~(b <= ptr_begin) /\ ~(b <= ptr_begin - 4)
      BY TagsOutside
    <3>4. ASSUME NEW b \in DOMAIN S PROVE m2[b - 4] = m[b - 4] /\ m2[b + S[b] - 8] = m[b + S[b] - 8]
      <4>1. /\ b - 4 \in DOMAIN m /\ b + S[b] - 8 \in DOMAIN m
            /\ b - 4 > ptr_big /\ b + S[b] - 8 > ptr_big
        BY TagsOutside
      <4>2. \A a \in F : /\ ~(a <= b - 4 /\ b - 4 < a + S[a] - 8)
                         /\ ~(a <= b + S[b] - 8 /\ b + S[b] - 8 < a + S[a] - 8)
        BY TagsOutside
      <4>. QED  BY <1>2, <4>1, <4>2
    <3>. QED  BY <1>2, <2>1, <3>2, <3>3, <3>4
  <2>. QED  BY <2>2, <2>3
<1>4. Tagged(m2, S, U, {}, mem_brk(m2))
  BY <1>1, <1>3 DEF HeapOf, Tagged
<1>5. SamePayloads(m, m2, S, U)
  <2>1. ASSUME NEW b \in U, NEW w \in DOMAIN m, b <= w /\ w < b + S[b] - 8 PROVE m2[w] = m[w]
    <3>1. b \in DOMAIN S /\ w \in Nat /\ w > ptr_big /\ S[b] \in Nat /\ b \in Nat
      <4>1. b \in DOMAIN S
        BY DEF HeapOf
      <4>2. w \in Nat /\ b \in Nat /\ b > ptr_big + 8 /\ ptr_big \in Nat /\ S[b] \in Nat
        BY <4>1, HeapFacts
      <4>. QED  BY <2>1, <4>1, <4>2
    <3>2. ASSUME NEW c \in F PROVE ~(c <= w /\ w < c + S[c] - 8)
      <4>1. c # b /\ c \in DOMAIN S /\ S[c] \in Nat /\ c \in Nat
        BY HeapFacts
      <4>2. ~(b <= w /\ w < b + S[b] /\ c <= w /\ w < c + S[c])
        BY <3>1, <4>1, TagsOutside
      <4>. QED  BY <2>1, <3>1, <4>1, <4>2
    <3>. QED  BY <1>2, <3>1, <3>2
  <2>. QED  BY <2>1 DEF SamePayloads
<1>. QED  BY <1>1, <1>4, <1>5 DEF HeapOf, InMem

(* delete_block on a heap. *)
LEMMA HeapDelete ==
    ASSUME NEW m, NEW S, NEW U, NEW F, HeapOf(m, S, U, F, {}), NEW b \in F
    PROVE  LET m2 == delete_block(m, b)
           IN  /\ HeapOf(m2, S, U, F \ {b}, {}) /\ SamePayloads(m, m2, S, U)
               /\ DOMAIN m2 = DOMAIN m /\ mem_brk(m2) = mem_brk(m)
<1>. DEFINE m2 == delete_block(m, b)
            G == DOMAIN S \ {}
<1>1. Laid(m, S, G)
  BY HeapFacts
<1>2. F \in SUBSET G /\ F \in SUBSET (DOMAIN S \ U) /\ Listed(m, S, F)
  BY DEF HeapOf
<1>. HIDE DEF G
<1>3. Listed(m2, S, F \ {b}) /\ Framed(m, m2, S, F)
  BY <1>1, <1>2, DeleteBlock
<1>. HIDE DEF m2
<1>4. F \ {b} \in SUBSET (DOMAIN S \ U)
  BY <1>2
<1>5. /\ HeapOf(m2, S, U, F \ {b}, {}) /\ SamePayloads(m, m2, S, U)
      /\ DOMAIN m2 = DOMAIN m /\ mem_brk(m2) = mem_brk(m)
  BY <1>2, <1>3, <1>4, FramedHeap
<1>. QED  BY <1>5 DEF m2

(* add_block on a heap. *)
LEMMA HeapAdd ==
    ASSUME NEW m, NEW S, NEW U, NEW F, HeapOf(m, S, U, F, {}), NEW b \in DOMAIN S, b \notin F, b \notin U
    PROVE  LET m2 == add_block(m, b)
           IN  /\ HeapOf(m2, S, U, F \cup {b}, {}) /\ SamePayloads(m, m2, S, U)
               /\ DOMAIN m2 = DOMAIN m /\ mem_brk(m2) = mem_brk(m)
<1>. DEFINE m2 == add_block(m, b)
            G == DOMAIN S \ {}
<1>1. Laid(m, S, G) /\ b \in G
  BY HeapFacts
<1>2. F \in SUBSET G /\ F \in SUBSET (DOMAIN S \ U) /\ Listed(m, S, F)
  BY DEF HeapOf
<1>. HIDE DEF G
<1>3. Listed(m2, S, F \cup {b}) /\ Framed(m, m2, S, F \cup {b})
  BY <1>1, <1>2, AddBlock
<1>. HIDE DEF m2
<1>4. F \cup {b} \in SUBSET (DOMAIN S \ U)
  BY <1>2
<1>5. /\ HeapOf(m2, S, U, F \cup {b}, {}) /\ SamePayloads(m, m2, S, U)
      /\ DOMAIN m2 = DOMAIN m /\ mem_brk(m2) = mem_brk(m)
  BY <1>3, <1>4, FramedHeap
<1>. QED  BY <1>5 DEF m2

(* Small sizes have a list. *)
LEMMA SmallSizes ==
    ASSUME NEW m, NEW S, NEW U, NEW F, NEW X, HeapOf(m, S, U, F, X)
    PROVE  \A b \in F : b \in DOMAIN S /\ (~Big(S[b]) => IsSmall(S[b]))
<1>1. Laid(m, S, DOMAIN S \ X) /\ \A b \in F : b \in DOMAIN S \ X
  BY HeapFacts DEF HeapOf
<1>. QED  BY <1>1, LinkWords

(* Blocks that are not on the lists are divided or joined; their tags are yet
   to be written. *)
LEMMA Retile ==
    ASSUME NEW m, NEW S, NEW U, NEW F, NEW X, HeapOf(m, S, U, F, X),
           NEW S2, Tiling(S2, mem_brk(m)), NEW U2 \in SUBSET DOMAIN S2, NEW X2,
           F \subseteq DOMAIN S2 \ (X2 \cup U2),
           \A b \in DOMAIN S2 \ X2 : b \in DOMAIN S \ X /\ S2[b] = S[b] /\ (b \in U2 <=> b \in U)
    PROVE  HeapOf(m, S2, U2, F, X2)
<1>1. Tagged(m, S2, U2, X2, mem_brk(m))
  BY DEF HeapOf, Tagged, Bit
<1>2. \A b \in F : S2[b] = S[b]
  OBVIOUS
<1>3. Listed(m, S2, F)
  <2>1. Listed(m, S, F)
    BY DEF HeapOf
  <2>2. \A b \in F : ~Big(S[b]) => IsSmall(S[b])
    BY SmallSizes
  <2>. QED  BY <1>2, <2>1, <2>2, ListedStays
<1>. QED  BY <1>1, <1>3 DEF HeapOf

(* Words that nobody relies on may hold anything. *)
LEMMA HeapStays ==
    ASSUME NEW m, NEW S, NEW U, NEW F, NEW X, HeapOf(m, S, U, F, X),
           NEW m2, DOMAIN m2 = DOMAIN m,
           \A w \in DOMAIN m : w < FirstBlock - 4 => m2[w] = m[w],
           m2[mem_brk(m) - 4] = m[mem_brk(m) - 4],
           \A b \in DOMAIN S \ X : m2[b - 4] = m[b - 4] /\ m2[b + S[b] - 8] = m[b + S[b] - 8],
           \A b \in F : \A w \in NodeLinks(m, S, b) : m2[w] = m[w]
    PROVE  HeapOf(m2, S, U, F, X) /\ mem_brk(m2) = mem_brk(m)
<1>1. mem_brk(m2) = mem_brk(m)
  BY DEF mem_brk
<1>2. /\ \A w : w \in DOMAIN m <=> w \in Nat /\ 8 <= w /\ w < mem_brk(m) /\ w % 4 = 0
      /\ mem_brk(m) \in Nat /\ FirstBlock <= mem_brk(m)
      /\ FirstBlock = ptr_big + 16 /\ ptr_big \in Nat /\ ptr_begin = ptr_big + 8 /\ ptr_big % 8 = 0 /\ ptr_big >= 16
  BY HeapFacts, Places
<1>3. m2[ptr_begin - 4] = m[ptr_begin - 4] /\ m2[ptr_begin] = m[ptr_begin] /\ m2[ptr_big] = m[ptr_big]
  <2>1. /\ ptr_begin - 4 \in DOMAIN m /\ ptr_begin \in DOMAIN m /\ ptr_big \in DOMAIN m
        /\ ptr_begin - 4 < FirstBlock - 4 /\ ptr_begin < FirstBlock - 4 /\ ptr_big < FirstBlock - 4
    BY <1>2
  <2>. QED  BY <2>1
<1>4. \A s : IsSmall(s) => m2[PTR_LIST(s)] = m[PTR_LIST(s)]
  <2>1. ASSUME NEW s, IsSmall(s) PROVE PTR_LIST(s) \in DOMAIN m /\ PTR_LIST(s) < FirstBlock - 4
    <3>1. PTR_LIST(s) \in Nat /\ PTR_LIST(s) >= 8 /\ PTR_LIST(s) < ptr_big /\ PTR_LIST(s) % 4 = 0
      BY <2>1, ListWords DEF IsSmall
    <3>. QED  BY <1>2, <3>1
  <2>. QED  BY <2>1
<1>5. Tagged(m2, S, U, X, mem_brk(m2))
  BY <1>1, <1>3 DEF HeapOf, Tagged
<1>6. Listed(m2, S, F)
  <2>1. Listed(m, S, F)
    BY DEF HeapOf
  <2>2. \A b \in F : ~Big(S[b]) => IsSmall(S[b])
    BY SmallSizes
  <2>. QED  BY <1>3, <1>4, <2>1, <2>2, ListedStays
<1>. QED  BY <1>1, <1>5, <1>6 DEF HeapOf, InMem

(* Tag writes the two tags of a block. *)
LEMMA TagIs ==
    ASSUME NEW m, NEW S, NEW U, NEW F, NEW X, HeapOf(m, S, U, F, X), NEW b \in DOMAIN S, NEW a
    PROVE  LET m2 == Tag(m, b, S[b], a)
           IN  /\ DOMAIN m2 = DOMAIN m /\ m2[b - 4] = S[b] + a /\ m2[b + S[b] - 8] = S[b] + a
               /\ \A w \in DOMAIN m : w # b - 4 /\ w # b + S[b] - 8 => m2[w] = m[w]
<1>1. b - 4 \in DOMAIN m /\ b + S[b] - 8 \in DOMAIN m
  BY TagsOutside
<1>2. b - 4 # b + S[b] - 8
  <2>1. b \in Nat /\ S[b] \in Nat /\ S[b] >= 16
    BY HeapFacts
  <2>. QED  BY <2>1
<1>3. Tag(m, b, S[b], a) = PUT(PUT(m, b - 4, S[b] + a), b + S[b] - 8, S[b] + a)
  BY Pointers, Places DEF Tag
<1>. QED  BY <1>1, <1>2, <1>3, TwoPuts

(* With its tags written a block is in order. *)
LEMMA TagOne ==
    ASSUME NEW m, NEW S, NEW U, NEW F, NEW X, HeapOf(m, S, U, F, X),
           NEW b \in DOMAIN S, b \in X, NEW a, a = Bit(U, b), NEW V \in SUBSET DOMAIN S
    PROVE  LET m2 == Tag(m, b, S[b], a)
           IN  /\ HeapOf(m2, S, U, F, X \ {b}) /\ SamePayloads(m, m2, S, V)
               /\ DOMAIN m2 = DOMAIN m /\ mem_brk(m2) = mem_brk(m)
<1>. DEFINE m2 == Tag(m, b, S[b], a)
<1>1. /\ DOMAIN m2 = DOMAIN m /\ m2[b - 4] = S[b] + a /\ m2[b + S[b] - 8] = S[b] + a
      /\ \A w \in DOMAIN m : w # b - 4 /\ w # b + S[b] - 8 => m2[w] = m[w]
  BY TagIs
<1>. HIDE DEF m2
<1>2. /\ \A w : w \in DOMAIN m <=> w \in Nat /\ 8 <= w /\ w < mem_brk(m) /\ w % 4 = 0
      /\ mem_brk(m) \in Nat /\ FirstBlock <= mem_brk(m)
      /\ FirstBlock = ptr_big + 16 /\ ptr_big \in Nat
      /\ b \in Nat /\ b >= FirstBlock /\ S[b] \in Nat /\ S[b] >= 16 /\ b + S[b] <= mem_brk(m)
  BY HeapFacts
<1>3. \A w \in DOMAIN m : w < FirstBlock - 4 => m2[w] = m[w]
  BY <1>1, <1>2
<1>4. m2[mem_brk(m) - 4] = m[mem_brk(m) - 4]
  <2>1. mem_brk(m) - 4 \in DOMAIN m
    BY TagsOutside
  <2>. QED  BY <1>1, <1>2, <2>1
<1>5. ASSUME NEW c \in DOMAIN S \ X
      PROVE  m2[c - 4] = m[c - 4] /\ m2[c + S[c] - 8] = m[c + S[c] - 8]
  <2>1. c - 4 \in DOMAIN m /\ c + S[c] - 8 \in DOMAIN m
    BY TagsOutside
  <2>2. /\ c \in Nat /\ S[c] \in Nat /\ S[c] >= 16 /\ S[c] % 8 = 0 /\ c % 8 = 0
        /\ S[b] % 8 = 0 /\ b % 8 = 0
    BY HeapFacts
  <2>3. b < c => b + S[b] <= c
    BY HeapFacts
  <2>4. c < b => c + S[c] <= b
    BY HeapFacts
  <2>. QED  BY <1>1, <1>2, <2>1, <2>2, <2>3, <2>4
<1>6. ASSUME NEW c \in F, NEW w \in NodeLinks(m, S, c)
      PROVE  m2[w] = m[w]
  <2>1. c \in DOMAIN S /\ c # b /\ c \in DOMAIN S \ X
    BY DEF HeapOf
  <2>2. w \in OwnLinks(S, c)
    BY DEF NodeLinks, OwnLinks
  <2>3. c <= w /\ w < c + S[c] - 8
    BY <2>1, <2>2, LinksInside
  <2>4. w # b - 4 /\ w # b + S[b] - 8
    BY <2>1, <2>3, TagsOutside
  <2>5. w \in DOMAIN m
    <3>1. Laid(m, S, DOMAIN S \ X)
      BY HeapFacts
    <3>. QED  BY <2>1, <2>2, <3>1 DEF Laid, OwnLinks
  <2>. QED  BY <1>1, <2>4, <2>5
<1>7. HeapOf(m2, S, U, F, X) /\ mem_brk(m2) = mem_brk(m)
  BY <1>1, <1>3, <1>4, <1>5, <1>6, HeapStays
<1>8. HeapOf(m2, S, U, F, X \ {b})
  <2>1. Tagged(m2, S, U, X \ {b}, mem_brk(m2))
    BY <1>1, <1>7 DEF HeapOf, Tagged
  <2>. QED  BY <1>7, <2>1 DEF HeapOf
<1>9. SamePayloads(m, m2, S, V)
  <2>1. ASSUME NEW c \in V, NEW w \in DOMAIN m, c <= w /\ w < c + S[c] - 8 PROVE m2[w] = m[w]
    <3>1. w # b - 4 /\ w # b + S[b] - 8
      BY <2>1, TagsOutside
    <3>. QED  BY <1>1, <3>1
  <2>. QED  BY <2>1 DEF SamePayloads
<1>. QED  BY <1>1, <1>7, <1>8, <1>9 DEF m2

-----------------------------------------------------------------------------
(* Joining, dividing and adding blocks.                                     *)

(* the blocks when c is joined to b, b is divided, or b is new *)
Merged(S, b, c) == [x \in DOMAIN S \ {c} |-> IF x = b THEN S[b] + S[c] ELSE S[x]]
Cut(S, b, size) ==
    [x \in DOMAIN S \cup {b + size} |-> IF x = b THEN size
                                        ELSE IF x = b + size THEN S[b] - size ELSE S[x]]
Grown(S, b, size) == [x \in DOMAIN S \cup {b} |-> IF x = b THEN size ELSE S[x]]

(* Two neighbours make one block. *)
LEMMA MergedTiles ==
    ASSUME NEW S, NEW brk \in Nat, Tiling(S, brk), NEW b \in DOMAIN S, NEW c \in DOMAIN S, c = b + S[b]
    PROVE  /\ Tiling(Merged(S, b, c), brk)
           /\ DOMAIN Merged(S, b, c) = DOMAIN S \ {c} /\ b \in DOMAIN S \ {c}
           /\ Merged(S, b, c)[b] = S[b] + S[c]
           /\ \A x \in DOMAIN S \ {b, c} : Merged(S, b, c)[x] = S[x]
<1>. DEFINE S2 == Merged(S, b, c)
<1>0. /\ \A x \in DOMAIN S : /\ x \in Nat /\ x % 8 = 0 /\ x >= FirstBlock
                             /\ S[x] \in Nat /\ S[x] % 8 = 0 /\ S[x] >= 16 /\ x + S[x] <= brk
      /\ \A x, y \in DOMAIN S : x < y => x + S[x] <= y
      /\ \A x \in DOMAIN S : x + S[x] = brk \/ x + S[x] \in DOMAIN S
      /\ \A e \in DOMAIN S \cup {brk} : e = FirstBlock \/ \E p \in DOMAIN S : p + S[p] = e
      /\ FirstBlock \in DOMAIN S \cup {brk}
      /\ FirstBlock \in Nat
  BY Places DEF Tiling
<1>1. /\ DOMAIN S2 = DOMAIN S \ {c} /\ b \in DOMAIN S \ {c}
      /\ S2[b] = S[b] + S[c]
      /\ \A x \in DOMAIN S \ {b, c} : S2[x] = S[x]
  <2>1. b # c
    BY <1>0
  <2>. QED  BY <2>1 DEF Merged
<1>. HIDE DEF S2
<1>2. \A x \in DOMAIN S2 : /\ x \in Nat /\ x % 8 = 0 /\ x >= FirstBlock
                           /\ S2[x] \in Nat /\ S2[x] % 8 = 0 /\ S2[x] >= 16 /\ x + S2[x] <= brk
  <2>1. b + S2[b] <= brk /\ S2[b] \in Nat /\ S2[b] % 8 = 0 /\ S2[b] >= 16
    <3>1. /\ b \in Nat /\ S[b] \in Nat /\ S[b] % 8 = 0 /\ S[b] >= 16
          /\ c \in Nat /\ S[c] \in Nat /\ S[c] % 8 = 0 /\ S[c] >= 16 /\ c + S[c] <= brk
      BY <1>0
    <3>. DEFINE p == S[b]
                q == S[c]
    <3>2. p \in Nat /\ q \in Nat /\ p % 8 = 0 /\ q % 8 = 0 /\ p >= 16 /\ S2[b] = p + q /\ c = b + p /\ c + q <= brk
      BY <1>1, <3>1
    <3>. HIDE DEF p, q
    <3>. QED  BY <3>1, <3>2
  <2>. QED  BY <1>0, <1>1, <2>1
<1>3. ASSUME NEW x \in DOMAIN S2, NEW y \in DOMAIN S2, x < y PROVE x + S2[x] <= y
  <2>1. x \in DOMAIN S /\ y \in DOMAIN S /\ x + S[x] <= y /\ y # c
    BY <1>0, <1>1, <1>3
  <2>2. CASE x = b
    <3>1. c < y
      BY <1>0, <2>1, <2>2
    <3>2. c + S[c] <= y
      BY <1>0, <2>1, <3>1
    <3>. QED  BY <1>0, <1>1, <2>2, <3>2
  <2>3. CASE x # b
    BY <1>1, <2>1, <2>3
  <2>. QED  BY <2>2, <2>3
<1>4. ASSUME NEW x \in DOMAIN S2 PROVE x + S2[x] = brk \/ x + S2[x] \in DOMAIN S2
  <2>1. CASE x = b
    <3>1. b + S2[b] = c + S[c]
      BY <1>0, <1>1
    <3>2. c + S[c] # c
      BY <1>0
    <3>. QED  BY <1>0, <1>1, <2>1, <3>1, <3>2
  <2>2. CASE x # b
    <3>1. x \in DOMAIN S /\ S2[x] = S[x]
      BY <1>1, <2>2
    <3>2. x + S[x] # c
      <4>1. x < b \/ b < x
        BY <1>0, <2>2, <3>1
      <4>. QED  BY <1>0, <3>1, <4>1
    <3>. QED  BY <1>0, <1>1, <3>1, <3>2
  <2>. QED  BY <2>1, <2>2
<1>5. ASSUME NEW e \in DOMAIN S2 \cup {brk} PROVE e = FirstBlock \/ \E p \in DOMAIN S2 : p + S2[p] = e
  <2>1. CASE e = FirstBlock
    BY <2>1
  <2>2. CASE e # FirstBlock
    <3>1. PICK p \in DOMAIN S : p + S[p] = e
      BY <1>0, <1>1, <2>2
    <3>2. CASE p = c
      BY <1>0, <1>1, <3>1, <3>2
    <3>3. CASE p # c
      <4>1. p # b
        BY <1>0, <1>1, <3>1
      <4>. QED  BY <1>1, <3>1, <3>3, <4>1
    <3>. QED  BY <3>2, <3>3
  <2>. QED  BY <2>1, <2>2
<1>6. FirstBlock \in DOMAIN S2 \cup {brk}
  <2>1. c # FirstBlock
    BY <1>0
  <2>. QED  BY <1>0, <1>1, <2>1
<1>7. Tiling(S2, brk)
  BY <1>2, <1>3, <1>4, <1>5, <1>6 DEF Tiling
<1>. QED  BY <1>1, <1>7 DEF S2

(* A block is divided. *)
LEMMA CutTiles ==
    ASSUME NEW S, NEW brk \in Nat, Tiling(S, brk), NEW b \in DOMAIN S,
           NEW size \in Nat, size % 8 = 0, size >= 16, S[b] - size >= 16
    PROVE  /\ Tiling(Cut(S, b, size), brk) /\ b + size \notin DOMAIN S
           /\ DOMAIN Cut(S, b, size) = DOMAIN S \cup {b + size}
           /\ Cut(S, b, size)[b] = size /\ Cut(S, b, size)[b + size] = S[b] - size
           /\ \A x \in DOMAIN S \ {b} : Cut(S, b, size)[x] = S[x]
<1>. DEFINE S2 == Cut(S, b, size)
            c == b + size
<1>0. /\ \A x \in DOMAIN S : /\ x \in Nat /\ x % 8 = 0 /\ x >= FirstBlock
                             /\ S[x] \in Nat /\ S[x] % 8 = 0 /\ S[x] >= 16 /\ x + S[x] <= brk
      /\ \A x, y \in DOMAIN S : x < y => x + S[x] <= y
      /\ \A x \in DOMAIN S : x + S[x] = brk \/ x + S[x] \in DOMAIN S
      /\ \A e \in DOMAIN S \cup {brk} : e = FirstBlock \/ \E p \in DOMAIN S : p + S[p] = e
      /\ FirstBlock \in DOMAIN S \cup {brk}
      /\ FirstBlock \in Nat
  BY Places DEF Tiling
<1>1. c \notin DOMAIN S /\ b # c
  BY <1>0
<1>2. /\ DOMAIN S2 = DOMAIN S \cup {c} /\ S2[b] = size /\ S2[c] = S[b] - size
      /\ \A x \in DOMAIN S \ {b} : S2[x] = S[x]
  BY <1>1 DEF Cut
<1>. HIDE DEF S2
<1>3. c \in Nat /\ c % 8 = 0 /\ c > b /\ S[b] - size \in Nat /\ (S[b] - size) % 8 = 0 /\ c + (S[b] - size) = b + S[b]
  BY <1>0
<1>. HIDE DEF c
<1>4. \A x \in DOMAIN S2 : /\ x \in Nat /\ x % 8 = 0 /\ x >= FirstBlock
                           /\ S2[x] \in Nat /\ S2[x] % 8 = 0 /\ S2[x] >= 16 /\ x + S2[x] <= brk
  <2>1. b + size <= brk
    BY <1>0
  <2>. QED  BY <1>0, <1>2, <1>3, <2>1
<1>5. ASSUME NEW x \in DOMAIN S2, NEW y \in DOMAIN S2, x < y PROVE x + S2[x] <= y
  <2>1. CASE x = c
    <3>1. y \in DOMAIN S /\ b < y
      BY <1>0, <1>2, <1>3, <1>5, <2>1
    <3>2. b + S[b] <= y
      BY <1>0, <3>1
    <3>. QED  BY <1>2, <1>3, <2>1, <3>2
  <2>2. CASE x # c /\ y = c
    <3>1. x \in DOMAIN S
      BY <1>2, <2>2
    <3>2. x <= b
      <4>1. b < x => b + S[b] <= x
        BY <1>0, <3>1
      <4>. QED  BY <1>0, <1>3, <1>5, <2>2, <3>1, <4>1
    <3>3. CASE x = b
      <4>1. c = b + size /\ b \in Nat
        BY <1>0 DEF c
      <4>. QED  BY <1>2, <2>2, <3>3, <4>1
    <3>4. CASE x # b
      <4>0. x \in Nat /\ b \in Nat /\ x < b /\ S[x] \in Nat /\ S2[x] = S[x]
        BY <1>0, <1>2, <3>1, <3>2, <3>4
      <4>1. x + S[x] <= b
        BY <1>0, <3>1, <4>0
      <4>. QED  BY <1>3, <2>2, <4>0, <4>1
    <3>. QED  BY <3>3, <3>4
  <2>3. CASE x # c /\ y # c
    <3>1. x \in DOMAIN S /\ y \in DOMAIN S /\ x + S[x] <= y
      BY <1>0, <1>2, <1>5, <2>3
    <3>2. CASE x = b
      BY <1>0, <1>2, <3>1, <3>2
    <3>3. CASE x # b
      BY <1>2, <3>1, <3>3
    <3>. QED  BY <3>2, <3>3
  <2>. QED  BY <2>1, <2>2, <2>3
<1>6. ASSUME NEW x \in DOMAIN S2 PROVE x + S2[x] = brk \/ x + S2[x] \in DOMAIN S2
  <2>1. CASE x = b
    BY <1>2, <2>1 DEF c
  <2>2. CASE x = c
    BY <1>0, <1>2, <1>3, <2>2
  <2>3. CASE x # b /\ x # c
    BY <1>0, <1>2, <2>3
  <2>. QED  BY <2>1, <2>2, <2>3
<1>7. ASSUME NEW e \in DOMAIN S2 \cup {brk} PROVE e = FirstBlock \/ \E p \in DOMAIN S2 : p + S2[p] = e
  <2>1. CASE e = c
    BY <1>2, <2>1 DEF c
  <2>2. CASE e # c /\ e # FirstBlock
    <3>1. PICK p \in DOMAIN S : p + S[p] = e
      BY <1>0, <1>2, <2>2
    <3>2. CASE p = b
      BY <1>2, <1>3, <3>1, <3>2
    <3>3. CASE p # b
      BY <1>2, <3>1, <3>3
    <3>. QED  BY <3>2, <3>3
  <2>. QED  BY <2>1, <2>2
<1>8. FirstBlock \in DOMAIN S2 \cup {brk}
  BY <1>0, <1>2
<1>9. Tiling(S2, brk)
  BY <1>4, <1>5, <1>6, <1>7, <1>8 DEF Tiling
<1>. QED  BY <1>1, <1>2, <1>9 DEF S2, c

(* A block is added at the end. *)
LEMMA GrownTiles ==
    ASSUME NEW S, NEW brk, brk \in Nat, brk % 8 = 0, brk >= FirstBlock, Tiling(S, brk),
           NEW size, size \in Nat, size % 8 = 0, size >= 16
    PROVE  /\ Tiling(Grown(S, brk, size), brk + size) /\ brk \notin DOMAIN S
           /\ \A x : x \in DOMAIN Grown(S, brk, size) <=> x \in DOMAIN S \/ x = brk
           /\ Grown(S, brk, size)[brk] = size
           /\ \A x \in DOMAIN S : Grown(S, brk, size)[x] = S[x]
<1>. DEFINE S2 == Grown(S, brk, size)
<1>0. /\ \A x \in DOMAIN S : /\ x \in Nat /\ x % 8 = 0 /\ x >= FirstBlock
                             /\ S[x] \in Nat /\ S[x] % 8 = 0 /\ S[x] >= 16 /\ x + S[x] <= brk
      /\ \A x, y \in DOMAIN S : x < y => x + S[x] <= y
      /\ \A x \in DOMAIN S : x + S[x] = brk \/ x + S[x] \in DOMAIN S
      /\ \A e \in DOMAIN S \cup {brk} : e = FirstBlock \/ \E p \in DOMAIN S : p + S[p] = e
      /\ FirstBlock \in DOMAIN S \cup {brk}
      /\ FirstBlock \in Nat
  BY Places DEF Tiling
<1>1. brk \notin DOMAIN S
  BY <1>0
<1>2. /\ DOMAIN S2 = DOMAIN S \cup {brk} /\ S2[brk] = size
      /\ \A x \in DOMAIN S : S2[x] = S[x]
  BY <1>1 DEF Grown
<1>. HIDE DEF S2
<1>3. \A x \in DOMAIN S2 : /\ x \in Nat /\ x % 8 = 0 /\ x >= FirstBlock
                           /\ S2[x] \in Nat /\ S2[x] % 8 = 0 /\ S2[x] >= 16 /\ x + S2[x] <= brk + size
  BY <1>0, <1>2
<1>4. \A x, y \in DOMAIN S2 : x < y => x + S2[x] <= y
  BY <1>0, <1>2
<1>5. \A x \in DOMAIN S2 : x + S2[x] = brk + size \/ x + S2[x] \in DOMAIN S2
  BY <1>0, <1>2
<1>6. \A e \in DOMAIN S2 \cup {brk + size} : e = FirstBlock \/ \E p \in DOMAIN S2 : p + S2[p] = e
  BY <1>0, <1>2
<1>7. FirstBlock \in DOMAIN S2 \cup {brk + size}
  BY <1>0, <1>2
<1>8. Tiling(S2, brk + size)
  BY <1>3, <1>4, <1>5, <1>6, <1>7 DEF Tiling
<1>9. \A x : x \in DOMAIN S2 <=> x \in DOMAIN S \/ x = brk
  BY <1>2
<1>. QED  BY <1>1, <1>2, <1>8, <1>9 DEF S2

(* no block of F is followed by another one of F *)
Apart(S, F) == \A b \in F : b + S[b] \notin F

(* The neighbour behind a block, as the tags tell it. *)
LEMMA NextIs ==
    ASSUME NEW m, NEW S, NEW U, NEW F, HeapOf(m, S, U, F, {}), NEW b \in DOMAIN S
    PROVE  /\ Size(m, b) = S[b] /\ NEXT_BLKP(m, b) = b + S[b] /\ FTRP(m, b) = b + S[b] - 8
           /\ b + S[b] = mem_brk(m) \/ b + S[b] \in DOMAIN S
           /\ NextFree(m, b) <=> b + S[b] \in DOMAIN S \ U
<1>1. \A c \in DOMAIN S : Size(m, c) = S[c] /\ c \in Nat /\ S[c] \in Nat /\ S[c] % 8 = 0 /\ c + S[c] <= mem_brk(m)
  BY HeapFacts DEF Laid
<1>2. NEXT_BLKP(m, b) = b + S[b] /\ FTRP(m, b) = b + S[b] - 8
  BY <1>1, Places DEF NEXT_BLKP, FTRP
<1>3. b + S[b] = mem_brk(m) \/ b + S[b] \in DOMAIN S
  BY DEF HeapOf, Tiling
<1>4. CASE b + S[b] = mem_brk(m)
  <2>1. m[b + S[b] - 4] = 1
    <3>1. m[mem_brk(m) - 4] = 1
      BY DEF HeapOf, Tagged
    <3>. DEFINE e == b + S[b]
    <3>2. e = mem_brk(m)
      BY <1>4
    <3>. HIDE DEF e
    <3>3. m[e - 4] = 1
      BY <3>1, <3>2
    <3>4. b \in Nat /\ S[b] \in Nat
      BY <1>1
    <3>5. e - 4 = b + S[b] - 4
      BY <3>4 DEF e
    <3>. QED  BY <3>3, <3>5
  <2>2. b + S[b] \notin DOMAIN S
    <3>1. \A c \in DOMAIN S : c < mem_brk(m)
      <4>1. \A c \in DOMAIN S : S[c] >= 16 /\ mem_brk(m) \in Nat
        BY HeapFacts
      <4>. QED  BY <1>1, <4>1
    <3>2. mem_brk(m) \in Nat
      BY HeapFacts
    <3>3. ~(mem_brk(m) < mem_brk(m))
      BY <3>2
    <3>. QED  BY <1>4, <3>1, <3>3
  <2>3. ~NextFree(m, b)
    <3>1. NextFree(m, b) <=> m[NEXT_BLKP(m, b) - 4] % 2 = 0
      BY Places DEF NextFree, GET_ALLOC, HDRP
    <3>2. NextFree(m, b) <=> m[b + S[b] - 4] % 2 = 0
      <4>1. b \in Nat /\ S[b] \in Nat
        BY <1>1
      <4>2. NEXT_BLKP(m, b) - 4 = b + S[b] - 4
        BY <1>2, <4>1
      <4>. QED  BY <3>1, <4>2
    <3>. QED  BY <2>1, <3>2
  <2>. QED  BY <1>1, <1>2, <1>3, <2>2, <2>3
<1>5. CASE b + S[b] \in DOMAIN S
  <2>. DEFINE c == b + S[b]
              s == S[c]
              a == Bit(U, c)
  <2>1. m[c - 4] = S[c] + Bit(U, c)
    BY <1>5 DEF HeapOf, Tagged
  <2>2. s \in Nat /\ s % 8 = 0 /\ a \in {0, 1} /\ (a = 0 <=> c \notin U)
    BY <1>1, <1>5 DEF Bit
  <2>3. NextFree(m, b) <=> m[c - 4] % 2 = 0
    BY <1>2, Places DEF NextFree, GET_ALLOC, HDRP
  <2>4. (s + a) % 2 = a
    <3>. HIDE DEF s, a
    <3>. QED  BY <2>2, TagValue
  <2>5. NextFree(m, b) <=> c \notin U
    BY <2>1, <2>2, <2>3, <2>4
  <2>. QED  BY <1>1, <1>2, <1>3, <1>5, <2>5
<1>. QED  BY <1>3, <1>4, <1>5

(* The neighbour in front of a block; in front of the first one the prologue
   is allocated. *)
LEMMA PrevIs ==
    ASSUME NEW m, NEW S, NEW U, NEW F, HeapOf(m, S, U, F, {}), NEW b \in DOMAIN S
    PROVE  /\ \A p \in DOMAIN S : p + S[p] = b => PREV_BLKP(m, b) = p /\ (PrevFree(m, b) <=> p \notin U)
           /\ PrevFree(m, b) => \E p \in DOMAIN S \ U : p + S[p] = b
<1>1. ASSUME NEW p \in DOMAIN S, p + S[p] = b
      PROVE  PREV_BLKP(m, b) = p /\ (PrevFree(m, b) <=> p \notin U)
  <2>. DEFINE s == S[p]
              a == Bit(U, p)
  <2>1. m[p + S[p] - 8] = S[p] + Bit(U, p)
    BY DEF HeapOf, Tagged
  <2>2. s \in Nat /\ s % 8 = 0 /\ a \in {0, 1} /\ (a = 0 <=> p \notin U) /\ p \in Nat
    <3>1. s \in Nat /\ s % 8 = 0 /\ p \in Nat
      BY HeapFacts
    <3>2. a \in {0, 1} /\ (a = 0 <=> p \notin U)
      BY DEF Bit
    <3>. QED  BY <3>1, <3>2
  <2>3. FTRP(m, p) = p + S[p] - 8
    BY NextIs
  <2>4. b = p + s /\ m[b - 8] = s + a /\ FTRP(m, p) = b - 8
    <3>1. p + S[p] = b
      BY <1>1
    <3>. DEFINE e == p + S[p]
    <3>. HIDE DEF e
    <3>4. m[e - 8] = S[p] + Bit(U, p) /\ FTRP(m, p) = e - 8
      <4>1. e - 8 = p + S[p] - 8
        BY <2>2 DEF e
      <4>. QED  BY <2>1, <2>3, <4>1
    <3>5. e = b
      BY <3>1 DEF e
    <3>2. m[b - 8] = S[p] + Bit(U, p) /\ FTRP(m, p) = b - 8
      BY <3>4, <3>5
    <3>. QED  BY <3>1, <3>2
  <2>. HIDE DEF s, a
  <2>5. (s + a) % 2 = a /\ (s + a) - ((s + a) % 8) = s
    BY <2>2, TagValue
  <2>6. PREV_BLKP(m, b) = p
    BY <2>2, <2>4, <2>5, Places DEF PREV_BLKP, GET_SIZE
  <2>7. PrevFree(m, b) <=> p \notin U
    BY <2>2, <2>4, <2>5, <2>6 DEF PrevFree, GET_ALLOC
  <2>. QED  BY <2>6, <2>7
<1>2. b = FirstBlock \/ \E p \in DOMAIN S : p + S[p] = b
  BY DEF HeapOf, Tiling
<1>3. CASE b = FirstBlock
  <2>1. m[ptr_begin] = 9 /\ m[ptr_begin - 4] = 9 /\ ptr_begin \in Nat /\ b = ptr_begin + 8
    BY <1>3, Places DEF HeapOf, Tagged
  <2>2. PREV_BLKP(m, b) = ptr_begin
    BY <2>1, Places DEF PREV_BLKP, GET_SIZE
  <2>3. FTRP(m, ptr_begin) = ptr_begin
    BY <2>1, Places DEF FTRP, Size, GET_SIZE, HDRP
  <2>4. ~PrevFree(m, b)
    BY <2>1, <2>2, <2>3 DEF PrevFree, GET_ALLOC
  <2>. QED  BY <1>1, <2>4
<1>4. CASE \E p \in DOMAIN S : p + S[p] = b
  BY <1>1, <1>4
<1>. QED  BY <1>2, <1>3, <1>4

(* What stays in a first step and in a second one stays. *)
LEMMA PayloadsPass ==
    ASSUME NEW m, NEW m1, NEW m2, NEW S, NEW S1, NEW V,
           SamePayloads(m, m1, S, V), SamePayloads(m1, m2, S1, V),
           \A b \in V : S1[b] = S[b], DOMAIN m1 = DOMAIN m
    PROVE  SamePayloads(m, m2, S, V)
  BY DEF SamePayloads

(* Nothing changes where nothing is written. *)
LEMMA PayloadsSame ==
    ASSUME NEW m, NEW S, NEW V
    PROVE  SamePayloads(m, m, S, V)
  BY DEF SamePayloads

(* A block and the one behind it are joined. *)
LEMMA JoinNext ==
    ASSUME NEW m, NEW S, NEW U, NEW F, NEW X, HeapOf(m, S, U, F, X),
           NEW b \in DOMAIN S, b \notin U, b \notin F,
           NEW c \in DOMAIN S, c = b + S[b], c \notin U, c \notin F
    PROVE  LET S2 == Merged(S, b, c)
           IN  /\ HeapOf(m, S2, U, F, (X \cup {b}) \ {c})
               /\ DOMAIN S2 = DOMAIN S \ {c} /\ b \in DOMAIN S2 /\ S2[b] = S[b] + S[c]
               /\ \A x \in DOMAIN S \ {b, c} : S2[x] = S[x]
<1>. DEFINE S2 == Merged(S, b, c)
            X2 == (X \cup {b}) \ {c}
<1>1. mem_brk(m) \in Nat /\ Tiling(S, mem_brk(m)) /\ U \subseteq DOMAIN S /\ F \subseteq DOMAIN S \ (X \cup U)
  BY HeapFacts DEF HeapOf
<1>. DEFINE brk == mem_brk(m)
<1>2. /\ Tiling(S2, brk) /\ DOMAIN S2 = DOMAIN S \ {c} /\ b \in DOMAIN S2 /\ S2[b] = S[b] + S[c]
      /\ \A x \in DOMAIN S \ {b, c} : S2[x] = S[x]
  <2>1. brk \in Nat /\ Tiling(S, brk)
    BY <1>1
  <2>. HIDE DEF brk
  <2>2. /\ Tiling(Merged(S, b, c), brk)
        /\ DOMAIN Merged(S, b, c) = DOMAIN S \ {c} /\ b \in DOMAIN S \ {c}
        /\ Merged(S, b, c)[b] = S[b] + S[c]
        /\ \A x \in DOMAIN S \ {b, c} : Merged(S, b, c)[x] = S[x]
    BY <2>1, MergedTiles
  <2>. QED  BY <2>2
<1>. HIDE DEF S2
<1>3. HeapOf(m, S2, U, F, X2)
  <2>1. U \in SUBSET DOMAIN S2 /\ F \subseteq DOMAIN S2 \ (X2 \cup U)
    BY <1>1, <1>2
  <2>2. \A x \in DOMAIN S2 \ X2 : x \in DOMAIN S \ X /\ S2[x] = S[x] /\ (x \in U <=> x \in U)
    BY <1>2
  <2>. HIDE DEF X2
  <2>. QED  BY <1>2, <2>1, <2>2, Retile
<1>. QED  BY <1>2, <1>3 DEF S2

(* A block that is not on the lists may lose its tags. *)
LEMMA Untag ==
    ASSUME NEW m, NEW S, NEW U, NEW F, HeapOf(m, S, U, F, {}), NEW b \in DOMAIN S, b \notin F
    PROVE  HeapOf(m, S, U, F, {b})
  BY DEF HeapOf, Tagged

(* A block whose tags are written and which is added to its list. *)
LEMMA TagAndAdd ==
    ASSUME NEW m, NEW S, NEW U, NEW F, NEW b \in DOMAIN S, HeapOf(m, S, U, F, {b}), b \notin U
    PROVE  LET m2 == add_block(Tag(m, b, S[b], 0), b)
           IN  /\ HeapOf(m2, S, U, F \cup {b}, {}) /\ SamePayloads(m, m2, S, U)
               /\ DOMAIN m2 = DOMAIN m /\ mem_brk(m2) = mem_brk(m)
<1>. DEFINE m1 == Tag(m, b, S[b], 0)
            m2 == add_block(m1, b)
<1>1. 0 = Bit(U, b) /\ U \in SUBSET DOMAIN S /\ b \notin F
  BY DEF Bit, HeapOf
<1>2. /\ HeapOf(m1, S, U, F, {b} \ {b}) /\ SamePayloads(m, m1, S, U)
      /\ DOMAIN m1 = DOMAIN m /\ mem_brk(m1) = mem_brk(m)
  BY <1>1, TagOne
<1>. HIDE DEF m1
<1>3. {b} \ {b} = {}
  OBVIOUS
<1>4. HeapOf(m1, S, U, F, {})
  BY <1>2, <1>3
<1>5. /\ HeapOf(m2, S, U, F \cup {b}, {}) /\ SamePayloads(m1, m2, S, U)
      /\ DOMAIN m2 = DOMAIN m1 /\ mem_brk(m2) = mem_brk(m1)
  BY <1>1, <1>4, HeapAdd
<1>. HIDE DEF m2
<1>6. SamePayloads(m, m2, S, U)
  BY <1>2, <1>5, PayloadsPass
<1>. QED  BY <1>2, <1>5, <1>6 DEF m1, m2

(* bp with what is free behind it, its tags yet to be written *)
Extended(m, S, U, F, bp, next, S1) ==
    /\ HeapOf(m, S1, U, F, {bp}) /\ bp \in DOMAIN S1
    /\ S1[bp] = IF next \in DOMAIN S \ U THEN S[bp] + S[next] ELSE S[bp]
    /\ DOMAIN S1 = DOMAIN S \ ({next} \ U)
    /\ \A x \in DOMAIN S1 \ {bp} : S1[x] = S[x]

(* A block takes in a free one behind it. *)
LEMMA Forward ==
    ASSUME NEW m, NEW S, NEW U, NEW F, HeapOf(m, S, U, F, {}),
           NEW bp \in DOMAIN S, bp \notin U, bp \notin F, NEW next, next = bp + S[bp], next \notin F
    PROVE  \E S1 : Extended(m, S, U, F, bp, next, S1)
<1>1. CASE next \in DOMAIN S \ U
  <2>1. bp # next
    <3>1. bp \in Nat /\ S[bp] \in Nat /\ S[bp] >= 16
      BY HeapFacts
    <3>. QED  BY <3>1
  <2>. DEFINE S1 == Merged(S, bp, next)
  <2>2. /\ HeapOf(m, S1, U, F, ({} \cup {bp}) \ {next})
        /\ DOMAIN S1 = DOMAIN S \ {next} /\ bp \in DOMAIN S1 /\ S1[bp] = S[bp] + S[next]
        /\ \A x \in DOMAIN S \ {bp, next} : S1[x] = S[x]
    <3>1. next \in DOMAIN S /\ next \notin U
      BY <1>1
    <3>2. next = bp + S[bp] /\ next \notin F /\ bp \notin U /\ bp \notin F /\ HeapOf(m, S, U, F, {})
      OBVIOUS
    <3>. QED  BY <3>1, <3>2, JoinNext, SMTT(8)
  <2>3. ({} \cup {bp}) \ {next} = {bp} /\ {next} \ U = {next}
    BY <1>1, <2>1
  <2>. HIDE DEF S1
  <2>4. HeapOf(m, S1, U, F, {bp})
    BY <2>2, <2>3
  <2>. QED  BY <1>1, <2>2, <2>3, <2>4 DEF Extended
<1>2. CASE next \notin DOMAIN S \ U
  <2>1. HeapOf(m, S, U, F, {bp})
    BY Untag
  <2>2. DOMAIN S = DOMAIN S \ ({next} \ U)
    BY <1>2
  <2>. QED  BY <1>2, <2>1, <2>2 DEF Extended
<1>. QED  BY <1>1, <1>2

(* what a call leaves of a heap: another heap without free neighbours, whose
   blocks in U are where they were and hold what they held *)
Kept(m, m2, S, S2, U) ==
    /\ HeapOf(m2, S2, U, DOMAIN S2 \ U, {})
    /\ Apart(S2, DOMAIN S2 \ U)
    /\ \A b \in U : S2[b] = S[b]
    /\ SamePayloads(m, m2, S, U)
    /\ DOMAIN m2 = DOMAIN m /\ mem_brk(m2) = mem_brk(m)

(* coalesce: a block that is free and on no list is joined with its free
   neighbours and listed. *)
LEMMA Coalesce ==
    ASSUME NEW m, NEW S, NEW U, NEW bp \in DOMAIN S, bp \notin U,
           HeapOf(m, S, U, DOMAIN S \ (U \cup {bp}), {}), Apart(S, DOMAIN S \ (U \cup {bp}))
    PROVE  LET m2 == coalesce(m, bp)
               start == CoalescedAt(m, bp)
           IN  \E S2 : /\ Kept(m, m2, S, S2, U)
                       /\ start \in DOMAIN S2 \ U /\ start <= bp /\ bp + S[bp] <= start + S2[start]
<1>. DEFINE F == DOMAIN S \ (U \cup {bp})
            next == bp + S[bp]
            P == {p \in DOMAIN S \ U : p + S[p] = bp}
            start == CoalescedAt(m, bp)
            m1 == IF PrevFree(m, bp) THEN delete_block(m, PREV_BLKP(m, bp)) ELSE m
            m2 == IF NextFree(m, bp) THEN delete_block(m1, next) ELSE m1
            end == IF NextFree(m, bp) THEN NEXT_BLKP(m, next) ELSE next
            alone == ~PrevFree(m, bp) /\ ~NextFree(m, bp)
<1>0. HeapOf(m, S, U, F, {}) /\ Apart(S, F) /\ U \in SUBSET DOMAIN S
  BY DEF HeapOf
<1>1. /\ \A b \in DOMAIN S : b \in Nat /\ S[b] \in Nat /\ S[b] >= 16
      /\ \A b, c \in DOMAIN S : b < c => b + S[b] <= c
  BY <1>0, HeapFacts
<1>2. /\ NEXT_BLKP(m, bp) = next
      /\ NextFree(m, bp) <=> next \in DOMAIN S \ U
      /\ next \in DOMAIN S => NEXT_BLKP(m, next) = next + S[next]
  BY <1>0, NextIs
<1>3. /\ \A p \in P : PREV_BLKP(m, bp) = p /\ PrevFree(m, bp) /\ start = p /\ P = {p}
      /\ P = {} => ~PrevFree(m, bp) /\ start = bp
  <2>1. \A p \in P : PREV_BLKP(m, bp) = p /\ PrevFree(m, bp)
    BY <1>0, PrevIs
  <2>2. PrevFree(m, bp) => P # {}
    BY <1>0, PrevIs
  <2>. HIDE DEF P
  <2>. QED  BY <2>1, <2>2 DEF CoalescedAt
<1>4. coalesce(m, bp) = add_block(IF alone THEN m ELSE Tag(m2, start, end - start, 0), start)
  BY <1>2 DEF coalesce
<1>5. bp \notin F /\ bp \notin U /\ bp \in DOMAIN S /\ DOMAIN S \ U = F \cup {bp}
  OBVIOUS
<1>6. \A p \in P : p \in F /\ p # bp /\ p # next /\ p + S[p] = bp /\ p < bp
  BY <1>1
<1>. HIDE DEF F
<1>7. bp # next /\ bp < next /\ (next \in DOMAIN S \ U <=> next \in F)
  <2>1. bp \in Nat /\ S[bp] \in Nat /\ S[bp] >= 16
    BY <1>1
  <2>2. bp < next
    BY <2>1
  <2>. QED  BY <1>5, <2>1, <2>2
<1>8. ASSUME alone
      PROVE  \E S2 : /\ Kept(m, coalesce(m, bp), S, S2, U)
                     /\ start \in DOMAIN S2 \ U /\ start <= bp /\ bp + S[bp] <= start + S2[start]
  <2>1. start = bp
    BY <1>8 DEF CoalescedAt
  <2>2. coalesce(m, bp) = add_block(m, bp)
    BY <1>4, <1>8, <2>1
  <2>. DEFINE a == add_block(m, bp)
  <2>3. /\ HeapOf(a, S, U, F \cup {bp}, {}) /\ SamePayloads(m, a, S, U)
        /\ DOMAIN a = DOMAIN m /\ mem_brk(a) = mem_brk(m)
    BY <1>0, <1>5, HeapAdd
  <2>. HIDE DEF a, start
  <2>4. P = {}
    BY <1>3, <1>8
  <2>5. Apart(S, F \cup {bp})
    <3>1. ASSUME NEW b \in F \cup {bp} PROVE b + S[b] \notin F \cup {bp}
      <4>1. CASE b = bp
        BY <1>2, <1>5, <1>8, <4>1
      <4>2. CASE b \in F
        BY <1>0, <1>5, <2>4, <4>2 DEF Apart
      <4>. QED  BY <3>1, <4>1, <4>2
    <3>. QED  BY <3>1 DEF Apart
  <2>6. Kept(m, a, S, S, U)
    BY <1>5, <2>3, <2>5 DEF Kept
  <2>. QED  BY <1>1, <1>5, <2>1, <2>2, <2>6 DEF a
<1>9. ASSUME ~alone
      PROVE  \E S2 : /\ Kept(m, coalesce(m, bp), S, S2, U)
                     /\ start \in DOMAIN S2 \ U /\ start <= bp /\ bp + S[bp] <= start + S2[start]
  <2>. DEFINE F1 == F \ P
              F2 == F1 \ {next}
  <2>0. coalesce(m, bp) = add_block(Tag(m2, start, end - start, 0), start)
    BY <1>4, <1>9
  <2>. HIDE DEF start, alone
  <2>1. /\ HeapOf(m1, S, U, F1, {}) /\ SamePayloads(m, m1, S, U)
        /\ DOMAIN m1 = DOMAIN m /\ mem_brk(m1) = mem_brk(m)
    <3>1. CASE P = {}
      <4>1. m1 = m /\ F1 = F
        BY <1>3, <3>1
      <4>. HIDE DEF m1, F1, P
      <4>. QED  BY <1>0, <4>1, PayloadsSame
    <3>2. CASE P # {}
      <4>1. PICK p \in P : TRUE
        BY <3>2
      <4>. HIDE DEF P
      <4>2. m1 = delete_block(m, p) /\ F1 = F \ {p} /\ p \in F
        BY <1>3, <1>6, <4>1
      <4>. HIDE DEF m1, F1
      <4>. QED  BY <1>0, <4>2, HeapDelete
    <3>. QED  BY <3>1, <3>2
  <2>. HIDE DEF m1
  <2>2. /\ HeapOf(m2, S, U, F2, {}) /\ SamePayloads(m, m2, S, U)
        /\ DOMAIN m2 = DOMAIN m /\ mem_brk(m2) = mem_brk(m)
    <3>1. CASE ~NextFree(m, bp)
      <4>1. m2 = m1 /\ F2 = F1
        BY <1>2, <1>7, <3>1
      <4>. HIDE DEF m2, F2, F1, P
      <4>. QED  BY <2>1, <4>1
    <3>2. CASE NextFree(m, bp)
      <4>0. next \in F1
        <5>. HIDE DEF P
        <5>. QED  BY <1>2, <1>6, <1>7, <3>2
      <4>1. m2 = delete_block(m1, next)
        BY <3>2
      <4>. HIDE DEF m2, F1, next
      <4>2. /\ HeapOf(m2, S, U, F2, {}) /\ SamePayloads(m1, m2, S, U)
            /\ DOMAIN m2 = DOMAIN m1 /\ mem_brk(m2) = mem_brk(m1)
        BY <2>1, <4>0, <4>1, HeapDelete
      <4>3. SamePayloads(m, m2, S, U)
        BY <2>1, <4>2, PayloadsPass
      <4>. QED  BY <2>1, <4>2, <4>3
    <3>. QED  BY <3>1, <3>2
  <2>. HIDE DEF m2
  <2>3. /\ bp \notin F2 /\ next \notin F2 /\ F2 \subseteq F
        /\ \A b \in F : b \in F2 \/ b \in P \/ b = next
        /\ \A p \in P : p \notin F2
    BY <1>5
  <2>4. end = IF next \in DOMAIN S \ U THEN next + S[next] ELSE next
    BY <1>2
  <2>. HIDE DEF F1, F2, P, end, next
  <2>5. PICK S1 : /\ HeapOf(m2, S1, U, F2, {bp}) /\ bp \in DOMAIN S1
                  /\ S1[bp] = IF next \in DOMAIN S \ U THEN S[bp] + S[next] ELSE S[bp]
                  /\ DOMAIN S1 = DOMAIN S \ ({next} \ U)
                  /\ \A x \in DOMAIN S1 \ {bp} : S1[x] = S[x]
    <3>1. next = bp + S[bp]
      BY DEF next
    <3>2. HeapOf(m2, S, U, F2, {}) /\ bp \in DOMAIN S /\ bp \notin U /\ bp \notin F2 /\ next \notin F2
      BY <1>5, <2>2, <2>3
    <3>3. \E S1 : Extended(m2, S, U, F2, bp, next, S1)
      BY <3>1, <3>2, Forward
    <3>. QED  BY <3>3 DEF Extended
  <2>6. bp + S1[bp] = end /\ next <= end /\ S1[bp] \in Nat /\ end \in Nat /\ bp < end
    <3>1. bp \in Nat /\ S[bp] \in Nat /\ S[bp] >= 16 /\ next = bp + S[bp]
      BY <1>1 DEF next
    <3>2. CASE next \in DOMAIN S \ U
      <4>1. S[next] \in Nat /\ S[next] >= 16
        BY <1>1, <3>2
      <4>. QED  BY <2>4, <2>5, <3>1, <3>2, <4>1
    <3>3. CASE next \notin DOMAIN S \ U
      BY <2>4, <2>5, <3>1, <3>3
    <3>. QED  BY <3>2, <3>3
  <2>7. PICK S2 : /\ HeapOf(m2, S2, U, F2, {start}) /\ start \in DOMAIN S2
                  /\ start + S2[start] = end
                  /\ DOMAIN S2 \ U = F2 \cup {start}
                  /\ \A x \in DOMAIN S2 \ {start} : S2[x] = S[x]
                  /\ start <= bp /\ start \notin U
                  /\ (start = bp /\ P = {}) \/ start \in P
    <3>1. CASE P = {}
      <4>1. start = bp
        BY <1>3, <3>1
      <4>2. DOMAIN S1 \ U = F2 \cup {bp}
        BY <1>5, <1>7, <2>3, <2>5, <3>1
      <4>3. bp <= bp
        BY <1>1, <1>5
      <4>. QED  BY <1>5, <2>5, <2>6, <3>1, <4>1, <4>2, <4>3
    <3>2. CASE P # {}
      <4>1. PICK p \in P : TRUE
        BY <3>2
      <4>2. start = p /\ P = {p} /\ p \in F /\ p # bp /\ p # next /\ p + S[p] = bp /\ p < bp /\ p \notin F2
        BY <1>3, <1>6, <2>3, <4>1
      <4>3. p \in DOMAIN S1 /\ p \notin U /\ S1[p] = S[p]
        BY <1>5, <2>5, <4>2
      <4>. DEFINE S2 == Merged(S1, p, bp)
      <4>4. bp = p + S1[p]
        BY <4>2, <4>3
      <4>5. /\ HeapOf(m2, S2, U, F2, ({bp} \cup {p}) \ {bp})
            /\ DOMAIN S2 = DOMAIN S1 \ {bp} /\ p \in DOMAIN S2 /\ S2[p] = S1[p] + S1[bp]
            /\ \A x \in DOMAIN S1 \ {p, bp} : S2[x] = S1[x]
        <5>1. p \in DOMAIN S1 /\ p \notin U /\ p \notin F2 /\ bp \in DOMAIN S1 /\ bp = p + S1[p] /\ bp \notin U /\ bp \notin F2
          BY <1>5, <2>3, <2>5, <4>2, <4>3, <4>4
        <5>. DEFINE X == {bp}
        <5>2. HeapOf(m2, S1, U, F2, X)
          BY <2>5
        <5>. HIDE DEF X, S2
        <5>3. /\ HeapOf(m2, Merged(S1, p, bp), U, F2, (X \cup {p}) \ {bp})
              /\ DOMAIN Merged(S1, p, bp) = DOMAIN S1 \ {bp} /\ p \in DOMAIN Merged(S1, p, bp)
              /\ Merged(S1, p, bp)[p] = S1[p] + S1[bp]
              /\ \A x \in DOMAIN S1 \ {p, bp} : Merged(S1, p, bp)[x] = S1[x]
          BY <5>1, <5>2, JoinNext
        <5>. QED  BY <5>3 DEF S2, X
      <4>6. ({bp} \cup {p}) \ {bp} = {p}
        BY <4>2
      <4>. HIDE DEF S2
      <4>7. HeapOf(m2, S2, U, F2, {p})
        BY <4>5, <4>6
      <4>8. p + S2[p] = end /\ p <= bp
        <5>1. p \in Nat /\ S[p] \in Nat /\ bp \in Nat /\ S1[bp] \in Nat
          BY <1>1, <1>5, <2>6, <4>2
        <5>. QED  BY <2>6, <4>2, <4>3, <4>5, <5>1
      <4>9. DOMAIN S2 \ U = F2 \cup {p}
        BY <1>5, <1>7, <2>3, <2>5, <4>2, <4>5
      <4>10. \A x \in DOMAIN S2 \ {p} : S2[x] = S[x]
        BY <2>5, <4>5
      <4>. QED  BY <4>2, <4>3, <4>5, <4>7, <4>8, <4>9, <4>10
    <3>. QED  BY <3>1, <3>2
  <2>. DEFINE a == add_block(Tag(m2, start, S2[start], 0), start)
  <2>8. /\ HeapOf(a, S2, U, F2 \cup {start}, {}) /\ SamePayloads(m2, a, S2, U)
        /\ DOMAIN a = DOMAIN m2 /\ mem_brk(a) = mem_brk(m2)
    BY <2>7, TagAndAdd
  <2>9. coalesce(m, bp) = a
    <3>1. start \in Nat /\ S2[start] \in Nat
      BY <2>7, HeapFacts
    <3>2. end - start = S2[start]
      BY <2>6, <2>7, <3>1
    <3>. QED  BY <2>0, <3>2
  <2>. HIDE DEF a
  <2>10. \A b \in U : S2[b] = S[b]
    <3>1. U \subseteq DOMAIN S2
      BY <2>7 DEF HeapOf
    <3>. QED  BY <2>7, <3>1
  <2>11. SamePayloads(m, a, S, U)
    BY <2>2, <2>8, <2>10, PayloadsPass
  <2>12. Apart(S2, F2 \cup {start})
    <3>1. ASSUME NEW b \in F2, b # start PROVE b + S2[b] \notin F2 \cup {start}
      <4>1. b \in F /\ S2[b] = S[b] /\ b \in DOMAIN S \ U
        BY <1>5, <2>3, <2>7, <3>1
      <4>2. b + S[b] \notin F
        BY <1>0, <4>1 DEF Apart
      <4>3. b + S[b] # start
        <5>1. b + S[b] = bp => b \in P
          BY <4>1 DEF P
        <5>. QED  BY <1>6, <2>7, <4>2, <5>1
      <4>. QED  BY <2>3, <4>1, <4>2, <4>3
    <3>2. start + S2[start] \notin F2 \cup {start}
      <4>1. end # start
        BY <1>1, <2>6, <2>7, HeapFacts
      <4>2. end \notin F2
        <5>1. CASE next \in DOMAIN S \ U
          BY <1>0, <1>7, <2>3, <2>4, <5>1 DEF Apart
        <5>2. CASE next \notin DOMAIN S \ U
          BY <2>3, <2>4, <5>2
        <5>. QED  BY <5>1, <5>2
      <4>. QED  BY <2>7, <4>1, <4>2
    <3>. QED  BY <3>1, <3>2 DEF Apart
  <2>13. Kept(m, a, S, S2, U)
    BY <2>2, <2>7, <2>8, <2>10, <2>11, <2>12 DEF Kept
  <2>14. bp + S[bp] <= start + S2[start]
    BY <2>6, <2>7 DEF next
  <2>. QED  BY <2>7, <2>9, <2>13, <2>14
<1>. QED  BY <1>8, <1>9

(* a heap between two calls: every block that is not allocated is listed, and
   no two neighbours are free *)
Whole(m, S, U) == HeapOf(m, S, U, DOMAIN S \ U, {}) /\ Apart(S, DOMAIN S \ U)

(* Blocks may be taken for allocated or not as long as their tags are open. *)
LEMMA Relabel ==
    ASSUME NEW m, NEW S, NEW U, NEW F, NEW X, HeapOf(m, S, U, F, X),
           NEW b \in DOMAIN S, b \notin F, NEW U2 \in SUBSET DOMAIN S, U \ {b} = U2 \ {b}
    PROVE  HeapOf(m, S, U2, F, X \cup {b})
<1>. DEFINE X2 == X \cup {b}
<1>1. Tiling(S, mem_brk(m)) /\ U \subseteq DOMAIN S /\ F \subseteq DOMAIN S \ (X \cup U)
  BY DEF HeapOf
<1>2. F \subseteq DOMAIN S \ (X2 \cup U2)
  BY <1>1
<1>3. \A x \in DOMAIN S \ X2 : x \in DOMAIN S \ X /\ S[x] = S[x] /\ (x \in U2 <=> x \in U)
  OBVIOUS
<1>. HIDE DEF X2
<1>4. HeapOf(m, S, U2, F, X2)
  BY <1>1, <1>2, <1>3, Retile
<1>. QED  BY <1>4 DEF X2

(* mm_free gives the block back and leaves a heap. *)
LEMMA FreeWorks ==
    ASSUME NEW m, NEW S, NEW U, Whole(m, S, U), NEW ptr \in U
    PROVE  \E S2 : Kept(m, mm_free(m, ptr), S, S2, U \ {ptr})
<1>. DEFINE V == U \ {ptr}
            F == DOMAIN S \ U
            m1 == Tag(m, ptr, S[ptr], 0)
            m2 == coalesce(m1, ptr)
<1>1. HeapOf(m, S, U, F, {}) /\ Apart(S, F) /\ U \in SUBSET DOMAIN S /\ ptr \in DOMAIN S
  BY DEF Whole, HeapOf
<1>2. mm_free(m, ptr) = m2
  <2>1. Size(m, ptr) = S[ptr]
    BY <1>1, NextIs
  <2>. QED  BY <2>1 DEF mm_free
<1>3. V \in SUBSET DOMAIN S /\ ptr \notin F /\ U \ {ptr} = V \ {ptr} /\ 0 = Bit(V, ptr) /\ ptr \notin V
      /\ F = DOMAIN S \ (V \cup {ptr})
  BY <1>1 DEF Bit
<1>. HIDE DEF V, F
<1>4. HeapOf(m, S, V, F, {ptr})
  <2>1. HeapOf(m, S, V, F, {} \cup {ptr})
    BY <1>1, <1>3, Relabel
  <2>2. {} \cup {ptr} = {ptr}
    OBVIOUS
  <2>. QED  BY <2>1, <2>2
<1>5. /\ HeapOf(m1, S, V, F, {}) /\ SamePayloads(m, m1, S, V)
      /\ DOMAIN m1 = DOMAIN m /\ mem_brk(m1) = mem_brk(m)
  <2>1. /\ HeapOf(m1, S, V, F, {ptr} \ {ptr}) /\ SamePayloads(m, m1, S, V)
        /\ DOMAIN m1 = DOMAIN m /\ mem_brk(m1) = mem_brk(m)
    BY <1>1, <1>3, <1>4, TagOne
  <2>2. {ptr} \ {ptr} = {}
    OBVIOUS
  <2>. QED  BY <2>1, <2>2
<1>. HIDE DEF m1
<1>6. PICK S2 : Kept(m1, m2, S, S2, V)
  <2>1. HeapOf(m1, S, V, DOMAIN S \ (V \cup {ptr}), {}) /\ Apart(S, DOMAIN S \ (V \cup {ptr}))
    BY <1>1, <1>3, <1>5
  <2>. QED  BY <1>1, <1>3, <2>1, Coalesce
<1>. HIDE DEF m2
<1>7. SamePayloads(m, m2, S, V)
  BY <1>5, <1>6, PayloadsPass DEF Kept
<1>8. Kept(m, m2, S, S2, V)
  BY <1>5, <1>6, <1>7 DEF Kept
<1>. QED  BY <1>2, <1>8 DEF V

-----------------------------------------------------------------------------
(* A block is taken.                                                        *)

(* the end of place and of Resized: the tags of a block that is taken, and of
   the rest if it is large enough *)
Settled(m, bp, have, need) ==
    IF have >= need + 16
    THEN add_block(Tag(Tag(m, bp, need, 1), bp + need, have - need, 0), bp + need)
    ELSE Tag(m, bp, have, 1)

(* what Settled leaves: the block has what it needs and nothing else moved *)
Taken(m, m2, S, S2, U, bp, need) ==
    /\ Whole(m2, S2, U)
    /\ \A b \in U \ {bp} : S2[b] = S[b]
    /\ S2[bp] >= need /\ S2[bp] <= S[bp]
    /\ SamePayloads(m, m2, S2, U)
    /\ DOMAIN m2 = DOMAIN m /\ mem_brk(m2) = mem_brk(m)

(* With its tags written an allocated block is in order. *)
LEMMA TagTaken ==
    ASSUME NEW m, NEW S, NEW U, NEW F, NEW X, HeapOf(m, S, U, F, X),
           NEW b \in U, b \in X
    PROVE  LET m2 == Tag(m, b, S[b], 1)
           IN  /\ HeapOf(m2, S, U, F, X \ {b}) /\ SamePayloads(m, m2, S, U)
               /\ DOMAIN m2 = DOMAIN m /\ mem_brk(m2) = mem_brk(m)
<1>. DEFINE one == 1
<1>1. b \in DOMAIN S /\ U \in SUBSET DOMAIN S /\ one = Bit(U, b)
  BY DEF Bit, HeapOf
<1>. HIDE DEF one
<1>2. /\ HeapOf(Tag(m, b, S[b], one), S, U, F, X \ {b}) /\ SamePayloads(m, Tag(m, b, S[b], one), S, U)
               /\ DOMAIN Tag(m, b, S[b], one) = DOMAIN m /\ mem_brk(Tag(m, b, S[b], one)) = mem_brk(m)
  BY <1>1, TagOne
<1>. QED  BY <1>2 DEF one

(* The rest of a block that is taken is listed when it is large enough. *)
LEMMA Settles ==
    ASSUME NEW m, NEW S, NEW U, NEW bp \in U, HeapOf(m, S, U, DOMAIN S \ U, {bp}), Apart(S, DOMAIN S \ U),
           bp + S[bp] \notin DOMAIN S \ U, NEW need \in Nat, need % 8 = 0, need >= 16, need <= S[bp]
    PROVE  \E S2 : Taken(m, Settled(m, bp, S[bp], need), S, S2, U, bp, need)
<1>. DEFINE F == DOMAIN S \ U
            have == S[bp]
            rest == bp + need
            brk == mem_brk(m)
<1>1. /\ bp \in DOMAIN S /\ U \in SUBSET DOMAIN S /\ Tiling(S, brk) /\ 1 = Bit(U, bp)
      /\ bp \in Nat /\ have \in Nat /\ brk \in Nat
      /\ \A b \in DOMAIN S : b \in Nat /\ S[b] \in Nat /\ S[b] >= 16 /\ b + S[b] <= brk
      /\ \A b \in DOMAIN S : b + S[b] = brk \/ b + S[b] \in DOMAIN S
  <2>1. bp \in DOMAIN S /\ U \in SUBSET DOMAIN S /\ Tiling(S, brk) /\ 1 = Bit(U, bp)
    BY DEF HeapOf, Bit
  <2>2. /\ brk \in Nat
        /\ \A b \in DOMAIN S : b \in Nat /\ S[b] \in Nat /\ S[b] >= 16 /\ b + S[b] <= brk
    BY HeapFacts
  <2>. QED  BY <2>1, <2>2 DEF Tiling
<1>2. HeapOf(m, S, U, F, {bp}) /\ Apart(S, F) /\ bp + have \notin F
  OBVIOUS
<1>3. CASE ~(have >= need + 16)
  <2>. DEFINE m2 == Tag(m, bp, have, 1)
  <2>1. /\ HeapOf(m2, S, U, F, {bp} \ {bp}) /\ SamePayloads(m, m2, S, U)
        /\ DOMAIN m2 = DOMAIN m /\ mem_brk(m2) = mem_brk(m)
    <3>1. bp \in {bp} /\ bp \in DOMAIN S /\ U \in SUBSET DOMAIN S /\ 1 = Bit(U, bp)
      BY <1>1
    <3>. HIDE DEF F
    <3>. QED  BY <1>2, <3>1, TagTaken
  <2>2. {bp} \ {bp} = {}
    OBVIOUS
  <2>3. Settled(m, bp, S[bp], need) = m2
    BY <1>3 DEF Settled
  <2>. HIDE DEF m2
  <2>4. HeapOf(m2, S, U, F, {})
    BY <2>1, <2>2
  <2>5. S[bp] <= S[bp]
    BY <1>1
  <2>6. Taken(m, m2, S, S, U, bp, need)
    BY <1>2, <2>1, <2>4, <2>5 DEF Taken, Whole
  <2>. QED  BY <2>3, <2>6
<1>4. CASE have >= need + 16
  <2>. DEFINE S2 == Cut(S, bp, need)
              m1 == Tag(m, bp, S2[bp], 1)
              m2 == add_block(Tag(m1, rest, S2[rest], 0), rest)
  <2>1. /\ Tiling(S2, brk) /\ rest \notin DOMAIN S /\ DOMAIN S2 = DOMAIN S \cup {rest}
        /\ S2[bp] = need /\ S2[rest] = have - need
        /\ \A x \in DOMAIN S \ {bp} : S2[x] = S[x]
    <3>1. S[bp] - need >= 16 /\ bp \in DOMAIN S /\ brk \in Nat /\ Tiling(S, brk)
      BY <1>1, <1>4
    <3>. HIDE DEF brk, S2
    <3>2. /\ Tiling(Cut(S, bp, need), brk) /\ bp + need \notin DOMAIN S
          /\ DOMAIN Cut(S, bp, need) = DOMAIN S \cup {bp + need}
          /\ Cut(S, bp, need)[bp] = need /\ Cut(S, bp, need)[bp + need] = S[bp] - need
          /\ \A x \in DOMAIN S \ {bp} : Cut(S, bp, need)[x] = S[x]
      BY <3>1, CutTiles
    <3>. QED  BY <3>2 DEF S2
  <2>2. Settled(m, bp, S[bp], need) = m2
    BY <1>4, <2>1 DEF Settled
  <2>3. rest # bp /\ rest < brk /\ rest + (have - need) = bp + have /\ rest < bp + have
    BY <1>1, <1>4
  <2>. HIDE DEF S2, rest, have, F
  <2>4. HeapOf(m, S2, U, F, {bp, rest})
    <3>. DEFINE X2 == {bp, rest}
    <3>1. U \in SUBSET DOMAIN S2 /\ F \subseteq DOMAIN S2 \ (X2 \cup U)
      BY <1>1, <2>1 DEF F
    <3>2. \A x \in DOMAIN S2 \ X2 : x \in DOMAIN S \ {bp} /\ S2[x] = S[x] /\ (x \in U <=> x \in U)
      BY <2>1
    <3>3. Tiling(S2, mem_brk(m))
      BY <2>1
    <3>. HIDE DEF X2
    <3>4. HeapOf(m, S2, U, F, X2)
      BY <1>2, <3>1, <3>2, <3>3, Retile
    <3>. QED  BY <3>4 DEF X2
  <2>5. /\ HeapOf(m1, S2, U, F, {rest}) /\ SamePayloads(m, m1, S2, U)
        /\ DOMAIN m1 = DOMAIN m /\ mem_brk(m1) = mem_brk(m)
    <3>. DEFINE X2 == {bp, rest}
    <3>1. HeapOf(m, S2, U, F, X2) /\ bp \in X2 /\ bp \in DOMAIN S2 /\ U \in SUBSET DOMAIN S2 /\ 1 = Bit(U, bp)
      BY <1>1, <2>1, <2>4
    <3>2. X2 \ {bp} = {rest}
      BY <2>3
    <3>. HIDE DEF X2
    <3>3. /\ HeapOf(m1, S2, U, F, X2 \ {bp}) /\ SamePayloads(m, m1, S2, U)
          /\ DOMAIN m1 = DOMAIN m /\ mem_brk(m1) = mem_brk(m)
      BY <3>1, TagTaken
    <3>. QED  BY <3>2, <3>3
  <2>. HIDE DEF m1
  <2>6. /\ HeapOf(m2, S2, U, F \cup {rest}, {}) /\ SamePayloads(m1, m2, S2, U)
        /\ DOMAIN m2 = DOMAIN m1 /\ mem_brk(m2) = mem_brk(m1)
    <3>1. rest \in DOMAIN S2 /\ rest \notin U
      BY <1>1, <2>1
    <3>. QED  BY <2>5, <3>1, TagAndAdd
  <2>. HIDE DEF m2
  <2>7. F \cup {rest} = DOMAIN S2 \ U
    BY <1>1, <2>1 DEF F
  <2>8. SamePayloads(m, m2, S2, U)
    BY <2>5, <2>6, PayloadsPass
  <2>9. Apart(S2, F \cup {rest})
    <3>1. ASSUME NEW b \in F PROVE b + S2[b] \notin F \cup {rest}
      <4>1. b \in DOMAIN S /\ b # bp /\ S2[b] = S[b]
        BY <2>1 DEF F
      <4>2. b + S[b] \notin F
        BY <1>2 DEF Apart
      <4>3. b + S[b] # rest
        BY <1>1, <2>1, <2>3, <4>1
      <4>. QED  BY <4>1, <4>2, <4>3
    <3>2. rest + S2[rest] \notin F \cup {rest}
      <4>1. rest + S2[rest] = bp + have
        BY <2>1, <2>3
      <4>2. bp + have # rest
        BY <1>1, <2>3 DEF rest, have
      <4>. QED  BY <1>2, <4>1, <4>2
    <3>. QED  BY <3>1, <3>2 DEF Apart
  <2>10. need >= need /\ need <= S[bp]
    BY <1>1
  <2>11. Taken(m, m2, S, S2, U, bp, need)
    <3>1. \A b \in U \ {bp} : S2[b] = S[b]
      BY <1>1, <2>1
    <3>2. Whole(m2, S2, U)
      BY <2>6, <2>7, <2>9 DEF Whole
    <3>. QED  BY <2>1, <2>5, <2>6, <2>8, <2>10, <3>1, <3>2 DEF Taken
  <2>. QED  BY <2>2, <2>11
<1>. QED  BY <1>3, <1>4

(* bp is allocated, too, with room for what is needed *)
Added(m, m2, S, S2, U, bp, need) ==
    /\ Whole(m2, S2, U \cup {bp})
    /\ \A b \in U : S2[b] = S[b]
    /\ S2[bp] >= need
    /\ SamePayloads(m, m2, S, U)
    /\ DOMAIN m2 = DOMAIN m /\ mem_brk(m2) = mem_brk(m)

(* place takes a free block that is large enough. *)
LEMMA PlaceWorks ==
    ASSUME NEW m, NEW S, NEW U, Whole(m, S, U), NEW bp \in DOMAIN S, bp \notin U,
           NEW asize \in Nat, asize % 8 = 0, asize >= 16, asize <= S[bp]
    PROVE  \E S2 : Added(m, place(m, bp, asize), S, S2, U, bp, asize)
<1>. DEFINE F == DOMAIN S \ U
            V == U \cup {bp}
            m1 == delete_block(m, bp)
            m2 == place(m, bp, asize)
<1>1. HeapOf(m, S, U, F, {}) /\ Apart(S, F) /\ U \in SUBSET DOMAIN S
  BY DEF Whole, HeapOf
<1>2. Size(m, bp) = S[bp] /\ S[bp] \in Nat
  BY <1>1, NextIs, HeapFacts
<1>3. m2 = Settled(m1, bp, S[bp], asize)
  <2>1. S[bp] - asize >= 16 <=> S[bp] >= asize + 16
    BY <1>2
  <2>. QED  BY <1>2, <2>1, Places DEF place, Settled
<1>4. /\ HeapOf(m1, S, U, F \ {bp}, {}) /\ SamePayloads(m, m1, S, U)
      /\ DOMAIN m1 = DOMAIN m /\ mem_brk(m1) = mem_brk(m)
  BY <1>1, HeapDelete
<1>. HIDE DEF m1
<1>5. /\ F \ {bp} = DOMAIN S \ V /\ bp \notin F \ {bp} /\ V \in SUBSET DOMAIN S /\ U \ {bp} = V \ {bp} /\ bp \in F
      /\ bp \in V /\ V \ {bp} = U
  BY <1>1
<1>. HIDE DEF V, F
<1>6. HeapOf(m1, S, V, F \ {bp}, {bp})
  <2>1. HeapOf(m1, S, V, F \ {bp}, {} \cup {bp})
    BY <1>4, <1>5, Relabel
  <2>2. {} \cup {bp} = {bp}
    OBVIOUS
  <2>. QED  BY <2>1, <2>2
<1>7. Apart(S, F \ {bp}) /\ bp + S[bp] \notin F \ {bp}
  BY <1>1, <1>5 DEF Apart
<1>8. PICK S2 : Taken(m1, m2, S, S2, V, bp, asize)
  <2>1. /\ HeapOf(m1, S, V, DOMAIN S \ V, {bp}) /\ Apart(S, DOMAIN S \ V)
        /\ bp + S[bp] \notin DOMAIN S \ V
    BY <1>5, <1>6, <1>7
  <2>. QED  BY <1>3, <1>5, <2>1, Settles
<1>. HIDE DEF m2
<1>9. \A b \in U : S2[b] = S[b]
  BY <1>5, <1>8 DEF Taken
<1>10. SamePayloads(m, m2, S, U)
  <2>1. SamePayloads(m1, m2, S2, U)
    BY <1>5, <1>8 DEF Taken, SamePayloads
  <2>. QED  BY <1>4, <1>9, <2>1, PayloadsPass
<1>. QED  BY <1>4, <1>8, <1>9, <1>10 DEF Taken, Added, V, m2

-----------------------------------------------------------------------------
(* The heap grows.                                                          *)

(* mem_sbrk adds words at the end and changes none. *)
LEMMA SbrkIs ==
    ASSUME NEW m, NEW brk, InMem(m, brk), NEW size \in Nat, size % 8 = 0, brk + size <= MaxSize
    PROVE  LET m2 == mem_sbrk(m, size)
           IN  InMem(m2, brk + size) /\ \A w \in DOMAIN m : m2[w] = m[w]
<1>. DEFINE m2 == mem_sbrk(m, size)
            W == Words(brk, brk + size)
<1>1. /\ \A w : w \in DOMAIN m <=> w \in Nat /\ 8 <= w /\ w < brk /\ w % 4 = 0
      /\ mem_brk(m) = brk
      /\ brk \in Nat /\ brk % 8 = 0 /\ FirstBlock <= brk /\ FirstBlock \in Nat /\ FirstBlock >= 8
      /\ mem_start_brk = 8 /\ WSIZE = 4
  <2>1. /\ \A w : w \in DOMAIN m <=> w \in Nat /\ 8 <= w /\ w < brk /\ w % 4 = 0
        /\ mem_brk(m) = brk
    BY HeapWords
  <2>2. brk \in Nat /\ brk % 8 = 0 /\ FirstBlock <= brk
    BY DEF InMem
  <2>3. FirstBlock \in Nat /\ FirstBlock >= 8 /\ mem_start_brk = 8 /\ WSIZE = 4
    BY Places
  <2>. QED  BY <2>1, <2>2, <2>3
<1>2. \A w : w \in W <=> w \in Nat /\ brk <= w /\ w < brk + size /\ w % 4 = 0
  BY <1>1 DEF Words
<1>3. \A w : w \in Words(8, brk + size) <=> w \in Nat /\ 8 <= w /\ w < brk + size /\ w % 4 = 0
  BY <1>1 DEF Words
<1>. HIDE DEF W
<1>4. m2 = [w \in DOMAIN m \cup W |-> IF w \in W THEN Junk ELSE m[w]]
  <2>1. m2 = Write(m, [w \in W |-> Junk])
    BY <1>1 DEF mem_sbrk, W
  <2>. QED  BY <2>1 DEF Write
<1>. HIDE DEF m2
<1>5. DOMAIN m2 = Words(8, brk + size)
  <2>1. DOMAIN m2 = DOMAIN m \cup W
    BY <1>4
  <2>2. \A w : w \in DOMAIN m \cup W <=> w \in Words(8, brk + size)
    <3>1. ASSUME NEW w PROVE w \in DOMAIN m \/ w \in W <=> w \in Words(8, brk + size)
      BY <1>1, <1>2, <1>3
    <3>. QED  BY <3>1
  <2>. QED  BY <2>1, <2>2
<1>6. \A w \in DOMAIN m : m2[w] = m[w]
  <2>1. \A w \in DOMAIN m : w \notin W
    BY <1>1, <1>2
  <2>. QED  BY <1>4, <2>1
<1>7. InMem(m2, brk + size)
  <2>1. brk + size \in Nat /\ (brk + size) % 8 = 0 /\ FirstBlock <= brk + size
    BY <1>1
  <2>. QED  BY <1>1, <1>5, <2>1 DEF InMem
<1>. QED  BY <1>6, <1>7 DEF m2

(* the heap with a new block of at least the size that was asked for *)
Grew(m, new, S, S2, U, size) ==
    /\ Whole(new.mem, S2, U)
    /\ \A b \in U : S2[b] = S[b]
    /\ SamePayloads(m, new.mem, S, U)
    /\ mem_brk(new.mem) = mem_brk(m) + size
    /\ new.ptr \in DOMAIN S2 \ U /\ S2[new.ptr] >= size

(* extend_heap: the new words become a free block, joined with a free one in
   front of them. *)
LEMMA ExtendWorks ==
    ASSUME NEW m, NEW S, NEW U, Whole(m, S, U), NEW size \in Nat, size % 8 = 0, size >= 16,
           mem_brk(m) + size <= MaxSize
    PROVE  \E S2 : Grew(m, extend_heap(m, size), S, S2, U, size)
<1>. DEFINE F == DOMAIN S \ U
            brk == mem_brk(m)
            end == brk + size
            m0 == mem_sbrk(m, size)
            e == PUT(Tag(m0, brk, size, 0), HDRP(brk + size), 1)
            S1 == Grown(S, brk, size)
            new == extend_heap(m, size)
<1>1. HeapOf(m, S, U, F, {}) /\ Apart(S, F) /\ U \in SUBSET DOMAIN S
  BY DEF Whole, HeapOf
<1>2. /\ \A w : w \in DOMAIN m <=> w \in Nat /\ 8 <= w /\ w < brk /\ w % 4 = 0
      /\ brk \in Nat /\ brk % 8 = 0 /\ FirstBlock <= brk /\ ptr_big \in Nat
      /\ FirstBlock \in Nat /\ FirstBlock = ptr_big + 16 /\ ptr_big >= 16 /\ ptr_begin = ptr_big + 8
      /\ ptr_big % 8 = 0
  BY <1>1, HeapFacts, Places
<1>3. /\ \A b \in DOMAIN S : b \in Nat /\ S[b] \in Nat /\ S[b] >= 16 /\ b + S[b] <= brk /\ b > ptr_big + 8
                             /\ b % 8 = 0 /\ S[b] % 8 = 0
      /\ Tiling(S, brk) /\ InMem(m, brk)
  BY <1>1, HeapFacts DEF HeapOf
<1>4. new.mem = coalesce(e, brk) /\ new.ptr = CoalescedAt(e, brk)
  BY DEF extend_heap
<1>. HIDE DEF new, brk
<1>5. InMem(m0, end) /\ \A w \in DOMAIN m : m0[w] = m[w]
  BY <1>3, SbrkIs DEF brk
<1>6. \A w : w \in DOMAIN m0 <=> w \in Nat /\ 8 <= w /\ w < end /\ w % 4 = 0
  BY <1>5, HeapWords
<1>. HIDE DEF m0
<1>7. end \in Nat /\ end % 8 = 0 /\ end = brk + size
  BY <1>2
<1>. HIDE DEF end
<1>8. /\ DOMAIN e = DOMAIN m0 /\ e[brk - 4] = size /\ e[end - 8] = size /\ e[end - 4] = 1
      /\ \A w \in DOMAIN m0 : w # brk - 4 /\ w # end - 8 /\ w # end - 4 => e[w] = m0[w]
  <2>1. /\ brk - 4 \in DOMAIN m0 /\ end - 8 \in DOMAIN m0 /\ end - 4 \in DOMAIN m0
        /\ brk - 4 # end - 8 /\ brk - 4 # end - 4 /\ end - 8 # end - 4
    BY <1>2, <1>6, <1>7
  <2>2. e = PUT(PUT(PUT(m0, brk - 4, size), end - 8, size), end - 4, 1)
    <3>1. brk + size - 8 = end - 8 /\ size + 0 = size /\ HDRP(brk + size) = end - 4 /\ HDRP(brk) = brk - 4
      BY <1>2, <1>7, Pointers
    <3>2. Tag(m0, brk, size, 0) = PUT(PUT(m0, brk - 4, size), end - 8, size)
      BY <3>1, Places DEF Tag
    <3>. QED  BY <3>1, <3>2
  <2>. HIDE DEF e
  <2>. QED  BY <2>1, <2>2, ThreePuts
<1>. HIDE DEF e
<1>9. InMem(e, end) /\ mem_brk(e) = end
  <2>1. InMem(e, end)
    BY <1>5, <1>8 DEF InMem
  <2>. QED  BY <2>1, HeapWords
<1>10. \A w \in DOMAIN m : w # brk - 4 => e[w] = m[w]
  <2>1. \A w \in DOMAIN m : w \in DOMAIN m0 /\ w # end - 8 /\ w # end - 4
    BY <1>2, <1>6, <1>7
  <2>. QED  BY <1>5, <1>8, <2>1
<1>11. /\ Tiling(S1, end) /\ brk \notin DOMAIN S /\ DOMAIN S1 = DOMAIN S \cup {brk}
       /\ S1[brk] = size /\ \A x \in DOMAIN S : S1[x] = S[x]
  <2>. HIDE DEF S1
  <2>1. /\ Tiling(Grown(S, brk, size), brk + size) /\ brk \notin DOMAIN S
        /\ \A x : x \in DOMAIN Grown(S, brk, size) <=> x \in DOMAIN S \/ x = brk
        /\ Grown(S, brk, size)[brk] = size
        /\ \A x \in DOMAIN S : Grown(S, brk, size)[x] = S[x]
    <3>1. brk \in Nat /\ brk % 8 = 0 /\ brk >= FirstBlock /\ Tiling(S, brk)
      BY <1>2, <1>3
    <3>2. size \in Nat /\ size % 8 = 0 /\ size >= 16
      OBVIOUS
    <3>. QED  BY <3>1, <3>2, GrownTiles
  <2>2. DOMAIN S1 = DOMAIN S \cup {brk}
    BY <2>1 DEF S1
  <2>. QED  BY <1>7, <2>1, <2>2 DEF S1
<1>. HIDE DEF S1
<1>12. ASSUME NEW b \in DOMAIN S
       PROVE  e[b - 4] = m[b - 4] /\ e[b + S[b] - 8] = m[b + S[b] - 8]
  <2>1. b \in Nat /\ S[b] \in Nat /\ S[b] >= 16 /\ b + S[b] <= brk /\ b > ptr_big + 8
        /\ b % 8 = 0 /\ S[b] % 8 = 0
    BY <1>3
  <2>2. b - 4 \in DOMAIN m /\ b - 4 # brk - 4 /\ b + S[b] - 8 \in DOMAIN m /\ b + S[b] - 8 # brk - 4
    BY <1>2, <2>1
  <2>. QED  BY <1>10, <2>2
<1>13. Tagged(e, S1, U, {}, end)
  <2>1. m[ptr_begin - 4] = 9 /\ m[ptr_begin] = 9
        /\ \A b \in DOMAIN S : m[b - 4] = S[b] + Bit(U, b) /\ m[b + S[b] - 8] = S[b] + Bit(U, b)
    BY <1>1 DEF HeapOf, Tagged
  <2>2. e[ptr_begin - 4] = 9 /\ e[ptr_begin] = 9
    <3>1. ptr_begin - 4 \in DOMAIN m /\ ptr_begin \in DOMAIN m /\ ptr_begin - 4 # brk - 4 /\ ptr_begin # brk - 4
      BY <1>2
    <3>. QED  BY <1>10, <2>1, <3>1
  <2>3. e[brk - 4] = S1[brk] + Bit(U, brk) /\ e[brk + S1[brk] - 8] = S1[brk] + Bit(U, brk)
    <3>1. Bit(U, brk) = 0 /\ S1[brk] = size
      BY <1>1, <1>11 DEF Bit
    <3>2. brk + S1[brk] - 8 = end - 8 /\ size + 0 = size
      BY <1>2, <1>7, <3>1
    <3>. QED  BY <1>8, <3>1, <3>2
  <2>4. ASSUME NEW b \in DOMAIN S1
        PROVE  e[b - 4] = S1[b] + Bit(U, b) /\ e[b + S1[b] - 8] = S1[b] + Bit(U, b)
    <3>1. CASE b = brk
      BY <2>3, <3>1
    <3>2. CASE b \in DOMAIN S
      <4>1. S1[b] = S[b]
        BY <1>11, <3>2
      <4>. QED  BY <1>12, <2>1, <3>2, <4>1
    <3>. QED  BY <1>11, <3>1, <3>2
  <2>. QED  BY <1>8, <2>2, <2>4 DEF Tagged
<1>14. Listed(e, S1, F)
  <2>1. Listed(m, S, F) /\ \A b \in F : b \in DOMAIN S /\ (~Big(S[b]) => IsSmall(S[b]))
    BY <1>1, SmallSizes DEF HeapOf
  <2>2. ASSUME NEW b \in F, NEW w \in NodeLinks(m, S, b) PROVE e[w] = m[w]
    <3>1. w \in OwnLinks(S, b) /\ b \in DOMAIN S
      BY <2>1 DEF NodeLinks, OwnLinks
    <3>2. w < b + S[b] - 8 /\ b <= w
      BY <1>1, <3>1, LinksInside
    <3>3. w \in DOMAIN m
      <4>1. Laid(m, S, DOMAIN S \ {})
        BY <1>1, HeapFacts
      <4>. QED  BY <3>1, <4>1 DEF Laid, OwnLinks
    <3>4. w # brk - 4
      BY <1>2, <1>3, <3>1, <3>2, <3>3
    <3>. QED  BY <1>10, <3>3, <3>4
  <2>3. e[ptr_big] = m[ptr_big]
    <3>1. ptr_big \in DOMAIN m /\ ptr_big # brk - 4
      BY <1>2
    <3>. QED  BY <1>10, <3>1
  <2>4. \A s : IsSmall(s) => e[PTR_LIST(s)] = m[PTR_LIST(s)]
    <3>1. ASSUME NEW s, IsSmall(s) PROVE PTR_LIST(s) \in DOMAIN m /\ PTR_LIST(s) # brk - 4
      <4>1. PTR_LIST(s) \in Nat /\ PTR_LIST(s) >= 8 /\ PTR_LIST(s) < ptr_big /\ PTR_LIST(s) % 4 = 0
        BY <3>1, ListWords DEF IsSmall
      <4>. QED  BY <1>2, <4>1
    <3>. QED  BY <1>10, <3>1
  <2>5. \A b \in F : S1[b] = S[b]
    BY <1>11, <2>1
  <2>. HIDE DEF F
  <2>. QED  BY <2>1, <2>2, <2>3, <2>4, <2>5, ListedStays
<1>15. HeapOf(e, S1, U, F, {})
  <2>1. F \subseteq DOMAIN S1 \ ({} \cup U) /\ U \subseteq DOMAIN S1
    BY <1>1, <1>11
  <2>. QED  BY <1>9, <1>11, <1>13, <1>14, <2>1 DEF HeapOf
<1>16. F = DOMAIN S1 \ (U \cup {brk}) /\ brk \in DOMAIN S1 /\ brk \notin U
  BY <1>1, <1>11
<1>17. Apart(S1, F)
  BY <1>1, <1>11 DEF Apart
<1>. HIDE DEF F
<1>18. PICK S2 : /\ Kept(e, coalesce(e, brk), S1, S2, U)
                 /\ CoalescedAt(e, brk) \in DOMAIN S2 \ U /\ CoalescedAt(e, brk) <= brk
                 /\ brk + S1[brk] <= CoalescedAt(e, brk) + S2[CoalescedAt(e, brk)]
  <2>1. HeapOf(e, S1, U, DOMAIN S1 \ (U \cup {brk}), {}) /\ Apart(S1, DOMAIN S1 \ (U \cup {brk}))
    BY <1>15, <1>16, <1>17
  <2>. QED  BY <1>16, <2>1, Coalesce
<1>19. SamePayloads(m, e, S, U)
  <2>1. ASSUME NEW b \in U, NEW w \in DOMAIN m, b <= w, w < b + S[b] - 8 PROVE e[w] = m[w]
    <3>1. b \in Nat /\ S[b] \in Nat /\ b + S[b] <= brk /\ w \in Nat
      BY <1>1, <1>2, <1>3
    <3>2. w # brk - 4
      BY <1>2, <2>1, <3>1
    <3>. QED  BY <1>10, <3>2
  <2>. QED  BY <2>1 DEF SamePayloads
<1>20. \A b \in U : S1[b] = S[b]
  BY <1>1, <1>11
<1>21. SamePayloads(m, coalesce(e, brk), S, U)
  <2>1. ASSUME NEW b \in U, NEW w \in DOMAIN m, b <= w, w < b + S[b] - 8
        PROVE  coalesce(e, brk)[w] = m[w]
    <3>1. w \in DOMAIN e
      BY <1>2, <1>6, <1>7, <1>8
    <3>2. e[w] = m[w]
      BY <1>19, <2>1 DEF SamePayloads
    <3>3. coalesce(e, brk)[w] = e[w]
      BY <1>18, <1>20, <2>1, <3>1 DEF Kept, SamePayloads
    <3>. QED  BY <3>2, <3>3
  <2>. QED  BY <2>1 DEF SamePayloads
<1>22. \A b \in U : S2[b] = S[b]
  BY <1>18, <1>20 DEF Kept
<1>23. Whole(coalesce(e, brk), S2, U) /\ mem_brk(coalesce(e, brk)) = brk + size
  BY <1>7, <1>9, <1>18 DEF Kept, Whole
<1>24. S2[CoalescedAt(e, brk)] >= size
  <2>. DEFINE c == CoalescedAt(e, brk)
  <2>1. c \in Nat /\ S2[c] \in Nat
    BY <1>18, HeapFacts DEF Kept
  <2>. HIDE DEF c
  <2>2. c <= brk /\ brk + size <= c + S2[c]
    BY <1>11, <1>18 DEF c
  <2>3. S2[c] >= size
    BY <1>2, <2>1, <2>2
  <2>. QED  BY <2>3 DEF c
<1>25. Grew(m, new, S, S2, U, size)
  BY <1>4, <1>18, <1>21, <1>22, <1>23, <1>24 DEF Grew, brk
<1>. QED  BY <1>25 DEF new

(* mm_init makes a heap whose blocks are all free. *)
LEMMA InitWorks == \E S : Whole(mm_init, S, {}) /\ FirstBlock < mem_brk(mm_init)
<1>. DEFINE p == [w \in Words(mem_start_brk, FirstBlock) |->
                        CASE w \in {ptr_begin - WSIZE, ptr_begin} -> DSIZE + 1
                          [] w = HDRP(FirstBlock)                 -> 1
                          [] OTHER                                -> 0]
            S == [b \in {} |-> 0]
<1>1. /\ FirstBlock \in Nat /\ FirstBlock % 8 = 0 /\ FirstBlock <= MaxSize /\ FirstBlock = ptr_big + 16
      /\ ptr_big \in Nat /\ ptr_big >= 16 /\ ptr_big % 8 = 0 /\ ptr_begin = ptr_big + 8
      /\ CHUNKSIZE \in Nat /\ CHUNKSIZE % 8 = 0 /\ CHUNKSIZE >= 16 /\ FirstBlock + CHUNKSIZE <= MaxSize
  BY Places DEF MaxSize
<1>2. /\ InMem(p, FirstBlock)
      /\ p[ptr_begin - 4] = 9 /\ p[ptr_begin] = 9 /\ p[FirstBlock - 4] = 1
      /\ \A w \in DOMAIN p : w <= ptr_big => p[w] = 0
  <2>1. InMem(p, FirstBlock)
    BY <1>1 DEF InMem
  <2>2. \A w : w \in DOMAIN p <=> w \in Nat /\ 8 <= w /\ w < FirstBlock /\ w % 4 = 0
    <3>. HIDE DEF p
    <3>. QED  BY <2>1, HeapWords
  <2>3. ptr_begin - 4 \in DOMAIN p /\ ptr_begin \in DOMAIN p /\ FirstBlock - 4 \in DOMAIN p
    <3>. HIDE DEF p
    <3>. QED  BY <1>1, <2>2
  <2>4. HDRP(FirstBlock) = FirstBlock - 4 /\ WSIZE = 4 /\ DSIZE = 8
    BY Pointers, Places
  <2>5. p[ptr_begin - 4] = 9 /\ p[ptr_begin] = 9
    <3>1. \A w \in DOMAIN p : w \in {ptr_begin - 4, ptr_begin} => p[w] = 8 + 1
      <4>1. ASSUME NEW w \in Words(mem_start_brk, FirstBlock), w \in {ptr_begin - WSIZE, ptr_begin}
            PROVE  p[w] = DSIZE + 1
        <5>1. w # HDRP(FirstBlock)
          BY <1>1, <2>4, <4>1
        <5>. QED  BY <4>1, <5>1
      <4>2. DOMAIN p = Words(mem_start_brk, FirstBlock)
        OBVIOUS
      <4>. HIDE DEF p
      <4>. QED  BY <2>4, <4>1, <4>2
    <3>2. 8 + 1 = 9
      OBVIOUS
    <3>. HIDE DEF p
    <3>. QED  BY <2>3, <3>1, <3>2
  <2>6. p[FirstBlock - 4] = 1
    <3>1. FirstBlock - 4 # ptr_begin - 4 /\ FirstBlock - 4 # ptr_begin
      BY <1>1
    <3>. QED  BY <2>3, <2>4, <3>1
  <2>7. ASSUME NEW w \in DOMAIN p, w <= ptr_big PROVE p[w] = 0
    <3>1. w \in Nat
      <4>. HIDE DEF p
      <4>. QED  BY <2>2
    <3>2. w # ptr_begin - 4 /\ w # ptr_begin /\ w # FirstBlock - 4
      BY <1>1, <2>7, <3>1
    <3>. QED  BY <2>4, <2>7, <3>2
  <2>. HIDE DEF p
  <2>. QED  BY <2>1, <2>5, <2>6, <2>7
<1>3. mm_init = extend_heap(p, CHUNKSIZE).mem
  BY DEF mm_init
<1>. HIDE DEF p
<1>4. mem_brk(p) = FirstBlock /\ \A w : w \in DOMAIN p <=> w \in Nat /\ 8 <= w /\ w < FirstBlock /\ w % 4 = 0
  BY <1>2, HeapWords
<1>5. Tiling(S, FirstBlock)
  BY DEF Tiling
<1>6. Tagged(p, S, {}, {}, FirstBlock)
  BY <1>2 DEF Tagged
<1>7. Listed(p, S, {})
  <2>1. ptr_big \in DOMAIN p /\ p[ptr_big] = 0
    <3>1. ptr_big \in DOMAIN p /\ ptr_big <= ptr_big
      BY <1>1, <1>4
    <3>. QED  BY <1>2, <3>1
  <2>2. \A s : IsSmall(s) => p[PTR_LIST(s)] = 0
    <3>1. ASSUME NEW s, IsSmall(s) PROVE PTR_LIST(s) \in DOMAIN p /\ PTR_LIST(s) <= ptr_big
      <4>1. PTR_LIST(s) \in Nat /\ PTR_LIST(s) >= 8 /\ PTR_LIST(s) < ptr_big /\ PTR_LIST(s) % 4 = 0
        BY <3>1, ListWords DEF IsSmall
      <4>. QED  BY <1>1, <1>4, <4>1
    <3>. QED  BY <1>2, <3>1
  <2>3. Nodes(p, S, {}) = {}
    BY DEF Nodes
  <2>4. Tree(p, S, {}, [b \in {} |-> 0], [b \in {} |-> 0])
    BY <2>1 DEF Tree, Bounded, Rooted, Branched, Held
  <2>5. Ordered(p, {}, [b \in {} |-> 0], 0)
    BY DEF Ordered
  <2>6. Chained(p, S, {}) /\ Headed(p, S, {})
    BY <2>2 DEF Chained, Headed
  <2>. QED  BY <2>3, <2>4, <2>5, <2>6 DEF Listed
<1>8. DOMAIN S = {}
  OBVIOUS
<1>9. HeapOf(p, S, {}, {}, {})
  BY <1>2, <1>4, <1>5, <1>6, <1>7 DEF HeapOf
<1>. HIDE DEF S
<1>10. Whole(p, S, {})
  BY <1>8, <1>9 DEF Whole, Apart
<1>11. PICK S2 : Grew(p, extend_heap(p, CHUNKSIZE), S, S2, {}, CHUNKSIZE)
  BY <1>1, <1>4, <1>10, ExtendWorks
<1>12. FirstBlock < FirstBlock + CHUNKSIZE
  BY <1>1
<1>. QED  BY <1>3, <1>4, <1>11, <1>12 DEF Grew

-----------------------------------------------------------------------------
(* The calls of the package.                                                *)

(* What is asked for, rounded up. *)
LEMMA Aligned ==
    ASSUME NEW size \in Nat, size > 0
    PROVE  /\ ALIGN(size + DSIZE) \in Nat /\ ALIGN(size + DSIZE) % 8 = 0
           /\ ALIGN(size + DSIZE) >= 16 /\ ALIGN(size + DSIZE) >= size + 8
  BY Places DEF ALIGN

(* the block new.ptr is taken, the others and what they hold stay *)
Given(m, new, S, S2, U, need) ==
    /\ Whole(new.mem, S2, U \cup {new.ptr})
    /\ new.ptr \notin U
    /\ \A b \in U : S2[b] = S[b]
    /\ S2[new.ptr] >= need
    /\ SamePayloads(m, new.mem, S, U)
    /\ mem_brk(m) <= mem_brk(new.mem)

(* the answer to a request: a block of F that fits best, a new one if none
   does, NULL if the heap cannot grow *)
Chosen(m, new, S, F, need) ==
    LET fits == {b \in F : S[b] >= need}
    IN  /\ fits # {} => /\ new.ptr \in fits /\ mem_brk(new.mem) = mem_brk(m)
                        /\ \A b \in fits : S[new.ptr] <= S[b]
        /\ fits = {} => (new.ptr = 0 <=> ~CanSbrk(m, Max({need, CHUNKSIZE})))

(* Blocks are no null pointers. *)
LEMMA NoBlockIsNull ==
    ASSUME NEW m, NEW S, NEW U, Whole(m, S, U)
    PROVE  0 \notin DOMAIN S /\ U \subseteq DOMAIN S
<1>1. HeapOf(m, S, U, DOMAIN S \ U, {})
  BY DEF Whole
<1>2. \A b \in DOMAIN S : b > ptr_big + 8 /\ ptr_big \in Nat
  BY <1>1, HeapFacts
<1>3. 0 \notin DOMAIN S
  BY <1>2
<1>. QED  BY <1>1, <1>3 DEF HeapOf

(* mm_malloc: the smallest free block that is large enough, else a new one;
   NULL only when there is none and the heap cannot grow. *)
LEMMA MallocWorks ==
    ASSUME NEW m, NEW S, NEW U, Whole(m, S, U), NEW size \in Nat, size > 0
    PROVE  LET new  == mm_malloc(m, size)
               need == ALIGN(size + DSIZE)
           IN  /\ new.ptr = 0 => new.mem = m
               /\ new.ptr # 0 => \E S2 : Given(m, new, S, S2, U, need)
               /\ Chosen(m, new, S, DOMAIN S \ U, need)
<1>. DEFINE new == mm_malloc(m, size)
            need == ALIGN(size + DSIZE)
            F == DOMAIN S \ U
            fits == {b \in DOMAIN S \ U : S[b] >= need}
            fit == findfit(m, need)
            growth == Max({need, CHUNKSIZE})
            grown == extend_heap(m, growth)
<1>1. need \in Nat /\ need % 8 = 0 /\ need >= 16
  BY Aligned
<1>2. new = CASE fit # 0                         -> Placed(m, fit, need)
              [] fit = 0 /\ CanSbrk(m, growth)  -> Placed(grown.mem, grown.ptr, need)
              [] fit = 0 /\ ~CanSbrk(m, growth) -> Null(m)
  BY DEF mm_malloc, Serve
<1>3. /\ HeapOf(m, S, U, F, {}) /\ U \subseteq DOMAIN S
      /\ \A b \in DOMAIN S : b \in Nat /\ b # 0 /\ S[b] \in Nat
      /\ mem_brk(m) \in Nat
  <2>1. HeapOf(m, S, U, F, {})
    BY DEF Whole
  <2>. HIDE DEF F
  <2>2. \A b \in DOMAIN S : b \in Nat /\ S[b] \in Nat
    BY <2>1, HeapFacts
  <2>3. mem_brk(m) \in Nat
    BY <2>1, HeapFacts
  <2>. QED  BY <2>1, <2>2, <2>3, NoBlockIsNull
<1>. HIDE DEF need, growth
<1>4. /\ fit = 0 => \A b \in F : S[b] < need
      /\ fit # 0 => fit \in F /\ S[fit] >= need /\ \A b \in F : S[b] >= need => S[fit] <= S[b]
  <2>. DEFINE G == DOMAIN S \ {}
  <2>1. Laid(m, S, G) /\ F \in SUBSET G /\ Listed(m, S, F)
    BY <1>3, HeapFacts DEF HeapOf
  <2>. HIDE DEF G, F
  <2>. QED  BY <1>1, <2>1, FindFit
<1>5. fit = 0 <=> fits = {}
  BY <1>1, <1>3, <1>4
<1>6. CASE fit # 0
  <2>1. new = Placed(m, fit, need)
    BY <1>2, <1>6
  <2>2. new.mem = place(m, fit, need) /\ new.ptr = fit
    BY <2>1 DEF Placed
  <2>3. PICK S2 : Added(m, place(m, fit, need), S, S2, U, fit, need)
    <3>1. fit \in DOMAIN S /\ fit \notin U /\ need <= S[fit]
      BY <1>1, <1>3, <1>4, <1>6
    <3>. HIDE DEF fit
    <3>. QED  BY <1>1, <3>1, PlaceWorks
  <2>4. mem_brk(m) <= mem_brk(m)
    BY <1>3
  <2>5. Given(m, new, S, S2, U, need)
    BY <1>4, <1>6, <2>2, <2>3, <2>4 DEF Given, Added
  <2>6. fits # {} /\ fit \in fits /\ \A b \in fits : S[fit] <= S[b]
    BY <1>4, <1>6
  <2>. QED  BY <1>6, <2>2, <2>3, <2>5, <2>6 DEF need, growth, Added, Chosen
<1>7. CASE fit = 0 /\ ~CanSbrk(m, growth)
  <2>1. new = Null(m)
    BY <1>2, <1>7
  <2>2. new.mem = m /\ new.ptr = 0
    BY <2>1 DEF Null
  <2>. QED  BY <1>5, <1>7, <2>2 DEF need, growth, Chosen
<1>8. CASE fit = 0 /\ CanSbrk(m, growth)
  <2>1. new = Placed(grown.mem, grown.ptr, need)
    BY <1>2, <1>8
  <2>. DEFINE p == grown.ptr
              g == grown.mem
  <2>2. new.mem = place(g, p, need) /\ new.ptr = p
    BY <2>1 DEF Placed
  <2>3. growth \in Nat /\ growth % 8 = 0 /\ growth >= 16 /\ growth >= need /\ mem_brk(m) + growth <= MaxSize
    <3>1. growth = IF need >= CHUNKSIZE THEN need ELSE CHUNKSIZE
      BY <1>1, MaxIs, Places DEF growth
    <3>. QED  BY <1>1, <1>8, <3>1, Places DEF CanSbrk, MaxSize
  <2>4. PICK S1 : Grew(m, grown, S, S1, U, growth)
    BY <2>3, ExtendWorks
  <2>. HIDE DEF g, p
  <2>5. /\ Whole(g, S1, U) /\ \A b \in U : S1[b] = S[b]
        /\ SamePayloads(m, g, S, U) /\ mem_brk(g) = mem_brk(m) + growth
        /\ p \in DOMAIN S1 /\ p \notin U /\ S1[p] >= growth
    BY <2>4 DEF Grew, g, p
  <2>6. S1[p] \in Nat
    BY <2>5, HeapFacts DEF Whole
  <2>7. PICK S2 : Added(g, place(g, p, need), S1, S2, U, p, need)
    <3>1. need <= S1[p]
      BY <1>1, <2>3, <2>5, <2>6
    <3>. QED  BY <1>1, <2>5, <3>1, PlaceWorks
  <2>8. SamePayloads(m, place(g, p, need), S, U)
    <3>1. ASSUME NEW b \in U, NEW w \in DOMAIN m, b <= w, w < b + S[b] - 8
          PROVE  place(g, p, need)[w] = m[w]
      <4>1. w \in DOMAIN g
        <5>1. w \in Nat /\ 8 <= w /\ w < mem_brk(m) /\ w % 4 = 0
          BY <1>3, HeapFacts
        <5>2. \A x : x \in DOMAIN g <=> x \in Nat /\ 8 <= x /\ x < mem_brk(g) /\ x % 4 = 0
          BY <2>5, HeapFacts DEF Whole
        <5>. QED  BY <1>3, <2>3, <2>5, <5>1, <5>2
      <4>. QED  BY <2>5, <2>7, <3>1, <4>1 DEF SamePayloads, Added
    <3>. QED  BY <3>1 DEF SamePayloads
  <2>9. mem_brk(m) <= mem_brk(new.mem)
    BY <1>3, <2>2, <2>3, <2>5, <2>7 DEF Added
  <2>10. Given(m, new, S, S2, U, need)
    BY <2>2, <2>5, <2>7, <2>8, <2>9 DEF Given, Added
  <2>11. new.ptr # 0
    BY <2>2, <2>5, NoBlockIsNull
  <2>. QED  BY <1>5, <1>8, <2>10, <2>11 DEF need, growth, Chosen
<1>. QED  BY <1>6, <1>7, <1>8

(* What is written into allocated blocks leaves the heap in order. *)
LEMMA WrittenInside ==
    ASSUME NEW m, NEW S, NEW U, Whole(m, S, U), NEW m2, DOMAIN m2 = DOMAIN m,
           \A w \in DOMAIN m : (\A b \in U : ~(b <= w /\ w < b + S[b] - 8)) => m2[w] = m[w]
    PROVE  Whole(m2, S, U) /\ mem_brk(m2) = mem_brk(m)
<1>. DEFINE F == DOMAIN S \ U
            brk == mem_brk(m)
<1>1. HeapOf(m, S, U, F, {}) /\ Apart(S, F) /\ U \subseteq DOMAIN S
  BY DEF Whole, HeapOf
<1>. HIDE DEF F, brk
<1>2. /\ \A w : w \in DOMAIN m <=> w \in Nat /\ 8 <= w /\ w < brk /\ w % 4 = 0
      /\ brk \in Nat /\ FirstBlock <= brk /\ FirstBlock \in Nat
      /\ \A b \in DOMAIN S : b \in Nat /\ b >= FirstBlock /\ S[b] \in Nat /\ b + S[b] <= brk
      /\ Laid(m, S, DOMAIN S \ {})
  BY <1>1, HeapFacts DEF brk
<1>3. \A w \in DOMAIN m : w < FirstBlock - 4 => m2[w] = m[w]
  <2>1. ASSUME NEW w \in DOMAIN m, w < FirstBlock - 4, NEW b \in U PROVE ~(b <= w /\ w < b + S[b] - 8)
    <3>1. b \in Nat /\ b >= FirstBlock /\ w \in Nat
      BY <1>1, <1>2
    <3>. QED  BY <1>2, <2>1, <3>1
  <2>. QED  BY <2>1
<1>4. m2[brk - 4] = m[brk - 4]
  <2>1. ASSUME NEW b \in U PROVE ~(b <= brk - 4 /\ brk - 4 < b + S[b] - 8)
    BY <1>1, TagsOutside DEF brk
  <2>2. brk - 4 \in DOMAIN m
    <3>1. FirstBlock % 8 = 0 /\ brk % 8 = 0
      BY <1>1, HeapFacts DEF brk
    <3>2. FirstBlock >= 16
      BY Places
    <3>. QED  BY <1>2, <3>1, <3>2
  <2>. QED  BY <2>1, <2>2
<1>5. ASSUME NEW c \in DOMAIN S \ {} PROVE m2[c - 4] = m[c - 4] /\ m2[c + S[c] - 8] = m[c + S[c] - 8]
  <2>1. ASSUME NEW b \in U PROVE /\ ~(b <= c - 4 /\ c - 4 < b + S[b] - 8)
                                 /\ ~(b <= c + S[c] - 8 /\ c + S[c] - 8 < b + S[b] - 8)
    BY <1>1, TagsOutside
  <2>2. c - 4 \in DOMAIN m /\ c + S[c] - 8 \in DOMAIN m
    BY <1>1, TagsOutside
  <2>. QED  BY <2>1, <2>2
<1>6. ASSUME NEW c \in F, NEW w \in NodeLinks(m, S, c) PROVE m2[w] = m[w]
  <2>1. w \in OwnLinks(S, c) /\ c \in DOMAIN S /\ c \notin U
    BY DEF NodeLinks, OwnLinks, F
  <2>2. w \in DOMAIN m /\ w \in Nat
    <3>1. w \in DOMAIN m
      BY <1>2, <2>1 DEF Laid, OwnLinks
    <3>. QED  BY <1>2, <3>1
  <2>3. c <= w /\ w < c + S[c] - 8
    BY <1>1, <2>1, LinksInside
  <2>4. ASSUME NEW b \in U PROVE ~(b <= w /\ w < b + S[b] - 8)
    <3>1. b # c /\ b \in DOMAIN S
      BY <1>1, <2>1
    <3>2. ~(b <= w /\ w < b + S[b] /\ c <= w /\ w < c + S[c])
      BY <1>1, <2>1, <2>2, <3>1, TagsOutside
    <3>3. b \in Nat /\ S[b] \in Nat /\ c \in Nat /\ S[c] \in Nat
      BY <1>2, <2>1, <3>1
    <3>. QED  BY <2>2, <2>3, <3>2, <3>3
  <2>. QED  BY <2>2, <2>4
<1>7. HeapOf(m2, S, U, F, {}) /\ mem_brk(m2) = mem_brk(m)
  BY <1>1, <1>3, <1>4, <1>5, <1>6, HeapStays DEF brk
<1>. QED  BY <1>1, <1>7 DEF Whole, F

(* memcpy into an allocated block. *)
LEMMA CopyWorks ==
    ASSUME NEW m, NEW S, NEW U, Whole(m, S, U), NEW to \in U, NEW from \in U, NEW n \in Nat, n <= S[to] - 8
    PROVE  LET m2 == Copy(m, to, from, n)
           IN  /\ Whole(m2, S, U) /\ mem_brk(m2) = mem_brk(m) /\ DOMAIN m2 = DOMAIN m
               /\ \A w \in DOMAIN m : ~(to <= w /\ w < to + n) => m2[w] = m[w]
               /\ \A k \in Nat : k < n /\ k % 4 = 0 => m2[to + k] = m[from + k]
<1>. DEFINE m2 == Copy(m, to, from, n)
            W == Words(to, to + n)
<1>1. /\ \A w : w \in DOMAIN m <=> w \in Nat /\ 8 <= w /\ w < mem_brk(m) /\ w % 4 = 0
      /\ mem_brk(m) \in Nat /\ FirstBlock \in Nat /\ FirstBlock >= 8
      /\ \A b \in DOMAIN S : b \in Nat /\ b >= FirstBlock /\ S[b] \in Nat /\ b + S[b] <= mem_brk(m) /\ b % 8 = 0
  <2>1. HeapOf(m, S, U, DOMAIN S \ U, {})
    BY DEF Whole
  <2>2. /\ \A w : w \in DOMAIN m <=> w \in Nat /\ 8 <= w /\ w < mem_brk(m) /\ w % 4 = 0
        /\ mem_brk(m) \in Nat
        /\ \A b \in DOMAIN S : b \in Nat /\ b >= FirstBlock /\ S[b] \in Nat /\ b + S[b] <= mem_brk(m) /\ b % 8 = 0
    BY <2>1, HeapFacts
  <2>3. FirstBlock \in Nat /\ FirstBlock >= 8
    BY Places
  <2>. QED  BY <2>2, <2>3
<1>2. to \in DOMAIN S /\ from \in DOMAIN S
  BY NoBlockIsNull
<1>3. to \in Nat /\ from \in Nat /\ S[to] \in Nat /\ to >= 8 /\ to + S[to] <= mem_brk(m) /\ to % 8 = 0
  BY <1>1, <1>2
<1>4. \A w : w \in W <=> w \in Nat /\ to <= w /\ w < to + n /\ w % 4 = 0
  BY <1>3, Places DEF Words
<1>. HIDE DEF W
<1>5. \A w \in W : w \in DOMAIN m
  BY <1>1, <1>3, <1>4
<1>6. m2 = [w \in DOMAIN m \cup W |-> IF w \in W THEN m[from + w - to] ELSE m[w]]
  <2>1. m2 = Write(m, [w \in W |-> m[from + w - to]])
    BY DEF Copy, W
  <2>. QED  BY <2>1 DEF Write
<1>. HIDE DEF m2
<1>7. DOMAIN m2 = DOMAIN m /\ \A w \in DOMAIN m : m2[w] = IF w \in W THEN m[from + w - to] ELSE m[w]
  <2>1. DOMAIN m \cup W = DOMAIN m
    BY <1>5
  <2>. QED  BY <1>6, <2>1
<1>8. \A w \in DOMAIN m : ~(to <= w /\ w < to + n) => m2[w] = m[w]
  BY <1>4, <1>7
<1>9. ASSUME NEW k \in Nat, k < n, k % 4 = 0 PROVE m2[to + k] = m[from + k]
  <2>1. to + k \in W
    BY <1>3, <1>4, <1>9
  <2>2. from + (to + k) - to = from + k
    BY <1>3
  <2>. QED  BY <1>5, <1>7, <2>1, <2>2
<1>10. Whole(m2, S, U) /\ mem_brk(m2) = mem_brk(m)
  <2>1. ASSUME NEW w \in DOMAIN m, \A b \in U : ~(b <= w /\ w < b + S[b] - 8) PROVE m2[w] = m[w]
    <3>1. ~(to <= w /\ w < to + S[to] - 8) /\ w \in Nat
      BY <1>1, <2>1
    <3>2. ~(to <= w /\ w < to + n)
      BY <1>3, <3>1
    <3>. QED  BY <1>8, <3>2
  <2>. QED  BY <1>7, <2>1, WrittenInside
<1>. QED  BY <1>7, <1>8, <1>9, <1>10 DEF m2

(* the block ptr has what it needs; nothing else moved, and it keeps what it
   held as far as both sizes go *)
Fitted(m, m2, S, S2, U, ptr, need) ==
    /\ Whole(m2, S2, U)
    /\ \A b \in U \ {ptr} : S2[b] = S[b]
    /\ S2[ptr] >= need
    /\ SamePayloads(m, m2, S, U \ {ptr})
    /\ \A w \in DOMAIN m : ptr <= w /\ w < ptr + S[ptr] - 8 /\ w < ptr + S2[ptr] - 8 => m2[w] = m[w]
    /\ DOMAIN m2 = DOMAIN m /\ mem_brk(m2) = mem_brk(m)

(* A block is resized where it is, with a free one behind it if it helps. *)
LEMMA ResizeWorks ==
    ASSUME NEW m, NEW S, NEW U, Whole(m, S, U), NEW ptr \in U, NEW need \in Nat, need % 8 = 0, need >= 16,
           NEW have, have = Size(m, ptr) + Spare(m, ptr), need <= have
    PROVE  \E S2 : Fitted(m, Resized(m, ptr, have, need), S, S2, U, ptr, need)
<1>. DEFINE F == DOMAIN S \ U
            V == U \ {ptr}
            next == ptr + S[ptr]
            F1 == F \ {next}
            m1 == IF NextFree(m, ptr) THEN delete_block(m, NEXT_BLKP(m, ptr)) ELSE m
            m2 == Resized(m, ptr, have, need)
            X == {ptr}
<1>1. HeapOf(m, S, U, F, {}) /\ Apart(S, F) /\ U \subseteq DOMAIN S /\ ptr \in DOMAIN S
  BY DEF Whole, HeapOf
<1>2. /\ \A b \in DOMAIN S : b \in Nat /\ S[b] \in Nat /\ S[b] >= 16
      /\ ptr # next
  <2>1. \A b \in DOMAIN S : b \in Nat /\ S[b] \in Nat /\ S[b] >= 16
    BY <1>1, HeapFacts
  <2>2. ptr # ptr + S[ptr]
    BY <1>1, <2>1
  <2>. QED  BY <2>1, <2>2
<1>3. /\ Size(m, ptr) = S[ptr] /\ NEXT_BLKP(m, ptr) = next /\ (NextFree(m, ptr) <=> next \in F)
      /\ next \in F => Size(m, next) = S[next]
  BY <1>1, NextIs
<1>4. have = IF next \in F THEN S[ptr] + S[next] ELSE S[ptr]
  <2>1. CASE next \in F
    BY <1>3, <2>1 DEF Spare
  <2>2. CASE next \notin F
    <3>1. Spare(m, ptr) = 0 /\ S[ptr] \in Nat
      BY <1>1, <1>2, <1>3, <2>2 DEF Spare
    <3>. QED  BY <1>3, <2>2, <3>1
  <2>. QED  BY <2>1, <2>2
<1>5. m2 = Settled(m1, ptr, have, need)
  BY Places DEF Resized, Settled
<1>6. /\ V \in SUBSET DOMAIN S /\ U \in SUBSET DOMAIN S /\ ptr \notin F /\ ptr \notin V /\ next # ptr
      /\ U \ {ptr} = V \ {ptr} /\ \A b \in F : b \notin U
      /\ \A b \in DOMAIN S : b \in F \/ b \in U
      /\ next \notin F1 /\ F1 \subseteq F /\ \A b \in F : b = next \/ b \in F1
  BY <1>1, <1>2
<1>. HIDE DEF F, V, next
<1>7. /\ HeapOf(m1, S, U, F1, {}) /\ SamePayloads(m, m1, S, U)
      /\ DOMAIN m1 = DOMAIN m /\ mem_brk(m1) = mem_brk(m)
  <2>1. CASE next \in F
    <3>1. m1 = delete_block(m, next)
      BY <1>3, <2>1
    <3>. HIDE DEF m1
    <3>. QED  BY <1>1, <2>1, <3>1, HeapDelete
  <2>2. CASE next \notin F
    <3>1. m1 = m /\ F1 = F
      BY <1>3, <2>2
    <3>. HIDE DEF m1, F1
    <3>. QED  BY <1>1, <3>1, PayloadsSame
  <2>. QED  BY <2>1, <2>2
<1>. HIDE DEF m1, F1, X
<1>8. HeapOf(m1, S, V, F1, X)
  <2>1. HeapOf(m1, S, V, F1, {} \cup {ptr})
    BY <1>1, <1>6, <1>7, Relabel
  <2>2. {} \cup {ptr} = X
    BY DEF X
  <2>. QED  BY <2>1, <2>2
<1>9. PICK S1 : /\ HeapOf(m1, S1, V, F1, X) /\ S1[ptr] = have
                /\ \A x : x \in DOMAIN S1 <=> x \in DOMAIN S /\ ~(x = next /\ next \in F)
                /\ \A x \in DOMAIN S1 : x # ptr => S1[x] = S[x]
  <2>1. CASE next \in F
    <3>. DEFINE S1 == Merged(S, ptr, next)
    <3>1. next \in DOMAIN S /\ next \notin V /\ next = ptr + S[ptr] /\ ptr \notin F1
      <4>1. next \in DOMAIN S /\ next = ptr + S[ptr]
        BY <2>1 DEF F, next
      <4>2. next \notin V
        BY <1>6, <2>1 DEF V
      <4>. QED  BY <1>6, <4>1, <4>2
    <3>. HIDE DEF S1
    <3>2. /\ HeapOf(m1, Merged(S, ptr, next), V, F1, (X \cup {ptr}) \ {next})
          /\ DOMAIN Merged(S, ptr, next) = DOMAIN S \ {next} /\ ptr \in DOMAIN Merged(S, ptr, next)
          /\ Merged(S, ptr, next)[ptr] = S[ptr] + S[next]
          /\ \A x \in DOMAIN S \ {ptr, next} : Merged(S, ptr, next)[x] = S[x]
      BY <1>1, <1>6, <1>8, <3>1, JoinNext
    <3>3. (X \cup {ptr}) \ {next} = X
      BY <1>6 DEF X
    <3>4. HeapOf(m1, S1, V, F1, X)
      BY <3>2, <3>3 DEF S1
    <3>5. /\ S1[ptr] = have
          /\ \A x : x \in DOMAIN S1 <=> x \in DOMAIN S /\ x # next
          /\ \A x \in DOMAIN S1 : x # ptr => S1[x] = S[x]
      BY <1>4, <2>1, <3>2 DEF S1
    <3>. QED  BY <2>1, <3>4, <3>5
  <2>2. CASE next \notin F
    <3>1. S[ptr] = have
      BY <1>4, <2>2
    <3>. QED  BY <1>8, <2>2, <3>1
  <2>. QED  BY <2>1, <2>2
<1>10. /\ ptr \in DOMAIN S1 /\ U \in SUBSET DOMAIN S1
       /\ \A x : x \in F1 <=> x \in DOMAIN S1 \ U
       /\ \A x \in F1 : x \in F /\ x # ptr /\ S1[x] = S[x]
  <2>1. ptr \in DOMAIN S1
    BY <1>1, <1>6, <1>9
  <2>2. U \in SUBSET DOMAIN S1
    BY <1>6, <1>9
  <2>3. \A x : x \in F1 <=> x \in DOMAIN S1 \ U
    <3>1. \A x : x \in F <=> x \in DOMAIN S \ U
      BY DEF F
    <3>. QED  BY <1>6, <1>9, <3>1
  <2>4. \A x \in F1 : x \in F /\ x # ptr /\ S1[x] = S[x]
    BY <1>6, <1>9, <2>3
  <2>. QED  BY <2>1, <2>2, <2>3, <2>4
<1>11. HeapOf(m1, S1, U, F1, X)
  <2>1. V \ {ptr} = U \ {ptr} /\ ptr \notin F1
    BY <1>6
  <2>2. HeapOf(m1, S1, U, F1, X \cup {ptr})
    BY <1>9, <1>10, <2>1, Relabel
  <2>3. X \cup {ptr} = X
    BY DEF X
  <2>. QED  BY <2>2, <2>3
<1>12. F1 = DOMAIN S1 \ U
  BY <1>10
<1>13. Apart(S1, F1)
  BY <1>1, <1>6, <1>10 DEF Apart
<1>14. ptr + S1[ptr] \notin F1
  <2>1. CASE next \in F
    <3>1. ptr + S1[ptr] = next + S[next]
      <4>1. ptr \in Nat /\ S[ptr] \in Nat /\ S[next] \in Nat
        BY <1>1, <1>2, <2>1 DEF F
      <4>2. S1[ptr] = S[ptr] + S[next] /\ next = ptr + S[ptr]
        BY <1>4, <1>9, <2>1 DEF next
      <4>. QED  BY <4>1, <4>2
    <3>. QED  BY <1>1, <1>6, <2>1, <3>1 DEF Apart
  <2>2. CASE next \notin F
    <3>1. ptr + S1[ptr] = next
      BY <1>4, <1>9, <2>2 DEF next
    <3>. QED  BY <1>6, <3>1
  <2>. QED  BY <2>1, <2>2
<1>15. PICK S2 : Taken(m1, m2, S1, S2, U, ptr, need)
  <2>1. /\ HeapOf(m1, S1, U, DOMAIN S1 \ U, {ptr}) /\ Apart(S1, DOMAIN S1 \ U)
        /\ ptr + S1[ptr] \notin DOMAIN S1 \ U
    BY <1>11, <1>12, <1>13, <1>14 DEF X
  <2>2. need <= S1[ptr]
    BY <1>9
  <2>3. \E S2 : Taken(m1, Settled(m1, ptr, S1[ptr], need), S1, S2, U, ptr, need)
    BY <2>1, <2>2, Settles
  <2>. QED  BY <1>5, <1>9, <2>3
<1>. HIDE DEF m2
<1>16. \A b \in V : S2[b] = S[b] /\ b \in U
  BY <1>9, <1>10, <1>15 DEF Taken, V
<1>17. SamePayloads(m, m2, S, V)
  <2>1. SamePayloads(m1, m2, S2, V) /\ SamePayloads(m, m1, S, V)
    BY <1>7, <1>15, <1>16 DEF Taken, SamePayloads
  <2>. QED  BY <1>7, <1>16, <2>1, PayloadsPass
<1>18. ASSUME NEW w \in DOMAIN m, ptr <= w, w < ptr + S[ptr] - 8, w < ptr + S2[ptr] - 8
       PROVE  m2[w] = m[w]
  <2>1. m1[w] = m[w]
    BY <1>7, <1>18 DEF SamePayloads
  <2>2. m2[w] = m1[w]
    BY <1>7, <1>15, <1>18 DEF SamePayloads, Taken
  <2>. QED  BY <2>1, <2>2
<1>19. Fitted(m, m2, S, S2, U, ptr, need)
  BY <1>7, <1>15, <1>16, <1>17, <1>18 DEF Taken, Fitted, V
<1>. QED  BY <1>19 DEF m2

(* what the payload of a block of old bytes held is in the new one, as far as
   both go *)
DataKept(m, new, old, ptr, size) ==
    \A k \in Nat : k % 4 = 0 /\ k < size /\ k < old - 8 => new.mem[new.ptr + k] = m[ptr + k]

(* The heap does not shrink. *)
LEMMA WordsStay ==
    ASSUME NEW m, NEW S, NEW U, Whole(m, S, U), NEW m2, NEW S2, NEW U2, Whole(m2, S2, U2),
           mem_brk(m) <= mem_brk(m2)
    PROVE  DOMAIN m \subseteq DOMAIN m2
<1>1. /\ \A w : w \in DOMAIN m <=> w \in Nat /\ 8 <= w /\ w < mem_brk(m) /\ w % 4 = 0
      /\ mem_brk(m) \in Nat
  BY HeapFacts DEF Whole
<1>2. /\ \A w : w \in DOMAIN m2 <=> w \in Nat /\ 8 <= w /\ w < mem_brk(m2) /\ w % 4 = 0
      /\ mem_brk(m2) \in Nat
  BY HeapFacts DEF Whole
<1>. QED  BY <1>1, <1>2

(* The payload of an allocated block is in the heap. *)
LEMMA PayloadInside ==
    ASSUME NEW m, NEW S, NEW U, Whole(m, S, U), NEW b \in U
    PROVE  /\ b \in Nat /\ S[b] \in Nat /\ b % 8 = 0 /\ S[b] % 8 = 0 /\ S[b] >= 16
           /\ \A k \in Nat : k % 4 = 0 /\ k < S[b] - 8 => b + k \in DOMAIN m
<1>1. HeapOf(m, S, U, DOMAIN S \ U, {}) /\ b \in DOMAIN S
  BY NoBlockIsNull DEF Whole
<1>2. /\ \A w : w \in DOMAIN m <=> w \in Nat /\ 8 <= w /\ w < mem_brk(m) /\ w % 4 = 0
      /\ mem_brk(m) \in Nat
      /\ b \in Nat /\ b % 8 = 0 /\ b >= FirstBlock /\ S[b] \in Nat /\ S[b] % 8 = 0 /\ S[b] >= 16
      /\ b + S[b] <= mem_brk(m)
  BY <1>1, HeapFacts
<1>3. FirstBlock \in Nat /\ FirstBlock >= 8
  BY Places
<1>. QED  BY <1>2, <1>3

(* mm_realloc moves the block or resizes it where it is; what it held up to
   the lesser size is in the block it returns. *)
LEMMA ReallocWorks ==
    ASSUME NEW m, NEW S, NEW U, Whole(m, S, U), NEW ptr \in U, NEW size \in Nat, size > 0, size % 4 = 0
    PROVE  LET new == mm_realloc(m, ptr, size)
           IN  /\ new.ptr = 0 => new.mem = m
               /\ new.ptr # 0 =>
                      \E S2 : /\ Given(m, new, S, S2, U \ {ptr}, size + 8)
                              /\ DataKept(m, new, S[ptr], ptr, size)
<1>. DEFINE new == mm_realloc(m, ptr, size)
            need == ALIGN(size + DSIZE)
            have == Size(m, ptr) + Spare(m, ptr)
            V == U \ {ptr}
            got == mm_malloc(m, size)
            old == S[ptr]
            n == Min({size, old - 8})
<1>1. /\ HeapOf(m, S, U, DOMAIN S \ U, {}) /\ ptr \in DOMAIN S /\ U \subseteq DOMAIN S
      /\ need \in Nat /\ need % 8 = 0 /\ need >= 16 /\ need >= size + 8
  BY NoBlockIsNull, Aligned DEF Whole
<1>2. /\ Size(m, ptr) = old /\ old \in Nat /\ old >= 16 /\ old % 8 = 0
      /\ ptr \in Nat /\ \A k \in Nat : k % 4 = 0 /\ k < old - 8 => ptr + k \in DOMAIN m
      /\ mem_brk(m) \in Nat /\ have \in Int
  <2>1. Size(m, ptr) = old
    BY <1>1, NextIs
  <2>2. old \in Nat /\ ptr \in Nat /\ mem_brk(m) \in Nat
    BY <1>1, HeapFacts
  <2>3. Spare(m, ptr) \in Int
    <3>1. NextFree(m, ptr) => NEXT_BLKP(m, ptr) \in DOMAIN S
      BY <1>1, NextIs
    <3>2. \A b \in DOMAIN S : Size(m, b) \in Nat
      <4>1. \A b \in DOMAIN S : Size(m, b) = S[b]
        BY <1>1, NextIs
      <4>2. \A b \in DOMAIN S : S[b] \in Nat
        BY <1>1, HeapFacts
      <4>. QED  BY <4>1, <4>2
    <3>. QED  BY <3>1, <3>2 DEF Spare
  <2>4. old \in Nat /\ old % 8 = 0 /\ old >= 16 /\ \A k \in Nat : k % 4 = 0 /\ k < old - 8 => ptr + k \in DOMAIN m
    BY PayloadInside
  <2>. HIDE DEF old
  <2>. QED  BY <2>1, <2>2, <2>3, <2>4
<1>3. new = CASE old = size + 8                     -> [mem |-> m, ptr |-> ptr]
              [] old # size + 8 /\ have >= need -> [mem |-> Resized(m, ptr, have, need), ptr |-> ptr]
              [] have < need                        -> Moved(m, ptr, got, n)
  BY <1>2, Places DEF mm_realloc
<1>10. have >= old
  <2>1. Spare(m, ptr) \in Nat
    <3>1. NextFree(m, ptr) => NEXT_BLKP(m, ptr) \in DOMAIN S
      BY <1>1, NextIs
    <3>2. \A b \in DOMAIN S : Size(m, b) = S[b]
      BY <1>1, NextIs
    <3>3. \A b \in DOMAIN S : S[b] \in Nat
      BY <1>1, HeapFacts
    <3>. QED  BY <3>1, <3>2, <3>3 DEF Spare
  <2>. QED  BY <1>2, <2>1
<1>11. old = size + 8 => need = old
  <2>1. ASSUME (size + 8) % 8 = 0 PROVE ((size + 8 + 8 - 1) \div 8) * 8 = size + 8
    BY <2>1
  <2>2. old = size + 8 => (size + 8) % 8 = 0
    BY <1>2
  <2>. HIDE DEF old
  <2>. QED  BY <2>1, <2>2, Places DEF ALIGN
<1>4. V \cup {ptr} = U /\ ptr \notin V /\ V \subseteq U
  OBVIOUS
<1>5. ptr # 0
  BY <1>1, NoBlockIsNull
<1>. HIDE DEF new, V, need, have, old
<1>6. CASE old = size + 8
  <2>1. new.mem = m /\ new.ptr = ptr
    BY <1>1, <1>2, <1>3, <1>6, <1>10, <1>11
  <2>2. S[ptr] >= size + 8 /\ mem_brk(m) <= mem_brk(m)
    BY <1>2, <1>6 DEF old
  <2>3. Given(m, new, S, S, V, size + 8)
    BY <1>4, <2>1, <2>2, PayloadsSame DEF Given
  <2>. QED  BY <1>5, <2>1, <2>3 DEF new, V, DataKept
<1>7. CASE old # size + 8 /\ have >= need
  <2>1. new.mem = Resized(m, ptr, have, need) /\ new.ptr = ptr
    BY <1>1, <1>2, <1>3, <1>7
  <2>. DEFINE r == Resized(m, ptr, have, need)
  <2>2. PICK S2 : Fitted(m, r, S, S2, U, ptr, need)
    <3>1. need <= have /\ have = Size(m, ptr) + Spare(m, ptr)
      BY <1>1, <1>2, <1>7 DEF have
    <3>. QED  BY <1>1, <3>1, ResizeWorks
  <2>. HIDE DEF r
  <2>3. S2[ptr] \in Nat /\ S2[ptr] >= size + 8
    <3>1. S2[ptr] \in Nat
      BY <2>2, PayloadInside DEF Fitted
    <3>. QED  BY <1>1, <2>2, <3>1 DEF Fitted
  <2>4. mem_brk(m) <= mem_brk(r) /\ new.mem = r
    BY <1>2, <2>1, <2>2 DEF Fitted, r
  <2>5. Given(m, new, S, S2, V, size + 8)
    BY <1>4, <2>1, <2>2, <2>3, <2>4 DEF Given, Fitted, V
  <2>6. ASSUME NEW k \in Nat, k % 4 = 0, k < size, k < S[ptr] - 8
        PROVE  new.mem[new.ptr + k] = m[ptr + k]
    <3>1. ptr + k \in DOMAIN m /\ ptr <= ptr + k /\ ptr + k < ptr + S[ptr] - 8 /\ ptr + k < ptr + S2[ptr] - 8
      BY <1>2, <2>3, <2>6 DEF old
    <3>. QED  BY <2>1, <2>2, <2>4, <3>1 DEF Fitted
  <2>. QED  BY <1>5, <2>1, <2>5, <2>6 DEF new, V, DataKept
<1>8. CASE have < need /\ old # size + 8
  <2>1. new = Moved(m, ptr, got, n)
    BY <1>1, <1>2, <1>3, <1>8
  <2>2. /\ got.ptr = 0 => got.mem = m
        /\ got.ptr # 0 => \E S2 : Given(m, got, S, S2, U, need)
    BY MallocWorks DEF need
  <2>. DEFINE p == got.ptr
              g == got.mem
              c == Copy(g, p, ptr, n)
              f == mm_free(c, ptr)
  <2>3. CASE p = 0
    <3>1. new.mem = m /\ new.ptr = 0
      BY <2>1, <2>3 DEF Moved, Null
    <3>. QED  BY <3>1 DEF new
  <2>4. CASE p # 0
    <3>1. new.mem = f /\ new.ptr = p
      BY <2>1, <2>4 DEF Moved, Move
    <3>2. PICK S1 : Given(m, got, S, S1, U, need)
      BY <2>2, <2>4
    <3>. HIDE DEF got
    <3>. DEFINE U1 == U \cup {p}
    <3>3. /\ Whole(g, S1, U1) /\ p \notin U /\ \A b \in U : S1[b] = S[b]
          /\ S1[p] >= need /\ SamePayloads(m, g, S, U) /\ mem_brk(m) <= mem_brk(g)
          /\ p \in U1 /\ ptr \in U1 /\ p # ptr
      BY <3>2 DEF Given
    <3>. HIDE DEF p, g, U1
    <3>4. /\ S1[p] \in Nat /\ S1[ptr] = old /\ S1[p] >= size + 8 /\ p \in Nat
          /\ \A k \in Nat : k % 4 = 0 /\ k < S1[p] - 8 => p + k \in DOMAIN g
      <4>1. /\ S1[p] \in Nat /\ p \in Nat
            /\ \A k \in Nat : k % 4 = 0 /\ k < S1[p] - 8 => p + k \in DOMAIN g
        BY <3>3, PayloadInside
      <4>. QED  BY <1>1, <3>3, <4>1 DEF old
    <3>5. n \in Nat /\ n <= size /\ n <= old - 8 /\ (n = size \/ n = old - 8) /\ n <= S1[p] - 8
      <4>1. n = IF size <= old - 8 THEN size ELSE old - 8
        BY <1>2, MinIs
      <4>. QED  BY <1>2, <3>4, <4>1
    <3>. HIDE DEF n
    <3>6. /\ Whole(c, S1, U1) /\ mem_brk(c) = mem_brk(g) /\ DOMAIN c = DOMAIN g
          /\ \A w \in DOMAIN g : ~(p <= w /\ w < p + n) => c[w] = g[w]
          /\ \A k \in Nat : k < n /\ k % 4 = 0 => c[p + k] = g[ptr + k]
      BY <3>3, <3>5, CopyWorks
    <3>. HIDE DEF c
    <3>7. PICK S2 : Kept(c, f, S1, S2, U1 \ {ptr})
      BY <3>3, <3>6, FreeWorks
    <3>. HIDE DEF f
    <3>8. U1 \ {ptr} = V \cup {p} /\ p \notin V
      BY <3>3 DEF U1, V
    <3>9. /\ Whole(f, S2, V \cup {p}) /\ \A b \in V : S2[b] = S[b]
          /\ S2[p] = S1[p] /\ mem_brk(f) = mem_brk(c)
          /\ SamePayloads(c, f, S1, V \cup {p})
      BY <1>4, <3>3, <3>7, <3>8 DEF Kept, Whole
    <3>10. SamePayloads(m, f, S, V)
      <4>1. ASSUME NEW b \in V, NEW w \in DOMAIN m, b <= w, w < b + S[b] - 8 PROVE f[w] = m[w]
        <5>1. b \in U /\ S1[b] = S[b] /\ b # p /\ b \in U1
          BY <1>4, <3>3, <4>1 DEF U1
        <5>2. g[w] = m[w]
          BY <3>3, <4>1, <5>1 DEF SamePayloads
        <5>3. w \in DOMAIN g /\ w \in Nat
          <6>1. w \in DOMAIN g
            BY <3>3, WordsStay
          <6>2. \A x : x \in DOMAIN g <=> x \in Nat /\ 8 <= x /\ x < mem_brk(g) /\ x % 4 = 0
            BY <3>3, HeapFacts DEF Whole
          <6>. QED  BY <6>1, <6>2
        <5>4. ~(p <= w /\ w < p + n)
          <6>1. p \in DOMAIN S1 /\ b \in DOMAIN S1
            BY <3>3, <5>1, NoBlockIsNull
          <6>2. HeapOf(g, S1, U1, DOMAIN S1 \ U1, {})
            BY <3>3 DEF Whole
          <6>3. ~(b <= w /\ w < b + S1[b] /\ p <= w /\ w < p + S1[p])
            BY <5>1, <5>3, <6>1, <6>2, TagsOutside
          <6>4. b \in Nat /\ S1[b] \in Nat
            BY <6>1, <6>2, HeapFacts
          <6>5. w < b + S1[b]
            BY <4>1, <5>1, <5>3, <6>4
          <6>6. b <= w
            BY <4>1
          <6>7. ~(p <= w /\ w < p + S1[p])
            BY <6>3, <6>5, <6>6
          <6>. QED  BY <3>4, <3>5, <5>3, <6>7
        <5>5. c[w] = g[w]
          BY <3>6, <5>3, <5>4
        <5>6. f[w] = c[w]
          BY <3>6, <3>9, <4>1, <5>1, <5>3 DEF SamePayloads
        <5>. QED  BY <5>2, <5>5, <5>6
      <4>. QED  BY <4>1 DEF SamePayloads
    <3>11. Given(m, new, S, S2, V, size + 8)
      BY <3>1, <3>3, <3>4, <3>6, <3>8, <3>9, <3>10 DEF Given
    <3>12. ASSUME NEW k \in Nat, k % 4 = 0, k < size, k < S[ptr] - 8
           PROVE  new.mem[new.ptr + k] = m[ptr + k]
      <4>1. k < n /\ k < S1[p] - 8 /\ ptr + k \in DOMAIN m /\ p + k \in DOMAIN g
        BY <1>2, <3>4, <3>5, <3>12 DEF old
      <4>2. c[p + k] = g[ptr + k]
        BY <3>6, <3>12, <4>1
      <4>3. g[ptr + k] = m[ptr + k]
        <5>1. ptr <= ptr + k /\ ptr + k < ptr + S[ptr] - 8
          BY <1>2, <3>12 DEF old
        <5>. QED  BY <3>3, <4>1, <5>1 DEF SamePayloads
      <4>4. f[p + k] = c[p + k]
        <5>1. p <= p + k /\ p + k < p + S1[p] - 8
          BY <3>4, <4>1
        <5>. QED  BY <3>6, <3>9, <4>1, <5>1 DEF SamePayloads
      <4>. QED  BY <3>1, <4>2, <4>3, <4>4
    <3>13. new.ptr = p /\ p # 0
      BY <2>4, <3>1 DEF p
    <3>. QED  BY <3>11, <3>12, <3>13 DEF new, V, DataKept
  <2>. QED  BY <2>3, <2>4
<1>9. have >= need \/ have < need
  BY <1>1, <1>2
<1>. QED  BY <1>6, <1>7, <1>8, <1>9

-----------------------------------------------------------------------------
(* The walk over the blocks.                                                *)

(* The walk over the headers of a heap meets its blocks. *)
LEMMA BlocksAre ==
    ASSUME NEW m, NEW S, NEW U, Whole(m, S, U), FirstBlock < mem_brk(m)
    PROVE  Blocks(m) = DOMAIN S /\ FreeBlocks(m) = DOMAIN S \ U
<1>. DEFINE next == [b \in DOMAIN m |-> {NEXT_BLKP(m, b)} \cap DOMAIN m]
            P(f) == f = [b \in DOMAIN m |->
                            {b} \cup (IF NEXT_BLKP(m, b) \in DOMAIN m THEN f[NEXT_BLKP(m, b)] ELSE {})]
            g == CHOOSE f : P(f)
            brk == mem_brk(m)
            Good(b) == \A c : c \in g[b] <=> c \in DOMAIN S /\ b <= c
            Bad == {b \in DOMAIN S : ~Good(b)}
            Ranks == {brk - b : b \in Bad}
<1>1. \E f : P(f)
  <2>1. next \in [DOMAIN m -> SUBSET DOMAIN m]
    OBVIOUS
  <2>2. PICK f : Collects(f, DOMAIN m, next)
    <3>. HIDE DEF next
    <3>. QED  BY <2>1, CollectingExists
  <2>3. ASSUME NEW b \in DOMAIN m
        PROVE  {b} \cup UNION {f[y] : y \in next[b]}
                 = {b} \cup (IF NEXT_BLKP(m, b) \in DOMAIN m THEN f[NEXT_BLKP(m, b)] ELSE {})
    <3>1. CASE NEXT_BLKP(m, b) \in DOMAIN m
      <4>1. next[b] = {NEXT_BLKP(m, b)}
        BY <3>1
      <4>. HIDE DEF next
      <4>. QED  BY <3>1, <4>1
    <3>2. CASE NEXT_BLKP(m, b) \notin DOMAIN m
      <4>1. next[b] = {}
        BY <3>2
      <4>. HIDE DEF next
      <4>. QED  BY <3>2, <4>1
    <3>. QED  BY <3>1, <3>2
  <2>4. f = [b \in DOMAIN m |-> {b} \cup UNION {f[y] : y \in next[b]}]
    BY <2>2 DEF Collects
  <2>5. P(f)
    <3>. HIDE DEF next
    <3>. QED  BY <2>3, <2>4
  <2>. QED  BY <2>5
<1>2. P(g)
  <2>. HIDE DEF P
  <2>. QED  BY <1>1
<1>3. Blocks(m) = g[FirstBlock]
  BY DEF Blocks
<1>4. \A b \in DOMAIN m : g[b] = {b} \cup (IF NEXT_BLKP(m, b) \in DOMAIN m THEN g[NEXT_BLKP(m, b)] ELSE {})
  <2>. HIDE DEF g
  <2>. QED  BY <1>2
<1>. HIDE DEF g
<1>5. /\ HeapOf(m, S, U, DOMAIN S \ U, {}) /\ U \subseteq DOMAIN S
      /\ \A b \in DOMAIN S : b + S[b] = brk \/ b + S[b] \in DOMAIN S
      /\ FirstBlock \in DOMAIN S \cup {brk}
  BY NoBlockIsNull DEF Whole, HeapOf, Tiling
<1>6. /\ brk \in Nat /\ FirstBlock \in Nat /\ FirstBlock >= 8 /\ FirstBlock < brk
      /\ \A w : w \in DOMAIN m <=> w \in Nat /\ 8 <= w /\ w < brk /\ w % 4 = 0
      /\ \A b \in DOMAIN S :
             /\ b \in Nat /\ b % 8 = 0 /\ b >= FirstBlock /\ S[b] \in Nat /\ S[b] >= 16 /\ b + S[b] <= brk
      /\ \A b, c \in DOMAIN S : b < c => b + S[b] <= c
  <2>1. FirstBlock \in Nat /\ FirstBlock >= 8
    BY Places
  <2>2. /\ brk \in Nat
        /\ \A w : w \in DOMAIN m <=> w \in Nat /\ 8 <= w /\ w < brk /\ w % 4 = 0
        /\ \A b \in DOMAIN S :
             /\ b \in Nat /\ b % 8 = 0 /\ b >= FirstBlock /\ S[b] \in Nat /\ S[b] >= 16 /\ b + S[b] <= brk
        /\ \A b, c \in DOMAIN S : b < c => b + S[b] <= c
    BY <1>5, HeapFacts
  <2>. QED  BY <2>1, <2>2
<1>7. \A b \in DOMAIN S : b \in DOMAIN m /\ NEXT_BLKP(m, b) = b + S[b]
  <2>1. \A b \in DOMAIN S : NEXT_BLKP(m, b) = b + S[b]
    BY <1>5, NextIs
  <2>2. \A b \in DOMAIN S : b \in DOMAIN m
    BY <1>6
  <2>. QED  BY <2>1, <2>2
<1>. HIDE DEF brk
<1>8. Bad = {}
  <2>. SUFFICES ASSUME Bad # {} PROVE FALSE
    OBVIOUS
  <2>0. \A b \in Bad : b \in DOMAIN S /\ b \in Nat /\ b < brk /\ ~Good(b)
    BY <1>6
  <2>. HIDE DEF Bad
  <2>1. Ranks \in SUBSET Nat /\ Ranks # {}
    BY <1>6, <2>0
  <2>2. PICK r \in Ranks : \A q \in Ranks : r <= q
    BY <2>1, LeastNatural
  <2>3. PICK b \in Bad : r = brk - b
    OBVIOUS
  <2>4. ASSUME NEW c \in Bad PROVE c <= b
    <3>1. brk - c \in Ranks
      OBVIOUS
    <3>2. brk - b <= brk - c
      BY <2>2, <2>3, <3>1
    <3>3. b \in Nat /\ c \in Nat /\ brk \in Nat
      BY <1>6, <2>0
    <3>. QED  BY <3>2, <3>3
  <2>5. b \in DOMAIN S /\ b \in DOMAIN m /\ NEXT_BLKP(m, b) = b + S[b] /\ b \in Nat /\ S[b] \in Nat /\ S[b] >= 16
    BY <1>6, <1>7, <2>0
  <2>6. CASE b + S[b] = brk
    <3>1. brk \notin DOMAIN m
      BY <1>6
    <3>2. g[b] = {b}
      BY <1>4, <2>5, <2>6, <3>1
    <3>3. \A c \in DOMAIN S : b <= c => c = b
      BY <1>6, <2>5, <2>6
    <3>4. b <= b
      BY <2>5
    <3>. QED  BY <2>0, <2>5, <3>2, <3>3, <3>4
  <2>7. CASE b + S[b] \in DOMAIN S
    <3>. DEFINE d == b + S[b]
    <3>1. d \in DOMAIN S /\ d \in DOMAIN m /\ d \in Nat /\ b < d /\ NEXT_BLKP(m, b) = d
      BY <1>6, <1>7, <2>5, <2>7
    <3>2. \A c \in DOMAIN S : b < c => d <= c
      BY <1>6, <2>5
    <3>. HIDE DEF d
    <3>3. Good(d)
      <4>1. d \notin Bad
        BY <2>4, <2>5, <3>1
      <4>. QED  BY <3>1, <4>1 DEF Bad
    <3>4. \A c : c \in g[b] <=> c = b \/ c \in g[d]
      BY <1>4, <2>5, <3>1
    <3>5. \A c \in DOMAIN S : b <= c <=> c = b \/ d <= c
      <4>1. \A c \in DOMAIN S : c \in Nat
        BY <1>6
      <4>. QED  BY <2>5, <3>1, <3>2, <4>1
    <3>6. Good(b)
      BY <2>5, <3>3, <3>4, <3>5
    <3>. QED  BY <2>0, <3>6
  <2>. QED  BY <1>5, <2>5, <2>6, <2>7 DEF brk
<1>9. Blocks(m) = DOMAIN S
  <2>1. FirstBlock \in DOMAIN S
    <3>1. FirstBlock # brk
      BY <1>6
    <3>. QED  BY <1>5, <3>1 DEF brk
  <2>2. Good(FirstBlock)
    BY <1>8, <2>1
  <2>3. \A c : c \in g[FirstBlock] <=> c \in DOMAIN S
    BY <1>6, <2>2
  <2>4. \E T : g[FirstBlock] = {FirstBlock} \cup T
    BY <1>4, <1>7, <2>1
  <2>. QED  BY <1>3, <2>3, <2>4
<1>10. ASSUME NEW b \in DOMAIN S PROVE GET_ALLOC(m, HDRP(b)) = 0 <=> b \notin U
  <2>. DEFINE s == S[b]
              a == Bit(U, b)
  <2>1. m[b - 4] = s + a
    BY <1>5 DEF HeapOf, Tagged
  <2>2. s \in Nat /\ s % 8 = 0
    BY <1>5, HeapFacts
  <2>3. a \in {0, 1} /\ (a = 0 <=> b \notin U)
    BY DEF Bit
  <2>. HIDE DEF s, a
  <2>4. (s + a) % 2 = a
    BY <2>2, <2>3, TagValue
  <2>. QED  BY <2>1, <2>3, <2>4, Pointers DEF GET_ALLOC
<1>11. FreeBlocks(m) = DOMAIN S \ U
  BY <1>9, <1>10 DEF FreeBlocks
<1>. QED  BY <1>9, <1>11

(* The blocks cover the heap from the first header to the epilogue, and their
   tags agree. *)
LEMMA BlocksTile ==
    ASSUME NEW m, NEW S, NEW U, Whole(m, S, U), FirstBlock < mem_brk(m)
    PROVE  /\ UNION {Words(HDRP(bp), HDRP(NEXT_BLKP(m, bp))) : bp \in Blocks(m)}
                  = Words(HDRP(FirstBlock), HDRP(mem_brk(m)))
           /\ m[ptr_begin] = DSIZE + 1 /\ m[mem_brk(m) - WSIZE] = 1
           /\ \A bp \in Blocks(m) :
                  /\ Size(m, bp) >= MinBlock /\ Size(m, bp) % DSIZE = 0
                  /\ m[FTRP(m, bp)] = m[HDRP(bp)]
<1>. DEFINE brk == mem_brk(m)
<1>1. Blocks(m) = DOMAIN S
  BY BlocksAre
<1>2. /\ HeapOf(m, S, U, DOMAIN S \ U, {})
      /\ \A b \in DOMAIN S : b + S[b] = brk \/ b + S[b] \in DOMAIN S
      /\ FirstBlock \in DOMAIN S \cup {brk}
      /\ m[ptr_begin] = 9 /\ m[brk - 4] = 1
      /\ \A b \in DOMAIN S : m[b - 4] = S[b] + Bit(U, b) /\ m[b + S[b] - 8] = S[b] + Bit(U, b)
  BY DEF Whole, HeapOf, Tiling, Tagged
<1>3. /\ brk \in Nat /\ FirstBlock \in Nat /\ FirstBlock >= 8 /\ FirstBlock < brk
      /\ \A b \in DOMAIN S :
             /\ b \in Nat /\ b % 8 = 0 /\ b >= FirstBlock /\ S[b] \in Nat /\ S[b] >= 16 /\ b + S[b] <= brk
             /\ S[b] % 8 = 0
  <2>1. FirstBlock \in Nat /\ FirstBlock >= 8
    BY Places
  <2>2. /\ brk \in Nat
        /\ \A b \in DOMAIN S :
             /\ b \in Nat /\ b % 8 = 0 /\ b >= FirstBlock /\ S[b] \in Nat /\ S[b] >= 16 /\ b + S[b] <= brk
             /\ S[b] % 8 = 0
    BY <1>2, HeapFacts
  <2>. QED  BY <2>1, <2>2
<1>4. \A b \in DOMAIN S : Size(m, b) = S[b] /\ NEXT_BLKP(m, b) = b + S[b] /\ FTRP(m, b) = b + S[b] - 8
  BY <1>2, NextIs
<1>5. \A bp \in Blocks(m) : /\ Size(m, bp) >= MinBlock /\ Size(m, bp) % DSIZE = 0
                            /\ m[FTRP(m, bp)] = m[HDRP(bp)]
  BY <1>1, <1>2, <1>3, <1>4, Places, Pointers
<1>6. ASSUME NEW b \in DOMAIN S
      PROVE  \A w : w \in Words(HDRP(b), HDRP(NEXT_BLKP(m, b)))
                        <=> w \in Nat /\ b - 4 <= w /\ w < b + S[b] - 4 /\ w % 4 = 0
  <2>1. HDRP(b) = b - 4 /\ HDRP(NEXT_BLKP(m, b)) = b + S[b] - 4
    <3>1. b \in Nat /\ S[b] \in Nat
      BY <1>3
    <3>. QED  BY <1>4, <3>1, Pointers
  <2>2. b - 4 \in Nat /\ b + S[b] - 4 \in Nat
    BY <1>3
  <2>. QED  BY <2>1, <2>2, Places DEF Words
<1>7. \A w : w \in Words(HDRP(FirstBlock), HDRP(brk))
                 <=> w \in Nat /\ FirstBlock - 4 <= w /\ w < brk - 4 /\ w % 4 = 0
  BY <1>3, Pointers, Places DEF Words
<1>. HIDE DEF brk
<1>8. ASSUME NEW w \in Nat, FirstBlock - 4 <= w, w < brk - 4
      PROVE  \E b \in DOMAIN S : b - 4 <= w /\ w < b + S[b] - 4
  <2>. DEFINE Below == {b \in DOMAIN S : b - 4 <= w}
              Ranks == {brk - b : b \in Below}
  <2>1. \A b \in Below : b \in DOMAIN S /\ b \in Nat /\ b <= brk /\ b - 4 <= w
    BY <1>3
  <2>2. FirstBlock \in Below
    <3>1. FirstBlock # brk
      BY <1>3
    <3>. QED  BY <1>2, <1>8, <3>1 DEF brk
  <2>. HIDE DEF Below
  <2>3. Ranks \in SUBSET Nat /\ Ranks # {}
    BY <1>3, <2>1, <2>2
  <2>4. PICK r \in Ranks : \A q \in Ranks : r <= q
    BY <2>3, LeastNatural
  <2>5. PICK b \in Below : r = brk - b
    OBVIOUS
  <2>6. ASSUME NEW c \in Below PROVE c <= b
    <3>1. brk - c \in Ranks
      OBVIOUS
    <3>2. brk - b <= brk - c
      BY <2>4, <2>5, <3>1
    <3>3. b \in Nat /\ c \in Nat /\ brk \in Nat
      BY <1>3, <2>1
    <3>. QED  BY <3>2, <3>3
  <2>7. b \in DOMAIN S /\ b \in Nat /\ S[b] \in Nat /\ S[b] >= 16 /\ b - 4 <= w
    BY <1>3, <2>1
  <2>8. w < b + S[b] - 4
    <3>. SUFFICES ASSUME b + S[b] - 4 <= w PROVE FALSE
      BY <2>7
    <3>1. b + S[b] # brk
      BY <1>3, <1>8, <2>7
    <3>2. b + S[b] \in DOMAIN S
      BY <1>2, <2>7, <3>1 DEF brk
    <3>3. b + S[b] - 4 = (b + S[b]) - 4
      BY <2>7
    <3>4. b + S[b] \in Below
      BY <3>2, <3>3 DEF Below
    <3>5. b + S[b] <= b
      BY <2>6, <3>4
    <3>. QED  BY <2>7, <3>5
  <2>. QED  BY <2>7, <2>8
<1>9. ASSUME NEW w
      PROVE  w \in UNION {Words(HDRP(bp), HDRP(NEXT_BLKP(m, bp))) : bp \in DOMAIN S}
                 <=> w \in Words(HDRP(FirstBlock), HDRP(brk))
  <2>1. w \in UNION {Words(HDRP(bp), HDRP(NEXT_BLKP(m, bp))) : bp \in DOMAIN S}
            <=> \E b \in DOMAIN S : w \in Words(HDRP(b), HDRP(NEXT_BLKP(m, b)))
    OBVIOUS
  <2>2. ASSUME NEW b \in DOMAIN S, w \in Words(HDRP(b), HDRP(NEXT_BLKP(m, b)))
        PROVE  w \in Words(HDRP(FirstBlock), HDRP(brk))
    <3>1. w \in Nat /\ b - 4 <= w /\ w < b + S[b] - 4 /\ w % 4 = 0
      BY <1>6, <2>2
    <3>2. b \in Nat /\ b >= FirstBlock /\ S[b] \in Nat /\ b + S[b] <= brk
      BY <1>3
    <3>3. FirstBlock - 4 <= w /\ w < brk - 4
      BY <1>3, <3>1, <3>2
    <3>. QED  BY <1>7, <3>1, <3>3 DEF brk
  <2>3. ASSUME w \in Words(HDRP(FirstBlock), HDRP(brk))
        PROVE  \E b \in DOMAIN S : w \in Words(HDRP(b), HDRP(NEXT_BLKP(m, b)))
    <3>1. w \in Nat /\ FirstBlock - 4 <= w /\ w < brk - 4 /\ w % 4 = 0
      BY <1>7, <2>3 DEF brk
    <3>2. PICK b \in DOMAIN S : b - 4 <= w /\ w < b + S[b] - 4
      BY <1>8, <3>1
    <3>. QED  BY <1>6, <3>1, <3>2
  <2>. QED  BY <2>1, <2>2, <2>3
<1>10. UNION {Words(HDRP(bp), HDRP(NEXT_BLKP(m, bp))) : bp \in DOMAIN S}
           = Words(HDRP(FirstBlock), HDRP(brk))
  BY <1>9
<1>. QED  BY <1>1, <1>2, <1>5, <1>10, Places DEF brk

-----------------------------------------------------------------------------
(* The driver between two calls of the package.                             *)

(* Filling an allocated payload leaves the heap in order. *)
LEMMA FillWorks ==
    ASSUME NEW m, NEW S, NEW U, Whole(m, S, U), NEW p \in U, NEW n \in Nat, n <= S[p] - 8, NEW id
    PROVE  LET m2 == Fill(m, p, n, id)
           IN  /\ Whole(m2, S, U) /\ mem_brk(m2) = mem_brk(m) /\ DOMAIN m2 = DOMAIN m
               /\ \A w \in DOMAIN m : ~(p <= w /\ w < p + n) => m2[w] = m[w]
               /\ \A w \in Words(p, p + n) : m2[w] = id
<1>. DEFINE m2 == Fill(m, p, n, id)
            W == Words(p, p + n)
<1>1. /\ p \in Nat /\ S[p] \in Nat /\ p % 8 = 0
      /\ \A k \in Nat : k % 4 = 0 /\ k < S[p] - 8 => p + k \in DOMAIN m
  BY PayloadInside
<1>2. \A w \in DOMAIN m : w \in Nat
  BY HeapFacts DEF Whole
<1>3. \A w : w \in W <=> w \in Nat /\ p <= w /\ w < p + n /\ w % 4 = 0
  BY <1>1, Places DEF Words
<1>4. ASSUME NEW w \in W PROVE w \in DOMAIN m
  <2>. DEFINE k == w - p
  <2>1. k \in Nat /\ k % 4 = 0 /\ k < S[p] - 8 /\ w = p + k
    BY <1>1, <1>3
  <2>. HIDE DEF k
  <2>. QED  BY <1>1, <2>1
<1>5. m2 = [w \in DOMAIN m \cup W |-> IF w \in W THEN id ELSE m[w]]
  <2>1. m2 = Write(m, [w \in W |-> id])
    BY DEF Fill, W
  <2>. HIDE DEF W
  <2>. QED  BY <2>1 DEF Write
<1>. HIDE DEF m2, W
<1>6. DOMAIN m2 = DOMAIN m /\ \A w \in DOMAIN m : m2[w] = IF w \in W THEN id ELSE m[w]
  <2>1. DOMAIN m \cup W = DOMAIN m
    BY <1>4
  <2>. QED  BY <1>5, <2>1
<1>7. \A w \in DOMAIN m : ~(p <= w /\ w < p + n) => m2[w] = m[w]
  BY <1>3, <1>6
<1>8. \A w \in W : m2[w] = id
  BY <1>4, <1>6
<1>9. Whole(m2, S, U) /\ mem_brk(m2) = mem_brk(m)
  <2>1. ASSUME NEW w \in DOMAIN m, \A b \in U : ~(b <= w /\ w < b + S[b] - 8) PROVE m2[w] = m[w]
    <3>1. ~(p <= w /\ w < p + S[p] - 8)
      BY <2>1
    <3>2. ~(p <= w /\ w < p + n)
      BY <1>1, <1>2, <2>1, <3>1
    <3>. QED  BY <1>7, <3>2
  <2>. QED  BY <1>6, <2>1, WrittenInside
<1>. QED  BY <1>6, <1>7, <1>8, <1>9 DEF m2, W

(* what the payloads of a table hold is not forgotten *)
Remembered(m, m2, bs, szs) ==
    \A id \in Ids : \A w \in Words(bs[id], bs[id] + szs[id]) : w \in DOMAIN m => m2[w] = m[w]

(* What Forget keeps is all that anybody relies on. *)
LEMMA ForgetWorks ==
    ASSUME NEW m, NEW S, NEW U, Whole(m, S, U), FirstBlock < mem_brk(m), NEW bs, NEW szs
    PROVE  LET m2 == Forget(m, bs, szs)
           IN  /\ Whole(m2, S, U) /\ mem_brk(m2) = mem_brk(m) /\ DOMAIN m2 = DOMAIN m
               /\ Remembered(m, m2, bs, szs)
<1>. DEFINE K == Meaningful(m, bs, szs)
            m2 == Forget(m, bs, szs)
            F == DOMAIN S \ U
<1>1. /\ HeapOf(m, S, U, DOMAIN S \ U, {}) /\ Apart(S, DOMAIN S \ U)
      /\ Blocks(m) = DOMAIN S /\ FreeBlocks(m) = DOMAIN S \ U
  BY BlocksAre DEF Whole
<1>2. DOMAIN m2 = DOMAIN m /\ \A w \in DOMAIN m : w \in K => m2[w] = m[w]
  <2>1. m2 = [w \in DOMAIN m |-> IF w \in K THEN m[w] ELSE Junk]
    BY DEF Forget
  <2>. HIDE DEF m2, K
  <2>. QED  BY <2>1
<1>3. /\ Words(mem_start_brk, FirstBlock - WSIZE) \subseteq K
      /\ mem_brk(m) - WSIZE \in K
      /\ \A b \in Blocks(m) : HDRP(b) \in K /\ FTRP(m, b) \in K
      /\ \A b \in FreeBlocks(m) : Links(m, b) \subseteq K
      /\ \A id \in Ids : Words(bs[id], bs[id] + szs[id]) \subseteq K
  <2>. DEFINE Tags == UNION {{HDRP(bp), FTRP(m, bp)} : bp \in Blocks(m)}
              Used == UNION {Links(m, bp) : bp \in FreeBlocks(m)}
              Payloads == UNION {Words(bs[id], bs[id] + szs[id]) : id \in Ids}
              Start0 == Words(mem_start_brk, FirstBlock - WSIZE)
              End0 == {mem_brk(m) - WSIZE}
  <2>1. K = Start0 \cup End0 \cup Tags \cup Used \cup Payloads
    BY DEF Meaningful
  <2>2. \A b \in Blocks(m) : HDRP(b) \in Tags /\ FTRP(m, b) \in Tags
    OBVIOUS
  <2>3. \A b \in FreeBlocks(m) : Links(m, b) \subseteq Used
    OBVIOUS
  <2>4. \A id \in Ids : Words(bs[id], bs[id] + szs[id]) \subseteq Payloads
    OBVIOUS
  <2>5. mem_brk(m) - WSIZE \in End0
    OBVIOUS
  <2>6. Words(mem_start_brk, FirstBlock - WSIZE) \subseteq Start0
    OBVIOUS
  <2>. HIDE DEF K, Tags, Used, Payloads, Start0, End0
  <2>. QED  BY <2>1, <2>2, <2>3, <2>4, <2>5, <2>6
<1>. HIDE DEF m2, K
<1>4. \A w \in DOMAIN m : w < FirstBlock - 4 => m2[w] = m[w]
  <2>1. \A w \in DOMAIN m : w \in Nat /\ 8 <= w /\ w % 4 = 0
    BY <1>1, HeapFacts
  <2>2. \A w \in DOMAIN m : w < FirstBlock - 4 => w \in Words(mem_start_brk, FirstBlock - WSIZE)
    BY <2>1, Places DEF Words
  <2>. QED  BY <1>2, <1>3, <2>2
<1>5. \A b \in DOMAIN S : /\ {b - 4, b + S[b] - 8, mem_brk(m) - 4} \subseteq DOMAIN m
                          /\ HDRP(b) = b - 4 /\ FTRP(m, b) = b + S[b] - 8 /\ Size(m, b) = S[b]
  BY <1>1, TagsOutside, NextIs, Pointers
<1>6. m2[mem_brk(m) - 4] = m[mem_brk(m) - 4]
  <2>1. \E b : b \in DOMAIN S
    <3>1. FirstBlock \in DOMAIN S \cup {mem_brk(m)} /\ FirstBlock \in Nat
      BY <1>1, Places DEF HeapOf, Tiling
    <3>. QED  BY <3>1
  <2>2. mem_brk(m) - 4 \in DOMAIN m
    BY <1>5, <2>1
  <2>. QED  BY <1>2, <1>3, <2>2, Places
<1>7. \A b \in DOMAIN S \ {} : m2[b - 4] = m[b - 4] /\ m2[b + S[b] - 8] = m[b + S[b] - 8]
  BY <1>1, <1>2, <1>3, <1>5
<1>8. \A b \in F : \A w \in NodeLinks(m, S, b) : m2[w] = m[w]
  <2>. SUFFICES ASSUME NEW b \in F, NEW w \in NodeLinks(m, S, b) PROVE m2[w] = m[w]
    OBVIOUS
  <2>1. NodeLinks(m, S, b) = Links(m, b)
    BY <1>5, Pointers DEF NodeLinks, Links
  <2>2. w \in K
    BY <1>1, <1>3, <2>1
  <2>3. w \in DOMAIN m
    <3>1. Laid(m, S, DOMAIN S \ {})
      BY <1>1, HeapFacts
    <3>. QED  BY <3>1 DEF Laid, NodeLinks
  <2>. QED  BY <1>2, <2>2, <2>3
<1>9. HeapOf(m2, S, U, DOMAIN S \ U, {}) /\ mem_brk(m2) = mem_brk(m)
  <2>. HIDE DEF F
  <2>1. HeapOf(m, S, U, F, {})
    BY <1>1 DEF F
  <2>2. HeapOf(m2, S, U, F, {}) /\ mem_brk(m2) = mem_brk(m)
    BY <1>2, <1>4, <1>6, <1>7, <1>8, <2>1, HeapStays
  <2>. QED  BY <2>2 DEF F
<1>10. Remembered(m, m2, bs, szs)
  BY <1>2, <1>3 DEF Remembered
<1>. QED  BY <1>1, <1>2, <1>9, <1>10 DEF Whole, m2

-----------------------------------------------------------------------------
(* The table of payloads.                                                  *)

(* the table of payloads: the allocated blocks U, each of one index, with room
   for the size it asked for *)
TableOf(S, U, bs, szs) ==
    /\ bs \in [Ids -> Nat] /\ szs \in [Ids -> Sizes \cup {0}]
    /\ \A id \in Ids : IF bs[id] = 0 THEN szs[id] = 0
                       ELSE bs[id] \in U /\ szs[id] \in Sizes /\ S[bs[id]] >= szs[id] + 8
    /\ \A i, j \in Ids : bs[i] # 0 /\ bs[i] = bs[j] => i = j
    /\ \A b \in U : \E id \in Ids : bs[id] = b

(* every payload holds the index that owns it *)
Filled(m, bs, szs) == \A id \in Ids : \A w \in Words(bs[id], bs[id] + szs[id]) : m[w] = id

(* the heap serves the table of the driver *)
Served(m, S, U, bs, szs) ==
    /\ Whole(m, S, U) /\ FirstBlock < mem_brk(m)
    /\ TableOf(S, U, bs, szs)
    /\ Filled(m, bs, szs)

(* Sizes are whole words. *)
LEMMA SizesAre == \A n \in Sizes : n \in Nat /\ n > 0 /\ n % 4 = 0
  BY MdriverAssumption, Places

(* The words of a payload. *)
LEMMA PayloadWords ==
    ASSUME NEW m, NEW S, NEW U, Whole(m, S, U), NEW b \in U, NEW n \in Nat, n <= S[b] - 8
    PROVE  \A w \in Words(b, b + n) : w \in DOMAIN m /\ w \in Nat /\ b <= w /\ w < b + n /\ w < b + S[b] - 8
<1>1. /\ b \in Nat /\ S[b] \in Nat /\ b % 8 = 0
      /\ \A k \in Nat : k % 4 = 0 /\ k < S[b] - 8 => b + k \in DOMAIN m
  BY PayloadInside
<1>2. ASSUME NEW w \in Words(b, b + n)
      PROVE  w \in DOMAIN m /\ w \in Nat /\ b <= w /\ w < b + n /\ w < b + S[b] - 8
  <2>1. w \in Nat /\ b <= w /\ w < b + n /\ w % 4 = 0
    BY <1>1, Places DEF Words
  <2>. DEFINE k == w - b
  <2>2. k \in Nat /\ k % 4 = 0 /\ k < S[b] - 8 /\ w = b + k
    BY <1>1, <2>1
  <2>. HIDE DEF k
  <2>3. w \in DOMAIN m
    BY <1>1, <2>2
  <2>. QED  BY <1>1, <2>1, <2>3
<1>. QED  BY <1>2

(* No bytes: no words. *)
LEMMA NoWords == \A b \in Nat : Words(b, b + 0) = {}
  BY DEF Words

(* Two allocated payloads share no byte. *)
LEMMA PayloadsApart ==
    ASSUME NEW m, NEW S, NEW U, Whole(m, S, U), NEW b \in U, NEW c \in U, b # c,
           NEW n \in Nat, n <= S[b] - 8, NEW k \in Nat, k <= S[c] - 8
    PROVE  b + n <= c \/ c + k <= b
<1>1. HeapOf(m, S, U, DOMAIN S \ U, {}) /\ U \subseteq DOMAIN S
  BY NoBlockIsNull DEF Whole
<1>2. /\ b \in Nat /\ c \in Nat /\ S[b] \in Nat /\ S[c] \in Nat
      /\ b < c => b + S[b] <= c
      /\ c < b => c + S[c] <= b
  BY <1>1, HeapFacts
<1>. QED  BY <1>2

(* The index a payload is handed to. *)
LEMMA TableGiven ==
    ASSUME NEW S, NEW U, NEW bs, NEW szs, TableOf(S, U, bs, szs), NEW id \in Ids, NEW size \in Sizes,
           NEW p \in Nat, p # 0, NEW V, \A b : b \in V <=> b \in U /\ b # bs[id], p \notin V,
           NEW S2, \A b \in V : S2[b] = S[b], S2[p] >= size + 8
    PROVE  TableOf(S2, V \cup {p}, [bs EXCEPT ![id] = p], [szs EXCEPT ![id] = size])
<1>. DEFINE bs2 == [bs EXCEPT ![id] = p]
            szs2 == [szs EXCEPT ![id] = size]
            V2 == V \cup {p}
<1>1. /\ bs \in [Ids -> Nat] /\ szs \in [Ids -> Sizes \cup {0}]
      /\ \A i \in Ids : IF bs[i] = 0 THEN szs[i] = 0
                        ELSE bs[i] \in U /\ szs[i] \in Sizes /\ S[bs[i]] >= szs[i] + 8
      /\ \A i, j \in Ids : bs[i] # 0 /\ bs[i] = bs[j] => i = j
      /\ \A b \in U : \E i \in Ids : bs[i] = b
  BY DEF TableOf
<1>2. /\ bs2 \in [Ids -> Nat] /\ szs2 \in [Ids -> Sizes \cup {0}]
      /\ bs2[id] = p /\ szs2[id] = size
      /\ \A i \in Ids : i # id => bs2[i] = bs[i] /\ szs2[i] = szs[i]
  BY <1>1
<1>3. \A b : b \in V2 <=> b \in V \/ b = p
  OBVIOUS
<1>. HIDE DEF bs2, szs2, V2
<1>4. \A i \in Ids : i # id /\ bs[i] # 0 => bs[i] \in V /\ bs[i] # p
  BY <1>1
<1>5. \A i \in Ids : IF bs2[i] = 0 THEN szs2[i] = 0
                     ELSE bs2[i] \in V2 /\ szs2[i] \in Sizes /\ S2[bs2[i]] >= szs2[i] + 8
  <2>1. TAKE i \in Ids
  <2>2. CASE i = id
    BY <1>2, <1>3, <2>2
  <2>3. CASE i # id
    BY <1>1, <1>2, <1>3, <1>4, <2>3
  <2>. QED  BY <2>2, <2>3
<1>6. \A i, j \in Ids : bs2[i] # 0 /\ bs2[i] = bs2[j] => i = j
  BY <1>1, <1>2, <1>4
<1>7. \A b \in V2 : \E i \in Ids : bs2[i] = b
  <2>1. TAKE b \in V2
  <2>2. CASE b = p
    BY <1>2, <2>2
  <2>3. CASE b # p
    <3>1. b \in U /\ b # bs[id]
      BY <1>3, <2>3
    <3>2. PICK i \in Ids : bs[i] = b
      BY <1>1, <3>1
    <3>3. i # id
      BY <3>1, <3>2
    <3>. QED  BY <1>2, <3>2, <3>3
  <2>. QED  BY <2>2, <2>3
<1>. QED  BY <1>2, <1>5, <1>6, <1>7 DEF TableOf, bs2, szs2, V2

(* The index whose payload is returned. *)
LEMMA TableFreed ==
    ASSUME NEW S, NEW U, NEW bs, NEW szs, TableOf(S, U, bs, szs), NEW id \in Ids, bs[id] # 0,
           NEW S2, \A b \in U \ {bs[id]} : S2[b] = S[b]
    PROVE  TableOf(S2, U \ {bs[id]}, [bs EXCEPT ![id] = 0], [szs EXCEPT ![id] = 0])
<1>. DEFINE bs2 == [bs EXCEPT ![id] = 0]
            szs2 == [szs EXCEPT ![id] = 0]
            V2 == U \ {bs[id]}
<1>1. /\ bs \in [Ids -> Nat] /\ szs \in [Ids -> Sizes \cup {0}]
      /\ \A i \in Ids : IF bs[i] = 0 THEN szs[i] = 0
                        ELSE bs[i] \in U /\ szs[i] \in Sizes /\ S[bs[i]] >= szs[i] + 8
      /\ \A i, j \in Ids : bs[i] # 0 /\ bs[i] = bs[j] => i = j
      /\ \A b \in U : \E i \in Ids : bs[i] = b
  BY DEF TableOf
<1>2. /\ bs2 \in [Ids -> Nat] /\ szs2 \in [Ids -> Sizes \cup {0}]
      /\ bs2[id] = 0 /\ szs2[id] = 0
      /\ \A i \in Ids : i # id => bs2[i] = bs[i] /\ szs2[i] = szs[i]
  BY <1>1
<1>3. \A b : b \in V2 <=> b \in U /\ b # bs[id]
  OBVIOUS
<1>. HIDE DEF bs2, szs2, V2
<1>4. \A i \in Ids : i # id /\ bs[i] # 0 => bs[i] \in V2
  BY <1>1, <1>3
<1>8. \A b \in V2 : S2[b] = S[b]
  BY <1>3
<1>5. \A i \in Ids : IF bs2[i] = 0 THEN szs2[i] = 0
                     ELSE bs2[i] \in V2 /\ szs2[i] \in Sizes /\ S2[bs2[i]] >= szs2[i] + 8
  <2>1. TAKE i \in Ids
  <2>2. CASE i = id
    BY <1>2, <2>2
  <2>3. CASE i # id
    BY <1>1, <1>2, <1>4, <1>8, <2>3
  <2>. QED  BY <2>2, <2>3
<1>6. \A i, j \in Ids : bs2[i] # 0 /\ bs2[i] = bs2[j] => i = j
  BY <1>1, <1>2
<1>7. \A b \in V2 : \E i \in Ids : bs2[i] = b
  BY <1>1, <1>2, <1>3
<1>. QED  BY <1>2, <1>5, <1>6, <1>7 DEF TableOf, bs2, szs2, V2

(* the other blocks of U *)
Without(V, U, p) == \A b : b \in V <=> b \in U /\ b # p

(* the ranges of other indices than id *)
Others(bs, szs, id, r) == \E i \in Ids : i # id /\ bs[i] # 0 /\ r = RangeOf(bs[i], szs[i])

(* rs are ranges of other indices than id *)
AmongOthers(bs, szs, id, rs) == \A r \in rs : Others(bs, szs, id, r)

(* n bytes at p are none of another index's *)
Spared(bs, szs, id, p, n) ==
    \A i \in Ids : i # id /\ bs[i] # 0 => bs[i] + szs[i] <= p \/ p + n <= bs[i]

(* what a heap that was filled and tidied up serves *)
AnswerKept(m2, new, S2, id, size, bs2, szs2) ==
    LET f == Forget(Fill(new.mem, new.ptr, size, id), bs2, szs2)
    IN  m2 = f => (\E U2 : Served(m2, S2, U2, bs2, szs2)) /\ mem_brk(m2) = mem_brk(new.mem)

(* An accepted answer: its payload is filled, what nobody relies on forgotten. *)
LEMMA AnswerServed ==
    ASSUME NEW m, NEW S, NEW U, NEW bs, NEW szs, Served(m, S, U, bs, szs), NEW id \in Ids, NEW size \in Sizes,
           NEW new, NEW S2, NEW V, Without(V, U, bs[id]), NEW need \in Nat, need >= size + 8,
           Given(m, new, S, S2, V, need),
           NEW bs2, bs2 = [bs EXCEPT ![id] = new.ptr], NEW szs2, szs2 = [szs EXCEPT ![id] = size], NEW h
    PROVE  AnswerKept(h, new, S2, id, size, bs2, szs2)
<1>. DEFINE p == new.ptr
            g == new.mem
            U2 == V \cup {p}
            f == Fill(g, p, size, id)
            m2 == Forget(f, bs2, szs2)
<1>1. /\ Whole(m, S, U) /\ FirstBlock < mem_brk(m) /\ TableOf(S, U, bs, szs) /\ Filled(m, bs, szs)
      /\ size \in Nat /\ size > 0 /\ size % 4 = 0
  BY SizesAre DEF Served
<1>2. /\ Whole(g, S2, U2) /\ p \notin V /\ \A b \in V : S2[b] = S[b]
      /\ S2[p] >= need /\ SamePayloads(m, g, S, V) /\ mem_brk(m) <= mem_brk(g)
  BY DEF Given, Without
<1>3. p \in U2 /\ \A b \in V : b \in U2 /\ b # p
  BY <1>2
<1>. HIDE DEF p, g, U2
<1>4. p \in Nat /\ p # 0 /\ S2[p] \in Nat /\ S2[p] >= size + 8
  <2>1. p \in Nat /\ S2[p] \in Nat
    BY <1>2, <1>3, PayloadInside
  <2>2. p # 0
    BY <1>2, <1>3, NoBlockIsNull
  <2>. QED  BY <1>1, <1>2, <2>1, <2>2
<1>5. size <= S2[p] - 8
  BY <1>1, <1>4
<1>6. /\ Whole(f, S2, U2) /\ mem_brk(f) = mem_brk(g) /\ DOMAIN f = DOMAIN g
      /\ \A w \in DOMAIN g : ~(p <= w /\ w < p + size) => f[w] = g[w]
      /\ \A w \in Words(p, p + size) : f[w] = id
  BY <1>1, <1>2, <1>3, <1>5, FillWorks
<1>. HIDE DEF f
<1>7. FirstBlock < mem_brk(f)
  <2>1. FirstBlock \in Nat
    BY Places
  <2>2. mem_brk(m) \in Nat /\ mem_brk(g) \in Nat
    BY <1>1, <1>2, HeapFacts DEF Whole
  <2>. QED  BY <1>1, <1>2, <1>6, <2>1, <2>2
<1>8. Whole(m2, S2, U2) /\ mem_brk(m2) = mem_brk(f) /\ DOMAIN m2 = DOMAIN f /\ Remembered(f, m2, bs2, szs2)
  BY <1>6, <1>7, ForgetWorks
<1>. HIDE DEF m2
<1>9. TableOf(S2, U2, bs2, szs2)
  <2>1. TableOf(S2, V \cup {p}, [bs EXCEPT ![id] = p], [szs EXCEPT ![id] = size])
    <3>1. \A b : b \in V <=> b \in U /\ b # bs[id]
      BY DEF Without
    <3>. QED  BY <1>1, <1>2, <1>4, <3>1, TableGiven
  <2>. QED  BY <2>1 DEF U2, p
<1>10. ASSUME NEW i \in Ids, NEW w \in Words(bs2[i], bs2[i] + szs2[i]) PROVE m2[w] = i
  <2>1. bs \in [Ids -> Nat] /\ szs \in [Ids -> Sizes \cup {0}]
    BY <1>1 DEF TableOf
  <2>2. bs2[i] \in Nat /\ szs2[i] \in Nat /\ bs2[i] # 0 /\ bs2[i] \in U2 /\ S2[bs2[i]] >= szs2[i] + 8
    <3>1. /\ IF bs2[i] = 0 THEN szs2[i] = 0
             ELSE bs2[i] \in U2 /\ szs2[i] \in Sizes /\ S2[bs2[i]] >= szs2[i] + 8
          /\ bs2[i] \in Nat /\ szs2[i] \in Sizes \cup {0}
      BY <1>9 DEF TableOf
    <3>2. bs2[i] # 0
      BY <1>10, <3>1, NoWords
    <3>. QED  BY <3>1, <3>2, SizesAre
  <2>. DEFINE b == bs2[i]
              n == szs2[i]
  <2>3. S2[b] \in Nat
    BY <1>2, <2>2, PayloadInside
  <2>4. n <= S2[b] - 8
    BY <2>2, <2>3
  <2>5. w \in DOMAIN g /\ w \in Nat /\ b <= w /\ w < b + n /\ w < b + S2[b] - 8
    <3>1. w \in Words(b, b + n)
      BY <1>10
    <3>. HIDE DEF b, n
    <3>2. b \in U2 /\ n \in Nat
      BY <2>2 DEF b, n
    <3>. QED  BY <1>2, <2>4, <3>1, <3>2, PayloadWords
  <2>6. m2[w] = f[w]
    BY <1>6, <1>8, <1>10, <2>5 DEF Remembered
  <2>7. CASE i = id
    <3>1. b = p /\ n = size
      BY <2>1, <2>7 DEF p
    <3>. QED  BY <1>6, <1>10, <2>6, <2>7, <3>1
  <2>8. CASE i # id
    <3>1. b = bs[i] /\ n = szs[i]
      BY <2>1, <2>8
    <3>2. b \in U /\ b # bs[id]
      BY <1>1, <2>2, <2>8, <3>1 DEF TableOf
    <3>3. b \in V /\ S2[b] = S[b]
      BY <1>2, <3>2 DEF Without
    <3>4. m[w] = i
      BY <1>1, <1>10, <3>1 DEF Filled
    <3>5. w \in DOMAIN m
      <4>1. S[b] \in Nat /\ n <= S[b] - 8
        BY <2>3, <2>4, <3>3
      <4>2. w \in Words(b, b + n)
        BY <1>10
      <4>3. n \in Nat
        BY <2>2
      <4>. HIDE DEF b, n
      <4>. QED  BY <1>1, <3>2, <4>1, <4>2, <4>3, PayloadWords
    <3>6. g[w] = m[w]
      BY <1>2, <2>5, <3>3, <3>5 DEF SamePayloads
    <3>7. b + n <= p \/ p + size <= b
      <4>1. b # p /\ b \in U2 /\ n \in Nat
        BY <1>3, <2>2, <3>3
      <4>. HIDE DEF b, n
      <4>. QED  BY <1>1, <1>2, <1>3, <1>5, <2>4, <4>1, PayloadsApart
    <3>8. ~(p <= w /\ w < p + size)
      <4>1. b \in Nat /\ n \in Nat
        BY <2>2
      <4>. HIDE DEF b, n
      <4>. QED  BY <1>1, <1>4, <2>5, <3>7, <4>1
    <3>. QED  BY <1>6, <2>5, <2>6, <3>4, <3>6, <3>8
  <2>. QED  BY <2>7, <2>8
<1>11. FirstBlock < mem_brk(m2) /\ Filled(m2, bs2, szs2)
  BY <1>7, <1>8, <1>10 DEF Filled
<1>12. Served(m2, S2, U2, bs2, szs2) /\ mem_brk(m2) = mem_brk(g)
  BY <1>6, <1>8, <1>9, <1>11 DEF Served
<1>. QED  BY <1>12 DEF m2, f, g, p, AnswerKept

(* add_range accepts every payload the package hands out. *)
LEMMA VerdictOk ==
    ASSUME NEW m, NEW S, NEW U, NEW bs, NEW szs, Served(m, S, U, bs, szs), NEW id \in Ids, NEW size \in Sizes,
           NEW new, NEW S2, NEW V, Without(V, U, bs[id]), NEW need \in Nat, need >= size + 8,
           Given(m, new, S, S2, V, need),
           NEW others, AmongOthers(bs, szs, id, others)
    PROVE  /\ RangeVerdict(new.mem, others, RangeOf(new.ptr, size)) = "ok"
           /\ new.ptr \in Nat /\ new.ptr # 0 /\ new.ptr % 8 = 0 /\ new.ptr >= mem_start_brk
           /\ new.ptr + size <= mem_start_brk + MAX_HEAP
           /\ Spared(bs, szs, id, new.ptr, size)
<1>. DEFINE p == new.ptr
            g == new.mem
            U2 == V \cup {p}
            r == RangeOf(p, size)
<1>1. /\ Whole(m, S, U) /\ TableOf(S, U, bs, szs)
      /\ size \in Nat /\ size > 0 /\ size % 4 = 0
  BY SizesAre DEF Served
<1>2. /\ Whole(g, S2, U2) /\ p \notin V /\ \A b \in V : S2[b] = S[b] /\ S2[p] >= need
  BY DEF Given, Without
<1>3. p \in U2 /\ (\A b \in V : b \in U2 /\ b # p) /\ S2[p] >= need
  BY <1>2 DEF Given
<1>. HIDE DEF p, g, U2
<1>4. /\ p \in Nat /\ p % 8 = 0 /\ S2[p] \in Nat /\ S2[p] >= size + 8 /\ p # 0
      /\ p >= 8 /\ p + S2[p] <= mem_brk(g) /\ mem_brk(g) \in Nat /\ mem_brk(g) <= MaxSize
  <2>1. p \in DOMAIN S2 /\ p # 0
    BY <1>2, <1>3, NoBlockIsNull
  <2>2. HeapOf(g, S2, U2, DOMAIN S2 \ U2, {})
    BY <1>2 DEF Whole
  <2>3. /\ p \in Nat /\ p % 8 = 0 /\ S2[p] \in Nat /\ p >= FirstBlock
        /\ p + S2[p] <= mem_brk(g) /\ mem_brk(g) \in Nat /\ mem_brk(g) <= MaxSize
    BY <2>1, <2>2, HeapFacts
  <2>4. FirstBlock \in Nat /\ FirstBlock >= 8
    BY Places
  <2>. QED  BY <1>1, <1>3, <2>1, <2>3, <2>4
<1>5. ASSUME NEW i \in Ids, i # id, bs[i] # 0
      PROVE  /\ bs[i] \in Nat /\ szs[i] \in Nat /\ szs[i] > 0
             /\ bs[i] + szs[i] <= p \/ p + size <= bs[i]
  <2>1. bs[i] \in U /\ szs[i] \in Sizes /\ S[bs[i]] >= szs[i] + 8 /\ bs[i] # bs[id]
    BY <1>1, <1>5 DEF TableOf
  <2>. DEFINE b == bs[i]
              n == szs[i]
  <2>2. b \in V /\ n \in Nat /\ n > 0 /\ b # p /\ b \in U2 /\ S2[b] = S[b]
    BY <1>2, <1>3, <2>1, SizesAre DEF Without
  <2>3. b \in Nat /\ S2[b] \in Nat
    BY <1>2, <2>2, PayloadInside
  <2>4. n <= S2[b] - 8 /\ size <= S2[p] - 8
    BY <1>1, <1>4, <2>1, <2>2, <2>3
  <2>. HIDE DEF b, n
  <2>5. b + n <= p \/ p + size <= b
    BY <1>1, <1>2, <1>3, <2>2, <2>4, PayloadsApart
  <2>. QED  BY <2>2, <2>3, <2>5 DEF b, n
<1>6. r.lo = p /\ r.hi = p + size - 1
  BY DEF RangeOf
<1>7. \A q \in others : ~(r.lo \in q.lo .. q.hi \/ r.hi \in q.lo .. q.hi)
  <2>1. TAKE q \in others
  <2>2. PICK i \in Ids : i # id /\ bs[i] # 0 /\ q = RangeOf(bs[i], szs[i])
    BY DEF Others, AmongOthers
  <2>3. q.lo = bs[i] /\ q.hi = bs[i] + szs[i] - 1
    BY <2>2 DEF RangeOf
  <2>4. /\ bs[i] \in Nat /\ szs[i] \in Nat /\ szs[i] > 0
        /\ bs[i] + szs[i] <= p \/ p + size <= bs[i]
    BY <1>5, <2>2
  <2>. QED  BY <1>1, <1>4, <1>6, <2>3, <2>4
<1>8. r.lo % DSIZE = 0 /\ {r.lo, r.hi} \subseteq mem_start_brk .. mem_brk(g) - 1
  BY <1>1, <1>4, <1>6, Places
<1>9. RangeVerdict(g, others, r) = "ok"
  <2>. HIDE DEF r
  <2>. QED  BY <1>7, <1>8 DEF RangeVerdict
<1>10. p + size <= mem_start_brk + MAX_HEAP
  <2>1. MaxSize = mem_start_brk + MAX_HEAP /\ MaxSize \in Nat
    BY Places DEF MaxSize
  <2>. QED  BY <1>1, <1>4, <2>1
<1>11. Spared(bs, szs, id, p, size)
  BY <1>5 DEF Spared
<1>. QED  BY <1>4, <1>9, <1>10, <1>11, Places DEF p, g, r

(* A payload that is returned. *)
LEMMA FreeServed ==
    ASSUME NEW m, NEW S, NEW U, NEW bs, NEW szs, Served(m, S, U, bs, szs), NEW id \in Ids, bs[id] # 0,
           NEW bs2, bs2 = [bs EXCEPT ![id] = 0], NEW szs2, szs2 = [szs EXCEPT ![id] = 0]
    PROVE  \E S2 : Served(Forget(mm_free(m, bs[id]), bs2, szs2), S2, U \ {bs[id]}, bs2, szs2)
<1>. DEFINE p == bs[id]
            V == U \ {p}
            f == mm_free(m, p)
            m2 == Forget(f, bs2, szs2)
<1>1. /\ Whole(m, S, U) /\ FirstBlock < mem_brk(m) /\ TableOf(S, U, bs, szs) /\ Filled(m, bs, szs)
  BY DEF Served
<1>2. p \in U
  BY <1>1 DEF TableOf
<1>. HIDE DEF f
<1>3. PICK S2 : Kept(m, f, S, S2, V)
  BY <1>1, <1>2, FreeWorks DEF f
<1>4. /\ Whole(f, S2, V) /\ DOMAIN f = DOMAIN m /\ mem_brk(f) = mem_brk(m)
      /\ SamePayloads(m, f, S, V) /\ \A b \in V : S2[b] = S[b]
  BY <1>3 DEF Kept, Whole
<1>5. Whole(m2, S2, V) /\ mem_brk(m2) = mem_brk(f) /\ DOMAIN m2 = DOMAIN f /\ Remembered(f, m2, bs2, szs2)
  BY <1>1, <1>4, ForgetWorks
<1>6. TableOf(S2, V, bs2, szs2)
  BY <1>1, <1>4, TableFreed
<1>. HIDE DEF m2
<1>7. ASSUME NEW i \in Ids, NEW w \in Words(bs2[i], bs2[i] + szs2[i]) PROVE m2[w] = i
  <2>1. bs \in [Ids -> Nat] /\ szs \in [Ids -> Sizes \cup {0}]
    BY <1>1 DEF TableOf
  <2>2. i # id /\ bs[i] # 0 /\ bs2[i] = bs[i] /\ szs2[i] = szs[i] /\ bs[i] \in Nat
    <3>1. 0 \in Nat /\ bs[i] \in Nat
      BY <2>1
    <3>2. bs2[i] # 0
      <4>1. bs2[i] = 0 => szs2[i] = 0
        BY <1>6 DEF TableOf
      <4>. QED  BY <1>7, <3>1, <4>1, NoWords
    <3>3. i # id
      BY <2>1, <3>2
    <3>. QED  BY <2>1, <3>1, <3>2, <3>3
  <2>. DEFINE b == bs[i]
              n == szs[i]
  <2>3. b \in U /\ n \in Nat /\ S[b] >= n + 8 /\ b \in V /\ S[b] \in Nat
    <3>1. b \in U /\ n \in Sizes /\ S[b] >= n + 8 /\ b # p
      BY <1>1, <2>2 DEF TableOf
    <3>2. S[b] \in Nat
      BY <1>1, <3>1, PayloadInside
    <3>. QED  BY <3>1, <3>2, SizesAre
  <2>4. w \in Words(b, b + n)
    BY <1>7, <2>2
  <2>5. m[w] = i
    BY <1>1, <2>4 DEF Filled
  <2>. HIDE DEF b, n
  <2>6. w \in DOMAIN m /\ b <= w /\ w < b + S[b] - 8
    <3>1. n <= S[b] - 8
      BY <2>3
    <3>. QED  BY <1>1, <2>3, <2>4, <3>1, PayloadWords
  <2>7. f[w] = m[w]
    BY <1>4, <2>3, <2>6 DEF SamePayloads
  <2>8. m2[w] = f[w]
    BY <1>4, <1>5, <1>7, <2>6 DEF Remembered
  <2>. QED  BY <2>5, <2>7, <2>8
<1>8. Served(m2, S2, V, bs2, szs2)
  BY <1>1, <1>4, <1>5, <1>6, <1>7 DEF Served, Filled
<1>. QED  BY <1>8 DEF m2, f, V, p

-----------------------------------------------------------------------------
(* The invariant.                                                           *)

(* the range list of the driver is that of the payloads it holds *)
Listing == \A r : r \in ranges <=> \E i \in Ids : blocks[i] # 0 /\ r = RangeOf(blocks[i], block_sizes[i])

(* Between two requests the heap serves the table: every block that is not a
   payload is free and listed, no two neighbours are free, the tags tile it,
   and each payload has room and holds its index. *)
IInv ==
    /\ verdict \in {"ok", "failed"}
    /\ Listing
    /\ \E S, U : Served(heap, S, U, blocks, block_sizes)

(* An answer with a payload is accepted, and the abstract allocator gives the
   same extent. *)
LEMMA AnswerStep ==
    ASSUME NEW S, NEW U, Served(heap, S, U, blocks, block_sizes), NEW id \in Ids, NEW size \in Sizes,
           NEW new, NEW S2, NEW V, Without(V, U, blocks[id]),
           NEW need \in Nat, need >= size + 8, Given(heap, new, S, S2, V, need),
           NEW others, \A r : r \in others <=> Others(blocks, block_sizes, id, r),
           Answer(id, size, new, others, "ok")
    PROVE  /\ IInv' /\ verdict' = "ok" /\ blocks'[id] = new.ptr /\ mem_brk(heap') = mem_brk(new.mem)
           /\ \E lo \in mem_start_brk .. mem_start_brk + MAX_HEAP - 1 :
                  Abstract!Give(id, [lo |-> lo, size |-> size])
<1>. DEFINE p == new.ptr
            bs2 == [blocks EXCEPT ![id] = p]
            szs2 == [block_sizes EXCEPT ![id] = size]
<1>1. AmongOthers(blocks, block_sizes, id, others)
  BY DEF AmongOthers
<1>2. /\ p \in Nat /\ p # 0 /\ p % 8 = 0 /\ p >= mem_start_brk
      /\ p + size <= mem_start_brk + MAX_HEAP
      /\ \A i \in Ids : i # id /\ blocks[i] # 0 =>
             blocks[i] + block_sizes[i] <= p \/ p + size <= blocks[i]
  <2>1. /\ new.ptr \in Nat /\ new.ptr # 0 /\ new.ptr % 8 = 0 /\ new.ptr >= mem_start_brk
        /\ new.ptr + size <= mem_start_brk + MAX_HEAP
        /\ Spared(blocks, block_sizes, id, new.ptr, size)
    BY <1>1, VerdictOk
  <2>. QED  BY <2>1 DEF Spared
<1>3. /\ verdict' = "ok" /\ blocks' = bs2 /\ block_sizes' = szs2
      /\ ranges' = others \cup {RangeOf(p, size)}
      /\ heap' = Forget(Fill(new.mem, p, size, id), blocks', block_sizes')
  BY <1>2 DEF Answer
<1>4. /\ blocks \in [Ids -> Nat] /\ block_sizes \in [Ids -> Sizes \cup {0}]
      /\ \A i \in Ids : blocks[i] = 0 => block_sizes[i] = 0
  BY DEF Served, TableOf
<1>5. /\ bs2[id] = p /\ szs2[id] = size
      /\ \A i \in Ids : i # id => bs2[i] = blocks[i] /\ szs2[i] = block_sizes[i]
  BY <1>4
<1>6. /\ \E U2 : Served(heap', S2, U2, blocks', block_sizes')
      /\ mem_brk(heap') = mem_brk(new.mem)
  <2>1. bs2 = [blocks EXCEPT ![id] = new.ptr] /\ szs2 = [block_sizes EXCEPT ![id] = size]
    OBVIOUS
  <2>. HIDE DEF bs2, szs2
  <2>2. AnswerKept(heap', new, S2, id, size, bs2, szs2)
    BY <2>1, AnswerServed
  <2>. QED  BY <1>3, <2>2 DEF AnswerKept
<1>. HIDE DEF bs2, szs2
<1>7. Listing'
  <2>. SUFFICES ASSUME NEW r
                PROVE  r \in ranges' <=> \E i \in Ids : blocks'[i] # 0 /\ r = RangeOf(blocks'[i], block_sizes'[i])
    BY DEF Listing, RangeOf
  <2>1. r \in ranges' <=> Others(blocks, block_sizes, id, r) \/ r = RangeOf(p, size)
    BY <1>3
  <2>. QED  BY <1>2, <1>3, <1>5, <2>1 DEF Others
<1>8. IInv'
  BY <1>3, <1>6, <1>7 DEF IInv
<1>9. \E lo \in mem_start_brk .. mem_start_brk + MAX_HEAP - 1 : Abstract!Give(id, [lo |-> lo, size |-> size])
  <2>. DEFINE x == [lo |-> p, size |-> size]
              e == [i \in Ids |-> [lo |-> blocks[i], size |-> block_sizes[i]]]
  <2>1. size \in Nat /\ size > 0 /\ MAX_HEAP \in Nat
    BY SizesAre, Places
  <2>2. p \in mem_start_brk .. mem_start_brk + MAX_HEAP - 1
    BY <1>2, <2>1, Places
  <2>3. Abstract!Within(x)
    BY <1>2, <2>1, Places DEF Abstract!Within
  <2>4. ASSUME NEW i \in Ids \ {id} PROVE Abstract!Apart(x, e[i])
    <3>1. blocks[i] \in Nat
      BY <1>4
    <3>2. CASE blocks[i] = 0
      BY <1>2, <1>4, <3>2 DEF Abstract!Apart
    <3>3. CASE blocks[i] # 0
      BY <1>2, <3>3 DEF Abstract!Apart
    <3>. QED  BY <3>2, <3>3
  <2>5. [i \in Ids |-> [lo |-> blocks'[i], size |-> block_sizes'[i]]] = [e EXCEPT ![id] = x]
    BY <1>3, <1>5
  <2>6. Abstract!Give(id, x)
    <3>. HIDE DEF x
    <3>. QED  BY <2>3, <2>4, <2>5 DEF Abstract!Give, Abstract!Clear
  <2>. QED  BY <2>2, <2>6
<1>. QED  BY <1>3, <1>5, <1>6, <1>8, <1>9

(* what a request that is answered leaves for the next one, and for the client *)
Answered(id, size, new) ==
    /\ IInv'
    /\ new.ptr = 0 => verdict' = "failed" /\ UNCHANGED <<heap, blocks, block_sizes>>
    /\ new.ptr # 0 =>
           /\ verdict' = "ok" /\ blocks'[id] = new.ptr /\ mem_brk(heap') = mem_brk(new.mem)
           /\ \E lo \in mem_start_brk .. mem_start_brk + MAX_HEAP - 1 :
                  Abstract!Give(id, [lo |-> lo, size |-> size])

(* A request that fails leaves everything where it is. *)
LEMMA FailedStep ==
    ASSUME IInv, NEW id, NEW size, NEW new, new.ptr = 0, new.mem = heap, NEW others, NEW judged,
           Answer(id, size, new, others, judged)
    PROVE  Answered(id, size, new)
<1>1. verdict' = "failed" /\ heap' = heap /\ ranges' = ranges /\ UNCHANGED <<blocks, block_sizes>>
  BY DEF Answer
<1>2. IInv'
  BY <1>1 DEF IInv, Listing, RangeOf
<1>. QED  BY <1>1, <1>2 DEF Answered

(* mm_malloc serves a request of the driver. *)
LEMMA AllocStep ==
    ASSUME IInv, NEW id \in Ids, NEW size \in Sizes, Alloc(id, size)
    PROVE  Answered(id, size, mm_malloc(heap, size))
<1>. DEFINE new == mm_malloc(heap, size)
            need == ALIGN(size + DSIZE)
            judged == RangeVerdict(new.mem, ranges, RangeOf(new.ptr, size))
<1>1. blocks[id] = 0 /\ Answer(id, size, new, ranges, judged)
  BY DEF Alloc
<1>2. size \in Nat /\ size > 0 /\ need \in Nat /\ need >= size + 8
  BY SizesAre, Aligned
<1>3. PICK S, U : Served(heap, S, U, blocks, block_sizes)
  BY DEF IInv
<1>4. Whole(heap, S, U) /\ 0 \notin U
  BY <1>3, NoBlockIsNull DEF Served
<1>5. /\ new.ptr = 0 => new.mem = heap
      /\ new.ptr # 0 => \E S2 : Given(heap, new, S, S2, U, need)
  BY <1>2, <1>4, MallocWorks
<1>6. Without(U, U, blocks[id])
  BY <1>1, <1>4 DEF Without
<1>7. \A r : r \in ranges <=> Others(blocks, block_sizes, id, r)
  BY <1>1 DEF IInv, Listing, Others
<1>. HIDE DEF new, need
<1>8. CASE new.ptr = 0
  BY <1>1, <1>5, <1>8, FailedStep DEF new
<1>9. CASE new.ptr # 0
  <2>1. PICK S2 : Given(heap, new, S, S2, U, need)
    BY <1>5, <1>9
  <2>2. judged = "ok"
    <3>1. AmongOthers(blocks, block_sizes, id, ranges)
      BY <1>7 DEF AmongOthers
    <3>. QED  BY <1>2, <1>3, <1>6, <2>1, <3>1, VerdictOk
  <2>3. Answer(id, size, new, ranges, "ok")
    BY <1>1, <2>2
  <2>. HIDE DEF judged
  <2>4. /\ IInv' /\ verdict' = "ok" /\ blocks'[id] = new.ptr /\ mem_brk(heap') = mem_brk(new.mem)
        /\ \E lo \in mem_start_brk .. mem_start_brk + MAX_HEAP - 1 :
                  Abstract!Give(id, [lo |-> lo, size |-> size])
    BY <1>2, <1>3, <1>6, <1>7, <2>1, <2>3, AnswerStep
  <2>. QED  BY <1>9, <2>4 DEF Answered, new
<1>. QED  BY <1>8, <1>9

(* mm_realloc serves one, and the old data is found again. *)
LEMMA ReallocStep ==
    ASSUME IInv, NEW id \in Ids, NEW size \in Sizes, Realloc(id, size)
    PROVE  Answered(id, size, mm_realloc(heap, blocks[id], size))
<1>. DEFINE p == blocks[id]
            new == mm_realloc(heap, p, size)
            need == size + 8
            others == {r \in ranges : r.lo # p}
            range == RangeVerdict(new.mem, others, RangeOf(new.ptr, size))
            judged == IF range = "ok" /\ ~Preserved(new.mem, id, new.ptr, size) THEN "lost" ELSE range
<1>1. p # 0 /\ Answer(id, size, new, others, judged)
  BY DEF Realloc
<1>2. size \in Nat /\ size > 0 /\ size % 4 = 0 /\ need \in Nat /\ need >= size + 8
  BY SizesAre
<1>3. PICK S, U : Served(heap, S, U, blocks, block_sizes)
  BY DEF IInv
<1>4. Whole(heap, S, U) /\ TableOf(S, U, blocks, block_sizes) /\ Filled(heap, blocks, block_sizes)
  BY <1>3 DEF Served
<1>5. p \in U /\ S[p] >= block_sizes[id] + 8 /\ block_sizes[id] \in Nat /\ p \in Nat /\ S[p] \in Nat
  <2>1. p \in U /\ S[p] >= block_sizes[id] + 8 /\ block_sizes[id] \in Sizes
    BY <1>1, <1>4 DEF TableOf
  <2>. QED  BY <1>4, <2>1, SizesAre, PayloadInside
<1>. DEFINE V == U \ {p}
<1>6. /\ new.ptr = 0 => new.mem = heap
      /\ new.ptr # 0 => \E S2 : /\ Given(heap, new, S, S2, V, need)
                                /\ DataKept(heap, new, S[p], p, size)
  <2>. HIDE DEF p
  <2>. QED  BY <1>2, <1>4, <1>5, ReallocWorks
<1>7. Without(V, U, blocks[id])
  BY DEF Without
<1>8. \A r : r \in others <=> Others(blocks, block_sizes, id, r)
  <2>1. \A i \in Ids : i # id /\ blocks[i] # 0 => blocks[i] # p
    BY <1>4 DEF TableOf
  <2>2. \A i \in Ids : RangeOf(blocks[i], block_sizes[i]).lo = blocks[i]
    BY DEF RangeOf
  <2>3. \A r : r \in ranges <=> \E i \in Ids : blocks[i] # 0 /\ r = RangeOf(blocks[i], block_sizes[i])
    BY DEF IInv, Listing
  <2>. QED  BY <2>1, <2>2, <2>3 DEF Others
<1>. HIDE DEF new, need, V, others, range
<1>9. CASE new.ptr = 0
  <2>. HIDE DEF judged, p
  <2>1. Answered(id, size, new)
    BY <1>1, <1>6, <1>9, FailedStep
  <2>. QED  BY <2>1 DEF new, p
<1>10. CASE new.ptr # 0
  <2>1. PICK S2 : /\ Given(heap, new, S, S2, V, need)
                  /\ DataKept(heap, new, S[p], p, size)
    BY <1>6, <1>10
  <2>2. range = "ok" /\ new.ptr \in Nat /\ new.ptr % 8 = 0
    <3>1. AmongOthers(blocks, block_sizes, id, others)
      BY <1>8 DEF AmongOthers
    <3>. QED  BY <1>2, <1>3, <1>7, <2>1, <3>1, VerdictOk DEF range
  <2>3. Preserved(new.mem, id, new.ptr, size)
    <3>. DEFINE n == Min({size, block_sizes[id]})
                q == new.ptr
    <3>1. n \in Nat /\ n <= size /\ n <= block_sizes[id]
      <4>1. n = IF size <= block_sizes[id] THEN size ELSE block_sizes[id]
        BY <1>2, <1>5, MinIs
      <4>. QED  BY <1>2, <1>5, <4>1
    <3>. HIDE DEF n
    <3>2. ASSUME NEW w \in Words(q, q + n) PROVE new.mem[w] = id
      <4>. DEFINE k == w - q
      <4>1. w \in Nat /\ q <= w /\ w < q + n /\ w % 4 = 0
        BY <2>2, <3>1, Places DEF Words
      <4>2. k \in Nat /\ k % 4 = 0 /\ k < size /\ k < block_sizes[id] /\ w = q + k
        BY <1>2, <1>5, <2>2, <3>1, <4>1
      <4>. HIDE DEF k, q
      <4>3. k < S[p] - 8
        BY <1>5, <4>2
      <4>4. new.mem[w] = heap[p + k]
        BY <1>2, <2>1, <4>2, <4>3 DEF q, DataKept
      <4>5. p + k \in Words(p, p + block_sizes[id])
        <5>. HIDE DEF p
        <5>1. p % 8 = 0
          BY <1>4, <1>5, PayloadInside
        <5>2. p \in Nat /\ block_sizes[id] \in Nat /\ k \in Nat /\ k < block_sizes[id]
          BY <1>5, <1>2, <4>2
        <5>3. (p + k) % 4 = 0
          BY <4>2, <5>1, <5>2
        <5>4. WSIZE = 4
          BY Places
        <5>. QED  BY <5>2, <5>3, <5>4 DEF Words
      <4>6. heap[p + k] = id
        BY <1>4, <4>5 DEF Filled
      <4>. QED  BY <4>4, <4>6
    <3>. QED  BY <3>2 DEF Preserved, n
  <2>4. Answer(id, size, new, others, "ok")
    <3>1. judged = "ok"
      BY <2>2, <2>3
    <3>. HIDE DEF judged
    <3>. QED  BY <1>1, <3>1
  <2>. HIDE DEF judged, p
  <2>5. /\ IInv' /\ verdict' = "ok" /\ blocks'[id] = new.ptr /\ mem_brk(heap') = mem_brk(new.mem)
        /\ \E lo \in mem_start_brk .. mem_start_brk + MAX_HEAP - 1 :
                  Abstract!Give(id, [lo |-> lo, size |-> size])
    BY <1>2, <1>3, <1>7, <1>8, <2>1, <2>4, AnswerStep
  <2>. QED  BY <1>10, <2>5 DEF Answered, new, p
<1>. QED  BY <1>9, <1>10

(* mm_free takes one back. *)
LEMMA FreeStep ==
    ASSUME IInv, NEW id \in Ids, Free(id)
    PROVE  IInv' /\ Abstract!Free(id)
<1>. DEFINE bs2 == [blocks EXCEPT ![id] = 0]
            szs2 == [block_sizes EXCEPT ![id] = 0]
<1>1. /\ blocks[id] # 0 /\ blocks' = bs2 /\ block_sizes' = szs2 /\ verdict' = verdict
      /\ ranges' = {r \in ranges : r.lo # blocks[id]}
      /\ heap' = Forget(mm_free(heap, blocks[id]), blocks', block_sizes')
  BY DEF Free
<1>2. PICK S, U : Served(heap, S, U, blocks, block_sizes)
  BY DEF IInv
<1>3. TableOf(S, U, blocks, block_sizes) /\ blocks \in [Ids -> Nat] /\ block_sizes \in [Ids -> Sizes \cup {0}]
  BY <1>2 DEF Served, TableOf
<1>4. \E S2 : Served(heap', S2, U \ {blocks[id]}, blocks', block_sizes')
  <2>1. bs2 = [blocks EXCEPT ![id] = 0] /\ szs2 = [block_sizes EXCEPT ![id] = 0]
    OBVIOUS
  <2>. HIDE DEF bs2, szs2
  <2>2. \E S2 : Served(Forget(mm_free(heap, blocks[id]), bs2, szs2), S2, U \ {blocks[id]}, bs2, szs2)
    BY <1>1, <1>2, <2>1, FreeServed
  <2>. QED  BY <1>1, <2>2
<1>5. /\ bs2[id] = 0 /\ szs2[id] = 0
      /\ \A i \in Ids : i # id => bs2[i] = blocks[i] /\ szs2[i] = block_sizes[i]
  BY <1>3
<1>6. Listing'
  <2>. SUFFICES ASSUME NEW r
                PROVE  r \in ranges' <=> \E i \in Ids : blocks'[i] # 0 /\ r = RangeOf(blocks'[i], block_sizes'[i])
    BY DEF Listing, RangeOf
  <2>. HIDE DEF bs2, szs2
  <2>1. \A i \in Ids : i # id /\ blocks[i] # 0 => blocks[i] # blocks[id]
    BY <1>3 DEF TableOf
  <2>2. \A i \in Ids : RangeOf(blocks[i], block_sizes[i]).lo = blocks[i]
    BY DEF RangeOf
  <2>3. r \in ranges <=> \E i \in Ids : blocks[i] # 0 /\ r = RangeOf(blocks[i], block_sizes[i])
    BY DEF IInv, Listing
  <2>. QED  BY <1>1, <1>5, <2>1, <2>2, <2>3
<1>7. IInv'
  BY <1>1, <1>4, <1>6 DEF IInv
<1>8. Abstract!Free(id)
  <2>. DEFINE e == [i \in Ids |-> [lo |-> blocks[i], size |-> block_sizes[i]]]
  <2>1. e[id] # Abstract!NoExtent
    BY <1>1 DEF Abstract!NoExtent
  <2>2. [i \in Ids |-> [lo |-> blocks'[i], size |-> block_sizes'[i]]] = [e EXCEPT ![id] = Abstract!NoExtent]
    BY <1>1, <1>5 DEF Abstract!NoExtent
  <2>. QED  BY <2>1, <2>2 DEF Abstract!Free
<1>. QED  BY <1>7, <1>8

-----------------------------------------------------------------------------
(* The theorems about every trace.                                         *)

(* Before the first request of a trace. *)
LEMMA Fresh ==
    ASSUME NEW m, m = mm_init, NEW none, none = [id \in Ids |-> 0]
    PROVE  \E S, U : Served(m, S, U, none, none)
<1>1. PICK S : Whole(m, S, {}) /\ FirstBlock < mem_brk(m)
  BY InitWorks
<1>2. TableOf(S, {}, none, none)
  BY DEF TableOf
<1>3. Filled(m, none, none)
  <2>1. \A id \in Ids : Words(none[id], none[id] + none[id]) = {}
    <3>1. Words(0, 0 + 0) = {}
      BY NoWords
    <3>. QED  BY <3>1
  <2>. QED  BY <2>1 DEF Filled
<1>. QED  BY <1>1, <1>2, <1>3 DEF Served

(* A trace starts with the invariant. *)
LEMMA InitHolds == Init => IInv
<1>. SUFFICES ASSUME Init PROVE IInv
  OBVIOUS
<1>1. heap = mm_init /\ blocks = [id \in Ids |-> 0] /\ block_sizes = blocks /\ ranges = {} /\ verdict = "ok"
  BY DEF Init
<1>2. \E S, U : Served(heap, S, U, blocks, block_sizes)
  BY <1>1, Fresh
<1>3. Listing
  BY <1>1 DEF Listing
<1>. QED  BY <1>1, <1>2, <1>3 DEF IInv

(* So does the next one. *)
LEMMA NextTraceStep ==
    ASSUME NextTrace
    PROVE  IInv' /\ Abstract!Reset
<1>1. heap' = mm_init /\ blocks' = [id \in Ids |-> 0] /\ block_sizes' = blocks' /\ ranges' = {} /\ verdict' = "ok"
  BY DEF NextTrace
<1>2. \E S, U : Served(heap', S, U, blocks', block_sizes')
  BY <1>1, Fresh
<1>3. Listing'
  BY <1>1 DEF Listing
<1>4. IInv'
  BY <1>1, <1>2, <1>3 DEF IInv
<1>5. Abstract!Reset
  BY <1>1 DEF Abstract!Reset, Abstract!NoExtent
<1>. QED  BY <1>4, <1>5

(* Every step keeps the invariant and is one of the abstract allocator, or
   leaves the table alone. *)
LEMMA EveryStep ==
    ASSUME IInv, [Next]_vars
    PROVE  IInv' /\ (Abstract!Next \/ UNCHANGED <<blocks, block_sizes>>)
<1>1. ASSUME NEW id \in Ids, NEW size \in Sizes, NEW new, Answered(id, size, new)
      PROVE  IInv' /\ (Abstract!Next \/ UNCHANGED <<blocks, block_sizes>>)
  BY <1>1 DEF Answered, Abstract!Next
<1>2. ASSUME NEW id \in Ids, NEW size \in Sizes, Alloc(id, size)
      PROVE  IInv' /\ (Abstract!Next \/ UNCHANGED <<blocks, block_sizes>>)
  BY <1>1, <1>2, AllocStep
<1>3. ASSUME NEW id \in Ids, NEW size \in Sizes, Realloc(id, size)
      PROVE  IInv' /\ (Abstract!Next \/ UNCHANGED <<blocks, block_sizes>>)
  BY <1>1, <1>3, ReallocStep
<1>4. ASSUME NEW id \in Ids, Free(id)
      PROVE  IInv' /\ (Abstract!Next \/ UNCHANGED <<blocks, block_sizes>>)
  BY <1>4, FreeStep DEF Abstract!Next
<1>5. ASSUME NextTrace
      PROVE  IInv' /\ (Abstract!Next \/ UNCHANGED <<blocks, block_sizes>>)
  BY <1>5, NextTraceStep DEF Abstract!Next
<1>6. ASSUME UNCHANGED vars
      PROVE  IInv' /\ (Abstract!Next \/ UNCHANGED <<blocks, block_sizes>>)
  BY <1>6 DEF vars, IInv, Listing, RangeOf
<1>. QED  BY <1>2, <1>3, <1>4, <1>5, <1>6 DEF Next

(* The invariant holds after every request. *)
THEOREM AlwaysServed == Spec => []IInv
<1>1. IInv /\ [Next]_vars => IInv'
  BY EveryStep
<1>. QED  BY InitHolds, <1>1, PTL DEF Spec

(* DriverSatisfied: whatever the trace, eval_mm_valid finds every payload
   aligned, inside the heap and apart from the others, and the data of a
   resized block where it was: for any number of indices, any sizes, any size
   of the heap and any limit between lists and tree. *)
THEOREM DriverAlwaysSatisfied == Spec => []DriverSatisfied
<1>1. IInv => DriverSatisfied
  BY DEF IInv, DriverSatisfied
<1>. QED  BY <1>1, AlwaysServed, PTL

(* ImplementsAllocator: the package serves every trace as the abstract
   allocator may. *)
THEOREM ServesAsAllocator == Spec => ImplementsAllocator
<1>1. Init => Abstract!Init
  BY DEF Init, Abstract!Init, Abstract!NoExtent
<1>2. IInv /\ [Next]_vars =>
          [Abstract!Next]_([id \in Ids |-> [lo |-> blocks[id], size |-> block_sizes[id]]])
  <2>. SUFFICES ASSUME IInv, [Next]_vars
                PROVE  [Abstract!Next]_([id \in Ids |-> [lo |-> blocks[id], size |-> block_sizes[id]]])
    OBVIOUS
  <2>1. Abstract!Next \/ UNCHANGED <<blocks, block_sizes>>
    BY EveryStep
  <2>. QED  BY <2>1
<1>. QED  BY <1>1, <1>2, AlwaysServed, PTL DEF Spec, ImplementsAllocator, Abstract!Spec

(* add_range in mdriver.c: no byte belongs to two payloads. *)
THEOREM PayloadsDisjoint == Spec => []Abstract!Disjoint
<1>1. IInv => Abstract!Disjoint
  <2>. SUFFICES ASSUME IInv, NEW i \in Ids, NEW j \in Ids, i # j
                PROVE  Abstract!Apart([lo |-> blocks[i], size |-> block_sizes[i]],
                                      [lo |-> blocks[j], size |-> block_sizes[j]])
    BY DEF Abstract!Disjoint
  <2>1. PICK S, U : Served(heap, S, U, blocks, block_sizes)
    BY DEF IInv
  <2>2. Whole(heap, S, U) /\ TableOf(S, U, blocks, block_sizes)
    BY <2>1 DEF Served
  <2>3. /\ blocks[i] \in Nat /\ blocks[j] \in Nat
        /\ blocks[i] = 0 => block_sizes[i] = 0
        /\ blocks[j] = 0 => block_sizes[j] = 0
    BY <2>2 DEF TableOf
  <2>4. CASE blocks[i] # 0 /\ blocks[j] # 0
    <3>. DEFINE b == blocks[i]
                c == blocks[j]
                n == block_sizes[i]
                k == block_sizes[j]
    <3>1. /\ b \in U /\ c \in U /\ b # c /\ n \in Nat /\ k \in Nat
          /\ S[b] >= n + 8 /\ S[c] >= k + 8
      <4>1. /\ b \in U /\ c \in U /\ b # c /\ n \in Sizes /\ k \in Sizes
            /\ S[b] >= n + 8 /\ S[c] >= k + 8
        BY <2>2, <2>4 DEF TableOf
      <4>. QED  BY <4>1, SizesAre
    <3>. HIDE DEF b, c, n, k
    <3>2. S[b] \in Nat /\ S[c] \in Nat
      BY <2>2, <3>1, PayloadInside
    <3>3. n <= S[b] - 8 /\ k <= S[c] - 8
      BY <3>1, <3>2
    <3>4. b + n <= c \/ c + k <= b
      BY <2>2, <3>1, <3>3, PayloadsApart
    <3>. QED  BY <3>4 DEF b, c, n, k, Abstract!Apart
  <2>. QED  BY <2>3, <2>4 DEF Abstract!Apart
<1>. QED  BY <1>1, AlwaysServed, PTL

(* The table of a heap in service is typed. *)
LEMMA ServedTyped == IInv => TypeOK
<1>. SUFFICES ASSUME IInv PROVE TypeOK
  OBVIOUS
<1>1. PICK S, U : Served(heap, S, U, blocks, block_sizes)
  BY DEF IInv
<1>2. Whole(heap, S, U) /\ TableOf(S, U, blocks, block_sizes)
  BY <1>1 DEF Served
<1>3. DOMAIN heap = Words(mem_start_brk, mem_brk(heap)) /\ mem_brk(heap) <= mem_start_brk + MAX_HEAP
  BY <1>2 DEF Whole, HeapOf, InMem, MaxSize
<1>4. blocks \in [Ids -> DOMAIN heap \cup {0}]
  <2>1. blocks \in [Ids -> Nat]
    BY <1>2 DEF TableOf
  <2>2. ASSUME NEW id \in Ids PROVE blocks[id] \in DOMAIN heap \cup {0}
    <3>1. CASE blocks[id] = 0
      BY <3>1
    <3>2. CASE blocks[id] # 0
      <4>. DEFINE b == blocks[id]
      <4>1. b \in U
        BY <1>2, <3>2 DEF TableOf
      <4>. HIDE DEF b
      <4>2. /\ b \in Nat /\ S[b] \in Nat /\ S[b] >= 16
            /\ \A k \in Nat : k % 4 = 0 /\ k < S[b] - 8 => b + k \in DOMAIN heap
        BY <1>2, <4>1, PayloadInside
      <4>3. 0 \in Nat /\ 0 % 4 = 0 /\ 0 < S[b] - 8 /\ b + 0 = b
        BY <4>2
      <4>4. b \in DOMAIN heap
        BY <4>2, <4>3
      <4>. QED  BY <4>4 DEF b
    <3>. QED  BY <3>1, <3>2
  <2>. QED  BY <2>1, <2>2
<1>5. block_sizes \in [Ids -> Sizes \cup {0}]
  BY <1>2 DEF TableOf
<1>6. ranges = {RangeOf(blocks[id], block_sizes[id]) : id \in Allocated}
  <2>1. ASSUME NEW r PROVE r \in ranges <=> r \in {RangeOf(blocks[id], block_sizes[id]) : id \in Allocated}
    BY DEF IInv, Listing, Allocated
  <2>2. \A r \in ranges : r \in {RangeOf(blocks[id], block_sizes[id]) : id \in Allocated}
    BY <2>1
  <2>. QED  BY <2>1, <2>2
<1>7. verdict \in {"ok", "misaligned", "outside", "overlap", "lost", "failed"}
  BY DEF IInv
<1>. QED  BY <1>3, <1>4, <1>5, <1>6, <1>7 DEF TypeOK

(* The payloads are the blocks that are not free. *)
LEMMA ServedTiled == IInv => HeapTiled
<1>. SUFFICES ASSUME IInv PROVE HeapTiled
  OBVIOUS
<1>1. PICK S, U : Served(heap, S, U, blocks, block_sizes)
  BY DEF IInv
<1>2. Whole(heap, S, U) /\ TableOf(S, U, blocks, block_sizes) /\ FirstBlock < mem_brk(heap)
  BY <1>1 DEF Served
<1>3. /\ HeapOf(heap, S, U, DOMAIN S \ U, {}) /\ U \subseteq DOMAIN S
      /\ Blocks(heap) = DOMAIN S /\ FreeBlocks(heap) = DOMAIN S \ U
  BY <1>2, BlocksAre, NoBlockIsNull DEF Whole
<1>4. /\ UNION {Words(HDRP(bp), HDRP(NEXT_BLKP(heap, bp))) : bp \in Blocks(heap)}
             = Words(HDRP(FirstBlock), HDRP(mem_brk(heap)))
      /\ heap[ptr_begin] = DSIZE + 1 /\ heap[mem_brk(heap) - WSIZE] = 1
      /\ \A bp \in Blocks(heap) :
             /\ Size(heap, bp) >= MinBlock /\ Size(heap, bp) % DSIZE = 0
             /\ heap[FTRP(heap, bp)] = heap[HDRP(bp)]
  BY <1>2, BlocksTile
<1>5. Blocks(heap) \ FreeBlocks(heap) = {blocks[id] : id \in Allocated}
  <2>1. Blocks(heap) \ FreeBlocks(heap) = U
    BY <1>3
  <2>2. U = {blocks[id] : id \in Allocated}
    <3>1. ASSUME NEW b \in U PROVE b \in {blocks[id] : id \in Allocated}
      <4>1. PICK id \in Ids : blocks[id] = b
        BY <1>2 DEF TableOf
      <4>2. b # 0
        BY <1>2, NoBlockIsNull
      <4>. QED  BY <4>1, <4>2 DEF Allocated
    <3>2. ASSUME NEW id \in Allocated PROVE blocks[id] \in U
      BY <1>2, <3>2 DEF TableOf, Allocated
    <3>. QED  BY <3>1, <3>2
  <2>. QED  BY <2>1, <2>2
<1>6. ASSUME NEW id \in Allocated PROVE Size(heap, blocks[id]) >= block_sizes[id] + DSIZE
  <2>. DEFINE b == blocks[id]
  <2>1. b \in U /\ S[b] >= block_sizes[id] + 8
    BY <1>2, <1>6 DEF TableOf, Allocated
  <2>. HIDE DEF b
  <2>2. Size(heap, b) = S[b]
    BY <1>3, <2>1, NextIs
  <2>. QED  BY <2>1, <2>2, Places DEF b
<1>. QED  BY <1>4, <1>5, <1>6, ServedTyped DEF HeapTiled

(* No two neighbours are free. *)
LEMMA ServedCoalesced == IInv => Coalesced
<1>. SUFFICES ASSUME IInv PROVE Coalesced
  OBVIOUS
<1>1. PICK S, U : Served(heap, S, U, blocks, block_sizes)
  BY DEF IInv
<1>2. Whole(heap, S, U) /\ FirstBlock < mem_brk(heap)
  BY <1>1 DEF Served
<1>3. /\ HeapOf(heap, S, U, DOMAIN S \ U, {}) /\ Apart(S, DOMAIN S \ U)
      /\ FreeBlocks(heap) = DOMAIN S \ U
  BY <1>2, BlocksAre DEF Whole
<1>4. \A b \in DOMAIN S : NEXT_BLKP(heap, b) = b + S[b]
  BY <1>3, NextIs
<1>. QED  BY <1>3, <1>4 DEF Apart, Coalesced

(* HeapTiled: the tags tile the heap from the prologue to the epilogue, the
   blocks marked allocated are the payloads of the driver's table, each with
   room for its size, and nothing is written outside the heap: for any number
   of indices, any sizes and any size of the heap. *)
THEOREM HeapAlwaysTiled == Spec => []HeapTiled
  BY ServedTiled, AlwaysServed, PTL

(* The type invariant of the driver. *)
THEOREM DriverTypeCorrect == Spec => []TypeOK
  BY ServedTyped, AlwaysServed, PTL

(* Coalesced: a block that becomes free is joined with its free neighbours,
   whichever of them there are. *)
THEOREM AlwaysCoalesced == Spec => []Coalesced
  BY ServedCoalesced, AlwaysServed, PTL

(* A request for more than a free block has room for is given a new one, any
   other the smallest that has. *)
LEMMA BestFitStep == IInv /\ [Next]_vars => BestFit
<1>. SUFFICES ASSUME IInv, NEW id \in Ids, NEW size \in Sizes, Alloc(id, size)
              PROVE  LET need    == ALIGN(size + DSIZE)
                         fitting == {bp \in FreeBlocks(heap) : Size(heap, bp) >= need}
                     IN  IF fitting # {}
                         THEN /\ mem_brk(heap') = mem_brk(heap)
                              /\ blocks'[id] \in fitting
                              /\ \A bp \in fitting : Size(heap, blocks'[id]) <= Size(heap, bp)
                         ELSE (verdict' = "failed") <=> ~CanSbrk(heap, Max({need, CHUNKSIZE}))
  BY DEF BestFit
<1>. DEFINE need == ALIGN(size + DSIZE)
            fitting == {bp \in FreeBlocks(heap) : Size(heap, bp) >= need}
            new == mm_malloc(heap, size)
<1>1. PICK S, U : Served(heap, S, U, blocks, block_sizes)
  BY DEF IInv
<1>2. Whole(heap, S, U) /\ FirstBlock < mem_brk(heap)
  BY <1>1 DEF Served
<1>3. /\ HeapOf(heap, S, U, DOMAIN S \ U, {}) /\ FreeBlocks(heap) = DOMAIN S \ U
      /\ 0 \notin DOMAIN S
  BY <1>2, BlocksAre, NoBlockIsNull DEF Whole
<1>4. size \in Nat /\ size > 0
  BY SizesAre
<1>5. Chosen(heap, new, S, DOMAIN S \ U, need)
  BY <1>2, <1>4, MallocWorks
<1>6. Answered(id, size, new)
  BY AllocStep
<1>7. \A b \in DOMAIN S : Size(heap, b) = S[b]
  BY <1>3, NextIs
<1>8. fitting = {b \in DOMAIN S \ U : S[b] >= need}
  BY <1>3, <1>7
<1>. HIDE DEF need, new, fitting
<1>9. /\ fitting # {} => /\ new.ptr \in fitting /\ mem_brk(new.mem) = mem_brk(heap)
                         /\ \A b \in fitting : S[new.ptr] <= S[b]
      /\ fitting = {} => (new.ptr = 0 <=> ~CanSbrk(heap, Max({need, CHUNKSIZE})))
  BY <1>5, <1>8 DEF Chosen
<1>10. \A b \in fitting : b \in DOMAIN S /\ b # 0
  BY <1>3, <1>8
<1>11. CASE fitting # {}
  <2>1. new.ptr \in fitting /\ new.ptr # 0
    BY <1>9, <1>10, <1>11
  <2>2. blocks'[id] = new.ptr /\ mem_brk(heap') = mem_brk(heap)
    BY <1>6, <1>9, <1>11, <2>1 DEF Answered
  <2>3. \A b \in fitting : Size(heap, new.ptr) <= Size(heap, b)
    BY <1>7, <1>9, <1>10, <1>11, <2>1
  <2>. QED  BY <1>11, <2>1, <2>2, <2>3 DEF fitting, need
<1>12. CASE fitting = {}
  <2>1. verdict' = "failed" <=> new.ptr = 0
    BY <1>6 DEF Answered
  <2>. QED  BY <1>9, <1>12, <2>1 DEF fitting, need
<1>. QED  BY <1>11, <1>12

(* FitsBest: findfit gives a request the smallest free block that is large
   enough, wherever it is listed; the heap grows only if there is none. *)
THEOREM FitsBestAlways == Spec => FitsBest
<1>1. IInv /\ [Next]_vars => [BestFit]_vars
  BY BestFitStep
<1>. QED  BY <1>1, AlwaysServed, PTL DEF Spec, FitsBest

-----------------------------------------------------------------------------
(* The lists and the tree as ListsExact walks them.                         *)

(* what collects the blocks behind each block of a list *)
Behind(f, m) == \A b \in DOMAIN m : f[b] = {b} \cup (IF m[b] \in DOMAIN m THEN f[m[b]] ELSE {})

(* OnList follows the links. *)
LEMMA OnListSteps ==
    \E f : /\ \A w : OnList(w) = IF heap[w] = 0 THEN {} ELSE f[heap[w]]
           /\ Behind(f, heap)
<1>. DEFINE m == heap
            next == [b \in DOMAIN m |-> {m[b]} \cap DOMAIN m]
            P(f) == f = [b \in DOMAIN m |-> {b} \cup (IF m[b] \in DOMAIN m THEN f[m[b]] ELSE {})]
            g == CHOOSE f : P(f)
<1>1. \E f : P(f)
  <2>1. next \in [DOMAIN m -> SUBSET DOMAIN m]
    OBVIOUS
  <2>2. PICK f : Collects(f, DOMAIN m, next)
    <3>. HIDE DEF next
    <3>. QED  BY <2>1, CollectingExists
  <2>3. ASSUME NEW b \in DOMAIN m
        PROVE  {b} \cup UNION {f[y] : y \in next[b]} = {b} \cup (IF m[b] \in DOMAIN m THEN f[m[b]] ELSE {})
    <3>1. CASE m[b] \in DOMAIN m
      <4>1. next[b] = {m[b]}
        BY <3>1
      <4>. HIDE DEF next
      <4>. QED  BY <3>1, <4>1
    <3>2. CASE m[b] \notin DOMAIN m
      <4>1. next[b] = {}
        BY <3>2
      <4>. HIDE DEF next
      <4>. QED  BY <3>2, <4>1
    <3>. QED  BY <3>1, <3>2
  <2>4. f = [b \in DOMAIN m |-> {b} \cup UNION {f[y] : y \in next[b]}]
    BY <2>2 DEF Collects
  <2>5. P(f)
    <3>. HIDE DEF next
    <3>. QED  BY <2>3, <2>4
  <2>. QED  BY <2>5
<1>2. P(g)
  <2>. HIDE DEF P
  <2>. QED  BY <1>1
<1>3. \A w : OnList(w) = IF m[w] = 0 THEN {} ELSE g[m[w]]
  BY DEF OnList, PTR_NEXT_PTR
<1>. HIDE DEF g
<1>4. Behind(g, m)
  BY <1>2 DEF Behind
<1>. QED  BY <1>3, <1>4

(* What is behind a listed block is listed, has its size, and includes the next
   one of each. *)
LEMMA BehindIsListed ==
    ASSUME NEW m, NEW S, NEW G, NEW F \in SUBSET G, Laid(m, S, G), Chained(m, S, F),
           NEW pos, NEW n, Ordered(m, F, pos, n), NEW f, Behind(f, m)
    PROVE  \A h \in F : /\ h \in f[h]
                        /\ \A c \in f[h] : c \in F /\ S[c] = S[h] /\ (m[c] # 0 => m[c] \in f[h])
<1>. DEFINE Good(h) == \A c \in f[h] : c \in F /\ S[c] = S[h] /\ (m[c] # 0 => m[c] \in f[h])
            Bad == {b \in F : ~Good(b)}
            Ranks == {n - pos[b] : b \in Bad}
<1>1. \A b \in DOMAIN m : f[b] = {b} \cup (IF m[b] \in DOMAIN m THEN f[m[b]] ELSE {})
  BY DEF Behind
<1>2. F \subseteq DOMAIN m /\ 0 \notin DOMAIN m
  BY DEF Laid
<1>3. \A b \in F : pos[b] \in 0 .. n /\ n \in Nat
  BY DEF Ordered
<1>4. \A b \in F : b \in f[b]
  BY <1>1, <1>2
<1>5. \A b \in F : m[b] \in F \cup {0} /\ (m[b] # 0 => m[b] \in F /\ S[m[b]] = S[b] /\ pos[b] < pos[m[b]])
  BY DEF Chained, Ordered
<1>6. Bad = {}
  <2>. SUFFICES ASSUME Bad # {} PROVE FALSE
    OBVIOUS
  <2>0. \A b \in Bad : b \in F /\ ~Good(b)
    OBVIOUS
  <2>1. Ranks # {} /\ Ranks \in SUBSET Nat
    BY <1>3, <2>0
  <2>2. PICK r \in Ranks : \A q \in Ranks : r <= q
    BY <2>1, LeastNatural
  <2>3. PICK b \in Bad : r = n - pos[b]
    OBVIOUS
  <2>4. ASSUME NEW c \in Bad PROVE pos[c] <= pos[b]
    <3>1. n - pos[c] \in Ranks
      BY <2>4
    <3>2. n - pos[b] <= n - pos[c]
      BY <2>2, <2>3, <3>1
    <3>3. n \in Nat /\ pos[b] \in Nat /\ pos[c] \in Nat
      BY <1>3, <2>0, <2>4
    <3>. QED  BY <3>2, <3>3
  <2>5. CASE m[b] = 0
    <3>1. f[b] = {b}
      BY <1>1, <1>2, <2>0, <2>5
    <3>. QED  BY <2>0, <2>5, <3>1
  <2>6. CASE m[b] # 0
    <3>. DEFINE d == m[b]
    <3>1. b \in F /\ d \in F /\ S[d] = S[b] /\ pos[b] < pos[d]
      BY <1>5, <2>0, <2>6
    <3>. HIDE DEF Bad
    <3>2. d \notin Bad
      BY <1>3, <2>4, <3>1
    <3>3. Good(d)
      BY <3>1, <3>2 DEF Bad
    <3>4. f[b] = {b} \cup f[d]
      BY <1>1, <1>2, <3>1
    <3>. HIDE DEF d
    <3>5. d \in f[d] /\ m[b] = d
      BY <1>4, <3>1 DEF d
    <3>6. Good(b)
      BY <3>1, <3>3, <3>4, <3>5
    <3>. QED  BY <2>0, <3>6
  <2>. QED  BY <2>5, <2>6
<1>. QED  BY <1>4, <1>6

(* Every listed block is behind the first one of its size. *)
LEMMA FirstLeads ==
    ASSUME NEW m, NEW S, NEW G, NEW F \in SUBSET G, Laid(m, S, G), Listed(m, S, F), NEW f, Behind(f, m),
           NEW b \in F
    PROVE  LET h == m[ListWord(m, S[b])] IN h # 0 /\ h \in F /\ S[h] = S[b] /\ b \in f[h]
<1>1. PICK pos, n : Ordered(m, F, pos, n)
  BY DEF Listed
<1>2. Chained(m, S, F)
  BY DEF Listed
<1>. DEFINE head(x) == m[ListWord(m, S[x])]
            Good(x) == head(x) # 0 /\ head(x) \in F /\ S[head(x)] = S[x] /\ x \in f[head(x)]
            Bad == {x \in F : ~Good(x)}
            Ranks == {pos[x] : x \in Bad}
<1>3. ASSUME NEW x \in F
      PROVE  /\ head(x) # 0 => head(x) \in F /\ S[head(x)] = S[x] /\ m[head(x) + 4] = 0
             /\ \A c \in F : S[c] = S[x] /\ m[c + 4] = 0 => head(x) = c
  <2>1. x \in G
    OBVIOUS
  <2>. QED  BY <2>1, ListStarts
<1>4. \A x \in F : pos[x] \in Nat
  BY <1>1 DEF Ordered
<1>5. \A h \in F : h \in f[h] /\ \A c \in f[h] : m[c] # 0 => m[c] \in f[h]
  BY <1>1, <1>2, BehindIsListed
<1>6. 0 \notin F
  BY DEF Laid
<1>7. \A x, y \in F : S[x] = S[y] => head(x) = head(y)
  OBVIOUS
<1>. HIDE DEF head
<1>8. Bad = {}
  <2>. SUFFICES ASSUME Bad # {} PROVE FALSE
    OBVIOUS
  <2>0. \A x \in Bad : x \in F /\ ~Good(x)
    OBVIOUS
  <2>1. Ranks # {} /\ Ranks \in SUBSET Nat
    BY <1>4, <2>0
  <2>2. PICK r \in Ranks : \A q \in Ranks : r <= q
    BY <2>1, LeastNatural
  <2>3. PICK x \in Bad : r = pos[x]
    OBVIOUS
  <2>4. \A c \in Bad : pos[x] <= pos[c]
    BY <2>2, <2>3
  <2>5. CASE m[x + 4] = 0
    <3>1. head(x) = x
      BY <1>3, <2>0, <2>5
    <3>. QED  BY <1>5, <1>6, <2>0, <3>1
  <2>6. CASE m[x + 4] # 0
    <3>. DEFINE p == m[x + 4]
    <3>1. p \in F /\ m[p] = x
      BY <1>2, <2>0, <2>6 DEF Chained
    <3>2. S[x] = S[p] /\ pos[p] < pos[x] /\ m[p] # 0
      BY <1>1, <1>2, <1>6, <2>0, <3>1 DEF Chained, Ordered
    <3>. HIDE DEF p, Bad
    <3>3. p \notin Bad
      BY <1>4, <2>0, <2>4, <3>1, <3>2
    <3>4. Good(p)
      BY <3>1, <3>3 DEF Bad
    <3>5. head(x) = head(p)
      BY <1>7, <2>0, <3>1, <3>2
    <3>6. x \in f[head(p)]
      BY <1>5, <3>1, <3>2, <3>4
    <3>7. Good(x)
      BY <3>2, <3>4, <3>5, <3>6
    <3>. QED  BY <2>0, <3>7
  <2>. QED  BY <2>5, <2>6
<1>9. Good(b)
  BY <1>8
<1>. QED  BY <1>9 DEF head

(* what collects the words of the tree below each of its words *)
SidesOf(m, w) == IF m[w] \in DOMAIN m THEN {m[w] + 8, m[w] + 12} \cap DOMAIN m ELSE {}
Below(g, m) == \A w \in DOMAIN m : g[w] = {w} \cup UNION {g[v] : v \in SidesOf(m, w)}

(* TreeWords goes down the tree. *)
LEMMA TreeWordsSteps == \E g : TreeWords = g[ptr_big] /\ Below(g, heap)
<1>. DEFINE m == heap
            next == [w \in DOMAIN m |-> SidesOf(m, w)]
            P(f) == f = [w \in DOMAIN m |-> {w} \cup UNION {f[side] : side \in SidesOf(m, w)}]
            g == CHOOSE f : P(f)
<1>1. \E f : P(f)
  <2>1. next \in [DOMAIN m -> SUBSET DOMAIN m]
    BY DEF SidesOf
  <2>2. PICK f : Collects(f, DOMAIN m, next)
    <3>. HIDE DEF next
    <3>. QED  BY <2>1, CollectingExists
  <2>3. f = [w \in DOMAIN m |-> {w} \cup UNION {f[y] : y \in next[w]}]
    BY <2>2 DEF Collects
  <2>4. \A w \in DOMAIN m : next[w] = SidesOf(m, w)
    OBVIOUS
  <2>. HIDE DEF next
  <2>5. P(f)
    BY <2>3, <2>4
  <2>. QED  BY <2>5
<1>2. P(g)
  <2>. HIDE DEF P
  <2>. QED  BY <1>1
<1>3. TreeWords = g[ptr_big]
  BY Pointers DEF TreeWords, SidesOf
<1>. HIDE DEF g
<1>4. Below(g, m)
  BY <1>2 DEF Below
<1>. QED  BY <1>3, <1>4

(* The words below the root are those of the tree. *)
LEMMA TreeWordsAre ==
    ASSUME NEW m, NEW S, NEW G, NEW N \in SUBSET G, Laid(m, S, G), AllBig(S, N),
           NEW lo, NEW hi, Tree(m, S, N, lo, hi), NEW g, Below(g, m)
    PROVE  \A v : v \in g[ptr_big] <=> TreeWord(N, v)
<1>1. \A w \in DOMAIN m : g[w] = {w} \cup UNION {g[v] : v \in SidesOf(m, w)}
  BY DEF Below
<1>2. \A w : TreeWord(N, w) => w \in DOMAIN m /\ m[w] \in N \cup {0}
  <2>1. \A w : TreeWord(N, w) => w \in DOMAIN m
    BY TreeWordsInMemory
  <2>. QED  BY <2>1 DEF TreeWord, Tree, Rooted, Branched
<1>3. 0 \notin DOMAIN m /\ N \subseteq DOMAIN m
  BY DEF Laid
<1>4. \A w : TreeWord(N, w) /\ m[w] = 0 => g[w] = {w}
  <2>. SUFFICES ASSUME NEW w, TreeWord(N, w), m[w] = 0 PROVE g[w] = {w}
    OBVIOUS
  <2>1. SidesOf(m, w) = {}
    BY <1>3 DEF SidesOf
  <2>. QED  BY <1>1, <1>2, <2>1
<1>5. \A w : TreeWord(N, w) /\ m[w] \in N => g[w] = {w} \cup g[m[w] + 8] \cup g[m[w] + 12]
  <2>. SUFFICES ASSUME NEW w, TreeWord(N, w), m[w] \in N
                PROVE  g[w] = {w} \cup g[m[w] + 8] \cup g[m[w] + 12]
    OBVIOUS
  <2>1. SidesOf(m, w) = {m[w] + 8, m[w] + 12}
    BY <1>3 DEF SidesOf, Laid, AllBig
  <2>2. w \in DOMAIN m
    BY <1>2
  <2>3. g[w] = {w} \cup UNION {g[v] : v \in {m[w] + 8, m[w] + 12}}
    BY <1>1, <2>1, <2>2
  <2>. QED  BY <2>3
<1>6. /\ MaxSize \in Nat
      /\ \A n \in N : /\ lo[n] \in Int /\ hi[n] \in Int /\ S[n] \in Int
                      /\ 0 <= lo[n] /\ lo[n] < S[n] /\ S[n] < hi[n] /\ hi[n] <= MaxSize
  <2>1. /\ MaxSize \in Nat
        /\ \A n \in N : /\ lo[n] \in Int /\ hi[n] \in Int
                        /\ 0 <= lo[n] /\ lo[n] < S[n] /\ S[n] < hi[n] /\ hi[n] <= MaxSize
        /\ \A b \in G : S[b] \in Nat
    BY BoundsOrder
  <2>. QED  BY <2>1
<1>7. \A n \in N : \A v \in {n + 8, n + 12} :
          /\ TreeWord(N, v) /\ m[v] \in N \cup {0}
          /\ m[v] \in N => hi[m[v]] - lo[m[v]] < hi[n] - lo[n]
  <2>. SUFFICES ASSUME NEW n \in N, NEW v \in {n + 8, n + 12}
                PROVE  /\ TreeWord(N, v) /\ m[v] \in N \cup {0}
                       /\ m[v] \in N => hi[m[v]] - lo[m[v]] < hi[n] - lo[n]
    OBVIOUS
  <2>1. TreeWord(N, v)
    BY DEF TreeWord
  <2>2. m[v] \in N => \/ lo[m[v]] = lo[n] /\ hi[m[v]] = S[n]
                      \/ lo[m[v]] = S[n] /\ hi[m[v]] = hi[n]
    <3>1. 0 \notin N
      BY <1>3
    <3>. QED  BY <3>1 DEF Tree, Branched
  <2>. QED  BY <1>2, <1>6, <2>1, <2>2
(* all below a word of the tree are its words, and closed downwards *)
<1>. DEFINE Good(w) == \A v \in g[w] : TreeWord(N, v) /\ (m[v] \in N => m[v] + 8 \in g[w] /\ m[v] + 12 \in g[w])
            Bad == {n \in N : \E w : TreeWord(N, w) /\ m[w] = n /\ ~Good(w)}
            Ranks == {hi[n] - lo[n] : n \in Bad}
<1>8. \A w : TreeWord(N, w) => w \in g[w]
  BY <1>1, <1>2
<1>9. \A w : TreeWord(N, w) /\ m[w] = 0 => Good(w)
  <2>. SUFFICES ASSUME NEW w, TreeWord(N, w), m[w] = 0 PROVE Good(w)
    OBVIOUS
  <2>1. g[w] = {w}
    BY <1>4
  <2>. QED  BY <1>3, <2>1
<1>10. Bad = {}
  <2>. SUFFICES ASSUME Bad # {} PROVE FALSE
    OBVIOUS
  <2>0. \A n \in Bad : n \in N
    OBVIOUS
  <2>1. Ranks \in SUBSET Nat /\ Ranks # {}
    BY <1>6, <2>0
  <2>2. PICK r \in Ranks : \A q \in Ranks : r <= q
    BY <2>1, LeastNatural
  <2>3. PICK n \in Bad : r = hi[n] - lo[n]
    OBVIOUS
  <2>4. \A k \in Bad : hi[n] - lo[n] <= hi[k] - lo[k]
    BY <2>2, <2>3
  <2>5. PICK w : TreeWord(N, w) /\ m[w] = n /\ ~Good(w)
    OBVIOUS
  <2>6. ASSUME NEW v \in {n + 8, n + 12} PROVE Good(v) /\ TreeWord(N, v)
    <3>1. TreeWord(N, v) /\ m[v] \in N \cup {0}
      BY <1>7, <2>0
    <3>2. CASE m[v] = 0
      BY <1>9, <3>1, <3>2
    <3>3. CASE m[v] \in N
      <4>1. hi[m[v]] - lo[m[v]] < hi[n] - lo[n]
        BY <1>7, <2>0, <3>3
      <4>2. m[v] \notin Bad
        <5>1. /\ lo[n] \in Int /\ hi[n] \in Int /\ lo[m[v]] \in Int /\ hi[m[v]] \in Int
          BY <1>6, <2>0, <3>3
        <5>. HIDE DEF Bad
        <5>. QED  BY <2>4, <4>1, <5>1
      <4>. QED  BY <3>1, <3>3, <4>2
    <3>. QED  BY <3>1, <3>2, <3>3
  <2>7. g[w] = {w} \cup g[n + 8] \cup g[n + 12]
    BY <1>5, <2>0, <2>5
  <2>8. n + 8 \in g[n + 8] /\ n + 12 \in g[n + 12]
    BY <1>8, <2>6
  <2>9. ASSUME NEW v \in g[w]
        PROVE  TreeWord(N, v) /\ (m[v] \in N => m[v] + 8 \in g[w] /\ m[v] + 12 \in g[w])
    <3>1. CASE v = w
      BY <2>5, <2>7, <2>8, <3>1
    <3>2. CASE v \in g[n + 8]
      BY <2>6, <2>7, <3>2
    <3>3. CASE v \in g[n + 12]
      BY <2>6, <2>7, <3>3
    <3>. QED  BY <2>7, <3>1, <3>2, <3>3
  <2>. QED  BY <2>5, <2>9
<1>11. TreeWord(N, ptr_big) /\ ptr_big \in g[ptr_big]
  <2>1. TreeWord(N, ptr_big)
    BY DEF TreeWord
  <2>. QED  BY <1>8, <2>1
<1>12. Good(ptr_big)
  BY <1>2, <1>9, <1>10, <1>11
(* every node is held by one of them *)
<1>. DEFINE Found(n) == \E u \in g[ptr_big] : m[u] = n
            Lost == {n \in N : ~Found(n)}
            Heights == {MaxSize - (hi[n] - lo[n]) : n \in Lost}
<1>13. Lost = {}
  <2>. SUFFICES ASSUME Lost # {} PROVE FALSE
    OBVIOUS
  <2>0. \A n \in Lost : n \in N /\ ~Found(n)
    OBVIOUS
  <2>1. Heights \in SUBSET Nat /\ Heights # {}
    BY <1>6, <2>0
  <2>2. PICK r \in Heights : \A q \in Heights : r <= q
    BY <2>1, LeastNatural
  <2>3. PICK n \in Lost : r = MaxSize - (hi[n] - lo[n])
    OBVIOUS
  <2>4. m[ptr_big] # n
    BY <1>11, <2>0
  <2>10. PICK p \in N : m[p + 8] = n \/ m[p + 12] = n
    BY <2>0, <2>4 DEF Tree, Held
  <2>5. PICK v \in {p + 8, p + 12} : m[v] = n
    BY <2>10
  <2>6. hi[n] - lo[n] < hi[p] - lo[p]
    BY <1>7, <2>0, <2>5
  <2>7. p \notin Lost
    <3>. SUFFICES ASSUME p \in Lost PROVE FALSE
      OBVIOUS
    <3>1. MaxSize - (hi[p] - lo[p]) \in Heights
      OBVIOUS
    <3>2. MaxSize - (hi[n] - lo[n]) <= MaxSize - (hi[p] - lo[p])
      BY <2>2, <2>3, <3>1
    <3>3. lo[n] \in Int /\ hi[n] \in Int /\ lo[p] \in Int /\ hi[p] \in Int /\ MaxSize \in Int
      BY <1>6, <2>0
    <3>. QED  BY <2>6, <3>2, <3>3
  <2>8. PICK u \in g[ptr_big] : m[u] = p
    BY <2>7
  <2>9. v \in g[ptr_big]
    BY <1>12, <2>5, <2>8
  <2>. QED  BY <2>0, <2>5, <2>9
<1>14. ASSUME NEW v, TreeWord(N, v) PROVE v \in g[ptr_big]
  <2>1. CASE v = ptr_big
    BY <1>11, <2>1
  <2>2. CASE \E p \in N : v \in {p + 8, p + 12}
    <3>1. PICK p \in N : v \in {p + 8, p + 12}
      BY <2>2
    <3>2. PICK u \in g[ptr_big] : m[u] = p
      BY <1>13
    <3>. QED  BY <1>12, <3>1, <3>2
  <2>. QED  BY <1>14, <2>1, <2>2 DEF TreeWord
<1>. QED  BY <1>12, <1>14

(* The words from which a list starts. *)
StartWord(N, w) == w \in SmallWords \/ TreeWord(N, w)

(* The lists for small sizes. *)
LEMMA SmallWordsAre == \A w : w \in SmallWords <=> \E s : IsSmall(s) /\ w = PTR_LIST(s)
<1>1. ASSUME NEW s PROVE s \in {n \in MinBlock .. SmallMax : n % DSIZE = 0} <=> IsSmall(s)
  BY Places DEF IsSmall, MinBlock
<1>. QED  BY <1>1 DEF SmallWords

(* What a list starts with is listed, has nothing before it, and the list is the
   one of its size. *)
LEMMA StartsWith ==
    ASSUME NEW m, NEW S, NEW G, NEW F \in SUBSET G, Laid(m, S, G), Listed(m, S, F),
           NEW w, StartWord(Nodes(m, S, F), w), m[w] # 0
    PROVE  /\ m[w] \in F /\ m[m[w] + 4] = 0 /\ w = ListWord(m, S[m[w]])
           /\ w \in SmallWords <=> ~Big(S[m[w]])
<1>. DEFINE N == Nodes(m, S, F)
            h == m[w]
<1>1. N \in SUBSET G /\ AllBig(S, N) /\ \A n \in N : n \in F /\ m[n + 4] = 0 /\ Big(S[n])
  BY DEF Nodes, AllBig
<1>2. PICK lo, hi : Tree(m, S, N, lo, hi)
  BY DEF Listed
<1>3. CASE w \in SmallWords
  <2>1. PICK s : IsSmall(s) /\ w = PTR_LIST(s)
    BY <1>3, SmallWordsAre
  <2>2. h \in F /\ S[h] = s /\ m[h + 4] = 0
    BY <2>1 DEF Listed, Headed
  <2>3. ~Big(s)
    BY <2>1, LinkWords
  <2>. QED  BY <1>3, <2>1, <2>2, <2>3 DEF ListWord
<1>4. CASE TreeWord(N, w)
  <2>1. h \in N
    BY <1>2, <1>4 DEF TreeWord, Tree, Rooted, Branched
  <2>2. \A v : TreeWord(N, v) /\ m[v] \in N => v = Slot(m, S[m[v]])
    <3>. HIDE DEF N
    <3>. QED  BY <1>1, <1>2, NodesApart
  <2>3. w = Slot(m, S[h])
    BY <1>4, <2>1, <2>2
  <2>. HIDE DEF N
  <2>4. h \in F /\ m[h + 4] = 0 /\ Big(S[h])
    BY <1>1, <2>1
  <2>5. w \notin SmallWords
    <3>. SUFFICES ASSUME w \in SmallWords PROVE FALSE
      OBVIOUS
    <3>1. PICK s : IsSmall(s) /\ w = PTR_LIST(s)
      BY SmallWordsAre
    <3>2. S[h] = s /\ ~Big(s)
      BY <3>1, LinkWords DEF Listed, Headed
    <3>. QED  BY <2>4, <3>2
  <2>. QED  BY <2>3, <2>4, <2>5 DEF ListWord
<1>. QED  BY <1>3, <1>4 DEF StartWord

(* The list of a block that is listed starts somewhere. *)
LEMMA ListBegins ==
    ASSUME NEW m, NEW S, NEW G, NEW F \in SUBSET G, Laid(m, S, G), Listed(m, S, F),
           NEW b \in F, m[ListWord(m, S[b])] # 0
    PROVE  StartWord(Nodes(m, S, F), ListWord(m, S[b]))
<1>. DEFINE N == Nodes(m, S, F)
            h == m[ListWord(m, S[b])]
<1>1. CASE ~Big(S[b])
  <2>1. IsSmall(S[b])
    BY <1>1, LinkWords
  <2>. QED  BY <1>1, <2>1, SmallWordsAre DEF ListWord, StartWord
<1>2. CASE Big(S[b])
  <2>1. h \in F /\ S[h] = S[b] /\ m[h + 4] = 0
    BY ListStarts
  <2>2. h \in N
    BY <1>2, <2>1 DEF Nodes
  <2>3. N \in SUBSET G /\ AllBig(S, N)
    BY DEF Nodes, AllBig
  <2>4. PICK lo, hi : Tree(m, S, N, lo, hi)
    BY DEF Listed
  <2>5. \A n \in N : TreeWord(N, Slot(m, S[n]))
    <3>. HIDE DEF N
    <3>. QED  BY <2>3, <2>4, NodesApart
  <2>6. TreeWord(N, Slot(m, S[h]))
    BY <2>2, <2>5
  <2>. QED  BY <1>2, <2>1, <2>6 DEF ListWord, StartWord
<1>. QED  BY <1>1, <1>2

(* The lists and the tree hold the free blocks, each once. *)
LEMMA ServedListed == IInv => ListsExact
<1>. SUFFICES ASSUME IInv PROVE ListsExact
  OBVIOUS
<1>. DEFINE m == heap
<1>1. PICK S, U : Served(heap, S, U, blocks, block_sizes)
  BY DEF IInv
<1>2. Whole(heap, S, U) /\ FirstBlock < mem_brk(heap)
  BY <1>1 DEF Served
<1>. DEFINE F == DOMAIN S \ U
            G == DOMAIN S
            N == Nodes(heap, S, F)
<1>3. HeapOf(heap, S, U, F, {}) /\ FreeBlocks(heap) = F
  BY <1>2, BlocksAre, NoBlockIsNull DEF Whole
<1>4. Laid(heap, S, G) /\ Listed(heap, S, F) /\ F \in SUBSET G /\ 0 \notin F
  <2>1. Laid(heap, S, DOMAIN S \ {})
    BY <1>3, HeapFacts
  <2>2. DOMAIN S \ {} = DOMAIN S
    OBVIOUS
  <2>3. 0 \notin DOMAIN S
    BY <1>2, NoBlockIsNull
  <2>. QED  BY <1>3, <2>1, <2>2, <2>3 DEF HeapOf
<1>5. \A b \in F : Size(heap, b) = S[b]
  BY <1>3, NextIs
<1>. HIDE DEF F, G
<1>6. PICK f : (\A w : OnList(w) = IF heap[w] = 0 THEN {} ELSE f[heap[w]]) /\ Behind(f, heap)
  BY OnListSteps
<1>7. Chained(heap, S, F) /\ \E pos, n : Ordered(heap, F, pos, n)
  BY <1>4 DEF Listed
<1>8. \A h \in F : /\ h \in f[h]
                   /\ \A c \in f[h] : c \in F /\ S[c] = S[h] /\ (heap[c] # 0 => heap[c] \in f[h])
  BY <1>4, <1>6, <1>7, BehindIsListed
<1>9. \A w : w \in TreeWords <=> TreeWord(N, w)
  <2>1. PICK g : TreeWords = g[ptr_big] /\ Below(g, heap)
    BY TreeWordsSteps
  <2>2. N \in SUBSET G /\ AllBig(S, N)
    BY <1>4 DEF Nodes, AllBig
  <2>3. PICK lo, hi : Tree(heap, S, N, lo, hi)
    BY <1>4 DEF Listed
  <2>. HIDE DEF N
  <2>4. \A v : v \in g[ptr_big] <=> TreeWord(N, v)
    BY <1>4, <2>1, <2>2, <2>3, TreeWordsAre
  <2>. QED  BY <2>1, <2>4
<1>. DEFINE W == SmallWords \cup TreeWords
<1>10. \A w : w \in W <=> StartWord(N, w)
  BY <1>9 DEF StartWord
<1>11. ASSUME NEW w \in W, NEW b \in OnList(w)
       PROVE  /\ b \in F /\ heap[w] # 0 /\ heap[w] \in F /\ S[b] = S[heap[w]]
              /\ w = ListWord(heap, S[b]) /\ heap[heap[w] + 4] = 0
              /\ w \in SmallWords <=> ~Big(S[b])
              /\ heap[b] # 0 => heap[b] \in OnList(w) /\ heap[heap[b] + 4] = b
  <2>1. heap[w] # 0 /\ b \in f[heap[w]] /\ OnList(w) = f[heap[w]]
    BY <1>6, <1>11
  <2>2. StartWord(N, w)
    BY <1>10
  <2>3. /\ heap[w] \in F /\ heap[heap[w] + 4] = 0 /\ w = ListWord(heap, S[heap[w]])
        /\ w \in SmallWords <=> ~Big(S[heap[w]])
    BY <1>4, <2>1, <2>2, StartsWith
  <2>4. b \in F /\ S[b] = S[heap[w]] /\ (heap[b] # 0 => heap[b] \in OnList(w))
    BY <1>8, <2>1, <2>3
  <2>5. heap[b] # 0 => heap[heap[b] + 4] = b
    BY <1>7, <2>4 DEF Chained
  <2>. QED  BY <2>1, <2>3, <2>4, <2>5
<1>12. UNION {OnList(w) : w \in W} = FreeBlocks(heap)
  <2>1. ASSUME NEW b \in F PROVE \E w \in W : b \in OnList(w)
    <3>. DEFINE w == ListWord(heap, S[b])
    <3>1. heap[w] # 0 /\ b \in f[heap[w]]
      BY <1>4, <1>6, FirstLeads
    <3>2. StartWord(N, w)
      BY <1>4, <3>1, ListBegins
    <3>. HIDE DEF w
    <3>. QED  BY <1>6, <1>10, <3>1, <3>2
  <2>. HIDE DEF W
  <2>. QED  BY <1>3, <1>11, <2>1 DEF F
<1>13. \A w, v \in W : w # v => OnList(w) \cap OnList(v) = {}
  <2>. HIDE DEF W
  <2>. QED  BY <1>11
<1>14. ASSUME NEW w \in W PROVE DoublyLinked(w)
  <2>1. heap[w] # 0 => heap[heap[w] + 4] = 0
    BY <1>4, <1>10, StartsWith
  <2>2. \A b \in OnList(w) : heap[b] # 0 => heap[b] \in OnList(w) /\ heap[heap[b] + 4] = b
    BY <1>11
  <2>. QED  BY <2>1, <2>2, Pointers DEF DoublyLinked
<1>15. ASSUME NEW w \in SmallWords, NEW b \in OnList(w)
       PROVE  PTR_LIST(Size(heap, b)) = w /\ ~Big(Size(heap, b))
  <2>1. w \in W
    OBVIOUS
  <2>2. b \in F /\ w = ListWord(heap, S[b]) /\ ~Big(S[b])
    BY <1>11, <2>1
  <2>. QED  BY <1>5, <2>2 DEF ListWord, F
<1>16. ASSUME NEW w \in TreeWords, NEW b \in OnList(w)
       PROVE  Slot(heap, Size(heap, b)) = w /\ Big(Size(heap, b))
  <2>1. w \in W
    OBVIOUS
  <2>2. b \in F /\ w = ListWord(heap, S[b]) /\ (w \in SmallWords <=> ~Big(S[b])) /\ heap[w] # 0 /\ S[b] = S[heap[w]]
    BY <1>11, <2>1
  <2>3. Big(S[b])
    <3>1. heap[w] \in N
      BY <1>4, <1>9, <2>2 DEF TreeWord, Listed, Tree, Rooted, Branched
    <3>. QED  BY <2>2, <3>1 DEF Nodes
  <2>. QED  BY <1>5, <2>2, <2>3 DEF ListWord, F
<1>. QED  BY <1>12, <1>13, <1>14, <1>15, <1>16 DEF ListsExact

(* ListsExact: the lists by size and the tree of larger sizes hold the free
   blocks, each on one list, doubly linked, and the search of the tree finds
   the list of every size: whatever requests are made. *)
THEOREM ListsAlwaysExact == Spec => []ListsExact
  BY ServedListed, AlwaysServed, PTL
=============================================================================
