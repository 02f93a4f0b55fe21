----------------------------- MODULE SbufProofs -----------------------------
(***************************************************************************)
(* Theorems about the buffer, for any capacity and any finite sets of      *)
(* threads: its state is well typed, one thread at a time is between       *)
(* P(mutex) and V(mutex), no slot is lost or counted twice, and the buffer *)
(* implements the queue of Fifo.                                           *)
(***************************************************************************)
EXTENDS Sbuf, FiniteSetTheorems, SequenceTheorems, TLAPS

(* The types without the upper bounds of the semaphores, which hold only
   because every V follows a P. *)
Typed ==
    /\ buf \in [Index -> Items \cup {NoItem}]
    /\ front \in Nat /\ rear \in Nat
    /\ mutex \in Nat /\ slots \in Nat /\ items \in Nat
    /\ pc \in [Threads -> {"call"} \cup Inserting \cup Removing]
    /\ \A p \in Producers : pc[p] \in {"call"} \cup Inserting
    /\ \A c \in Consumers : pc[c] \in {"call"} \cup Removing
    /\ in \in [Producers -> Items \cup {NoItem}]
    /\ out \in [Consumers -> Items \cup {NoItem}]
    /\ calls \in 0 .. MaxInserts

(* The inductive invariant. *)
IInv == Typed /\ mutex <= 1 /\ MutualExclusion /\ SlotsAccounted

(* The index into the array is one of its indices. *)
LEMMA IndexInRange == ASSUME NEW i \in Nat PROVE i % n \in Index
  BY NAssumption DEF Index

(* The threads that hold a slot are finitely many, so they can be counted. *)
LEMMA SetsFinite == /\ IsFiniteSet(Reserved) /\ IsFiniteSet(Claimed)
                    /\ Cardinality(Reserved) \in Nat /\ Cardinality(Claimed) \in Nat
<1>1. IsFiniteSet(Reserved)
  BY ThreadsAssumption, FS_Subset DEF Reserved
<1>2. IsFiniteSet(Claimed)
  BY ThreadsAssumption, FS_Subset DEF Claimed
<1>. QED  BY <1>1, <1>2, FS_CardinalityType

(* The parts of the types that a step of one thread leaves alone or sets. *)
LEMMA TypedStep == Typed /\ [Next]_vars => Typed'
<1>. SUFFICES ASSUME Typed, [Next]_vars PROVE Typed'
  OBVIOUS
<1>. USE DEF Typed, Step, Shared, P, V, Threads, Inserting, Removing
<1>1. ASSUME NEW p \in Producers, InsertCall(p) PROVE Typed'
  BY <1>1, ThreadsAssumption, MaxInsertsAssumption DEF InsertCall
<1>2. ASSUME NEW p \in Producers, InsertStep(p) PROVE Typed'
  <2>1. CASE InsertWaitSlot(p)  BY <2>1, ThreadsAssumption DEF InsertWaitSlot
  <2>2. CASE InsertLock(p)      BY <2>2, ThreadsAssumption DEF InsertLock
  <2>3. CASE InsertAdvance(p)   BY <2>3, ThreadsAssumption DEF InsertAdvance
  <2>4. CASE InsertStore(p)
    <3>1. rear % n \in Index
      BY IndexInRange
    <3>. QED  BY <2>4, <3>1, ThreadsAssumption DEF InsertStore
  <2>5. CASE InsertUnlock(p)    BY <2>5, ThreadsAssumption DEF InsertUnlock
  <2>6. CASE InsertAnnounce(p)  BY <2>6, ThreadsAssumption DEF InsertAnnounce
  <2>. QED  BY <1>2, <2>1, <2>2, <2>3, <2>4, <2>5, <2>6 DEF InsertStep
<1>3. ASSUME NEW c \in Consumers, RemoveCall(c) PROVE Typed'
  BY <1>3, ThreadsAssumption DEF RemoveCall
<1>4. ASSUME NEW c \in Consumers, RemoveStep(c) PROVE Typed'
  <2>1. CASE RemoveWaitItem(c)  BY <2>1, ThreadsAssumption DEF RemoveWaitItem
  <2>2. CASE RemoveLock(c)      BY <2>2, ThreadsAssumption DEF RemoveLock
  <2>3. CASE RemoveAdvance(c)   BY <2>3, ThreadsAssumption DEF RemoveAdvance
  <2>4. CASE RemoveTake(c)
    <3>1. front % n \in Index
      BY IndexInRange
    <3>. QED  BY <2>4, <3>1, ThreadsAssumption DEF RemoveTake
  <2>5. CASE RemoveUnlock(c)    BY <2>5, ThreadsAssumption DEF RemoveUnlock
  <2>6. CASE RemoveAnnounce(c)  BY <2>6, ThreadsAssumption DEF RemoveAnnounce
  <2>. QED  BY <1>4, <2>1, <2>2, <2>3, <2>4, <2>5, <2>6 DEF RemoveStep
<1>5. CASE UNCHANGED vars
  BY <1>5 DEF vars
<1>. QED  BY <1>1, <1>2, <1>3, <1>4, <1>5 DEF Next

(* The mutex: the steps that enter the critical section take it, those that
   leave it give it back, and the others keep both as they were. *)
LEMMA MutexStep ==
    Typed /\ mutex <= 1 /\ MutualExclusion /\ [Next]_vars => mutex' <= 1 /\ MutualExclusion'
<1>. SUFFICES ASSUME Typed, mutex <= 1, MutualExclusion, [Next]_vars
              PROVE  mutex' <= 1 /\ MutualExclusion'
  OBVIOUS
<1>. USE DEF Typed, MutualExclusion, Threads, Step
<1>1. ASSUME NEW t \in Threads, NEW from, NEW to, Step(t, from, to), mutex' = mutex,
             from \in Locked <=> to \in Locked
      PROVE  mutex' <= 1 /\ MutualExclusion'
  BY <1>1
<1>2. ASSUME NEW t \in Threads, NEW to \in Locked, Step(t, "P(mutex)", to), P(mutex)
      PROVE  mutex' <= 1 /\ MutualExclusion'
  <2>1. mutex = 1 /\ mutex' = 0
    BY <1>2 DEF P
  <2>2. \A u \in Threads : pc[u] \notin Locked
    BY <2>1
  <2>3. \A u \in Threads : pc'[u] \in Locked <=> u = t
    BY <1>2, <2>2
  <2>. QED  BY <2>1, <2>3
<1>3. ASSUME NEW t \in Threads, NEW to, to \notin Locked, Step(t, "V(mutex)", to), V(mutex)
      PROVE  mutex' <= 1 /\ MutualExclusion'
  <2>1. pc[t] \in Locked
    BY <1>3 DEF Locked
  <2>2. mutex = 0 /\ mutex' = 1
    BY <1>3, <2>1 DEF V
  <2>3. \A u \in Threads : pc'[u] \notin Locked
    BY <1>3, <2>1
  <2>. QED  BY <2>2, <2>3
<1>4. ASSUME NEW p \in Producers, InsertCall(p) \/ InsertStep(p)
      PROVE  mutex' <= 1 /\ MutualExclusion'
  <2>1. CASE InsertCall(p)      BY <2>1, <1>1, Zenon DEF InsertCall, Locked
  <2>2. CASE InsertWaitSlot(p)  BY <2>2, <1>1 DEF InsertWaitSlot, Locked
  <2>3. CASE InsertLock(p)      BY <2>3, <1>2 DEF InsertLock, Locked
  <2>4. CASE InsertAdvance(p)   BY <2>4, <1>1 DEF InsertAdvance, Locked
  <2>5. CASE InsertStore(p)     BY <2>5, <1>1 DEF InsertStore, Locked
  <2>6. CASE InsertUnlock(p)    BY <2>6, <1>3 DEF InsertUnlock, Locked
  <2>7. CASE InsertAnnounce(p)  BY <2>7, <1>1 DEF InsertAnnounce, Locked
  <2>. QED  BY <1>4, <2>1, <2>2, <2>3, <2>4, <2>5, <2>6, <2>7 DEF InsertStep
<1>5. ASSUME NEW c \in Consumers, RemoveCall(c) \/ RemoveStep(c)
      PROVE  mutex' <= 1 /\ MutualExclusion'
  <2>1. CASE RemoveCall(c)      BY <2>1, <1>1 DEF RemoveCall, Locked
  <2>2. CASE RemoveWaitItem(c)  BY <2>2, <1>1 DEF RemoveWaitItem, Locked
  <2>3. CASE RemoveLock(c)      BY <2>3, <1>2 DEF RemoveLock, Locked
  <2>4. CASE RemoveAdvance(c)   BY <2>4, <1>1 DEF RemoveAdvance, Locked
  <2>5. CASE RemoveTake(c)      BY <2>5, <1>1 DEF RemoveTake, Locked
  <2>6. CASE RemoveUnlock(c)    BY <2>6, <1>3 DEF RemoveUnlock, Locked
  <2>7. CASE RemoveAnnounce(c)  BY <2>7, <1>1 DEF RemoveAnnounce, Locked
  <2>. QED  BY <1>5, <2>1, <2>2, <2>3, <2>4, <2>5, <2>6, <2>7 DEF RemoveStep
<1>6. CASE UNCHANGED vars
  BY <1>6 DEF vars
<1>. QED  BY <1>4, <1>5, <1>6 DEF Next

(* The slots: a thread that takes one from a semaphore is among those that hold
   a slot, and is no longer once it has announced it on the other. *)
LEMMA SlotsStep == Typed /\ SlotsAccounted /\ [Next]_vars => SlotsAccounted'
<1>. SUFFICES ASSUME Typed, SlotsAccounted, [Next]_vars PROVE SlotsAccounted'
  OBVIOUS
<1>. DEFINE Held == Cardinality(Reserved) + Cardinality(Claimed)
<1>1. /\ slots \in Nat /\ items \in Nat /\ n \in Nat
      /\ Cardinality(Reserved) \in Nat /\ Cardinality(Claimed) \in Nat
      /\ slots + items + Cardinality(Reserved) + Cardinality(Claimed) = n
  BY SetsFinite, NAssumption DEF Typed, SlotsAccounted
<1>2. ASSUME Reserved' = Reserved, Claimed' = Claimed, slots' = slots, items' = items
      PROVE  SlotsAccounted'
  BY <1>1, <1>2 DEF SlotsAccounted
<1>3. ASSUME NEW p \in Producers, InsertCall(p) \/ InsertStep(p)
      PROVE  SlotsAccounted'
  <2>. USE DEF Step, Shared, Typed, Threads
  <2>1. Claimed' = Claimed
    <3>1. \A c \in Consumers : pc'[c] = pc[c]
      BY <1>3, ThreadsAssumption
         DEF InsertCall, InsertStep, InsertWaitSlot, InsertLock, InsertAdvance, InsertStore,
             InsertUnlock, InsertAnnounce
    <3>. QED  BY <3>1 DEF Claimed
  <2>2. CASE InsertWaitSlot(p)
    <3>1. p \notin Reserved /\ Reserved' = Reserved \cup {p}
      BY <2>2 DEF InsertWaitSlot, Reserved, Inserting
    <3>2. Cardinality(Reserved') = Cardinality(Reserved) + 1
      BY <3>1, SetsFinite, FS_AddElement
    <3>3. slots' = slots - 1 /\ items' = items
      BY <2>2 DEF InsertWaitSlot, P
    <3>. QED  BY <1>1, <2>1, <3>2, <3>3 DEF SlotsAccounted
  <2>3. CASE InsertAnnounce(p)
    <3>1. p \in Reserved /\ Reserved' = Reserved \ {p}
      BY <2>3 DEF InsertAnnounce, Reserved, Inserting
    <3>2. Cardinality(Reserved') = Cardinality(Reserved) - 1
      BY <3>1, SetsFinite, FS_RemoveElement
    <3>3. slots' = slots /\ items' = items + 1
      BY <2>3 DEF InsertAnnounce, V
    <3>. QED  BY <1>1, <2>1, <3>2, <3>3 DEF SlotsAccounted
  <2>4. CASE \/ InsertCall(p) \/ InsertLock(p) \/ InsertAdvance(p)
             \/ InsertStore(p) \/ InsertUnlock(p)
    <3>1. Reserved' = Reserved
      BY <2>4 DEF InsertCall, InsertLock, InsertAdvance, InsertStore, InsertUnlock,
                  Reserved, Inserting
    <3>2. slots' = slots /\ items' = items
      BY <2>4 DEF InsertCall, InsertLock, InsertAdvance, InsertStore, InsertUnlock
    <3>. QED  BY <1>2, <2>1, <3>1, <3>2
  <2>. QED  BY <1>3, <2>2, <2>3, <2>4 DEF InsertStep
<1>4. ASSUME NEW c \in Consumers, RemoveCall(c) \/ RemoveStep(c)
      PROVE  SlotsAccounted'
  <2>. USE DEF Step, Shared, Typed, Threads
  <2>1. Reserved' = Reserved
    <3>1. \A p \in Producers : pc'[p] = pc[p]
      BY <1>4, ThreadsAssumption
         DEF RemoveCall, RemoveStep, RemoveWaitItem, RemoveLock, RemoveAdvance, RemoveTake,
             RemoveUnlock, RemoveAnnounce
    <3>. QED  BY <3>1 DEF Reserved
  <2>2. CASE RemoveWaitItem(c)
    <3>1. c \notin Claimed /\ Claimed' = Claimed \cup {c}
      BY <2>2 DEF RemoveWaitItem, Claimed, Removing
    <3>2. Cardinality(Claimed') = Cardinality(Claimed) + 1
      BY <3>1, SetsFinite, FS_AddElement
    <3>3. slots' = slots /\ items' = items - 1
      BY <2>2 DEF RemoveWaitItem, P
    <3>. QED  BY <1>1, <2>1, <3>2, <3>3 DEF SlotsAccounted
  <2>3. CASE RemoveAnnounce(c)
    <3>1. c \in Claimed /\ Claimed' = Claimed \ {c}
      BY <2>3 DEF RemoveAnnounce, Claimed, Removing
    <3>2. Cardinality(Claimed') = Cardinality(Claimed) - 1
      BY <3>1, SetsFinite, FS_RemoveElement
    <3>3. slots' = slots + 1 /\ items' = items
      BY <2>3 DEF RemoveAnnounce, V
    <3>. QED  BY <1>1, <2>1, <3>2, <3>3 DEF SlotsAccounted
  <2>4. CASE \/ RemoveCall(c) \/ RemoveLock(c) \/ RemoveAdvance(c)
             \/ RemoveTake(c) \/ RemoveUnlock(c)
    <3>1. Claimed' = Claimed
      BY <2>4 DEF RemoveCall, RemoveLock, RemoveAdvance, RemoveTake, RemoveUnlock,
                  Claimed, Removing
    <3>2. slots' = slots /\ items' = items
      BY <2>4 DEF RemoveCall, RemoveLock, RemoveAdvance, RemoveTake, RemoveUnlock
    <3>. QED  BY <1>2, <2>1, <3>1, <3>2
  <2>. QED  BY <1>4, <2>2, <2>3, <2>4 DEF RemoveStep
<1>5. CASE UNCHANGED vars
  BY <1>5, <1>2 DEF vars, Reserved, Claimed
<1>. QED  BY <1>3, <1>4, <1>5 DEF Next

(* sbuf_init establishes the invariant. *)
LEMMA InitIInv == Init => IInv
<1>. SUFFICES ASSUME Init PROVE IInv
  OBVIOUS
<1>1. Typed
  <2>1. 0 \in 0 .. MaxInserts /\ n \in Nat
    BY NAssumption, MaxInsertsAssumption
  <2>. QED  BY <2>1 DEF Init, Typed, Threads
<1>2. mutex <= 1 /\ MutualExclusion
  BY DEF Init, MutualExclusion, Locked
<1>3. Reserved = {} /\ Claimed = {}
  BY DEF Init, Reserved, Claimed, Threads, Inserting, Removing
<1>4. SlotsAccounted
  BY <1>3, FS_EmptySet, NAssumption DEF Init, SlotsAccounted
<1>. QED  BY <1>1, <1>2, <1>4 DEF IInv

(* Every step preserves it. *)
LEMMA Inductive == IInv /\ [Next]_vars => IInv'
  BY TypedStep, MutexStep, SlotsStep DEF IInv

(* The semaphores never exceed what they start with. *)
LEMMA BoundsFollow == IInv => TypeOK
<1>. SUFFICES ASSUME IInv PROVE TypeOK
  OBVIOUS
<1>1. mutex \in 0 .. 1 /\ slots \in 0 .. n /\ items \in 0 .. n
  BY SetsFinite, NAssumption DEF IInv, Typed, SlotsAccounted
<1>. QED  BY <1>1 DEF IInv, Typed, TypeOK

(* The invariant holds throughout. *)
LEMMA Invariance == Spec => []IInv
  BY InitIInv, Inductive, PTL DEF Spec

(* The state of the buffer and of the threads in sbuf_insert and sbuf_remove
   keeps its types; no semaphore exceeds the value sbuf_init gave it, though
   each V is many steps and a context switch away from its P. *)
THEOREM TypeCorrect == Spec => []TypeOK
  BY Invariance, BoundsFollow, PTL

(* At most one thread is between P(&sp->mutex) and V(&sp->mutex), whatever the
   number of producers and consumers. *)
THEOREM Exclusive == Spec => []MutualExclusion
<1>1. IInv => MutualExclusion
  BY DEF IInv
<1>. QED  BY <1>1, Invariance, PTL

(* Every slot is free, announced as an item, or in the hands of one thread, so
   sbuf_insert and sbuf_remove neither leak a slot nor use one twice. *)
THEOREM NoSlotLost == Spec => []SlotsAccounted
<1>1. IInv => SlotsAccounted
  BY DEF IInv
<1>. QED  BY <1>1, Invariance, PTL

-----------------------------------------------------------------------------
(* Indices less than n apart are those of different slots of the array. *)
LEMMA ModDistinct ==
    ASSUME NEW i \in Int, NEW j \in Int, i < j, j - i < n
    PROVE  i % n # j % n
<1>1. n \in Nat /\ n > 0
  BY NAssumption
<1>2. i = n * (i \div n) + (i % n) /\ j = n * (j \div n) + (j % n)
  BY <1>1
<1>3. i \div n \in Int /\ j \div n \in Int
  BY <1>1
<1>4. SUFFICES ASSUME i % n = j % n PROVE FALSE
  OBVIOUS
<1>. DEFINE k == (j \div n) - (i \div n)
<1>5. k \in Int /\ j - i = n * k
  BY <1>1, <1>2, <1>3, <1>4
<1>. HIDE DEF k
<1>6. k <= 0 => n * k <= 0
  BY <1>1, <1>5
<1>7. k >= 1 => n * k >= n
  BY <1>1, <1>5
<1>. QED  BY <1>1, <1>5, <1>6, <1>7

(* The producers past buf[rear % n] = item and not yet past V(&sp->items), and
   the consumers past P(&sp->items) and not yet past the read of buf. *)
Stowed == {p \in Producers : pc[p] \in {"V(mutex)", "V(items)"}}
Due == {c \in Consumers : pc[c] \in {"P(mutex)", "front", "take"}}

(* The items in the buffer are those announced, those not announced yet, and
   those some consumer has claimed. *)
QueueCounted == Stored - Taken = items + Cardinality(Stowed) + Cardinality(Due)

(* A producer has an item until it has stored it. *)
Holding == \A p \in Producers :
    in[p] # NoItem <=> pc[p] \in {"P(slots)", "P(mutex)", "rear", "store"}

QInv == IInv /\ QueueCounted /\ Holding

(* The two indices, as their definitions read when nobody is, or somebody is,
   between the increment and the access. *)
LEMMA IndicesAre ==
    /\ (\A p \in Producers : pc[p] # "store") => Stored = rear
    /\ (\E p \in Producers : pc[p] = "store") => Stored = rear - 1
    /\ (\A c \in Consumers : pc[c] # "take") => Taken = front
    /\ (\E c \in Consumers : pc[c] = "take") => Taken = front - 1
  BY DEF Stored, Taken

(* Stowed and Due are part of those that hold a slot, which are finitely many. *)
LEMMA QueueSets ==
    /\ IsFiniteSet(Stowed) /\ IsFiniteSet(Due)
    /\ Cardinality(Stowed) \in Nat /\ Cardinality(Due) \in Nat
    /\ Cardinality(Stowed) <= Cardinality(Reserved)
    /\ Cardinality(Due) <= Cardinality(Claimed)
    /\ Reserved # Stowed => Cardinality(Stowed) < Cardinality(Reserved)
<1>1. Stowed \in SUBSET Reserved /\ Due \in SUBSET Claimed
  BY DEF Stowed, Due, Reserved, Claimed, Inserting, Removing
<1>2. /\ IsFiniteSet(Stowed) /\ Cardinality(Stowed) <= Cardinality(Reserved)
      /\ Cardinality(Reserved) = Cardinality(Stowed) => Reserved = Stowed
  BY <1>1, SetsFinite, FS_Subset
<1>3. IsFiniteSet(Due) /\ Cardinality(Due) <= Cardinality(Claimed)
  BY <1>1, SetsFinite, FS_Subset
<1>4. Cardinality(Stowed) \in Nat /\ Cardinality(Due) \in Nat
  BY <1>2, <1>3, FS_CardinalityType
<1>. QED  BY <1>2, <1>3, <1>4, SetsFinite

(* So the buffer holds at most n items, at least one when a consumer is about to
   read it, and fewer than n when a producer is about to write it: the writer
   finds its slot empty. *)
LEMMA RoomAndItem ==
    ASSUME QInv
    PROVE  /\ Stored \in Int /\ Taken \in Int /\ Stored - Taken \in 0 .. n
           /\ (\E p \in Producers : pc[p] = "store") => Stored - Taken < n
           /\ (\E c \in Consumers : pc[c] = "take") => Stored - Taken > 0
<1>0. /\ n \in Nat /\ slots \in Nat /\ items \in Nat /\ rear \in Nat /\ front \in Nat
      /\ slots + items + Cardinality(Reserved) + Cardinality(Claimed) = n
      /\ Stored - Taken = items + Cardinality(Stowed) + Cardinality(Due)
  BY NAssumption DEF QInv, IInv, Typed, SlotsAccounted, QueueCounted
<1>1. Stored \in Int /\ Taken \in Int
  BY <1>0 DEF Stored, Taken
<1>2. Stored - Taken \in 0 .. n
  BY <1>0, <1>1, QueueSets, SetsFinite
<1>3. ASSUME NEW p \in Producers, pc[p] = "store" PROVE Stored - Taken < n
  <2>1. p \in Reserved /\ p \notin Stowed
    BY <1>3 DEF Reserved, Stowed, Inserting
  <2>2. Cardinality(Stowed) < Cardinality(Reserved)
    BY <2>1, QueueSets
  <2>. QED  BY <1>0, <2>2, QueueSets, SetsFinite
<1>4. ASSUME NEW c \in Consumers, pc[c] = "take" PROVE Stored - Taken > 0
  <2>1. c \in Due
    BY <1>4 DEF Due
  <2>2. Cardinality(Due) # 0
    BY <2>1, QueueSets, FS_EmptySet
  <2>. QED  BY <1>0, <2>2, QueueSets
<1>. QED  BY <1>1, <1>2, <1>3, <1>4

(* A thread that is locked is the only one: nobody else is at the access. *)
LEMMA OnlyOneAccess ==
    ASSUME MutualExclusion, NEW t \in Threads, pc[t] \in Locked
    PROVE  /\ \A p \in Producers : pc[p] = "store" => p = t
           /\ \A c \in Consumers : pc[c] = "take" => c = t
  BY DEF MutualExclusion, Locked, Threads

(* What each step of a producer does to the two indices, and to who holds an
   item: only storing one and announcing one change anything. *)
LEMMA ProducerIndices ==
    ASSUME QInv, NEW p \in Producers, InsertCall(p) \/ InsertStep(p)
    PROVE  /\ Taken' = Taken /\ Due' = Due
           /\ InsertStore(p) => /\ Stored' = Stored + 1 /\ rear = Stored + 1
                                /\ p \notin Stowed /\ Stowed' = Stowed \cup {p}
           /\ InsertAnnounce(p) => /\ Stored' = Stored
                                   /\ p \in Stowed /\ Stowed' = Stowed \ {p}
           /\ ~InsertStore(p) /\ ~InsertAnnounce(p) => Stored' = Stored /\ Stowed' = Stowed
<1>. USE DEF Step, Shared, Threads
<1>0. /\ pc \in [Threads -> {"call"} \cup Inserting \cup Removing]
      /\ rear \in Nat /\ MutualExclusion /\ p \notin Consumers
  BY ThreadsAssumption DEF QInv, IInv, Typed
<1>1. /\ \A c \in Consumers : pc'[c] = pc[c]
      /\ front' = front
  BY <1>0 DEF InsertCall, InsertStep, InsertWaitSlot, InsertLock, InsertAdvance, InsertStore,
              InsertUnlock, InsertAnnounce
<1>2. Taken' = Taken /\ Due' = Due
  BY <1>1 DEF Taken, Due
<1>3. ASSUME InsertStore(p)
      PROVE  /\ Stored' = Stored + 1 /\ rear = Stored + 1
             /\ p \notin Stowed /\ Stowed' = Stowed \cup {p}
  <2>1. pc[p] = "store" /\ pc'[p] = "V(mutex)" /\ rear' = rear
        /\ \A q \in Producers : q # p => pc'[q] = pc[q]
    BY <1>0, <1>3 DEF InsertStore
  <2>2. \A q \in Producers : pc[q] = "store" => q = p
    BY <1>0, <2>1, OnlyOneAccess DEF Locked
  <2>3. Stored = rear - 1 /\ Stored' = rear
    BY <2>1, <2>2 DEF Stored
  <2>. QED  BY <1>0, <2>1, <2>3 DEF Stowed
<1>4. ASSUME InsertAnnounce(p)
      PROVE  Stored' = Stored /\ p \in Stowed /\ Stowed' = Stowed \ {p}
  <2>1. pc[p] = "V(items)" /\ pc'[p] = "call" /\ rear' = rear
        /\ \A q \in Producers : q # p => pc'[q] = pc[q]
    BY <1>0, <1>4 DEF InsertAnnounce
  <2>. QED  BY <2>1 DEF Stored, Stowed
<1>5. ASSUME InsertAdvance(p) PROVE Stored' = Stored /\ Stowed' = Stowed
  <2>1. pc[p] = "rear" /\ pc'[p] = "store" /\ rear' = rear + 1
        /\ \A q \in Producers : q # p => pc'[q] = pc[q]
    BY <1>0, <1>5 DEF InsertAdvance
  <2>2. \A q \in Producers : pc[q] # "store"
    BY <1>0, <2>1, OnlyOneAccess DEF Locked
  <2>3. Stored = rear /\ Stored' = rear' - 1
    BY <2>1, <2>2 DEF Stored
  <2>. QED  BY <1>0, <2>1, <2>3 DEF Stowed
<1>6. ASSUME InsertCall(p) \/ InsertWaitSlot(p) \/ InsertLock(p) \/ InsertUnlock(p)
      PROVE  Stored' = Stored /\ Stowed' = Stowed
  <2>1. /\ rear' = rear
        /\ pc[p] # "store" /\ pc'[p] # "store"
        /\ pc[p] \in {"V(mutex)", "V(items)"} <=> pc'[p] \in {"V(mutex)", "V(items)"}
        /\ \A q \in Producers : q # p => pc'[q] = pc[q]
    BY <1>0, <1>6 DEF InsertCall, InsertWaitSlot, InsertLock, InsertUnlock
  <2>. QED  BY <2>1 DEF Stored, Stowed
<1>. QED  BY <1>2, <1>3, <1>4, <1>5, <1>6 DEF InsertStep

(* And each step of a consumer. *)
LEMMA ConsumerIndices ==
    ASSUME QInv, NEW c \in Consumers, RemoveCall(c) \/ RemoveStep(c)
    PROVE  /\ Stored' = Stored /\ Stowed' = Stowed
           /\ RemoveTake(c) => /\ Taken' = Taken + 1 /\ front = Taken + 1
                               /\ c \in Due /\ Due' = Due \ {c}
           /\ RemoveWaitItem(c) => /\ Taken' = Taken
                                   /\ c \notin Due /\ Due' = Due \cup {c}
           /\ ~RemoveTake(c) /\ ~RemoveWaitItem(c) => Taken' = Taken /\ Due' = Due
<1>. USE DEF Step, Shared, Threads
<1>0. /\ pc \in [Threads -> {"call"} \cup Inserting \cup Removing]
      /\ front \in Nat /\ MutualExclusion /\ c \notin Producers
  BY ThreadsAssumption DEF QInv, IInv, Typed
<1>1. /\ \A p \in Producers : pc'[p] = pc[p]
      /\ rear' = rear
  BY <1>0 DEF RemoveCall, RemoveStep, RemoveWaitItem, RemoveLock, RemoveAdvance, RemoveTake,
              RemoveUnlock, RemoveAnnounce
<1>2. Stored' = Stored /\ Stowed' = Stowed
  BY <1>1 DEF Stored, Stowed
<1>3. ASSUME RemoveTake(c)
      PROVE  /\ Taken' = Taken + 1 /\ front = Taken + 1
             /\ c \in Due /\ Due' = Due \ {c}
  <2>1. pc[c] = "take" /\ pc'[c] = "V(mutex)" /\ front' = front
        /\ \A d \in Consumers : d # c => pc'[d] = pc[d]
    BY <1>0, <1>3 DEF RemoveTake
  <2>2. \A d \in Consumers : pc[d] = "take" => d = c
    BY <1>0, <2>1, OnlyOneAccess DEF Locked
  <2>3. Taken = front - 1 /\ Taken' = front
    BY <2>1, <2>2 DEF Taken
  <2>. QED  BY <1>0, <2>1, <2>3 DEF Due
<1>4. ASSUME RemoveWaitItem(c)
      PROVE  Taken' = Taken /\ c \notin Due /\ Due' = Due \cup {c}
  <2>1. pc[c] = "P(items)" /\ pc'[c] = "P(mutex)" /\ front' = front
        /\ \A d \in Consumers : d # c => pc'[d] = pc[d]
    BY <1>0, <1>4 DEF RemoveWaitItem
  <2>. QED  BY <2>1 DEF Taken, Due
<1>5. ASSUME RemoveAdvance(c) PROVE Taken' = Taken /\ Due' = Due
  <2>1. pc[c] = "front" /\ pc'[c] = "take" /\ front' = front + 1
        /\ \A d \in Consumers : d # c => pc'[d] = pc[d]
    BY <1>0, <1>5 DEF RemoveAdvance
  <2>2. \A d \in Consumers : pc[d] # "take"
    BY <1>0, <2>1, OnlyOneAccess DEF Locked
  <2>3. Taken = front /\ Taken' = front' - 1
    BY <2>1, <2>2 DEF Taken
  <2>. QED  BY <1>0, <2>1, <2>3 DEF Due
<1>6. ASSUME RemoveCall(c) \/ RemoveLock(c) \/ RemoveUnlock(c) \/ RemoveAnnounce(c)
      PROVE  Taken' = Taken /\ Due' = Due
  <2>1. /\ front' = front
        /\ pc[c] # "take" /\ pc'[c] # "take"
        /\ pc[c] \in {"P(mutex)", "front", "take"} <=> pc'[c] \in {"P(mutex)", "front", "take"}
        /\ \A d \in Consumers : d # c => pc'[d] = pc[d]
    BY <1>0, <1>6 DEF RemoveCall, RemoveLock, RemoveUnlock, RemoveAnnounce
  <2>. QED  BY <2>1 DEF Taken, Due
<1>. QED  BY <1>2, <1>3, <1>4, <1>5, <1>6 DEF RemoveStep

(* The items in the buffer stay counted. *)
LEMMA QueueCountedStep == QInv /\ [Next]_vars => QueueCounted'
<1>. SUFFICES ASSUME QInv, [Next]_vars PROVE QueueCounted'
  OBVIOUS
<1>0. /\ items \in Nat /\ Stored \in Int /\ Taken \in Int
      /\ Stored - Taken = items + Cardinality(Stowed) + Cardinality(Due)
      /\ Cardinality(Stowed) \in Nat /\ Cardinality(Due) \in Nat
  BY QueueSets, RoomAndItem DEF QInv, IInv, Typed, QueueCounted
<1>1. ASSUME NEW p \in Producers, InsertCall(p) \/ InsertStep(p) PROVE QueueCounted'
  <2>1. CASE InsertStore(p)
    <3>1. Cardinality(Stowed') = Cardinality(Stowed) + 1
      BY <1>1, <2>1, ProducerIndices, QueueSets, FS_AddElement
    <3>2. items' = items
      BY <2>1 DEF InsertStore
    <3>. QED  BY <1>0, <1>1, <2>1, <3>1, <3>2, ProducerIndices DEF QueueCounted
  <2>2. CASE InsertAnnounce(p)
    <3>1. Cardinality(Stowed') = Cardinality(Stowed) - 1
      BY <1>1, <2>2, ProducerIndices, QueueSets, FS_RemoveElement
    <3>. QED  BY <1>0, <1>1, <2>2, <3>1, ProducerIndices DEF InsertAnnounce, V, QueueCounted
  <2>3. CASE ~InsertStore(p) /\ ~InsertAnnounce(p)
    <3>1. items' = items
      BY <1>1, <2>3 DEF InsertCall, InsertStep, InsertWaitSlot, InsertLock, InsertAdvance,
                        InsertUnlock
    <3>. QED  BY <1>0, <1>1, <2>3, <3>1, ProducerIndices DEF QueueCounted
  <2>. QED  BY <2>1, <2>2, <2>3
<1>2. ASSUME NEW c \in Consumers, RemoveCall(c) \/ RemoveStep(c) PROVE QueueCounted'
  <2>1. CASE RemoveTake(c)
    <3>1. Cardinality(Due') = Cardinality(Due) - 1
      BY <1>2, <2>1, ConsumerIndices, QueueSets, FS_RemoveElement
    <3>2. items' = items
      BY <2>1 DEF RemoveTake
    <3>. QED  BY <1>0, <1>2, <2>1, <3>1, <3>2, ConsumerIndices DEF QueueCounted
  <2>2. CASE RemoveWaitItem(c)
    <3>1. Cardinality(Due') = Cardinality(Due) + 1
      BY <1>2, <2>2, ConsumerIndices, QueueSets, FS_AddElement
    <3>. QED  BY <1>0, <1>2, <2>2, <3>1, ConsumerIndices DEF RemoveWaitItem, P, QueueCounted
  <2>3. CASE ~RemoveTake(c) /\ ~RemoveWaitItem(c)
    <3>1. items' = items
      BY <1>2, <2>3 DEF RemoveCall, RemoveStep, RemoveLock, RemoveAdvance, RemoveUnlock,
                        RemoveAnnounce
    <3>. QED  BY <1>0, <1>2, <2>3, <3>1, ConsumerIndices DEF QueueCounted
  <2>. QED  BY <2>1, <2>2, <2>3
<1>3. CASE UNCHANGED vars
  BY <1>3 DEF vars, QInv, QueueCounted, Stored, Taken, Stowed, Due
<1>. QED  BY <1>1, <1>2, <1>3 DEF Next

(* A producer gets its item when it calls and gives it up when it stores it. *)
LEMMA HoldingStep == QInv /\ [Next]_vars => Holding'
<1>. SUFFICES ASSUME QInv, [Next]_vars PROVE Holding'
  OBVIOUS
<1>. USE DEF Step, Shared, Threads, Holding
<1>0. /\ pc \in [Threads -> {"call"} \cup Inserting \cup Removing]
      /\ in \in [Producers -> Items \cup {NoItem}]
      /\ Holding /\ Producers \cap Consumers = {} /\ NoItem \notin Items
  BY ThreadsAssumption, NoItemAssumption DEF QInv, IInv, Typed
<1>1. ASSUME NEW p \in Producers, InsertCall(p) PROVE Holding'
  BY <1>0, <1>1 DEF InsertCall
<1>2. ASSUME NEW p \in Producers, InsertStep(p) PROVE Holding'
  <2>1. CASE InsertStore(p)
    BY <1>0, <2>1 DEF InsertStore
  <2>2. CASE InsertWaitSlot(p) \/ InsertLock(p) \/ InsertAdvance(p)
    BY <1>0, <2>2 DEF InsertWaitSlot, InsertLock, InsertAdvance
  <2>3. CASE InsertUnlock(p) \/ InsertAnnounce(p)
    BY <1>0, <2>3 DEF InsertUnlock, InsertAnnounce
  <2>. QED  BY <1>2, <2>1, <2>2, <2>3 DEF InsertStep
<1>3. ASSUME NEW c \in Consumers, RemoveCall(c) \/ RemoveStep(c) PROVE Holding'
  <2>1. in' = in /\ \A p \in Producers : pc'[p] = pc[p]
    BY <1>0, <1>3 DEF RemoveCall, RemoveStep, RemoveWaitItem, RemoveLock, RemoveAdvance,
                      RemoveTake, RemoveUnlock, RemoveAnnounce
  <2>. QED  BY <1>0, <2>1
<1>4. CASE UNCHANGED vars
  BY <1>0, <1>4 DEF vars
<1>. QED  BY <1>1, <1>2, <1>3, <1>4 DEF Next

(* The counts and the items held hold throughout. *)
LEMMA QInvariance == Spec => []QInv
<1>1. Init => QInv
  <2>. SUFFICES ASSUME Init PROVE QInv
    OBVIOUS
  <2>1. Stowed = {} /\ Due = {}
    BY DEF Init, Stowed, Due, Threads
  <2>2. Stored = 0 /\ Taken = 0 /\ items = 0
    BY DEF Init, Stored, Taken, Threads
  <2>3. QueueCounted
    BY <2>1, <2>2, FS_EmptySet DEF QueueCounted
  <2>4. Holding
    BY DEF Init, Holding, Threads
  <2>. QED  BY <2>3, <2>4, InitIInv DEF QInv
<1>2. QInv /\ [Next]_vars => QInv'
  <2>1. QInv /\ [Next]_vars => IInv'
    BY Inductive DEF QInv
  <2>. QED  BY <2>1, QueueCountedStep, HoldingStep DEF QInv
<1>. QED  BY <1>1, <1>2, PTL DEF Spec

-----------------------------------------------------------------------------
(* The queue the buffer stands for (the refinement mapping of Sbuf). *)
Queue == [i \in 1 .. Stored - Taken |-> buf[(Taken + i) % n]]

(* It is a sequence of entries of the array. *)
LEMMA QueueIsSeq ==
    ASSUME QInv
    PROVE  /\ Queue \in Seq(Items \cup {NoItem})
           /\ Len(Queue) = Stored - Taken
<1>1. Stored - Taken \in Nat /\ Taken \in Int /\ n \in Nat /\ n > 0
  BY RoomAndItem, NAssumption
<1>2. \A i \in 1 .. Stored - Taken : buf[(Taken + i) % n] \in Items \cup {NoItem}
  <2>1. \A i \in 1 .. Stored - Taken : (Taken + i) % n \in Index
    BY <1>1 DEF Index
  <2>. QED  BY <2>1 DEF QInv, IInv, Typed
<1>. QED  BY <1>1, <1>2 DEF Queue

(* Storing an item appends it: its slot is none of those the queue uses. *)
LEMMA StoreAppends ==
    ASSUME QInv, NEW p \in Producers, InsertStore(p)
    PROVE  Len(Queue) < n /\ Queue' = Append(Queue, in[p])
<1>. DEFINE m == Stored - Taken
            x == in[p]
<1>0. n \in Nat /\ n > 0 /\ buf \in [Index -> Items \cup {NoItem}]
  BY NAssumption DEF QInv, IInv, Typed
<1>1. pc[p] = "store" /\ buf' = [buf EXCEPT ![rear % n] = x]
  BY DEF InsertStore, Step
<1>2. Stored' = Stored + 1 /\ rear = Stored + 1 /\ Taken' = Taken
  BY ProducerIndices DEF InsertStep
<1>3. m \in Nat /\ m < n /\ Taken \in Int /\ Stored \in Int
  BY <1>1, RoomAndItem
<1>4. Stored' - Taken' = m + 1 /\ rear = Taken + m + 1
  BY <1>2, <1>3
<1>5. rear % n \in Index
  BY <1>0, <1>2, <1>3 DEF Index
<1>. HIDE DEF m, x
<1>6. ASSUME NEW i \in 1 .. m PROVE buf'[(Taken + i) % n] = buf[(Taken + i) % n]
  <2>1. (Taken + i) % n # rear % n
    <3>1. Taken + i \in Int /\ rear \in Int /\ Taken + i < rear /\ rear - (Taken + i) < n
      BY <1>0, <1>3, <1>4
    <3>. QED  BY <3>1, ModDistinct
  <2>2. (Taken + i) % n \in Index
    BY <1>0, <1>3 DEF Index
  <2>. QED  BY <1>0, <1>1, <2>1, <2>2
<1>7. buf'[(Taken + (m + 1)) % n] = x
  <2>1. Taken + (m + 1) = rear
    BY <1>3, <1>4
  <2>. QED  BY <1>0, <1>1, <1>5, <2>1
<1>8. Queue' = [i \in 1 .. m + 1 |-> buf'[(Taken + i) % n]]
  BY <1>2, <1>4 DEF Queue
<1>9. Queue = [i \in 1 .. m |-> buf[(Taken + i) % n]]
  BY DEF Queue, m
<1>10. /\ x \in Items \cup {NoItem}
       /\ Len(Queue) = m /\ Queue \in Seq(Items \cup {NoItem})
  BY QueueIsSeq DEF QInv, IInv, Typed, m, x
<1>11. \A i \in 1 .. m + 1 : Queue'[i] = Append(Queue, x)[i]
  <2>. TAKE i \in 1 .. m + 1
  <2>1. CASE i <= m
    <3>1. i \in 1 .. m
      BY <1>3, <2>1
    <3>2. Queue'[i] = Queue[i]
      BY <1>6, <1>8, <1>9, <3>1
    <3>. QED  BY <1>10, <3>1, <3>2, AppendProperties
  <2>2. CASE ~(i <= m)
    <3>1. i = m + 1
      BY <1>3, <2>2
    <3>2. Queue'[i] = x
      BY <1>3, <1>7, <1>8, <3>1
    <3>. QED  BY <1>10, <3>1, <3>2, AppendProperties
  <2>. QED  BY <2>1, <2>2
<1>12. Queue' = Append(Queue, x)
  <2>1. \A i \in 1 .. m + 1 : buf'[(Taken + i) % n] \in Items \cup {NoItem}
    <3>1. buf' \in [Index -> Items \cup {NoItem}]
      BY <1>0, <1>1, <1>5, <1>10
    <3>2. \A i \in 1 .. m + 1 : (Taken + i) % n \in Index
      BY <1>0, <1>3 DEF Index
    <3>. QED  BY <3>1, <3>2
  <2>2. Queue' \in Seq(Items \cup {NoItem}) /\ Len(Queue') = m + 1
    BY <1>3, <1>8, <2>1
  <2>3. Append(Queue, x) \in Seq(Items \cup {NoItem}) /\ Len(Append(Queue, x)) = m + 1
    BY <1>10, AppendProperties
  <2>. QED  BY <1>11, <2>2, <2>3, SeqEqual
<1>. QED  BY <1>3, <1>10, <1>12 DEF m, x

(* Taking an item takes the head of the queue. *)
LEMMA TakeRemoves ==
    ASSUME QInv, NEW c \in Consumers, RemoveTake(c)
    PROVE  /\ Queue # <<>> /\ Queue' = Tail(Queue)
           /\ buf[front % n] = Head(Queue)
<1>. DEFINE m == Stored - Taken
<1>1. pc[c] = "take" /\ buf' = buf
  BY DEF RemoveTake, Step, Shared
<1>2. Taken' = Taken + 1 /\ front = Taken + 1 /\ Stored' = Stored
  BY ConsumerIndices DEF RemoveStep
<1>3. m \in Nat /\ m > 0 /\ Taken \in Int /\ Stored \in Int
  BY <1>1, RoomAndItem
<1>4. Stored' - Taken' = m - 1
  BY <1>2, <1>3
<1>. HIDE DEF m
<1>5. Queue = [i \in 1 .. m |-> buf[(Taken + i) % n]]
  BY DEF Queue, m
<1>6. Queue' = [i \in 1 .. m - 1 |-> buf[((Taken + 1) + i) % n]]
  BY <1>1, <1>2, <1>4 DEF Queue
<1>7. Len(Queue) = m /\ Queue \in Seq(Items \cup {NoItem})
  BY QueueIsSeq DEF m
<1>8. Queue # <<>>
  BY <1>3, <1>7
<1>9. /\ Tail(Queue) \in Seq(Items \cup {NoItem}) /\ Len(Tail(Queue)) = m - 1
      /\ \A i \in 1 .. m - 1 : Tail(Queue)[i] = Queue[i + 1]
  BY <1>7, <1>8, HeadTailProperties
<1>10. \A i \in 1 .. m - 1 : Queue'[i] = Queue[i + 1]
  <2>. TAKE i \in 1 .. m - 1
  <2>1. (Taken + 1) + i = Taken + (i + 1) /\ i + 1 \in 1 .. m
    BY <1>3
  <2>. QED  BY <1>5, <1>6, <2>1
<1>11. Head(Queue) = buf[front % n]
  <2>1. 1 \in 1 .. m
    BY <1>3
  <2>. QED  BY <1>2, <1>5, <1>7, <1>8, <2>1
<1>12. Queue' = Tail(Queue)
  <2>1. Tail(Queue) \in [1 .. m - 1 -> Items \cup {NoItem}]
    BY <1>9, LenProperties
  <2>. QED  BY <1>6, <1>9, <1>10, <2>1
<1>. QED  BY <1>8, <1>11, <1>12

(* A step that leaves the array and the indices leaves the queue. *)
LEMMA QueueKept ==
    ASSUME buf' = buf, Stored' = Stored, Taken' = Taken
    PROVE  Queue' = Queue
  BY DEF Queue

(* Each step of the buffer is a step of the queue or changes nothing of it. *)
LEMMA FifoStep ==
    ASSUME QInv, [Next]_vars
    PROVE  [F!Next]_<<Queue, in, out>>
<1>1. ASSUME NEW p \in Producers, InsertCall(p) PROVE F!Call(p)
  <2>1. Queue' = Queue
    BY <1>1, ProducerIndices, QueueKept DEF InsertCall, InsertStore, InsertAnnounce, Shared, Step
  <2>2. in[p] = NoItem
    BY <1>1 DEF QInv, Holding, InsertCall, Step
  <2>. QED  BY <1>1, <2>1, <2>2 DEF InsertCall, F!Call, Queue
<1>2. ASSUME NEW p \in Producers, InsertStore(p) PROVE F!Insert(p)
  <2>1. in[p] # NoItem
    BY <1>2 DEF QInv, Holding, InsertStore, Step
  <2>2. Len(Queue) < n /\ Queue' = Append(Queue, in[p])
    BY <1>2, StoreAppends
  <2>. QED  BY <1>2, <2>1, <2>2 DEF InsertStore, F!Insert, Queue
<1>3. ASSUME NEW p \in Producers, InsertStep(p), ~InsertStore(p)
      PROVE  UNCHANGED <<Queue, in, out>>
  <2>1. buf' = buf /\ in' = in /\ out' = out
    BY <1>3 DEF InsertStep, InsertWaitSlot, InsertLock, InsertAdvance, InsertUnlock,
                InsertAnnounce, Shared
  <2>2. Stored' = Stored /\ Taken' = Taken
    BY <1>3, ProducerIndices
  <2>. QED  BY <2>1, <2>2, QueueKept
<1>4. ASSUME NEW c \in Consumers, RemoveCall(c) PROVE F!Return(c) \/ UNCHANGED <<Queue, in, out>>
  <2>1. Queue' = Queue
    BY <1>4, ConsumerIndices, QueueKept DEF RemoveCall, RemoveTake, RemoveWaitItem, Shared, Step
  <2>2. CASE out[c] = NoItem
    BY <1>4, <2>1, <2>2 DEF RemoveCall, QInv, IInv, Typed
  <2>3. CASE out[c] # NoItem
    BY <1>4, <2>1, <2>3 DEF RemoveCall, F!Return, Queue
  <2>. QED  BY <2>2, <2>3
<1>5. ASSUME NEW c \in Consumers, RemoveTake(c) PROVE F!Remove(c)
  <2>1. Queue # <<>> /\ Queue' = Tail(Queue) /\ buf[front % n] = Head(Queue)
    BY <1>5, TakeRemoves
  <2>. QED  BY <1>5, <2>1 DEF RemoveTake, F!Remove, Queue
<1>6. ASSUME NEW c \in Consumers, RemoveStep(c), ~RemoveTake(c)
      PROVE  UNCHANGED <<Queue, in, out>>
  <2>1. buf' = buf /\ in' = in /\ out' = out
    BY <1>6 DEF RemoveStep, RemoveWaitItem, RemoveLock, RemoveAdvance, RemoveUnlock,
                RemoveAnnounce, Shared
  <2>2. Stored' = Stored /\ Taken' = Taken
    BY <1>6, ConsumerIndices
  <2>. QED  BY <2>1, <2>2, QueueKept
<1>7. CASE UNCHANGED vars
  BY <1>7, QueueKept DEF vars, Stored, Taken
<1>. QED  BY <1>1, <1>2, <1>3, <1>4, <1>5, <1>6, <1>7 DEF Next, F!Next

(* The buffer is a bounded first-in first-out queue for any capacity, any number
   of threads and any number of insertions: no item is lost, duplicated,
   overtaken or overwritten ("bounded, shared FIFO buffer", sbuf.c:5). *)
THEOREM ImplementsQueue == Spec => ImplementsFifo
<1>1. Init => F!Init
  <2>. SUFFICES ASSUME Init PROVE F!Init
    OBVIOUS
  <2>1. Stored - Taken = 0
    BY DEF Init, Stored, Taken, Threads
  <2>2. Queue = <<>>
    BY <2>1 DEF Queue
  <2>. QED  BY <2>2 DEF Init, F!Init, Queue
<1>2. QInv /\ [Next]_vars => [F!Next]_<<Queue, in, out>>
  BY FifoStep
<1>. QED  BY <1>1, <1>2, QInvariance, PTL DEF Spec, ImplementsFifo, F!Spec, Queue

=============================================================================
