-------------------------------- MODULE Sbuf --------------------------------
(***************************************************************************)
(* The buffer of sbuf.c between the threads of the proxy: main inserts the *)
(* connections it accepts, the workers remove them.  A step is one         *)
(* operation on a semaphore or one access to the shared fields; the        *)
(* increment of an index and the access to the array are two steps, which  *)
(* only the mutex keeps together.                                          *)
(***************************************************************************)
EXTENDS Integers, Sequences, FiniteSets

CONSTANTS
    Producers,   \* the threads that call sbuf_insert
    Consumers,   \* the threads that call sbuf_remove
    Items,       \* connection descriptors
    NoItem,      \* no descriptor
    n,           \* the capacity (SBUFSIZE)
    MaxInserts   \* bound of the model: calls of sbuf_insert in a behaviour

ASSUME NAssumption == n \in Nat \ {0}
ASSUME MaxInsertsAssumption == MaxInserts \in Nat
ASSUME ThreadsAssumption == /\ IsFiniteSet(Producers) /\ IsFiniteSet(Consumers)
                            /\ Producers \cap Consumers = {}
ASSUME NoItemAssumption == NoItem \notin Items

VARIABLES
    buf, front, rear,       \* sbuf_t: the array and its two indices
    mutex, slots, items,    \* sbuf_t: the values of the semaphores
    pc,                     \* what each thread is about to do
    in,                     \* the argument of a producer's call
    out,                    \* what a consumer's call has read
    calls                   \* calls of sbuf_insert so far

vars == <<buf, front, rear, mutex, slots, items, pc, in, out, calls>>

Threads == Producers \cup Consumers
Inserting == {"P(slots)", "P(mutex)", "rear", "store", "V(mutex)", "V(items)"}
Removing == {"P(items)", "P(mutex)", "front", "take", "V(mutex)", "V(slots)"}
Locked == {"rear", "store", "front", "take", "V(mutex)"}

Index == 0 .. n - 1

TypeOK ==
    /\ buf \in [Index -> Items \cup {NoItem}]
    /\ front \in Nat /\ rear \in Nat
    /\ mutex \in 0 .. 1 /\ slots \in 0 .. n /\ items \in 0 .. n
    /\ pc \in [Threads -> {"call"} \cup Inserting \cup Removing]
    /\ \A p \in Producers : pc[p] \in {"call"} \cup Inserting
    /\ \A c \in Consumers : pc[c] \in {"call"} \cup Removing
    /\ in \in [Producers -> Items \cup {NoItem}]
    /\ out \in [Consumers -> Items \cup {NoItem}]
    /\ calls \in 0 .. MaxInserts

Init ==                                                         \* sbuf_init
    /\ buf = [i \in Index |-> NoItem]
    /\ front = 0 /\ rear = 0
    /\ mutex = 1 /\ slots = n /\ items = 0
    /\ pc = [t \in Threads |-> "call"]
    /\ in = [p \in Producers |-> NoItem]
    /\ out = [c \in Consumers |-> NoItem]
    /\ calls = 0

Step(t, from, to) == pc[t] = from /\ pc' = [pc EXCEPT ![t] = to]
Shared == <<buf, front, rear>>

P(sem) == sem > 0 /\ sem' = sem - 1
V(sem) == sem' = sem + 1

-----------------------------------------------------------------------------
(* sbuf_insert(sp, item) *)

InsertCall(p) ==
    /\ calls < MaxInserts
    /\ Step(p, "call", "P(slots)")
    /\ \E item \in Items : in' = [in EXCEPT ![p] = item]
    /\ calls' = calls + 1
    /\ UNCHANGED <<Shared, mutex, slots, items, out>>

(* mutants: the buffer is not locked; the slot is not waited for *)
InsertLockNot(p) ==
    /\ Step(p, "P(mutex)", "rear")
    /\ UNCHANGED <<Shared, mutex, slots, items, in, out, calls>>
InsertWaitSlotNot(p) ==
    /\ Step(p, "P(slots)", "P(mutex)")
    /\ UNCHANGED <<Shared, mutex, slots, items, in, out, calls>>

InsertWaitSlot(p) ==
    /\ Step(p, "P(slots)", "P(mutex)")
    /\ P(slots)
    /\ UNCHANGED <<Shared, mutex, items, in, out, calls>>

InsertLock(p) ==
    /\ Step(p, "P(mutex)", "rear")
    /\ P(mutex)
    /\ UNCHANGED <<Shared, slots, items, in, out, calls>>

InsertAdvance(p) ==
    /\ Step(p, "rear", "store")
    /\ rear' = rear + 1
    /\ UNCHANGED <<buf, front, mutex, slots, items, in, out, calls>>

InsertStore(p) ==
    /\ Step(p, "store", "V(mutex)")
    /\ buf' = [buf EXCEPT ![rear % n] = in[p]]
    /\ in' = [in EXCEPT ![p] = NoItem]
    /\ UNCHANGED <<front, rear, mutex, slots, items, out, calls>>

InsertUnlock(p) ==
    /\ Step(p, "V(mutex)", "V(items)")
    /\ V(mutex)
    /\ UNCHANGED <<Shared, slots, items, in, out, calls>>

(* mutants: the item is not announced; the semaphores are swapped *)
InsertAnnounceNot(p) ==
    /\ Step(p, "V(items)", "call")
    /\ UNCHANGED <<Shared, mutex, slots, items, in, out, calls>>

InsertAnnounceSlot(p) ==
    /\ Step(p, "V(items)", "call")
    /\ V(slots)
    /\ UNCHANGED <<Shared, mutex, items, in, out, calls>>

InsertAnnounce(p) ==
    /\ Step(p, "V(items)", "call")
    /\ V(items)
    /\ UNCHANGED <<Shared, mutex, slots, in, out, calls>>

-----------------------------------------------------------------------------
(* sbuf_remove(sp) *)

RemoveCall(c) ==
    /\ Step(c, "call", "P(items)")
    /\ out' = [out EXCEPT ![c] = NoItem]
    /\ UNCHANGED <<Shared, mutex, slots, items, in, calls>>

RemoveWaitItem(c) ==
    /\ Step(c, "P(items)", "P(mutex)")
    /\ P(items)
    /\ UNCHANGED <<Shared, mutex, slots, in, out, calls>>

RemoveLock(c) ==
    /\ Step(c, "P(mutex)", "front")
    /\ P(mutex)
    /\ UNCHANGED <<Shared, slots, items, in, out, calls>>

RemoveAdvance(c) ==
    /\ Step(c, "front", "take")
    /\ front' = front + 1
    /\ UNCHANGED <<buf, rear, mutex, slots, items, in, out, calls>>

(* mutant: the item is read before the index is advanced, buf[(front++) % n] *)
RemoveTakePost(c) ==
    /\ Step(c, "take", "V(mutex)")
    /\ out' = [out EXCEPT ![c] = buf[(front - 1) % n]]
    /\ UNCHANGED <<Shared, mutex, slots, items, in, calls>>

RemoveTake(c) ==
    /\ Step(c, "take", "V(mutex)")
    /\ out' = [out EXCEPT ![c] = buf[front % n]]
    /\ UNCHANGED <<Shared, mutex, slots, items, in, calls>>

RemoveUnlock(c) ==
    /\ Step(c, "V(mutex)", "V(slots)")
    /\ V(mutex)
    /\ UNCHANGED <<Shared, slots, items, in, out, calls>>

(* mutants: the free slot is announced twice; not at all *)
RemoveAnnounceTwice(c) ==
    /\ Step(c, "V(slots)", "call")
    /\ slots' = slots + 2
    /\ UNCHANGED <<Shared, mutex, items, in, out, calls>>

RemoveAnnounceNot(c) ==
    /\ Step(c, "V(slots)", "call")
    /\ UNCHANGED <<Shared, mutex, slots, items, in, out, calls>>

RemoveAnnounce(c) ==
    /\ Step(c, "V(slots)", "call")
    /\ V(slots)
    /\ UNCHANGED <<Shared, mutex, items, in, out, calls>>

-----------------------------------------------------------------------------
InsertStep(p) == \/ InsertWaitSlot(p) \/ InsertLock(p) \/ InsertAdvance(p)
                 \/ InsertStore(p) \/ InsertUnlock(p) \/ InsertAnnounce(p)

RemoveStep(c) == \/ RemoveWaitItem(c) \/ RemoveLock(c) \/ RemoveAdvance(c)
                 \/ RemoveTake(c) \/ RemoveUnlock(c) \/ RemoveAnnounce(c)

Next == \/ \E p \in Producers : InsertCall(p) \/ InsertStep(p)
        \/ \E c \in Consumers : RemoveCall(c) \/ RemoveStep(c)

Spec == Init /\ [][Next]_vars

(* A thread inside sbuf_insert or sbuf_remove is scheduled when it can move,
   and a worker that is not serving a connection asks for the next one (the
   loop of `thread' in proxy.c, its doit taken to end).  Nobody has to call
   sbuf_insert. *)
FairSpec == /\ Spec
            /\ \A p \in Producers : WF_vars(InsertStep(p))
            /\ \A c \in Consumers : WF_vars(RemoveCall(c) \/ RemoveStep(c))

-----------------------------------------------------------------------------
(* One thread at a time is between P(&sp->mutex) and V(&sp->mutex), though the
   indices are advanced in one step and the array accessed in another. *)
MutualExclusion ==
    /\ \A t, u \in Threads : pc[t] \in Locked /\ pc[u] \in Locked => t = u
    /\ mutex = 0 <=> \E t \in Threads : pc[t] \in Locked

Reserved == {p \in Producers : pc[p] \in Inserting \ {"P(slots)"}}
Claimed == {c \in Consumers : pc[c] \in Removing \ {"P(items)"}}

(* No slot is lost or counted twice: each is free, or announced as an item, or
   held by one thread on its way from one count to the other. *)
SlotsAccounted == slots + items + Cardinality(Reserved) + Cardinality(Claimed) = n

(* The refinement mapping: an index that was advanced for an access that is
   still to come does not count yet. *)
Stored == IF \E p \in Producers : pc[p] = "store" THEN rear - 1 ELSE rear
Taken == IF \E c \in Consumers : pc[c] = "take" THEN front - 1 ELSE front
F == INSTANCE Fifo WITH queue <- [i \in 1 .. Stored - Taken |-> buf[(Taken + i) % n]]

(* The buffer is a bounded FIFO queue ("bounded, shared FIFO buffer with n
   slots", sbuf.c:5): no item is lost, duplicated, overtaken or overwritten. *)
ImplementsFifo == F!Spec

(* Every connection that main inserted is taken by some worker. *)
EachInsertedIsTaken == \A k \in 1 .. MaxInserts : Stored >= k ~> Taken >= k

(* main, the only producer, comes back from sbuf_insert to its accept loop. *)
InsertReturns == \A p \in Producers : pc[p] # "call" ~> pc[p] = "call"

=============================================================================
