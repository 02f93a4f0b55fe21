------------------------------- MODULE Proxy -------------------------------
(***************************************************************************)
(* The caching proxy of proxy.c: main accepts connections and puts them in *)
(* the buffer of sbuf.c (here by its promise, the module Fifo), and the    *)
(* workers take them, look the request up in the cache, and on a miss      *)
(* fetch the object and enter it.  The cache is protected by a first       *)
(* readers-writers lock, built from the semaphores mutex and w.            *)
(*                                                                         *)
(* A connection is named by the URL it asks for, and an object by its URL; *)
(* a text that is not a whole object is "cut".                             *)
(* A step is one semaphore operation, one access to the cache or to the    *)
(* count of readers, or one exchange with a client or a server.            *)
(***************************************************************************)
EXTENDS Integers, Sequences, FiniteSets

CONSTANTS
    Threads,      \* the workers (NTHREADS)
    Urls, NoUrl,
    Kind,         \* how long the object of each URL is
    Quotes,       \* the URLs whose requests occur in the text of each object
    NSlots,       \* slots of the cache (MAX_CACHE_SIZE / MAX_OBJECT_SIZE)
    n,            \* capacity of the buffer (SBUFSIZE)
    MaxAccepts    \* bound of the model: connections accepted

(* "text" fits its slot; "large" passes the limit, which counts the object
   alone, but with its key before it reaches the key of the next slot; "huge"
   exceeds the limit. *)
ASSUME KindAssumption == Kind \in [Urls -> {"text", "large", "huge"}]
ASSUME QuotesAssumption == Quotes \in [Urls -> SUBSET Urls]
ASSUME NSlotsAssumption == NSlots \in Nat \ {0} /\ n \in Nat \ {0} /\ MaxAccepts \in Nat
ASSUME ThreadsAssumption == IsFiniteSet(Threads)
ASSUME NoUrlAssumption == NoUrl \notin Urls /\ "cut" \notin Urls /\ NoUrl # "cut"

VARIABLES
    queue, in, out,       \* the buffer, main's item and each worker's connection
    accepts,              \* connections accepted so far
    alive,                \* the process runs
    cache,                \* the slots
    mutex, w, readcnt,    \* the lock of the cache
    worker                \* the locals of each worker

shared == <<mutex, w, readcnt>>
buffer == <<queue, in, out, accepts, alive>>
vars == <<buffer, cache, shared, worker>>

B == INSTANCE Fifo WITH Producers <- {"main"}, Consumers <- Threads,
                        Items <- Urls, NoItem <- NoUrl

Slots == 1 .. NSlots
Junk == 2               \* what is in a header that an object ran over: not 0,
JunkAge == 1000         \* not 1, and older than anything

Entering == {"r.lock", "r.count", "r.first", "r.unlock"}
Scanning == {"scan", "age", "match", "reset"}
Leaving == {"l.lock", "l.count", "l.last", "l.unlock"}
Writing == {"w.lock", "w.choose", "w.key", "w.object", "w.header", "w.unlock"}
InCache == Entering \cup Scanning \cup Leaving \cup Writing
Outside == {"remove", "request", "refuse", "headers", "ended", "reply", "connect", "fetch", "close"}

Objects == Urls \cup {NoUrl, "cut"}
Slot == [valid : {0, 1, Junk}, age : Nat, key : Urls \cup {NoUrl}, object : Objects]
Locals == [pc : InCache \cup Outside, i : 1 .. NSlots + 1, cnt : Nat, hit : BOOLEAN,
           object : Objects, kept : BOOLEAN]

TypeOK ==
    /\ queue \in Seq(Urls) /\ Len(queue) <= n
    /\ in \in [{"main"} -> Urls \cup {NoUrl}]
    /\ out \in [Threads -> Urls \cup {NoUrl}]
    /\ accepts \in 0 .. MaxAccepts /\ alive \in BOOLEAN
    /\ cache \in [Slots -> Slot]
    /\ mutex \in 0 .. 1 /\ w \in 0 .. 1 /\ readcnt \in 0 .. Cardinality(Threads)
    /\ worker \in [Threads -> Locals]

(* The locals of a worker that is about to ask for a connection. *)
AtRemove == [pc |-> "remove", i |-> 1, cnt |-> 0, hit |-> FALSE, object |-> NoUrl,
             kept |-> FALSE]

(* initialize_cache clears the two words of each slot. *)
Init ==
    /\ B!Init
    /\ accepts = 0 /\ alive = TRUE
    /\ cache = [s \in Slots |-> [valid |-> 0, age |-> 0, key |-> NoUrl, object |-> NoUrl]]
    /\ mutex = 1 /\ w = 1 /\ readcnt = 0
    /\ worker = [t \in Threads |-> AtRemove]

At(t, pc) == alive /\ worker[t].pc = pc
GoTo(t, pc) == worker' = [worker EXCEPT ![t].pc = pc]

P(sem) == sem > 0 /\ sem' = sem - 1
V(sem) == sem' = sem + 1

-----------------------------------------------------------------------------
(* main: the accept loop *)

Accept ==
    /\ alive /\ accepts < MaxAccepts
    /\ B!Call("main")
    /\ accepts' = accepts + 1
    /\ UNCHANGED <<alive, cache, shared, worker>>

Insert ==
    /\ alive
    /\ B!Insert("main")
    /\ UNCHANGED <<accepts, alive, cache, shared, worker>>

-----------------------------------------------------------------------------
(* thread and doit *)

Remove(t) ==
    /\ At(t, "remove")
    /\ B!Remove(t)
    /\ worker' = [worker EXCEPT ![t] = [AtRemove EXCEPT !.pc = "request"]]
    /\ UNCHANGED <<accepts, alive, cache, shared>>

(* What parserequest looks at in a request line.  When the address does not
   start with http:// the host is what an uninitialised array holds, empty or
   not: out[t] is the URL it arrives at. *)
RequestLines == [method : {"GET", "other"}, version : {"HTTP", "other"}, host : {"given", "empty"}]

(* The error it answers with, the first one that applies. *)
parserequest(line) ==
    CASE line.method # "GET" -> "501"
      [] line.method = "GET" /\ line.version # "HTTP" -> "502"
      [] line.method = "GET" /\ line.version = "HTTP" /\ line.host = "empty" -> "503"
      [] OTHER -> "none"

(* The client sends a request line, or ends without one. *)
Request(t) ==
    /\ At(t, "request")
    /\ \/ \E line \in RequestLines :
              GoTo(t, IF parserequest(line) = "none" THEN "r.lock" ELSE "refuse")
       \/ GoTo(t, "close")
    /\ UNCHANGED <<buffer, cache, shared>>

(* clienterror *)
Refuse(t) ==
    /\ At(t, "refuse")
    /\ GoTo(t, "close")
    /\ UNCHANGED <<buffer, cache, shared>>

(* read_requesthdrs appends the lines it keeps to the request until an empty one;
   the proxy sends its own headers in the place of those it drops.  `kept' says
   whether its array tmp holds a line that is appended. *)
Headers(t) ==
    /\ At(t, "headers")
    /\ \/ worker' = [worker EXCEPT ![t].pc = IF worker[t].hit THEN "reply" ELSE "connect",
                                   ![t].kept = FALSE]
       \/ \E kept \in BOOLEAN : worker' = [worker EXCEPT ![t].kept = kept]
       \/ GoTo(t, "ended")
    /\ UNCHANGED <<buffer, cache, shared>>

(* How the addresses of getaddrinfo's list turn out: open_clientfd takes the
   first it can connect to. *)
AddressLists == {<<>>} \cup [1 .. 2 -> {"no socket", "refused", "good"}]
Found(list) == \E i \in DOMAIN list : list[i] = "good"

Connect(t) ==
    /\ At(t, "connect")
    /\ \E list \in AddressLists : Found(list) /\ GoTo(t, "fetch")
    /\ UNCHANGED <<buffer, cache, shared>>

Reply(t) ==
    /\ At(t, "reply")
    /\ GoTo(t, "close")
    /\ UNCHANGED <<buffer, cache, shared>>

(* The server has answered and closed the connection. *)
Fetch(t) ==
    /\ At(t, "fetch")
    /\ worker' = [worker EXCEPT
           ![t].object = IF Kind[out[t]] = "huge" THEN "cut" ELSE out[t],
           ![t].pc     = IF Kind[out[t]] = "huge" THEN "close" ELSE "w.lock"]
    /\ UNCHANGED <<buffer, cache, shared>>

Close(t) ==
    /\ At(t, "close")
    /\ B!Return(t)
    /\ worker' = [worker EXCEPT ![t] = AtRemove]
    /\ UNCHANGED <<accepts, alive, cache, shared>>

(* The process ends, with the connections of every worker. *)
Dies ==
    /\ alive' = FALSE
    /\ queue' = <<>> /\ in' = [p \in {"main"} |-> NoUrl] /\ out' = [c \in Threads |-> NoUrl]
    /\ cache' = [s \in Slots |-> [valid |-> 0, age |-> 0, key |-> NoUrl, object |-> NoUrl]]
    /\ mutex' = 1 /\ w' = 1 /\ readcnt' = 0
    /\ worker' = [c \in Threads |-> AtRemove]
    /\ UNCHANGED accepts

(* A failing read or write, or a server with no address to connect to: the
   wrappers of csapp.c call unix_error, which exits. *)
UnixError(t) ==
    /\ \/ \E pc \in {"request", "refuse", "headers", "reply", "fetch"} : At(t, pc)
       \/ At(t, "connect") /\ \E list \in AddressLists : ~Found(list)
    /\ Dies

(* The lines kept do not fit into the request, or the input has ended: then the
   last line is appended again and again if it is a kept one, and otherwise the
   loop goes on for ever with nothing to append (the worker stays at "ended"). *)
Overrun(t) ==
    /\ At(t, "headers") \/ (At(t, "ended") /\ worker[t].kept)
    /\ Dies

-----------------------------------------------------------------------------
(* reader(buf, id) *)

ReaderLock(t) ==
    /\ At(t, "r.lock") /\ P(mutex)
    /\ GoTo(t, "r.count")
    /\ UNCHANGED <<buffer, cache, w, readcnt>>

ReaderCount(t) ==
    /\ At(t, "r.count")
    /\ readcnt' = readcnt + 1
    /\ GoTo(t, IF readcnt = 0 THEN "r.first" ELSE "r.unlock")
    /\ UNCHANGED <<buffer, cache, mutex, w>>

(* mutant: the first reader does not lock the writers out *)
ReaderFirstNot(t) ==
    /\ At(t, "r.first")
    /\ GoTo(t, "r.unlock")
    /\ UNCHANGED <<buffer, cache, shared>>

ReaderFirst(t) ==
    /\ At(t, "r.first") /\ P(w)
    /\ GoTo(t, "r.unlock")
    /\ UNCHANGED <<buffer, cache, mutex, readcnt>>

ReaderUnlock(t) ==
    /\ At(t, "r.unlock") /\ V(mutex)
    /\ GoTo(t, "scan")
    /\ UNCHANGED <<buffer, cache, w, readcnt>>

(* mutant: the scan ends one slot early *)
ScanShort(t) ==
    /\ At(t, "scan")
    /\ LET s == worker[t].i
       IN  \/ s >= NSlots /\ GoTo(t, "l.lock")
           \/ s < NSlots /\ cache[s].valid = 1
                   /\ worker' = [worker EXCEPT ![t].pc = "age", ![t].cnt = cache[s].age]
           \/ s < NSlots /\ cache[s].valid # 1
                   /\ worker' = [worker EXCEPT ![t].i = s + 1]
    /\ UNCHANGED <<buffer, cache, shared>>

Scan(t) ==
    /\ At(t, "scan")
    /\ LET s == worker[t].i
       IN  \/ s > NSlots /\ GoTo(t, "l.lock")
           \/ s \in Slots /\ cache[s].valid = 1
                   /\ worker' = [worker EXCEPT ![t].pc = "age", ![t].cnt = cache[s].age]
           \/ s \in Slots /\ cache[s].valid # 1
                   /\ worker' = [worker EXCEPT ![t].i = s + 1]
    /\ UNCHANGED <<buffer, cache, shared>>

(* `+= 1' loads and stores in two steps; other readers may come between. *)
ScanAge(t) ==
    /\ At(t, "age")
    /\ cache' = [cache EXCEPT ![worker[t].i].age = worker[t].cnt + 1]
    /\ GoTo(t, "match")
    /\ UNCHANGED <<buffer, shared>>

(* The requests that occur in the object of a slot; one that was cut may have
   lost them. *)
QuotedIn(slot) ==
    {url \in Urls : \/ slot.object \in Urls /\ url \in Quotes[slot.object]
                    \/ slot.object = "cut" /\ slot.key \in Urls /\ url \in Quotes[slot.key]}

(* strstr looks for the request in the whole text of the slot, key and object
   (no key occurs in another one).  strcpy takes what comes after as many
   characters as the request has: the object, when the key has as many, and
   otherwise the end of the key with the object, or a part of the object. *)
ScanMatch(t) ==
    /\ At(t, "match")
    /\ LET s == worker[t].i
           Takes(text) == worker' = [worker EXCEPT ![t].pc = "reset", ![t].object = text]
       IN  \/ cache[s].key = out[t] /\ Takes(cache[s].object)
           \/ /\ cache[s].key # out[t] /\ out[t] \in QuotedIn(cache[s])
              /\ \E text \in {cache[s].object, "cut"} : Takes(text)
           \/ /\ cache[s].key # out[t]
              /\ out[t] \notin QuotedIn(cache[s]) \/ cache[s].object = "cut"
              /\ worker' = [worker EXCEPT ![t].pc = "scan", ![t].i = s + 1]
    /\ UNCHANGED <<buffer, cache, shared>>

ScanReset(t) ==
    /\ At(t, "reset")
    /\ cache' = [cache EXCEPT ![worker[t].i].age = 0]
    /\ worker' = [worker EXCEPT ![t].pc = "l.lock", ![t].hit = TRUE]
    /\ UNCHANGED <<buffer, shared>>

(* mutant: the count is decremented without the mutex *)
LeaveLockNot(t) ==
    /\ At(t, "l.lock")
    /\ GoTo(t, "l.count")
    /\ UNCHANGED <<buffer, cache, shared>>

LeaveLock(t) ==
    /\ At(t, "l.lock") /\ P(mutex)
    /\ GoTo(t, "l.count")
    /\ UNCHANGED <<buffer, cache, w, readcnt>>

LeaveCount(t) ==
    /\ At(t, "l.count")
    /\ readcnt' = readcnt - 1
    /\ GoTo(t, IF readcnt = 1 THEN "l.last" ELSE "l.unlock")
    /\ UNCHANGED <<buffer, cache, mutex, w>>

LeaveLast(t) ==
    /\ At(t, "l.last") /\ V(w)
    /\ GoTo(t, "l.unlock")
    /\ UNCHANGED <<buffer, cache, mutex, readcnt>>

(* mutant: the mutex is not given back *)
LeaveUnlockNot(t) ==
    /\ At(t, "l.unlock")
    /\ GoTo(t, "headers")
    /\ UNCHANGED <<buffer, cache, shared>>

LeaveUnlock(t) ==
    /\ At(t, "l.unlock") /\ V(mutex)
    /\ GoTo(t, "headers")
    /\ UNCHANGED <<buffer, cache, w, readcnt>>

-----------------------------------------------------------------------------
(* writer(tmp, id) *)

(* mutant: the writer does not lock *)
WriterLockNot(t) ==
    /\ At(t, "w.lock")
    /\ GoTo(t, "w.choose")
    /\ UNCHANGED <<buffer, cache, shared>>

WriterLock(t) ==
    /\ At(t, "w.lock") /\ P(w)
    /\ GoTo(t, "w.choose")
    /\ UNCHANGED <<buffer, cache, mutex, readcnt>>

(* The first empty slot, or else the first of the oldest. *)
Empty == {s \in Slots : cache[s].valid = 0}
Oldest == {s \in Slots : \A r \in Slots : cache[r].age <= cache[s].age}
Lowest(S) == CHOOSE s \in S : \A r \in S : s <= r

WriterChoose(t) ==
    /\ At(t, "w.choose")
    /\ worker' = [worker EXCEPT ![t].pc = "w.key",
                                ![t].i = Lowest(IF Empty # {} THEN Empty ELSE Oldest)]
    /\ UNCHANGED <<buffer, cache, shared>>

IsLarge(object) == object \in Urls /\ Kind[object] = "large"

(* The key overwrites the end of a large object in the slot before. *)
WriterKey(t) ==
    /\ At(t, "w.key")
    /\ LET s == worker[t].i
       IN  cache' = [r \in Slots |->
               IF r = s THEN [cache[s] EXCEPT !.key = out[t]]
               ELSE IF r = s - 1 /\ IsLarge(cache[r].object)
                    THEN [cache[r] EXCEPT !.object = "cut"]
               ELSE cache[r]]
    /\ GoTo(t, "w.object")
    /\ UNCHANGED <<buffer, shared>>

(* A large object runs over the header and the key of the slot behind. *)
WriterObject(t) ==
    /\ At(t, "w.object")
    /\ LET s == worker[t].i
       IN  cache' = [r \in Slots |->
               IF r = s THEN [cache[s] EXCEPT !.object = worker[t].object]
               ELSE IF r = s + 1 /\ IsLarge(worker[t].object)
                    THEN [cache[r] EXCEPT !.valid = Junk, !.age = JunkAge, !.key = NoUrl]
               ELSE cache[r]]
    /\ GoTo(t, "w.header")
    /\ UNCHANGED <<buffer, shared>>

WriterHeader(t) ==
    /\ At(t, "w.header")
    /\ cache' = [cache EXCEPT ![worker[t].i].age = 0, ![worker[t].i].valid = 1]
    /\ GoTo(t, "w.unlock")
    /\ UNCHANGED <<buffer, shared>>

WriterUnlock(t) ==
    /\ At(t, "w.unlock") /\ V(w)
    /\ GoTo(t, "close")
    /\ UNCHANGED <<buffer, cache, mutex, readcnt>>

-----------------------------------------------------------------------------
CacheStep(t) == \/ ReaderLock(t) \/ ReaderCount(t) \/ ReaderFirst(t) \/ ReaderUnlock(t)
                \/ Scan(t) \/ ScanAge(t) \/ ScanMatch(t) \/ ScanReset(t)
                \/ LeaveLock(t) \/ LeaveCount(t) \/ LeaveLast(t) \/ LeaveUnlock(t)
                \/ WriterLock(t) \/ WriterChoose(t) \/ WriterKey(t)
                \/ WriterObject(t) \/ WriterHeader(t) \/ WriterUnlock(t)

ConnectionStep(t) == \/ Remove(t) \/ Request(t) \/ Refuse(t) \/ Headers(t) \/ Reply(t)
                     \/ Connect(t) \/ Fetch(t) \/ Close(t) \/ UnixError(t) \/ Overrun(t)

Next == \/ Accept \/ Insert
        \/ \E t \in Threads : CacheStep(t) \/ ConnectionStep(t)

Spec == Init /\ [][Next]_vars

(* The threads are scheduled.  Nothing is assumed of clients and servers. *)
FairSpec == Spec /\ \A t \in Threads : WF_vars(CacheStep(t))

-----------------------------------------------------------------------------
Counted == {t \in Threads : worker[t].pc \in
               {"r.first", "r.unlock", "l.lock", "l.count"} \cup Scanning}
Readers == {t \in Threads : worker[t].pc \in
               {"r.unlock", "l.lock", "l.count", "l.last"} \cup Scanning}
Writers == {t \in Threads : worker[t].pc \in Writing \ {"w.lock"}}

(* The cache has readers or one writer, and the semaphore w and the count of
   readers say which, though they are changed in steps of their own; with it
   the type invariant, the semaphores among it. *)
ReadersOrWriter ==
    /\ TypeOK
    /\ Writers # {} => Readers = {} /\ Cardinality(Writers) = 1
    /\ w = 0 <=> Readers \cup Writers # {}
    /\ readcnt = Cardinality(Counted)

(* What the proxy serves from its cache is the object of the URL asked for, as
   the server sent it ("See if the proxy fetch succeeded by comparing it with
   the original file", driver.sh:385-386). *)
CachedCopyIsOriginal == \A t \in Threads : worker[t].pc = "reply" => worker[t].object = out[t]

(* The other URLs whose objects quote the request for url, and what a hit on it
   may come to. *)
Quoting(url) == {other \in Urls \ {url} : url \in Quotes[other]}
Servable(url) == IF Quoting(url) = {} THEN {url} ELSE {url, "cut"} \cup Quoting(url)

(* A hit serves the object asked for, whole, whatever other workers look up and
   enter meanwhile, unless another object quotes the request; and then it serves
   that one, or a part of it, and never a third (proxy.c:159-160 and 196-199). *)
HitServesOriginal ==
    \A t \in Threads : worker[t].pc = "reply" => worker[t].object \in Servable(out[t])

(* A miss is a miss: at the end of the scan no slot holds the object, whatever
   the other readers did to the ages during it. *)
MissesAreMisses ==
    \A t \in Threads :
        worker[t].pc \in {"l.lock", "l.count", "l.last"} /\ ~worker[t].hit =>
            \A s \in Slots : ~(cache[s].valid = 1 /\ cache[s].key = out[t])

(* An object leaves the cache only when no slot is free for the new one: what
   the writer saw when it chose the slot still holds when it fills it. *)
EvictsOnlyWhenFull ==
    [][\A s \in Slots : cache[s].valid = 1 /\ cache'[s].key # cache[s].key
           => Empty = {} \/ ~alive']_vars

(* The lookup and the insertion come to an end for every worker, even if the
   server or the client of another worker never says anything again. *)
CacheReturns == \A t \in Threads : worker[t].pc \in InCache ~> worker[t].pc \notin InCache

=============================================================================
