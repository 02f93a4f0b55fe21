---------------------------- MODULE ProxyProofs -----------------------------
(***************************************************************************)
(* Theorems about the proxy, for any number of workers, slots and URLs:    *)
(* its state is well typed, the cache has readers or one writer, and what  *)
(* the cache holds, serves and evicts is right.  The second part rests on  *)
(* the first: while a worker reads, the slots change only in their ages.   *)
(***************************************************************************)
EXTENDS Proxy, WellOrder, FiniteSetTheorems

InMutex == {"r.count", "r.first", "r.unlock", "l.count", "l.last", "l.unlock"}
IsCounted == {"r.first", "r.unlock", "l.lock", "l.count"} \cup Scanning
IsReader == {"r.unlock", "l.lock", "l.count", "l.last"} \cup Scanning
IsWriter == Writing \ {"w.lock"}

(* The types of the buffer, of the cache and of the locals of the workers, of
   which the semaphores and the bound of the count follow below. *)
BufferTyped ==
    /\ queue \in Seq(Urls) /\ Len(queue) <= n
    /\ in \in [{"main"} -> Urls \cup {NoUrl}]
    /\ out \in [Threads -> Urls \cup {NoUrl}]
    /\ accepts \in 0 .. MaxAccepts /\ alive \in BOOLEAN
CacheTyped == cache \in [Slots -> Slot]
WorkersTyped ==
    /\ worker \in [Threads -> Locals]
    /\ \A t \in Threads : worker[t].pc \in {"age", "match"} => worker[t].i \in Slots
Typed == BufferTyped /\ CacheTyped /\ WorkersTyped

(* The semaphore mutex, the threads between P(&mutex) and V(&mutex), and what
   the count of readers is worth while one of them is there. *)
MutexHeld ==
    /\ mutex \in 0 .. 1
    /\ \A t \in Threads : worker[t].pc \in InMutex => mutex = 0
    /\ \A t, u \in Threads : worker[t].pc \in InMutex /\ worker[u].pc \in InMutex => t = u
    /\ readcnt = Cardinality(Counted)
    /\ \A t \in Threads : worker[t].pc = "l.last" => Counted = {}

(* The semaphore w and who has it. *)
WHeld ==
    /\ w \in 0 .. 1
    /\ w = 0 <=> Readers \cup Writers # {}
    /\ Writers # {} => Readers = {}
    /\ \A t, u \in Writers : t = u

(* The inductive invariant. *)
IInv == Typed /\ MutexHeld /\ WHeld

(* The classes of places that the lock tells apart, and a step in which no
   thread but t moves. *)
SameClass(t) ==
    \A C \in {InMutex, IsCounted, IsReader, IsWriter, {"l.last"}} :
        worker'[t].pc \in C <=> worker[t].pc \in C
OnlyMoves(t) == \A u \in Threads \ {t} : worker'[u].pc = worker[u].pc

-----------------------------------------------------------------------------
(* The sets of threads the lock counts are finite. *)
LEMMA SetsFinite ==
    /\ IsFiniteSet(Counted)
    /\ Cardinality(Counted) \in 0 .. Cardinality(Threads)
<1>1. Counted \in SUBSET Threads
  BY DEF Counted
<1>. QED  BY <1>1, ThreadsAssumption, FS_Subset, FS_CardinalityType

(* The sets of threads after a step of one thread. *)
LEMMA Moves ==
    ASSUME NEW t \in Threads, OnlyMoves(t)
    PROVE  /\ Counted' = IF worker'[t].pc \in IsCounted THEN Counted \cup {t} ELSE Counted \ {t}
           /\ Readers' = IF worker'[t].pc \in IsReader THEN Readers \cup {t} ELSE Readers \ {t}
           /\ Writers' = IF worker'[t].pc \in IsWriter THEN Writers \cup {t} ELSE Writers \ {t}
<1>1. \A u \in Threads : u = t \/ worker'[u].pc = worker[u].pc
  BY DEF OnlyMoves
<1>2. Counted' = IF worker'[t].pc \in IsCounted THEN Counted \cup {t} ELSE Counted \ {t}
  BY <1>1 DEF Counted, IsCounted
<1>3. Readers' = IF worker'[t].pc \in IsReader THEN Readers \cup {t} ELSE Readers \ {t}
  BY <1>1 DEF Readers, IsReader
<1>4. Writers' = IF worker'[t].pc \in IsWriter THEN Writers \cup {t} ELSE Writers \ {t}
  BY <1>1 DEF Writers, IsWriter
<1>. QED  BY <1>2, <1>3, <1>4

(* The sets by their classes. *)
LEMMA Sets ==
    /\ Counted = {t \in Threads : worker[t].pc \in IsCounted}
    /\ Readers = {t \in Threads : worker[t].pc \in IsReader}
    /\ Writers = {t \in Threads : worker[t].pc \in IsWriter}
BY DEF Counted, Readers, Writers, IsCounted, IsReader, IsWriter

(* A thread that is not at the lock changes none of this. *)
LEMMA Elsewhere ==
    ASSUME MutexHeld, WHeld, NEW t \in Threads, OnlyMoves(t), SameClass(t), UNCHANGED shared
    PROVE  MutexHeld' /\ WHeld'
<1>1. \A u \in Threads : \A C \in {InMutex, IsCounted, IsReader, IsWriter, {"l.last"}} :
          worker'[u].pc \in C <=> worker[u].pc \in C
  BY DEF OnlyMoves, SameClass
<1>2. \A u \in Threads :
          /\ worker'[u].pc \in InMutex <=> worker[u].pc \in InMutex
          /\ worker'[u].pc = "l.last" <=> worker[u].pc = "l.last"
  BY <1>1
<1>3. Counted' = Counted /\ Readers' = Readers /\ Writers' = Writers
  <2>1. Counted' = {u \in Threads : worker'[u].pc \in IsCounted}
    BY DEF Counted, IsCounted
  <2>2. Readers' = {u \in Threads : worker'[u].pc \in IsReader}
    BY DEF Readers, IsReader
  <2>3. Writers' = {u \in Threads : worker'[u].pc \in IsWriter}
    BY DEF Writers, IsWriter
  <2>. QED  BY <1>1, <2>1, <2>2, <2>3, Sets
<1>4. MutexHeld'
  BY <1>2, <1>3 DEF MutexHeld, shared
<1>5. WHeld'
  BY <1>3 DEF WHeld, shared
<1>. QED  BY <1>4, <1>5

(* A process that has just started holds no lock. *)
LEMMA Idle ==
    ASSUME \A t \in Threads : worker[t].pc = "remove",
           mutex = 1, w = 1, readcnt = 0
    PROVE  MutexHeld /\ WHeld
<1>1. Counted = {} /\ Readers = {} /\ Writers = {}
  BY DEF Counted, Readers, Writers, Scanning, Writing
<1>2. Cardinality(Counted) = 0
  BY <1>1, FS_EmptySet
<1>. QED  BY <1>1, <1>2 DEF MutexHeld, WHeld, InMutex
-----------------------------------------------------------------------------
(* What GoTo does. *)
LEMMA Goes ==
    ASSUME worker \in [Threads -> Locals], NEW t \in Threads, NEW pc, GoTo(t, pc)
    PROVE  worker'[t].pc = pc /\ OnlyMoves(t)
<1>1. worker'[t].pc = pc
  BY DEF GoTo, Locals
<1>2. OnlyMoves(t)
  BY DEF GoTo, OnlyMoves
<1>. QED  BY <1>1, <1>2

(* The mutex is taken by a thread that comes to it, at one of the two places
   where no set changes, *)
LEMMA TakesMutex ==
    ASSUME worker \in [Threads -> Locals], MutexHeld, WHeld, NEW t \in Threads,
           ReaderLock(t) \/ LeaveLock(t)
    PROVE  MutexHeld' /\ WHeld'
<1>1. PICK pc \in {"r.count", "l.count"} :
          /\ GoTo(t, pc)
          /\ worker[t].pc = IF pc = "r.count" THEN "r.lock" ELSE "l.lock"
  BY DEF ReaderLock, LeaveLock, At
<1>2. mutex = 1 /\ mutex' = 0 /\ w' = w /\ readcnt' = readcnt
  BY DEF ReaderLock, LeaveLock, P, MutexHeld
<1>3. worker'[t].pc = pc /\ OnlyMoves(t)
  BY <1>1, Goes
<1>4. Counted' = Counted /\ Readers' = Readers /\ Writers' = Writers
  BY <1>1, <1>3, Moves, Sets DEF IsCounted, IsReader, IsWriter, Scanning, Writing
<1>5. \A u \in Threads : worker[u].pc \notin InMutex
  BY <1>2 DEF MutexHeld
<1>6. \A u \in Threads : u = t \/ worker'[u].pc = worker[u].pc
  BY <1>3 DEF OnlyMoves
<1>7. \A u \in Threads : worker'[u].pc \in InMutex => u = t
  BY <1>5, <1>6
<1>8. \A u \in Threads : worker'[u].pc # "l.last"
  BY <1>3, <1>5, <1>6 DEF InMutex
<1>9. MutexHeld'
  BY <1>2, <1>4, <1>7, <1>8 DEF MutexHeld
<1>. QED  BY <1>2, <1>4, <1>9 DEF WHeld

(* and given back by the only thread that has it. *)
LEMMA GivesMutex ==
    ASSUME worker \in [Threads -> Locals], MutexHeld, WHeld, NEW t \in Threads,
           ReaderUnlock(t) \/ LeaveUnlock(t)
    PROVE  MutexHeld' /\ WHeld'
<1>1. PICK pc \in {"scan", "headers"} :
          /\ GoTo(t, pc)
          /\ worker[t].pc = IF pc = "scan" THEN "r.unlock" ELSE "l.unlock"
  BY DEF ReaderUnlock, LeaveUnlock, At
<1>2. mutex = 0 /\ mutex' = 1 /\ w' = w /\ readcnt' = readcnt
  BY <1>1 DEF ReaderUnlock, LeaveUnlock, V, MutexHeld, InMutex
<1>3. worker'[t].pc = pc /\ OnlyMoves(t)
  BY <1>1, Goes
<1>4. Counted' = Counted /\ Readers' = Readers /\ Writers' = Writers
  BY <1>1, <1>3, Moves, Sets DEF IsCounted, IsReader, IsWriter, Scanning, Writing
<1>5. \A u \in Threads : worker[u].pc \in InMutex => u = t
  BY <1>1 DEF MutexHeld, InMutex
<1>6. \A u \in Threads : u = t \/ worker'[u].pc = worker[u].pc
  BY <1>3 DEF OnlyMoves
<1>7. \A u \in Threads : worker'[u].pc \notin InMutex
  BY <1>3, <1>5, <1>6 DEF InMutex
<1>8. \A u \in Threads : worker'[u].pc # "l.last"
  BY <1>7 DEF InMutex
<1>9. MutexHeld'
  BY <1>2, <1>4, <1>7, <1>8 DEF MutexHeld
<1>. QED  BY <1>2, <1>4, <1>9 DEF WHeld

(* While a thread has the mutex the others that are counted are readers, *)
LEMMA CountedRead ==
    ASSUME MutexHeld, NEW t \in Threads, worker[t].pc \in InMutex,
           NEW u \in Counted, u # t
    PROVE  u \in Readers
<1>1. u \in Threads /\ worker[u].pc \in IsCounted /\ worker[u].pc \notin InMutex
  BY Sets DEF MutexHeld
<1>2. worker[u].pc \in IsReader
  BY <1>1 DEF IsCounted, IsReader, InMutex
<1>. QED  BY <1>1, <1>2, Sets

(* and the others that are readers are counted. *)
LEMMA ReadersCounted ==
    ASSUME MutexHeld, NEW t \in Threads, worker[t].pc \in InMutex,
           NEW u \in Readers, u # t
    PROVE  u \in Counted
<1>1. u \in Threads /\ worker[u].pc \in IsReader /\ worker[u].pc \notin InMutex
  BY Sets DEF MutexHeld
<1>2. worker[u].pc \in IsCounted
  BY <1>1 DEF IsCounted, IsReader, InMutex
<1>. QED  BY <1>1, <1>2, Sets

(* A step of the thread that has the mutex, after which it still has it. *)
LEMMA MutexKept ==
    ASSUME MutexHeld, NEW t \in Threads, OnlyMoves(t),
           worker[t].pc \in InMutex, worker'[t].pc \in InMutex,
           mutex' = mutex, readcnt' = Cardinality(Counted'),
           worker'[t].pc = "l.last" => Counted' = {}
    PROVE  MutexHeld'
<1>1. mutex = 0 /\ \A u \in Threads : worker[u].pc \in InMutex => u = t
  BY DEF MutexHeld
<1>2. \A u \in Threads : u = t \/ worker'[u].pc = worker[u].pc
  BY DEF OnlyMoves
<1>3. \A u \in Threads : worker'[u].pc \in InMutex => u = t
  BY <1>1, <1>2
<1>4. \A u \in Threads : worker'[u].pc = "l.last" => u = t
  BY <1>3 DEF InMutex
<1>. QED  BY <1>1, <1>3, <1>4 DEF MutexHeld

-----------------------------------------------------------------------------
(* A reader is counted: the first of them has to lock the writers out, and
   the others find them locked out. *)
LEMMA CountsReader ==
    ASSUME worker \in [Threads -> Locals], MutexHeld, WHeld, NEW t \in Threads,
           ReaderCount(t)
    PROVE  MutexHeld' /\ WHeld'
<1>1. /\ worker[t].pc = "r.count" /\ mutex' = mutex /\ w' = w
      /\ readcnt = Cardinality(Counted) /\ readcnt' = readcnt + 1
  BY DEF ReaderCount, At, MutexHeld
<1>2. worker'[t].pc = (IF readcnt = 0 THEN "r.first" ELSE "r.unlock") /\ OnlyMoves(t)
  BY Goes DEF ReaderCount
<1>3. /\ Counted' = Counted \cup {t}
      /\ Readers' = IF readcnt = 0 THEN Readers \ {t} ELSE Readers \cup {t}
      /\ Writers' = Writers \ {t}
  BY <1>2, Moves DEF IsCounted, IsReader, IsWriter, Scanning, Writing
<1>4. t \notin Counted /\ t \notin Readers /\ t \notin Writers
  BY <1>1, Sets DEF IsCounted, IsReader, IsWriter, Scanning, Writing
<1>5. readcnt' = Cardinality(Counted')
  BY <1>1, <1>3, <1>4, SetsFinite, FS_AddElement
<1>6. worker[t].pc \in InMutex /\ worker'[t].pc \in InMutex /\ worker'[t].pc # "l.last"
  BY <1>1, <1>2 DEF InMutex
<1>7. MutexHeld'
  BY <1>1, <1>2, <1>5, <1>6, MutexKept
<1>8. CASE readcnt = 0
  BY <1>1, <1>3, <1>4, <1>7, <1>8 DEF WHeld
<1>9. CASE readcnt # 0
  <2>1. PICK u \in Counted : TRUE
    BY <1>1, <1>9, FS_EmptySet
  <2>2. u \in Readers
    BY <1>4, <1>6, <2>1, CountedRead
  <2>3. w = 0 /\ Writers = {}
    BY <2>2 DEF WHeld
  <2>. QED  BY <1>1, <1>3, <1>7, <1>9, <2>3 DEF WHeld
<1>. QED  BY <1>8, <1>9

(* The first reader locks the writers out. *)
LEMMA LocksWriters ==
    ASSUME worker \in [Threads -> Locals], MutexHeld, WHeld, NEW t \in Threads,
           ReaderFirst(t)
    PROVE  MutexHeld' /\ WHeld'
<1>1. /\ worker[t].pc = "r.first" /\ mutex' = mutex /\ readcnt' = readcnt
      /\ readcnt = Cardinality(Counted) /\ w = 1 /\ w' = 0
  BY DEF ReaderFirst, At, MutexHeld, WHeld, P
<1>2. worker'[t].pc = "r.unlock" /\ OnlyMoves(t)
  BY Goes DEF ReaderFirst
<1>3. Counted' = Counted \cup {t} /\ Readers' = Readers \cup {t} /\ Writers' = Writers \ {t}
  BY <1>2, Moves DEF IsCounted, IsReader, IsWriter, Scanning, Writing
<1>4. t \in Counted
  BY <1>1, Sets DEF IsCounted
<1>5. Readers = {} /\ Writers = {}
  BY <1>1 DEF WHeld
<1>6. MutexHeld'
  <2>1. worker[t].pc \in InMutex /\ worker'[t].pc \in InMutex /\ worker'[t].pc # "l.last"
    BY <1>1, <1>2 DEF InMutex
  <2>2. readcnt' = Cardinality(Counted')
    <3>1. Counted' = Counted
      BY <1>3, <1>4
    <3>. QED  BY <1>1, <3>1
  <2>. QED  BY <1>1, <1>2, <2>1, <2>2, MutexKept
<1>. QED  BY <1>1, <1>3, <1>5, <1>6 DEF WHeld

(* A reader that leaves is no longer counted; when it is not the last, another
   one is left. *)
LEMMA UncountsReader ==
    ASSUME worker \in [Threads -> Locals], MutexHeld, WHeld, NEW t \in Threads,
           LeaveCount(t)
    PROVE  MutexHeld' /\ WHeld'
<1>1. /\ worker[t].pc = "l.count" /\ mutex' = mutex /\ w' = w
      /\ readcnt = Cardinality(Counted) /\ readcnt' = readcnt - 1
  BY DEF LeaveCount, At, MutexHeld
<1>2. worker'[t].pc = (IF readcnt = 1 THEN "l.last" ELSE "l.unlock") /\ OnlyMoves(t)
  BY Goes DEF LeaveCount
<1>3. /\ Counted' = Counted \ {t}
      /\ Readers' = IF readcnt = 1 THEN Readers \cup {t} ELSE Readers \ {t}
      /\ Writers' = Writers \ {t}
  BY <1>2, Moves DEF IsCounted, IsReader, IsWriter, Scanning, Writing
<1>4. t \in Counted /\ t \in Readers
  BY <1>1, Sets DEF IsCounted, IsReader
<1>5. w = 0 /\ Writers = {}
  BY <1>4 DEF WHeld
<1>6. readcnt' = Cardinality(Counted') /\ IsFiniteSet(Counted')
  BY <1>1, <1>3, <1>4, SetsFinite, FS_RemoveElement
<1>7. worker[t].pc \in InMutex /\ worker'[t].pc \in InMutex
  BY <1>1, <1>2 DEF InMutex
<1>8. readcnt = 1 => Counted' = {}
  BY <1>1, <1>6, FS_EmptySet
<1>9. MutexHeld'
  BY <1>1, <1>2, <1>6, <1>7, <1>8, MutexKept
<1>10. CASE readcnt = 1
  BY <1>1, <1>3, <1>4, <1>5, <1>9, <1>10 DEF WHeld
<1>11. CASE readcnt # 1
  <2>1. PICK u \in Counted' : TRUE
    <3>1. readcnt' # 0
      BY <1>1, <1>11, SetsFinite
    <3>. QED  BY <1>6, <3>1, FS_EmptySet
  <2>2. u \in Counted /\ u # t
    BY <1>3, <2>1
  <2>3. u \in Readers'
    BY <1>3, <1>7, <1>11, <2>2, CountedRead
  <2>. QED  BY <1>1, <1>3, <1>5, <1>9, <2>3 DEF WHeld
<1>. QED  BY <1>10, <1>11

(* The last reader lets the writers in: no other reader is left. *)
LEMMA AdmitsWriters ==
    ASSUME worker \in [Threads -> Locals], MutexHeld, WHeld, NEW t \in Threads,
           LeaveLast(t)
    PROVE  MutexHeld' /\ WHeld'
<1>1. /\ worker[t].pc = "l.last" /\ mutex' = mutex /\ readcnt' = readcnt
      /\ readcnt = Cardinality(Counted) /\ w' = w + 1 /\ Counted = {}
  BY DEF LeaveLast, At, MutexHeld, V
<1>2. worker'[t].pc = "l.unlock" /\ OnlyMoves(t)
  BY Goes DEF LeaveLast
<1>3. Counted' = Counted \ {t} /\ Readers' = Readers \ {t} /\ Writers' = Writers \ {t}
  BY <1>2, Moves DEF IsCounted, IsReader, IsWriter, Scanning, Writing
<1>4. t \in Readers
  BY <1>1, Sets DEF IsReader
<1>5. w = 0 /\ Writers = {}
  BY <1>4 DEF WHeld
<1>6. worker[t].pc \in InMutex /\ worker'[t].pc \in InMutex /\ worker'[t].pc # "l.last"
  BY <1>1, <1>2 DEF InMutex
<1>7. Readers' = {}
  BY <1>1, <1>3, <1>6, ReadersCounted
<1>8. MutexHeld'
  <2>1. readcnt' = Cardinality(Counted')
    <3>1. Counted' = Counted
      BY <1>1, <1>3
    <3>. QED  BY <1>1, <3>1
  <2>. QED  BY <1>1, <1>2, <1>6, <2>1, MutexKept
<1>. QED  BY <1>1, <1>3, <1>5, <1>7, <1>8 DEF WHeld

-----------------------------------------------------------------------------
(* A step that neither takes nor gives the mutex and leaves the count alone. *)
LEMMA MutexUntouched ==
    ASSUME MutexHeld, NEW t \in Threads, OnlyMoves(t),
           worker[t].pc \notin InMutex, worker'[t].pc \notin InMutex,
           mutex' = mutex, readcnt' = readcnt, Counted' = Counted
    PROVE  MutexHeld'
<1>1. \A u \in Threads : u = t \/ worker'[u].pc = worker[u].pc
  BY DEF OnlyMoves
<1>2. \A u \in Threads : worker'[u].pc \in InMutex => worker'[u].pc = worker[u].pc
  BY <1>1
<1>3. \A u \in Threads : worker'[u].pc = "l.last" => Counted = {}
  BY <1>2 DEF MutexHeld, InMutex
<1>. QED  BY <1>2, <1>3 DEF MutexHeld

(* A writer locks everyone out, *)
LEMMA WriterEnters ==
    ASSUME worker \in [Threads -> Locals], MutexHeld, WHeld, NEW t \in Threads,
           WriterLock(t)
    PROVE  MutexHeld' /\ WHeld'
<1>1. /\ worker[t].pc = "w.lock" /\ mutex' = mutex /\ readcnt' = readcnt
      /\ w = 1 /\ w' = 0
  BY DEF WriterLock, At, WHeld, P
<1>2. worker'[t].pc = "w.choose" /\ OnlyMoves(t)
  BY Goes DEF WriterLock
<1>3. Counted' = Counted \ {t} /\ Readers' = Readers \ {t} /\ Writers' = Writers \cup {t}
  BY <1>2, Moves DEF IsCounted, IsReader, IsWriter, Scanning, Writing
<1>4. t \notin Counted
  BY <1>1, Sets DEF IsCounted, Scanning
<1>5. Readers = {} /\ Writers = {}
  BY <1>1 DEF WHeld
<1>6. MutexHeld'
  <2>1. worker[t].pc \notin InMutex /\ worker'[t].pc \notin InMutex
    BY <1>1, <1>2 DEF InMutex
  <2>. QED  BY <1>1, <1>2, <1>3, <1>4, <2>1, MutexUntouched
<1>. QED  BY <1>1, <1>3, <1>5, <1>6 DEF WHeld

(* and lets them in again when it has entered the object. *)
LEMMA WriterLeaves ==
    ASSUME worker \in [Threads -> Locals], MutexHeld, WHeld, NEW t \in Threads,
           WriterUnlock(t)
    PROVE  MutexHeld' /\ WHeld'
<1>1. /\ worker[t].pc = "w.unlock" /\ mutex' = mutex /\ readcnt' = readcnt
      /\ w' = w + 1
  BY DEF WriterUnlock, At, V
<1>2. worker'[t].pc = "close" /\ OnlyMoves(t)
  BY Goes DEF WriterUnlock
<1>3. Counted' = Counted \ {t} /\ Readers' = Readers \ {t} /\ Writers' = Writers \ {t}
  BY <1>2, Moves DEF IsCounted, IsReader, IsWriter, Scanning, Writing
<1>4. t \notin Counted /\ t \in Writers
  BY <1>1, Sets DEF IsCounted, IsWriter, Scanning, Writing
<1>5. w = 0 /\ Readers = {} /\ Writers' = {}
  BY <1>3, <1>4 DEF WHeld
<1>6. MutexHeld'
  <2>1. worker[t].pc \notin InMutex /\ worker'[t].pc \notin InMutex
    BY <1>1, <1>2 DEF InMutex
  <2>. QED  BY <1>1, <1>2, <1>3, <1>4, <2>1, MutexUntouched
<1>. QED  BY <1>1, <1>3, <1>5, <1>6 DEF WHeld
-----------------------------------------------------------------------------
(* The places at which a thread may stay without the lock noticing: outside,
   reading, and writing. *)
Places == {Outside \cup {"r.lock", "w.lock"}, Scanning \cup {"l.lock"}, IsWriter}

(* A thread that stays at such a place stays in its classes. *)
LEMMA Unnoticed ==
    ASSUME NEW t \in Threads, NEW Place \in Places,
           worker[t].pc \in Place, worker'[t].pc \in Place
    PROVE  SameClass(t)
<1>1. CASE Place = Outside \cup {"r.lock", "w.lock"}
  <2>1. \A pc \in Place : pc \notin InMutex /\ pc \notin IsCounted /\ pc \notin IsReader
                          /\ pc \notin IsWriter /\ pc # "l.last"
    BY <1>1 DEF Outside, InMutex, IsCounted, IsReader, IsWriter, Scanning, Writing
  <2>. QED  BY <2>1 DEF SameClass
<1>2. CASE Place = Scanning \cup {"l.lock"}
  <2>1. \A pc \in Place : pc \notin InMutex /\ pc \in IsCounted /\ pc \in IsReader
                          /\ pc \notin IsWriter /\ pc # "l.last"
    BY <1>2 DEF InMutex, IsCounted, IsReader, IsWriter, Scanning, Writing
  <2>. QED  BY <2>1 DEF SameClass
<1>3. CASE Place = IsWriter
  <2>1. \A pc \in Place : pc \notin InMutex /\ pc \notin IsCounted /\ pc \notin IsReader
                          /\ pc \in IsWriter /\ pc # "l.last"
    BY <1>3 DEF InMutex, IsCounted, IsReader, IsWriter, Scanning, Writing
  <2>. QED  BY <2>1 DEF SameClass
<1>. QED  BY <1>1, <1>2, <1>3 DEF Places

(* The steps of a thread that touch neither the semaphores nor the count. *)
Quiet(t) == \/ Scan(t) \/ ScanAge(t) \/ ScanMatch(t) \/ ScanReset(t)
            \/ WriterChoose(t) \/ WriterKey(t) \/ WriterObject(t) \/ WriterHeader(t)
            \/ Remove(t) \/ Request(t) \/ Refuse(t) \/ Headers(t) \/ Reply(t)
            \/ Connect(t) \/ Fetch(t) \/ Close(t)

(* They keep the lock as it is. *)
LEMMA QuietStep ==
    ASSUME worker \in [Threads -> Locals], MutexHeld, WHeld, NEW t \in Threads, Quiet(t)
    PROVE  MutexHeld' /\ WHeld'
<1>1. UNCHANGED shared
  BY DEF Quiet, Scan, ScanAge, ScanMatch, ScanReset, WriterChoose, WriterKey, WriterObject,
         WriterHeader, Remove, Request, Refuse, Headers, Reply, Connect, Fetch, Close, shared
<1>2. OnlyMoves(t)
  BY Goes DEF Quiet, Scan, ScanAge, ScanMatch, ScanReset, WriterChoose, WriterKey, WriterObject,
         WriterHeader, Remove, Request, Refuse, Headers, Reply, Connect, Fetch, Close,
         GoTo, OnlyMoves
<1>3. CASE Scan(t) \/ ScanAge(t) \/ ScanMatch(t) \/ ScanReset(t)
  <2>1. worker[t].pc \in Scanning
    BY <1>3 DEF Scan, ScanAge, ScanMatch, ScanReset, At, Scanning
  <2>2. worker'[t].pc \in Scanning \cup {"l.lock"}
    <3>1. CASE Scan(t)
      <4>1. CASE GoTo(t, "l.lock")
        BY <4>1, Goes
      <4>2. CASE worker' = [worker EXCEPT ![t].pc = "age", ![t].cnt = cache[worker[t].i].age]
        BY <4>2 DEF Scanning, Locals
      <4>3. CASE worker' = [worker EXCEPT ![t].i = worker[t].i + 1]
        BY <2>1, <4>3 DEF Locals
      <4>. QED  BY <3>1, <4>1, <4>2, <4>3 DEF Scan
    <3>2. CASE ScanAge(t)
      BY <3>2, Goes DEF ScanAge, Scanning
    <3>3. CASE ScanMatch(t)
      BY <3>3 DEF ScanMatch, Scanning, Locals
    <3>4. CASE ScanReset(t)
      BY <3>4 DEF ScanReset, Locals
    <3>. QED  BY <1>3, <3>1, <3>2, <3>3, <3>4
  <2>. QED  BY <1>1, <1>2, <2>1, <2>2, Unnoticed, Elsewhere DEF Places
<1>4. CASE WriterChoose(t) \/ WriterKey(t) \/ WriterObject(t) \/ WriterHeader(t)
  <2>1. worker[t].pc \in IsWriter
    BY <1>4 DEF WriterChoose, WriterKey, WriterObject, WriterHeader, At, IsWriter, Writing
  <2>2. worker'[t].pc \in IsWriter
    <3>1. CASE WriterChoose(t)
      BY <3>1 DEF WriterChoose, Locals, IsWriter, Writing
    <3>2. CASE WriterKey(t)
      BY <3>2, Goes DEF WriterKey, IsWriter, Writing
    <3>3. CASE WriterObject(t)
      <4>1. GoTo(t, "w.header")
        BY <3>3 DEF WriterObject
      <4>. QED  BY <4>1, Goes DEF IsWriter, Writing
    <3>4. CASE WriterHeader(t)
      BY <3>4, Goes DEF WriterHeader, IsWriter, Writing
    <3>. QED  BY <1>4, <3>1, <3>2, <3>3, <3>4
  <2>. QED  BY <1>1, <1>2, <2>1, <2>2, Unnoticed, Elsewhere DEF Places
<1>5. CASE \/ Remove(t) \/ Request(t) \/ Refuse(t) \/ Headers(t) \/ Reply(t)
           \/ Connect(t) \/ Fetch(t) \/ Close(t)
  <2>1. worker[t].pc \in Outside
    BY <1>5 DEF Remove, Request, Refuse, Headers, Reply, Connect, Fetch, Close, At, Outside
  <2>2. worker'[t].pc \in Outside \cup {"r.lock", "w.lock"}
    <3>1. CASE Remove(t) \/ Close(t)
      BY <3>1 DEF Remove, Close, AtRemove, Outside
    <3>2. CASE Headers(t)
      BY <3>2, Goes DEF Headers, At, Outside, Locals
    <3>3. CASE Fetch(t)
      BY <3>3 DEF Fetch, Outside, Locals
    <3>4. CASE Request(t) \/ Refuse(t) \/ Reply(t) \/ Connect(t)
      BY <3>4, Goes DEF Request, Refuse, Reply, Connect, Outside
    <3>. QED  BY <1>5, <3>1, <3>2, <3>3, <3>4
  <2>. QED  BY <1>1, <1>2, <2>1, <2>2, Unnoticed, Elsewhere DEF Places
<1>. QED  BY <1>3, <1>4, <1>5 DEF Quiet

-----------------------------------------------------------------------------
(* Some slot is among the oldest: for n = 1 there is one among the first n
   slots, and for n + 1 when for n. *)
LEMMA SomeOldest ==
    ASSUME CacheTyped
    PROVE  Oldest # {}
<1>. DEFINE HasOldest(k) == \E s \in 1 .. k : \A r \in 1 .. k : cache[r].age <= cache[s].age
            Bad == {k \in Slots : ~HasOldest(k)}
<1>. HIDE DEF HasOldest
<1>1. \A s \in Slots : cache[s].age \in Nat
  BY DEF CacheTyped, Slot
<1>2. NSlots \in Nat /\ NSlots > 0 /\ Slots \in SUBSET Nat
  BY NSlotsAssumption DEF Slots
<1>3. Bad = {}
  <2>1. SUFFICES ASSUME Bad # {} PROVE FALSE
    OBVIOUS
  <2>2. PICK m \in Bad : \A k \in Bad : m <= k
    <3>1. Bad \in SUBSET Nat
      BY <1>2
    <3>. QED  BY <2>1, <3>1, LeastNatural
  <2>3. m # 1
    <3>1. 1 \in Slots /\ \A r \in 1 .. 1 : cache[r].age <= cache[1].age
      BY <1>1, <1>2 DEF Slots
    <3>2. HasOldest(1)
      BY <3>1 DEF HasOldest
    <3>. QED  BY <2>2, <3>2
  <2>4. m \in Slots /\ m - 1 \in Slots /\ m - 1 < m
    BY <1>2, <2>2, <2>3 DEF Slots
  <2>5. HasOldest(m - 1)
    <3>1. m - 1 \notin Bad
      BY <1>2, <2>2, <2>4
    <3>. QED  BY <2>4, <3>1
  <2>6. PICK s \in 1 .. (m - 1) : \A r \in 1 .. (m - 1) : cache[r].age <= cache[s].age
    BY <2>5 DEF HasOldest
  <2>7. \A r \in 1 .. m : r \in Slots /\ (r = m \/ r \in 1 .. (m - 1))
    BY <1>2, <2>4 DEF Slots
  <2>8. s \in 1 .. m
    BY <1>2, <2>4, <2>6 DEF Slots
  <2>9. cache[m].age \in Nat /\ cache[s].age \in Nat /\ m \in 1 .. m
    BY <1>1, <1>2, <2>4, <2>7, <2>8 DEF Slots
  <2>10. CASE cache[m].age <= cache[s].age
    <3>1. \A r \in 1 .. m : cache[r].age <= cache[s].age
      BY <2>6, <2>7, <2>10
    <3>. QED  BY <2>2, <2>8, <3>1 DEF HasOldest
  <2>11. CASE cache[s].age < cache[m].age
    <3>1. ASSUME NEW r \in 1 .. m PROVE cache[r].age <= cache[m].age
      <4>1. cache[r].age \in Nat
        BY <1>1, <2>7
      <4>2. CASE r = m
        BY <2>9, <4>2
      <4>3. CASE r \in 1 .. (m - 1)
        <5>1. cache[r].age <= cache[s].age
          BY <2>6, <4>3
        <5>. QED  BY <2>9, <2>11, <4>1, <5>1
      <4>. QED  BY <2>7, <4>2, <4>3
    <3>. QED  BY <2>2, <2>9, <3>1 DEF HasOldest
  <2>. QED  BY <2>9, <2>10, <2>11
<1>4. HasOldest(NSlots)
  BY <1>2, <1>3 DEF Slots
<1>. QED  BY <1>4 DEF HasOldest, Oldest, Slots

(* A writer chooses a slot. *)
LEMMA ChoosesSlot ==
    ASSUME CacheTyped
    PROVE  Lowest(IF Empty # {} THEN Empty ELSE Oldest) \in Slots
<1>. DEFINE S == IF Empty # {} THEN Empty ELSE Oldest
<1>1. S \in SUBSET Slots /\ S # {} /\ Slots \in SUBSET Nat
  BY SomeOldest, NSlotsAssumption DEF Empty, Oldest, Slots
<1>2. \E s \in S : \A r \in S : s <= r
  BY <1>1, LeastNatural
<1>. HIDE DEF S
<1>3. Lowest(S) \in S
  BY <1>2 DEF Lowest
<1>4. Lowest(S) \in Slots
  BY <1>1, <1>3
<1>. QED  BY <1>4 DEF S

-----------------------------------------------------------------------------
(* The locals of one worker change, *)
LEMMA OneWorkerTyped ==
    ASSUME WorkersTyped, NEW t \in Threads, NEW locals \in Locals,
           locals.pc \in {"age", "match"} => locals.i \in Slots,
           worker' = [worker EXCEPT ![t] = locals]
    PROVE  WorkersTyped'
BY DEF WorkersTyped

(* or only its place. *)
LEMMA GoesTyped ==
    ASSUME WorkersTyped, NEW t \in Threads, NEW pc \in InCache \cup Outside,
           pc \in {"age", "match"} => worker[t].i \in Slots,
           GoTo(t, pc)
    PROVE  WorkersTyped'
<1>. DEFINE locals == [worker[t] EXCEPT !.pc = pc]
<1>1. worker[t] \in Locals
  BY DEF WorkersTyped
<1>2. locals \in Locals /\ locals.pc = pc /\ locals.i = worker[t].i
  BY <1>1 DEF Locals
<1>3. worker' = [worker EXCEPT ![t] = locals]
  BY DEF GoTo
<1>. QED  BY <1>2, <1>3, OneWorkerTyped

(* The steps of the lock move one worker and leave the rest. *)
LockSteps(t) == \/ ReaderLock(t) \/ ReaderCount(t) \/ ReaderFirst(t) \/ ReaderUnlock(t)
                \/ LeaveLock(t) \/ LeaveCount(t) \/ LeaveLast(t) \/ LeaveUnlock(t)
                \/ WriterLock(t) \/ WriterUnlock(t)

(* They keep the types. *)
LEMMA LockStepsTyped ==
    ASSUME Typed, NEW t \in Threads, LockSteps(t)
    PROVE  Typed'
<1>1. UNCHANGED <<buffer, cache>>
  BY DEF LockSteps, ReaderLock, ReaderCount, ReaderFirst, ReaderUnlock, LeaveLock, LeaveCount,
         LeaveLast, LeaveUnlock, WriterLock, WriterUnlock
<1>2. PICK pc \in InCache \cup Outside : GoTo(t, pc) /\ pc \notin {"age", "match"}
  BY DEF LockSteps, ReaderLock, ReaderCount, ReaderFirst, ReaderUnlock, LeaveLock, LeaveCount,
         LeaveLast, LeaveUnlock, WriterLock, WriterUnlock, InCache, Outside, Entering, Scanning,
         Leaving, Writing
<1>3. WorkersTyped'
  BY <1>2, GoesTyped DEF Typed
<1>. QED  BY <1>1, <1>3 DEF Typed, BufferTyped, CacheTyped, buffer

(* The places are places. *)
LEMMA PlacesTyped ==
    /\ {"scan", "age", "match", "reset", "l.lock", "w.key", "w.object", "w.header", "w.unlock"}
           \subseteq InCache
    /\ {"remove", "request", "refuse", "headers", "ended", "reply", "connect", "fetch", "close"}
           \subseteq Outside
    /\ {"r.lock", "w.lock"} \subseteq InCache
BY DEF InCache, Outside, Entering, Scanning, Leaving, Writing

(* The scan of the cache. *)
LEMMA ScanTyped ==
    ASSUME Typed, NEW t \in Threads,
           Scan(t) \/ ScanAge(t) \/ ScanMatch(t) \/ ScanReset(t)
    PROVE  Typed'
<1>. DEFINE s == worker[t].i
<1>1. worker[t] \in Locals /\ s \in 1 .. NSlots + 1 /\ NSlots \in Nat
  BY NSlotsAssumption DEF Typed, WorkersTyped, Locals
<1>2. BufferTyped'
  BY DEF Typed, BufferTyped, Scan, ScanAge, ScanMatch, ScanReset, buffer
<1>3. CASE Scan(t)
  <2>1. CASE GoTo(t, "l.lock")
    <3>1. WorkersTyped'
      BY <2>1, PlacesTyped, GoesTyped DEF Typed
    <3>. QED  BY <1>2, <1>3, <3>1 DEF Scan, Typed, CacheTyped
  <2>2. CASE /\ s \in Slots
             /\ worker' = [worker EXCEPT ![t].pc = "age", ![t].cnt = cache[s].age]
    <3>. DEFINE locals == [worker[t] EXCEPT !.pc = "age", !.cnt = cache[s].age]
    <3>1. cache[s].age \in Nat
      BY <2>2 DEF Typed, CacheTyped, Slot
    <3>2. locals \in Locals /\ locals.i = s
      BY <1>1, <3>1, PlacesTyped DEF Locals
    <3>3. worker' = [worker EXCEPT ![t] = locals]
      BY <2>2
    <3>4. WorkersTyped'
      BY <2>2, <3>2, <3>3, OneWorkerTyped DEF Typed
    <3>. QED  BY <1>2, <1>3, <3>4 DEF Scan, Typed, CacheTyped
  <2>3. CASE s \in Slots /\ worker' = [worker EXCEPT ![t].i = s + 1]
    <3>. DEFINE locals == [worker[t] EXCEPT !.i = s + 1]
    <3>1. s + 1 \in 1 .. NSlots + 1
      BY <1>1, <2>3 DEF Slots
    <3>2. locals \in Locals /\ locals.pc = "scan"
      BY <1>1, <1>3, <3>1 DEF Locals, Scan, At
    <3>3. worker' = [worker EXCEPT ![t] = locals]
      BY <2>3
    <3>4. WorkersTyped'
      BY <3>2, <3>3, OneWorkerTyped DEF Typed
    <3>. QED  BY <1>2, <1>3, <3>4 DEF Scan, Typed, CacheTyped
  <2>. QED  BY <1>3, <2>1, <2>2, <2>3 DEF Scan
<1>4. CASE ScanAge(t)
  <2>1. s \in Slots
    BY <1>4 DEF ScanAge, At, Typed, WorkersTyped
  <2>2. WorkersTyped'
    BY <1>4, <2>1, PlacesTyped, GoesTyped DEF ScanAge, Typed
  <2>3. CacheTyped'
    <3>1. worker[t].cnt + 1 \in Nat
      BY <1>1 DEF Locals
    <3>. QED  BY <1>4, <2>1, <3>1 DEF ScanAge, Typed, CacheTyped, Slot
  <2>. QED  BY <1>2, <2>2, <2>3 DEF Typed
<1>5. CASE ScanMatch(t)
  <2>1. s \in Slots
    BY <1>5 DEF ScanMatch, At, Typed, WorkersTyped
  <2>2. ASSUME NEW text \in {cache[s].object, "cut"},
               worker' = [worker EXCEPT ![t].pc = "reset", ![t].object = text]
        PROVE  Typed'
    <3>. DEFINE locals == [worker[t] EXCEPT !.pc = "reset", !.object = text]
    <3>1. text \in Objects
      BY <2>1 DEF Typed, CacheTyped, Slot, Objects
    <3>2. locals \in Locals /\ locals.pc = "reset"
      BY <1>1, <3>1, PlacesTyped DEF Locals
    <3>3. worker' = [worker EXCEPT ![t] = locals]
      BY <2>2
    <3>4. WorkersTyped'
      BY <3>2, <3>3, OneWorkerTyped DEF Typed
    <3>. QED  BY <1>2, <1>5, <3>4 DEF ScanMatch, Typed, CacheTyped
  <2>3. CASE worker' = [worker EXCEPT ![t].pc = "scan", ![t].i = s + 1]
    <3>. DEFINE locals == [worker[t] EXCEPT !.pc = "scan", !.i = s + 1]
    <3>1. s + 1 \in 1 .. NSlots + 1
      BY <1>1, <2>1 DEF Slots
    <3>2. locals \in Locals /\ locals.pc = "scan"
      BY <1>1, <3>1, PlacesTyped DEF Locals
    <3>3. worker' = [worker EXCEPT ![t] = locals]
      BY <2>3
    <3>4. WorkersTyped'
      BY <3>2, <3>3, OneWorkerTyped DEF Typed
    <3>. QED  BY <1>2, <1>5, <3>4 DEF ScanMatch, Typed, CacheTyped
  <2>. QED  BY <1>5, <2>2, <2>3 DEF ScanMatch
<1>6. CASE ScanReset(t)
  <2>. DEFINE locals == [worker[t] EXCEPT !.pc = "l.lock", !.hit = TRUE]
  <2>1. locals \in Locals /\ locals.pc = "l.lock"
    BY <1>1, PlacesTyped DEF Locals
  <2>2. worker' = [worker EXCEPT ![t] = locals]
    BY <1>6 DEF ScanReset
  <2>3. WorkersTyped'
    BY <2>1, <2>2, OneWorkerTyped DEF Typed
  <2>4. CacheTyped'
    BY <1>6 DEF ScanReset, Typed, CacheTyped, Slot
  <2>. QED  BY <1>2, <2>3, <2>4 DEF Typed
<1>. QED  BY <1>3, <1>4, <1>5, <1>6

(* The steps of a writer between the lock and the unlock. *)
LEMMA WriteTyped ==
    ASSUME Typed, NEW t \in Threads,
           WriterChoose(t) \/ WriterKey(t) \/ WriterObject(t) \/ WriterHeader(t)
    PROVE  Typed'
<1>1. worker[t] \in Locals /\ worker[t].object \in Objects /\ out[t] \in Urls \cup {NoUrl}
  BY DEF Typed, WorkersTyped, BufferTyped, Locals
<1>2. BufferTyped'
  BY DEF Typed, BufferTyped, WriterChoose, WriterKey, WriterObject, WriterHeader, buffer
<1>3. CASE WriterChoose(t)
  <2>. DEFINE slot == Lowest(IF Empty # {} THEN Empty ELSE Oldest)
              locals == [worker[t] EXCEPT !.pc = "w.key", !.i = slot]
  <2>1. slot \in 1 .. NSlots + 1
    <3>1. slot \in Slots
      BY ChoosesSlot DEF Typed
    <3>. HIDE DEF slot
    <3>. QED  BY <3>1, NSlotsAssumption DEF Slots
  <2>2. worker' = [worker EXCEPT ![t] = locals]
    BY <1>3 DEF WriterChoose
  <2>. HIDE DEF slot
  <2>3. locals \in Locals /\ locals.pc = "w.key"
    BY <1>1, <2>1, PlacesTyped DEF Locals
  <2>4. WorkersTyped'
    BY <2>2, <2>3, OneWorkerTyped DEF Typed
  <2>. QED  BY <1>2, <1>3, <2>4 DEF WriterChoose, Typed, CacheTyped
<1>4. CASE WriterKey(t)
  <2>1. WorkersTyped'
    BY <1>4, PlacesTyped, GoesTyped DEF WriterKey, Typed
  <2>2. CacheTyped'
    <3>1. /\ [cache[worker[t].i] EXCEPT !.key = out[t]] \in Slot \/ worker[t].i \notin Slots
          /\ \A r \in Slots : cache[r] \in Slot /\ [cache[r] EXCEPT !.object = "cut"] \in Slot
      BY <1>1 DEF Typed, CacheTyped, Slot, Objects
    <3>. QED  BY <1>4, <3>1 DEF WriterKey, CacheTyped
  <2>. QED  BY <1>2, <2>1, <2>2 DEF Typed
<1>5. CASE WriterObject(t)
  <2>1. WorkersTyped'
    BY <1>5, PlacesTyped, GoesTyped DEF WriterObject, Typed
  <2>2. CacheTyped'
    <3>1. \A r \in Slots : cache[r] \in Slot
      BY DEF Typed, CacheTyped
    <3>2. \A r \in Slots : [cache[r] EXCEPT !.object = worker[t].object] \in Slot
      BY <1>1, <3>1 DEF Slot
    <3>3. \A r \in Slots : [cache[r] EXCEPT !.valid = Junk, !.age = JunkAge, !.key = NoUrl] \in Slot
      <4>1. JunkAge \in Nat /\ Junk \in {0, 1, Junk} /\ NoUrl \in Urls \cup {NoUrl}
        BY DEF JunkAge
      <4>. QED  BY <3>1, <4>1 DEF Slot
    <3>. QED  BY <1>5, <3>1, <3>2, <3>3 DEF WriterObject, CacheTyped
  <2>. QED  BY <1>2, <2>1, <2>2 DEF Typed
<1>6. CASE WriterHeader(t)
  <2>1. WorkersTyped'
    BY <1>6, PlacesTyped, GoesTyped DEF WriterHeader, Typed
  <2>2. CacheTyped'
    BY <1>6 DEF WriterHeader, Typed, CacheTyped, Slot
  <2>. QED  BY <1>2, <2>1, <2>2 DEF Typed
<1>. QED  BY <1>3, <1>4, <1>5, <1>6

(* The locals of a worker at the start of a connection. *)
LEMMA AtRemoveTyped ==
    /\ AtRemove \in Locals /\ AtRemove.pc = "remove"
    /\ [AtRemove EXCEPT !.pc = "request"] \in Locals
    /\ [AtRemove EXCEPT !.pc = "request"].pc = "request"
<1>1. 1 \in 1 .. NSlots + 1
  BY NSlotsAssumption
<1>2. AtRemove \in Locals
  BY <1>1, PlacesTyped DEF AtRemove, Locals, Objects
<1>3. [AtRemove EXCEPT !.pc = "request"] \in Locals
  BY <1>2, PlacesTyped DEF Locals
<1>4. AtRemove.pc = "remove" /\ [AtRemove EXCEPT !.pc = "request"].pc = "request"
  BY DEF AtRemove
<1>. QED  BY <1>2, <1>3, <1>4

(* The buffer. *)
LEMMA BufferStepTyped ==
    ASSUME Typed,
           Accept \/ Insert \/ \E t \in Threads : Remove(t) \/ Close(t)
    PROVE  Typed'
<1>1. n \in Nat /\ MaxAccepts \in Nat
  BY NSlotsAssumption
<1>2. /\ queue \in Seq(Urls) /\ Len(queue) <= n /\ alive \in BOOLEAN
      /\ in \in [{"main"} -> Urls \cup {NoUrl}] /\ out \in [Threads -> Urls \cup {NoUrl}]
      /\ accepts \in 0 .. MaxAccepts
  BY DEF Typed, BufferTyped
<1>3. CASE Accept
  <2>1. BufferTyped'
    BY <1>1, <1>2, <1>3 DEF Accept, B!Call, BufferTyped
  <2>. QED  BY <1>3, <2>1 DEF Accept, Typed, CacheTyped, WorkersTyped
<1>4. CASE Insert
  <2>1. in["main"] \in Urls /\ Len(queue) < n
    BY <1>2, <1>4 DEF Insert, B!Insert
  <2>2. queue' \in Seq(Urls) /\ Len(queue') <= n
    BY <1>1, <1>2, <1>4, <2>1 DEF Insert, B!Insert
  <2>3. BufferTyped'
    BY <1>2, <1>4, <2>2 DEF Insert, B!Insert, BufferTyped
  <2>. QED  BY <1>4, <2>3 DEF Insert, Typed, CacheTyped, WorkersTyped
<1>5. ASSUME NEW t \in Threads, Remove(t) PROVE Typed'
  <2>1. queue' \in Seq(Urls) /\ Len(queue') <= n /\ Head(queue) \in Urls
    BY <1>1, <1>2, <1>5 DEF Remove, B!Remove
  <2>2. BufferTyped'
    BY <1>2, <1>5, <2>1 DEF Remove, B!Remove, BufferTyped
  <2>3. WorkersTyped'
    BY <1>5, AtRemoveTyped, OneWorkerTyped DEF Remove, Typed
  <2>. QED  BY <1>5, <2>2, <2>3 DEF Remove, Typed, CacheTyped
<1>6. ASSUME NEW t \in Threads, Close(t) PROVE Typed'
  <2>1. BufferTyped'
    BY <1>2, <1>6 DEF Close, B!Return, BufferTyped
  <2>2. WorkersTyped'
    BY <1>6, AtRemoveTyped, OneWorkerTyped DEF Close, Typed
  <2>. QED  BY <1>6, <2>1, <2>2 DEF Close, Typed, CacheTyped
<1>. QED  BY <1>3, <1>4, <1>5, <1>6

(* The exchanges with the client and the server. *)
LEMMA ExchangeTyped ==
    ASSUME Typed, NEW t \in Threads,
           Request(t) \/ Refuse(t) \/ Headers(t) \/ Reply(t) \/ Connect(t) \/ Fetch(t)
    PROVE  Typed'
<1>1. worker[t] \in Locals /\ WorkersTyped /\ out[t] \in Urls \cup {NoUrl}
  BY DEF Typed, WorkersTyped, BufferTyped
<1>2. BufferTyped' /\ CacheTyped'
  BY DEF Typed, BufferTyped, CacheTyped, Request, Refuse, Headers, Reply, Connect, Fetch, buffer
<1>3. CASE Request(t) \/ Refuse(t) \/ Reply(t) \/ Connect(t)
  <2>1. PICK pc \in {"r.lock", "refuse", "close", "fetch"} : GoTo(t, pc)
    BY <1>3 DEF Request, Refuse, Reply, Connect
  <2>2. pc \in InCache \cup Outside /\ pc \notin {"age", "match"}
    BY PlacesTyped
  <2>3. WorkersTyped'
    BY <1>1, <2>1, <2>2, GoesTyped
  <2>. QED  BY <1>2, <2>3 DEF Typed
<1>4. CASE Headers(t)
  <2>. SUFFICES WorkersTyped'
    BY <1>2 DEF Typed
  <2>. DEFINE pc == IF worker[t].hit THEN "reply" ELSE "connect"
  <2>1. CASE worker' = [worker EXCEPT ![t].pc = pc, ![t].kept = FALSE]
    <3>. DEFINE locals == [worker[t] EXCEPT !.pc = pc, !.kept = FALSE]
    <3>1. pc \in {"reply", "connect"}
      OBVIOUS
    <3>2. worker' = [worker EXCEPT ![t] = locals]
      BY <2>1
    <3>. HIDE DEF pc
    <3>3. locals \in Locals /\ locals.pc = pc
      BY <1>1, <3>1, PlacesTyped DEF Locals
    <3>. QED  BY <1>1, <3>1, <3>2, <3>3, OneWorkerTyped
  <2>2. ASSUME NEW kept \in BOOLEAN, worker' = [worker EXCEPT ![t].kept = kept]
        PROVE  WorkersTyped'
    <3>. DEFINE locals == [worker[t] EXCEPT !.kept = kept]
    <3>1. locals \in Locals /\ locals.pc = "headers"
      BY <1>1, <1>4 DEF Locals, Headers, At
    <3>2. worker' = [worker EXCEPT ![t] = locals]
      BY <2>2
    <3>. QED  BY <1>1, <3>1, <3>2, OneWorkerTyped
  <2>3. CASE GoTo(t, "ended")
    <3>1. "ended" \in InCache \cup Outside
      BY PlacesTyped
    <3>. QED  BY <1>1, <2>3, <3>1, GoesTyped
  <2>. QED  BY <1>4, <2>1, <2>2, <2>3 DEF Headers
<1>5. CASE Fetch(t)
  <2>. DEFINE cut == Kind[out[t]] = "huge"
              object == IF cut THEN "cut" ELSE out[t]
              pc == IF cut THEN "close" ELSE "w.lock"
              locals == [worker[t] EXCEPT !.object = object, !.pc = pc]
  <2>1. object \in Objects /\ pc \in {"close", "w.lock"}
    BY <1>1 DEF Objects
  <2>2. worker' = [worker EXCEPT ![t] = locals]
    BY <1>5 DEF Fetch
  <2>. HIDE DEF object, pc
  <2>3. locals \in Locals /\ locals.pc = pc
    BY <1>1, <2>1, PlacesTyped DEF Locals
  <2>4. WorkersTyped'
    BY <1>1, <2>1, <2>2, <2>3, OneWorkerTyped
  <2>. QED  BY <1>2, <2>4 DEF Typed
<1>. QED  BY <1>3, <1>4, <1>5

-----------------------------------------------------------------------------
(* The invariant holds when the proxy has just started. *)
LEMMA InitHolds == Init => IInv
<1>. SUFFICES ASSUME Init PROVE IInv
  OBVIOUS
<1>1. BufferTyped
  BY NSlotsAssumption DEF Init, B!Init, BufferTyped
<1>2. CacheTyped
  BY DEF Init, CacheTyped, Slot, Objects
<1>3. WorkersTyped
  BY AtRemoveTyped DEF Init, WorkersTyped
<1>4. MutexHeld /\ WHeld
  BY AtRemoveTyped, Idle DEF Init
<1>. QED  BY <1>1, <1>2, <1>3, <1>4 DEF IInv, Typed

(* The same when the process ends. *)
LEMMA DiesHolds ==
    ASSUME IInv, Dies
    PROVE  IInv'
<1>1. BufferTyped'
  <2>1. queue' = <<>> /\ queue' \in Seq(Urls) /\ Len(queue') <= n
    BY NSlotsAssumption DEF Dies
  <2>2. accepts' \in 0 .. MaxAccepts /\ alive' \in BOOLEAN
    BY DEF IInv, Typed, BufferTyped, Dies
  <2>3. /\ in' \in [{"main"} -> Urls \cup {NoUrl}]
        /\ out' \in [Threads -> Urls \cup {NoUrl}]
    BY DEF Dies
  <2>. QED  BY <2>1, <2>2, <2>3 DEF BufferTyped
<1>2. CacheTyped'
  BY DEF Dies, CacheTyped, Slot, Objects
<1>3. WorkersTyped'
  BY AtRemoveTyped DEF Dies, WorkersTyped
<1>4. \A t \in Threads : worker'[t].pc = "remove"
  BY AtRemoveTyped DEF Dies
<1>5. Counted' = {} /\ Readers' = {} /\ Writers' = {}
  BY <1>4 DEF Counted, Readers, Writers, Scanning, Writing
<1>6. Cardinality(Counted') = 0
  BY <1>5, FS_EmptySet
<1>7. MutexHeld' /\ WHeld'
  BY <1>4, <1>5, <1>6 DEF Dies, MutexHeld, WHeld, InMutex
<1>. QED  BY <1>1, <1>2, <1>3, <1>7 DEF IInv, Typed

(* A step of a worker keeps the invariant. *)
LEMMA WorkerStep ==
    ASSUME IInv, NEW t \in Threads, CacheStep(t) \/ ConnectionStep(t)
    PROVE  IInv'
<1>1. Typed /\ MutexHeld /\ WHeld /\ worker \in [Threads -> Locals]
  BY DEF IInv, Typed, WorkersTyped
<1>2. CASE LockSteps(t)
  <2>1. Typed'
    BY <1>1, <1>2, LockStepsTyped
  <2>2. MutexHeld' /\ WHeld'
    BY <1>1, <1>2, TakesMutex, GivesMutex, CountsReader, LocksWriters, UncountsReader,
       AdmitsWriters, WriterEnters, WriterLeaves DEF LockSteps
  <2>. QED  BY <2>1, <2>2 DEF IInv
<1>3. CASE Quiet(t)
  <2>1. Typed'
    BY <1>1, <1>3, ScanTyped, WriteTyped, BufferStepTyped, ExchangeTyped DEF Quiet
  <2>2. MutexHeld' /\ WHeld'
    BY <1>1, <1>3, QuietStep
  <2>. QED  BY <2>1, <2>2 DEF IInv
<1>4. CASE UnixError(t) \/ Overrun(t)
  BY <1>4, DiesHolds DEF UnixError, Overrun
<1>. QED  BY <1>2, <1>3, <1>4 DEF CacheStep, ConnectionStep, LockSteps, Quiet

(* Nothing in the invariant mentions a state of main. *)
LEMMA MainStep ==
    ASSUME IInv, Accept \/ Insert
    PROVE  IInv'
<1>1. Typed'
  BY BufferStepTyped DEF IInv
<1>2. UNCHANGED <<shared, worker>>
  BY DEF Accept, Insert
<1>. QED  BY <1>1, <1>2 DEF IInv, MutexHeld, WHeld, shared, Counted, Readers, Writers

(* Every step keeps the invariant. *)
LEMMA Inductive == IInv /\ [Next]_vars => IInv'
<1>. SUFFICES ASSUME IInv, [Next]_vars PROVE IInv'
  OBVIOUS
<1>1. CASE Accept \/ Insert
  BY <1>1, MainStep
<1>2. CASE \E t \in Threads : CacheStep(t) \/ ConnectionStep(t)
  BY <1>2, WorkerStep
<1>3. CASE UNCHANGED vars
  BY <1>3 DEF vars, buffer, shared, IInv, Typed, BufferTyped, CacheTyped, WorkersTyped,
              MutexHeld, WHeld, Counted, Readers, Writers
<1>. QED  BY <1>1, <1>2, <1>3 DEF Next

(* The invariant is what the run checks. *)
LEMMA InvariantIsEnough == IInv => ReadersOrWriter
<1>. SUFFICES ASSUME IInv PROVE ReadersOrWriter
  OBVIOUS
<1>1. TypeOK
  BY SetsFinite DEF IInv, Typed, BufferTyped, CacheTyped, WorkersTyped, MutexHeld, WHeld, TypeOK
<1>2. Writers # {} => Cardinality(Writers) = 1
  <2>1. SUFFICES ASSUME NEW u \in Writers PROVE Cardinality(Writers) = 1
    OBVIOUS
  <2>2. Writers = {u}
    BY DEF IInv, WHeld
  <2>. QED  BY <2>2, FS_Singleton
<1>. QED  BY <1>1, <1>2 DEF IInv, MutexHeld, WHeld, ReadersOrWriter

(* The cache has readers or one writer, and the semaphore w and the count of
   readers say which, for any number of workers, slots and URLs. *)
THEOREM CacheExclusive == Spec => []ReadersOrWriter
<1>1. Init => IInv
  BY InitHolds
<1>2. IInv /\ [Next]_vars => IInv'
  BY Inductive
<1>3. IInv => ReadersOrWriter
  BY InvariantIsEnough
<1>. QED  BY <1>1, <1>2, <1>3, PTL DEF Spec

-----------------------------------------------------------------------------

(* How far the scan of a reader has come without finding the object: the slots
   before slot k do not hold it. *)
Passed(t, k) == \A s \in Slots : s < k => ~(cache[s].valid = 1 /\ cache[s].key = out[t])
ScanOf(t) ==
    /\ worker[t].pc \in {"request"} \cup Entering => worker[t].i = 1
    /\ worker[t].pc \in {"scan", "age", "match"} => Passed(t, worker[t].i)
    /\ worker[t].pc \in {"l.lock", "l.count", "l.last"} /\ ~worker[t].hit
           => Passed(t, NSlots + 1)
Scans == \A t \in Threads : ScanOf(t)

(* The objects are those of their keys: in the slots that are in use, except the
   one a writer is filling, and in the array of a worker that has fetched it.  One
   that has found its request has what a hit may come to.  A writer has chosen an
   empty slot, if there is one. *)
CopyOf(t) ==
    /\ worker[t].pc \in {"request", "scan", "age", "match"} \cup Entering => ~worker[t].hit
    /\ worker[t].pc \in {"age", "match"} => cache[worker[t].i].valid = 1
    /\ worker[t].pc \in Writing => worker[t].object = out[t]
    /\ \/ worker[t].pc \in {"reset", "reply"}
       \/ worker[t].hit /\ worker[t].pc \in Leaving \cup {"headers"}
       => worker[t].object \in Servable(out[t])
    /\ worker[t].pc \in {"w.key", "w.object", "w.header"} => worker[t].i \in Slots
    /\ worker[t].pc = "w.key" => cache[worker[t].i].valid = 0 \/ Empty = {}
    /\ worker[t].pc \in {"w.object", "w.header"} => cache[worker[t].i].key = out[t]
    /\ worker[t].pc = "w.header" => cache[worker[t].i].object = out[t]
Filled(s) == \E t \in Threads : worker[t].pc = "w.object" /\ worker[t].i = s
Copies ==
    /\ \A t \in Threads : CopyOf(t)
    /\ \A s \in Slots : cache[s].valid = 1 /\ ~Filled(s) => cache[s].object = cache[s].key

(* No object passes the end of its slot. *)
NoLarge == \A url \in Urls : Kind[url] # "large"

(* A step that changes no more of the slots than their ages, and one that leaves
   the workers other than t and their connections alone. *)
SameSlots ==
    \A s \in Slots : /\ cache'[s].valid = cache[s].valid
                     /\ cache'[s].key = cache[s].key
                     /\ cache'[s].object = cache[s].object
Stay(t) == \A u \in Threads \ {t} : worker'[u] = worker[u] /\ out'[u] = out[u]

(* The steps of a writer that fill a slot. *)
Fills(t) == WriterKey(t) \/ WriterObject(t) \/ WriterHeader(t)
Reads(t) == LockSteps(t) \/ (Quiet(t) /\ ~Fills(t))

-----------------------------------------------------------------------------
(* GoTo leaves the other locals as they are. *)
LEMMA GoesOnly ==
    ASSUME worker \in [Threads -> Locals], NEW t \in Threads, NEW pc, GoTo(t, pc)
    PROVE  /\ worker'[t].pc = pc
           /\ worker'[t].i = worker[t].i
           /\ worker'[t].hit = worker[t].hit
           /\ worker'[t].object = worker[t].object
<1>1. worker'[t] = [worker[t] EXCEPT !.pc = pc] /\ worker[t] \in Locals
  BY DEF GoTo
<1>2. worker'[t].pc = pc
  BY <1>1 DEF Locals
<1>3. worker'[t].i = worker[t].i
  BY <1>1 DEF Locals
<1>4. worker'[t].hit = worker[t].hit
  BY <1>1 DEF Locals
<1>5. worker'[t].object = worker[t].object
  BY <1>1 DEF Locals
<1>. QED  BY <1>2, <1>3, <1>4, <1>5

(* A step of a worker leaves the locals and the connections of the others alone, *)
LEMMA StayEverywhere ==
    ASSUME IInv, NEW t \in Threads, LockSteps(t) \/ Quiet(t)
    PROVE  Stay(t)
<1>1. worker \in [Threads -> Locals] /\ out \in [Threads -> Urls \cup {NoUrl}]
  BY DEF IInv, Typed, BufferTyped, WorkersTyped
<1>2. CASE LockSteps(t)
  BY <1>1, <1>2 DEF LockSteps, ReaderLock, ReaderCount, ReaderFirst, ReaderUnlock, LeaveLock,
     LeaveCount, LeaveLast, LeaveUnlock, WriterLock, WriterUnlock, GoTo, buffer, Stay
<1>3. CASE Remove(t) \/ Close(t)
  BY <1>1, <1>3 DEF Remove, Close, B!Remove, B!Return, Stay
<1>4. CASE Quiet(t) /\ ~Remove(t) /\ ~Close(t)
  BY <1>1, <1>4 DEF Quiet, Scan, ScanAge, ScanMatch, ScanReset, WriterChoose, WriterKey,
     WriterObject, WriterHeader, Request, Refuse, Headers, Reply, Connect, Fetch, GoTo, buffer,
     Stay
<1>. QED  BY <1>2, <1>3, <1>4

(* and only a writer changes more of the slots than their ages. *)
LEMMA SlotsStay ==
    ASSUME IInv, NEW t \in Threads, Reads(t)
    PROVE  SameSlots
<1>1. cache \in [Slots -> Slot]
  BY DEF IInv, Typed, CacheTyped
<1>2. CASE ScanAge(t)
  BY <1>1, <1>2 DEF ScanAge, SameSlots, Slot
<1>3. CASE ScanReset(t)
  BY <1>1, <1>3 DEF ScanReset, SameSlots, Slot
<1>4. CASE ~ScanAge(t) /\ ~ScanReset(t)
  <2>1. cache' = cache
    BY <1>4 DEF Reads, Fills, LockSteps, Quiet, Scan, ScanMatch, WriterChoose, Remove, Request,
       Refuse, Headers, Reply, Connect, Fetch, Close, ReaderLock, ReaderCount, ReaderFirst,
       ReaderUnlock, LeaveLock, LeaveCount, LeaveLast, LeaveUnlock, WriterLock, WriterUnlock
  <2>. QED  BY <2>1 DEF SameSlots
<1>. QED  BY <1>2, <1>3, <1>4

(* While one worker fills a slot the others are neither readers nor writers. *)
LEMMA FillsAlone ==
    ASSUME IInv, NEW t \in Threads, Fills(t)
    PROVE  /\ t \in Writers
           /\ \A u \in Threads \ {t} : worker[u].pc \notin IsReader /\ worker[u].pc \notin IsWriter
<1>1. t \in Writers
  BY DEF Fills, WriterKey, WriterObject, WriterHeader, At, Writers, Writing
<1>2. Readers = {} /\ \A u \in Writers : u = t
  BY <1>1 DEF IInv, WHeld
<1>. QED  BY <1>1, <1>2, Sets

-----------------------------------------------------------------------------
(* What a scan has passed stays passed while the slots and the connection of
   the reader stay. *)
LEMMA OthersScan ==
    ASSUME Scans, SameSlots, NEW t \in Threads, Stay(t), NEW u \in Threads \ {t}
    PROVE  ScanOf(u)'
<1>1. worker'[u] = worker[u] /\ out'[u] = out[u] /\ ScanOf(u)
  BY DEF Stay, Scans
<1>2. CASE worker[u].pc \in {"scan", "age", "match"}
  <2>1. Passed(u, worker[u].i)'
    BY <1>1, <1>2 DEF ScanOf, SameSlots, Passed
  <2>. QED  BY <1>1, <1>2, <2>1 DEF ScanOf, Entering
<1>3. CASE worker[u].pc \notin {"scan", "age", "match"}
  <2>1. Passed(u, NSlots + 1) => Passed(u, NSlots + 1)'
    BY <1>1 DEF SameSlots, Passed
  <2>. QED  BY <1>1, <1>3, <2>1 DEF ScanOf
<1>. QED  BY <1>2, <1>3

(* The reader's own steps: it goes on to the next slot only when this one does
   not hold the object. *)
LEMMA OwnScan ==
    ASSUME IInv, Scans, NEW t \in Threads, Scan(t) \/ ScanAge(t) \/ ScanMatch(t) \/ ScanReset(t)
    PROVE  ScanOf(t)'
<1>. DEFINE s == worker[t].i
<1>1. /\ worker \in [Threads -> Locals] /\ worker[t] \in Locals
      /\ s \in 1 .. NSlots + 1 /\ NSlots \in Nat
      /\ \A r \in Slots : r \in Int /\ r < NSlots + 1
  BY NSlotsAssumption DEF IInv, Typed, WorkersTyped, Locals, Slots
<1>2. SameSlots
  <2>1. Reads(t)
    BY DEF Reads, Quiet, Fills, Scan, ScanAge, ScanMatch, ScanReset, WriterKey,
       WriterObject, WriterHeader, At
  <2>. QED  BY <2>1, SlotsStay
<1>3. out'[t] = out[t]
  BY DEF Scan, ScanAge, ScanMatch, ScanReset, buffer
<1>4. CASE ~ScanReset(t)
  <2>1. Passed(t, s)
    BY <1>4 DEF Scans, ScanOf, Scan, ScanAge, ScanMatch, At
  <2>2. \A r \in Slots : r < s => ~(cache'[r].valid = 1 /\ cache'[r].key = out'[t])
    BY <1>2, <1>3, <2>1 DEF SameSlots, Passed
  <2>3. CASE s > NSlots /\ GoTo(t, "l.lock")
    <3>1. worker'[t].pc = "l.lock"
      BY <1>1, <2>3, Goes
    <3>2. \A r \in Slots : r < s
      BY <1>1, <2>3
    <3>. QED  BY <2>2, <3>1, <3>2 DEF ScanOf, Passed, Entering
  <2>4. CASE worker'[t].pc \in {"age", "match"} /\ worker'[t].i = s
    BY <2>2, <2>4 DEF ScanOf, Passed, Entering
  <2>5. CASE /\ worker'[t].pc = "scan" /\ worker'[t].i = s + 1 /\ s \in Slots
             /\ ~(cache[s].valid = 1 /\ cache[s].key = out[t])
    <3>1. \A r \in Slots : r < s + 1 => r < s \/ r = s
      BY <1>1
    <3>2. ~(cache'[s].valid = 1 /\ cache'[s].key = out'[t])
      BY <1>2, <1>3, <2>5 DEF SameSlots
    <3>. QED  BY <2>2, <2>5, <3>1, <3>2 DEF ScanOf, Passed, Entering
  <2>6. CASE worker'[t].pc = "reset"
    BY <2>6 DEF ScanOf, Entering
  <2>7. CASE Scan(t)
    <3>1. worker[t].pc = "scan"
      BY <2>7 DEF Scan, At
    <3>2. CASE worker' = [worker EXCEPT ![t].pc = "age", ![t].cnt = cache[s].age]
      BY <1>1, <2>4, <3>2 DEF Locals
    <3>3. CASE s \in Slots /\ cache[s].valid # 1 /\ worker' = [worker EXCEPT ![t].i = s + 1]
      <4>1. worker'[t].pc = "scan" /\ worker'[t].i = s + 1
        BY <1>1, <3>1, <3>3 DEF Locals
      <4>. QED  BY <2>5, <3>3, <4>1
    <3>. QED  BY <2>3, <2>7, <3>2, <3>3 DEF Scan
  <2>8. CASE ScanAge(t)
    <3>1. worker'[t].pc = "match" /\ worker'[t].i = s
      BY <1>1, <2>8 DEF ScanAge, GoTo, Locals
    <3>. QED  BY <2>4, <3>1
  <2>9. CASE ScanMatch(t)
    <3>1. s \in Slots
      BY <2>9 DEF ScanMatch, At, IInv, Typed, WorkersTyped
    <3>2. ASSUME NEW text, worker' = [worker EXCEPT ![t].pc = "reset", ![t].object = text]
          PROVE  ScanOf(t)'
      BY <1>1, <2>6, <3>2 DEF Locals
    <3>3. CASE cache[s].key # out[t] /\ worker' = [worker EXCEPT ![t].pc = "scan", ![t].i = s + 1]
      <4>1. worker'[t].pc = "scan" /\ worker'[t].i = s + 1
        BY <1>1, <3>3 DEF Locals
      <4>. QED  BY <2>5, <3>1, <3>3, <4>1
    <3>. QED  BY <2>9, <3>2, <3>3 DEF ScanMatch
  <2>. QED  BY <1>4, <2>7, <2>8, <2>9
<1>5. CASE ScanReset(t)
  <2>1. worker'[t].pc = "l.lock" /\ worker'[t].hit
    BY <1>1, <1>5 DEF ScanReset, Locals
  <2>. QED  BY <2>1 DEF ScanOf, Entering
<1>. QED  BY <1>4, <1>5

(* The steps before the scan and after it. *)
LEMMA OwnLock ==
    ASSUME IInv, Scans, NEW t \in Threads, LockSteps(t)
    PROVE  ScanOf(t)'
<1>1. worker \in [Threads -> Locals] /\ ScanOf(t)
  BY DEF IInv, Typed, WorkersTyped, Scans
<1>0. out' = out /\ cache' = cache
  BY DEF LockSteps, ReaderLock, ReaderCount, ReaderFirst,
     ReaderUnlock, LeaveLock, LeaveCount, LeaveLast, LeaveUnlock, WriterLock, WriterUnlock, buffer
<1>2. ASSUME NEW pc, GoTo(t, pc)
      PROVE  worker'[t].pc = pc /\ worker'[t].i = worker[t].i /\ worker'[t].hit = worker[t].hit
  BY <1>1, <1>2, GoesOnly
<1>3. CASE ReaderLock(t) \/ ReaderCount(t) \/ ReaderFirst(t)
  <2>1. PICK pc \in Entering : GoTo(t, pc)
    BY <1>3 DEF ReaderLock, ReaderCount, ReaderFirst, Entering
  <2>2. worker[t].i = 1
    BY <1>1, <1>3 DEF ScanOf, ReaderLock, ReaderCount, ReaderFirst, At, Entering
  <2>. QED  BY <1>2, <2>1, <2>2 DEF ScanOf, Entering
<1>4. CASE ReaderUnlock(t)
  <2>1. worker[t].i = 1 /\ GoTo(t, "scan")
    BY <1>1, <1>4 DEF ScanOf, ReaderUnlock, At, Entering
  <2>2. worker'[t].i = 1 /\ worker'[t].pc = "scan"
    BY <1>2, <2>1
  <2>3. Passed(t, 1)'
    BY DEF Passed, Slots
  <2>. QED  BY <2>2, <2>3 DEF ScanOf, Entering
<1>5. CASE LeaveLock(t) \/ LeaveCount(t)
  <2>1. PICK pc \in {"l.count", "l.last", "l.unlock"} : GoTo(t, pc)
    BY <1>5 DEF LeaveLock, LeaveCount
  <2>2. ~worker[t].hit => Passed(t, NSlots + 1)
    BY <1>1, <1>5 DEF ScanOf, LeaveLock, LeaveCount, At
  <2>3. ~worker'[t].hit => Passed(t, NSlots + 1)'
    BY <1>0, <1>2, <2>1, <2>2 DEF Passed
  <2>. QED  BY <1>2, <2>1, <2>3 DEF ScanOf, Entering
<1>6. CASE LeaveLast(t) \/ LeaveUnlock(t) \/ WriterLock(t) \/ WriterUnlock(t)
  <2>1. PICK pc \in {"l.unlock", "headers", "w.choose", "close"} : GoTo(t, pc)
    BY <1>6 DEF LeaveLast, LeaveUnlock, WriterLock, WriterUnlock
  <2>. QED  BY <1>2, <2>1 DEF ScanOf, Entering
<1>. QED  BY <1>3, <1>4, <1>5, <1>6 DEF LockSteps

(* The steps outside the cache: a scan starts at the first slot. *)
LEMMA OwnOutside ==
    ASSUME IInv, Scans, NEW t \in Threads,
           \/ Remove(t) \/ Request(t) \/ Refuse(t) \/ Headers(t) \/ Reply(t)
           \/ Connect(t) \/ Fetch(t) \/ Close(t) \/ WriterChoose(t) \/ Fills(t)
    PROVE  ScanOf(t)'
<1>1. worker \in [Threads -> Locals] /\ worker[t] \in Locals /\ ScanOf(t)
  BY DEF IInv, Typed, WorkersTyped, Scans
<1>2. CASE Remove(t)
  <2>1. worker'[t] = [AtRemove EXCEPT !.pc = "request"]
    BY <1>1, <1>2 DEF Remove
  <2>2. worker'[t].pc = "request" /\ worker'[t].i = 1
    BY <2>1 DEF AtRemove
  <2>. QED  BY <2>2 DEF ScanOf
<1>3. CASE Request(t)
  <2>1. PICK pc \in {"r.lock", "refuse", "close"} : GoTo(t, pc)
    BY <1>3 DEF Request
  <2>2. worker[t].i = 1
    BY <1>1, <1>3 DEF ScanOf, Request, At
  <2>3. worker'[t].pc = pc /\ worker'[t].i = 1
    BY <1>1, <2>1, <2>2, GoesOnly
  <2>. QED  BY <2>3 DEF ScanOf, Entering
<1>4. CASE ~Remove(t) /\ ~Request(t)
  <2>1. worker'[t].pc \in {"remove", "close", "headers", "ended", "reply", "connect", "fetch",
                           "w.lock", "w.key", "w.object", "w.header", "w.unlock"}
    <3>1. CASE Refuse(t) \/ Reply(t) \/ Connect(t) \/ WriterKey(t) \/ WriterHeader(t)
      BY <1>1, <3>1, Goes DEF Refuse, Reply, Connect, WriterKey, WriterHeader
    <3>2. CASE WriterObject(t)
      <4>1. GoTo(t, "w.header")
        BY <3>2 DEF WriterObject
      <4>. QED  BY <1>1, <4>1, Goes
    <3>3. CASE Headers(t)
      BY <1>1, <3>3, Goes DEF Headers, At, Locals
    <3>4. CASE Fetch(t) \/ Close(t)
      BY <1>1, <3>4 DEF Fetch, Close, AtRemove, Locals
    <3>5. CASE WriterChoose(t)
      BY <1>1, <3>5 DEF WriterChoose, Locals
    <3>. QED  BY <1>4, <3>1, <3>2, <3>3, <3>4, <3>5 DEF Fills
  <2>. QED  BY <2>1 DEF ScanOf, Entering
<1>. QED  BY <1>2, <1>3, <1>4

(* A step of a worker keeps what the scans have passed. *)
LEMMA WorkerScans ==
    ASSUME IInv, Scans, NEW t \in Threads, CacheStep(t) \/ ConnectionStep(t)
    PROVE  Scans'
<1>1. CASE LockSteps(t) \/ Quiet(t)
  <2>1. Stay(t)
    BY <1>1, StayEverywhere
  <2>2. ScanOf(t)'
    BY <1>1, OwnScan, OwnLock, OwnOutside DEF Quiet, Fills
  <2>3. ASSUME NEW u \in Threads \ {t} PROVE ScanOf(u)'
    <3>1. CASE Reads(t)
      BY <2>1, <3>1, SlotsStay, OthersScan
    <3>2. CASE Fills(t)
      <4>1. worker'[u] = worker[u] /\ worker[u].pc \notin IsReader /\ ScanOf(u)
        BY <2>1, <3>2, FillsAlone DEF Stay, Scans
      <4>. QED  BY <4>1 DEF ScanOf, IsReader, Scanning
    <3>. QED  BY <1>1, <3>1, <3>2 DEF Reads
  <2>. QED  BY <2>2, <2>3 DEF Scans
<1>2. CASE UnixError(t) \/ Overrun(t)
  <2>1. \A u \in Threads : worker'[u].pc = "remove"
    BY <1>2, AtRemoveTyped DEF UnixError, Overrun, Dies
  <2>. QED  BY <2>1 DEF Scans, ScanOf, Entering
<1>. QED  BY <1>1, <1>2 DEF CacheStep, ConnectionStep, LockSteps, Quiet

(* Every step does. *)
LEMMA ScansInductive == IInv /\ Scans /\ [Next]_vars => Scans'
<1>. SUFFICES ASSUME IInv, Scans, [Next]_vars PROVE Scans'
  OBVIOUS
<1>1. CASE Accept \/ Insert
  BY <1>1 DEF Accept, Insert, B!Call, B!Insert, Scans, ScanOf, Passed
<1>2. CASE \E t \in Threads : CacheStep(t) \/ ConnectionStep(t)
  BY <1>2, WorkerScans
<1>3. CASE UNCHANGED vars
  BY <1>3 DEF vars, buffer, Scans, ScanOf, Passed
<1>. QED  BY <1>1, <1>2, <1>3 DEF Next

(* A miss is a miss: at the end of the scan no slot holds the object, whatever
   the other readers did to the ages during it. *)
THEOREM MissesExact == Spec => []MissesAreMisses
<1>1. Init => IInv /\ Scans
  <2>1. SUFFICES ASSUME Init PROVE IInv /\ Scans
    OBVIOUS
  <2>2. \A t \in Threads : worker[t].pc = "remove"
    BY <2>1, AtRemoveTyped DEF Init
  <2>. QED  BY <2>1, <2>2, InitHolds DEF Scans, ScanOf, Entering
<1>2. IInv /\ Scans /\ [Next]_vars => (IInv /\ Scans)'
  BY Inductive, ScansInductive
<1>3. Scans => MissesAreMisses
  <2>1. \A s \in Slots : s < NSlots + 1
    BY NSlotsAssumption DEF Slots
  <2>. QED  BY <2>1 DEF Scans, ScanOf, Passed, MissesAreMisses
<1>. QED  BY <1>1, <1>2, <1>3, PTL DEF Spec

-----------------------------------------------------------------------------
(* The overruns of WriterKey and WriterObject are those of large objects. *)
LEMMA NeverLarge ==
    ASSUME NoLarge, NEW object
    PROVE  ~IsLarge(object)
BY DEF NoLarge, IsLarge

(* The other workers, while the slots stay *)
LEMMA OthersCopy ==
    ASSUME IInv, Copies, SameSlots, NEW t \in Threads, Stay(t), NEW u \in Threads \ {t}
    PROVE  CopyOf(u)'
<1>1. worker'[u] = worker[u] /\ out'[u] = out[u] /\ CopyOf(u)
  BY DEF Stay, Copies
<1>2. Empty' = Empty
  BY DEF SameSlots, Empty
<1>3. worker[u].pc \in {"age", "match"} => worker[u].i \in Slots
  BY DEF IInv, Typed, WorkersTyped
<1>. QED  BY <1>1, <1>2, <1>3 DEF SameSlots, CopyOf

(* and while a writer fills one. *)
LEMMA OthersCopyFilled ==
    ASSUME IInv, Copies, NEW t \in Threads, Fills(t), Stay(t), NEW u \in Threads \ {t}
    PROVE  CopyOf(u)'
<1>1. worker'[u] = worker[u] /\ out'[u] = out[u] /\ CopyOf(u)
  BY DEF Stay, Copies
<1>2. worker[u].pc \notin IsReader /\ worker[u].pc \notin IsWriter
  BY FillsAlone
<1>3. worker[u].pc \notin {"age", "match", "w.key", "w.object", "w.header"}
  BY <1>2 DEF IsReader, IsWriter, Scanning, Writing
<1>. QED  BY <1>1, <1>3 DEF CopyOf

(* The slots that are in use stay true to their keys when nothing is filled. *)
LEMMA SlotsTrue ==
    ASSUME Copies, SameSlots, NEW t \in Threads, Stay(t),
           worker[t].pc # "w.object", worker'[t].pc # "w.object"
    PROVE  \A s \in Slots : cache'[s].valid = 1 /\ ~Filled(s)' => cache'[s].object = cache'[s].key
<1>1. ASSUME NEW s \in Slots PROVE Filled(s)' <=> Filled(s)
  BY DEF Filled, Stay
<1>. QED  BY <1>1 DEF Copies, SameSlots

(* An object is one of those a hit on its own URL may come to, and so are the
   object, and any part of it, of another URL that quotes the request. *)
LEMMA OwnServable == ASSUME NEW url PROVE url \in Servable(url)
BY DEF Servable
LEMMA QuotedServable ==
    ASSUME NEW url \in Urls, NEW key \in Urls, key # url, url \in Quotes[key]
    PROVE  key \in Servable(url) /\ "cut" \in Servable(url)
<1>1. key \in Quoting(url)
  BY DEF Quoting
<1>. QED  BY <1>1 DEF Servable

(* The steps of a reader: it finds a slot in use, which no one is filling, and
   takes the object of its key, or of one that quotes its request. *)
LEMMA OwnCopyScan ==
    ASSUME IInv, Copies, NEW t \in Threads, Scan(t) \/ ScanAge(t) \/ ScanMatch(t) \/ ScanReset(t)
    PROVE  CopyOf(t)' /\ worker'[t].pc # "w.object"
<1>. DEFINE s == worker[t].i
<1>1. /\ worker \in [Threads -> Locals] /\ worker[t] \in Locals /\ CopyOf(t)
      /\ cache \in [Slots -> Slot]
  BY DEF IInv, Typed, WorkersTyped, CacheTyped, Copies
<1>2. SameSlots
  <2>1. Reads(t)
    BY DEF Reads, Quiet, Fills, Scan, ScanAge, ScanMatch, ScanReset, WriterKey,
       WriterObject, WriterHeader, At
  <2>. QED  BY <2>1, SlotsStay
<1>3. out'[t] = out[t]
  BY DEF Scan, ScanAge, ScanMatch, ScanReset, buffer
<1>4. ~ScanReset(t) => ~worker[t].hit
  BY <1>1 DEF Scan, ScanAge, ScanMatch, At, CopyOf
<1>5. CASE Scan(t)
  <2>1. CASE GoTo(t, "l.lock")
    <3>1. worker'[t].pc = "l.lock" /\ ~worker'[t].hit
      BY <1>1, <1>4, <1>5, <2>1, GoesOnly DEF Scan, ScanReset, At
    <3>. QED  BY <3>1 DEF CopyOf, Entering, Leaving, Writing
  <2>2. CASE s \in Slots /\ cache[s].valid = 1
             /\ worker' = [worker EXCEPT ![t].pc = "age", ![t].cnt = cache[s].age]
    <3>1. worker'[t].pc = "age" /\ worker'[t].i = s /\ worker'[t].hit = worker[t].hit
      BY <1>1, <2>2 DEF Locals
    <3>2. ~worker'[t].hit /\ cache'[worker'[t].i].valid = 1
      BY <1>2, <1>4, <1>5, <2>2, <3>1 DEF Scan, ScanReset, At, SameSlots
    <3>. QED  BY <3>1, <3>2 DEF CopyOf, Entering, Leaving, Writing
  <2>3. CASE worker' = [worker EXCEPT ![t].i = s + 1]
    <3>1. worker'[t].pc = "scan" /\ worker'[t].hit = worker[t].hit
      BY <1>1, <1>5, <2>3 DEF Locals, Scan, At
    <3>2. ~worker'[t].hit
      BY <1>4, <1>5, <3>1 DEF Scan, ScanReset, At
    <3>. QED  BY <3>1, <3>2 DEF CopyOf, Entering, Leaving, Writing
  <2>. QED  BY <1>5, <2>1, <2>2, <2>3 DEF Scan
<1>6. CASE ScanAge(t)
  <2>1. /\ worker'[t].pc = "match" /\ worker'[t].i = s /\ worker'[t].hit = worker[t].hit
        /\ worker[t].pc = "age"
    BY <1>1, <1>6, GoesOnly DEF ScanAge, At
  <2>2. ~worker[t].hit /\ s \in Slots /\ cache[s].valid = 1
    BY <1>1, <2>1 DEF CopyOf, IInv, Typed, WorkersTyped
  <2>3. cache'[s].valid = 1
    BY <1>2, <2>2 DEF SameSlots
  <2>. QED  BY <2>1, <2>2, <2>3 DEF CopyOf, Entering, Leaving, Writing
<1>7. CASE ScanMatch(t)
  <2>1. worker[t].pc = "match" /\ ~worker[t].hit
    BY <1>1, <1>7 DEF ScanMatch, At, CopyOf
  <2>2. s \in Slots /\ cache[s].valid = 1
    BY <1>1, <2>1 DEF CopyOf, IInv, Typed, WorkersTyped
  <2>3. ASSUME NEW text, worker' = [worker EXCEPT ![t].pc = "reset", ![t].object = text],
               \/ cache[s].key = out[t] /\ text = cache[s].object
               \/ /\ cache[s].key # out[t] /\ out[t] \in QuotedIn(cache[s])
                  /\ text \in {cache[s].object, "cut"}
        PROVE  CopyOf(t)' /\ worker'[t].pc # "w.object"
    <3>1. worker'[t].pc = "reset" /\ worker'[t].object = text
      BY <1>1, <2>3 DEF Locals
    <3>2. ~Filled(s)
      <4>1. t \in Readers
        BY <2>1 DEF Readers, Scanning
      <4>2. Writers = {}
        BY <4>1 DEF IInv, WHeld
      <4>. QED  BY <4>2 DEF Writers, Writing, Filled
    <3>3. cache[s].object = cache[s].key /\ cache[s].key \in Urls \cup {NoUrl}
      BY <1>1, <2>2, <3>2 DEF Copies, Slot
    <3>4. text \in Servable(out[t])
      <4>1. CASE cache[s].key = out[t] /\ text = cache[s].object
        BY <3>3, <4>1, OwnServable
      <4>2. CASE /\ cache[s].key # out[t] /\ out[t] \in QuotedIn(cache[s])
                 /\ text \in {cache[s].object, "cut"}
        <5>1. out[t] \in Urls /\ cache[s].key \in Urls /\ out[t] \in Quotes[cache[s].key]
          BY <3>3, <4>2, NoUrlAssumption DEF QuotedIn
        <5>. QED  BY <3>3, <4>2, <5>1, QuotedServable
      <4>. QED  BY <2>3, <4>1, <4>2
    <3>. QED  BY <1>3, <3>1, <3>4 DEF CopyOf, Entering, Leaving, Writing
  <2>4. CASE worker' = [worker EXCEPT ![t].pc = "scan", ![t].i = s + 1]
    <3>1. worker'[t].pc = "scan" /\ worker'[t].hit = worker[t].hit
      BY <1>1, <2>4 DEF Locals
    <3>. QED  BY <2>1, <3>1 DEF CopyOf, Entering, Leaving, Writing
  <2>. QED  BY <1>7, <2>3, <2>4 DEF ScanMatch
<1>8. CASE ScanReset(t)
  <2>1. worker'[t].pc = "l.lock" /\ worker'[t].object = worker[t].object
    BY <1>1, <1>8 DEF ScanReset, Locals
  <2>2. worker[t].object \in Servable(out[t])
    BY <1>1, <1>8 DEF ScanReset, At, CopyOf
  <2>. QED  BY <1>3, <2>1, <2>2 DEF CopyOf, Entering, Leaving, Writing
<1>. QED  BY <1>5, <1>6, <1>7, <1>8

(* The steps of the lock: what was found or fetched is kept. *)
LEMMA OwnCopyLock ==
    ASSUME IInv, Copies, NEW t \in Threads, LockSteps(t)
    PROVE  CopyOf(t)' /\ worker[t].pc # "w.object" /\ worker'[t].pc # "w.object"
<1>1. worker \in [Threads -> Locals] /\ CopyOf(t)
  BY DEF IInv, Typed, WorkersTyped, Copies
<1>2. out' = out
  BY DEF LockSteps, ReaderLock, ReaderCount, ReaderFirst, ReaderUnlock, LeaveLock, LeaveCount,
     LeaveLast, LeaveUnlock, WriterLock, WriterUnlock, buffer
<1>3. ASSUME NEW pc, GoTo(t, pc)
      PROVE  /\ worker'[t].pc = pc /\ worker'[t].hit = worker[t].hit
             /\ worker'[t].object = worker[t].object
  BY <1>1, <1>3, GoesOnly
<1>4. CASE ReaderLock(t) \/ ReaderCount(t) \/ ReaderFirst(t) \/ ReaderUnlock(t)
  <2>1. PICK pc \in {"r.count", "r.first", "r.unlock", "scan"} : GoTo(t, pc)
    BY <1>4 DEF ReaderLock, ReaderCount, ReaderFirst, ReaderUnlock
  <2>2. worker[t].pc \in Entering
    BY <1>4 DEF ReaderLock, ReaderCount, ReaderFirst, ReaderUnlock, At, Entering
  <2>3. ~worker[t].hit /\ worker[t].pc # "w.object"
    BY <1>1, <2>2 DEF CopyOf, Entering
  <2>. QED  BY <1>3, <2>1, <2>3 DEF CopyOf, Entering, Leaving, Writing
<1>5. CASE LeaveLock(t) \/ LeaveCount(t) \/ LeaveLast(t) \/ LeaveUnlock(t)
  <2>1. PICK pc \in {"l.count", "l.last", "l.unlock", "headers"} : GoTo(t, pc)
    BY <1>5 DEF LeaveLock, LeaveCount, LeaveLast, LeaveUnlock
  <2>2. worker[t].pc \in Leaving
    BY <1>5 DEF LeaveLock, LeaveCount, LeaveLast, LeaveUnlock, At, Leaving
  <2>3. (worker[t].hit => worker[t].object \in Servable(out[t])) /\ worker[t].pc # "w.object"
    BY <1>1, <2>2 DEF CopyOf, Leaving
  <2>. QED  BY <1>2, <1>3, <2>1, <2>3 DEF CopyOf, Entering, Leaving, Writing
<1>6. CASE WriterLock(t) \/ WriterUnlock(t)
  <2>1. PICK pc \in {"w.choose", "close"} : GoTo(t, pc)
    BY <1>6 DEF WriterLock, WriterUnlock
  <2>2. worker[t].pc \in {"w.lock", "w.unlock"}
    BY <1>6 DEF WriterLock, WriterUnlock, At
  <2>3. worker[t].object = out[t]
    BY <1>1, <2>2 DEF CopyOf, Writing
  <2>. QED  BY <1>2, <1>3, <2>1, <2>2, <2>3 DEF CopyOf, Entering, Leaving, Writing
<1>. QED  BY <1>4, <1>5, <1>6 DEF LockSteps

(* The steps outside the cache, and the choice of a slot. *)
LEMMA OwnCopyOutside ==
    ASSUME IInv, Copies, NEW t \in Threads,
           \/ Remove(t) \/ Request(t) \/ Refuse(t) \/ Headers(t) \/ Reply(t)
           \/ Connect(t) \/ Fetch(t) \/ Close(t) \/ WriterChoose(t)
    PROVE  CopyOf(t)' /\ worker[t].pc # "w.object" /\ worker'[t].pc # "w.object"
<1>1. worker \in [Threads -> Locals] /\ worker[t] \in Locals /\ CopyOf(t)
  BY DEF IInv, Typed, WorkersTyped, Copies
<1>2. worker[t].pc # "w.object"
  BY DEF Remove, Request, Refuse, Headers, Reply, Connect, Fetch, Close, WriterChoose, At
<1>3. ASSUME NEW pc, GoTo(t, pc)
      PROVE  worker'[t].pc = pc /\ worker'[t].hit = worker[t].hit
  BY <1>1, <1>3, GoesOnly
<1>4. CASE Remove(t)
  <2>1. worker'[t] = [AtRemove EXCEPT !.pc = "request"]
    BY <1>1, <1>4 DEF Remove
  <2>2. worker'[t].pc = "request" /\ ~worker'[t].hit
    BY <2>1 DEF AtRemove
  <2>. QED  BY <1>2, <2>2 DEF CopyOf, Entering, Leaving, Writing
<1>5. CASE Close(t)
  <2>1. worker'[t].pc = "remove"
    BY <1>1, <1>5, AtRemoveTyped DEF Close
  <2>. QED  BY <1>2, <2>1 DEF CopyOf, Entering, Leaving, Writing
<1>6. CASE Request(t)
  <2>1. PICK pc \in {"r.lock", "refuse", "close"} : GoTo(t, pc)
    BY <1>6 DEF Request
  <2>2. ~worker[t].hit
    BY <1>1, <1>6 DEF CopyOf, Request, At
  <2>. QED  BY <1>2, <1>3, <2>1, <2>2 DEF CopyOf, Entering, Leaving, Writing
<1>7. CASE Refuse(t) \/ Reply(t) \/ Connect(t)
  <2>1. PICK pc \in {"close", "fetch"} : GoTo(t, pc)
    BY <1>7 DEF Refuse, Reply, Connect
  <2>. QED  BY <1>2, <1>3, <2>1 DEF CopyOf, Entering, Leaving, Writing
<1>8. CASE Headers(t)
  <2>1. /\ worker[t].pc = "headers" /\ out' = out
        /\ worker[t].hit => worker[t].object \in Servable(out[t])
    BY <1>1, <1>8 DEF Headers, At, buffer, CopyOf
  <2>2. CASE worker' = [worker EXCEPT ![t].pc = IF worker[t].hit THEN "reply" ELSE "connect",
                                      ![t].kept = FALSE]
    <3>1. /\ worker'[t].pc = (IF worker[t].hit THEN "reply" ELSE "connect")
          /\ worker'[t].object = worker[t].object
      BY <1>1, <2>2 DEF Locals
    <3>. QED  BY <1>2, <2>1, <3>1 DEF CopyOf, Entering, Leaving, Writing
  <2>3. ASSUME NEW kept \in BOOLEAN, worker' = [worker EXCEPT ![t].kept = kept]
        PROVE  CopyOf(t)' /\ worker'[t].pc # "w.object"
    <3>1. /\ worker'[t].pc = "headers" /\ worker'[t].hit = worker[t].hit
          /\ worker'[t].object = worker[t].object
      BY <1>1, <2>1, <2>3 DEF Locals
    <3>. QED  BY <2>1, <3>1 DEF CopyOf, Entering, Leaving, Writing
  <2>4. CASE GoTo(t, "ended")
    <3>1. worker'[t].pc = "ended"
      BY <1>3, <2>4
    <3>. QED  BY <1>2, <3>1 DEF CopyOf, Entering, Leaving, Writing
  <2>. QED  BY <1>2, <1>8, <2>2, <2>3, <2>4 DEF Headers
<1>9. CASE Fetch(t)
  <2>1. \/ worker'[t].pc = "close"
        \/ worker'[t].pc = "w.lock" /\ worker'[t].object = out[t]
    BY <1>1, <1>9 DEF Fetch, Locals
  <2>2. out' = out
    BY <1>9 DEF Fetch, buffer
  <2>. QED  BY <1>2, <2>1, <2>2 DEF CopyOf, Entering, Leaving, Writing
<1>10. CASE WriterChoose(t)
  <2>. DEFINE slot == Lowest(IF Empty # {} THEN Empty ELSE Oldest)
  <2>1. slot \in Slots
    BY ChoosesSlot DEF IInv, Typed
  <2>2. Empty # {} => slot \in Empty
    <3>1. SUFFICES ASSUME Empty # {} PROVE Lowest(Empty) \in Empty
      OBVIOUS
    <3>2. Empty \in SUBSET Nat
      BY DEF Empty, Slots
    <3>3. \E e \in Empty : \A r \in Empty : e <= r
      BY <3>1, <3>2, LeastNatural
    <3>. QED  BY <3>3 DEF Lowest
  <2>3. worker' = [worker EXCEPT ![t].pc = "w.key", ![t].i = slot]
    BY <1>10 DEF WriterChoose
  <2>. HIDE DEF slot
  <2>4. /\ worker'[t].pc = "w.key" /\ worker'[t].i = slot
        /\ worker'[t].object = worker[t].object
    BY <1>1, <2>3 DEF Locals
  <2>5. worker[t].object = out[t] /\ out' = out /\ cache' = cache
    BY <1>1, <1>10 DEF WriterChoose, At, CopyOf, Writing, buffer
  <2>6. cache'[slot].valid = 0 \/ Empty' = {}
    BY <2>2, <2>5 DEF Empty
  <2>. QED  BY <1>2, <2>1, <2>4, <2>5, <2>6 DEF CopyOf, Entering, Leaving, Writing
<1>. QED  BY <1>4, <1>5, <1>6, <1>7, <1>8, <1>9, <1>10

(* The steps that fill a slot: first its key, then the object, and at last it is
   in use. *)
LEMMA FillsCopies ==
    ASSUME NoLarge, IInv, Copies, NEW t \in Threads, Fills(t)
    PROVE  Copies'
<1>. DEFINE s == worker[t].i
<1>1. /\ worker \in [Threads -> Locals] /\ worker[t] \in Locals /\ CopyOf(t)
      /\ cache \in [Slots -> Slot] /\ out' = out
  BY DEF IInv, Typed, WorkersTyped, CacheTyped, Copies, Fills, WriterKey, WriterObject,
     WriterHeader, buffer
<1>2. worker[t].pc \in {"w.key", "w.object", "w.header"} /\ s \in Slots
      /\ worker[t].object = out[t]
  BY <1>1 DEF Fills, WriterKey, WriterObject, WriterHeader, At, CopyOf, Writing
<1>3. \A u \in Threads \ {t} : CopyOf(u)'
  <2>1. Stay(t)
    BY StayEverywhere DEF Fills, Quiet
  <2>. QED  BY <2>1, OthersCopyFilled
<1>4. \A u \in Threads \ {t} : worker'[u].pc # "w.object" /\ worker[u].pc # "w.object"
  <2>1. Stay(t)
    BY StayEverywhere DEF Fills, Quiet
  <2>. QED  BY <2>1, FillsAlone DEF Stay, IsWriter, Writing
<1>5. CASE WriterKey(t)
  <2>1. cache' = [r \in Slots |-> IF r = s THEN [cache[s] EXCEPT !.key = out[t]] ELSE cache[r]]
    BY <1>5, NeverLarge DEF WriterKey
  <2>2. worker'[t].pc = "w.object" /\ worker'[t].i = s /\ worker'[t].object = out[t]
    BY <1>1, <1>2, <1>5, GoesOnly DEF WriterKey
  <2>3. cache'[s].key = out[t]
    BY <1>1, <1>2, <2>1 DEF Slot
  <2>4. CopyOf(t)'
    BY <1>1, <1>2, <2>2, <2>3 DEF CopyOf, Entering, Leaving, Writing
  <2>5. ASSUME NEW r \in Slots, cache'[r].valid = 1, ~Filled(r)'
        PROVE  cache'[r].object = cache'[r].key
    <3>1. r # s /\ cache'[r] = cache[r]
      BY <2>1, <2>2, <2>5 DEF Filled
    <3>2. ~Filled(r)
      BY <1>4, <1>5 DEF Filled, WriterKey, At
    <3>. QED  BY <2>5, <3>1, <3>2 DEF Copies
  <2>. QED  BY <1>3, <2>4, <2>5 DEF Copies
<1>6. CASE WriterObject(t)
  <2>1. cache' = [r \in Slots |-> IF r = s THEN [cache[s] EXCEPT !.object = worker[t].object]
                                  ELSE cache[r]]
    BY <1>6, NeverLarge DEF WriterObject
  <2>2. worker'[t].pc = "w.header" /\ worker'[t].i = s /\ worker'[t].object = out[t]
    <3>1. GoTo(t, "w.header")
      BY <1>6 DEF WriterObject
    <3>. QED  BY <1>1, <1>2, <3>1, GoesOnly
  <2>3. cache[s].key = out[t]
    BY <1>1, <1>6 DEF WriterObject, At, CopyOf
  <2>4. cache'[s].key = out[t] /\ cache'[s].object = out[t]
    BY <1>1, <1>2, <2>1, <2>3 DEF Slot
  <2>5. CopyOf(t)'
    BY <1>1, <1>2, <2>2, <2>4 DEF CopyOf, Entering, Leaving, Writing
  <2>6. ASSUME NEW r \in Slots, cache'[r].valid = 1
        PROVE  cache'[r].object = cache'[r].key
    <3>1. CASE r = s
      BY <2>4, <3>1
    <3>2. CASE r # s
      <4>1. cache'[r] = cache[r]
        BY <2>1, <3>2
      <4>2. ~Filled(r)
        BY <1>4, <3>2 DEF Filled
      <4>. QED  BY <2>6, <4>1, <4>2 DEF Copies
    <3>. QED  BY <3>1, <3>2
  <2>. QED  BY <1>3, <2>5, <2>6 DEF Copies
<1>7. CASE WriterHeader(t)
  <2>1. cache[s].key = out[t] /\ cache[s].object = out[t]
    BY <1>1, <1>7 DEF WriterHeader, At, CopyOf
  <2>2. /\ cache'[s].key = cache[s].key /\ cache'[s].object = cache[s].object
        /\ \A r \in Slots : r # s => cache'[r] = cache[r]
    BY <1>1, <1>2, <1>7 DEF WriterHeader, Slot
  <2>3. worker'[t].pc = "w.unlock" /\ worker'[t].object = out[t]
    BY <1>1, <1>2, <1>7, GoesOnly DEF WriterHeader
  <2>4. CopyOf(t)'
    BY <1>1, <2>3 DEF CopyOf, Entering, Leaving, Writing
  <2>5. ASSUME NEW r \in Slots, cache'[r].valid = 1
        PROVE  cache'[r].object = cache'[r].key
    <3>1. ~Filled(r)
      BY <1>4, <1>7 DEF Filled, WriterHeader, At
    <3>. QED  BY <2>1, <2>2, <2>5, <3>1 DEF Copies
  <2>. QED  BY <1>3, <2>4, <2>5 DEF Copies
<1>. QED  BY <1>5, <1>6, <1>7 DEF Fills

(* A proxy that has just started or has died has no slot in use. *)
LEMMA IdleCopies ==
    ASSUME \A t \in Threads : worker[t].pc = "remove", \A s \in Slots : cache[s].valid = 0
    PROVE  Copies
BY DEF Copies, CopyOf, Entering, Leaving, Writing

(* Every step keeps the copies true. *)
LEMMA CopiesInductive ==
    ASSUME NoLarge
    PROVE  IInv /\ Copies /\ [Next]_vars => Copies'
<1>. SUFFICES ASSUME IInv, Copies, [Next]_vars PROVE Copies'
  OBVIOUS
<1>1. CASE Accept \/ Insert
  BY <1>1 DEF Accept, Insert, B!Call, B!Insert, Copies, CopyOf, Filled, Empty
<1>2. ASSUME NEW t \in Threads, Reads(t) PROVE Copies'
  <2>1. Stay(t) /\ SameSlots
    BY <1>2, StayEverywhere, SlotsStay DEF Reads
  <2>2. CopyOf(t)' /\ worker[t].pc # "w.object" /\ worker'[t].pc # "w.object"
    <3>1. CASE Scan(t) \/ ScanAge(t) \/ ScanMatch(t) \/ ScanReset(t)
      BY <3>1, OwnCopyScan DEF Scan, ScanAge, ScanMatch, ScanReset, At
    <3>. QED  BY <1>2, <3>1, OwnCopyLock, OwnCopyOutside DEF Reads, Quiet, Fills
  <2>3. \A u \in Threads \ {t} : CopyOf(u)'
    BY <2>1, OthersCopy
  <2>. QED  BY <2>1, <2>2, <2>3, SlotsTrue DEF Copies
<1>3. ASSUME NEW t \in Threads, Fills(t) PROVE Copies'
  BY <1>3, FillsCopies
<1>4. ASSUME NEW t \in Threads, UnixError(t) \/ Overrun(t) PROVE Copies'
  <2>1. /\ \A u \in Threads : worker'[u].pc = "remove"
        /\ \A s \in Slots : cache'[s].valid = 0
    BY <1>4, AtRemoveTyped DEF UnixError, Overrun, Dies
  <2>. QED  BY <2>1 DEF Copies, CopyOf, Entering, Leaving, Writing
<1>5. CASE UNCHANGED vars
  BY <1>5 DEF vars, buffer, Copies, CopyOf, Filled, Empty
<1>. QED  BY <1>1, <1>2, <1>3, <1>4, <1>5 DEF Next, CacheStep, ConnectionStep, Reads, Fills,
             LockSteps, Quiet

(* They are true at the start. *)
LEMMA CopiesInit == Init => IInv /\ Copies
<1>. SUFFICES ASSUME Init PROVE IInv /\ Copies
  OBVIOUS
<1>1. \A t \in Threads : worker[t].pc = "remove"
  BY AtRemoveTyped DEF Init
<1>2. \A s \in Slots : cache[s].valid = 0
  BY DEF Init
<1>. QED  BY <1>1, <1>2, InitHolds, IdleCopies

(* As long as no object passes the end of its slot, a hit serves the object of the
   URL asked for; when other objects quote the request, for which strstr takes the
   key in them (proxy.c:159), it serves that object or what it comes to in one of
   these.  The objects, their lengths and what they quote are arbitrary. *)
THEOREM HitsServe ==
    ASSUME NoLarge
    PROVE  Spec => []HitServesOriginal
<1>1. Init => IInv /\ Copies
  BY CopiesInit
<1>2. IInv /\ Copies /\ [Next]_vars => (IInv /\ Copies)'
  BY Inductive, CopiesInductive
<1>3. Copies => HitServesOriginal
  BY DEF Copies, CopyOf, HitServesOriginal
<1>. QED  BY <1>1, <1>2, <1>3, PTL DEF Spec

(* No object holds the text of a request for another URL. *)
NoQuotes == \A url, other \in Urls : url # other => url \notin Quotes[other]

(* What a user of the proxy may rely on: with texts that fit their slots and quote
   no other request, every hit is answered with the object of the URL asked for. *)
THEOREM CopiesTrue ==
    ASSUME NoLarge, NoQuotes
    PROVE  Spec => []CachedCopyIsOriginal
<1>1. HitServesOriginal => CachedCopyIsOriginal
  <2>. SUFFICES ASSUME HitServesOriginal, NEW t \in Threads, worker[t].pc = "reply"
                PROVE  worker[t].object = out[t]
    BY DEF CachedCopyIsOriginal
  <2>1. Quoting(out[t]) = {}
    BY QuotesAssumption DEF NoQuotes, Quoting
  <2>. QED  BY <2>1 DEF HitServesOriginal, Servable
<1>. QED  BY <1>1, HitsServe, PTL

(* Under the same condition an object leaves the cache only when no slot is free. *)
THEOREM EvictsWhenFull ==
    ASSUME NoLarge
    PROVE  Spec => EvictsOnlyWhenFull
<1>. DEFINE Evicts == \A s \in Slots : cache[s].valid = 1 /\ cache'[s].key # cache[s].key
                                           => Empty = {} \/ ~alive'
<1>1. Init => IInv /\ Copies
  BY CopiesInit
<1>2. IInv /\ Copies /\ [Next]_vars => (IInv /\ Copies)'
  BY Inductive, CopiesInductive
<1>3. IInv /\ Copies /\ [Next]_vars => [Evicts]_vars
  <2>. SUFFICES ASSUME IInv, Copies, Next PROVE Evicts
    OBVIOUS
  <2>1. CASE cache' = cache
    BY <2>1
  <2>2. ASSUME NEW t \in Threads, Reads(t) PROVE Evicts
    BY <2>2, SlotsStay DEF SameSlots
  <2>3. ASSUME NEW t \in Threads, WriterKey(t) PROVE Evicts
    <3>1. cache' = [r \in Slots |-> IF r = worker[t].i THEN [cache[r] EXCEPT !.key = out[t]]
                                    ELSE cache[r]]
      BY <2>3, NeverLarge DEF WriterKey
    <3>2. cache[worker[t].i].valid = 0 \/ Empty = {}
      BY <2>3 DEF WriterKey, At, Copies, CopyOf
    <3>. QED  BY <3>1, <3>2
  <2>4. ASSUME NEW t \in Threads, WriterObject(t) PROVE Evicts
    <3>1. cache' = [r \in Slots |-> IF r = worker[t].i
                                    THEN [cache[r] EXCEPT !.object = worker[t].object]
                                    ELSE cache[r]]
      BY <2>4, NeverLarge DEF WriterObject
    <3>2. cache \in [Slots -> Slot]
      BY DEF IInv, Typed, CacheTyped
    <3>3. \A r \in Slots : cache'[r].key = cache[r].key
      BY <3>1, <3>2 DEF Slot
    <3>. QED  BY <3>3
  <2>5. ASSUME NEW t \in Threads, WriterHeader(t) PROVE Evicts
    <3>1. cache \in [Slots -> Slot]
      BY DEF IInv, Typed, CacheTyped
    <3>2. \A r \in Slots : cache'[r].key = cache[r].key
      BY <2>5, <3>1 DEF WriterHeader, Slot
    <3>. QED  BY <3>2
  <2>6. ASSUME NEW t \in Threads, UnixError(t) \/ Overrun(t) PROVE Evicts
    BY <2>6 DEF UnixError, Overrun, Dies
  <2>. QED  BY <2>1, <2>2, <2>3, <2>4, <2>5, <2>6 DEF Next, Accept, Insert, CacheStep,
               ConnectionStep, Reads, Fills, LockSteps, Quiet
<1>. QED  BY <1>1, <1>2, <1>3, PTL DEF Spec, EvictsOnlyWhenFull

=============================================================================
