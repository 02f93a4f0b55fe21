# csapp3 in TLA+

The repository is a set of solved course labs. Four of them hold systems in the
usual sense, a shell with job control, a caching proxy, a web server and a memory
allocator; the others are a cache simulator, a matrix transpose, bit puzzles and
binaries, with the programs that test and rate the solutions. This directory holds
a TLA+ development of the ones that have behaviour worth checking: specifications,
TLC runs, and proofs for TLAPS.

## 1. Inventory

| Part | Source | State | Operations | What is hard |
|---|---|---|---|---|
| Shell: job list | `shlab-handout/tsh.c` 42-51, 443-547 | `jobs[MAXJOBS]`, `nextjid` | `addjob`, `deletejob`, `fgpid`, `getjobpid`, `getjobjid`, `maxjid` | used by the main loop and by handlers that interrupt it and each other |
| Shell: loop and handlers | `tsh.c` 88-433, 631-652 | locals of `eval`, `do_bgfg`, `waitfg`; the blocked mask; the frames of the handlers | commands, `fork`, `sigsuspend`, SIGCHLD, SIGINT, SIGTSTP, SIGQUIT | signals that do not queue, nested handlers, pointers into a table that changes, lost wakeups |
| Proxy: connection buffer | `proxylab-handout/sbuf.c` | array, two indices, three semaphores | `sbuf_insert`, `sbuf_remove` | several threads between the increment of an index and the access to the slot |
| Proxy: cache and workers | `proxylab-handout/proxy.c` | slots with age, `mutex`, `w`, `readcnt`, the object of each worker | `reader`, `writer`, `doit`, `thread`, `main` | readers and writers, racy ages, clients and servers that say nothing, one failure that ends everything |
| csapp | `proxylab-handout/csapp.c` (three identical copies) | the RIO buffer of a reader | `rio_read*`, `rio_writen`, `open_clientfd`, `open_listenfd`, `P`, `V`, wrappers | short counts, what is read ahead; every wrapper exits on error |
| Tiny server | `proxylab-handout/tiny/tiny.c` | none between requests | `doit`, `read_requesthdrs`, `serve_static`, `serve_dynamic`, `clienterror` | one client at a time, clients that leave, files that vanish, a child that shares the connection |
| Allocator | `malloclab-handout/mm.c` | blocks with boundary tags, five lists of small sizes, a tree of lists of large ones | `mm_malloc`, `mm_free`, `mm_realloc`, `coalesce`, `place`, tree and list routines | long sequences of calls that must keep three structures consistent |
| Allocator: driver | `malloclab-handout/memlib.c`, `mdriver.c` | the break, the range list, the table of a trace, statistics, the count of errors | `mem_sbrk`, `read_trace`, `add_range`, `remove_range`, `eval_mm_valid`, `eval_mm_util`, the index | the contract of the allocator; one bad trace among good ones |
| Allocator: timing | `malloclab-handout/fcyc.c`, `clock.c`, `ftimer.c`, `fsecs.c` | the K best samples, the start of the counter | `fcyc`, `add_sample`, `get_counter` | counters that wrap |
| Cache simulator | `cachelab-handout/csim.c` | lines with valid bit, tag, counter; three counts | one trace operation | counters that must stay distinct for the replacement to be LRU |
| Transpose | `cachelab-handout/trans.c` | the matrix B | `transpose_submit`, `trans`, `transpose_1` | blocking, elements that are deferred |
| Cache lab: rating | `cachelab-handout/test-trans.c`, `tracegen.c`, `cachelab.c`, `driver.py` | the list of functions, `results`, the file `.csim_results` | `eval_perf`, `validate`, the alarm, the score | programs that fail and files that stay |
| Bit puzzles | `datalab-handout/bits.c` | none | fifteen functions on words | widths and signs; three functions are unfinished |
| Data lab: rating | `datalab-handout/btest.c`, `decl.c`, `tests.c` | the function under test, points, the alarm | `run_tests`, `test_function`, `gen_vals`, `timeout_handler` | an alarm that is never cancelled and a jump into a frame that may be gone |
| Scripts, binaries | `sdriver.pl`, `driver.sh`, `driver.pl`, `bomb`, `target1`, ... | | | not modelled, see section 6 |

How they interact. In the shell, the main loop and the three handlers share the
job list; `eval` alone blocks signals (around `fork` and `addjob`), `do_bgfg` and
`waitfg` run with every signal open, and a handler blocks only its own signal.
In the proxy, `main` hands connections to four workers through the buffer, and
the workers share the cache under a first readers-writers lock. The allocator and
its driver meet in `mem_sbrk` below and in `mm_malloc`, `mm_free` and
`mm_realloc` above. The proxy and the server meet in a connection: each reads and
writes through csapp's RIO package, and each can close it or die while the other
is using it. `test-trans` runs `tracegen` and the simulator as processes and learns
from them by an exit status and a file; `btest` and `mdriver` call what they test.

What makes each correct:

- *shell*: at most one foreground job; the prompt only when there is none; the
  list agrees with the children the kernel knows; a keyboard signal reaches the
  foreground job and no other; what is reaped is deleted; `waitfg` ends; `bg` and
  `fg` restart what was stopped; a SIGCHLD does not block the shell;
- *buffer*: a bounded FIFO, no slot lost, nobody waiting for ever;
- *cache of the proxy*: readers or one writer; a hit serves the object of the URL
  asked for (unless another object quotes the request), a miss is a miss; an object is evicted only for lack of a free slot;
  the cache is left again by whoever enters it;
- *RIO*: each call returns the next part of the stream it promises, whatever the
  single transfers were;
- *server*: a client that stays gets one whole answer to its own request; all of a
  request is read before the answer; whoever connects is served;
- *simulator*: least-recently-used replacement, and counts that agree with it;
- *ratings*: points for what is right and for nothing else, whatever fails on the
  way; a run with a time limit ends;
- *allocator*: payloads disjoint and inside the heap, the lists and the tree hold
  exactly the free blocks, no two free neighbours, the best fit for a request,
  NULL only when the heap cannot grow, `mm_realloc` keeps the contents.

The hazards, each at its line, with the properties that cover it, are listed in
`PROJECT.json`.

## 2. Modules

| Module | Models | Notes |
|---|---|---|
| `JobList` | the job list of the shell | constant module: one operator per routine; the pair of globals is the record `[jobs, nextjid]` |
| `Tsh` | the shell, its children, the keyboard | EXTENDS `JobList`; one action per access to the list or system call |
| `Sbuf` | `sbuf.c` with its callers | one action per semaphore operation, index increment, array access |
| `Fifo` | what `sbuf.c` promises | abstract specification, implemented by `Sbuf`, used by `Proxy` |
| `Proxy` | `proxy.c` | composes `Fifo` (INSTANCE) with the workers, the cache and its lock |
| `Rio` | the RIO package of `csapp.c` | constant module: the record of a call in progress, and what each transfer does to it |
| `Tiny` | `tiny.c` with its clients and CGI programs | EXTENDS `Rio`; one action per system call |
| `Csim` | `csim.c` | one action per outcome of an access |
| `LruCache` | an LRU cache | abstract specification, implemented by `Csim` |
| `Mm` | `mm.c` over the memory of `memlib.c` | constant module: each routine takes the words of the heap and returns them |
| `Mdriver` | `eval_mm_valid` of `mdriver.c` with its range list | EXTENDS `Mm`; one action per request |
| `Evaluate` | `mdriver.c`'s evaluation of any package | one action per request of a trace, one per phase |
| `Fcyc` | `fcyc.c` over `clock.c` | one action per sample |
| `Bits` | `bits.c` and the functions of `tests.c` | constant module: one operator per function |
| `Btest` | `btest.c` with `decl.c` | EXTENDS `Bits`; one action per test |
| `Transpose` | `trans.c` | constant module: the innermost loops of each function, in order |
| `TestTrans` | `test-trans.c`, `tracegen.c`, `cachelab.c`, `driver.py` | EXTENDS `Transpose`; one action per innermost loop and per program that is run |
| `AbstractHeap` | what an allocator owes its clients | abstract specification, implemented by `Mdriver` |
| `TshProofs`, `SbufProofs`, `ProxyProofs`, `TinyProofs`, `CsimProofs`, `LabsProofs`, `MdriverProofs`, `WellOrder` | theorems | see section 4; `LabsProofs` is about `Evaluate`, `Fcyc` and `TestTrans` |
| `MCTsh`, `MCSbuf`, `MCProxy`, `MCTiny`, `MCMdriver` | constants for the runs | |
| `MCLabs` | constants for the programs of the labs | runs one of `Evaluate`, `Fcyc`, `Btest`, `TestTrans`, `Csim` |

### The shell

`tab` is the job list, `main` the locals of the loop with its program counter,
`handler` the frame of each handler, `nest` the stack of handlers that are
running, `pending` the signals sent and not delivered, `masked` eval's block,
`proc` what the kernel knows of each child. `unlisted` is a history variable: the
children for which `addjob` found the table full.

A handler is delivered between any two steps, of the loop or of another handler,
when its signal is pending, it is not itself running (its own signal is blocked)
and eval has not blocked everything; `Deliver` pushes it on `nest`, and only the
head of `nest` moves. `pending` is a set, so two SIGCHLDs that arrive together
are one. `waitfg` is two steps, the test of its loop and `sigsuspend`, because a
handler that runs between them is what can go wrong. `waitpid(-1, &status, 0)` is
enabled when there is a zombie, fails when there is no child, and blocks
otherwise. When the process ends (`quit`, an error, a null pointer) the state is
reset and nothing but stuttering follows.

A routine of the job list is one step even when a handler calls it and another
handler may interrupt it half way; the steps between the routines are where the
code keeps values across a handler. What the child does between `fork` and
`execve` is not modelled, except that it may not yet obey a signal (`Signalled`).
Printing, parsing, `pid2jid` and `listjobs` are left out.

### The proxy

`Sbuf` has one program counter per thread; `in` and `out` are the argument of an
insertion and the result of a removal. The increment of `rear` (`front`) and the
access to the array are two steps. `Proxy` uses the buffer by its promise, so
`Insert` and `Remove` are single steps there, which the refinement checked by run
`sbuf` justifies. In the cache, `readcnt++`, each `P` and `V`, the load and the
store of an age, the comparison with the copy, and the writes of key, object and
header are steps of their own. Objects are named by their URL and have a length
class: `text` fits, `huge` exceeds the limit of `doit`, and `large` passes the
limit, which counts the object alone, but does not fit the slot with its key. A
`large` object runs over the header and the key of the next slot, as the two
`strcpy` of `writer` do. A failing wrapper ends the process (`UnixError`).

A lookup is `strstr` over the whole text of a slot, key and object. A key cannot
occur in another one (it starts with `GET `, and no URL has a blank in it), but an
object may quote any request: `Quotes` names for each object the URLs whose requests
its text holds. A hit on such a slot copies what follows as many characters of it as
the request has, which is the object only if its own key has that length; otherwise
it is `cut`, a text that is no whole object (`ScanMatch`, `QuotedIn`). So a hit serves
the object asked for, or what it comes to in an object that quotes the request
(`Servable`); and the first alone if there is none such.

`parserequest` is the choice of the first error that applies. It reads an
uninitialised array when the address does not start with `http://`; the URL of a
connection is the one it arrives at, whatever that is. `read_requesthdrs` is one
step per line. At the end of the input `rio_readlineb` returns 0 and leaves the
array as it was, so the loop appends its last line again and again until the
request is overrun (`Overrun`, taken for the end of the process), or, when the last
line was one it drops, goes round for ever (the worker stays at `ended`).

### The web server

`Rio` is the package without its callers: `rio` is the frame of a call (`op`, `n`,
what it has `got`) with the reader's buffer (`unread`). `Fed` is `rio_read`'s copy
out of the buffer, `After` a refill, and a read or write transfers any number of
elements it could. A call that is interrupted (EINTR) repeats, which is no step.

`Tiny` has the server's program counter and locals in `server`, the two directions
of each connection in `up` and `down`, the clients' frames in `crio` and the
server's in `srio`. `wrote` and `server.took` are histories. A client sends its
request with `rio_writen` and reads the answer with the call its request names, so
that all of RIO's calls meet all kinds of answer. A line is one element for its
text (or two, when it is to fill the buffer) and one for its end. A client may
leave at any time, a close with data unread resets the connection, a file may be
removed between `stat` and `open`, and a write to a client that is gone ends the
server, as the wrappers do. The CGI program writes to the same connection, and the
server waits for it.

### The cache simulator

One action per outcome: `Hit`, `Miss`, `MissEviction`. The counters and tags
of each line start with values of their own, as `malloc` leaves them, negative ones
too; a lookup reads none of them before the line is in use, which `LinesOrdered`
includes. The tag is cut to
`TagBits` bits, as the `int` it is stored in; the counters are unbounded.

### The allocator

The memory is a function from word addresses to contents; a word holds a tag, a
pointer, or the index of the request whose data it is. `mem_sbrk` grows the domain,
so an access outside the heap stops TLC and a write outside it breaks `TypeOK`.
Every routine of `mm.c` is an operator of the same name. The descent of the tree
is written once (`Slot`): `find_precise`, `find_parent`, the search for a leaf in
`add_block_list` and the one for the parent in `delete_block_list` end at the same
word. The writes that only clear words of a block which leaves its list are left
out: the next routine overwrites them or nobody reads them. What follows links follows
them only within the memory, so that each routine is a function whatever the words hold.
`HeapTiled` says that the words of the blocks are those between prologue and
epilogue, `ListsExact` that the lists and the tree are disjoint sets of blocks whose
union is the free blocks; both are stated without the order in which the walks of
the code meet them.

`Mdriver` is the client that `mdriver.c` is: it fills each payload with the
request's index, tests alignment, extent and overlap, and compares the old data
after `mm_realloc`, at the granularity of a word. After each request the words
that hold neither a tag, nor a pointer somebody may follow, nor a client's data
become `Junk` (`Forget`); arithmetic on `Junk` or following it stops TLC, so a
passing run also shows that no dead word is used. `mm_realloc` is called with
sizes of at least one word, as in the traces: for size 0 it would leave a block
too small for its links. The debugging walk `check_list_in` is not called by the
package; for small sizes it would follow the result of `find_precise`, which is
null there. What it and `check_free_block` look for is stated in `ListsExact` and
`Coalesced`.

`Evaluate` is the rest of the driver around any package: an answer is any address,
the break moves as it likes, `mm_init` and each call may fail. It reads the traces
(`WellFormed` is what `read_trace` asserts), runs `eval_mm_valid`, and for a valid
trace `eval_mm_util`; the answers of the second pass are taken to be those of the
first, as both start with `mm_init`. `enclosed` is a history.

### The programs that rate the labs

`Fcyc` takes any starting value of the counter and any running time; `taken` is a
history of the true times. `Bits` computes with 32-bit words, by halves, since
TLC's integers are of that width. In `Btest` the generated values are those of
`gen_vals` for a smaller `TEST_RANGE`, with the corners it always adds; `rand` is a
function of the number of the call. `Alarm` jumps to the last `sigsetjmp`: within
its function, into the one after it when that has taken the same frame, or into
nothing (`crash`).

`Transpose` writes a function of `trans.c` as the rows of its innermost loops.
`Deferred` are the elements of a row whose lines collide, `Kept` the one that
survives, since there is one variable for it. `TestTrans` runs them row by row
through a direct-mapped cache of 32 lines of 32 bytes, the reference simulator's,
and goes through `test-trans` and `driver.py` with the result: programs that are not there or
die, an old `.csim_results` or none (then an assertion ends `test-trans`), the alarm
after 120 seconds. The trace of a function that died has no end marker, so it is
not closed when the simulator reads it and is empty then.

## 3. Runs

| Run | Module, bounds | Checks | Result |
|---|---|---|---|
| `tsh_safety` | `MCTsh`, 2 slots, 3 process IDs, job IDs to 2, symmetric IDs | `TypeOK`, `AtMostOneFg`, `PromptHasNoFg`, `TableMatchesChildren`, `ForwardsToForeground`, `OnlyReapedLeave` | hold |
| `tsh_liveness` | 1 slot, 2 process IDs | `ReapedIsDeleted` | holds |
| `tsh_sigchld` | 1 slot, 1 process ID | `NoWaitForRunningChildren` | violated |
| `tsh_waitfg` | 1 slot, 1 process ID | `WaitfgReturns` | violated |
| `tsh_diagram` | 1 slot, 1 process ID | `OnlyDiagramTransitions` | violated |
| `sbuf` | 1 producer, 3 consumers, capacity 2, 5 insertions | `TypeOK`, `MutualExclusion`, `SlotsAccounted`, `ImplementsFifo`, `EachInsertedIsTaken`, `InsertReturns` | hold |
| `proxy` | 2 workers, 2 slots, 3 URLs, one quoted by another's object, 4 connections | `ReadersOrWriter`, `HitServesOriginal`, `MissesAreMisses`, `EvictsOnlyWhenFull`, `CacheReturns` | hold |
| `proxy_large` | 1 worker, a large object | `CachedCopyIsOriginal` | violated |
| `mdriver` | `MCMdriver`, 3 payloads of 4, 12 or 24 bytes, lists up to 16 bytes, chunk 48, heap 184 bytes | `DriverSatisfied`, `HeapTiled`, `Coalesced`, `ListsExact`, `FitsBest`, `ImplementsAllocator` | hold |
| `mdriver_tree` | 7 blocks of 6 sizes, each freed and requested in any order | `ListsExact`, `FitsBest` | hold |
| `web` | `MCTiny`, 2 clients, 8 requests, connections and buffer of 2 and 3 elements, `MAXLINE` 3, 5 paths, one file removed | `CallsKeepPromise`, `AnswerIntact`, `ReadsWholeRequest`, `ClientsAnswered` | hold |
| `labs`, mdriver | 2 of 4 trace files, heap of 8 words, alignment 2 | `AcceptedApart`, `IndexHonest`, `UtilisationBounded` | hold |
| `labs`, fcyc | 3 best of 5 samples, words of 4 bits, 4 running times | `KBestKept` | hold |
| `labs`, btest | all functions and single ones, `TEST_RANGE` 4, options of every kind, 1 alarm that nothing explains | `PointsHonest`, `TestsEnd` | hold |
| `labs`, test-trans | 6 sizes for `test-trans`, 3 for `tracegen`, 1 program that fails | `CorrectIsWhole`, `SubmissionRated` | hold |
| `labs`, csim | 2 sets of 3 lines, 6 addresses, 6 operations, 3 fillings left by `malloc` | `LinesOrdered`, `ImplementsLru` | hold |

The bounds. The shell needs two jobs for one to be confused with another, and a
third process ID so that the table is full while a child lives; one slot is
enough for each of the violations. `JidBound` stops eval from starting jobs when the next job ID is
larger: without it job IDs grow for ever (`deletejob` continues after the largest
ID in use), and nothing but the ID changes. In the buffer two slots and five
insertions make the indices wrap twice, and three consumers for two slots make
them wait for each other; producers other than `main` do not exist. In the proxy
two workers already give two readers, a reader against a writer and two writers;
two slots and four connections fill the cache (two workers may enter the same URL
twice), evict, and look up again; the request that is quoted is the one for the
object over the limit, so that its hits are all of another's text. In
the allocator the constants 48 (largest size with a list), 4096 (chunk) and 20 MB
(heap) are scaled down so that a short sequence of requests splits, merges on both
sides, extends, fills the heap, deletes a root with two children, and promotes the
second block of a size that has children; sizes 4 and 12 leave a rest in the
alignment, 24 does not. Deletion of inner nodes whose replacement lies deep takes
more sizes than fit there: `mdriver_tree` starts from a heap laid out by fourteen
requests, keeps every other block, and makes every tree of the rest. In the
simulator six operations fill a set of
three lines, evict twice and hit after that.

In `web` the bounds are chosen so that every count can come out short: a connection
takes two elements, the reader's buffer three, and no request or answer fits in
either; a client that may ask for anything and one before or after it show what one
request leaves for the next. In `labs` each behaviour is of one program and the
others are not started: `MCLabs` puts them side by side because each is too small
for a run of its own. The heap of eight words admits payloads that are apart, touch,
overlap and enclose; one of the trace files has more requests than it announces. The sizes 32 x 32, 64 x 64 and 61 x 67
are those that are graded; at 16 x 18 two elements of one row of a block are deferred
and one is lost, at 8 x 2 the function divides by zero, 257 exceeds `MAXN`.
`MaxFailures` and `MaxAlarms` bound the environment: at most one program fails in a
run of `test-trans`, and at most one function that does not loop is charged with a late alarm.

Fairness. The processor goes on running the shell and its handlers and the kernel
delivers what is pending; the user is never obliged to type, nor a child to exit.
The properties that a user at the keyboard could defeat for ever, by pressing
ctrl-c faster than handlers return, assume that the typing stops some day
(`StopsTyping`). Threads of the proxy that can move are scheduled; nobody has to
connect, no client has to finish its request and no server to answer. Insertions
and connections are bounded, so weak fairness suffices for the semaphores: the
runs show that nobody is locked out, and say nothing about starvation under
endless contention. The web server, its child and the transfers of a client that
stays are scheduled, but nobody has to connect or leave: `ClientsAnswered` excepts
a server that has died, one that goes round in `read_requesthdrs` for a client that
has left (`Spins`), and one that answers a client which is still sending what the
server does not read (`Stalls`). `btest`'s process is scheduled and its alarm goes
off some day, which is what ends a function that loops.

What the violations show:

- `tsh_sigchld`: a child stops (ctrl-z, or a signal from elsewhere), SIGCHLD is
  delivered, and the handler's `waitpid` blocks, because no child is a zombie.
  The comment of the handler says that it does not wait for running children.
- `tsh_waitfg`: between `fgpid(jobs) == pid` and `sigsuspend` the handler reaps
  the foreground job; no further signal is to come and the shell sleeps.
- `tsh_diagram`: `fg` finds a job, the handler deletes it, and `fg` writes `FG`
  into the free slot.
- `proxy_large`: a cached object of nearly `MAX_OBJECT_SIZE` bytes lies across two
  slots, and the next insertion cuts it.

Exceptions. Some properties except what the code does not get right, and do not speak
for it: `HitServesOriginal` a request that another object quotes; `ReadsWholeRequest` a
refused request and a header that fills the buffer; `AnswerIntact` a server that died
and a CGI program that was removed; `ClientsAnswered` a server that died, `Spins` and
`Stalls`; `CorrectIsWhole` and `SubmissionRated` a function that died and a simulation
that failed. The runs reach each of them, and show that nothing else goes wrong. The
failure of one connection ends the proxy, and `CacheReturns` is then met at once.

## 4. Proofs

`tlapm` checks every theorem below, for every value of the constants that the
named assumptions of the modules allow. Each is an invariance or a refinement of the
same shape: an invariant that says more than the property, shown to hold initially
and to be kept by every action.

*The shell* (`TshProofs`), for any number of slots and any set of process IDs:

- `TypeCorrect`: `Spec => []TypeOK`;
- `ForegroundUnique`: `Spec => []AtMostOneFg`;
- `PromptAfterForeground`: `Spec => []PromptHasNoFg`;
- `ListMatchesChildren`: `Spec => []TableMatchesChildren`;
- `ReapedLeave`: `Spec => OnlyReapedLeave`;
- `ForwardedToForeground`: `Spec => []ForwardsToForeground`.

`AtMostOneFg` is not inductive: nothing in it says that no job is in the
foreground when `eval` enters one as FG or `fg` writes FG. The invariant adds who
owns the foreground at each step of the loop:

- `FgOwned`: a slot in state FG belongs to the child that the loop is waiting for
  (or is about to wait for, in `unblock`), or is the one `fg` has just written;
  in every other step there is none. `PromptHasNoFg` is one of its cases;
- `SlotHeld`, `PidHeld`: the pointer of `do_bgfg` and the pid of `eval` are set
  while they are in use;
- `TypeOK`.

The step that needs the argument is `EvalAddjob`, which follows a prompt with no
foreground job and a stretch with all signals blocked, and `FgWrite`, between
whose test and write handlers may run: they can only take jobs out of the
foreground. The lemmas about the job list say what its routines
do to the states of the slots; that `maxjid` returns the largest ID
is proved from the finiteness of the table (`JidsBounded`).

That the list agrees with the children rests on who can interrupt whom. `Nesting`
says that each handler runs at most once and has a frame just while it runs;
`Masking`, that no handler runs while `eval` has the signals blocked, which is from
before `fork` until after `addjob`; `Reaping`, that the SIGCHLD handler holds the pid
of a child that is gone; `Forked`, that the pid `eval` is about to enter is a child
and not yet in the list. Every step but four is `Quiet`: it changes neither the pids
of the list nor the children. The four are `fork`, `addjob`, `waitpid` and
`deletejob`, and with the masking none of the first pair can fall between the second.
`ReapedLeave` follows from the same invariant. For `ForwardsToForeground` the
handlers' frames are enough (`Aimed`): no step but `FgWrite`, `BgWrite` and `addjob`
writes another state than ST into a slot in use, and those belong to the loop, which
does not move while a handler runs.

*The buffer* (`SbufProofs`), for any capacity and any finite sets of threads:

- `TypeCorrect`: `Spec => []TypeOK`, in which the bounds of the semaphores matter;
- `Exclusive`: `Spec => []MutualExclusion`;
- `NoSlotLost`: `Spec => []SlotsAccounted`;
- `ImplementsQueue`: `Spec => ImplementsFifo`, the refinement of `Fifo`.

The invariant of the first three is their conjunction over types without upper bounds
(`Typed`): the bounds of `slots` and `items` follow from `SlotsAccounted` alone, since
the four terms add up to the capacity, and that of `mutex` needs `MutualExclusion`,
because `V` is only called by the thread that is inside. The refinement adds
`QueueCounted`, by which the two indices differ by the items announced and those that
a thread has in hand (`Stowed`, `Due`), and `Holding`, that a producer has its item
until it is stored. Hence the difference is never more than the capacity, so the
queue, the elements of `buf` from `front` to `rear` modulo `n`, occupies each slot
once: a store appends to it and touches no other element (`StoreAppends`), a read
takes the first (`TakeRemoves`), and every other step stutters.

*The proxy* (`ProxyProofs`), for any finite set of workers and any number of slots
and URLs:

- `CacheExclusive`: `Spec => []ReadersOrWriter`, the readers and writers lock;
- `MissesExact`: `Spec => []MissesAreMisses`;
- `HitsServe`: `Spec => []HitServesOriginal`, and
- `EvictsWhenFull`: `Spec => EvictsOnlyWhenFull`, these two under `NoLarge`: no
  object passes the end of its slot;
- `CopiesTrue`: `Spec => []CachedCopyIsOriginal`, under `NoLarge` and `NoQuotes`: no
  object holds the text of the request for another URL. Without the first it is
  false, as run `proxy_large` shows, and without the second too: in run `proxy` every hit
  on the request that is quoted serves another object or a part of one.

`ReadersOrWriter` says nothing of `mutex`, on which the count of readers rests. The
invariant adds `MutexHeld`: at most one thread is between `P(&mutex)` and
`V(&mutex)`, and when the last reader is about to give `w` back no reader is
counted. The two steps that need it are `ReaderCount`, where a count above 0 must
mean that the readers have `w` already (whoever is counted but has not taken `w`
yet would be a second thread in the mutex, `CountedRead`), and `LeaveLast`, where
no other reader may be left (`ReadersCounted`). Cardinalities enter through the
theorems on finite sets.

The other three build on it. While a thread reads, no writer fills a slot, so the
slots stay but for their ages (`SlotsStay`, `FillsAlone`). `Scans` says which slots a
scan has passed; `Copies` says that a slot in use holds the object of its key,
except the slot between the two `strcpy` calls of its writer, which no reader sees, that
a worker with a hit has what its request may come to in the slot (`CopyOf`), and that a writer has chosen an empty slot if there is one. That the scan for the
oldest slot finds one is proved from the finiteness of the cache (`SomeOldest`).

*RIO and the web server* (`TinyProofs`), for any finite or infinite set of clients, any
requests (`RequestAssumption`: sequences of characters, none of them a line's end),
any files (`DiskAssumption`), any sizes of the buffers, the connections and `MAXLINE`,
and any splitting of the transfers:

- `PromisesKept`: `Spec => []CallsKeepPromise`;
- `AnswersWhole`: `Spec => []AnswerIntact`;
- `RequestsWholeRead`: `Spec => []ReadsWholeRequest`.

The first is about streams. What a side has written is always what the other's calls
have returned, followed by what the call in progress has, what is in the RIO buffer
and what is in the connection (`Coming`); each transfer moves a piece from one part to
the next and keeps the whole. The invariant says this of each client (`Linked` for the
way up, `Answered` for the way down) and of the server and the client it serves
(`Asked`), that the waiting connections are those of the backlog (`Waiting`), and that the
server and its child have one connection (`Busy`). What a call returns is then the
first line, or the first elements, of a stream (`FirstLine`, `TakenPart`).

For the answers `Owed` follows the server through `doit`: before the headers are read nothing was
written to the client; afterwards what was written and what is still to write is
a part of an answer to the request that this client sent, the right one for the file as it was when
`stat` looked at it (`Answering`); whom the server no longer serves has a whole answer (`AllAnswered`).
That the files only go (`Files`), that one client is served at a time
(`OneServed`) and that the server starts afresh with each (`Fresh`) is what keeps
one client's answer apart from another's.

For the requests `AllRead` says where the server is in the one it reads: after `t`
elements it is at the start of a line, or by whole buffers into one (`AtLine`). For an
ordinary request, no line of which is a multiple of the buffer long, a line that
reads as empty is the empty one that ends the request (`EmptyLineEnds`), so all has been read
when the loop of `read_requesthdrs` ends. Without `Ordinary` this is false: the end of
a line that fills the buffer comes as a line of its own.

*The cache simulator* (`CsimProofs`), for any trace, any geometry and whatever is
left in the lines by `malloc`:

- `CountersOrder`: `Spec => []LinesOrdered`;
- `CountersImplementLru`: under `TagsFit`, `Spec => ImplementsLru`.

`LinesOrdered` is inductive. The refinement needs that the lines of a set can be ranked by
their counters (`Ranked`), so that the sequence which the mapping chooses exists; the
proof then shows what a hit, a miss and an eviction do to that sequence (`HitBlocks`,
`MissBlocks`, `EvictionBlocks`), and that equal tags in a set are equal blocks
(`SameBlock`). This last needs `TagsFit`: `csim.c` keeps in an int what is left of a
long address (csim.c:66), and two blocks whose addresses differ above that are one.

*The programs that rate the labs* (`LabsProofs`):

- `PayloadsApart`: `EvalSpec => []AcceptedApart`, for any traces whose requests have
  sizes that are natural numbers, any heap, any alignment and any answers. A new payload that passes
  the test of `add_range` has neither end inside an older one; as its ends are in order
  (`add_range` asserts that the size is not 0) it is apart from it or encloses it;
- `VerdictsCounted`: `EvalSpec => []IndexHonest`. `Counted` adds when a trace becomes
  valid, that those to come are not, and that nothing is printed before the end;
- `BestAreKept`: `FcycSpec => []KBestKept`, from `DifferenceExact`, that the two words
  with their borrow give the true time whenever it is below the counter's period, and
  from `SamePlace`, that a sample goes to the same place among the first K of a sorted
  list as in the whole of it, or behind them;
- `CorrectStoresAll`: `TransSpec => []CorrectIsWhole`, for any sizes of the matrix. `RecordKept` adds that
  a function which has not been run has no result, and that B is all wrong when it
  is called, which is where `tracegen -F` fills it.

*The allocator* (`MdriverProofs`), for any trace, any number of indices, any sizes of
requests that are whole words, any heap, any chunk and any limit between the lists
and the tree that is a multiple of 16:

- `DriverAlwaysSatisfied`: `Spec => []DriverSatisfied`;
- `HeapAlwaysTiled`, `AlwaysCoalesced`, `ListsAlwaysExact`: `Spec => []HeapTiled`,
  `[]Coalesced` and `[]ListsExact`;
- `FitsBestAlways`: `Spec => FitsBest`, an action property;
- `ServesAsAllocator`: `Spec => ImplementsAllocator`, the refinement of `AbstractHeap`,
  and with it `PayloadsDisjoint`, that no byte belongs to two payloads;
- `DriverTypeCorrect`: `Spec => []TypeOK`.

None of these is inductive. What the driver sees of one request depends on the tags of
the neighbours, on every link of the list and the branch of the tree the block is on,
and on the words of all other payloads. The invariant `IInv` (`AlwaysServed`) therefore
says what a heap is. It speaks of a function S from the blocks to their sizes and of
the set U of those allocated, which exist rather than being computed by a walk, so
that a step is a change of S and U: a division (`Cut`), a junction (`Merged`), a new
block at the end (`Grown`). The parts:

- `Listed`: the free blocks are linked both ways (`Chained`), in no circle (`Ordered`,
  a rank that rises along the links), and a small size's list starts at its word
  (`Headed`). The first blocks of the larger sizes are the nodes of a `Tree`: each has
  two bounds, its size is between them, and a child's bounds are the parent's with
  the parent's size in the place of one. From these follows that `Slot` ends at the
  node of a size or where it belongs (`SlotFindsNode`, `SlotFindsPlace`) and that
  `find_biggest` finds the largest (`BiggestIs`), by a node whose bounds are closest.
  `NodeSpliced` and `NodeReplaced` are the two ways a node leaves; the bounds that
  were its size become one of its own bounds, or the size of the node that replaces it.
- `HeapOf`: the blocks follow each other (`Tiling`) and have both tags (`Tagged`), but
  for the blocks X whose tags are just being written; the links of different
  blocks are different words (`LinksApart`), so that what a list routine writes is
  `Framed` and disturbs no tag and no payload.
- `Whole`: every block that is not allocated is listed, and no two neighbours are
  free (`Apart`). `coalesce`, `place`, `extend_heap` and the parts of `mm_realloc`
  start from a `Whole` heap, pass through heaps with blocks neither listed nor tagged, and
  end with a `Whole` one (`FreeWorks`, `MallocWorks`, `ReallocWorks`).
- `Served`: U are the payloads of the table, each of one index, with room for
  its size and full of its index.

`Slot`, `find_biggest`, `LastOf` and the others are recursive functions over the words
of the memory, whose links might form a circle. `WellOrder` shows once that such a
function exists (`WalkingExists`, `CollectingExists`); what it returns follows from the
least element of a set of naturals. `Junk` is arbitrary in the proofs: nothing follows
from it, so none of the properties rests on a word that `Forget` has wiped.

Only model-checked:

- what holds only under fairness (`ReapedIsDeleted`, `EachInsertedIsTaken`,
  `InsertReturns`, `CacheReturns`, `ClientsAnswered`, `TestsEnd`): liveness under
  fairness is beyond the prover;
- `UtilisationBounded`, which adds up the sizes of a trace in a fold over its requests, and
  `SubmissionRated`, whose points come out of the misses that `transpose_submit` really has at
  three sizes: an induction over data and a computation;
- `PointsHonest`, about operations on the bits of words.

## 5. Plan

1. Done: the job list and the shell, the buffer, the proxy, RIO and the web server,
   the allocator with its driver, the simulator, the bit puzzles and the transpose
   with the programs that rate them; the theorems of section 4.
2. `UtilisationBounded`, with the total of a trace as a function of the number of
   requests in the place of the fold.
3. The job list alone with four slots, where `nextjid` can repeat a job ID.

## 6. Not modelled

- `parseline` and the other command lines, printing, the verbose output: text
  without state.
- The wrappers of `csapp.c` one by one: each calls one system function and exits
  when it fails; they appear as that call, with the failure, where it matters.
- `ftimer.c` and `fsecs.c`: they choose a timer and average its readings;
  `fcyc.c`'s flushing of the cache and its compensation for timer ticks.
- `sdriver.pl`, `driver.sh`, `driver.pl`, `free-port.sh`: scripts that start the
  programs above and compare outputs.
- `malloclab-handout/mm (copy).c`: an older version of `mm.c` that no Makefile
  compiles.
- `bomb`, `target1`, `csim-ref`, `dlc` and the other binaries, and the examples of a
  few lines (`foo.c`, `hello.c`, `farm.c`).
- `.proxy/` repeats `tiny/`.

Abstractions to know of. The counters of the simulator and the indices of the
buffer are natural numbers; the code's ints overflow after 2^31 steps. Objects of
the proxy are texts: one with a NUL byte would be cut in the cache. `bg` and `fg`
send no SIGCONT, in the code as in the model, so a stopped job that they restart
stays stopped until something else continues it; no property is about that. What a
write past the end of an array does is taken to be the end of the process, except
for the large objects of the proxy's cache, where the neighbouring slot is known.
