----------------------------- MODULE TshProofs -----------------------------
(***************************************************************************)
(* Theorems about the shell, for any number of slots and any set of        *)
(* process IDs: its state is well typed, at most one job is in the         *)
(* foreground, none is when the prompt comes back, the list agrees with    *)
(* the children that exist, only reaped children leave it, and the         *)
(* keyboard's signals reach the foreground job only.                       *)
(***************************************************************************)
EXTENDS Tsh, WellOrder

-----------------------------------------------------------------------------
(* What the routines of the job list return, for every size of the table: a scan
   stops at a slot it looked for, maxjid is a job ID of the table or 0, and addjob
   and deletejob keep the table well formed. *)

(* A scan of the array that finds something stops at one of the entries it
   was looking for (the loops of addjob, fgpid, getjobpid and getjobjid). *)
LEMMA FirstIsFound ==
    ASSUME NEW S \in SUBSET Slots, S # {}
    PROVE  First(S) \in S
<1>1. S \in SUBSET Nat
  BY MAXJOBSAssumption DEF Slots
<1>2. \E s \in S : \A t \in S : s <= t
  BY <1>1, LeastNatural
<1>. QED  BY <1>2 DEF First

(* A lookup returns a slot that holds what was asked for, or NoSlot. *)
LEMMA GetjobpidFinds ==
    ASSUME NEW jobs \in [Slots -> Job], NEW pid,
           getjobpid(jobs, pid) # NoSlot
    PROVE  getjobpid(jobs, pid) \in Slots /\ jobs[getjobpid(jobs, pid)].pid = pid
<1>. DEFINE S == {s \in Slots : jobs[s].pid = pid}
<1>1. S # {} /\ getjobpid(jobs, pid) = First(S)
  BY DEF getjobpid, ScanFor
<1>2. First(S) \in S
  BY <1>1, FirstIsFound
<1>. QED  BY <1>1, <1>2

(* Every lookup returns a slot or NoSlot, a process ID or NoPid. *)
LEMMA LookupType ==
    ASSUME NEW jobs \in [Slots -> Job]
    PROVE  /\ \A pid : getjobpid(jobs, pid) \in Slots \cup {NoSlot}
           /\ \A jid : getjobjid(jobs, jid) \in Slots \cup {NoSlot}
           /\ fgpid(jobs) \in Pids \cup {NoPid}
<1>1. ASSUME NEW pid PROVE getjobpid(jobs, pid) \in Slots \cup {NoSlot}
  BY GetjobpidFinds
<1>2. ASSUME NEW jid PROVE getjobjid(jobs, jid) \in Slots \cup {NoSlot}
  <2>. DEFINE S == {s \in Slots : jobs[s].jid = jid}
  <2>1. S # {} => First(S) \in S
    BY FirstIsFound
  <2>. QED  BY <2>1 DEF getjobjid, ScanFor
<1>3. fgpid(jobs) \in Pids \cup {NoPid}
  <2>1. FgSlots(jobs) # {} => First(FgSlots(jobs)) \in Slots
    BY FirstIsFound DEF FgSlots
  <2>. QED  BY <2>1 DEF fgpid, Job
<1>. QED  BY <1>1, <1>2, <1>3

-----------------------------------------------------------------------------
(* The job IDs of a table have an upper bound: the first n entries have one,
   for n = 0 and for n + 1 when for n. *)
LEMMA JidsBounded ==
    ASSUME NEW jobs \in [Slots -> Job]
    PROVE  \E u \in Nat : \A j \in Jids(jobs) : j <= u
<1>. DEFINE Bounded(n) == \E u \in Nat : \A s \in 1 .. n : jobs[s].jid <= u
            Bad == {n \in 0 .. MAXJOBS : ~Bounded(n)}
<1>. HIDE DEF Bounded
<1>1. MAXJOBS \in Nat
  BY MAXJOBSAssumption
<1>2. Bad = {}
  <2>1. SUFFICES ASSUME Bad # {} PROVE FALSE
    OBVIOUS
  <2>2. PICK m \in Bad : \A n \in Bad : m <= n
    <3>1. Bad \in SUBSET Nat
      BY <1>1
    <3>. QED  BY <2>1, <3>1, LeastNatural
  <2>3. m # 0
    <3>1. Bounded(0)
      <4>1. \A s \in 1 .. 0 : jobs[s].jid <= 0
        OBVIOUS
      <4>. QED  BY <4>1 DEF Bounded
    <3>. QED  BY <2>2, <3>1
  <2>4. m - 1 \in 0 .. MAXJOBS /\ m - 1 \notin Bad
    BY <1>1, <2>2, <2>3
  <2>5. PICK u \in Nat : \A s \in 1 .. (m - 1) : jobs[s].jid <= u
    BY <2>4 DEF Bounded
  <2>6. m \in Slots /\ jobs[m].jid \in Nat
    BY <1>1, <2>2, <2>3 DEF Slots, Job
  <2>7. ASSUME NEW s \in 1 .. m PROVE jobs[s].jid <= u + jobs[m].jid
    <3>1. s \in 1 .. (m - 1) \/ s = m
      BY <1>1, <2>2
    <3>2. s \in Slots /\ jobs[s].jid \in Nat
      BY <1>1, <2>2 DEF Slots, Job
    <3>3. CASE s = m
      BY <2>6, <3>3
    <3>4. CASE s \in 1 .. (m - 1)
      <4>1. jobs[s].jid <= u
        BY <2>5, <3>4
      <4>. QED  BY <2>6, <3>2, <4>1
    <3>. QED  BY <3>1, <3>3, <3>4
  <2>8. u + jobs[m].jid \in Nat
    BY <2>6
  <2>9. Bounded(m)
    BY <2>7, <2>8 DEF Bounded
  <2>. QED  BY <2>2, <2>9
<1>3. Bounded(MAXJOBS)
  BY <1>1, <1>2
<1>4. PICK u \in Nat : \A s \in Slots : jobs[s].jid <= u
  BY <1>3 DEF Bounded, Slots
<1>5. \A j \in Jids(jobs) : j <= u
  BY <1>4 DEF Jids
<1>. QED  BY <1>5

(* maxjid returns a job ID of the table, or 0, and none is larger: so the
   nextjid of deletejob is larger than every job ID in use. *)
LEMMA MaxjidIsMax ==
    ASSUME NEW jobs \in [Slots -> Job]
    PROVE  /\ maxjid(jobs) \in Nat
           /\ maxjid(jobs) \in Jids(jobs)
           /\ \A s \in Slots : jobs[s].jid <= maxjid(jobs)
<1>. DEFINE Upper == {u \in Nat : \A j \in Jids(jobs) : j <= u}
<1>1. Jids(jobs) \subseteq Nat /\ 0 \in Jids(jobs)
  BY DEF Jids, Job
<1>2. PICK m \in Upper : \A u \in Upper : m <= u
  BY JidsBounded, LeastNatural
<1>3. m \in Jids(jobs)
  <2>1. SUFFICES ASSUME m \notin Jids(jobs) PROVE FALSE
    OBVIOUS
  <2>2. \A j \in Jids(jobs) : j <= m - 1
    BY <1>1, <1>2, <2>1
  <2>3. m - 1 \in Upper
    BY <1>1, <1>2, <2>2
  <2>. QED  BY <1>2, <2>3
<1>4. maxjid(jobs) \in Jids(jobs) /\ \A j \in Jids(jobs) : j <= maxjid(jobs)
  BY <1>2, <1>3 DEF maxjid
<1>. QED  BY <1>1, <1>4 DEF Jids

-----------------------------------------------------------------------------
(* addjob leaves a well-formed list. *)
LEMMA AddjobType ==
    ASSUME NEW old \in Table, NEW pid \in Pids, NEW state \in JobState
    PROVE  addjob(old, pid, state) \in Table
<1>1. CASE FreeSlots(old.jobs) = {}
  BY <1>1 DEF addjob
<1>2. CASE FreeSlots(old.jobs) # {}
  <2>. DEFINE f == First(FreeSlots(old.jobs))
              new == [pid |-> pid, jid |-> old.nextjid, state |-> state]
  <2>1. new \in Job /\ old.nextjid \in Nat /\ old.jobs \in [Slots -> Job]
    BY DEF Job, Table
  <2>2. [old.jobs EXCEPT ![f] = new] \in [Slots -> Job]
    BY <2>1
  <2>. QED  BY <1>2, <2>1, <2>2 DEF addjob, Table
<1>. QED  BY <1>1, <1>2

(* Entering a job in a list without foreground job makes it the foreground
   job, if it is one, and no other. *)
LEMMA AddjobForeground ==
    ASSUME NEW old \in Table, NEW pid \in Pids, NEW state \in JobState,
           FgSlots(old.jobs) = {}
    PROVE  /\ \A s \in FgSlots(addjob(old, pid, state).jobs) :
                 state = "FG" /\ addjob(old, pid, state).jobs[s].pid = pid
           /\ \A s, t \in FgSlots(addjob(old, pid, state).jobs) : s = t
<1>1. CASE FreeSlots(old.jobs) = {}
  BY <1>1 DEF addjob
<1>2. CASE FreeSlots(old.jobs) # {}
  <2>. DEFINE f == First(FreeSlots(old.jobs))
              new == addjob(old, pid, state).jobs
  <2>1. f \in Slots
    BY <1>2, FirstIsFound DEF FreeSlots
  <2>2. new = [old.jobs EXCEPT ![f] =
                  [pid |-> pid, jid |-> old.nextjid, state |-> state]]
    BY <1>2 DEF addjob
  <2>. HIDE DEF f, new
  <2>3. new[f].state = state /\ new[f].pid = pid
    BY <2>1, <2>2 DEF Table
  <2>4. \A t \in FgSlots(new) : t = f
    BY <2>1, <2>2 DEF FgSlots, Table
  <2>5. \A t \in FgSlots(new) : state = "FG" /\ new[t].pid = pid
    BY <2>3, <2>4 DEF FgSlots
  <2>. QED  BY <2>4, <2>5 DEF new
<1>. QED  BY <1>1, <1>2

(* deletejob clears one slot, that of pid, or changes nothing. *)
LEMMA DeletejobClearsSlot ==
    ASSUME NEW old \in Table, NEW pid
    PROVE  /\ deletejob(old, pid) \in Table
           /\ \/ deletejob(old, pid).jobs = old.jobs
              \/ \E s \in Slots :
                    /\ old.jobs[s].pid = pid
                    /\ deletejob(old, pid).jobs = [old.jobs EXCEPT ![s] = Cleared]
<1>. DEFINE s == getjobpid(old.jobs, pid)
            left == [old.jobs EXCEPT ![s] = Cleared]
<1>1. CASE s = NoSlot
  BY <1>1 DEF deletejob
<1>2. CASE s # NoSlot
  <2>1. old.jobs \in [Slots -> Job]
    BY DEF Table
  <2>2. s \in Slots /\ old.jobs[s].pid = pid
    BY <1>2, <2>1, GetjobpidFinds
  <2>3. Cleared \in Job
    BY DEF Cleared, Job, JobState
  <2>4. left \in [Slots -> Job]
    BY <2>1, <2>3
  <2>5. maxjid(left) + 1 \in Nat
    BY <2>4, MaxjidIsMax
  <2>6. deletejob(old, pid) = [jobs |-> left, nextjid |-> maxjid(left) + 1]
    BY <1>2 DEF deletejob
  <2>7. deletejob(old, pid) \in Table
    BY <2>4, <2>5, <2>6 DEF Table
  <2>8. deletejob(old, pid).jobs = left
    BY <2>6
  <2>. QED  BY <2>2, <2>7, <2>8
<1>. QED  BY <1>1, <1>2

(* Deleting a job brings none into the foreground. *)
LEMMA DeletejobForeground ==
    ASSUME NEW old \in Table, NEW pid,
           NEW s \in FgSlots(deletejob(old, pid).jobs)
    PROVE  s \in FgSlots(old.jobs) /\ deletejob(old, pid).jobs[s].pid = old.jobs[s].pid
<1>. DEFINE new == deletejob(old, pid).jobs
<1>0. new = old.jobs \/ \E t \in Slots : new = [old.jobs EXCEPT ![t] = Cleared]
  BY DeletejobClearsSlot
<1>. HIDE DEF new
<1>1. s \in FgSlots(new)
  BY DEF new
<1>2. s \in FgSlots(old.jobs) /\ new[s].pid = old.jobs[s].pid
  BY <1>0, <1>1 DEF FgSlots, Cleared, Table
<1>. QED  BY <1>2 DEF new

(* addjob fills one free slot, or changes nothing when there is none. *)
LEMMA AddjobFills ==
    ASSUME NEW t \in Table, NEW pid, NEW state
    PROVE  \/ FreeSlots(t.jobs) = {} /\ addjob(t, pid, state) = t
           \/ \E f \in Slots :
                 /\ t.jobs[f].pid = NoPid
                 /\ addjob(t, pid, state).jobs =
                       [t.jobs EXCEPT ![f] = [pid |-> pid, jid |-> t.nextjid, state |-> state]]
<1>1. CASE FreeSlots(t.jobs) = {}
  BY <1>1 DEF addjob
<1>2. CASE FreeSlots(t.jobs) # {}
  <2>1. First(FreeSlots(t.jobs)) \in FreeSlots(t.jobs)
    BY <1>2, FirstIsFound DEF FreeSlots
  <2>. QED  BY <1>2, <2>1 DEF addjob, FreeSlots
<1>. QED  BY <1>1, <1>2

(* deletejob clears the entry of pid, if it is in the list, and no other. *)
LEMMA DeletejobUnlists ==
    ASSUME NEW t \in Table, NEW pid \in Pids,
           \A r, s \in Slots : t.jobs[r].pid = pid /\ t.jobs[s].pid = pid => r = s
    PROVE  \A s \in Slots :
              /\ deletejob(t, pid).jobs[s].pid # pid
              /\ \/ t.jobs[s].pid # pid /\ deletejob(t, pid).jobs[s] = t.jobs[s]
                 \/ t.jobs[s].pid = pid /\ deletejob(t, pid).jobs[s] = Cleared
<1>0. t.jobs \in [Slots -> Job] /\ pid # NoPid
  BY NoPidAssumption DEF Table
<1>. DEFINE f == getjobpid(t.jobs, pid)
            left == [t.jobs EXCEPT ![f] = Cleared]
<1>1. CASE f = NoSlot
  <2>1. {s \in Slots : t.jobs[s].pid = pid} = {}
    <3>. DEFINE S == {s \in Slots : t.jobs[s].pid = pid}
    <3>1. S # {} => First(S) \in Slots
      BY FirstIsFound
    <3>. QED  BY <1>0, <1>1, <3>1, MAXJOBSAssumption DEF getjobpid, ScanFor, NoSlot, Slots
  <2>. QED  BY <1>1, <2>1 DEF deletejob
<1>2. CASE f # NoSlot
  <2>1. f \in Slots /\ t.jobs[f].pid = pid
    BY <1>0, <1>2, GetjobpidFinds
  <2>2. deletejob(t, pid).jobs = left
    BY <1>2 DEF deletejob
  <2>. HIDE DEF f
  <2>. QED  BY <1>0, <2>1, <2>2 DEF Cleared
<1>. QED  BY <1>1, <1>2

-----------------------------------------------------------------------------
(* Who owns the foreground *)

(* fg and bg hold a pointer into the table while they work on it. *)
SlotHeld == main.pc \in {"bgCheck", "bgWrite", "fgCheck", "fgWrite", "fgRead"}
               => main.slot \in Slots

(* The child that eval has forked and not yet entered in the list. *)
PidHeld == main.pc = "addjob" => main.pid \in Pids

(* Who owns the foreground, at each step of the read/eval loop: nobody until
   eval has entered its own job or fg has written FG; from then on only that
   job, until waitfg has seen that it is no longer in the foreground. *)
FgOwned ==
    \A s \in FgSlots(tab.jobs) :
        \/ /\ main.pc \in Waiting \cup {"unblock"}
           /\ main.pc = "unblock" => ~main.bg
           /\ tab.jobs[s].pid = main.pid
        \/ main.pc = "fgRead" /\ main.slot = s

IInv == TypeOK /\ SlotHeld /\ PidHeld /\ FgOwned /\ AtMostOneFg

(* What main has set up before it reads the first command is well typed. *)
LEMMA InitialState ==
    /\ [jobs |-> initjobs, nextjid |-> 1] \in Table
    /\ FgSlots(initjobs) = {}
    /\ AtPrompt \in Locals
    /\ \A pc \in Dead : [AtPrompt EXCEPT !.pc = pc] \in Locals
    /\ [sig \in Signals |-> NoFrame] \in [Signals -> Frame]
  BY DEF Table, initjobs, Cleared, Job, JobState, FgSlots, AtPrompt, Locals, Frame,
         MainPc, Dead, HandlerPc, NoFrame, NoSlot

(* The assignments to the locals of the loop and to a handler's frame. *)
LEMMA LocalsUpdates ==
    ASSUME NEW m \in Locals
    PROVE  /\ \A pc \in MainPc : [m EXCEPT !.pc = pc] \in Locals
           /\ \A pc \in MainPc, bg \in BOOLEAN :
                [m EXCEPT !.pc = pc, !.bg = bg] \in Locals
           /\ \A pc \in MainPc, p \in Pids :
                [m EXCEPT !.pc = pc, !.pid = p] \in Locals
           /\ \A pc \in MainPc, s \in Slots :
                [m EXCEPT !.pc = pc, !.slot = s] \in Locals
           /\ \A pc \in MainPc, p \in Pids \cup {NoPid} :
                [m EXCEPT !.pc = pc, !.slot = NoSlot, !.pid = p] \in Locals
<1>1. \A pc \in MainPc : [m EXCEPT !.pc = pc] \in Locals
  BY DEF Locals
<1>2. \A pc \in MainPc, bg \in BOOLEAN : [m EXCEPT !.pc = pc, !.bg = bg] \in Locals
  BY DEF Locals
<1>3. \A pc \in MainPc, p \in Pids : [m EXCEPT !.pc = pc, !.pid = p] \in Locals
  BY DEF Locals
<1>4. \A pc \in MainPc, s \in Slots : [m EXCEPT !.pc = pc, !.slot = s] \in Locals
  BY DEF Locals
<1>5. \A pc \in MainPc, p \in Pids \cup {NoPid} :
         [m EXCEPT !.pc = pc, !.slot = NoSlot, !.pid = p] \in Locals
  BY DEF Locals
<1>. QED  BY <1>1, <1>2, <1>3, <1>4, <1>5

(* The assignments to the locals of a signal handler. *)
LEMMA FrameUpdates ==
    ASSUME NEW h \in [Signals -> Frame], NEW sig \in Signals
    PROVE  /\ \A pc \in HandlerPc : [h EXCEPT ![sig].pc = pc] \in [Signals -> Frame]
           /\ \A pc \in HandlerPc, p \in Pids \cup {NoPid} :
                [h EXCEPT ![sig].pc = pc, ![sig].pid = p] \in [Signals -> Frame]
           /\ \A pc \in HandlerPc, s \in Slots \cup {NoSlot} :
                [h EXCEPT ![sig].pc = pc, ![sig].slot = s] \in [Signals -> Frame]
           /\ [h EXCEPT ![sig] = NoFrame] \in [Signals -> Frame]
<1>1. \A pc \in HandlerPc : [h[sig] EXCEPT !.pc = pc] \in Frame
  BY DEF Frame
<1>2. \A pc \in HandlerPc, p \in Pids \cup {NoPid} :
         [h[sig] EXCEPT !.pc = pc, !.pid = p] \in Frame
  BY DEF Frame
<1>3. \A pc \in HandlerPc, s \in Slots \cup {NoSlot} :
         [h[sig] EXCEPT !.pc = pc, !.slot = s] \in Frame
  BY DEF Frame
<1>4. NoFrame \in Frame
  BY DEF NoFrame, Frame, HandlerPc
<1>5. \A pc \in HandlerPc : [h EXCEPT ![sig].pc = pc] \in [Signals -> Frame]
  BY <1>1
<1>6. ASSUME NEW pc \in HandlerPc, NEW p \in Pids \cup {NoPid}
      PROVE  [h EXCEPT ![sig].pc = pc, ![sig].pid = p] \in [Signals -> Frame]
  <2>1. [h EXCEPT ![sig].pc = pc, ![sig].pid = p]
           = [h EXCEPT ![sig] = [h[sig] EXCEPT !.pc = pc, !.pid = p]]
    BY Zenon
  <2>. QED  BY <1>2, <2>1
<1>7. ASSUME NEW pc \in HandlerPc, NEW s \in Slots \cup {NoSlot}
      PROVE  [h EXCEPT ![sig].pc = pc, ![sig].slot = s] \in [Signals -> Frame]
  <2>1. [h EXCEPT ![sig].pc = pc, ![sig].slot = s]
           = [h EXCEPT ![sig] = [h[sig] EXCEPT !.pc = pc, !.slot = s]]
    BY Zenon
  <2>. QED  BY <1>3, <2>1
<1>8. [h EXCEPT ![sig] = NoFrame] \in [Signals -> Frame]
  BY <1>4
<1>. QED  BY <1>5, <1>6, <1>7, <1>8

(* Writing the state of a slot keeps the job list in its domain. *)
LEMMA StateWritten ==
    ASSUME NEW t \in Table, NEW s, NEW state \in JobState
    PROVE  [t EXCEPT !.jobs[s].state = state] \in Table
<1>1. t.jobs \in [Slots -> Job] /\ t.nextjid \in Nat
  BY DEF Table
<1>. DEFINE jobs == [t.jobs EXCEPT ![s].state = state]
<1>2. \A job \in Job : [job EXCEPT !.state = state] \in Job
  BY DEF Job
<1>3. jobs \in [Slots -> Job]
  BY <1>1, <1>2
<1>4. [t EXCEPT !.jobs = jobs] \in Table
  BY <1>1, <1>3 DEF Table
<1>5. [t EXCEPT !.jobs[s].state = state] = [t EXCEPT !.jobs = jobs]
  BY Zenon
<1>. QED  BY <1>4, <1>5

(* Going on to another step keeps the locals of the loop in their domains. *)
LEMMA GoToType ==
    ASSUME main \in Locals, NEW pc \in MainPc, GoTo(pc)
    PROVE  main' \in Locals
<1>1. CASE pc = "prompt"
  BY <1>1, InitialState DEF GoTo
<1>2. CASE pc # "prompt"
  BY <1>2, LocalsUpdates DEF GoTo
<1>. QED  BY <1>1, <1>2

(* So does the end of the process, which leaves the children as they are. *)
LEMMA EndType ==
    ASSUME TypeOK, NEW pc \in Dead, End(pc)
    PROVE  TypeOK'
<1>1. main' \in Locals
  BY InitialState DEF End
<1>2. tab' \in Table /\ handler' \in [Signals -> Frame]
  BY InitialState DEF End
<1>3. masked' = FALSE /\ nest' = <<>> /\ pending' = {}
  BY DEF End
<1>4. nest' \in Seq(Signals)
  BY <1>3
<1>. QED  BY <1>1, <1>2, <1>3, <1>4 DEF End, TypeOK

(* A handler that returns uncovers the one it had interrupted. *)
LEMMA ReturnType ==
    ASSUME TypeOK, NEW sig \in Signals, nest # <<>>, Return(sig)
    PROVE  handler' \in [Signals -> Frame] /\ nest' \in Seq(Signals)
<1>1. handler' \in [Signals -> Frame]
  BY FrameUpdates DEF TypeOK, Return
<1>2. nest' \in Seq(Signals)
  BY DEF TypeOK, Return
<1>. QED  BY <1>1, <1>2

(* A signal leaves the children's states and the pending set in their domains. *)
LEMMA SignalledType ==
    ASSUME TypeOK, NEW p, NEW to \in ProcState, Signalled(p, to)
    PROVE  proc' \in [Pids -> ProcState] /\ pending' \subseteq Signals
  BY DEF TypeOK, Signalled, Signals

(* Every step leaves the state in its domains. *)
LEMMA TypeStep ==
    ASSUME TypeOK, SlotHeld, PidHeld, [Next]_vars
    PROVE  TypeOK'
<1>1. ASSUME NEW bg \in BOOLEAN, EvalBlock(bg) PROVE TypeOK'
  <2>1. main' \in Locals
    BY <1>1, LocalsUpdates DEF TypeOK, EvalBlock, MainPc, Evaluating, Waiting, Dead
  <2>. QED  BY <1>1, <2>1 DEF TypeOK, EvalBlock
<1>2. ASSUME NEW p \in Pids, EvalFork(p) PROVE TypeOK'
  <2>1. main' \in Locals
    BY <1>2, LocalsUpdates DEF TypeOK, EvalFork, MainPc, Evaluating, Waiting, Dead
  <2>2. proc' \in [Pids -> ProcState]
    BY <1>2 DEF TypeOK, EvalFork, ProcState
  <2>3. unlisted' \subseteq Pids
    BY <1>2 DEF TypeOK, EvalFork
  <2>. QED  BY <1>2, <2>1, <2>2, <2>3 DEF TypeOK, EvalFork
<1>3. ASSUME EvalForkFails PROVE TypeOK'
  BY <1>3, EndType DEF EvalForkFails, Dead
<1>4. ASSUME EvalAddjob PROVE TypeOK'
  <2>1. main.pid \in Pids
    BY <1>4 DEF EvalAddjob, MainAt, PidHeld
  <2>2. addjob(tab, main.pid, IF main.bg THEN "BG" ELSE "FG") \in Table
    BY <2>1, AddjobType DEF TypeOK, JobState
  <2>3. main' \in Locals
    BY <1>4, GoToType DEF TypeOK, EvalAddjob, MainPc, Evaluating, Waiting, Dead
  <2>4. unlisted' \subseteq Pids
    BY <1>4, <2>1 DEF TypeOK, EvalAddjob
  <2>5. tab' \in Table
    BY <1>4, <2>2 DEF EvalAddjob
  <2>. QED  BY <1>4, <2>1, <2>2, <2>3, <2>4, <2>5 DEF TypeOK, EvalAddjob
<1>5. ASSUME EvalUnblock PROVE TypeOK'
  <2>1. main' \in Locals
    BY <1>5, GoToType DEF TypeOK, EvalUnblock, MainPc, Evaluating, Waiting, Dead
  <2>. QED  BY <1>5, <2>1 DEF TypeOK, EvalUnblock
<1>6. ASSUME WaitfgTest PROVE TypeOK'
  <2>1. main' \in Locals
    BY <1>6, GoToType DEF TypeOK, WaitfgTest, MainPc, Evaluating, Waiting, Dead
  <2>. QED  BY <1>6, <2>1 DEF TypeOK, WaitfgTest
<1>7. ASSUME WaitfgSuspend PROVE TypeOK'
  <2>1. main' \in Locals
    BY <1>7, GoToType DEF TypeOK, WaitfgSuspend, MainPc, Evaluating, Waiting, Dead
  <2>. QED  BY <1>7, <2>1 DEF TypeOK, WaitfgSuspend
<1>8. ASSUME NEW cmd \in {"bg", "fg"}, NEW s \in Slots, DoBgfg(cmd, s) PROVE TypeOK'
  <2>1. main' \in Locals
    BY <1>8, LocalsUpdates DEF TypeOK, DoBgfg, MainPc, Evaluating, Waiting, Dead
  <2>. QED  BY <1>8, <2>1 DEF TypeOK, DoBgfg
<1>9. ASSUME BgCheck PROVE TypeOK'
  <2>1. main' \in Locals
    BY <1>9, GoToType DEF TypeOK, BgCheck, MainPc, Evaluating, Waiting, Dead
  <2>. QED  BY <1>9, <2>1 DEF TypeOK, BgCheck
<1>10. ASSUME BgWrite PROVE TypeOK'
  <2>1. main' \in Locals
    BY <1>10, GoToType DEF TypeOK, BgWrite, MainPc, Evaluating, Waiting, Dead
  <2>2. tab' \in Table
    BY <1>10, StateWritten DEF TypeOK, BgWrite, JobState
  <2>. QED  BY <1>10, <2>1, <2>2 DEF TypeOK, BgWrite
<1>11. ASSUME FgCheck PROVE TypeOK'
  <2>1. main' \in Locals
    BY <1>11, GoToType DEF TypeOK, FgCheck, MainPc, Evaluating, Waiting, Dead
  <2>. QED  BY <1>11, <2>1 DEF TypeOK, FgCheck
<1>12. ASSUME FgWrite PROVE TypeOK'
  <2>1. main' \in Locals
    BY <1>12, GoToType DEF TypeOK, FgWrite, MainPc, Evaluating, Waiting, Dead
  <2>2. tab' \in Table
    BY <1>12, StateWritten DEF TypeOK, FgWrite, JobState
  <2>. QED  BY <1>12, <2>1, <2>2 DEF TypeOK, FgWrite
<1>13. ASSUME FgRead PROVE TypeOK'
  <2>1. main.slot \in Slots
    BY <1>13 DEF FgRead, MainAt, SlotHeld
  <2>2. tab.jobs[main.slot].pid \in Pids \cup {NoPid}
    BY <2>1 DEF TypeOK, Table, Job
  <2>3. main' \in Locals
    BY <1>13, <2>2, LocalsUpdates DEF TypeOK, FgRead, MainPc, Evaluating, Waiting, Dead
  <2>. QED  BY <1>13, <2>1, <2>2, <2>3 DEF TypeOK, FgRead
<1>14. ASSUME Quit PROVE TypeOK'
  BY <1>14, EndType DEF Quit, Dead
<1>15. ASSUME NEW sig \in Signals, Deliver(sig) PROVE TypeOK'
  <2>1. main' \in Locals
    BY <1>15, LocalsUpdates DEF TypeOK, Deliver, MainPc, Evaluating, Waiting, Dead
  <2>2. handler' \in [Signals -> Frame]
    BY <1>15, FrameUpdates DEF TypeOK, Deliver, Entry, HandlerPc
  <2>3. nest' \in Seq(Signals)
    BY <1>15 DEF TypeOK, Deliver
  <2>4. pending' \subseteq Signals
    BY <1>15 DEF TypeOK, Deliver
  <2>. QED  BY <1>15, <2>1, <2>2, <2>3, <2>4 DEF TypeOK, Deliver
<1>16. ASSUME NEW p \in Pids, SigchldWaitpid(p) PROVE TypeOK'
  <2>1. handler' \in [Signals -> Frame]
    BY <1>16, FrameUpdates DEF TypeOK, SigchldWaitpid, HandlerPc, Signals
  <2>2. proc' \in [Pids -> ProcState]
    BY <1>16 DEF TypeOK, SigchldWaitpid, ProcState
  <2>. QED  BY <1>16, <2>1, <2>2 DEF TypeOK, SigchldWaitpid
<1>17. ASSUME SigchldWaitpidFails PROVE TypeOK'
  BY <1>17, EndType DEF SigchldWaitpidFails, Dead
<1>18. ASSUME SigchldDeletejob PROVE TypeOK'
  <2>1. tab' \in Table
    BY <1>18, DeletejobClearsSlot DEF TypeOK, SigchldDeletejob
  <2>2. handler' \in [Signals -> Frame] /\ nest' \in Seq(Signals)
    BY <1>18, ReturnType DEF SigchldDeletejob, HandlerAt, Signals
  <2>. QED  BY <1>18, <2>1, <2>2 DEF TypeOK, SigchldDeletejob
<1>19. ASSUME SigintFgpid PROVE TypeOK'
  <2>1. CASE fgpid(tab.jobs) = NoPid
    <3>1. handler' \in [Signals -> Frame] /\ nest' \in Seq(Signals)
      BY <1>19, <2>1, ReturnType DEF SigintFgpid, HandlerAt, Signals
    <3>. QED  BY <1>19, <3>1 DEF TypeOK, SigintFgpid
  <2>2. CASE fgpid(tab.jobs) # NoPid
    <3>1. fgpid(tab.jobs) \in Pids \cup {NoPid}
      BY LookupType DEF TypeOK, Table
    <3>2. handler' = [handler EXCEPT !["INT"].pc = "kill",
                                    !["INT"].pid = fgpid(tab.jobs)]
      BY <1>19, <2>2 DEF SigintFgpid
    <3>3. handler' \in [Signals -> Frame]
      BY <3>1, <3>2, FrameUpdates DEF TypeOK, HandlerPc, Signals
    <3>. QED  BY <1>19, <2>2, <3>3 DEF TypeOK, SigintFgpid
  <2>. QED  BY <2>1, <2>2
<1>20. ASSUME SigintKill PROVE TypeOK'
  <2>1. handler' \in [Signals -> Frame] /\ nest' \in Seq(Signals)
    BY <1>20, ReturnType DEF SigintKill, HandlerAt, Signals
  <2>2. proc' \in [Pids -> ProcState] /\ pending' \subseteq Signals
    BY <1>20, SignalledType DEF SigintKill, ProcState
  <2>. QED  BY <1>20, <2>1, <2>2 DEF TypeOK, SigintKill
<1>21. ASSUME SigtstpFgpid PROVE TypeOK'
  <2>1. CASE fgpid(tab.jobs) = NoPid
    <3>1. handler' \in [Signals -> Frame] /\ nest' \in Seq(Signals)
      BY <1>21, <2>1, ReturnType DEF SigtstpFgpid, HandlerAt, Signals
    <3>. QED  BY <1>21, <3>1 DEF TypeOK, SigtstpFgpid
  <2>2. CASE fgpid(tab.jobs) # NoPid
    <3>1. fgpid(tab.jobs) \in Pids \cup {NoPid}
      BY LookupType DEF TypeOK, Table
    <3>2. handler' = [handler EXCEPT !["TSTP"].pc = "getjobpid",
                                    !["TSTP"].pid = fgpid(tab.jobs)]
      BY <1>21, <2>2 DEF SigtstpFgpid
    <3>3. handler' \in [Signals -> Frame]
      BY <3>1, <3>2, FrameUpdates DEF TypeOK, HandlerPc, Signals
    <3>. QED  BY <1>21, <2>2, <3>3 DEF TypeOK, SigtstpFgpid
  <2>. QED  BY <2>1, <2>2
<1>22. ASSUME SigtstpGetjobpid PROVE TypeOK'
  <2>1. getjobpid(tab.jobs, handler["TSTP"].pid) \in Slots \cup {NoSlot}
    BY LookupType DEF TypeOK, Table
  <2>2. handler' \in [Signals -> Frame]
    BY <1>22, <2>1, FrameUpdates DEF TypeOK, SigtstpGetjobpid, HandlerPc, Signals
  <2>. QED  BY <1>22, <2>1, <2>2 DEF TypeOK, SigtstpGetjobpid
<1>23. ASSUME SigtstpSetST PROVE TypeOK'
  <2>1. handler' \in [Signals -> Frame]
    BY <1>23, FrameUpdates DEF TypeOK, SigtstpSetST, HandlerPc, Signals
  <2>2. tab' \in Table
    BY <1>23, StateWritten DEF TypeOK, SigtstpSetST, JobState
  <2>. QED  BY <1>23, <2>1, <2>2 DEF TypeOK, SigtstpSetST
<1>24. ASSUME SigtstpNullPointer PROVE TypeOK'
  BY <1>24, EndType DEF SigtstpNullPointer, Dead
<1>25. ASSUME SigtstpKill PROVE TypeOK'
  <2>1. handler' \in [Signals -> Frame] /\ nest' \in Seq(Signals)
    BY <1>25, ReturnType DEF SigtstpKill, HandlerAt, Signals
  <2>2. proc' \in [Pids -> ProcState] /\ pending' \subseteq Signals
    BY <1>25, SignalledType DEF TypeOK, SigtstpKill, ProcState, Signals
  <2>. QED  BY <1>25, <2>1, <2>2 DEF TypeOK, SigtstpKill
<1>26. ASSUME SigquitHandler PROVE TypeOK'
  BY <1>26, EndType DEF SigquitHandler, Dead
<1>27. ASSUME NEW sig \in Signals, Keystroke(sig) PROVE TypeOK'
  <2>1. pending' \subseteq Signals
    BY <1>27 DEF TypeOK, Keystroke
  <2>. QED  BY <1>27, <2>1 DEF TypeOK, Keystroke
<1>28. ASSUME NEW p \in Pids, NEW to \in ProcState, ChildChanges(p, to) PROVE TypeOK'
  <2>1. proc' \in [Pids -> ProcState] /\ pending' \subseteq Signals
    BY <1>28 DEF TypeOK, ChildChanges, Signals
  <2>. QED  BY <1>28, <2>1 DEF TypeOK, ChildChanges
<1>29. CASE UNCHANGED vars
  BY <1>29 DEF TypeOK, vars
<1>. QED
  BY <1>1, <1>2, <1>3, <1>4, <1>5, <1>6, <1>7, <1>8, <1>9, <1>10, <1>11, <1>12, <1>13, <1>14, <1>15,
     <1>16, <1>17, <1>18, <1>19, <1>20, <1>21, <1>22, <1>23, <1>24, <1>25, <1>26, <1>27, <1>28, <1>29
  DEF Next, Command, MainStep, HandlerStep, Delivery, Environment, Ended

(* The steps of the loop keep hold of a slot of the table, and of a child. *)
LEMMA HeldStep ==
    ASSUME TypeOK, SlotHeld, PidHeld, [Next]_vars
    PROVE  SlotHeld' /\ PidHeld'
<1>. USE DEF SlotHeld, PidHeld
<1>0. main \in Locals
  BY DEF TypeOK
<1>1. ASSUME NEW bg \in BOOLEAN, EvalBlock(bg) PROVE SlotHeld' /\ PidHeld'
  BY <1>0, <1>1 DEF EvalBlock, MainAt, AtPrompt, Locals
<1>2. ASSUME NEW p \in Pids, EvalFork(p) PROVE SlotHeld' /\ PidHeld'
  BY <1>0, <1>2 DEF EvalFork, MainAt, AtPrompt, Locals
<1>3. ASSUME EvalForkFails PROVE SlotHeld' /\ PidHeld'
  BY <1>3 DEF EvalForkFails, End, AtPrompt, Dead
<1>4. ASSUME EvalAddjob PROVE SlotHeld' /\ PidHeld'
  BY <1>0, <1>4 DEF EvalAddjob, GoTo, MainAt, AtPrompt, Locals
<1>5. ASSUME EvalUnblock PROVE SlotHeld' /\ PidHeld'
  BY <1>0, <1>5 DEF EvalUnblock, GoTo, MainAt, AtPrompt, Locals
<1>6. ASSUME WaitfgTest PROVE SlotHeld' /\ PidHeld'
  BY <1>0, <1>6 DEF WaitfgTest, GoTo, MainAt, AtPrompt, Locals
<1>7. ASSUME WaitfgSuspend PROVE SlotHeld' /\ PidHeld'
  BY <1>0, <1>7 DEF WaitfgSuspend, GoTo, MainAt, AtPrompt, Locals
<1>8. ASSUME NEW cmd \in {"bg", "fg"}, NEW s \in Slots, DoBgfg(cmd, s) PROVE SlotHeld' /\ PidHeld'
  BY <1>0, <1>8 DEF DoBgfg, MainAt, AtPrompt, Locals
<1>9. ASSUME BgCheck PROVE SlotHeld' /\ PidHeld'
  BY <1>0, <1>9 DEF BgCheck, GoTo, MainAt, AtPrompt, Locals
<1>10. ASSUME BgWrite PROVE SlotHeld' /\ PidHeld'
  BY <1>0, <1>10 DEF BgWrite, GoTo, MainAt, AtPrompt, Locals
<1>11. ASSUME FgCheck PROVE SlotHeld' /\ PidHeld'
  BY <1>0, <1>11 DEF FgCheck, GoTo, MainAt, AtPrompt, Locals
<1>12. ASSUME FgWrite PROVE SlotHeld' /\ PidHeld'
  BY <1>0, <1>12 DEF FgWrite, GoTo, MainAt, AtPrompt, Locals
<1>13. ASSUME FgRead PROVE SlotHeld' /\ PidHeld'
  BY <1>0, <1>13 DEF FgRead, MainAt, AtPrompt, Locals
<1>14. ASSUME Quit PROVE SlotHeld' /\ PidHeld'
  BY <1>14 DEF Quit, End, AtPrompt, Dead
<1>15. ASSUME NEW sig \in Signals, Deliver(sig) PROVE SlotHeld' /\ PidHeld'
  BY <1>0, <1>15 DEF Deliver, MainAt, AtPrompt, Locals
<1>16. ASSUME NEW p \in Pids, SigchldWaitpid(p) PROVE SlotHeld' /\ PidHeld'
  BY <1>16 DEF SigchldWaitpid
<1>17. ASSUME SigchldWaitpidFails PROVE SlotHeld' /\ PidHeld'
  BY <1>17 DEF SigchldWaitpidFails, End, AtPrompt, Dead
<1>18. ASSUME SigchldDeletejob PROVE SlotHeld' /\ PidHeld'
  BY <1>18 DEF SigchldDeletejob
<1>19. ASSUME SigintFgpid PROVE SlotHeld' /\ PidHeld'
  BY <1>19 DEF SigintFgpid
<1>20. ASSUME SigintKill PROVE SlotHeld' /\ PidHeld'
  BY <1>20 DEF SigintKill
<1>21. ASSUME SigtstpFgpid PROVE SlotHeld' /\ PidHeld'
  BY <1>21 DEF SigtstpFgpid
<1>22. ASSUME SigtstpGetjobpid PROVE SlotHeld' /\ PidHeld'
  BY <1>22 DEF SigtstpGetjobpid
<1>23. ASSUME SigtstpSetST PROVE SlotHeld' /\ PidHeld'
  BY <1>23 DEF SigtstpSetST
<1>24. ASSUME SigtstpNullPointer PROVE SlotHeld' /\ PidHeld'
  BY <1>24 DEF SigtstpNullPointer, End, AtPrompt, Dead
<1>25. ASSUME SigtstpKill PROVE SlotHeld' /\ PidHeld'
  BY <1>25 DEF SigtstpKill
<1>26. ASSUME SigquitHandler PROVE SlotHeld' /\ PidHeld'
  BY <1>26 DEF SigquitHandler, End, AtPrompt, Dead
<1>27. ASSUME NEW sig \in Signals, Keystroke(sig) PROVE SlotHeld' /\ PidHeld'
  BY <1>27 DEF Keystroke
<1>28. ASSUME NEW p \in Pids, NEW to \in ProcState, ChildChanges(p, to) PROVE SlotHeld' /\ PidHeld'
  BY <1>28 DEF ChildChanges
<1>29. CASE UNCHANGED vars
  BY <1>29 DEF vars
<1>. QED
  BY <1>1, <1>2, <1>3, <1>4, <1>5, <1>6, <1>7, <1>8, <1>9, <1>10, <1>11, <1>12, <1>13, <1>14, <1>15,
     <1>16, <1>17, <1>18, <1>19, <1>20, <1>21, <1>22, <1>23, <1>24, <1>25, <1>26, <1>27, <1>28, <1>29
  DEF Next, Command, MainStep, HandlerStep, Delivery, Environment, Ended

(* A step that writes no FG keeps at most one foreground job. *)
FgShrinks ==
    \A s \in FgSlots(tab'.jobs) :
        s \in FgSlots(tab.jobs) /\ tab'.jobs[s].pid = tab.jobs[s].pid

(* When no job enters the foreground, its owner and their number stay. *)
LEMMA FgKept ==
    ASSUME FgOwned, AtMostOneFg, FgShrinks, main' = main
    PROVE  FgOwned' /\ AtMostOneFg'
  BY DEF FgOwned, AtMostOneFg, FgShrinks

(* A step that leaves the list alone brings no job into the foreground. *)
LEMMA FgUntouched ==
    ASSUME tab' = tab
    PROVE  FgShrinks
  BY DEF FgShrinks

(* When the process ends, its job list goes. *)
LEMMA FgEnded ==
    ASSUME NEW pc, End(pc)
    PROVE  FgOwned' /\ AtMostOneFg'
<1>1. tab'.jobs = initjobs
  BY DEF End
<1>. QED  BY <1>1, InitialState DEF FgOwned, AtMostOneFg

(* A slot whose state is overwritten with another one leaves the foreground. *)
LEMMA FgOverwritten ==
    ASSUME tab \in Table, NEW s, NEW st, st # "FG",
           tab' = [tab EXCEPT !.jobs[s].state = st]
    PROVE  FgShrinks
  BY DEF FgShrinks, FgSlots, Table, Job

(* The steps of the loop that change the foreground or who waits for it. *)
LEMMA FgStep ==
    ASSUME IInv, [Next]_vars
    PROVE  FgOwned' /\ AtMostOneFg'
<1>. USE DEF IInv
<1>0. main \in Locals /\ tab \in Table
  BY DEF TypeOK
<1>1. ASSUME NEW bg \in BOOLEAN, EvalBlock(bg) PROVE FgOwned' /\ AtMostOneFg'
  BY <1>0, <1>1 DEF EvalBlock, MainAt, FgOwned, AtMostOneFg, Locals, Waiting
<1>2. ASSUME NEW p \in Pids, EvalFork(p) PROVE FgOwned' /\ AtMostOneFg'
  BY <1>0, <1>2 DEF EvalFork, MainAt, FgOwned, AtMostOneFg, Locals, Waiting
<1>3. ASSUME EvalForkFails PROVE FgOwned' /\ AtMostOneFg'
  BY <1>3, FgEnded DEF EvalForkFails
<1>4. ASSUME EvalAddjob PROVE FgOwned' /\ AtMostOneFg'
  <2>1. FgSlots(tab.jobs) = {}
    BY <1>4 DEF EvalAddjob, MainAt, FgOwned, Waiting
  <2>2. main.pid \in Pids
    BY <1>4 DEF EvalAddjob, MainAt, PidHeld
  <2>. DEFINE st == IF main.bg THEN "BG" ELSE "FG"
  <2>3. main' = [main EXCEPT !.pc = "unblock"]
    BY <1>4 DEF EvalAddjob, GoTo
  <2>4. tab' = addjob(tab, main.pid, st)
    BY <1>4 DEF EvalAddjob
  <2>5. st \in JobState /\ (st = "FG" => ~main.bg)
    BY DEF JobState
  <2>. HIDE DEF st
  <2>6. /\ \A s \in FgSlots(tab'.jobs) : st = "FG" /\ tab'.jobs[s].pid = main.pid
        /\ \A s, t \in FgSlots(tab'.jobs) : s = t
    <3>. DEFINE new == addjob(tab, main.pid, st)
    <3>1. \A s \in FgSlots(new.jobs) : st = "FG" /\ new.jobs[s].pid = main.pid
      BY <1>0, <2>1, <2>2, <2>5, AddjobForeground
    <3>2. \A s, t \in FgSlots(new.jobs) : s = t
      BY <1>0, <2>1, <2>2, <2>5, AddjobForeground
    <3>. QED  BY <2>4, <3>1, <3>2
  <2>7. main'.pc = "unblock" /\ main'.pid = main.pid /\ main'.bg = main.bg
    BY <1>0, <2>3 DEF Locals
  <2>. QED  BY <2>5, <2>6, <2>7 DEF FgOwned, AtMostOneFg
<1>5. ASSUME EvalUnblock PROVE FgOwned' /\ AtMostOneFg'
  BY <1>0, <1>5 DEF EvalUnblock, GoTo, MainAt, FgOwned, AtMostOneFg, AtPrompt, Locals, Waiting
<1>6. ASSUME WaitfgTest PROVE FgOwned' /\ AtMostOneFg'
  <2>1. tab' = tab
    BY <1>6 DEF WaitfgTest
  <2>2. CASE fgpid(tab.jobs) = main.pid
    BY <1>0, <1>6, <2>1, <2>2 DEF WaitfgTest, GoTo, MainAt, FgOwned, AtMostOneFg, Locals, Waiting
  <2>3. CASE fgpid(tab.jobs) # main.pid
    <3>1. ASSUME NEW s \in FgSlots(tab.jobs) PROVE FALSE
      <4>1. FgSlots(tab.jobs) = {s}
        BY DEF AtMostOneFg
      <4>2. First(FgSlots(tab.jobs)) = s
        BY <4>1, FirstIsFound DEF FgSlots
      <4>3. fgpid(tab.jobs) = tab.jobs[s].pid
        BY <4>1, <4>2 DEF fgpid
      <4>4. tab.jobs[s].pid = main.pid
        BY <1>6 DEF WaitfgTest, MainAt, FgOwned
      <4>. QED  BY <2>3, <4>3, <4>4
    <3>. QED  BY <2>1, <3>1 DEF FgOwned, AtMostOneFg
  <2>. QED  BY <2>2, <2>3
<1>7. ASSUME WaitfgSuspend PROVE FgOwned' /\ AtMostOneFg'
  BY <1>0, <1>7 DEF WaitfgSuspend, GoTo, MainAt, FgOwned, AtMostOneFg, AtPrompt, Locals, Waiting
<1>8. ASSUME NEW cmd \in {"bg", "fg"}, NEW s \in Slots, DoBgfg(cmd, s) PROVE FgOwned' /\ AtMostOneFg'
  BY <1>0, <1>8 DEF DoBgfg, MainAt, FgOwned, AtMostOneFg, Locals, Waiting
<1>9. ASSUME BgCheck PROVE FgOwned' /\ AtMostOneFg'
  BY <1>0, <1>9 DEF BgCheck, GoTo, MainAt, FgOwned, AtMostOneFg, AtPrompt, Locals, Waiting
<1>10. ASSUME BgWrite PROVE FgOwned' /\ AtMostOneFg'
  <2>1. FgSlots(tab.jobs) = {}
    BY <1>10 DEF BgWrite, MainAt, FgOwned, Waiting
  <2>2. FgShrinks
    BY <1>0, <1>10, FgOverwritten DEF BgWrite
  <2>. QED  BY <2>1, <2>2 DEF FgShrinks, FgOwned, AtMostOneFg
<1>11. ASSUME FgCheck PROVE FgOwned' /\ AtMostOneFg'
  BY <1>0, <1>11 DEF FgCheck, GoTo, MainAt, FgOwned, AtMostOneFg, AtPrompt, Locals, Waiting
<1>12. ASSUME FgWrite PROVE FgOwned' /\ AtMostOneFg'
  <2>1. FgSlots(tab.jobs) = {}
    BY <1>12 DEF FgWrite, MainAt, FgOwned, Waiting
  <2>2. FgSlots(tab'.jobs) \subseteq {main.slot}
    BY <1>0, <1>12, <2>1 DEF FgWrite, FgSlots, Table
  <2>3. main'.pc = "fgRead" /\ main'.slot = main.slot
    BY <1>0, <1>12 DEF FgWrite, GoTo, Locals
  <2>. QED  BY <2>2, <2>3 DEF FgOwned, AtMostOneFg
<1>13. ASSUME FgRead PROVE FgOwned' /\ AtMostOneFg'
  <2>1. \A s \in FgSlots(tab.jobs) : s = main.slot
    BY <1>13 DEF FgRead, MainAt, FgOwned, Waiting
  <2>2. main'.pc = "wait" /\ main'.pid = tab.jobs[main.slot].pid /\ tab' = tab
    BY <1>0, <1>13 DEF FgRead, Locals
  <2>. QED  BY <2>1, <2>2 DEF FgOwned, AtMostOneFg, Waiting
<1>14. ASSUME Quit PROVE FgOwned' /\ AtMostOneFg'
  BY <1>14, FgEnded DEF Quit
<1>15. ASSUME NEW sig \in Signals, Deliver(sig) PROVE FgOwned' /\ AtMostOneFg'
  BY <1>0, <1>15 DEF Deliver, FgOwned, AtMostOneFg, Locals, Waiting
<1>16. ASSUME NEW p \in Pids, SigchldWaitpid(p) PROVE FgOwned' /\ AtMostOneFg'
  BY <1>16, FgUntouched, FgKept DEF SigchldWaitpid
<1>17. ASSUME SigchldWaitpidFails PROVE FgOwned' /\ AtMostOneFg'
  BY <1>17, FgEnded DEF SigchldWaitpidFails
<1>18. ASSUME SigchldDeletejob PROVE FgOwned' /\ AtMostOneFg'
  <2>1. FgShrinks
    <3>1. tab' = deletejob(tab, handler["CHLD"].pid)
      BY <1>18 DEF SigchldDeletejob
    <3>. QED  BY <1>0, <3>1, DeletejobForeground DEF FgShrinks
  <2>. QED  BY <1>18, <2>1, FgKept DEF SigchldDeletejob
<1>19. ASSUME SigintFgpid PROVE FgOwned' /\ AtMostOneFg'
  BY <1>19, FgUntouched, FgKept DEF SigintFgpid
<1>20. ASSUME SigintKill PROVE FgOwned' /\ AtMostOneFg'
  BY <1>20, FgUntouched, FgKept DEF SigintKill
<1>21. ASSUME SigtstpFgpid PROVE FgOwned' /\ AtMostOneFg'
  BY <1>21, FgUntouched, FgKept DEF SigtstpFgpid
<1>22. ASSUME SigtstpGetjobpid PROVE FgOwned' /\ AtMostOneFg'
  BY <1>22, FgUntouched, FgKept DEF SigtstpGetjobpid
<1>23. ASSUME SigtstpSetST PROVE FgOwned' /\ AtMostOneFg'
  BY <1>0, <1>23, FgOverwritten, FgKept DEF SigtstpSetST
<1>24. ASSUME SigtstpNullPointer PROVE FgOwned' /\ AtMostOneFg'
  BY <1>24, FgEnded DEF SigtstpNullPointer
<1>25. ASSUME SigtstpKill PROVE FgOwned' /\ AtMostOneFg'
  BY <1>25, FgUntouched, FgKept DEF SigtstpKill
<1>26. ASSUME SigquitHandler PROVE FgOwned' /\ AtMostOneFg'
  BY <1>26, FgEnded DEF SigquitHandler
<1>27. ASSUME NEW sig \in Signals, Keystroke(sig) PROVE FgOwned' /\ AtMostOneFg'
  BY <1>27, FgUntouched, FgKept DEF Keystroke
<1>28. ASSUME NEW p \in Pids, NEW to \in ProcState, ChildChanges(p, to) PROVE FgOwned' /\ AtMostOneFg'
  BY <1>28, FgUntouched, FgKept DEF ChildChanges
<1>29. CASE UNCHANGED vars
  BY <1>29, FgUntouched, FgKept DEF vars
<1>. QED
  BY <1>1, <1>2, <1>3, <1>4, <1>5, <1>6, <1>7, <1>8, <1>9, <1>10, <1>11, <1>12, <1>13, <1>14, <1>15,
     <1>16, <1>17, <1>18, <1>19, <1>20, <1>21, <1>22, <1>23, <1>24, <1>25, <1>26, <1>27, <1>28, <1>29
  DEF Next, Command, MainStep, HandlerStep, Delivery, Environment, Ended

-----------------------------------------------------------------------------
(* With no job in the list nobody is in the foreground. *)
LEMMA InitIInv == Init => IInv
<1>. SUFFICES ASSUME Init PROVE IInv
  OBVIOUS
<1>1. TypeOK
  <2>1. nest \in Seq(Signals) /\ pending \subseteq Signals
    BY DEF Init
  <2>. QED  BY <2>1, InitialState DEF Init, TypeOK, ProcState
<1>2. FgSlots(tab.jobs) = {}
  BY InitialState DEF Init
<1>. QED  BY <1>1, <1>2 DEF Init, AtPrompt, IInv, SlotHeld, PidHeld, FgOwned, AtMostOneFg

(* Types, held pids and slots, and the owner of the foreground, together. *)
LEMMA Inductive == Spec => []IInv
<1>1. IInv /\ [Next]_vars => IInv'
  <2>. SUFFICES ASSUME IInv, [Next]_vars PROVE IInv'
    OBVIOUS
  <2>1. TypeOK'
    BY TypeStep DEF IInv
  <2>2. SlotHeld' /\ PidHeld'
    BY HeldStep DEF IInv
  <2>3. FgOwned' /\ AtMostOneFg'
    BY FgStep
  <2>. QED  BY <2>1, <2>2, <2>3 DEF IInv
<1>. QED  BY InitIInv, <1>1, PTL DEF Spec

(* Whatever interleaving of commands, signals and children: the job list stays
   well formed, and every local and handler frame holds a pid or a slot. *)
THEOREM TypeCorrect == Spec => []TypeOK
<1>1. IInv => TypeOK
  BY DEF IInv
<1>. QED  BY Inductive, <1>1, PTL

(* "At most 1 job can be in the FG state" (tsh.c:35), for a job list of any
   size: fg and eval write FG only when no entry has it. *)
THEOREM ForegroundUnique == Spec => []AtMostOneFg
<1>1. IInv => AtMostOneFg
  BY DEF IInv
<1>. QED  BY Inductive, <1>1, PTL

(* waitfg does not let the prompt come back while a job is in the foreground. *)
THEOREM PromptAfterForeground == Spec => []PromptHasNoFg
<1>1. IInv => PromptHasNoFg
  BY DEF IInv, FgOwned, PromptHasNoFg, Waiting
<1>. QED  BY Inductive, <1>1, PTL

-----------------------------------------------------------------------------
(* The handlers.  Each signal's handler runs at most once (a signal is blocked
   while its handler runs), and only then has a frame in use. *)
Runs(sig) == \E i \in 1 .. Len(nest) : nest[i] = sig
Nesting ==
    /\ \A i, j \in 1 .. Len(nest) : nest[i] = nest[j] => i = j
    /\ \A sig \in Signals : handler[sig].pc # "idle" <=> Runs(sig)

(* eval blocks the signals from before fork until after addjob, and they stay
   blocked only while no handler runs. *)
Masking ==
    /\ masked => nest = <<>>
    /\ main.pc \in Evaluating => masked

(* What a step does to the handlers: it starts one, ends or advances the
   innermost one, or leaves them alone, if it does not end the process. *)
Starts(sig) ==
    /\ ~masked /\ handler[sig].pc = "idle"
    /\ handler' = [handler EXCEPT ![sig].pc = Entry(sig)]
    /\ nest' = <<sig>> \o nest
Returns(sig) ==
    /\ nest # <<>> /\ Head(nest) = sig
    /\ Return(sig)
Goes(sig) ==
    /\ nest # <<>> /\ nest' = nest
    /\ handler[sig].pc # "idle"
    /\ \E f \in Frame : f.pc # "idle" /\ handler' = [handler EXCEPT ![sig] = f]

(* A handler that goes on to its next step has set pc, and pid or slot. *)
LEMMA FrameGoes ==
    ASSUME handler \in [Signals -> Frame], NEW sig \in Signals, NEW pc \in HandlerPc,
           NEW p \in Pids \cup {NoPid}, NEW s \in Slots \cup {NoSlot},
           \/ handler' = [handler EXCEPT ![sig].pc = pc]
           \/ handler' = [handler EXCEPT ![sig].pc = pc, ![sig].pid = p]
           \/ handler' = [handler EXCEPT ![sig].pc = pc, ![sig].slot = s]
    PROVE  \E f \in Frame : f.pc = pc /\ handler' = [handler EXCEPT ![sig] = f]
<1>. DEFINE f0 == [handler[sig] EXCEPT !.pc = pc]
            f1 == [handler[sig] EXCEPT !.pc = pc, !.pid = p]
            f2 == [handler[sig] EXCEPT !.pc = pc, !.slot = s]
<1>1. /\ f0 \in Frame /\ f0.pc = pc
      /\ f1 \in Frame /\ f1.pc = pc
      /\ f2 \in Frame /\ f2.pc = pc
  BY DEF Frame
<1>2. /\ [handler EXCEPT ![sig].pc = pc] = [handler EXCEPT ![sig] = f0]
      /\ [handler EXCEPT ![sig].pc = pc, ![sig].pid = p] = [handler EXCEPT ![sig] = f1]
      /\ [handler EXCEPT ![sig].pc = pc, ![sig].slot = s] = [handler EXCEPT ![sig] = f2]
  BY Zenon
<1>. HIDE DEF f0, f1, f2
<1>. QED  BY <1>1, <1>2

(* Every step is of one of these kinds. *)
LEMMA HandlerKinds ==
    ASSUME TypeOK, [Next]_vars
    PROVE  \/ UNCHANGED <<handler, nest>>
           \/ \E pc \in Dead : End(pc)
           \/ \E sig \in Signals : Starts(sig) \/ Returns(sig) \/ Goes(sig)
<1>. DEFINE Kinds == \/ UNCHANGED <<handler, nest>>
                     \/ \E pc \in Dead : End(pc)
                     \/ \E sig \in Signals : Starts(sig) \/ Returns(sig) \/ Goes(sig)
<1>0. /\ handler \in [Signals -> Frame]
      /\ "CHLD" \in Signals /\ "INT" \in Signals /\ "TSTP" \in Signals
  BY DEF TypeOK, Signals
<1>1. CASE UNCHANGED vars
  BY <1>1 DEF vars
<1>2. CASE Command
  BY <1>2 DEF Command, EvalBlock, DoBgfg, Quit, Dead
<1>3. CASE MainStep
  BY <1>3 DEF MainStep, EvalFork, EvalForkFails, EvalAddjob, EvalUnblock, WaitfgTest,
     WaitfgSuspend, BgCheck, BgWrite, FgCheck, FgWrite, FgRead, Dead
<1>4. CASE Delivery
  BY <1>4 DEF Delivery, Deliver, Starts
<1>5. CASE Environment
  BY <1>5 DEF Environment, Keystroke, ChildChanges, SigquitHandler, Dead
<1>6. CASE Ended
  BY <1>6 DEF Ended, vars
<1>7. CASE HandlerStep
  <2>. USE DEF HandlerAt, Goes, HandlerPc
  <2>1. ASSUME NEW p \in Pids, SigchldWaitpid(p) PROVE Goes("CHLD")
    <3>1. handler' = [handler EXCEPT !["CHLD"].pc = "deletejob", !["CHLD"].pid = p]
      BY <2>1 DEF SigchldWaitpid
    <3>2. \E f \in Frame : f.pc = "deletejob" /\ handler' = [handler EXCEPT !["CHLD"] = f]
      BY <1>0, <3>1, FrameGoes
    <3>. QED  BY <2>1, <3>2 DEF SigchldWaitpid
  <2>2. ASSUME SigchldWaitpidFails \/ SigtstpNullPointer PROVE \E pc \in Dead : End(pc)
    BY <2>2 DEF SigchldWaitpidFails, SigtstpNullPointer, Dead
  <2>3. ASSUME SigchldDeletejob PROVE Returns("CHLD")
    BY <2>3 DEF SigchldDeletejob, Returns
  <2>4. ASSUME SigintFgpid PROVE Returns("INT") \/ Goes("INT")
    <3>1. CASE fgpid(tab.jobs) = NoPid
      BY <2>4, <3>1 DEF SigintFgpid, Returns
    <3>2. CASE fgpid(tab.jobs) # NoPid
      <4>1. fgpid(tab.jobs) \in Pids \cup {NoPid}
        BY LookupType DEF TypeOK, Table
      <4>2. handler' = [handler EXCEPT !["INT"].pc = "kill", !["INT"].pid = fgpid(tab.jobs)]
        BY <2>4, <3>2 DEF SigintFgpid
      <4>3. \E f \in Frame : f.pc = "kill" /\ handler' = [handler EXCEPT !["INT"] = f]
        BY <1>0, <4>1, <4>2, FrameGoes
      <4>. QED  BY <2>4, <3>2, <4>3 DEF SigintFgpid
    <3>. QED  BY <3>1, <3>2
  <2>5. ASSUME SigintKill PROVE Returns("INT")
    BY <2>5 DEF SigintKill, Returns
  <2>6. ASSUME SigtstpFgpid PROVE Returns("TSTP") \/ Goes("TSTP")
    <3>1. CASE fgpid(tab.jobs) = NoPid
      BY <2>6, <3>1 DEF SigtstpFgpid, Returns
    <3>2. CASE fgpid(tab.jobs) # NoPid
      <4>1. fgpid(tab.jobs) \in Pids \cup {NoPid}
        BY LookupType DEF TypeOK, Table
      <4>2. handler' = [handler EXCEPT !["TSTP"].pc = "getjobpid",
                                      !["TSTP"].pid = fgpid(tab.jobs)]
        BY <2>6, <3>2 DEF SigtstpFgpid
      <4>3. \E f \in Frame : f.pc = "getjobpid" /\ handler' = [handler EXCEPT !["TSTP"] = f]
        BY <1>0, <4>1, <4>2, FrameGoes
      <4>. QED  BY <2>6, <3>2, <4>3 DEF SigtstpFgpid
    <3>. QED  BY <3>1, <3>2
  <2>7. ASSUME SigtstpGetjobpid PROVE Goes("TSTP")
    <3>1. getjobpid(tab.jobs, handler["TSTP"].pid) \in Slots \cup {NoSlot}
      BY LookupType DEF TypeOK, Table
    <3>2. handler' = [handler EXCEPT !["TSTP"].pc = "setST",
                        !["TSTP"].slot = getjobpid(tab.jobs, handler["TSTP"].pid)]
      BY <2>7 DEF SigtstpGetjobpid
    <3>3. \E f \in Frame : f.pc = "setST" /\ handler' = [handler EXCEPT !["TSTP"] = f]
      BY <1>0, <3>1, <3>2, FrameGoes
    <3>. QED  BY <2>7, <3>3 DEF SigtstpGetjobpid
  <2>8. ASSUME SigtstpSetST PROVE Goes("TSTP")
    <3>1. handler' = [handler EXCEPT !["TSTP"].pc = "kill"]
      BY <2>8 DEF SigtstpSetST
    <3>2. \E f \in Frame : f.pc = "kill" /\ handler' = [handler EXCEPT !["TSTP"] = f]
      BY <1>0, <3>1, FrameGoes
    <3>. QED  BY <2>8, <3>2 DEF SigtstpSetST
  <2>9. ASSUME SigtstpKill PROVE Returns("TSTP")
    BY <2>9 DEF SigtstpKill, Returns
  <2>. QED  BY <1>0, <1>7, <2>1, <2>2, <2>3, <2>4, <2>5, <2>6, <2>7, <2>8, <2>9 DEF HandlerStep
<1>. QED  BY <1>1, <1>2, <1>3, <1>4, <1>5, <1>6, <1>7 DEF Next

(* Handlers start only when idle and end innermost first. *)
LEMMA NestingStep ==
    ASSUME TypeOK, Nesting, [Next]_vars
    PROVE  Nesting'
<1>0. handler \in [Signals -> Frame] /\ nest \in Seq(Signals)
  BY DEF TypeOK
<1>1. CASE UNCHANGED <<handler, nest>>
  BY <1>1 DEF Nesting, Runs
<1>2. CASE \E pc \in Dead : End(pc)
  BY <1>2 DEF End, Nesting, Runs, NoFrame
<1>3. ASSUME NEW sig \in Signals, Starts(sig) PROVE Nesting'
  <2>1. /\ Len(nest') = Len(nest) + 1 /\ nest'[1] = sig /\ Len(nest) \in Nat
        /\ \A i \in 2 .. Len(nest) + 1 : nest'[i] = nest[i - 1]
    BY <1>0, <1>3 DEF Starts
  <2>2. ~Runs(sig)
    BY <1>3 DEF Starts, Nesting
  <2>3. \A i, j \in 1 .. Len(nest') : nest'[i] = nest'[j] => i = j
    BY <2>1, <2>2 DEF Nesting, Runs
  <2>4. \A s \in Signals : Runs(s)' <=> s = sig \/ Runs(s)
    <3>. TAKE s \in Signals
    <3>1. ASSUME Runs(s) PROVE Runs(s)'
      <4>1. PICK i \in 1 .. Len(nest) : nest[i] = s
        BY <3>1 DEF Runs
      <4>2. i + 1 \in 2 .. Len(nest) + 1 /\ nest'[i + 1] = s
        BY <2>1, <4>1
      <4>. QED  BY <2>1, <4>2 DEF Runs
    <3>2. sig = s => Runs(s)'
      BY <2>1 DEF Runs
    <3>3. Runs(s)' => s = sig \/ Runs(s)
      BY <2>1 DEF Runs
    <3>. QED  BY <3>1, <3>2, <3>3
  <2>5. \A s \in Signals : handler'[s].pc # "idle" <=> s = sig \/ handler[s].pc # "idle"
    BY <1>0, <1>3 DEF Starts, Entry, Frame
  <2>. QED  BY <2>3, <2>4, <2>5 DEF Nesting
<1>4. ASSUME NEW sig \in Signals, Returns(sig) PROVE Nesting'
  <2>1. /\ Len(nest) \in Nat \ {0} /\ nest[1] = sig /\ Len(nest') = Len(nest) - 1
        /\ \A i \in 1 .. Len(nest) - 1 : nest'[i] = nest[i + 1]
    BY <1>0, <1>4 DEF Returns, Return
  <2>2. \A i, j \in 1 .. Len(nest') : nest'[i] = nest'[j] => i = j
    BY <2>1 DEF Nesting
  <2>3. \A s \in Signals : Runs(s)' <=> s # sig /\ Runs(s)
    <3>. TAKE s \in Signals
    <3>1. ASSUME s # sig, Runs(s) PROVE Runs(s)'
      <4>1. PICK i \in 1 .. Len(nest) : nest[i] = s
        BY <3>1 DEF Runs
      <4>2. i - 1 \in 1 .. Len(nest') /\ nest'[i - 1] = s
        BY <2>1, <3>1, <4>1
      <4>. QED  BY <4>2 DEF Runs
    <3>2. ASSUME Runs(s)' PROVE s # sig /\ Runs(s)
      <4>1. PICK i \in 1 .. Len(nest') : nest'[i] = s
        BY <3>2 DEF Runs
      <4>2. i + 1 \in 1 .. Len(nest) /\ nest[i + 1] = s /\ i + 1 # 1 /\ 1 \in 1 .. Len(nest)
        BY <2>1, <4>1
      <4>. QED  BY <2>1, <4>2 DEF Nesting, Runs
    <3>. QED  BY <3>1, <3>2
  <2>4. \A s \in Signals : handler'[s].pc # "idle" <=> s # sig /\ handler[s].pc # "idle"
    BY <1>0, <1>4 DEF Returns, Return, NoFrame
  <2>. QED  BY <2>2, <2>3, <2>4 DEF Nesting
<1>5. ASSUME NEW sig \in Signals, Goes(sig) PROVE Nesting'
  <2>1. \A s \in Signals : handler'[s].pc # "idle" <=> handler[s].pc # "idle"
    BY <1>0, <1>5 DEF Goes
  <2>2. \A s \in Signals : Runs(s)' <=> Runs(s)
    BY <1>5 DEF Goes, Runs
  <2>. QED  BY <1>5, <2>1, <2>2 DEF Goes, Nesting
<1>. QED  BY HandlerKinds, <1>1, <1>2, <1>3, <1>4, <1>5

(* Signals are blocked while eval works on its new child. *)
LEMMA MaskingStep ==
    ASSUME TypeOK, Masking, [Next]_vars
    PROVE  Masking'
<1>. USE DEF Masking, MainAt, Evaluating
<1>0. main \in Locals
  BY DEF TypeOK
<1>1. CASE UNCHANGED vars
  BY <1>1 DEF vars
<1>2. CASE Command
  BY <1>0, <1>2 DEF Command, EvalBlock, DoBgfg, Quit, End, AtPrompt, Locals
<1>3. CASE MainStep
  <2>1. ASSUME NEW p \in Pids, EvalFork(p) PROVE Masking'
    BY <1>0, <2>1 DEF EvalFork, Locals
  <2>2. CASE EvalForkFails
    BY <2>2 DEF EvalForkFails, End, AtPrompt
  <2>3. CASE EvalAddjob
    BY <1>0, <2>3 DEF EvalAddjob, GoTo, Locals
  <2>4. CASE EvalUnblock
    BY <1>0, <2>4 DEF EvalUnblock, GoTo, AtPrompt, Locals
  <2>5. CASE WaitfgTest \/ WaitfgSuspend
    BY <1>0, <2>5 DEF WaitfgTest, WaitfgSuspend, GoTo, AtPrompt, Locals
  <2>6. CASE BgCheck \/ BgWrite
    BY <1>0, <2>6 DEF BgCheck, BgWrite, GoTo, AtPrompt, Locals
  <2>7. CASE FgCheck \/ FgWrite
    BY <1>0, <2>7 DEF FgCheck, FgWrite, GoTo, AtPrompt, Locals
  <2>8. CASE FgRead
    <3>1. main'.pc = "wait"
      BY <1>0, <2>8 DEF FgRead, Locals
    <3>. QED  BY <2>8, <3>1 DEF FgRead
  <2>. QED  BY <1>3, <2>1, <2>2, <2>3, <2>4, <2>5, <2>6, <2>7, <2>8 DEF MainStep
<1>4. CASE Delivery
  BY <1>0, <1>4 DEF Delivery, Deliver, Locals
<1>5. CASE Environment
  <2>1. CASE SigquitHandler
    BY <2>1 DEF SigquitHandler, End, AtPrompt
  <2>2. CASE UNCHANGED <<main, masked, nest>>
    BY <2>2
  <2>. QED  BY <1>5, <2>1, <2>2 DEF Environment, Keystroke, ChildChanges
<1>6. CASE Ended
  BY <1>6 DEF Ended, vars
<1>7. CASE HandlerStep
  <2>1. CASE UNCHANGED <<masked, main>> /\ nest # <<>>
    BY <2>1
  <2>2. CASE \E pc \in Dead : End(pc)
    BY <2>2 DEF End, AtPrompt, Dead
  <2>. QED
    BY <1>7, <2>1, <2>2
    DEF HandlerStep, SigchldWaitpid, SigchldWaitpidFails, SigchldDeletejob, SigintFgpid, SigintKill,
        SigtstpFgpid, SigtstpGetjobpid, SigtstpSetST, SigtstpNullPointer, SigtstpKill, HandlerAt, Dead
<1>. QED  BY <1>1, <1>2, <1>3, <1>4, <1>5, <1>6, <1>7 DEF Next

-----------------------------------------------------------------------------
(* The SIGCHLD handler holds the pid of a child it has reaped. *)
Reaping ==
    handler["CHLD"].pc = "deletejob" =>
        handler["CHLD"].pid \in Pids /\ proc[handler["CHLD"].pid] = "none"

(* The child that eval is about to enter is there, and not in the list yet. *)
Forked == main.pc = "addjob" => main.pid \in Children /\ ~Listed(main.pid)

Bookkeeping ==
    IInv /\ Nesting /\ Masking /\ Reaping /\ Forked /\ TableMatchesChildren

(* A step that neither adds nor removes a child or an entry, nor is about to. *)
Quiet ==
    /\ \A s \in Slots : tab'.jobs[s].pid = tab.jobs[s].pid
    /\ Children' = Children /\ unlisted' = unlisted
    /\ "deletejob" \in {handler["CHLD"].pc, handler'["CHLD"].pc} =>
           handler'["CHLD"] = handler["CHLD"]
    /\ "addjob" \in {main.pc, main'.pc} => main' = main
    /\ Alive' => Alive

(* Writing a state in an entry leaves the pids of the list. *)
LEMMA PidsStay ==
    ASSUME tab \in Table, NEW s, NEW st, tab' = [tab EXCEPT !.jobs[s].state = st]
    PROVE  \A t \in Slots : tab'.jobs[t].pid = tab.jobs[t].pid
  BY DEF Table, Job

(* A child that changes state is still a child. *)
LEMMA ChildStays ==
    ASSUME TypeOK, NEW p \in Pids, NEW to \in ProcState, to # "none", proc[p] # "none",
           proc' = [proc EXCEPT ![p] = to]
    PROVE  Children' = Children
  BY DEF TypeOK, Children

(* Every step is quiet, except four and those that end the process. *)
LEMMA StepKinds ==
    ASSUME TypeOK, [Next]_vars
    PROVE  \/ Quiet
           \/ \E pc \in Dead : End(pc)
           \/ \E p \in Pids : EvalFork(p)
           \/ EvalAddjob
           \/ \E p \in Pids : SigchldWaitpid(p)
           \/ SigchldDeletejob
<1>0. main \in Locals /\ tab \in Table /\ handler \in [Signals -> Frame]
      /\ "CHLD" \in Signals /\ "INT" \in Signals /\ "TSTP" \in Signals
  BY DEF TypeOK, Signals
<1>1. CASE UNCHANGED vars
  BY <1>1 DEF vars, Quiet, Children, Alive
<1>2. CASE Command
  <2>1. ASSUME NEW bg \in BOOLEAN, EvalBlock(bg) PROVE Quiet
    BY <1>0, <2>1 DEF EvalBlock, MainAt, Quiet, Children, Alive, Dead, Locals
  <2>2. ASSUME NEW cmd \in {"bg", "fg"}, NEW s \in Slots, DoBgfg(cmd, s) PROVE Quiet
    BY <1>0, <2>2 DEF DoBgfg, MainAt, Quiet, Children, Alive, Dead, Locals
  <2>. QED  BY <1>2, <2>1, <2>2 DEF Command, Quit, Dead
<1>3. CASE MainStep
  <2>. USE DEF MainAt, Quiet, Children, Alive, Dead
  <2>1. CASE EvalUnblock
    BY <1>0, <2>1 DEF EvalUnblock, GoTo, AtPrompt, Locals
  <2>2. CASE WaitfgTest \/ WaitfgSuspend
    BY <1>0, <2>2 DEF WaitfgTest, WaitfgSuspend, GoTo, AtPrompt, Locals
  <2>3. CASE BgCheck
    BY <1>0, <2>3 DEF BgCheck, GoTo, AtPrompt, Locals
  <2>4. CASE BgWrite
    BY <1>0, <2>4, PidsStay DEF BgWrite, GoTo, AtPrompt
  <2>5. CASE FgCheck
    BY <1>0, <2>5 DEF FgCheck, GoTo, AtPrompt, Locals
  <2>6. CASE FgWrite
    BY <1>0, <2>6, PidsStay DEF FgWrite, GoTo, Locals
  <2>7. CASE FgRead
    <3>1. main'.pc = "wait"
      BY <1>0, <2>7 DEF FgRead, Locals
    <3>. QED  BY <2>7, <3>1 DEF FgRead
  <2>. QED  BY <1>3, <2>1, <2>2, <2>3, <2>4, <2>5, <2>6, <2>7 DEF MainStep, EvalForkFails
<1>4. CASE Delivery
  <2>. PICK sig \in Signals : Deliver(sig)
    BY <1>4 DEF Delivery
  <2>1. main.pc = "addjob" \/ main'.pc = "addjob" => main' = main
    BY <1>0 DEF Deliver, Locals
  <2>2. handler["CHLD"].pc = "deletejob" \/ handler'["CHLD"].pc = "deletejob"
           => handler'["CHLD"] = handler["CHLD"]
    BY <1>0 DEF Deliver, Entry, Frame
  <2>. QED  BY <2>1, <2>2 DEF Deliver, Quiet, Children, Alive
<1>5. CASE Environment
  <2>1. ASSUME NEW sig \in Signals, Keystroke(sig) PROVE Quiet
    BY <2>1 DEF Keystroke, Quiet, Children, Alive
  <2>2. ASSUME NEW p \in Pids, NEW to \in ProcState, ChildChanges(p, to) PROVE Quiet
    <3>1. Children' = Children
      BY <2>2, ChildStays DEF ChildChanges, ChildMoves
    <3>. QED  BY <2>2, <3>1 DEF ChildChanges, Quiet, Alive
  <2>. QED  BY <1>5, <2>1, <2>2 DEF Environment, SigquitHandler, Dead
<1>6. CASE Ended
  BY <1>1, <1>6 DEF Ended
<1>7. CASE HandlerStep
  <2>. USE DEF HandlerAt, Quiet, Alive
  <2>1. \A sig \in Signals \ {"CHLD"} : Return(sig) => handler'["CHLD"] = handler["CHLD"]
    BY <1>0 DEF Return
  <2>2. ASSUME NEW sig \in {"INT", "TSTP"}, NEW p, NEW to \in {"zombie", "stopped"},
               Signalled(p, to)
        PROVE  Children' = Children
    BY <2>2, ChildStays DEF Signalled, ProcState, Children
  <2>3. CASE SigintFgpid
    BY <1>0, <2>1, <2>3 DEF SigintFgpid, Children
  <2>4. CASE SigintKill
    BY <1>0, <2>1, <2>2, <2>4 DEF SigintKill
  <2>5. CASE SigtstpFgpid
    BY <1>0, <2>1, <2>5 DEF SigtstpFgpid, Children
  <2>6. CASE SigtstpGetjobpid
    BY <1>0, <2>6 DEF SigtstpGetjobpid, Children
  <2>7. CASE SigtstpSetST
    BY <1>0, <2>7, PidsStay DEF SigtstpSetST, Children
  <2>8. CASE SigtstpKill
    <3>1. Children' = Children
      BY <2>2, <2>8 DEF SigtstpKill, Children
    <3>. QED  BY <1>0, <2>1, <2>8, <3>1 DEF SigtstpKill
  <2>. QED  BY <1>7, <2>3, <2>4, <2>5, <2>6, <2>7, <2>8
            DEF HandlerStep, SigchldWaitpidFails, SigtstpNullPointer, Dead
<1>. QED  BY <1>1, <1>2, <1>3, <1>4, <1>5, <1>6, <1>7 DEF Next

(* What the shell's bookkeeping says of one process. *)
Matches(p) ==
    /\ \A s, t \in Slots : tab.jobs[s].pid = p /\ tab.jobs[t].pid = p => s = t
    /\ Alive /\ p \in Children => \/ Listed(p)
                                  \/ p \in unlisted
                                  \/ (main.pc = "addjob" /\ main.pid = p)
    /\ Listed(p) => \/ p \in Children
                    \/ (handler["CHLD"].pc = "deletejob" /\ handler["CHLD"].pid = p)

(* The bookkeeping survives the end of the process, with nothing to keep. *)
LEMMA BookkeepingEnds ==
    ASSUME NEW pc \in Dead, End(pc)
    PROVE  Reaping' /\ Forked' /\ TableMatchesChildren'
<1>1. \A s \in Slots : tab'.jobs[s].pid = NoPid
  BY DEF End, initjobs, Cleared
<1>2. \A p \in Pids : ~Listed(p)'
  BY <1>1, NoPidAssumption DEF Listed
<1>3. ~Alive' /\ main'.pc # "addjob"
  BY DEF End, AtPrompt, Alive, Dead
<1>4. handler'["CHLD"].pc # "deletejob"
  BY DEF End, NoFrame, Signals
<1>. QED  BY <1>1, <1>2, <1>3, <1>4, NoPidAssumption DEF Reaping, Forked, TableMatchesChildren

(* A quiet step keeps it. *)
LEMMA BookkeepingQuiet ==
    ASSUME Reaping, Forked, TableMatchesChildren, TypeOK, Quiet
    PROVE  Reaping' /\ Forked' /\ TableMatchesChildren'
<1>1. \A p : Listed(p)' <=> Listed(p)
  BY DEF Quiet, Listed
<1>2. Reaping'
  <2>1. \A p \in Pids : proc[p] = "none" => proc'[p] = "none"
    BY DEF Quiet, Children
  <2>. QED  BY <2>1 DEF Quiet, Reaping
<1>3. Forked'
  BY <1>1 DEF Quiet, Forked
<1>4. TableMatchesChildren'
  <2>. SUFFICES ASSUME NEW p \in Pids PROVE Matches(p)'
    BY DEF TableMatchesChildren, Matches
  <2>1. Matches(p)
    BY DEF TableMatchesChildren, Matches
  <2>. QED  BY <1>1, <2>1 DEF Quiet, Matches
<1>. QED  BY <1>2, <1>3, <1>4

(* So does every other step: fork makes the child that addjob then lists, and
   waitpid takes the one whose entry deletejob then clears. *)
LEMMA BookkeepingStep ==
    ASSUME Bookkeeping, [Next]_vars
    PROVE  Reaping' /\ Forked' /\ TableMatchesChildren'
<1>. USE DEF Bookkeeping
<1>0. /\ TypeOK /\ main \in Locals /\ tab \in Table /\ handler \in [Signals -> Frame]
      /\ proc \in [Pids -> ProcState] /\ unlisted \subseteq Pids
      /\ "CHLD" \in Signals
  BY DEF IInv, TypeOK, Signals
<1>1. \A p \in Pids : Matches(p)
  BY DEF TableMatchesChildren, Matches
<1>2. (\A p \in Pids : Matches(p)') => TableMatchesChildren'
  BY DEF TableMatchesChildren, Matches
<1>3. ASSUME nest # <<>> PROVE main.pc # "addjob"
  BY <1>3 DEF Masking, Evaluating
<1>4. ASSUME nest = <<>> PROVE handler["CHLD"].pc = "idle"
  BY <1>0, <1>4 DEF Nesting, Runs
<1>5. ASSUME NEW p \in Pids, EvalFork(p) PROVE Reaping' /\ Forked' /\ TableMatchesChildren'
  <2>1. handler'["CHLD"].pc = "idle" /\ handler["CHLD"].pc = "idle"
    BY <1>4, <1>5 DEF EvalFork, MainAt
  <2>2. main'.pc = "addjob" /\ main'.pid = p /\ main.pc = "fork"
    BY <1>0, <1>5 DEF EvalFork, MainAt, Locals
  <2>3. Children' = Children \cup {p} /\ p \notin Children
    BY <1>0, <1>5 DEF EvalFork, Children
  <2>4. \A q : Listed(q)' <=> Listed(q)
    BY <1>5 DEF EvalFork, Listed
  <2>5. ~Listed(p)
    BY <1>1, <2>1, <2>3 DEF Matches
  <2>6. ASSUME NEW q \in Pids PROVE Matches(q)'
    <3>1. Matches(q)
      BY <1>1
    <3>2. q # p => (q \in unlisted <=> q \in unlisted')
      BY <1>5 DEF EvalFork
    <3>3. Alive
      BY <2>2 DEF Alive, Dead
    <3>4. tab' = tab
      BY <1>5 DEF EvalFork
    <3>. QED  BY <2>1, <2>2, <2>3, <2>4, <2>5, <3>1, <3>2, <3>3, <3>4 DEF Matches
  <2>. QED  BY <1>2, <2>1, <2>2, <2>3, <2>4, <2>5, <2>6 DEF Reaping, Forked
<1>6. CASE EvalAddjob
  <2>. DEFINE p == main.pid
              st == IF main.bg THEN "BG" ELSE "FG"
  <2>1. handler'["CHLD"].pc = "idle" /\ handler["CHLD"].pc = "idle"
    BY <1>4, <1>6 DEF EvalAddjob, MainAt
  <2>2. main.pc = "addjob" /\ main'.pc = "unblock" /\ Alive
    BY <1>0, <1>6 DEF EvalAddjob, MainAt, GoTo, Locals, Alive, Dead
  <2>3. p \in Children /\ ~Listed(p) /\ p \in Pids /\ p # NoPid
    BY <2>2, NoPidAssumption DEF Forked, Children
  <2>4. Children' = Children
    BY <1>6 DEF EvalAddjob, Children
  <2>5. tab' = addjob(tab, p, st) /\ unlisted' = IF tab' = tab THEN unlisted \cup {p}
                                                ELSE unlisted
    BY <1>6 DEF EvalAddjob
  <2>. HIDE DEF p, st
  <2>6. CASE tab' = tab
    <3>1. \A q : Listed(q)' <=> Listed(q)
      BY <2>6 DEF Listed
    <3>2. ASSUME NEW q \in Pids PROVE Matches(q)'
      <4>1. Matches(q)
        BY <1>1
      <4>. QED  BY <2>1, <2>2, <2>4, <2>5, <2>6, <3>1, <4>1 DEF Matches, p
    <3>. QED  BY <1>2, <2>1, <2>2, <3>2 DEF Reaping, Forked
  <2>7. CASE tab' # tab
    <3>1. PICK f \in Slots :
             /\ tab.jobs[f].pid = NoPid
             /\ tab'.jobs =
                   [tab.jobs EXCEPT ![f] = [pid |-> p, jid |-> tab.nextjid, state |-> st]]
      BY <1>0, <2>5, <2>7, AddjobFills
    <3>2. \A s \in Slots : tab'.jobs[s].pid = IF s = f THEN p ELSE tab.jobs[s].pid
      BY <1>0, <3>1 DEF Table
    <3>3. \A q \in Pids : Listed(q)' <=> (q = p \/ Listed(q))
      BY <2>3, <3>1, <3>2, NoPidAssumption DEF Listed
    <3>4. ASSUME NEW q \in Pids PROVE Matches(q)'
      <4>1. Matches(q)
        BY <1>1
      <4>2. \A s, t \in Slots : tab'.jobs[s].pid = q /\ tab'.jobs[t].pid = q => s = t
        BY <2>3, <3>2, <4>1 DEF Matches, Listed
      <4>. QED  BY <2>1, <2>2, <2>3, <2>4, <2>5, <2>7, <3>3, <4>1, <4>2 DEF Matches, p
    <3>. QED  BY <1>2, <2>1, <2>2, <3>4 DEF Reaping, Forked
  <2>. QED  BY <2>6, <2>7
<1>7. ASSUME NEW p \in Pids, SigchldWaitpid(p)
      PROVE  Reaping' /\ Forked' /\ TableMatchesChildren'
  <2>1. handler'["CHLD"].pc = "deletejob" /\ handler'["CHLD"].pid = p
    BY <1>0, <1>7 DEF SigchldWaitpid, Frame
  <2>2. main'.pc # "addjob" /\ main.pc # "addjob" /\ handler["CHLD"].pc = "waitpid"
    BY <1>3, <1>7 DEF SigchldWaitpid, HandlerAt
  <2>3. Children' = Children \ {p} /\ proc'[p] = "none"
    BY <1>0, <1>7 DEF SigchldWaitpid, Children
  <2>4. tab' = tab /\ unlisted' = unlisted /\ (Alive' <=> Alive)
    BY <1>7 DEF SigchldWaitpid, Alive
  <2>5. \A q : Listed(q)' <=> Listed(q)
    BY <2>4 DEF Listed
  <2>6. ASSUME NEW q \in Pids PROVE Matches(q)'
    <3>1. Matches(q)
      BY <1>1
    <3>. QED  BY <2>1, <2>2, <2>3, <2>4, <2>5, <3>1 DEF Matches
  <2>. QED  BY <1>2, <2>1, <2>2, <2>3, <2>6 DEF Reaping, Forked
<1>8. CASE SigchldDeletejob
  <2>. DEFINE p == handler["CHLD"].pid
  <2>1. handler["CHLD"].pc = "deletejob" /\ p \in Pids /\ p \notin Children
    BY <1>8 DEF SigchldDeletejob, HandlerAt, Reaping, Children
  <2>2. handler'["CHLD"].pc = "idle"
    BY <1>0, <1>8 DEF SigchldDeletejob, Return, NoFrame
  <2>3. main'.pc # "addjob" /\ main.pc # "addjob"
    BY <1>3, <1>8 DEF SigchldDeletejob, HandlerAt
  <2>4. Children' = Children /\ unlisted' = unlisted /\ (Alive' <=> Alive)
    BY <1>8 DEF SigchldDeletejob, Children, Alive
  <2>5. tab' = deletejob(tab, p)
    BY <1>8 DEF SigchldDeletejob
  <2>6. \A s, t \in Slots : tab.jobs[s].pid = p /\ tab.jobs[t].pid = p => s = t
    BY <1>1, <2>1 DEF Matches
  <2>. HIDE DEF p
  <2>7. \A s \in Slots : /\ tab'.jobs[s].pid # p
                         /\ \/ tab'.jobs[s].pid = tab.jobs[s].pid
                            \/ tab.jobs[s].pid = p /\ tab'.jobs[s].pid = NoPid
    BY <1>0, <2>1, <2>5, <2>6, DeletejobUnlists DEF Cleared
  <2>8. \A q \in Pids : Listed(q)' <=> q # p /\ Listed(q)
    BY <2>7, NoPidAssumption DEF Listed
  <2>9. ASSUME NEW q \in Pids PROVE Matches(q)'
    <3>1. Matches(q)
      BY <1>1
    <3>2. \A s, t \in Slots : tab'.jobs[s].pid = q /\ tab'.jobs[t].pid = q => s = t
      BY <2>7, <3>1, NoPidAssumption DEF Matches
    <3>. QED  BY <2>1, <2>2, <2>3, <2>4, <2>8, <3>1, <3>2 DEF Matches, p
  <2>. QED  BY <1>2, <2>2, <2>3, <2>9 DEF Reaping, Forked
<1>. QED  BY <1>0, <1>5, <1>6, <1>7, <1>8, StepKinds, BookkeepingEnds, BookkeepingQuiet

(* With no child and an empty list there is nothing to keep. *)
LEMMA BookkeepingInit == Init => Bookkeeping
<1>. SUFFICES ASSUME Init PROVE Bookkeeping
  OBVIOUS
<1>1. IInv
  BY InitIInv
<1>2. nest = <<>> /\ \A sig \in Signals : handler[sig].pc = "idle"
  BY DEF Init, NoFrame
<1>3. Nesting
  BY <1>2 DEF Nesting, Runs
<1>4. Masking /\ Forked /\ Children = {}
  BY DEF Init, AtPrompt, Masking, Evaluating, Forked, Children
<1>5. \A p \in Pids : ~Listed(p)
  BY NoPidAssumption DEF Init, initjobs, Cleared, Listed
<1>6. Reaping /\ TableMatchesChildren
  BY <1>2, <1>4, <1>5 DEF Reaping, TableMatchesChildren, Signals, Listed
<1>. QED  BY <1>1, <1>3, <1>4, <1>6 DEF Bookkeeping

(* The bookkeeping is inductive together with the owner of the foreground. *)
LEMMA BookkeepingInductive == Spec => []Bookkeeping
<1>1. Bookkeeping /\ [Next]_vars => Bookkeeping'
  <2>. SUFFICES ASSUME Bookkeeping, [Next]_vars PROVE Bookkeeping'
    OBVIOUS
  <2>1. IInv'
    BY TypeStep, HeldStep, FgStep DEF Bookkeeping, IInv
  <2>2. Nesting' /\ Masking'
    BY NestingStep, MaskingStep DEF Bookkeeping, IInv
  <2>. QED  BY <2>1, <2>2, BookkeepingStep DEF Bookkeeping
<1>. QED  BY BookkeepingInit, <1>1, PTL DEF Spec

(* A child has exactly one entry from addjob until it is reaped, unless the list
   had no room, and a process that is gone has none after deletejob: signals
   blocked around fork and addjob keep the handler from coming in between. *)
THEOREM ListMatchesChildren == Spec => []TableMatchesChildren
<1>1. Bookkeeping => TableMatchesChildren
  BY DEF Bookkeeping
<1>. QED  BY BookkeepingInductive, <1>1, PTL

(* addjob never overwrites an entry, and deletejob clears only that of the child
   waitpid has just reaped. *)
THEOREM ReapedLeave == Spec => OnlyReapedLeave
<1>. DEFINE Leaves == \A s \in Slots :
                        LET old == tab.jobs[s].pid
                        IN  old # NoPid /\ tab'.jobs[s].pid # old =>
                                tab'.jobs[s] = Cleared /\ (proc[old] = "none" \/ ~Alive')
<1>1. Bookkeeping /\ [Next]_vars => [Leaves]_vars
  <2>. SUFFICES ASSUME Bookkeeping, [Next]_vars PROVE Leaves
    OBVIOUS
  <2>0. TypeOK /\ tab \in Table
    BY DEF Bookkeeping, IInv, TypeOK
  <2>1. CASE Quiet
    BY <2>1 DEF Quiet
  <2>2. CASE \E pc \in Dead : End(pc)
    BY <2>2 DEF End, initjobs, Alive, AtPrompt
  <2>3. CASE \E p \in Pids : EvalFork(p) \/ SigchldWaitpid(p)
    BY <2>3 DEF EvalFork, SigchldWaitpid
  <2>4. CASE EvalAddjob
    <3>1. tab' = addjob(tab, main.pid, IF main.bg THEN "BG" ELSE "FG")
      BY <2>4 DEF EvalAddjob
    <3>2. CASE tab' = tab
      BY <3>2
    <3>3. CASE tab' # tab
      <4>. DEFINE new == [pid |-> main.pid, jid |-> tab.nextjid,
                          state |-> IF main.bg THEN "BG" ELSE "FG"]
      <4>1. PICK f \in Slots : tab.jobs[f].pid = NoPid /\ tab'.jobs = [tab.jobs EXCEPT ![f] = new]
        BY <2>0, <3>1, <3>3, AddjobFills
      <4>. HIDE DEF new
      <4>. QED  BY <2>0, <4>1 DEF Table
    <3>. QED  BY <3>2, <3>3
  <2>5. CASE SigchldDeletejob
    <3>. DEFINE p == handler["CHLD"].pid
    <3>1. p \in Pids /\ proc[p] = "none"
      BY <2>5 DEF Bookkeeping, Reaping, SigchldDeletejob, HandlerAt
    <3>2. tab' = deletejob(tab, p)
      BY <2>5 DEF SigchldDeletejob
    <3>3. \A s, t \in Slots : tab.jobs[s].pid = p /\ tab.jobs[t].pid = p => s = t
      BY <3>1 DEF Bookkeeping, TableMatchesChildren
    <3>. HIDE DEF p
    <3>4. \A s \in Slots : \/ tab'.jobs[s] = tab.jobs[s]
                           \/ tab.jobs[s].pid = p /\ tab'.jobs[s] = Cleared
      BY <2>0, <3>1, <3>2, <3>3, DeletejobUnlists
    <3>. QED  BY <3>1, <3>4
  <2>. QED  BY <2>0, <2>1, <2>2, <2>3, <2>4, <2>5, StepKinds
<1>. QED  BY BookkeepingInductive, <1>1, PTL DEF Spec, OnlyReapedLeave

(* The handlers of the keyboard's signals hold a pid, or a slot, when they send
   the signal on. *)
Aimed ==
    /\ handler["INT"].pc = "kill" => handler["INT"].pid # NoPid
    /\ handler["TSTP"].pc = "kill" => handler["TSTP"].slot \in Slots

(* A step that leaves the frames of these handlers, and puts no entry with a pid
   into another state than ST, leaves their aim. *)
LEMMA AimKept ==
    ASSUME Aimed, ForwardsToForeground,
           \A sig \in {"INT", "TSTP"} :
               handler'[sig].pc = "kill" => handler'[sig] = handler[sig],
           \A s \in Slots : \/ tab'.jobs[s] = tab.jobs[s]
                            \/ tab'.jobs[s] = Cleared
                            \/ /\ tab'.jobs[s].pid = tab.jobs[s].pid
                               /\ tab'.jobs[s].state = "ST"
    PROVE  Aimed' /\ ForwardsToForeground'
  BY DEF Aimed, ForwardsToForeground, Cleared

(* Only eval, fg and bg put another state in an entry, and they run only when no
   handler does; deletejob and the other handlers leave what was aimed at. *)
LEMMA ForwardStep ==
    ASSUME Bookkeeping, Aimed, ForwardsToForeground, [Next]_vars
    PROVE  Aimed' /\ ForwardsToForeground'
<1>0. /\ TypeOK /\ tab \in Table /\ handler \in [Signals -> Frame]
      /\ "CHLD" \in Signals /\ "INT" \in Signals /\ "TSTP" \in Signals
  BY DEF Bookkeeping, IInv, TypeOK, Signals
<1>. DEFINE Same == \A s \in Slots : tab'.jobs[s] = tab.jobs[s]
            Kept(sig) == handler'[sig].pc = "kill" => handler'[sig] = handler[sig]
            Goal == Aimed' /\ ForwardsToForeground'
<1>1. ASSUME tab' = tab, Kept("INT"), Kept("TSTP") PROVE Goal
  BY <1>1, AimKept
<1>2. ASSUME handler'["INT"].pc = "idle", handler'["TSTP"].pc = "idle" PROVE Goal
  BY <1>2 DEF Aimed, ForwardsToForeground
<1>3. ASSUME NEW pc \in Dead, End(pc) PROVE Goal
  BY <1>0, <1>2, <1>3 DEF End, NoFrame
<1>4. ASSUME nest = <<>>, handler' = handler PROVE Goal
  <2>1. \A sig \in Signals : handler[sig].pc = "idle"
    BY <1>0, <1>4 DEF Bookkeeping, Nesting, Runs
  <2>. QED  BY <1>0, <1>2, <1>4, <2>1
<1>5. CASE UNCHANGED vars
  BY <1>1, <1>5 DEF vars
<1>6. CASE Command
  BY <1>3, <1>4, <1>6 DEF Command, EvalBlock, DoBgfg, Quit, MainAt, Dead
<1>7. CASE MainStep
  BY <1>3, <1>4, <1>7
  DEF MainStep, EvalFork, EvalForkFails, EvalAddjob, EvalUnblock, WaitfgTest,
      WaitfgSuspend, BgCheck, BgWrite, FgCheck, FgWrite, FgRead, MainAt, Dead
<1>8. CASE Delivery
  <2>. PICK sig \in Signals : Deliver(sig)
    BY <1>8 DEF Delivery
  <2>1. Kept("INT") /\ Kept("TSTP")
    BY <1>0 DEF Deliver, Entry, Frame
  <2>. QED  BY <1>1, <2>1 DEF Deliver
<1>9. CASE Environment
  BY <1>1, <1>3, <1>9 DEF Environment, Keystroke, ChildChanges, SigquitHandler, Dead
<1>10. CASE Ended
  BY <1>5, <1>10 DEF Ended
<1>11. ASSUME NEW sig \in Signals, Return(sig) PROVE Kept("INT") /\ Kept("TSTP")
  BY <1>0, <1>11 DEF Return, NoFrame
<1>12. CASE HandlerStep
  <2>1. ASSUME NEW p \in Pids, SigchldWaitpid(p) PROVE Goal
    <3>1. Kept("INT") /\ Kept("TSTP")
      BY <1>0, <2>1 DEF SigchldWaitpid
    <3>. QED  BY <1>1, <2>1, <3>1 DEF SigchldWaitpid
  <2>2. CASE SigchldDeletejob
    <3>1. \A s \in Slots : tab'.jobs[s] = tab.jobs[s] \/ tab'.jobs[s] = Cleared
      <4>1. \/ tab'.jobs = tab.jobs
            \/ \E t \in Slots : tab'.jobs = [tab.jobs EXCEPT ![t] = Cleared]
        BY <1>0, <2>2, DeletejobClearsSlot DEF SigchldDeletejob
      <4>. QED  BY <1>0, <4>1 DEF Table
    <3>. QED  BY <1>0, <1>11, <2>2, <3>1, AimKept DEF SigchldDeletejob
  <2>3. CASE SigintFgpid
    <3>1. CASE fgpid(tab.jobs) = NoPid
      BY <1>0, <1>1, <1>11, <2>3, <3>1 DEF SigintFgpid
    <3>2. CASE fgpid(tab.jobs) # NoPid
      <4>. DEFINE f == First(FgSlots(tab.jobs))
      <4>1. /\ f \in Slots /\ tab.jobs[f].state = "FG"
            /\ fgpid(tab.jobs) = tab.jobs[f].pid
        BY <3>2, FirstIsFound DEF fgpid, FgSlots
      <4>2. tab.jobs[f].pid \in Pids
        BY <1>0, <3>2, <4>1 DEF Table, Job
      <4>3. \A s \in Slots : tab.jobs[s].pid = tab.jobs[f].pid => s = f
        BY <4>1, <4>2 DEF Bookkeeping, TableMatchesChildren
      <4>4. /\ handler'["INT"].pid = tab.jobs[f].pid
            /\ Kept("TSTP")
        BY <1>0, <2>3, <3>2, <4>1 DEF SigintFgpid, Frame
      <4>5. tab' = tab
        BY <2>3 DEF SigintFgpid
      <4>. HIDE DEF f
      <4>. QED  BY <3>2, <4>1, <4>3, <4>4, <4>5 DEF Aimed, ForwardsToForeground
    <3>. QED  BY <3>1, <3>2
  <2>4. CASE SigintKill
    BY <1>0, <1>1, <1>11, <2>4 DEF SigintKill
  <2>5. CASE SigtstpFgpid
    <3>1. CASE fgpid(tab.jobs) = NoPid
      BY <1>0, <1>1, <1>11, <2>5, <3>1 DEF SigtstpFgpid
    <3>2. CASE fgpid(tab.jobs) # NoPid
      <4>1. Kept("INT") /\ handler'["TSTP"].pc = "getjobpid"
        BY <1>0, <2>5, <3>2 DEF SigtstpFgpid, Frame
      <4>. QED  BY <1>1, <2>5, <4>1 DEF SigtstpFgpid
    <3>. QED  BY <3>1, <3>2
  <2>6. CASE SigtstpGetjobpid
    <3>1. Kept("INT") /\ handler'["TSTP"].pc = "setST"
      BY <1>0, <2>6 DEF SigtstpGetjobpid, Frame
    <3>. QED  BY <1>1, <2>6, <3>1 DEF SigtstpGetjobpid
  <2>7. CASE SigtstpSetST
    <3>. DEFINE t == handler["TSTP"].slot
    <3>1. t \in Slots
      BY <1>0, <2>7 DEF SigtstpSetST, Frame
    <3>2. handler'["INT"] = handler["INT"] /\ handler'["TSTP"].slot = t
      BY <1>0, <2>7 DEF SigtstpSetST, Frame
    <3>3. tab' = [tab EXCEPT !.jobs[t].state = "ST"]
      BY <2>7 DEF SigtstpSetST
    <3>. HIDE DEF t
    <3>4. \A s \in Slots : /\ s # t => tab'.jobs[s] = tab.jobs[s]
                           /\ tab'.jobs[s].pid = tab.jobs[s].pid
      BY <1>0, <3>1, <3>3 DEF Table, Job
    <3>5. tab'.jobs[t].state = "ST"
      BY <1>0, <3>1, <3>3 DEF Table, Job
    <3>. QED  BY <3>1, <3>2, <3>4, <3>5 DEF Aimed, ForwardsToForeground
  <2>8. CASE SigtstpKill
    BY <1>0, <1>1, <1>11, <2>8 DEF SigtstpKill
  <2>. QED  BY <1>3, <1>12, <2>1, <2>2, <2>3, <2>4, <2>5, <2>6, <2>7, <2>8
            DEF HandlerStep, SigchldWaitpidFails, SigtstpNullPointer, Dead
<1>. QED  BY <1>5, <1>6, <1>7, <1>8, <1>9, <1>10, <1>12 DEF Next

(* ctrl-c and ctrl-z reach only the foreground job, or one that has just left
   the foreground, however the handlers nest between the lookup and the kill. *)
THEOREM ForwardedToForeground == Spec => []ForwardsToForeground
<1>1. Init => Aimed /\ ForwardsToForeground
  BY DEF Init, NoFrame, Signals, Aimed, ForwardsToForeground
<1>2. Bookkeeping /\ Aimed /\ ForwardsToForeground /\ [Next]_vars
         => (Aimed /\ ForwardsToForeground)'
  BY ForwardStep
<1>. QED  BY <1>1, <1>2, BookkeepingInductive, PTL DEF Spec

=============================================================================
