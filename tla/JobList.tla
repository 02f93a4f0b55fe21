------------------------------ MODULE JobList ------------------------------
(***************************************************************************)
(* The job list of tsh.c: the record of a job and the helper routines that *)
(* look up, add and remove entries (tsh.c, lines 45-51 and 443-561).  Each *)
(* routine is one scan of the array; here it is one operator on the table  *)
(* `jobs', a function from slots to records.                               *)
(***************************************************************************)
EXTENDS Integers, FiniteSets

CONSTANTS
    MAXJOBS,   \* the number of slots of the table
    Pids,      \* the process IDs a child may get
    NoPid      \* the pid 0 of a free slot and of a lookup that found nothing

ASSUME MAXJOBSAssumption == MAXJOBS \in Nat \ {0}
ASSUME NoPidAssumption == NoPid \notin Pids

Slots == 1 .. MAXJOBS
NoSlot == 0                      \* the NULL a lookup returns
JobState == {"UNDEF", "FG", "BG", "ST"}
Job == [pid : Pids \cup {NoPid}, jid : Nat, state : JobState]
Table == [jobs : [Slots -> Job], nextjid : Nat]              \* the two globals

Cleared == [pid |-> NoPid, jid |-> 0, state |-> "UNDEF"]      \* clearjob
initjobs == [s \in Slots |-> Cleared]

(* The slot a scan from the first entry on stops at; NoSlot if at none. *)
First(S) == CHOOSE s \in S : \A t \in S : s <= t
ScanFor(S) == IF S = {} THEN NoSlot ELSE First(S)

Jids(jobs) == {jobs[s].jid : s \in Slots} \cup {0}
maxjid(jobs) == CHOOSE m \in Jids(jobs) : \A j \in Jids(jobs) : j <= m

FgSlots(jobs) == {s \in Slots : jobs[s].state = "FG"}

(* mutants of fgpid: the index for the pid; a job that is merely not stopped *)
fgpidIndex(jobs) == IF FgSlots(jobs) = {} THEN NoPid ELSE First(FgSlots(jobs))
fgpidActive(jobs) ==
    LET active == {s \in Slots : jobs[s].state \in {"FG", "BG"}}
    IN  IF active = {} THEN NoPid ELSE jobs[First(active)].pid
fgpid(jobs) == IF FgSlots(jobs) = {} THEN NoPid ELSE jobs[First(FgSlots(jobs))].pid

(* pid is a process ID, or NoPid for the values below 1, which match nothing *)
getjobpid(jobs, pid) ==
    IF pid = NoPid THEN NoSlot ELSE ScanFor({s \in Slots : jobs[s].pid = pid})
getjobjid(jobs, jid) ==
    IF jid < 1 THEN NoSlot ELSE ScanFor({s \in Slots : jobs[s].jid = jid})

FreeSlots(jobs) == {s \in Slots : jobs[s].pid = NoPid}

(***************************************************************************)
(* addjob fills the first free slot and advances nextjid, which wraps when *)
(* it passes MAXJOBS; with no free slot it returns 0 and changes nothing.  *)
(* deletejob clears the slot of pid and restarts nextjid after the largest *)
(* job ID left.  Both work on the pair of globals, `jobs' and `nextjid'.   *)
(***************************************************************************)
addjob(tab, pid, state) ==
    IF FreeSlots(tab.jobs) = {} THEN tab
    ELSE [jobs    |-> [tab.jobs EXCEPT ![First(FreeSlots(tab.jobs))] =
                          [pid |-> pid, jid |-> tab.nextjid, state |-> state]],
          nextjid |-> IF tab.nextjid + 1 > MAXJOBS THEN 1 ELSE tab.nextjid + 1]

(* mutant: the first entry is taken for "not found" *)
deletejobNotFirst(tab, pid) ==
    LET s    == getjobpid(tab.jobs, pid)
        left == [tab.jobs EXCEPT ![s] = Cleared]
    IN  IF s <= 1 THEN tab
        ELSE [jobs |-> left, nextjid |-> maxjid(left) + 1]

deletejob(tab, pid) ==
    LET s    == getjobpid(tab.jobs, pid)
        left == [tab.jobs EXCEPT ![s] = Cleared]
    IN  IF s = NoSlot THEN tab
        ELSE [jobs |-> left, nextjid |-> maxjid(left) + 1]

=============================================================================
