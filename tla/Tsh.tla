-------------------------------- MODULE Tsh --------------------------------
(***************************************************************************)
(* The shell of tsh.c: one thread, the read/eval loop, that the kernel may *)
(* interrupt between any two instructions to run a signal handler, and     *)
(* handlers that the other signals may interrupt in turn (Signal installs  *)
(* each with an empty sa_mask).  All of them share the job list.  Around   *)
(* the shell are its children, which run, stop, continue and exit when     *)
(* they like, and a user at the keyboard.                                  *)
(*                                                                         *)
(* A step is one access to the job list or one system call.  `pc' values   *)
(* name what the code is about to do.                                      *)
(***************************************************************************)
EXTENDS JobList, Sequences

CONSTANT JidBound   \* bound of the model: no job is started with a larger jid

VARIABLES
    tab,       \* [jobs, nextjid]: the two globals of the job list
    main,      \* the read/eval loop: pc and the locals it keeps between steps
    masked,    \* eval has blocked all signals
    handler,   \* the frame of each signal's handler, Idle when not running
    nest,      \* the handlers running, the innermost first
    pending,   \* signals sent to the shell and not yet delivered
    proc,      \* what the kernel knows of each child
    unlisted   \* children that addjob had no slot for (history)

vars == <<tab, main, masked, handler, nest, pending, proc, unlisted>>

Signals == {"CHLD", "INT", "TSTP"}
ProcState == {"none", "running", "stopped", "zombie"}
Waiting == {"wait", "suspend", "suspended"}          \* inside waitfg
Evaluating == {"fork", "addjob", "unblock"}          \* eval, signals blocked
Dead == {"exited", "crashed"}
MainPc == {"prompt", "bgCheck", "bgWrite", "fgCheck", "fgWrite", "fgRead"}
            \cup Evaluating \cup Waiting \cup Dead
HandlerPc == {"idle", "waitpid", "deletejob", "fgpid", "getjobpid", "setST", "kill"}

NoFrame == [pc |-> "idle", pid |-> NoPid, slot |-> NoSlot]
Entry(sig) == IF sig = "CHLD" THEN "waitpid" ELSE "fgpid"

Locals == [pc : MainPc, pid : Pids \cup {NoPid}, slot : Slots \cup {NoSlot},
           bg : BOOLEAN]
Frame == [pc : HandlerPc, pid : Pids \cup {NoPid}, slot : Slots \cup {NoSlot}]

TypeOK ==
    /\ tab \in Table
    /\ main \in Locals
    /\ masked \in BOOLEAN
    /\ handler \in [Signals -> Frame]
    /\ nest \in Seq(Signals)
    /\ pending \subseteq Signals
    /\ proc \in [Pids -> ProcState]
    /\ unlisted \subseteq Pids

Alive == main.pc \notin Dead
MainAt(pc) == nest = <<>> /\ main.pc = pc

(* Back at the prompt the locals of eval are gone. *)
AtPrompt == [pc |-> "prompt", pid |-> NoPid, slot |-> NoSlot, bg |-> FALSE]
GoTo(pc) == main' = IF pc = "prompt" THEN AtPrompt ELSE [main EXCEPT !.pc = pc]

Init ==
    /\ tab = [jobs |-> initjobs, nextjid |-> 1]
    /\ main = AtPrompt
    /\ masked = FALSE
    /\ handler = [sig \in Signals |-> NoFrame]
    /\ nest = <<>>
    /\ pending = {}
    /\ proc = [p \in Pids |-> "none"]
    /\ unlisted = {}

(* When the process ends its memory goes, and the signals pending for it. *)
End(pc) ==
    /\ main' = [AtPrompt EXCEPT !.pc = pc]
    /\ tab' = [jobs |-> initjobs, nextjid |-> 1]
    /\ masked' = FALSE
    /\ handler' = [sig \in Signals |-> NoFrame]
    /\ nest' = <<>>
    /\ pending' = {}
    /\ UNCHANGED <<proc, unlisted>>

Children == {p \in Pids : proc[p] # "none"}
Zombies == {p \in Pids : proc[p] = "zombie"}

-----------------------------------------------------------------------------
(* eval: a command that is not a builtin *)

(* mutant: the signals are not blocked around fork and addjob *)
EvalBlockNot(bg) ==
    /\ MainAt("prompt")
    /\ tab.nextjid <= JidBound
    /\ main' = [main EXCEPT !.pc = "fork", !.bg = bg]
    /\ UNCHANGED <<tab, masked, handler, nest, pending, proc, unlisted>>

EvalBlock(bg) ==
    /\ MainAt("prompt")
    /\ tab.nextjid <= JidBound
    /\ main' = [main EXCEPT !.pc = "fork", !.bg = bg]
    /\ masked' = TRUE
    /\ UNCHANGED <<tab, handler, nest, pending, proc, unlisted>>

EvalFork(p) ==
    /\ MainAt("fork")
    /\ proc[p] = "none"
    /\ main' = [main EXCEPT !.pc = "addjob", !.pid = p]
    /\ proc' = [proc EXCEPT ![p] = "running"]
    /\ unlisted' = unlisted \ {p}
    /\ UNCHANGED <<tab, masked, handler, nest, pending>>

EvalForkFails ==                                         \* unix_error: exit(1)
    /\ MainAt("fork")
    /\ End("exited")

EvalAddjob ==
    /\ MainAt("addjob")
    /\ tab' = addjob(tab, main.pid, IF main.bg THEN "BG" ELSE "FG")
    /\ unlisted' = IF tab' = tab THEN unlisted \cup {main.pid} ELSE unlisted
    /\ GoTo("unblock")
    /\ UNCHANGED <<masked, handler, nest, pending, proc>>

EvalUnblock ==
    /\ MainAt("unblock")
    /\ masked' = FALSE
    /\ GoTo(IF main.bg THEN "prompt" ELSE "wait")
    /\ UNCHANGED <<tab, handler, nest, pending, proc, unlisted>>

(* waitfg: while (fgpid(jobs) == pid) sigsuspend(&mask), the loop's test and
   the suspension being two steps; only a handler ends the suspension. *)
WaitfgTest ==
    /\ MainAt("wait")
    /\ GoTo(IF fgpid(tab.jobs) = main.pid THEN "suspend" ELSE "prompt")
    /\ UNCHANGED <<tab, masked, handler, nest, pending, proc, unlisted>>

WaitfgSuspend ==
    /\ MainAt("suspend")
    /\ GoTo("suspended")
    /\ UNCHANGED <<tab, masked, handler, nest, pending, proc, unlisted>>

-----------------------------------------------------------------------------
(* builtin_cmd: do_bgfg and quit (jobs only prints) *)

(* The slots that some %jid or pid names; a failed lookup leaves the prompt. *)
Found == {getjobpid(tab.jobs, p) : p \in Pids}
            \cup {getjobjid(tab.jobs, j) : j \in Jids(tab.jobs)}

DoBgfg(cmd, s) ==
    /\ MainAt("prompt")
    /\ s \in Found \ {NoSlot}
    /\ main' = [main EXCEPT !.pc = IF cmd = "bg" THEN "bgCheck" ELSE "fgCheck",
                            !.slot = s]
    /\ UNCHANGED <<tab, masked, handler, nest, pending, proc, unlisted>>

BgCheck ==
    /\ MainAt("bgCheck")
    /\ GoTo(IF tab.jobs[main.slot].state = "ST" THEN "bgWrite" ELSE "prompt")
    /\ UNCHANGED <<tab, masked, handler, nest, pending, proc, unlisted>>

BgWrite ==
    /\ MainAt("bgWrite")
    /\ tab' = [tab EXCEPT !.jobs[main.slot].state = "BG"]
    /\ GoTo("prompt")
    /\ UNCHANGED <<masked, handler, nest, pending, proc, unlisted>>

FgCheck ==
    /\ MainAt("fgCheck")
    /\ GoTo(IF tab.jobs[main.slot].state \in {"ST", "BG"} /\ fgpid(tab.jobs) = NoPid
            THEN "fgWrite" ELSE "prompt")
    /\ UNCHANGED <<tab, masked, handler, nest, pending, proc, unlisted>>

FgWrite ==
    /\ MainAt("fgWrite")
    /\ tab' = [tab EXCEPT !.jobs[main.slot].state = "FG"]
    /\ GoTo("fgRead")
    /\ UNCHANGED <<masked, handler, nest, pending, proc, unlisted>>

(* mutant: fg does not wait *)
FgReadNoWait ==
    /\ MainAt("fgRead")
    /\ GoTo("prompt")
    /\ UNCHANGED <<tab, masked, handler, nest, pending, proc, unlisted>>

FgRead ==
    /\ MainAt("fgRead")
    /\ main' = [main EXCEPT !.pc = "wait", !.slot = NoSlot,
                            !.pid = tab.jobs[main.slot].pid]
    /\ UNCHANGED <<tab, masked, handler, nest, pending, proc, unlisted>>

Quit ==                                              \* quit, or end of file
    /\ MainAt("prompt")
    /\ End("exited")

-----------------------------------------------------------------------------
(* Signals: delivery, and one action per step of a handler *)

(* mutant: waitfg tests once, `if' for `while' *)
DeliverEndsWaitfg(sig) ==
    /\ Alive /\ ~masked
    /\ sig \in pending /\ handler[sig].pc = "idle"
    /\ pending' = pending \ {sig}
    /\ handler' = [handler EXCEPT ![sig].pc = Entry(sig)]
    /\ nest' = <<sig>> \o nest
    /\ main' = IF main.pc = "suspended" THEN AtPrompt ELSE main
    /\ UNCHANGED <<tab, masked, proc, unlisted>>

(* The handler interrupts whatever runs, and ends main's sigsuspend. *)
Deliver(sig) ==
    /\ Alive /\ ~masked
    /\ sig \in pending /\ handler[sig].pc = "idle"
    /\ pending' = pending \ {sig}
    /\ handler' = [handler EXCEPT ![sig].pc = Entry(sig)]
    /\ nest' = <<sig>> \o nest
    /\ main' = IF main.pc = "suspended" THEN [main EXCEPT !.pc = "wait"] ELSE main
    /\ UNCHANGED <<tab, masked, proc, unlisted>>

HandlerAt(sig, pc) ==
    /\ Alive
    /\ nest # <<>> /\ Head(nest) = sig
    /\ handler[sig].pc = pc

Return(sig) ==
    /\ handler' = [handler EXCEPT ![sig] = NoFrame]
    /\ nest' = Tail(nest)

(* mutant: waitpid(-1, &status, WUNTRACED) also returns a stopped child *)
SigchldWaitpidUntraced(p) ==
    /\ HandlerAt("CHLD", "waitpid")
    /\ proc[p] \in {"zombie", "stopped"}
    /\ proc' = [proc EXCEPT ![p] = IF proc[p] = "zombie" THEN "none" ELSE "stopped"]
    /\ handler' = [handler EXCEPT !["CHLD"].pc = "deletejob", !["CHLD"].pid = p]
    /\ UNCHANGED <<tab, main, masked, nest, pending, unlisted>>

(* waitpid(-1, &status, 0) reaps one zombie.  While there are children and no
   zombie it blocks; without children it fails, and unix_error exits. *)
SigchldWaitpid(p) ==
    /\ HandlerAt("CHLD", "waitpid")
    /\ p \in Zombies
    /\ proc' = [proc EXCEPT ![p] = "none"]
    /\ handler' = [handler EXCEPT !["CHLD"].pc = "deletejob", !["CHLD"].pid = p]
    /\ UNCHANGED <<tab, main, masked, nest, pending, unlisted>>

SigchldWaitpidFails ==
    /\ HandlerAt("CHLD", "waitpid")
    /\ Children = {}
    /\ End("exited")

SigchldDeletejob ==
    /\ HandlerAt("CHLD", "deletejob")
    /\ tab' = deletejob(tab, handler["CHLD"].pid)
    /\ Return("CHLD")
    /\ UNCHANGED <<main, masked, pending, proc, unlisted>>

SigintFgpid ==
    /\ HandlerAt("INT", "fgpid")
    /\ \/ /\ fgpid(tab.jobs) = NoPid
          /\ Return("INT")
       \/ /\ fgpid(tab.jobs) # NoPid
          /\ handler' = [handler EXCEPT !["INT"].pc = "kill",
                                        !["INT"].pid = fgpid(tab.jobs)]
          /\ UNCHANGED nest
    /\ UNCHANGED <<tab, main, masked, pending, proc, unlisted>>

SigtstpFgpid ==
    /\ HandlerAt("TSTP", "fgpid")
    /\ \/ /\ fgpid(tab.jobs) = NoPid
          /\ Return("TSTP")
       \/ /\ fgpid(tab.jobs) # NoPid
          /\ handler' = [handler EXCEPT !["TSTP"].pc = "getjobpid",
                                        !["TSTP"].pid = fgpid(tab.jobs)]
          /\ UNCHANGED nest
    /\ UNCHANGED <<tab, main, masked, pending, proc, unlisted>>

SigtstpGetjobpid ==
    /\ HandlerAt("TSTP", "getjobpid")
    /\ handler' = [handler EXCEPT !["TSTP"].pc = "setST",
                     !["TSTP"].slot = getjobpid(tab.jobs, handler["TSTP"].pid)]
    /\ UNCHANGED <<tab, main, masked, nest, pending, proc, unlisted>>

(* jj->state = ST; jj is NULL if the job was deleted between the lookups *)
SigtstpSetST ==
    /\ HandlerAt("TSTP", "setST")
    /\ handler["TSTP"].slot # NoSlot
    /\ tab' = [tab EXCEPT !.jobs[handler["TSTP"].slot].state = "ST"]
    /\ handler' = [handler EXCEPT !["TSTP"].pc = "kill"]
    /\ UNCHANGED <<main, masked, nest, pending, proc, unlisted>>

SigtstpNullPointer ==
    /\ HandlerAt("TSTP", "setST")
    /\ handler["TSTP"].slot = NoSlot
    /\ End("crashed")

(* kill(pid, sig) on a running child: it takes the signal, or survives it (it
   may catch the signal, or not have called execve yet).  A stopped or ended
   process is not affected. *)
Signalled(p, to) ==
    \/ /\ p \in Pids /\ proc[p] = "running"
       /\ proc' = [proc EXCEPT ![p] = to]
       /\ pending' = pending \cup {"CHLD"}
    \/ UNCHANGED <<proc, pending>>

SigintKill ==
    /\ HandlerAt("INT", "kill")
    /\ Signalled(handler["INT"].pid, "zombie")
    /\ Return("INT")
    /\ UNCHANGED <<tab, main, masked, unlisted>>

(* kill(jj->pid, sig): jj is read again, and pid 0 is the shell's own group *)
SigtstpKill ==
    /\ HandlerAt("TSTP", "kill")
    /\ LET p == tab.jobs[handler["TSTP"].slot].pid
       IN  IF p = NoPid THEN pending' = pending \cup {"TSTP"} /\ UNCHANGED proc
                        ELSE Signalled(p, "stopped")
    /\ Return("TSTP")
    /\ UNCHANGED <<tab, main, masked, unlisted>>

SigquitHandler ==                                                   \* exit(1)
    /\ Alive /\ ~masked
    /\ End("exited")

-----------------------------------------------------------------------------
(* The environment: the user, and the children with whoever signals them.  A
   child that exits, stops or continues raises SIGCHLD (SA_NOCLDSTOP is not
   set); a SIGCHLD that is already pending is not queued a second time. *)

Keystroke(sig) ==
    /\ Alive
    /\ sig # "CHLD"
    /\ pending' = pending \cup {sig}
    /\ UNCHANGED <<tab, main, masked, handler, nest, proc, unlisted>>

ChildMoves == {<<"running", "zombie">>, <<"running", "stopped">>,
               <<"stopped", "running">>, <<"stopped", "zombie">>}

ChildChanges(p, to) ==
    /\ Alive
    /\ <<proc[p], to>> \in ChildMoves
    /\ proc' = [proc EXCEPT ![p] = to]
    /\ pending' = pending \cup {"CHLD"}
    /\ UNCHANGED <<tab, main, masked, handler, nest, unlisted>>

-----------------------------------------------------------------------------
Command == \/ \E bg \in BOOLEAN : EvalBlock(bg)
           \/ \E cmd \in {"bg", "fg"}, s \in Slots : DoBgfg(cmd, s)
           \/ Quit

MainStep == \/ \E p \in Pids : EvalFork(p)
            \/ EvalForkFails
            \/ EvalAddjob \/ EvalUnblock
            \/ WaitfgTest \/ WaitfgSuspend
            \/ BgCheck \/ BgWrite
            \/ FgCheck \/ FgWrite \/ FgRead

HandlerStep == \/ \E p \in Pids : SigchldWaitpid(p)
               \/ SigchldWaitpidFails \/ SigchldDeletejob
               \/ SigintFgpid \/ SigintKill
               \/ SigtstpFgpid \/ SigtstpGetjobpid \/ SigtstpSetST
               \/ SigtstpNullPointer \/ SigtstpKill

Delivery == \E sig \in Signals : Deliver(sig)

Environment == \/ \E sig \in Signals : Keystroke(sig)
               \/ \E p \in Pids, to \in ProcState : ChildChanges(p, to)
               \/ SigquitHandler

Ended == ~Alive /\ UNCHANGED vars

Next == Command \/ MainStep \/ HandlerStep \/ Delivery \/ Environment \/ Ended

Spec == Init /\ [][Next]_vars

(* The processor goes on executing the shell and the kernel delivers what is
   pending; nobody is obliged to type, and no child to exit. *)
FairSpec == Spec /\ WF_vars(MainStep) /\ WF_vars(HandlerStep) /\ WF_vars(Delivery)

-----------------------------------------------------------------------------
(* "At most 1 job can be in the FG state" (tsh.c:35), whatever handler runs
   between the steps of eval, fg and waitfg. *)
AtMostOneFg == \A s, t \in FgSlots(tab.jobs) : s = t

(* The prompt comes back only when no job is in the foreground: a ctrl-c typed
   at the prompt finds no job to kill, and fg finds fgpid(jobs) <= 0. *)
PromptHasNoFg == main.pc = "prompt" => FgSlots(tab.jobs) = {}

Listed(p) == \E s \in Slots : tab.jobs[s].pid = p

(* The job list against the kernel's table: a child has one entry from the end
   of eval's critical section until it is reaped (unless addjob had no slot),
   and a process that is gone has none once its handler is done. *)
TableMatchesChildren ==
    \A p \in Pids :
        /\ \A s, t \in Slots : tab.jobs[s].pid = p /\ tab.jobs[t].pid = p => s = t
        /\ Alive /\ p \in Children =>
                             \/ Listed(p)
                             \/ p \in unlisted
                             \/ (main.pc = "addjob" /\ main.pid = p)
        /\ Listed(p) => \/ p \in Children
                        \/ (handler["CHLD"].pc = "deletejob" /\ handler["CHLD"].pid = p)

(* ctrl-c and ctrl-z are forwarded to the foreground job or one that has just
   left the foreground, never to a background job, though handlers nest between
   the lookup of the pid and the kill. *)
ForwardsToForeground ==
    /\ handler["INT"].pc = "kill" =>
           \A s \in Slots : tab.jobs[s].pid = handler["INT"].pid =>
               tab.jobs[s].state \in {"FG", "ST"}
    /\ handler["TSTP"].pc = "kill" =>
           tab.jobs[handler["TSTP"].slot].state \in {"ST", "UNDEF"}

(* An entry is removed, as a whole, only after its process was reaped, and is
   never overwritten by another job's. *)
OnlyReapedLeave ==
    [][\A s \in Slots :
          LET old == tab.jobs[s].pid
          IN  old # NoPid /\ tab'.jobs[s].pid # old =>
                  tab'.jobs[s] = Cleared /\ (proc[old] = "none" \/ ~Alive')]_vars

StopsTyping == <>[][~\E sig \in Signals : Keystroke(sig)]_vars

(* The entry of a reaped child does go, however the keyboard's handlers cut in
   between waitpid and deletejob, provided the user stops typing some day. *)
ReapedIsDeleted ==
    StopsTyping
        => \A p \in Pids : (handler["CHLD"].pc = "deletejob" /\ handler["CHLD"].pid = p)
                               ~> (~Listed(p) \/ ~Alive)

-----------------------------------------------------------------------------
(* What the sources say of the shell and the code does not do. *)

(* "The handler reaps all available zombie children, but doesn't wait for any
   other currently running children to terminate" (tsh.c:382-384). *)
NoWaitForRunningChildren ==
    ~(HandlerAt("CHLD", "waitpid") /\ Zombies = {} /\ Children # {})

(* "waitfg - Block until process pid is no longer the foreground process"
   (tsh.c:364): once the process is reaped and its entry gone, waitfg ends. *)
WaitfgReturns ==
    StopsTyping
        => \A p \in Pids :
               (main.pc \in Waiting /\ main.pid = p /\ proc[p] = "none" /\ ~Listed(p))
                   ~> main.pc \notin Waiting

(* "Job state transitions and enabling actions" (tsh.c:28-36): an entry that
   stays with its job moves only along the four arrows of the diagram. *)
OnlyDiagramTransitions ==
    [][\A s \in Slots :
          LET old == tab.jobs[s]
              new == tab'.jobs[s]
          IN  old.pid = new.pid /\ old.state # new.state =>
                  <<old.state, new.state>> \in {<<"FG", "ST">>, <<"ST", "FG">>,
                                               <<"ST", "BG">>, <<"BG", "FG">>}]_vars

=============================================================================
