----------------------------- MODULE Supervisor -----------------------------
(***************************************************************************)
(* tino's supervision of its command: supervise_child and everything it    *)
(* calls in src/platform/unix/mod.rs, with no foreground terminal.         *)
(*                                                                         *)
(* The supervisor is one thread.  pc names the system call it makes next:  *)
(*   main loop   poll read reap forward query direct check                 *)
(*   cleanup     begin termGroup cread cforward creap cexists cwait cpoll  *)
(*               killGroup                                                 *)
(*   failure     fGroup fMain fWait gStart gWait gKill gSleep              *)
(*   returned    done (Ok), failed (Err)                                   *)
(* Between any two calls the kernel takes steps of its own.                *)
(*                                                                         *)
(* A definition named Mut... is the next one with a regression in it; none *)
(* is part of the specification, each shows that a property notices.       *)
(***************************************************************************)
EXTENDS Processes

CONSTANTS
    ExpectZero,    \* --remap-exit: the exit codes reported as 0
    Grace,         \* --grace-ms, in clock units
    InstantMax,    \* the largest time an Instant can hold
    Batch,         \* SIGNAL_BATCH_LIMIT
    Faults,        \* calls that may fail with an unexpected error:
                   \*   poll, signalfd (its reads), waitpid, getpgid,
                   \*   exists (kill with signal 0), kill, and waitfailed
                   \*   (the waits of a failed supervision's cleanup)
    Horizon        \* bound: the clock passes it only towards a deadline

ASSUME SupervisorAssumption ==
    /\ ExpectZero \subseteq 0..255
    /\ Grace \in Nat /\ InstantMax \in Nat /\ Horizon \in Nat
    /\ Batch \in Nat \ {0}
    /\ Faults \subseteq {"poll", "signalfd", "waitpid", "getpgid", "exists",
                       "kill", "waitfailed"}

VARIABLES
    pc,
    budget,        \* signals this batch may still read
    sig,           \* the signal being forwarded
    deadline,      \* the deadline the current phase works against
    sigkillSent,
    mainExit,      \* Main's code once tino reaped it, NotExited before
    interruptible, \* argument of wait_for_cleanup
    terminate,     \* local of wait_for_cleanup
    killed,        \* local of cleanup_failed_process_group
    result,        \* what supervise_child returned
    firstTerm,     \* history: when the first termination signal was
                   \* forwarded to Main
    terms,         \* history: termination signals read, counted to 2
    exitSeen       \* history: when the main loop ended

history == <<firstTerm, terms, exitSeen>>
locals == <<budget, sig, deadline, sigkillSent, mainExit, interruptible,
            terminate, killed, result>>
supVars == <<pc, locals, history>>
vars == <<kernelVars, supVars>>

NotExited == -1
Never     == [kind |-> "Never", at |-> 0]
Unset     == [kind |-> "None", at |-> 0]
At(t)     == [kind |-> "At", at |-> t]

LoopPC    == {"poll", "read", "reap", "forward", "query", "direct", "check"}
CleanupPC == {"begin", "termGroup", "cread", "cforward", "creap", "cexists",
              "cwait", "cpoll", "killGroup"}
FailurePC == {"fGroup", "fMain", "fWait", "gStart", "gWait", "gKill", "gSleep"}

FlagsOK ==
    /\ sigkillSent \in BOOLEAN /\ interruptible \in BOOLEAN
    /\ terminate \in BOOLEAN /\ killed \in BOOLEAN

TypeOK ==
    /\ KernelTypeOK
    /\ pc \in LoopPC \cup CleanupPC \cup FailurePC \cup {"done", "failed"}
    /\ budget \in 0..Batch
    /\ sig \in Forwarded \cup {"KILL"}
    /\ deadline \in [kind : {"None", "At", "Never"}, at : Nat]
    /\ FlagsOK
    /\ mainExit \in Int /\ result \in Int
    /\ firstTerm \in {-1} \cup Nat
    /\ terms \in 0..2
    /\ exitSeen \in Nat

Init ==
    /\ KernelInit
    /\ pc = "poll"
    /\ budget = 0
    /\ sig = "USR"
    /\ deadline = Unset
    /\ sigkillSent = FALSE
    /\ mainExit = NotExited
    /\ interruptible = FALSE
    /\ terminate = FALSE
    /\ killed = FALSE
    /\ result = NotExited
    /\ firstTerm = -1
    /\ terms = 0
    /\ exitSeen = 0

----------------------------------------------------------------------------
(* Deadlines, exit codes.                                                  *)

After(t) == IF t + Grace > InstantMax THEN Never ELSE At(t + Grace)

MutExpired(d) == d.kind = "At" /\ now + 1 >= d.at

Expired(d) == d.kind = "At" /\ now >= d.at

(* A second termination signal ends the grace period at once. *)
NextDeadline(d) == IF d.kind = "None" THEN After(now) ELSE At(now)

MutCodeOf(s) == s.n

CodeOf(s) == IF s.how = "signaled" THEN 128 + s.n ELSE s.n

FinalExit(c) == IF c \in 0..255 /\ c \in ExpectZero THEN 0 ELSE c

Running == mainExit = NotExited

----------------------------------------------------------------------------
(* Control.                                                                *)

Goto(label) == pc' = label

MutFail == Goto(IF UsePgroup THEN "fGroup" ELSE "fMain")

MutFailQuick == Goto("failed")

(* supervise_child on an error: kill and reap Main unless it was reaped,   *)
(* then its group.                                                         *)
Fail ==
    Goto(IF ~Running THEN "gStart" ELSE IF UsePgroup THEN "fGroup" ELSE "fMain")

(* Every way the fault of a call ends the supervision. *)
Fault(call) ==
    /\ call \in Faults
    /\ Fail
    /\ UNCHANGED <<kernelVars, locals, history>>

(* The end of one signal of the main loop's batch. *)
EndSignal(d) ==
    Goto(IF ~sigkillSent /\ Expired(d) THEN "check" ELSE "read")

(* send_signal: one that cannot be sent is only logged. *)
Send(S, k) == Deliver(S, k) \/ ("kill" \in Faults /\ UNCHANGED state)

Dequeue(k) ==
    /\ budget > 0
    /\ k \in pending
    /\ pending' = pending \ {k}
    /\ budget' = budget - 1
    /\ UNCHANGED <<state, parent, group, mainStatus, arrivals, now>>

BatchOver == budget = 0 \/ pending = {}

----------------------------------------------------------------------------
(* supervise_child_inner: the main loop.                                   *)

(* poll() returns with a readable signalfd, or at the deadline. *)
Poll ==
    /\ pc = "poll"
    /\ \/ /\ pending # {}
          /\ Goto("read")
          /\ budget' = Batch
       \/ /\ pending = {}
          /\ ~sigkillSent /\ Running /\ Expired(deadline)
          /\ Goto("check")
          /\ UNCHANGED budget
    /\ UNCHANGED <<kernelVars, sig, deadline, sigkillSent, mainExit,
                   interruptible, terminate, killed, result, history>>

MutReadOwn(label) ==
    /\ pc = label
    /\ "OWNPIPE" \in pending
    /\ pending' = pending \ {"OWNPIPE"}
    /\ UNCHANGED <<state, parent, group, mainStatus, arrivals, now, pc, locals,
                   history>>

(* A failed write of tino's own raised this SIGPIPE: skip it. *)
ReadOwn(label) ==
    /\ pc = label
    /\ Dequeue("OWNPIPE")
    /\ UNCHANGED <<pc, sig, deadline, sigkillSent, mainExit, interruptible,
                   terminate, killed, result, history>>

ReadChld ==
    /\ pc = "read"
    /\ Dequeue("CHLD")
    /\ Goto("reap")
    /\ UNCHANGED <<sig, deadline, sigkillSent, mainExit, interruptible,
                   terminate, killed, result, history>>

ReadIgnored ==
    /\ pc = "read"
    /\ Dequeue("TTOU")
    /\ EndSignal(deadline)
    /\ UNCHANGED <<sig, deadline, sigkillSent, mainExit, interruptible,
                   terminate, killed, result, history>>

ReadForwardable ==
    /\ pc = "read"
    /\ \E k \in Forwarded : Dequeue(k) /\ sig' = k
    /\ Goto("forward")
    /\ UNCHANGED <<deadline, sigkillSent, mainExit, interruptible,
                   terminate, killed, result, history>>

ReadDone ==
    /\ pc = "read"
    /\ BatchOver
    /\ Goto("check")
    /\ UNCHANGED <<kernelVars, locals, history>>

MutReap ==
    /\ pc = "reap"
    /\ \E p \in Reapable(Procs) :
          /\ Collect(p)
          /\ mainExit' = IF p = Main THEN CodeOf(mainStatus) ELSE mainExit
          /\ Goto(IF p = Main THEN "check" ELSE "read")
    /\ UNCHANGED <<parent, group, mainStatus, pending, arrivals, now,
                   budget, sig, deadline, sigkillSent, interruptible,
                   terminate, killed, result, history>>

(* handle_sigchld: collect every dead child, of ours or not. *)
Reap ==
    /\ pc = "reap"
    /\ \E p \in Reapable(Procs) :
          /\ Collect(p)
          /\ mainExit' = IF p = Main THEN CodeOf(mainStatus) ELSE mainExit
    /\ UNCHANGED <<parent, group, mainStatus, pending, arrivals, now, pc,
                   budget, sig, deadline, sigkillSent, interruptible,
                   terminate, killed, result, history>>

ReapDone ==
    /\ pc = "reap"
    /\ Reapable(Procs) = {}
    /\ IF ~Running THEN Goto("check")
       ELSE IF Waitable(Procs) = {} THEN Fail ELSE EndSignal(deadline)
    /\ UNCHANGED <<kernelVars, locals, history>>

(* What follows the calls of forward_to_main_child. *)
Forwarding ==
    IF sig = "KILL"
    THEN /\ sigkillSent' = TRUE
         /\ Goto("poll")
         /\ UNCHANGED <<deadline, firstTerm, terms>>
    ELSE /\ UNCHANGED sigkillSent
         /\ IF sig = "TERM" /\ ~sigkillSent
            THEN /\ deadline' = NextDeadline(deadline)
                 /\ firstTerm' = IF firstTerm = -1 THEN now ELSE firstTerm
            ELSE UNCHANGED <<deadline, firstTerm>>
         /\ terms' = IF sig = "TERM" /\ terms < 2 THEN terms + 1 ELSE terms
         /\ EndSignal(deadline')

(* forward_to_main_child: to the group or to the process ... *)
Forward ==
    /\ pc = "forward"
    /\ Send(IF UsePgroup THEN group ELSE {Main}, sig)
    /\ IF UsePgroup
       THEN Goto("query") /\ UNCHANGED <<deadline, sigkillSent, firstTerm, terms>>
       ELSE Forwarding
    /\ UNCHANGED <<parent, group, mainStatus, pending, arrivals, now, budget,
                   sig, mainExit, interruptible, terminate, killed, result,
                   exitSeen>>

(* ... and, when Main is no longer in that group, to Main itself. *)
Query ==
    /\ pc = "query"
    /\ IF Main \in group
       THEN Forwarding
       ELSE Goto("direct") /\ UNCHANGED <<deadline, sigkillSent, firstTerm, terms>>
    /\ UNCHANGED <<kernelVars, budget, sig, mainExit, interruptible,
                   terminate, killed, result, exitSeen>>

QueryFault ==
    /\ pc = "query"
    /\ "getpgid" \in Faults
    /\ Goto("direct")
    /\ UNCHANGED <<kernelVars, locals, history>>

MutDirect ==
    /\ pc = "direct"
    /\ UNCHANGED state
    /\ Forwarding
    /\ UNCHANGED <<parent, group, mainStatus, pending, arrivals, now, budget,
                   sig, mainExit, interruptible, terminate, killed, result,
                   exitSeen>>

Direct ==
    /\ pc = "direct"
    /\ Send({Main}, sig)
    /\ Forwarding
    /\ UNCHANGED <<parent, group, mainStatus, pending, arrivals, now, budget,
                   sig, mainExit, interruptible, terminate, killed, result,
                   exitSeen>>

(* After the batch: escalate, or leave the loop, or poll again. *)
Check ==
    /\ pc = "check"
    /\ \/ /\ ~sigkillSent /\ Running /\ Expired(deadline)
          /\ sig' = "KILL"
          /\ Goto("forward")
       \/ /\ sigkillSent \/ ~Running \/ ~Expired(deadline)
          /\ Goto(IF Running THEN "poll" ELSE "begin")
          /\ UNCHANGED sig
    /\ UNCHANGED <<kernelVars, budget, deadline, sigkillSent, mainExit,
                   interruptible, terminate, killed, result, history>>

----------------------------------------------------------------------------
(* supervise_child_inner: after Main was reaped.                           *)

(* The descendants share the deadline a termination signal has set. *)
Begin ==
    /\ pc = "begin"
    /\ deadline' = IF deadline.kind = "None" THEN After(now) ELSE deadline
    /\ interruptible' = TRUE
    /\ terminate' = FALSE
    /\ budget' = Batch
    /\ exitSeen' = now
    /\ Goto(IF UsePgroup THEN "termGroup" ELSE "cread")
    /\ UNCHANGED <<kernelVars, sig, sigkillSent, mainExit, killed, result,
                   firstTerm, terms>>

TermGroup ==
    /\ pc = "termGroup"
    /\ Send(group, "TERM")
    /\ Goto("cread")
    /\ UNCHANGED <<parent, group, mainStatus, pending, arrivals, now, locals,
                   history>>

(* wait_for_cleanup: one bounded batch of signals ... *)
EndCleanupSignal(term) ==
    Goto(IF (interruptible /\ term) \/ Expired(deadline)
         THEN "creap" ELSE "cread")

CleanupReadIgnored ==
    /\ pc = "cread"
    /\ \E k \in {"CHLD", "TTOU"} : Dequeue(k)
    /\ UNCHANGED <<pc, sig, deadline, sigkillSent, mainExit, interruptible,
                   terminate, killed, result, history>>

CleanupReadForwardable ==
    /\ pc = "cread"
    /\ \E k \in Forwarded : Dequeue(k) /\ sig' = k
    /\ Goto("cforward")
    /\ UNCHANGED <<deadline, sigkillSent, mainExit, interruptible,
                   terminate, killed, result, history>>

CleanupForward ==
    /\ pc = "cforward"
    /\ IF UsePgroup THEN Send(group, sig) ELSE UNCHANGED state
    /\ terminate' = (terminate \/ sig = "TERM")
    /\ terms' = IF sig = "TERM" /\ terms < 2 THEN terms + 1 ELSE terms
    /\ EndCleanupSignal(terminate')
    /\ UNCHANGED <<parent, group, mainStatus, pending, arrivals, now, budget,
                   sig, deadline, sigkillSent, mainExit, interruptible,
                   killed, result, firstTerm, exitSeen>>

CleanupReadDone ==
    /\ pc = "cread"
    /\ BatchOver
    /\ Goto("creap")
    /\ UNCHANGED <<kernelVars, locals, history>>

(* ... then every dead child, whatever the signals said ... *)
CleanupReap ==
    /\ pc = "creap"
    /\ \E p \in Reapable(Procs) : Collect(p)
    /\ UNCHANGED <<parent, group, mainStatus, pending, arrivals, now, pc,
                   locals, history>>

Finish == Goto("done") /\ result' = FinalExit(mainExit)

MutCleanupReapDone ==
    /\ pc = "creap"
    /\ Reapable(Procs) = {}
    /\ Finish
    /\ UNCHANGED <<kernelVars, budget, sig, deadline, sigkillSent, mainExit,
                   interruptible, terminate, killed, history>>

CleanupReapDone ==
    /\ pc = "creap"
    /\ Reapable(Procs) = {}
    /\ IF UsePgroup
       THEN Goto("cexists") /\ UNCHANGED result
       ELSE IF Waitable(Procs) = {}
            THEN Finish
            ELSE Goto("cwait") /\ UNCHANGED result
    /\ UNCHANGED <<kernelVars, budget, sig, deadline, sigkillSent, mainExit,
                   interruptible, terminate, killed, history>>

(* ... and whether the group is gone, even of processes tino cannot reap. *)
CleanupExists ==
    /\ pc = "cexists"
    /\ IF Members = {} THEN Finish ELSE Goto("cwait") /\ UNCHANGED result
    /\ UNCHANGED <<kernelVars, budget, sig, deadline, sigkillSent, mainExit,
                   interruptible, terminate, killed, history>>

MutGiveUp == interruptible /\ terminate

GiveUp == (interruptible /\ terminate) \/ Expired(deadline)

MutCleanupWait ==
    /\ pc = "cwait"
    /\ IF ~GiveUp THEN Goto("cpoll") /\ UNCHANGED result ELSE Finish
    /\ UNCHANGED <<kernelVars, budget, sig, deadline, sigkillSent, mainExit,
                   interruptible, terminate, killed, history>>

CleanupWait ==
    /\ pc = "cwait"
    /\ IF ~GiveUp
       THEN Goto("cpoll") /\ UNCHANGED result
       ELSE IF UsePgroup /\ interruptible
            THEN Goto("killGroup") /\ UNCHANGED result
            ELSE Finish
    /\ UNCHANGED <<kernelVars, budget, sig, deadline, sigkillSent, mainExit,
                   interruptible, terminate, killed, history>>

(* poll() returns with a signal, or after at most 10 ms. *)
CleanupPoll ==
    /\ pc = "cpoll"
    /\ Goto("cread")
    /\ budget' = Batch
    /\ terminate' = FALSE
    /\ UNCHANGED <<kernelVars, sig, deadline, sigkillSent, mainExit,
                   interruptible, killed, result, history>>

(* The group outlived its deadline: kill it and wait once more, now        *)
(* whatever signals come.                                                  *)
KillGroup ==
    /\ pc = "killGroup"
    /\ Send(group, "KILL")
    /\ deadline' = After(now)
    /\ interruptible' = FALSE
    /\ terminate' = FALSE
    /\ budget' = Batch
    /\ Goto("cread")
    /\ UNCHANGED <<parent, group, mainStatus, pending, arrivals, now, sig,
                   sigkillSent, mainExit, killed, result, history>>

----------------------------------------------------------------------------
(* cleanup_failed_supervision and cleanup_failed_process_group.            *)

FailGroup ==
    /\ pc = "fGroup"
    /\ Send(group, "KILL")
    /\ Goto("fMain")
    /\ UNCHANGED <<parent, group, mainStatus, pending, arrivals, now, locals,
                   history>>

FailMain ==
    /\ pc = "fMain"
    /\ \/ /\ Main \notin Immune
          /\ Deliver({Main}, "KILL")
          /\ Goto("fWait")
       \/ /\ Main \in Immune \/ "kill" \in Faults
          /\ UNCHANGED state
          /\ Goto("gStart")
    /\ UNCHANGED <<parent, group, mainStatus, pending, arrivals, now, locals,
                   history>>

(* A blocking waitpid for Main alone. *)
FailWait ==
    /\ pc = "fWait"
    /\ \/ Main \in Reapable({Main}) /\ Collect(Main)
       \/ "waitfailed" \in Faults /\ UNCHANGED state
    /\ Goto("gStart")
    /\ UNCHANGED <<parent, group, mainStatus, pending, arrivals, now, locals,
                   history>>

FailGroupStart ==
    /\ pc = "gStart"
    /\ IF UsePgroup
       THEN Goto("gWait") /\ deadline' = After(now) /\ killed' = FALSE
       ELSE Goto("failed") /\ UNCHANGED <<deadline, killed>>
    /\ UNCHANGED <<kernelVars, budget, sig, sigkillSent, mainExit,
                   interruptible, terminate, result, history>>

MutFailGroupReap ==
    /\ pc = "gWait"
    /\ \E p \in Reapable(Procs) : Collect(p)
    /\ UNCHANGED <<parent, group, mainStatus, pending, arrivals, now, pc,
                   locals, history>>

FailGroupReap ==
    /\ pc = "gWait"
    /\ \E p \in Reapable(group) : Collect(p)
    /\ UNCHANGED <<parent, group, mainStatus, pending, arrivals, now, pc,
                   locals, history>>

MutFailGroupWait ==
    /\ pc = "gWait"
    /\ Reapable(group) = {}
    /\ Goto(IF ~killed THEN "gKill"
            ELSE IF Waitable(group) = {} \/ Expired(deadline)
                 THEN "failed" ELSE "gSleep")
    /\ UNCHANGED <<kernelVars, locals, history>>

(* ECHILD, an error, or a child of the group that still runs. *)
FailGroupWait ==
    /\ pc = "gWait"
    /\ Reapable(group) = {}
    /\ \/ (Waitable(group) = {} \/ "waitfailed" \in Faults) /\ Goto("failed")
       \/ /\ Waitable(group) # {}
          /\ Goto(IF ~killed THEN "gKill"
                  ELSE IF Expired(deadline) THEN "failed" ELSE "gSleep")
    /\ UNCHANGED <<kernelVars, locals, history>>

FailGroupKill ==
    /\ pc = "gKill"
    /\ \/ /\ Signalable(group) # {}
          /\ Deliver(group, "KILL")
          /\ killed' = TRUE
          /\ Goto("gWait")
       \/ /\ Signalable(group) = {} \/ "kill" \in Faults
          /\ Goto("failed")
          /\ UNCHANGED <<state, killed>>
    /\ UNCHANGED <<parent, group, mainStatus, pending, arrivals, now, budget,
                   sig, deadline, sigkillSent, mainExit, interruptible,
                   terminate, result, history>>

FailSleep ==
    /\ pc = "gSleep"
    /\ Goto("gWait")
    /\ UNCHANGED <<kernelVars, locals, history>>

CallFault ==
    \/ pc \in {"poll", "cpoll"} /\ Fault("poll")
    \/ pc \in {"read", "cread"} /\ Fault("signalfd")
    \/ pc \in {"reap", "creap"} /\ Fault("waitpid")
    \/ pc = "cexists" /\ Fault("exists")

----------------------------------------------------------------------------

MainLoop ==
    \/ Poll \/ ReadOwn("read") \/ ReadChld \/ ReadIgnored
    \/ ReadForwardable \/ ReadDone
    \/ Reap \/ ReapDone \/ Forward \/ Query \/ QueryFault \/ Direct \/ Check

Cleanup ==
    \/ Begin \/ TermGroup
    \/ ReadOwn("cread") \/ CleanupReadIgnored \/ CleanupReadForwardable
    \/ CleanupForward \/ CleanupReadDone \/ CleanupReap \/ CleanupReapDone
    \/ CleanupExists \/ CleanupWait \/ CleanupPoll \/ KillGroup

Failure ==
    \/ FailGroup \/ FailMain \/ FailWait \/ FailGroupStart
    \/ FailGroupReap \/ FailGroupWait \/ FailGroupKill \/ FailSleep

Supervise == MainLoop \/ Cleanup \/ Failure \/ CallFault

(* Beyond Horizon the clock only moves to let a deadline pass. *)
Clock ==
    /\ now < Horizon \/ (deadline.kind = "At" /\ now < deadline.at)
    /\ Tick
    /\ UNCHANGED supVars

Environment == Kernel /\ UNCHANGED supVars

Next == Supervise \/ Environment \/ Clock

Spec == Init /\ [][Next]_vars

(* The supervisor is scheduled, time passes, and a process that was sent   *)
(* SIGKILL dies.  That a call fails is never counted on.                   *)
Fairness ==
    /\ WF_vars(MainLoop \/ Cleanup \/ Failure)
    /\ WF_vars(Clock)
    /\ \A p \in Procs : WF_vars(state[p] = "doomed" /\ Die(p, Killed)
                                  /\ UNCHANGED supVars)

FairSpec == Spec /\ Fairness

----------------------------------------------------------------------------
(* Safety.                                                                 *)

(* The exit of Main cannot be overlooked: while the loop runs, a dead and  *)
(* unreaped Main still has a SIGCHLD waiting, or the reaping loop is on    *)
(* its way to it.  SIGCHLDs of several deaths coalesce, so this rests on   *)
(* handle_sigchld reaping until nothing is left.                           *)
NoLostExit ==
    state[Main] = "zombie" /\ pc \in LoopPC
        => pc = "reap" \/ "CHLD" \in pending

(* The number tino signals as its command's is the command's: signals go   *)
(* to Main's PID only before it is reaped (the comment of                  *)
(* forward_to_main_child), also when the supervision fails half-way        *)
(* through a reaping loop.                                                 *)
MainReserved ==
    pc \in {"forward", "query", "direct", "fGroup", "fMain", "fWait"}
        => Exists(Main)

(* Nobody is killed early: SIGKILL follows the full grace period after     *)
(* the first termination signal or, without one, after Main's exit, unless *)
(* another termination signal asked to hurry.                              *)
GraceOver == firstTerm # -1 /\ now >= firstTerm + Grace

EscalationJustified ==
    /\ pc \in {"forward", "query", "direct"} /\ sig = "KILL"
           => GraceOver \/ terms = 2
    /\ pc = "killGroup"
           => \/ GraceOver \/ terms = 2
              \/ firstTerm = -1 /\ (terms = 1 \/ now >= exitSeen + Grace)

(* With a process group, a normal return leaves no member of it running    *)
(* that tino was allowed to kill, however members fork while the group is  *)
(* being signalled.                                                        *)
NoSurvivor ==
    pc = "done" /\ UsePgroup
        => \A p \in Members \ Immune : state[p] # "run"

(* Without a group, tino returns before the deadline and uninterrupted     *)
(* only when it has no child left; a subreaper then leaves no descendant,  *)
(* adopted late or not.                                                    *)
DrainedOnReturn ==
    pc = "done" /\ ~UsePgroup /\ ~GiveUp
        => /\ Waitable(Procs) = {}
           /\ Subreaper => \A p \in Procs : ~Exists(p)

(* What tino promises its caller, seen through the refinement mapping.     *)
ChildSeen == CASE state[Main] \in {"run", "doomed"} -> "running"
               [] state[Main] = "zombie" -> "exited"
               [] OTHER -> "collected"

AnswerSeen == CASE pc = "done" -> result
                [] pc = "failed" -> -2
                [] OTHER -> -1

Promised == INSTANCE Container WITH
    child <- ChildSeen,
    status <- mainStatus,
    answer <- AnswerSeen,
    MayAbandon <- Main \in Immune \/ Faults \cap {"kill", "waitfailed"} # {}

(* The code tino returns is that of Main's wait status, as the README puts *)
(* it ("preserved unless remapped", "128 + signal").                       *)
ExitFaithful ==
    pc = "done" => /\ mainStatus # NoStatus
                   /\ result = Promised!Reported(mainStatus)

(* After a failed supervision Main is dead and reaped, and no child tino   *)
(* could still wait for and kill runs in the group.                        *)
FailureClean ==
    pc = "failed"
        => /\ state[Main] = "gone"
           /\ UsePgroup => \A p \in Waitable(group) \ Immune : state[p] # "run"

(* The failure path signals the group only while a child that tino has not *)
(* reaped holds its number, as a member or, wherever it went, as the       *)
(* process of that number: also when a kill failed and Main still runs.    *)
GroupKillOwned == pc = "gKill" => Waitable(group \cup {Main}) # {}

(* What README.md:47 says: tino waits --grace-ms after forwarding a        *)
(* termination signal before it sends SIGKILL to its command.  It is not   *)
(* what the code does: a second termination signal ends the wait at once.  *)
GraceAlwaysWaited ==
    pc \in {"forward", "query", "direct"} /\ sig = "KILL" => GraceOver

----------------------------------------------------------------------------
(* Steps.                                                                  *)

(* The deadline is shared: once set it may come sooner, at once, but       *)
(* neither another termination signal nor Main's exit postpones it, until  *)
(* the group was killed.                                                   *)
DeadlineKept ==
    deadline.kind = "At" /\ pc # "killGroup" /\ pc' \notin FailurePC
        => /\ deadline'.kind = "At"
           /\ deadline'.at <= IF deadline.at > now THEN deadline.at ELSE now
GraceShared == [][DeadlineKept]_vars

(* A failed supervision takes no wait status away from its caller: it      *)
(* reaps Main and members of the group, nobody else.                       *)
FailureReaps ==
    pc \in FailurePC /\ state' # state
        => \A p \in Procs : parent[p] = Tino /\ state[p] = "zombie"
               /\ state'[p] = "gone" => p \in {Main} \cup group
FailureReapsOnlyOurs == [][FailureReaps]_vars

----------------------------------------------------------------------------
(* Liveness.                                                               *)

Returned == pc \in {"done", "failed"}

(* Whatever arrives, however fast, a termination signal that Main ignores  *)
(* is followed by a SIGKILL that reaches it, in its group or elsewhere:    *)
(* batches are bounded and tino's own failing writes count against them.   *)
Struck == sigkillSent /\ (state[Main] = "run" => Main \in Immune)

EscalationHappens ==
    pc \in LoopPC /\ deadline.kind = "At"
        ~> Struck \/ ~Running \/ pc \in FailurePC \cup {"failed"}

(* ... and the cleanup that follows Main's exit ends, as does the one of a  *)
(* failed supervision.                                                     *)
CleanupsEnd ==
    /\ pc = "begin" ~> Returned
    /\ pc \in FailurePC ~> pc = "failed"

(* Nothing starves, however fast signals arrive. *)
NothingStarves == EscalationHappens /\ CleanupsEnd

Arrival == (\E k \in External \cup Flood : Arrive(k)) /\ UNCHANGED supVars
QuietAtLast == <>[][~Arrival]_vars

----------------------------------------------------------------------------
(* Refinement: the supervisor keeps the promise of Container, its safety   *)
(* always and its liveness where signals do not arrive for ever.           *)
KeepsPromise == Promised!AbstractSpec
AnswersAtLast == QuietAtLast => Promised!AbstractFairness
=============================================================================
