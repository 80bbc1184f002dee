----------------------------- MODULE JobControl -----------------------------
(***************************************************************************)
(* The controlling terminal: ForegroundTtyRestore and the parts of         *)
(* supervise_child_inner that stop tino with its command and continue it   *)
(* again (src/platform/unix/child.rs, mod.rs), under a shell that does job *)
(* control.                                                                *)
(*                                                                         *)
(* fg is the foreground group: "sup" is tino's own (previous_group), "job" *)
(* the command's (child_group), "shell" the shell's or another of its      *)
(* jobs, "none" a terminal that was hung up.  Looking it up and setting it *)
(* are two calls, and the shell runs in between.                           *)
(***************************************************************************)
EXTENDS Naturals, FiniteSets

CONSTANTS
    MaxEvents,     \* bound: what user, shell and others do
    Batch          \* SIGNAL_BATCH_LIMIT

ASSUME JobControlAssumption == MaxEvents \in Nat /\ Batch \in Nat \ {0}

VARIABLES
    (* the kernel *)
    fg,
    job,           \* running, stopped, gone
    home,          \* the command still leads its own group
    claimed,       \* the child is past its claim of the terminal
    report,        \* what waitpid has to tell of the command
    pend,          \* signals the signalfd holds
    stopped,       \* tino is stopped
    parent,        \* tino leads its group and has a parent outside it, in
                   \* the session, that can continue it
    user,          \* idle, or fg: terminal handed over, SIGCONT to come
    events,
    (* tino *)
    pc, budget, sig,
    owned,         \* there is a ForegroundTtyRestore
    accepts,       \* signal_fd.accepts(SIGCONT): the caller had none pending
    started,       \* job_control_started
    suspend,       \* suspend_requested
    mainStop,      \* main_stopped of handle_sigchld
    closing,       \* shutdown_deadline is set
    (* history *)
    stale,         \* tino was stopped after the lookup a set relies on
    missed         \* tino never sees a SIGCONT: ^Z threw it away, or a
                   \* pending one of the caller hides it

world   == <<fg, job, home, claimed, report, pend, stopped, parent, user,
             events>>
locals  == <<budget, sig, owned, accepts, started, suspend, mainStop, closing>>
history == <<stale, missed>>
vars    == <<world, pc, locals, history>>

Number == [TERM |-> 15, CHLD |-> 17, CONT |-> 18, TSTP |-> 20]
Groups == {"sup", "job", "shell", "none"}
Sets   == {"claim", "set"}

Flags ==
    /\ home \in BOOLEAN /\ claimed \in BOOLEAN /\ stopped \in BOOLEAN
    /\ parent \in BOOLEAN /\ owned \in BOOLEAN /\ accepts \in BOOLEAN
    /\ started \in BOOLEAN /\ suspend \in BOOLEAN /\ closing \in BOOLEAN
    /\ missed \in BOOLEAN

TypeOK ==
    /\ Flags
    /\ fg \in Groups /\ user \in {"idle", "fg"}
    /\ job \in {"running", "stopped", "gone"}
    /\ report \in {"none", "stopped", "continued", "exited"}
    /\ mainStop \in {"none", "stopped", "continued"}
    /\ pend \subseteq DOMAIN Number /\ sig \in DOMAIN Number
    /\ pc \in {"lookup", "poll", "read", "wait", "resume", "resumeSet",
               "forward", "decide", "check", "query", "give", "stop",
               "restore", "restoreSet", "done"}
    /\ events \in 0..MaxEvents /\ budget \in 0..Batch
    /\ stale \in [Sets -> BOOLEAN]

Init ==
    /\ fg \in {"sup", "shell"}
    /\ job = "running" /\ home = TRUE /\ claimed = FALSE
    /\ report = "none" /\ pend = {}
    /\ stopped = FALSE /\ user = "idle" /\ events = 0
    /\ parent \in BOOLEAN
    /\ pc = "lookup" /\ budget = 0 /\ sig = "CHLD"
    /\ owned = FALSE /\ started = FALSE
    /\ accepts \in BOOLEAN
    /\ suspend = FALSE /\ mainStop = "none" /\ closing = FALSE
    /\ stale = [s \in Sets |-> FALSE] /\ missed = FALSE

----------------------------------------------------------------------------
(* What the kernel does of a signal.                                       *)

(* Any stop signal drops a pending SIGCONT, blocked or not. *)
StopSignal(s) == IF s = "TSTP" THEN (pend \ {"CONT"}) \cup {s} ELSE pend \ {"CONT"}

(* The command stops, continues or ends: one report, the latest. *)
JobTurns(how, what) ==
    /\ job' = how
    /\ report' = what
    /\ pend' = pend \cup {"CHLD"}

(* SIGCONT wakes tino, which reads it, or knows it by having been woken   *)
(* from its own stop.                                                      *)
Continue ==
    /\ stopped' = FALSE
    /\ pend' = IF accepts THEN (pend \ {"TSTP"}) \cup {"CONT"}
                          ELSE pend \ {"TSTP"}
    /\ missed' = (missed \/ (~accepts /\ pc # "resume"))

(* What the command does when a signal is forwarded to its group; until   *)
(* its claim of the terminal is over it has the signals blocked.           *)
Forwarded(s) ==
    \/ /\ s = "CONT" /\ job = "stopped"
       /\ JobTurns("running", "continued")
    \/ /\ s = "TSTP" /\ job = "running" /\ claimed
       /\ JobTurns("stopped", "stopped")
    \/ /\ s = "TERM" /\ job = "running" /\ claimed
       /\ JobTurns("gone", "exited")
    \/ /\ ~(s = "CONT" /\ job = "stopped")   \* or it handles the signal
       /\ UNCHANGED <<job, report, pend>>

----------------------------------------------------------------------------
(* The surroundings.                                                       *)

Event == events < MaxEvents /\ events' = events + 1

(* The child takes the terminal before exec, as its parent looked it up. *)
ChildClaims ==
    /\ pc # "lookup" /\ ~claimed /\ job # "gone"
    /\ claimed' = TRUE
    /\ fg' = IF owned /\ fg # "none" THEN "job" ELSE fg
    /\ UNCHANGED <<job, home, report, pend, stopped, parent, user, events, pc,
                   locals, history>>

JobExits ==
    /\ claimed /\ job = "running"
    /\ JobTurns("gone", "exited")
    /\ UNCHANGED <<fg, home, claimed, stopped, parent, user, events, pc,
                   locals, history>>

(* A read of the terminal from the background. *)
JobReads ==
    /\ claimed /\ job = "running" /\ fg \notin {"job", "none"}
    /\ JobTurns("stopped", "stopped")
    /\ UNCHANGED <<fg, home, claimed, stopped, parent, user, events, pc,
                   locals, history>>

(* The command joins another group. *)
JobMoves ==
    /\ Event /\ claimed /\ job = "running" /\ home
    /\ home' = FALSE
    /\ UNCHANGED <<fg, job, claimed, report, pend, stopped, parent, user, pc,
                   locals, history>>

(* Somebody continues the command behind tino's back. *)
OtherContinues ==
    /\ Event /\ job = "stopped"
    /\ JobTurns("running", "continued")
    /\ UNCHANGED <<fg, home, claimed, stopped, parent, user, pc, locals,
                   history>>

(* ^Z: to the group that has the terminal. *)
Suspends ==
    /\ Event
    /\ \/ /\ fg = "sup"
          /\ pend' = StopSignal("TSTP")
          /\ missed' = (missed \/ "CONT" \in pend)
          /\ UNCHANGED <<job, report>>
       \/ /\ fg = "job" /\ claimed /\ job = "running"
          /\ JobTurns("stopped", "stopped")
          /\ UNCHANGED missed
    /\ UNCHANGED <<fg, home, claimed, stopped, parent, user, pc, locals, stale>>

Terminates ==
    /\ Event
    /\ pend' = pend \cup {"TERM"}
    /\ UNCHANGED <<fg, job, home, claimed, report, stopped, parent, user, pc,
                   locals, history>>

(* SIGSTOP for tino alone. *)
OtherStops ==
    /\ Event /\ ~stopped /\ pc # "done"
    /\ stopped' = TRUE
    /\ pend' = StopSignal("STOP")
    /\ stale' = [s \in Sets |-> TRUE]
    /\ UNCHANGED <<fg, job, home, claimed, report, parent, user, pc, locals,
                   missed>>

(* The shell, told of the stop, takes its terminal back ... *)
ShellTakes ==
    /\ parent /\ stopped /\ user = "idle" /\ fg \in {"sup", "job"}
    /\ fg' = "shell"
    /\ UNCHANGED <<job, home, claimed, report, pend, stopped, parent, user,
                   events, pc, locals, history>>

(* ... fg gives it to tino's group and then continues that group ... *)
ShellGives ==
    /\ Event /\ parent /\ user = "idle" /\ fg = "shell" /\ pc # "done"
    /\ fg' = "sup"
    /\ user' = "fg"
    /\ UNCHANGED <<job, home, claimed, report, pend, stopped, parent, pc,
                   locals, history>>

ShellContinues ==
    /\ parent /\ user = "fg"
    /\ user' = "idle"
    /\ Continue
    /\ UNCHANGED <<fg, job, home, claimed, report, parent, events, pc, locals,
                   stale>>

(* ... and bg only continues it. *)
Background ==
    /\ Event /\ parent /\ user = "idle" /\ fg = "shell" /\ pc # "done"
    /\ Continue
    /\ UNCHANGED <<fg, job, home, claimed, report, parent, user, pc, locals,
                   stale>>

(* The shell ends: the terminal is hung up, a stopped group without a     *)
(* parent is continued by the kernel.                                      *)
ShellExits ==
    /\ Event /\ parent
    /\ parent' = FALSE
    /\ fg' = "none"
    /\ user' = "idle"
    /\ IF stopped THEN Continue ELSE UNCHANGED <<stopped, pend, missed>>
    /\ stale' = [s \in Sets |-> TRUE]
    /\ UNCHANGED <<job, home, claimed, report, pc, locals>>

----------------------------------------------------------------------------
(* tino.                                                                   *)

(* owned_foreground_tty *)
Owned == fg = "sup"

Lookup ==
    /\ pc = "lookup"
    /\ owned' = Owned
    /\ stale' = [stale EXCEPT !["claim"] = FALSE]
    /\ pc' = "poll"
    /\ UNCHANGED <<world, budget, sig, accepts, started, suspend, mainStop,
                   closing, missed>>

Poll ==
    /\ pc = "poll" /\ pend # {}
    /\ pc' = "read"
    /\ budget' = Batch
    /\ suspend' = FALSE
    /\ UNCHANGED <<world, sig, owned, accepts, started, mainStop, closing,
                   history>>

(* The signalfd yields the lowest number first. *)
Lowest == CHOOSE s \in pend : \A t \in pend : Number[s] <= Number[t]

MutHandler == IF Lowest = "CHLD" THEN "wait" ELSE "forward"

Handler == CASE Lowest = "CHLD" -> "wait"
             [] Lowest = "CONT" /\ owned -> "resume"
             [] OTHER -> "forward"

Read ==
    /\ pc = "read"
    /\ \/ /\ budget = 0 \/ pend = {}
          /\ pc' = "decide"
          /\ UNCHANGED <<world, budget, sig, suspend, mainStop>>
       \/ /\ budget > 0 /\ pend # {}
          /\ budget' = budget - 1
          /\ sig' = Lowest
          /\ pend' = pend \ {Lowest}
          /\ suspend' = (suspend /\ Lowest # "CONT")
          /\ mainStop' = "none"
          /\ pc' = Handler
          /\ UNCHANGED <<fg, job, home, claimed, report, stopped, parent, user,
                         events>>
    /\ UNCHANGED <<owned, accepts, started, closing, history>>

(* handle_sigchld: one waitpid. *)
Wait ==
    /\ pc = "wait"
    /\ report' = "none"
    /\ pc' = CASE report = "none" -> "read"
               [] report = "exited" -> "restore"
               [] OTHER -> "wait"
    /\ mainStop' = IF report \in {"stopped", "continued"} THEN report
                                                          ELSE mainStop
    /\ suspend' = IF report = "none" /\ mainStop # "none"
                  THEN mainStop = "stopped" ELSE suspend
    /\ UNCHANGED <<fg, job, home, claimed, pend, stopped, parent, user, events,
                   budget, sig, owned, accepts, started, closing, history>>

MutResumes == home

(* resume_job: the terminal goes on to the command only if fg handed it   *)
(* to tino.                                                                *)
Resumes == home /\ fg = "sup"

Resume ==
    /\ pc = "resume"
    /\ pc' = IF Resumes THEN "resumeSet" ELSE "forward"
    /\ stale' = [stale EXCEPT !["set"] = FALSE]
    /\ UNCHANGED <<world, locals, missed>>

(* tcsetpgrp by tino. *)
TakeFor(group) ==
    /\ fg' = IF fg = "none" THEN fg ELSE group
    /\ UNCHANGED <<job, home, claimed, report, pend, stopped, parent, user,
                   events>>

ResumeSet ==
    /\ pc = "resumeSet"
    /\ TakeFor("job")
    /\ pc' = "forward"
    /\ UNCHANGED <<locals, history>>

(* The forwarding of the loop; and after tino's own stop, if the SIGCONT  *)
(* that ended it cannot be read.                                           *)
Forward ==
    /\ pc = "forward"
    /\ Forwarded(sig)
    /\ closing' = (closing \/ sig = "TERM")
    /\ pc' = IF sig = "CONT" /\ ~accepts THEN "poll" ELSE "read"
    /\ UNCHANGED <<fg, home, claimed, stopped, parent, user, events, budget,
                   sig, owned, accepts, started, suspend, mainStop, history>>

(* The grace period is over: SIGKILL. *)
Expire ==
    /\ pc = "poll" /\ closing /\ job # "gone"
    /\ JobTurns("gone", "exited")
    /\ UNCHANGED <<fg, home, claimed, stopped, parent, user, events, pc,
                   locals, history>>

SuspendWanted == suspend /\ ~closing /\ owned

Decide ==
    /\ pc = "decide"
    /\ pc' = IF SuspendWanted THEN "check" ELSE "poll"
    /\ UNCHANGED <<world, locals, history>>

MutCanStop == home

(* suspend_job: is the command where it was put, is there a parent to     *)
(* continue tino? *)
CanStop == home /\ parent

Check ==
    /\ pc = "check"
    /\ pc' = IF CanStop THEN "query" ELSE "poll"
    /\ stale' = [stale EXCEPT !["set"] = FALSE]
    /\ UNCHANGED <<world, locals, missed>>

MutAfterQuery == CASE fg = "job" -> "give" [] OTHER -> "poll"

(* The first stop must be of the foreground job; a later one may be a     *)
(* background read. *)
AfterQuery == CASE fg = "job" -> "give"
                [] fg = "none" \/ ~started -> "poll"
                [] OTHER -> "stop"

Query ==
    /\ pc = "query"
    /\ pc' = AfterQuery
    /\ UNCHANGED <<world, locals, history>>

Give ==
    /\ pc = "give"
    /\ TakeFor("sup")
    /\ started' = (started \/ fg # "none")
    /\ pc' = IF fg = "none" THEN "poll" ELSE "stop"
    /\ UNCHANGED <<budget, sig, owned, accepts, suspend, mainStop, closing,
                   history>>

(* SIGSTOP to the own group takes effect before the call returns. *)
Stop ==
    /\ pc = "stop"
    /\ stopped' = TRUE
    /\ pend' = StopSignal("STOP")
    /\ sig' = IF accepts THEN sig ELSE "CONT"
    /\ pc' = IF accepts THEN "poll" ELSE "resume"
    /\ UNCHANGED <<fg, job, home, claimed, report, parent, user, events, budget,
                   owned, accepts, started, suspend, mainStop, closing, history>>

MutLeft == fg = "sup"

Left == owned /\ fg = "job"

(* Drop *)
Restore ==
    /\ pc = "restore"
    /\ pc' = IF Left THEN "restoreSet" ELSE "done"
    /\ stale' = [stale EXCEPT !["set"] = FALSE]
    /\ UNCHANGED <<world, locals, missed>>

RestoreSet ==
    /\ pc = "restoreSet"
    /\ TakeFor("sup")
    /\ pc' = "done"
    /\ UNCHANGED <<locals, history>>

TinoStep ==
    \/ Lookup \/ Poll \/ Read \/ Wait \/ Resume \/ ResumeSet \/ Forward
    \/ Expire \/ Decide \/ Check \/ Query \/ Give \/ Stop \/ Restore
    \/ RestoreSet

Tino == ~stopped /\ TinoStep

Outside ==
    \/ JobExits \/ JobReads \/ JobMoves \/ OtherContinues \/ Suspends
    \/ Terminates \/ OtherStops \/ ShellGives \/ Background \/ ShellExits

Next == Tino \/ ChildClaims \/ ShellTakes \/ ShellContinues \/ Outside

(* tino and the child are processes the kernel runs; a shell takes back   *)
(* the terminal of a stopped job and finishes what it began.               *)
Fairness ==
    /\ WF_vars(Tino)
    /\ WF_vars(ChildClaims)
    /\ WF_vars(ShellTakes)
    /\ WF_vars(ShellContinues)

Spec == Init /\ [][Next]_vars /\ Fairness

----------------------------------------------------------------------------
(* Properties.                                                             *)

(* The terminal is never taken from the shell or another job, by tino or  *)
(* by its child, unless tino was itself stopped between the lookup and the *)
(* call that relies on it.                                                 *)
NoTheft ==
    [][ fg = "shell" /\ fg' \in {"sup", "job"} /\ user' = user
        => stale[IF claimed' # claimed THEN "claim" ELSE "set"] ]_vars

(* tino stops itself only where a parent can continue it, and never once  *)
(* a shutdown has begun; the parent may die after it was looked up.        *)
StopsToBeContinued ==
    [][ pc = "stop" /\ stopped' => ~closing /\ (parent \/ stale["set"]) ]_vars

(* When tino returns, the terminal is not left with the group of a        *)
(* command that is gone.                                                   *)
TerminalReturned == pc = "done" => fg # "job"

(* tino stops with its command, so that the shell takes its terminal back: *)
(* when a command stops that has the terminal, or had it at an earlier stop *)
(* (a read from the background), then tino stops too, or the command goes  *)
(* on.                                                                     *)
StopShown ==
    (job = "stopped" /\ parent /\ home /\ (fg = "job" \/ started))
        ~> (stopped \/ job # "stopped" \/ ~parent \/ missed)

(* fg reaches the command: once the shell has handed the terminal over to  *)
(* tino it does not stay there, unless tino never sees the SIGCONT or the  *)
(* command left its group.                                                 *)
FgReaches ==
    (fg = "sup" /\ user = "fg" /\ owned)
        ~> (fg # "sup" \/ missed \/ ~home \/ job = "gone")
=============================================================================
