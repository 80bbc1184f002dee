------------------------------- MODULE Spawn -------------------------------
(***************************************************************************)
(* spawn_child of src/platform/unix/child.rs and the supervisor's          *)
(* manage_process_group, which run at the same time in two processes: the  *)
(* child restores its signals, arms its parent-death signal, leads a group *)
(* of its own, restricts itself and becomes the program, while the         *)
(* supervisor may form the same group from outside, or die, and anybody    *)
(* may signal the child or the program may move to other groups.           *)
(*                                                                         *)
(* The variables of ThreadSignals are the child's.  step is its next call: *)
(*   reset sigpipe prctl getppid setpgid sigmask landlock exec             *)
(*   program (it runs)   zombie                                            *)
(* and that of the supervisor, super, is                                   *)
(*   manage query exists supervise dead                                    *)
(***************************************************************************)
EXTENDS ThreadSignals

CONSTANTS
    Pipe,          \* SIGPIPE
    Excluded,      \* SIGNALS_EXCLUDED_FROM_SIGNALFD
    Faults         \* the calls that may fail

ASSUME SpawnAssumption ==
    /\ Pipe \in Signals \ {Chld}
    /\ Excluded \subseteq Signals \ {Chld, Pipe}

VARIABLES
    asked,         \* what run_impl asks for: pdeath (a signal or None),
                   \*   pgroup (--pgroup-kill), policy (off warn strict), mask
    step,
    armed,         \* the kernel sends asked.pdeath when the supervisor dies
    group,         \* the child's group: supervisor own other
    session,       \* the child leads a session
    execed,        \* the child has been a program
    restricted,    \* Landlock rules are in force
    super,
    useGroup,      \* use_pgroup, the answer of manage_process_group
    told,          \* history: the parent-death signal was sent to the child
    surprised,     \* history: for which signals, and before which call, a
                   \*   handler of the caller ran in the child
    excused        \* history: why the group may rightly be given up

None == "none"
child == <<step, armed, group, session, execed, restricted>>
vars  == <<signalVars, asked, child, super, useGroup, told, surprised, excused>>

PreExec == {"reset", "sigpipe", "prctl", "getppid", "setpgid", "sigmask",
            "landlock", "exec"}

Requests == [pdeath : Signals \cup {None}, pgroup : BOOLEAN,
             policy : {"off", "warn", "strict"}, mask : SUBSET Signals]

\* The state after fork: the supervision has blocked everything but the
\* excluded signals, which are blocked if the caller did (setup_signal_delivery),
\* nothing is pending, and the dispositions are the caller's, but for SIGCHLD's
\* (ChildReapingRestore).
Init ==
    /\ asked \in Requests
    /\ mask = (Signals \ Excluded) \cup (Excluded \cap asked.mask)
    /\ disp \in [Signals -> Dispositions]
    /\ disp[Chld] = "default"
    /\ pending = {}
    /\ step = "reset"
    /\ armed = FALSE
    /\ group = "supervisor"
    /\ session = FALSE
    /\ execed = FALSE
    /\ restricted = FALSE
    /\ super = "manage"
    /\ useGroup = FALSE
    /\ told = FALSE
    /\ surprised = {}
    /\ excused = FALSE

Alive == step # "zombie"

\* A signal is sent to the child: it waits, is ignored, runs a handler ...
Strike(s) ==
    /\ Generate(s)
    /\ surprised' = surprised \cup (IF s \notin mask /\ disp[s] = "handler"
                                    THEN {<<s, step>>} ELSE {})

\* ... or ends the child.
Fatal(s) == s \notin mask /\ disp[s] = "default" /\ s # Chld

----------------------------------------------------------------------------
(* The child, one action per call of spawn_child.                          *)

MutResetHandlers ==
    /\ step = "reset"
    /\ step' = "sigpipe"
    /\ UNCHANGED <<signalVars, asked, armed, group, session, execed,
                   restricted, super, useGroup, told, surprised, excused>>

\* reset_caught_handlers
ResetHandlers ==
    /\ step = "reset"
    /\ disp' = [s \in Signals |-> IF disp[s] = "handler" THEN "default" ELSE disp[s]]
    /\ step' = "sigpipe"
    /\ UNCHANGED <<mask, pending, asked, armed, group, session, execed,
                   restricted, super, useGroup, told, surprised, excused>>

ResetPipe ==
    /\ step = "sigpipe"
    /\ SetAction(Pipe, "default")
    /\ step' = "prctl"
    /\ UNCHANGED <<asked, armed, group, session, execed, restricted, super,
                   useGroup, told, surprised, excused>>

\* set_child_pdeath_signal
Arm ==
    /\ step = "prctl"
    /\ armed' = (asked.pdeath # None)
    /\ step' = "getppid"
    /\ UNCHANGED <<signalVars, asked, group, session, execed, restricted,
                   super, useGroup, told, surprised, excused>>

MutCheckParent ==
    /\ step = "getppid"
    /\ step' = "setpgid"
    /\ UNCHANGED <<signalVars, asked, armed, group, session, execed,
                   restricted, super, useGroup, told, surprised, excused>>

\* The supervisor died before prctl: the child sends itself the signal.
CheckParent ==
    /\ step = "getppid"
    /\ \/ /\ asked.pdeath # None /\ super = "dead"
          /\ Strike(asked.pdeath)
          /\ step' = IF Fatal(asked.pdeath) THEN "zombie" ELSE "setpgid"
          /\ told' = TRUE
       \/ /\ ~(asked.pdeath # None /\ super = "dead")
          /\ step' = "setpgid"
          /\ UNCHANGED <<signalVars, surprised, told>>
    /\ UNCHANGED <<asked, armed, group, session, execed, restricted, super,
                   useGroup, excused>>

\* A failure is reported, and the supervisor left to try (MayFault).
LeadGroup ==
    /\ step = "setpgid"
    /\ \/ /\ asked.pgroup
          /\ group' = "own"
          /\ UNCHANGED excused
       \/ /\ ~asked.pgroup
          /\ UNCHANGED <<group, excused>>
       \/ /\ asked.pgroup /\ "setpgid" \in Faults
          /\ excused' = TRUE
          /\ UNCHANGED group
    /\ step' = "sigmask"
    /\ UNCHANGED <<signalVars, asked, armed, session, execed, restricted,
                   super, useGroup, told, surprised>>

\* What was sent meanwhile is delivered now.
Unmask ==
    /\ step = "sigmask"
    /\ SetMask(asked.mask)
    /\ surprised' = surprised \cup
                       {<<s, step>> : s \in {s \in Felt(asked.mask) : disp[s] = "handler"}}
    /\ step' = IF \E s \in Felt(asked.mask) : disp[s] = "default" THEN "zombie"
               ELSE "landlock"
    /\ UNCHANGED <<asked, armed, group, session, execed, restricted, super,
                   useGroup, told, excused>>


MutRestrict ==
    /\ step = "landlock"
    /\ restricted' \in IF asked.policy = "off" THEN {FALSE}
                       ELSE IF "landlock" \in Faults THEN BOOLEAN ELSE {TRUE}
    /\ step' = "exec"
    /\ UNCHANGED <<signalVars, asked, armed, group, session, execed, super,
                   useGroup, told, surprised, excused>>

\* landlock::apply: a failure ends the child unless the policy only warns.
Restrict ==
    /\ step = "landlock"
    /\ restricted' \in IF asked.policy = "off" THEN {FALSE}
                       ELSE IF "landlock" \in Faults THEN BOOLEAN ELSE {TRUE}
    /\ step' = IF asked.policy = "strict" /\ ~restricted' THEN "zombie" ELSE "exec"
    /\ UNCHANGED <<signalVars, asked, armed, group, session, execed, super,
                   useGroup, told, surprised, excused>>

\* execvp: handlers become defaults, the rest is inherited.
Exec ==
    /\ step = "exec"
    /\ disp' = [s \in Signals |-> IF disp[s] = "handler" THEN "default" ELSE disp[s]]
    /\ step' = "program"
    /\ execed' = TRUE
    /\ UNCHANGED <<mask, pending, asked, armed, group, session, restricted,
                   super, useGroup, told, surprised, excused>>

\* _exit after a call that failed, report_exec_failure
Abort ==
    /\ step \in {"reset", "sigpipe", "prctl", "sigmask", "exec"} \cap Faults
    /\ step = "prctl" => asked.pdeath # None
    /\ step' = "zombie"
    /\ UNCHANGED <<signalVars, asked, armed, group, session, execed,
                   restricted, super, useGroup, told, surprised, excused>>

----------------------------------------------------------------------------
(* The supervisor: manage_process_group.                                   *)

Decide(answer) ==
    /\ useGroup' = answer
    /\ super' = "supervise"

Ask(next) ==
    /\ super' = next
    /\ UNCHANGED useGroup

\* setpgid(child, child): EACCES once the child is a program, EPERM if it
\* leads a session, and not every system finds a zombie (ESRCH)
SetGroup ==
    /\ super = "manage"
    /\ asked.pgroup
    /\ \/ /\ ~execed
          /\ group' = "own"
          /\ Decide(TRUE)
       \/ /\ execed /\ ~session
          /\ Ask("query")
          /\ UNCHANGED group
       \/ /\ step = "zombie"
          /\ Ask("exists")
          /\ UNCHANGED group
       \/ /\ session
          /\ Decide(FALSE)
          /\ UNCHANGED group
    /\ UNCHANGED <<signalVars, asked, step, armed, session, execed,
                   restricted, told, surprised, excused>>

NoGroup ==
    /\ super = "manage"
    /\ ~asked.pgroup
    /\ Decide(FALSE)
    /\ UNCHANGED <<signalVars, asked, child, told, surprised, excused>>

\* process_group_of
MutQueryGroup ==
    /\ super = "query"
    /\ \/ Decide(FALSE)
       \/ step = "zombie" /\ Ask("exists")
    /\ UNCHANGED <<signalVars, asked, child, told, surprised, excused>>

QueryGroup ==
    /\ super = "query"
    /\ \/ Decide(group = "own")
       \/ step = "zombie" /\ Ask("exists")
    /\ UNCHANGED <<signalVars, asked, child, told, surprised, excused>>

\* process_group_exists_after_child_exit: the zombie still is a member.
GroupExists ==
    /\ super = "exists"
    /\ Decide(group = "own")
    /\ UNCHANGED <<signalVars, asked, child, told, surprised, excused>>

\* Any other error of setpgid, getpgid or kill: a warning and no group.
GroupFault ==
    /\ super \in {"manage", "query", "exists"}
    /\ asked.pgroup
    /\ "group" \in Faults
    /\ Decide(FALSE)
    /\ excused' = TRUE
    /\ UNCHANGED <<signalVars, asked, child, told, surprised>>

----------------------------------------------------------------------------
(* What may happen around them.                                            *)

\* A signal for the child: from the terminal, or forwarded.  Its default
\* action ends the child; as a program the child may do what it likes.
Send(s) ==
    /\ step \in PreExec
    /\ Strike(s)
    /\ step' = IF Fatal(s) THEN "zombie" ELSE step
    /\ UNCHANGED <<asked, armed, group, session, execed, restricted, super,
                   useGroup, told, excused>>

SupervisorDies ==
    /\ super # "dead"
    /\ super' = "dead"
    /\ \/ /\ armed /\ Alive
          /\ Strike(asked.pdeath)
          /\ step' = IF Fatal(asked.pdeath) THEN "zombie" ELSE step
          /\ told' = TRUE
       \/ /\ ~(armed /\ Alive)
          /\ UNCHANGED <<signalVars, surprised, step, told>>
    /\ UNCHANGED <<asked, armed, group, session, execed, restricted,
                   useGroup, excused>>

\* setsid by the program, unless it leads a group
ProgramLeadsSession ==
    /\ step = "program" /\ group # "own"
    /\ group' = "own"
    /\ session' = TRUE
    /\ excused' = TRUE
    /\ UNCHANGED <<signalVars, asked, step, armed, execed, restricted, super,
                   useGroup, told, surprised>>

\* setpgid by the program, unless it leads a session
ProgramMoves ==
    /\ step = "program" /\ ~session
    /\ group' \in {"supervisor", "own", "other"} \ {group}
    /\ excused' = TRUE
    /\ UNCHANGED <<signalVars, asked, step, armed, session, execed,
                   restricted, super, useGroup, told, surprised>>

ProgramExits ==
    /\ step = "program"
    /\ step' = "zombie"
    /\ UNCHANGED <<signalVars, asked, armed, group, session, execed,
                   restricted, super, useGroup, told, surprised, excused>>

Child ==
    \/ ResetHandlers \/ ResetPipe \/ Arm \/ CheckParent \/ LeadGroup
    \/ Unmask \/ Restrict \/ Exec \/ Abort

Supervisor ==
    \/ SetGroup \/ NoGroup \/ QueryGroup \/ GroupExists \/ GroupFault

Program == ProgramLeadsSession \/ ProgramMoves \/ ProgramExits

Next ==
    \/ Child
    \/ Supervisor
    \/ Program
    \/ SupervisorDies
    \/ \E s \in Signals : Send(s)

Spec == Init /\ [][Next]_vars

----------------------------------------------------------------------------
(* Properties.                                                             *)

TypeOK ==
    /\ SignalsTypeOK
    /\ asked \in Requests
    /\ step \in PreExec \cup {"program", "zombie"}
    /\ group \in {"supervisor", "own", "other"}
    /\ super \in {"manage", "query", "exists", "supervise", "dead"}
    /\ {armed, session, execed, restricted, useGroup, told, excused} \subseteq BOOLEAN
    /\ surprised \subseteq Signals \X (PreExec \cup {"program", "zombie"})
    /\ session => group = "own"
    /\ armed => asked.pdeath # None
    /\ useGroup \/ super \in {"query", "exists"} => asked.pgroup

\* A program that runs with a parent-death signal has been sent it if the
\* supervisor is dead, at whichever of the child's steps it died: prctl alone
\* misses a death before it (the getppid check of spawn_child).
ParentDeathFelt ==
    asked.pdeath # None /\ super = "dead" /\ step = "program" => told

\* No handler of the process that called tino::run runs in the child for a
\* signal that tino forwards, or any other it blocked for the fork, whenever it
\* is sent (reset_caught_handlers before thread_set_mask).  A signal excluded
\* from the signalfd runs one only if the caller had not blocked it, and before
\* the handlers are reset: never later, so not for its parent-death signal.
NoHostHandler == surprised \subseteq (Excluded \ asked.mask) \X {"reset"}

\* The program starts with the caller's mask, with SIGPIPE at its default,
\* and under its restrictions; it does not start unrestricted unless the
\* policy only warns.
ProgramAsPromised ==
    step = "program" =>
        /\ mask = asked.mask
        /\ disp[Pipe] = "default"
        /\ asked.policy = "strict" => restricted

\* Whoever of the two formed it, and however far the child is: group signals
\* are used only for a group that exists, and are not given up for a program
\* unless a call failed or it went to other groups (manage_process_group).
GroupTruth ==
    [][super # "dead" /\ super' = "supervise" /\ super # "supervise" =>
        /\ useGroup' => asked.pgroup /\ group' = "own"
        /\ asked.pgroup /\ execed /\ ~excused' => useGroup']_vars
=============================================================================
