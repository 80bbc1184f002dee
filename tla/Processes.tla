----------------------------- MODULE Processes -----------------------------
(***************************************************************************)
(* The kernel as tino's supervisor sees it: the workload's processes, the  *)
(* process group tino made for it, the signals waiting in the supervisor's *)
(* signalfd and the monotonic clock.  None of this code is in the          *)
(* repository; every definition is what the calls in src/platform/unix     *)
(* rely on (kill, waitpid, getpgid, poll, signalfd, prctl).                *)
(*                                                                         *)
(* A process is                                                            *)
(*   unborn  not forked yet                                                *)
(*   run     running (or stopped)                                          *)
(*   doomed  sent SIGKILL and not dead yet: it runs no more of its program *)
(*   zombie  dead, its PID and its group number still reserved             *)
(*   gone    reaped, its PID free for reuse                                *)
(***************************************************************************)
EXTENDS Integers, FiniteSets

CONSTANTS
    Main,          \* the command tino runs
    Descendants,   \* processes the command and its children may fork
    Foreign,       \* children the caller of tino::run had before
    Immune,        \* processes tino has no permission to signal
    Leavers,       \* processes that may move to another process group
    Tino,          \* the supervisor, as a parent
    InitProc,      \* whoever adopts orphans when tino does not
    Subreaper,     \* tino adopts orphans: PID 1, or PR_SET_CHILD_SUBREAPER
    UsePgroup,    \* Main was made the leader of a group of its own
    ExitCodes,     \* codes Main may exit with
    External,      \* kinds of signal others may send to tino
    MaxArrivals,   \* bound: how many such signals arrive ...
    Flood          \* ... not counting these kinds, which never stop

Procs == {Main} \cup Descendants \cup Foreign

Forwarded == {"TERM", "USR"}   \* termination signals; all others
Kinds == Forwarded \cup {"CHLD", "TTOU", "OWNPIPE"}

ASSUME ProcessAssumption ==
    /\ Main \notin Descendants \cup Foreign
    /\ Descendants \cap Foreign = {}
    /\ {Tino, InitProc} \cap Procs = {}
    /\ Tino # InitProc
    /\ Subreaper \in BOOLEAN /\ UsePgroup \in BOOLEAN
    /\ ExitCodes \subseteq 0..255
    /\ External \subseteq Kinds \ {"OWNPIPE"}
    /\ Flood \subseteq Kinds
    /\ MaxArrivals \in Nat

(* A wait status: an exit code, or the number of the fatal signal. *)
Statuses == [how : {"exited", "signaled"}, n : 0..255]
NoStatus == [how |-> "none", n |-> 0]
Killed   == [how |-> "signaled", n |-> 9]
Possible == {[how |-> "exited", n |-> c] : c \in ExitCodes}
              \cup {[how |-> "signaled", n |-> 15], Killed}

VARIABLES
    state,      \* the state of each process
    parent,     \* who may wait for it
    group,      \* the members of the process group numbered like Main
    mainStatus, \* what waitpid reports of Main once it is dead
    pending,    \* kinds of signal waiting in the signalfd
    arrivals,   \* how many external signals arrived, up to MaxArrivals
    now         \* the monotonic clock, in units of the deadlines

kernelVars == <<state, parent, group, mainStatus, pending, arrivals, now>>

KernelTypeOK ==
    /\ state \in [Procs -> {"unborn", "run", "doomed", "zombie", "gone"}]
    /\ parent \in [Procs -> Procs \cup {Tino, InitProc}]
    /\ group \subseteq Procs
    /\ mainStatus \in Statuses \cup {NoStatus}
    /\ pending \subseteq Kinds
    /\ arrivals \in 0..MaxArrivals
    /\ now \in Nat

KernelInit ==
    /\ state = [p \in Procs |-> IF p \in Descendants THEN "unborn" ELSE "run"]
    /\ parent = [p \in Procs |-> Tino]
    /\ group = IF UsePgroup THEN {Main} ELSE {}
    /\ mainStatus = NoStatus
    /\ pending \in {{}, {"CHLD"}}  \* a SIGCHLD may precede supervision
    /\ arrivals = 0
    /\ now = 0

----------------------------------------------------------------------------
(* What the supervisor's system calls see and do.                          *)

Exists(p) == state[p] \notin {"unborn", "gone"}

(* The children a waitpid on the processes S may wait for; with none of    *)
(* them it fails with ECHILD.                                              *)
Waitable(S) == {p \in S : parent[p] = Tino /\ Exists(p)}
Reapable(S) == {p \in Waitable(S) : state[p] = "zombie"}

Members == {p \in group : Exists(p)}

(* kill(): only SIGKILL has an effect the model can predict. *)
Signalable(S) == {p \in S : Exists(p) /\ p \notin Immune}
Deliver(S, sig) ==
    state' = IF sig = "KILL"
             THEN [p \in Procs |-> IF p \in Signalable(S) /\ state[p] = "run"
                                   THEN "doomed" ELSE state[p]]
             ELSE state

Collect(p) == state' = [state EXCEPT ![p] = "gone"]

----------------------------------------------------------------------------
(* What the workload, its neighbours and time do.                          *)

Fork(p, d) ==
    /\ state[p] = "run"
    /\ state[d] = "unborn"
    /\ p \in Immune => d \in Immune
    /\ state' = [state EXCEPT ![d] = "run"]
    /\ parent' = [parent EXCEPT ![d] = p]
    /\ group' = IF p \in group THEN group \cup {d} ELSE group
    /\ UNCHANGED <<mainStatus, pending, arrivals, now>>

(* setsid(), or a setpgid() into another group; never back. *)
LeaveGroup(p) ==
    /\ p \in Leavers \cap group
    /\ state[p] = "run"
    /\ group' = group \ {p}
    /\ UNCHANGED <<state, parent, mainStatus, pending, arrivals, now>>

(* A process dies, of its own or by a signal from anyone.  Its children    *)
(* pass to the next reaper, which hears SIGCHLD for the dead ones too.     *)
Orphans(p) == {q \in Procs : parent[q] = p}
Heir == IF Subreaper THEN Tino ELSE InitProc

Die(p, status) ==
    /\ state[p] \in {"run", "doomed"}
    /\ state[p] = "doomed" => status = Killed
    /\ state' = [state EXCEPT ![p] = "zombie"]
    /\ mainStatus' = IF p = Main THEN status ELSE mainStatus
    /\ parent' = [q \in Procs |-> IF q \in Orphans(p) THEN Heir ELSE parent[q]]
    /\ pending' = IF \/ parent[p] = Tino
                     \/ Subreaper /\ \E q \in Orphans(p) : state[q] = "zombie"
                  THEN pending \cup {"CHLD"} ELSE pending
    /\ UNCHANGED <<group, arrivals, now>>

(* A zombie of another parent is reaped by it, at any time or never. *)
ReapedElsewhere(p) ==
    /\ state[p] = "zombie"
    /\ parent[p] # Tino
    /\ Collect(p)
    /\ UNCHANGED <<parent, group, mainStatus, pending, arrivals, now>>

(* A signal is sent to tino.  Standard signals do not queue: one already   *)
(* pending absorbs the next.                                               *)
Arrive(k) ==
    /\ \/ k \in Flood /\ arrivals' = arrivals
       \/ k \in External \ Flood /\ arrivals < MaxArrivals
          /\ arrivals' = arrivals + 1
    /\ pending' = pending \cup {k}
    /\ UNCHANGED <<state, parent, group, mainStatus, now>>

Tick ==
    /\ now' = now + 1
    /\ UNCHANGED <<state, parent, group, mainStatus, pending, arrivals>>

Kernel ==
    \/ \E p \in Procs, d \in Descendants : Fork(p, d)
    \/ \E p \in Procs : LeaveGroup(p) \/ ReapedElsewhere(p)
    \/ \E p \in Procs, s \in Possible : Die(p, s)
    \/ \E k \in External \cup Flood : Arrive(k)
=============================================================================
