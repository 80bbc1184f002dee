--------------------------- MODULE ThreadSignals ---------------------------
(***************************************************************************)
(* Signals as the only thread of a process sees them: its mask, the        *)
(* dispositions and what is pending (sigprocmask, sigaction, kill).  The   *)
(* kernel does this; nothing of it is code of the repository.              *)
(***************************************************************************)
EXTENDS Naturals, FiniteSets

CONSTANTS
    Signals,   \* the signals of interest
    Chld       \* SIGCHLD: its default action is to be ignored

ASSUME SignalAssumption == Chld \in Signals

Dispositions == {"default", "ignore", "handler"}

VARIABLES
    mask,      \* the blocked signals
    disp,      \* what a signal does when it is delivered
    pending    \* generated, blocked, not delivered yet

signalVars == <<mask, disp, pending>>

SignalsTypeOK ==
    /\ mask \subseteq Signals
    /\ disp \in [Signals -> Dispositions]
    /\ pending \subseteq mask

Discards(s, how) == how = "ignore" \/ (how = "default" /\ s = Chld)

(* Unblocking delivers what was pending ... *)
SetMask(m) ==
    /\ mask' = m
    /\ pending' = pending \cap m
    /\ UNCHANGED disp

(* ... which a handler or a default action feels. *)
Felt(m) == {s \in pending \ m : ~Discards(s, disp[s])}

(* A disposition that ignores the signal empties its queue, blocked or not. *)
SetAction(s, how) ==
    /\ disp' = [disp EXCEPT ![s] = how]
    /\ pending' = IF Discards(s, how) THEN pending \ {s} ELSE pending
    /\ UNCHANGED mask

(* A signal that is sent waits if it is blocked; otherwise it is over. *)
Generate(s) ==
    /\ pending' = IF s \in mask THEN pending \cup {s} ELSE pending
    /\ UNCHANGED <<mask, disp>>
=============================================================================
