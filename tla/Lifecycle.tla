----------------------------- MODULE Lifecycle -----------------------------
(***************************************************************************)
(* run_impl of src/platform/unix/mod.rs as the process that called         *)
(* tino::run experiences it: what of that process's own state (signal      *)
(* mask, dispositions, pending signals, subreaper flag) it changes, and    *)
(* how it puts everything back on every way out.  The supervision in       *)
(* between is Supervisor's; here it only reads signals and ends.           *)
(*                                                                         *)
(* pc is the next call:                                                    *)
(*   setup     inspect block signalfd reaping prepare subreaper spawn      *)
(*   run       supervise                                                   *)
(*   restore   rSub rChld rMask rIgnore rDiscard rUndo                     *)
(*   returned                                                              *)
(***************************************************************************)
EXTENDS ThreadSignals

CONSTANTS
    Excluded,      \* SIGNALS_EXCLUDED_FROM_SIGNALFD
    Subreaper,     \* --subreaper
    DrainLimit,    \* the attempts of discard_pending_signal
    Faults         \* what may fail: query (of the threads, the mask, the
                   \*   pending signals), mask, signalfd, sigaction, wait
                   \*   (sigtimedwait), interrupt (of it), prepare, prctl,
                   \*   capability (of prctl), fork

ASSUME LifecycleAssumption ==
    /\ Excluded \subseteq Signals \ {Chld}
    /\ Subreaper \in BOOLEAN
    /\ DrainLimit \in Nat \ {0}

VARIABLES
    sub,           \* the process adopts orphans
    caller,        \* history: what the caller's state was
    pc,
    previous,      \* previous_mask
    accepted,      \* the signals the signalfd reads
    chldSaved,     \* ChildReapingRestore: the saved action, if any
    subSaved,      \* SubreaperRestore: the saved flag, if any
    todo,          \* restore_signal_delivery: signals not treated yet,
    draining,      \* ... the one being discarded,
    ignored,       \* ... the actions to restore,
    restoreMask,   \* ... and the mask to set
    budget,        \* discard_pending_signal: attempts left
    failed,        \* the result is an error
    refused,       \* history: what a failed call left unrestored
    owned,         \* history: pending signals that came for supervision
    hit            \* history: those of them that hit the caller

guards  == <<previous, accepted, chldSaved, subSaved>>
work    == <<todo, draining, ignored, restoreMask, budget>>
outcome == <<failed, refused>>
history == <<caller, owned, hit>>
vars    == <<signalVars, sub, pc, guards, work, outcome, history>>

None == "none"

Before    == {"inspect", "block"}
Blocked   == {"signalfd", "reaping", "prepare", "subreaper", "spawn",
              "supervise", "rSub", "rChld", "rMask", "rIgnore", "rDiscard"}

\* The calls after SIGCHLD's disposition was replaced, until it is put back.
Reaping   == {"prepare", "subreaper", "spawn", "supervise", "rSub", "rChld"}

Action(s) == <<"action", s>>
Mask      == <<"mask", None>>
Adoption  == <<"subreaper", None>>
Restorations == {Action(s) : s \in Signals} \cup {Mask, Adoption}

TypeOK ==
    /\ SignalsTypeOK
    /\ sub \in BOOLEAN
    /\ caller \in [mask : SUBSET Signals, disp : [Signals -> Dispositions],
                   pending : SUBSET Signals, sub : BOOLEAN]
    /\ pc \in Before \cup Blocked \cup {"rUndo", "returned"}
    /\ previous \subseteq Signals /\ accepted \subseteq Signals
    /\ chldSaved \in Dispositions \cup {None}
    /\ subSaved \in {"yes", "no", None}
    /\ chldSaved = None => subSaved = None /\ pc \notin Reaping
    /\ todo \subseteq Signals /\ draining \in Signals
    /\ ignored \subseteq [sig : Signals, how : Dispositions]
    /\ restoreMask \subseteq Signals
    /\ budget \in 0..DrainLimit
    /\ failed \in BOOLEAN /\ refused \subseteq Restorations
    /\ owned \subseteq Signals /\ hit \subseteq Signals

(* Any caller: it may block, ignore or handle anything. *)
Init ==
    /\ mask \in SUBSET Signals
    /\ disp \in [Signals -> Dispositions]
    /\ pending \in SUBSET mask
    /\ sub \in BOOLEAN
    /\ caller = [mask |-> mask, disp |-> disp, pending |-> pending, sub |-> sub]
    /\ pc = "inspect"
    /\ previous = {} /\ accepted = {} /\ chldSaved = None /\ subSaved = None
    /\ todo = {} /\ draining = Chld /\ ignored = {} /\ restoreMask = {}
    /\ budget = 0
    /\ failed = FALSE /\ refused = {}
    /\ owned = {} /\ hit = {}

Goto(label) == pc' = label

Leave(label) == Goto(label) /\ failed' = TRUE

(* A call that restores something fails: so does the run. *)
Refuse(call, what) ==
    /\ call \in Faults
    /\ refused' = refused \cup {what}
    /\ failed' = TRUE

----------------------------------------------------------------------------
(* setup_signal_delivery.                                                  *)

MutInspect ==
    /\ pc = "inspect"
    /\ previous' = mask
    /\ accepted' = Signals \ Excluded
    /\ Goto("block")
    /\ UNCHANGED <<signalVars, sub, chldSaved, subSaved, work, outcome, history>>

(* What was pending for the blocked caller stays the caller's. *)
Inspect ==
    /\ pc = "inspect"
    /\ previous' = mask
    /\ accepted' = (Signals \ Excluded) \ ((pending \cap mask) \ {Chld})
    /\ Goto("block")
    /\ UNCHANGED <<signalVars, sub, chldSaved, subSaved, work, outcome, history>>

Block ==
    /\ pc = "block"
    /\ SetMask((Signals \ Excluded) \cup (Excluded \cap previous))
    /\ Goto("signalfd")
    /\ UNCHANGED <<sub, guards, work, outcome, history>>

(* Another thread, or a failing call: nothing has changed yet. *)
SetupFault ==
    /\ \/ pc = "inspect" /\ "query" \in Faults
       \/ pc = "block" /\ "mask" \in Faults
    /\ Leave("returned")
    /\ UNCHANGED <<signalVars, sub, guards, work, refused, history>>

OpenSignalFd ==
    /\ pc = "signalfd"
    /\ Goto("reaping")
    /\ UNCHANGED <<signalVars, sub, guards, work, outcome, history>>

(* Without a signalfd the mask goes straight back. *)
OpenSignalFdFault ==
    /\ pc = "signalfd"
    /\ "signalfd" \in Faults
    /\ \/ SetMask(previous) /\ Leave("returned") /\ UNCHANGED refused
       \/ UNCHANGED signalVars /\ Refuse("mask", Mask) /\ Goto("returned")
    /\ UNCHANGED <<sub, guards, work, history>>

----------------------------------------------------------------------------
(* run_impl up to the end of the supervision.                              *)

EnableReaping ==
    /\ pc = "reaping"
    /\ chldSaved' = disp[Chld]
    /\ SetAction(Chld, "default")
    /\ Goto("prepare")
    /\ UNCHANGED <<sub, previous, accepted, subSaved, work, outcome, history>>

(* The command, its policy, its arguments. *)
Prepare ==
    /\ pc = "prepare"
    /\ Goto(IF Subreaper THEN "subreaper" ELSE "spawn")
    /\ UNCHANGED <<signalVars, sub, guards, work, outcome, history>>

(* configure_parent_prctl; not being allowed to is no error. *)
EnableSubreaper ==
    /\ pc = "subreaper"
    /\ \/ sub' = TRUE /\ subSaved' = IF sub THEN "yes" ELSE "no"
       \/ "capability" \in Faults /\ UNCHANGED <<sub, subSaved>>
    /\ Goto("spawn")
    /\ UNCHANGED <<signalVars, previous, accepted, chldSaved, work, outcome,
                   history>>

Spawn ==
    /\ pc = "spawn"
    /\ Goto("supervise")
    /\ UNCHANGED <<signalVars, sub, guards, work, outcome, history>>

(* The guards that exist so far run, in the order of the normal way out. *)
FirstGuard == IF subSaved # None THEN "rSub"
              ELSE IF chldSaved # None THEN "rChld" ELSE "rMask"

StartFault ==
    /\ \/ pc = "reaping" /\ "sigaction" \in Faults
       \/ pc = "prepare" /\ "prepare" \in Faults
       \/ pc = "subreaper" /\ "prctl" \in Faults
       \/ pc = "spawn" /\ "fork" \in Faults
    /\ Leave(FirstGuard)
    /\ UNCHANGED <<signalVars, sub, guards, work, refused, history>>

(* The supervision reads a signal ... *)
ReadSignal ==
    /\ pc = "supervise"
    /\ \E s \in accepted \cap pending :
          pending' = pending \ {s} /\ owned' = owned \ {s}
    /\ UNCHANGED <<mask, disp, sub, pc, guards, work, outcome, caller, hit>>

(* ... and ends, well or not. *)
SuperviseEnd ==
    /\ pc = "supervise"
    /\ Goto(FirstGuard)
    /\ failed' \in BOOLEAN
    /\ UNCHANGED <<signalVars, sub, guards, work, refused, history>>

----------------------------------------------------------------------------
(* The restorations, each attempted whatever failed before.                *)

MutRestoreSubreaper ==
    /\ pc = "rSub"
    /\ \/ sub' = (subSaved = "yes") /\ Goto("rChld") /\ UNCHANGED outcome
       \/ Refuse("prctl", Adoption) /\ Goto("rMask") /\ UNCHANGED sub
    /\ UNCHANGED <<signalVars, guards, work, history>>

RestoreSubreaper ==
    /\ pc = "rSub"
    /\ \/ sub' = (subSaved = "yes") /\ UNCHANGED outcome
       \/ Refuse("prctl", Adoption) /\ UNCHANGED sub
    /\ Goto("rChld")
    /\ UNCHANGED <<signalVars, guards, work, history>>

RestoreReaping ==
    /\ pc = "rChld"
    /\ \/ SetAction(Chld, chldSaved) /\ UNCHANGED outcome
       \/ Refuse("sigaction", Action(Chld)) /\ UNCHANGED signalVars
    /\ Goto("rMask")
    /\ UNCHANGED <<sub, guards, work, history>>

MutToTreat == mask \ previous

(* The signals supervision blocked and the caller did not.  SIGCHLD is     *)
(* not ignored: it may announce a child of the caller.                     *)
ToTreat == (mask \ previous) \ {Chld}

(* restore_signal_delivery *)
RestoreDelivery ==
    /\ pc = "rMask"
    /\ \/ /\ todo' = ToTreat
          /\ restoreMask' = previous
          /\ Goto("rIgnore")
          /\ UNCHANGED outcome
       \/ /\ Refuse("query", Mask)
          /\ Goto("returned")
          /\ UNCHANGED <<todo, restoreMask>>
    /\ UNCHANGED <<signalVars, sub, guards, draining, ignored, budget, history>>

IgnoreSignal ==
    /\ pc = "rIgnore"
    /\ \E s \in todo :
          /\ SetAction(s, "ignore")
          /\ ignored' = ignored \cup {[sig |-> s, how |-> disp[s]]}
          /\ todo' = todo \ {s}
          /\ owned' = owned \ {s}
    /\ UNCHANGED <<pc, sub, guards, draining, restoreMask, budget, outcome,
                   caller, hit>>

(* A signal that cannot be ignored is drained instead. *)
IgnoreSignalFault ==
    /\ pc = "rIgnore"
    /\ "sigaction" \in Faults
    /\ draining' \in todo
    /\ budget' = DrainLimit
    /\ Goto("rDiscard")
    /\ UNCHANGED <<signalVars, sub, guards, todo, ignored, restoreMask, outcome,
                   history>>

MutDiscardFree ==
    /\ pc = "rDiscard"
    /\ \/ draining \in pending /\ pending' = pending \ {draining}
       \/ "interrupt" \in Faults /\ UNCHANGED pending
    /\ UNCHANGED <<mask, disp, sub, pc, guards, work, outcome, history>>

(* discard_pending_signal *)
DiscardOne ==
    /\ pc = "rDiscard"
    /\ budget > 0
    /\ budget' = budget - 1
    /\ \/ draining \in pending /\ pending' = pending \ {draining}
       \/ "interrupt" \in Faults /\ UNCHANGED pending
    /\ UNCHANGED <<mask, disp, sub, pc, guards, todo, draining, ignored,
                   restoreMask, outcome, history>>

DiscardDone ==
    /\ pc = "rDiscard"
    /\ draining \notin pending
    /\ todo' = todo \ {draining}
    /\ owned' = owned \ {draining}
    /\ Goto("rIgnore")
    /\ UNCHANGED <<signalVars, sub, guards, draining, ignored, restoreMask,
                   budget, outcome, caller, hit>>

MutKeepBlocked ==
    /\ pc = "rDiscard"
    /\ budget = 0 \/ "wait" \in Faults
    /\ todo' = todo \ {draining}
    /\ failed' = TRUE
    /\ Goto("rIgnore")
    /\ UNCHANGED <<signalVars, sub, guards, draining, ignored, restoreMask,
                   budget, refused, history>>

(* What cannot be discarded stays blocked, which is an error. *)
KeepBlocked ==
    /\ pc = "rDiscard"
    /\ \/ budget = 0 /\ (draining \in pending \/ "query" \in Faults)
       \/ budget > 0 /\ "wait" \in Faults
    /\ restoreMask' = restoreMask \cup {draining}
    /\ todo' = todo \ {draining}
    /\ failed' = TRUE
    /\ Goto("rIgnore")
    /\ UNCHANGED <<signalVars, sub, guards, draining, ignored, budget, refused,
                   history>>

Unblock ==
    /\ pc = "rIgnore"
    /\ todo = {}
    /\ \/ /\ SetMask(restoreMask)
          /\ hit' = hit \cup ((Felt(restoreMask) \cap owned) \ {Chld})
          /\ UNCHANGED outcome
       \/ /\ Refuse("mask", Mask)
          /\ UNCHANGED <<signalVars, hit>>
    /\ Goto("rUndo")
    /\ UNCHANGED <<sub, guards, work, caller, owned>>

Undo ==
    /\ pc = "rUndo"
    /\ \E a \in ignored :
          /\ \/ SetAction(a.sig, a.how) /\ UNCHANGED outcome
             \/ Refuse("sigaction", Action(a.sig)) /\ UNCHANGED signalVars
          /\ ignored' = ignored \ {a}
    /\ UNCHANGED <<sub, pc, guards, todo, draining, restoreMask, budget, history>>

Return ==
    /\ pc = "rUndo"
    /\ ignored = {}
    /\ Goto("returned")
    /\ UNCHANGED <<signalVars, sub, guards, work, outcome, history>>

----------------------------------------------------------------------------
(* Signals are sent to the process at any time.  Those it did not block    *)
(* itself are the supervision's, until they have been treated.             *)
Arrive(s) ==
    /\ pc # "returned"
    /\ Generate(s)
    /\ LET ours == /\ pc \in Blocked
                   /\ s \notin Excluded
                   /\ pc \in {"rIgnore", "rDiscard"} => s \in todo
       IN  /\ owned' = IF ours /\ s \in mask THEN owned \cup {s} ELSE owned
           /\ hit' = IF ours /\ s \notin mask /\ ~Discards(s, disp[s])
                     THEN hit \cup {s} ELSE hit
    /\ UNCHANGED <<sub, pc, guards, work, outcome, caller>>

Run ==
    \/ Inspect \/ Block \/ SetupFault \/ OpenSignalFd \/ OpenSignalFdFault
    \/ EnableReaping \/ Prepare \/ EnableSubreaper \/ Spawn \/ StartFault
    \/ ReadSignal \/ SuperviseEnd
    \/ RestoreSubreaper \/ RestoreReaping \/ RestoreDelivery
    \/ IgnoreSignal \/ IgnoreSignalFault \/ DiscardOne \/ DiscardDone
    \/ KeepBlocked \/ Unblock \/ Undo \/ Return

Next == Run \/ \E s \in Signals : Arrive(s)

Spec == Init /\ [][Next]_vars
FairSpec == Spec /\ WF_vars(Run)

----------------------------------------------------------------------------
(* A signal that was pending for the caller, blocked, before tino started  *)
(* is neither forwarded nor lost: it is pending in every state.            *)
BacklogKept == caller.pending \ {Chld} \subseteq pending

(* No signal meant for the supervised command reaches the caller: none is  *)
(* delivered while tino works, and what it leaves unread is thrown away or *)
(* stays blocked.  (Without a signalfd nothing was supervised, and the     *)
(* signals that came meanwhile are the caller's.)                          *)
NoStray == hit = {}

(* On every way out the caller's mask, each of its dispositions and its    *)
(* subreaper flag are back, but for those whose own restoration failed: a  *)
(* failure keeps none of the others from being attempted.  Then tino       *)
(* reports an error, and only ever blocks more than the caller did.        *)
Restored ==
    pc = "returned"
        => /\ \A s \in Signals : disp[s] # caller.disp[s] => Action(s) \in refused
           /\ sub # caller.sub => Adoption \in refused
           /\ caller.mask \subseteq mask
           /\ mask # caller.mask => failed
           /\ refused # {} => failed

(* The caller has its process back as it was, its pending signals included. *)
CallerUndisturbed == BacklogKept /\ Restored

(* A SIGCHLD that is pending when tino puts the process back meets the     *)
(* caller's own disposition: it may announce a child of the caller.        *)
ChldMeetsCaller ==
    /\ pc \in {"rMask", "rIgnore", "rDiscard", "rUndo"}
    /\ Chld \in pending \ pending'
    => \/ Action(Chld) \in refused
       \/ (pc = "rIgnore" /\ disp[Chld] = caller.disp[Chld])
ChldKept == [][ChldMeetsCaller]_vars

(* However fast signals arrive, the restoration ends: its drain is bounded.*)
RestoreEnds == pc \in {"rSub", "rChld", "rMask"} ~> pc = "returned"
=============================================================================
