-------------------------- MODULE LifecycleProofs --------------------------
(***************************************************************************)
(* Proofs about Lifecycle, for every set of signals, every caller and      *)
(* every set of failing calls.  Three invariants build on each other: what *)
(* the caller had blocked stays blocked (BacklogInv), what came for the    *)
(* supervision is accounted for (StrayInv), and what was changed is still  *)
(* known (RestoreInv).                                                     *)
(***************************************************************************)
EXTENDS Lifecycle, TLAPS

Delivering == {"rIgnore", "rDiscard", "rUndo"}
Starting   == {"inspect", "block"}

\* The caller's blocked signals stay blocked, and are neither read nor
\* discarded, because setup remembers the mask and what was pending behind it.
BacklogInv ==
    /\ BacklogKept
    /\ caller.pending \subseteq caller.mask
    /\ caller.mask \subseteq mask
    /\ pc \in Starting => mask = caller.mask
    /\ pc \notin {"inspect", "returned"} =>
        /\ previous = caller.mask
        /\ accepted \cap (caller.pending \ {Chld}) = {}
    /\ todo \cap caller.mask = {}
    /\ pc = "rDiscard" => draining \in todo
    /\ \A a \in ignored : a.sig \notin caller.mask
    /\ pc \in Delivering => caller.mask \subseteq restoreMask

\* A signal that came for the supervision is read, discarded, on the list of
\* those to discard, or stays blocked.
StrayInv ==
    /\ hit = {}
    /\ pc \in Starting => owned = {} /\ todo = {}
    /\ pc \in Blocked => Signals \ Excluded \subseteq mask
    /\ todo \subseteq mask \/ pc \in {"rUndo", "returned"}
    /\ owned \subseteq mask \/ pc \in {"rUndo", "returned"}
    /\ pc \in {"rIgnore", "rDiscard"} =>
        owned \subseteq todo \cup restoreMask \cup {Chld}

Setup     == Starting \cup {"signalfd", "reaping", "prepare", "subreaper"}
Unrefused == Setup \cup {"spawn", "supervise", "rSub"}

\* Dispositions and masks: what is not the caller's is in a guard, or on the
\* list of ignored signals.
DispositionInv ==
    /\ refused # {} => failed
    /\ pc \in Unrefused => refused = {}
    /\ pc \notin {"rUndo", "returned"} =>
        \A s \in Signals \ {Chld} : Action(s) \notin refused
    /\ pc \in Setup \ Reaping => chldSaved = None /\ subSaved = None
    /\ pc \in Reaping => chldSaved = caller.disp[Chld]
    /\ \A s \in Signals :
        \/ disp[s] = caller.disp[s]
        \/ Action(s) \in refused
        \/ s = Chld /\ pc \in Reaping
        \/ \E a \in ignored : a.sig = s
    /\ \A a \in ignored : a.how = caller.disp[a.sig]
    /\ \A a \in ignored : a.sig \notin todo \cup {Chld}
    /\ Chld \notin todo
    /\ pc \notin Delivering => ignored = {}
    /\ pc \in {"rIgnore", "rDiscard"} /\ restoreMask # caller.mask => failed
    /\ pc \in {"rUndo", "returned"} /\ mask # caller.mask => failed

\* The subreaper flag: SubreaperRestore knows the caller's.
SubreaperInv ==
    /\ pc \in Setup => subSaved = None
    /\ pc = "rSub" => subSaved # None
    /\ pc \in Unrefused =>
        IF subSaved = None THEN sub = caller.sub
        ELSE (subSaved = "yes") <=> caller.sub
    /\ pc \notin Unrefused => sub = caller.sub \/ Adoption \in refused

-----------------------------------------------------------------------------
(* Types.                                                                  *)

LEMMA InitType == Init => TypeOK
<1> SUFFICES ASSUME Init PROVE TypeOK
  OBVIOUS
<1>1. SignalsTypeOK
  BY DEF Init, SignalsTypeOK
<1>2. caller \in [mask : SUBSET Signals, disp : [Signals -> Dispositions],
                  pending : SUBSET Signals, sub : BOOLEAN]
  BY DEF Init
<1>3. budget \in 0 .. DrainLimit
  BY LifecycleAssumption DEF Init
<1> QED
  BY <1>1, <1>2, <1>3, SignalAssumption
     DEF Init, TypeOK, Before, Reaping, None

LEMMA TypeStep == TypeOK /\ [Next]_vars => TypeOK'
<1> SUFFICES ASSUME TypeOK, [Next]_vars PROVE TypeOK'
  OBVIOUS
<1> USE SignalAssumption, LifecycleAssumption
    DEF TypeOK, SignalsTypeOK, Before, Blocked, Reaping, Dispositions, None,
        Goto, Leave, Refuse, SetMask, SetAction, Discards,
        guards, work, outcome, history, signalVars
<1>r. /\ Mask \in Restorations /\ Adoption \in Restorations
      /\ \A s \in Signals : Action(s) \in Restorations
  BY DEF Restorations
<1> USE <1>r
<1>1. CASE Inspect BY <1>1 DEF Inspect
<1>2. CASE Block BY <1>2 DEF Block
<1>3. CASE SetupFault BY <1>3 DEF SetupFault
<1>4. CASE OpenSignalFd BY <1>4 DEF OpenSignalFd
<1>5. CASE OpenSignalFdFault BY <1>5 DEF OpenSignalFdFault
<1>6. CASE EnableReaping BY <1>6 DEF EnableReaping
<1>7. CASE Prepare BY <1>7 DEF Prepare
<1>8. CASE EnableSubreaper BY <1>8 DEF EnableSubreaper
<1>9. CASE Spawn BY <1>9 DEF Spawn
<1>10. CASE StartFault BY <1>10 DEF StartFault, FirstGuard
<1>11. CASE ReadSignal BY <1>11 DEF ReadSignal
<1>12. CASE SuperviseEnd BY <1>12 DEF SuperviseEnd, FirstGuard
<1>13. CASE RestoreSubreaper
  <2>1. sub' \in BOOLEAN
    BY <1>13 DEF RestoreSubreaper
  <2>2. /\ pc = "rSub" /\ pc' = "rChld"
        /\ failed' \in BOOLEAN /\ refused' \subseteq Restorations
        /\ UNCHANGED <<signalVars, guards, work, history>>
    BY <1>13 DEF RestoreSubreaper
  <2> QED BY <2>1, <2>2
<1>14. CASE RestoreReaping BY <1>14 DEF RestoreReaping
<1>15. CASE RestoreDelivery BY <1>15 DEF RestoreDelivery, ToTreat
<1>16. CASE IgnoreSignal BY <1>16 DEF IgnoreSignal
<1>17. CASE IgnoreSignalFault BY <1>17 DEF IgnoreSignalFault
<1>18. CASE DiscardOne BY <1>18 DEF DiscardOne
<1>19. CASE DiscardDone BY <1>19 DEF DiscardDone
<1>20. CASE KeepBlocked BY <1>20 DEF KeepBlocked
<1>21. CASE Unblock BY <1>21 DEF Unblock, Felt
<1>22. CASE Undo BY <1>22 DEF Undo
<1>23. CASE Return BY <1>23 DEF Return
<1>24. CASE \E s \in Signals : Arrive(s) BY <1>24 DEF Arrive, Generate
<1>25. CASE UNCHANGED vars BY <1>25 DEF vars
<1> QED
  BY <1>1, <1>2, <1>3, <1>4, <1>5, <1>6, <1>7, <1>8, <1>9, <1>10, <1>11,
     <1>12, <1>13, <1>14, <1>15, <1>16, <1>17, <1>18, <1>19, <1>20, <1>21,
     <1>22, <1>23, <1>24, <1>25 DEF Next, Run

\* Every variable of the caller's state has its type (run_impl).
THEOREM LifecycleTypeCorrect == Spec => []TypeOK
BY InitType, TypeStep, PTL DEF Spec

-----------------------------------------------------------------------------
(* The caller's backlog.                                                   *)

LEMMA BacklogStep == TypeOK /\ BacklogInv /\ [Next]_vars => BacklogInv'
<1> SUFFICES ASSUME TypeOK, BacklogInv, [Next]_vars PROVE BacklogInv'
  OBVIOUS
<1> USE DEF BacklogInv, BacklogKept, Starting, Delivering,
            Goto, Leave, Refuse, SetMask, guards, work, outcome, history,
            signalVars
<1>1. CASE Inspect BY <1>1 DEF Inspect
<1>2. CASE Block
  <2>1. caller.mask \subseteq mask'
    BY <1>2 DEF Block, TypeOK
  <2> QED BY <1>2, <2>1 DEF Block
<1>3. CASE SetupFault BY <1>3 DEF SetupFault
<1>4. CASE OpenSignalFd BY <1>4 DEF OpenSignalFd
<1>5. CASE OpenSignalFdFault BY <1>5 DEF OpenSignalFdFault
<1>6. CASE EnableReaping BY <1>6 DEF EnableReaping, SetAction
<1>7. CASE Prepare BY <1>7 DEF Prepare
<1>8. CASE EnableSubreaper BY <1>8 DEF EnableSubreaper
<1>9. CASE Spawn BY <1>9 DEF Spawn
<1>10. CASE StartFault BY <1>10 DEF StartFault, FirstGuard
<1>11. CASE ReadSignal BY <1>11 DEF ReadSignal
<1>12. CASE SuperviseEnd BY <1>12 DEF SuperviseEnd, FirstGuard
<1>13. CASE RestoreSubreaper BY <1>13 DEF RestoreSubreaper
<1>14. CASE RestoreReaping BY <1>14 DEF RestoreReaping, SetAction
<1>15. CASE RestoreDelivery BY <1>15 DEF RestoreDelivery, ToTreat
<1>16. CASE IgnoreSignal
  <2>1. PICK s \in todo :
            /\ SetAction(s, "ignore")
            /\ ignored' = ignored \cup {[sig |-> s, how |-> disp[s]]}
            /\ todo' = todo \ {s}
    BY <1>16 DEF IgnoreSignal
  <2>2. \A a \in ignored' : a.sig \notin caller.mask
    BY <2>1
  <2> QED BY <1>16, <2>1, <2>2 DEF IgnoreSignal, SetAction
<1>17. CASE IgnoreSignalFault BY <1>17 DEF IgnoreSignalFault
<1>18. CASE DiscardOne BY <1>18 DEF DiscardOne
<1>19. CASE DiscardDone BY <1>19 DEF DiscardDone
<1>20. CASE KeepBlocked BY <1>20 DEF KeepBlocked
<1>21. CASE Unblock BY <1>21 DEF Unblock
<1>22. CASE Undo BY <1>22 DEF Undo, SetAction
<1>23. CASE Return BY <1>23 DEF Return
<1>24. CASE \E s \in Signals : Arrive(s) BY <1>24 DEF Arrive, Generate
<1>25. CASE UNCHANGED vars BY <1>25 DEF vars
<1> QED
  BY <1>1, <1>2, <1>3, <1>4, <1>5, <1>6, <1>7, <1>8, <1>9, <1>10, <1>11,
     <1>12, <1>13, <1>14, <1>15, <1>16, <1>17, <1>18, <1>19, <1>20, <1>21,
     <1>22, <1>23, <1>24, <1>25 DEF Next, Run

LEMMA BacklogInvariant == Spec => []BacklogInv
<1>1. Init => BacklogInv
  BY DEF Init, BacklogInv, BacklogKept, Starting, Delivering
<1> QED BY <1>1, BacklogStep, LifecycleTypeCorrect, PTL DEF Spec

\* Signals that were pending for the caller before run_impl stay pending in
\* every state, whatever fails (setup_signal_delivery, restore_signal_delivery).
THEOREM BacklogNeverTouched == Spec => []BacklogKept
<1>1. BacklogInv => BacklogKept
  BY DEF BacklogInv
<1> QED BY <1>1, BacklogInvariant, PTL

-----------------------------------------------------------------------------
(* Signals of the supervision.                                             *)

LEMMA StrayStep ==
    TypeOK /\ BacklogInv /\ StrayInv /\ [Next]_vars => StrayInv'
<1> SUFFICES ASSUME TypeOK, BacklogInv, StrayInv, [Next]_vars PROVE StrayInv'
  OBVIOUS
<1> USE DEF StrayInv, Starting, Blocked, Goto, Leave, Refuse,
            guards, work, outcome, history, signalVars
<1>1. CASE Inspect BY <1>1 DEF Inspect
<1>2. CASE Block BY <1>2 DEF Block, SetMask
<1>3. CASE SetupFault BY <1>3 DEF SetupFault
<1>4. CASE OpenSignalFd BY <1>4 DEF OpenSignalFd
<1>5. CASE OpenSignalFdFault BY <1>5 DEF OpenSignalFdFault, SetMask
<1>6. CASE EnableReaping BY <1>6 DEF EnableReaping, SetAction
<1>7. CASE Prepare BY <1>7 DEF Prepare
<1>8. CASE EnableSubreaper BY <1>8 DEF EnableSubreaper
<1>9. CASE Spawn BY <1>9 DEF Spawn
<1>10. CASE StartFault BY <1>10 DEF StartFault, FirstGuard
<1>11. CASE ReadSignal BY <1>11 DEF ReadSignal
<1>12. CASE SuperviseEnd BY <1>12 DEF SuperviseEnd, FirstGuard
<1>13. CASE RestoreSubreaper BY <1>13 DEF RestoreSubreaper
<1>14. CASE RestoreReaping BY <1>14 DEF RestoreReaping, SetAction
<1>15. CASE RestoreDelivery BY <1>15 DEF RestoreDelivery, ToTreat
<1>16. CASE IgnoreSignal BY <1>16 DEF IgnoreSignal, SetAction
<1>17. CASE IgnoreSignalFault BY <1>17 DEF IgnoreSignalFault
<1>18. CASE DiscardOne BY <1>18 DEF DiscardOne
<1>19. CASE DiscardDone BY <1>19 DEF DiscardDone
<1>20. CASE KeepBlocked BY <1>20 DEF KeepBlocked
<1>21. CASE Unblock
  <2>1. (Felt(restoreMask) \cap owned) \ {Chld} = {}
    BY <1>21 DEF Unblock, Felt
  <2> QED BY <1>21, <2>1 DEF Unblock, SetMask
<1>22. CASE Undo BY <1>22 DEF Undo, SetAction
<1>23. CASE Return BY <1>23 DEF Return
<1>24. CASE \E s \in Signals : Arrive(s)
  <2>1. PICK s \in Signals : Arrive(s)
    BY <1>24
  <2>2. UNCHANGED <<mask, pc, todo, restoreMask>>
    BY <2>1 DEF Arrive, Generate
  <2>3. owned' \subseteq owned \cup {s} /\ (owned' = owned \/ s \in mask)
    BY <2>1 DEF Arrive
  <2>4. hit' = {}
    BY <2>1 DEF Arrive
  <2>5. pc \in Starting => owned' = owned
    BY <2>1 DEF Arrive
  <2>6. pc \in {"rIgnore", "rDiscard"} => owned' = owned \/ s \in todo
    BY <2>1 DEF Arrive
  <2> QED BY <2>2, <2>3, <2>4, <2>5, <2>6
<1>25. CASE UNCHANGED vars BY <1>25 DEF vars
<1> QED
  BY <1>1, <1>2, <1>3, <1>4, <1>5, <1>6, <1>7, <1>8, <1>9, <1>10, <1>11,
     <1>12, <1>13, <1>14, <1>15, <1>16, <1>17, <1>18, <1>19, <1>20, <1>21,
     <1>22, <1>23, <1>24, <1>25 DEF Next, Run

\* No signal that came for the supervised command is delivered to the caller,
\* on any way out of run_impl and however the restoration fails.
THEOREM NoSignalStrays == Spec => []NoStray
<1>1. Init => StrayInv
  BY DEF Init, StrayInv, Blocked
<1>2. StrayInv => NoStray
  BY DEF StrayInv, NoStray
<1> QED
  BY <1>1, <1>2, StrayStep, BacklogInvariant, LifecycleTypeCorrect, PTL DEF Spec

-----------------------------------------------------------------------------
(* Everything is put back.                                                 *)

LEMMA RestorationsApart ==
    \A s, u \in Signals : Action(s) # Adoption /\ (Action(s) = Action(u) => s = u)
BY DEF Action, Adoption

LEMMA DispositionStep ==
    TypeOK /\ BacklogInv /\ DispositionInv /\ [Next]_vars => DispositionInv'
<1> SUFFICES ASSUME TypeOK, BacklogInv, DispositionInv, [Next]_vars
             PROVE  DispositionInv'
  OBVIOUS
<1> USE SignalAssumption
    DEF DispositionInv, Setup, Unrefused, Starting, Delivering, Reaping,
        Goto, Leave, Refuse, guards, work, outcome, history, signalVars
<1>1. CASE Inspect BY <1>1 DEF Inspect
<1>2. CASE Block BY <1>2 DEF Block, SetMask
<1>3. CASE SetupFault BY <1>3 DEF SetupFault
<1>4. CASE OpenSignalFd BY <1>4 DEF OpenSignalFd
<1>5. CASE OpenSignalFdFault BY <1>5 DEF OpenSignalFdFault, SetMask, BacklogInv
<1>6. CASE EnableReaping
  BY <1>6 DEF EnableReaping, SetAction, TypeOK, SignalsTypeOK
<1>7. CASE Prepare BY <1>7 DEF Prepare
<1>8. CASE EnableSubreaper BY <1>8 DEF EnableSubreaper
<1>9. CASE Spawn BY <1>9 DEF Spawn
<1>10. CASE StartFault BY <1>10 DEF StartFault, FirstGuard, TypeOK
<1>11. CASE ReadSignal BY <1>11 DEF ReadSignal
<1>12. CASE SuperviseEnd BY <1>12 DEF SuperviseEnd, FirstGuard, TypeOK
<1>13. CASE RestoreSubreaper
  BY <1>13, RestorationsApart DEF RestoreSubreaper
<1>14. CASE RestoreReaping
  <2>1. \A s \in Signals \ {Chld} : disp'[s] = disp[s] /\ Action(s) \notin refused'
    BY <1>14, RestorationsApart DEF RestoreReaping, SetAction, TypeOK, SignalsTypeOK
  <2>2. disp'[Chld] = caller.disp[Chld] \/ Action(Chld) \in refused'
    BY <1>14 DEF RestoreReaping, SetAction, TypeOK, SignalsTypeOK
  <2>3. pc = "rChld" /\ pc' = "rMask" /\ UNCHANGED <<mask, caller, ignored, todo>>
        /\ refused \subseteq refused' /\ (refused' # refused => failed')
        /\ (failed => failed')
    BY <1>14 DEF RestoreReaping, SetAction
  <2>4. \A s \in Signals : disp'[s] = caller.disp[s] \/ Action(s) \in refused'
    BY <2>1, <2>2, <2>3
  <2> QED BY <2>1, <2>3, <2>4
<1>15. CASE RestoreDelivery BY <1>15 DEF RestoreDelivery, ToTreat, BacklogInv
<1>16. CASE IgnoreSignal
  <2>1. PICK s \in todo :
            /\ SetAction(s, "ignore")
            /\ ignored' = ignored \cup {[sig |-> s, how |-> disp[s]]}
            /\ todo' = todo \ {s}
    BY <1>16 DEF IgnoreSignal
  <2> DEFINE new == [sig |-> s, how |-> disp[s]]
  <2>2. pc = "rIgnore" /\ UNCHANGED <<pc, mask, guards, restoreMask, outcome,
                                     caller>>
    BY <1>16, <2>1 DEF IgnoreSignal, SetAction
  <2>3. s \in Signals /\ s # Chld /\ \A a \in ignored : a.sig # s
    BY <2>1 DEF TypeOK
  <2>4. new.how = caller.disp[new.sig]
    BY <2>2, <2>3
  <2>5. \A t \in Signals : disp'[t] = disp[t] \/ t = new.sig
    BY <2>1 DEF SetAction, TypeOK, SignalsTypeOK
  <2>6. ignored' = ignored \cup {new}
    BY <2>1
  <2>7. \A t \in Signals :
            \/ disp'[t] = caller'.disp[t] \/ Action(t) \in refused'
            \/ \E a \in ignored' : a.sig = t
    BY <2>2, <2>5, <2>6
  <2>8. \A a \in ignored' : a.how = caller'.disp[a.sig]
    BY <2>2, <2>4, <2>6
  <2>9. \A a \in ignored' : a.sig \notin todo' \cup {Chld}
    BY <2>1, <2>3, <2>6
  <2> QED BY <2>1, <2>2, <2>7, <2>8, <2>9
<1>17. CASE IgnoreSignalFault BY <1>17 DEF IgnoreSignalFault
<1>18. CASE DiscardOne BY <1>18 DEF DiscardOne
<1>19. CASE DiscardDone BY <1>19 DEF DiscardDone
<1>20. CASE KeepBlocked BY <1>20 DEF KeepBlocked
<1>21. CASE Unblock BY <1>21 DEF Unblock, SetMask
<1>22. CASE Undo
  <2>1. PICK a \in ignored :
            /\ \/ SetAction(a.sig, a.how) /\ UNCHANGED outcome
               \/ Refuse("sigaction", Action(a.sig)) /\ UNCHANGED signalVars
            /\ ignored' = ignored \ {a}
    BY <1>22 DEF Undo
  <2>2. pc = "rUndo" /\ UNCHANGED <<pc, mask, guards, todo, restoreMask, caller>>
    BY <1>22, <2>1 DEF Undo, SetAction
  <2>3. a.sig \in Signals
    BY <2>1 DEF TypeOK
  <2>4. CASE Refuse("sigaction", Action(a.sig)) /\ UNCHANGED signalVars
    <3>1. \A t \in Signals :
            \/ disp'[t] = caller'.disp[t] \/ Action(t) \in refused'
            \/ \E b \in ignored' : b.sig = t
      BY <2>1, <2>2, <2>4
    <3> QED BY <2>1, <2>2, <2>4, <3>1
  <2>5. CASE SetAction(a.sig, a.how) /\ UNCHANGED outcome
    <3>1. \A t \in Signals : disp'[t] = IF t = a.sig THEN a.how ELSE disp[t]
      BY <2>5 DEF SetAction, TypeOK, SignalsTypeOK
    <3>2. \A t \in Signals :
            \/ disp'[t] = caller'.disp[t] \/ Action(t) \in refused'
            \/ \E b \in ignored' : b.sig = t
      BY <2>1, <2>2, <2>5, <3>1
    <3> QED BY <2>1, <2>2, <2>5, <3>2
  <2> QED BY <2>1, <2>4, <2>5
<1>23. CASE Return BY <1>23 DEF Return
<1>24. CASE \E s \in Signals : Arrive(s) BY <1>24 DEF Arrive, Generate
<1>25. CASE UNCHANGED vars BY <1>25 DEF vars
<1> QED
  BY <1>1, <1>2, <1>3, <1>4, <1>5, <1>6, <1>7, <1>8, <1>9, <1>10, <1>11,
     <1>12, <1>13, <1>14, <1>15, <1>16, <1>17, <1>18, <1>19, <1>20, <1>21,
     <1>22, <1>23, <1>24, <1>25 DEF Next, Run

LEMMA SubreaperStep ==
    TypeOK /\ DispositionInv /\ SubreaperInv /\ [Next]_vars => SubreaperInv'
<1> SUFFICES ASSUME TypeOK, DispositionInv, SubreaperInv, [Next]_vars
             PROVE  SubreaperInv'
  OBVIOUS
<1> USE DEF SubreaperInv, Setup, Unrefused, Starting, Goto, Leave,
            Refuse, guards, work, outcome, history
<1>1. CASE EnableSubreaper
  BY <1>1 DEF EnableSubreaper, TypeOK, None
<1>2. CASE RestoreSubreaper
  <2>1. pc = "rSub" /\ pc' = "rChld" /\ UNCHANGED <<subSaved, caller>>
    BY <1>2 DEF RestoreSubreaper
  <2>2. subSaved # None
    BY <2>1
  <2>3. sub' = caller.sub \/ Adoption \in refused'
    BY <1>2, <2>1, <2>2 DEF RestoreSubreaper, TypeOK
  <2> QED BY <2>1, <2>3
<1>3. CASE StartFault \/ SuperviseEnd
  <2>1. UNCHANGED <<sub, subSaved, caller>> /\ pc \in Unrefused
    BY <1>3 DEF StartFault, SuperviseEnd
  <2>2. pc' = FirstGuard
    BY <1>3 DEF StartFault, SuperviseEnd
  <2> QED BY <2>1, <2>2 DEF FirstGuard
<1>4. CASE SetupFault \/ OpenSignalFdFault
  BY <1>4 DEF SetupFault, OpenSignalFdFault
<1>5. CASE Inspect \/ Block \/ OpenSignalFd \/ EnableReaping \/ Prepare
           \/ Spawn \/ ReadSignal
  BY <1>5 DEF Inspect, Block, OpenSignalFd, EnableReaping, Prepare, Spawn,
              ReadSignal
<1>6. CASE RestoreReaping \/ RestoreDelivery \/ IgnoreSignal
           \/ IgnoreSignalFault \/ DiscardOne \/ DiscardDone \/ KeepBlocked
           \/ Unblock \/ Undo \/ Return
  <2>1. pc \notin Unrefused /\ pc' \notin Unrefused
    BY <1>6 DEF RestoreReaping, RestoreDelivery, IgnoreSignal,
                IgnoreSignalFault, DiscardOne, DiscardDone, KeepBlocked,
                Unblock, Undo, Return
  <2>2. UNCHANGED <<sub, caller>> /\ refused \subseteq refused'
    BY <1>6 DEF RestoreReaping, RestoreDelivery, IgnoreSignal,
                IgnoreSignalFault, DiscardOne, DiscardDone, KeepBlocked,
                Unblock, Undo, Return
  <2> QED BY <2>1, <2>2
<1>7. CASE \E s \in Signals : Arrive(s) BY <1>7 DEF Arrive
<1>8. CASE UNCHANGED vars BY <1>8 DEF vars
<1> QED
  BY <1>1, <1>2, <1>3, <1>4, <1>5, <1>6, <1>7, <1>8 DEF Next, Run

\* Whatever failed, run_impl returns with the caller's mask, each of its
\* dispositions and its subreaper flag restored, except those whose own
\* restoration failed, and then with an error; it blocks no less than the
\* caller did.
THEOREM EverythingRestored == Spec => []Restored
<1>1. Init => DispositionInv /\ SubreaperInv
  BY DEF Init, DispositionInv, SubreaperInv, Setup, Unrefused, Starting,
         Delivering, Reaping
<1>2. TypeOK /\ BacklogInv /\ DispositionInv /\ SubreaperInv => Restored
  <2> SUFFICES ASSUME TypeOK, BacklogInv, DispositionInv, SubreaperInv,
                      pc = "returned"
               PROVE  /\ \A s \in Signals : disp[s] # caller.disp[s] => Action(s) \in refused
                      /\ sub # caller.sub => Adoption \in refused
                      /\ caller.mask \subseteq mask
                      /\ mask # caller.mask => failed
                      /\ refused # {} => failed
    BY DEF Restored
  <2>1. \A s \in Signals : disp[s] = caller.disp[s] \/ Action(s) \in refused
    BY DEF DispositionInv, Delivering, Reaping
  <2>2. sub = caller.sub \/ Adoption \in refused
    BY DEF SubreaperInv, Unrefused, Setup, Starting
  <2> QED BY <2>1, <2>2 DEF BacklogInv, DispositionInv
<1> QED
  BY <1>1, <1>2, DispositionStep, SubreaperStep, BacklogInvariant,
     LifecycleTypeCorrect, PTL DEF Spec

\* Nothing of the supervision is left in the caller's process, and nothing of
\* the caller's own is lost (run_impl as a library call).
THEOREM CallerNeverDisturbed == Spec => []CallerUndisturbed
BY BacklogNeverTouched, EverythingRestored, PTL DEF CallerUndisturbed

-----------------------------------------------------------------------------
(* A SIGCHLD of the caller's own child.                                    *)

LEMMA DispositionInvariant == Spec => []DispositionInv
<1>1. Init => DispositionInv
  BY DEF Init, DispositionInv, Setup, Unrefused, Starting, Delivering, Reaping
<1> QED
  BY <1>1, DispositionStep, BacklogInvariant, LifecycleTypeCorrect, PTL DEF Spec

\* A pending SIGCHLD is neither ignored nor drained on the way out: it is only
\* ever given to the caller's own disposition (restore_signal_delivery).
THEOREM ChildSignalKept == Spec => ChldKept
<1>1. TypeOK /\ BacklogInv /\ DispositionInv /\ [Next]_vars
        => [ChldMeetsCaller]_vars
  <2> SUFFICES ASSUME TypeOK, BacklogInv, DispositionInv, Next,
                      pc \in {"rMask", "rIgnore", "rDiscard", "rUndo"},
                      Chld \in pending \ pending'
               PROVE  \/ Action(Chld) \in refused
                      \/ (pc = "rIgnore" /\ disp[Chld] = caller.disp[Chld])
    BY DEF ChldMeetsCaller
  <2> USE DEF Goto, signalVars
  <2>1. disp[Chld] = caller.disp[Chld] \/ Action(Chld) \in refused
    BY SignalAssumption DEF DispositionInv, Reaping
  <2>2. CASE Unblock
    BY <2>1, <2>2 DEF Unblock
  <2>3. CASE IgnoreSignal
    <3>1. PICK s \in todo : SetAction(s, "ignore")
      BY <2>3 DEF IgnoreSignal
    <3>2. s # Chld
      BY DEF DispositionInv
    <3> QED BY <3>1, <3>2 DEF SetAction
  <2>4. CASE Undo
    <3>1. PICK a \in ignored : SetAction(a.sig, a.how) \/ UNCHANGED signalVars
      BY <2>4 DEF Undo
    <3>2. a.sig # Chld
      BY DEF DispositionInv
    <3> QED BY <3>1, <3>2 DEF SetAction
  <2>5. CASE DiscardOne
    <3>1. draining # Chld
      BY <2>5 DEF DiscardOne, BacklogInv, DispositionInv
    <3> QED BY <2>5, <3>1 DEF DiscardOne
  <2>6. CASE RestoreDelivery \/ IgnoreSignalFault \/ DiscardDone
             \/ KeepBlocked \/ Return
    BY <2>6 DEF RestoreDelivery, IgnoreSignalFault, DiscardDone, KeepBlocked,
                Return
  <2>7. CASE \E s \in Signals : Arrive(s)
    BY <2>7 DEF Arrive, Generate
  <2>8. Unblock \/ IgnoreSignal \/ Undo \/ DiscardOne \/ RestoreDelivery
          \/ IgnoreSignalFault \/ DiscardDone \/ KeepBlocked \/ Return
          \/ \E s \in Signals : Arrive(s)
    BY DEF Next, Run, Inspect, Block, SetupFault, OpenSignalFd,
           OpenSignalFdFault, EnableReaping, Prepare, EnableSubreaper, Spawn,
           StartFault, ReadSignal, SuperviseEnd, RestoreSubreaper,
           RestoreReaping
  <2> QED BY <2>2, <2>3, <2>4, <2>5, <2>6, <2>7, <2>8
<1> QED
  BY <1>1, DispositionInvariant, BacklogInvariant, LifecycleTypeCorrect, PTL
     DEF Spec, ChldKept
=============================================================================
