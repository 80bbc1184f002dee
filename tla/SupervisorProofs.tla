-------------------------- MODULE SupervisorProofs --------------------------
(***************************************************************************)
(* Theorems about Supervisor, for every workload, grace period, batch      *)
(* size and set of faults: first about the command, then about its group   *)
(* and the caller's other children.                                        *)
(***************************************************************************)
EXTENDS Supervisor, TLAPS

(* What the caller's constants satisfy. *)
USE ProcessAssumption, SupervisorAssumption

----------------------------------------------------------------------------
(* The supervisor's own steps and the kernel's, and what each leaves alone *)

LEMMA KernelTyped ==
  ASSUME KernelTypeOK, Kernel
  PROVE  KernelTypeOK'
<1> USE DEF KernelTypeOK, Procs, Statuses, NoStatus
<1>1. ASSUME NEW p \in Procs, NEW d \in Descendants, Fork(p, d)
      PROVE  KernelTypeOK'
  BY <1>1 DEF Fork
<1>2. ASSUME NEW p \in Procs, LeaveGroup(p)
      PROVE  KernelTypeOK'
  BY <1>2 DEF LeaveGroup
<1>3. ASSUME NEW p \in Procs, ReapedElsewhere(p)
      PROVE  KernelTypeOK'
  BY <1>3 DEF ReapedElsewhere, Collect
<1>4. ASSUME NEW p \in Procs, NEW s \in Possible, Die(p, s)
      PROVE  KernelTypeOK'
  <2>1. s \in Statuses
    BY DEF Possible, Killed
  <2>2. Heir \in {Tino, InitProc}
    BY DEF Heir
  <2>3. parent' \in [Procs -> Procs \cup {Tino, InitProc}]
    BY <1>4, <2>2 DEF Die
  <2>4. QED
    BY <1>4, <2>1, <2>3 DEF Die, Kinds
<1>5. ASSUME NEW k \in External \cup Flood, Arrive(k)
      PROVE  KernelTypeOK'
  BY <1>5 DEF Arrive
<1>6. QED
  BY <1>1, <1>2, <1>3, <1>4, <1>5 DEF Kernel

LEMMA DeliverTyped ==
  ASSUME KernelTypeOK, NEW S, NEW k, Deliver(S, k) \/ UNCHANGED state
  PROVE  /\ state' \in [Procs -> {"unborn", "run", "doomed", "zombie", "gone"}]
         /\ \A p \in Procs : \/ state'[p] = state[p]
                             \/ state[p] = "run" /\ state'[p] = "doomed"
  BY DEF KernelTypeOK, Deliver

LEMMA CollectTyped ==
  ASSUME KernelTypeOK, NEW p \in Procs, Collect(p)
  PROVE  /\ state' \in [Procs -> {"unborn", "run", "doomed", "zombie", "gone"}]
         /\ state'[p] = "gone"
         /\ \A q \in Procs \ {p} : state'[q] = state[q]
  BY DEF KernelTypeOK, Collect

LEMMA AfterTyped ==
  ASSUME NEW t \in Nat
  PROVE  /\ After(t) \in [kind : {"At", "Never"}, at : Nat]
         /\ After(t).kind = "At" => After(t).at = t + Grace
         /\ At(t) \in [kind : {"At"}, at : Nat]
         /\ At(t).at = t
  BY DEF After, At, Never

LEMMA CodeTyped ==
  ASSUME NEW s \in Statuses \cup {NoStatus}
  PROVE  CodeOf(s) \in Nat /\ FinalExit(CodeOf(s)) \in Nat
  BY DEF CodeOf, FinalExit, Statuses, NoStatus

(* The Boolean variables apart from the rest: no backend takes both.       *)
LEMMA FlagsTyped ==
  ASSUME TypeOK, [Next]_vars
  PROVE  FlagsOK'
<1> USE DEF TypeOK, FlagsOK, locals
<1>1. CASE Poll
  BY <1>1, Zenon DEF Poll
<1>2. CASE ReadOwn("read")
  BY <1>2, Zenon DEF ReadOwn, Dequeue
<1>3. CASE ReadChld
  BY <1>3, Zenon DEF ReadChld, Dequeue
<1>4. CASE ReadIgnored
  BY <1>4, Zenon DEF ReadIgnored, Dequeue
<1>5. CASE ReadForwardable
  BY <1>5, Zenon DEF ReadForwardable, Dequeue
<1>6. CASE ReadDone
  BY <1>6, Zenon DEF ReadDone
<1>7. CASE Reap
  BY <1>7, Zenon DEF Reap
<1>8. CASE ReapDone
  BY <1>8, Zenon DEF ReapDone
<1>9. CASE Forward
  BY <1>9, Zenon DEF Forward, Forwarding
<1>10. CASE Query
  BY <1>10, Zenon DEF Query, Forwarding
<1>11. CASE QueryFault
  BY <1>11, Zenon DEF QueryFault
<1>12. CASE Direct
  BY <1>12, Zenon DEF Direct, Forwarding
<1>13. CASE Check
  BY <1>13, Zenon DEF Check
<1>14. CASE Begin
  BY <1>14, Zenon DEF Begin
<1>15. CASE TermGroup
  BY <1>15, Zenon DEF TermGroup
<1>16. CASE ReadOwn("cread")
  BY <1>16, Zenon DEF ReadOwn, Dequeue
<1>17. CASE CleanupReadIgnored
  BY <1>17, Zenon DEF CleanupReadIgnored, Dequeue
<1>18. CASE CleanupReadForwardable
  BY <1>18, Zenon DEF CleanupReadForwardable, Dequeue
<1>19. CASE CleanupForward
  BY <1>19, Zenon DEF CleanupForward
<1>20. CASE CleanupReadDone
  BY <1>20, Zenon DEF CleanupReadDone
<1>21. CASE CleanupReap
  BY <1>21, Zenon DEF CleanupReap
<1>22. CASE CleanupReapDone
  BY <1>22, Zenon DEF CleanupReapDone
<1>23. CASE CleanupExists
  BY <1>23, Zenon DEF CleanupExists
<1>24. CASE CleanupWait
  BY <1>24, Zenon DEF CleanupWait
<1>25. CASE CleanupPoll
  BY <1>25, Zenon DEF CleanupPoll
<1>26. CASE KillGroup
  BY <1>26, Zenon DEF KillGroup
<1>27. CASE FailGroup
  BY <1>27, Zenon DEF FailGroup
<1>28. CASE FailMain
  BY <1>28, Zenon DEF FailMain
<1>29. CASE FailWait
  BY <1>29, Zenon DEF FailWait
<1>30. CASE FailGroupStart
  BY <1>30, Zenon DEF FailGroupStart
<1>31. CASE FailGroupReap
  BY <1>31, Zenon DEF FailGroupReap
<1>32. CASE FailGroupWait
  BY <1>32, Zenon DEF FailGroupWait
<1>33. CASE FailGroupKill
  BY <1>33, Zenon DEF FailGroupKill
<1>34. CASE FailSleep
  BY <1>34, Zenon DEF FailSleep
<1>35. CASE CallFault
  BY <1>35, Zenon DEF CallFault, Fault
<1>36. CASE Environment \/ Clock \/ UNCHANGED vars
  BY <1>36, Zenon DEF Environment, Clock, vars, supVars
<1> QED
  BY <1>1, <1>2, <1>3, <1>4, <1>5, <1>6, <1>7, <1>8, <1>9, <1>10, <1>11, <1>12, <1>13, <1>14, <1>15, <1>16, <1>17, <1>18, <1>19, <1>20, <1>21, <1>22, <1>23, <1>24, <1>25, <1>26, <1>27, <1>28, <1>29, <1>30, <1>31, <1>32, <1>33, <1>34, <1>35, <1>36
     DEF Next, Supervise, MainLoop, Cleanup, Failure

(* Every variable keeps its type.                                          *)
THEOREM TypeCorrect == Spec => []TypeOK
<1> USE DEF TypeOK, KernelTypeOK, LoopPC, CleanupPC, FailurePC, Forwarded,
            Kinds, Goto, Unset, NotExited, locals, history, kernelVars
<1>1. Init => TypeOK
  <2> SUFFICES ASSUME Init PROVE TypeOK
    OBVIOUS
  <2> USE DEF Init, KernelInit
  <2>1. /\ state \in [Procs -> {"unborn", "run", "doomed", "zombie", "gone"}]
        /\ parent \in [Procs -> Procs \cup {Tino, InitProc}]
    OBVIOUS
  <2>2. group \subseteq Procs /\ pending \subseteq Kinds /\ arrivals \in 0..MaxArrivals
    BY DEF Procs
  <2>3. deadline \in [kind : {"None", "At", "Never"}, at : Nat]
    OBVIOUS
  <2>4. budget \in 0..Batch
    OBVIOUS
  <2>5. FlagsOK
    BY DEF FlagsOK
  <2> QED
    BY <2>1, <2>2, <2>3, <2>4, <2>5
<1>2. TypeOK /\ [Next]_vars => TypeOK'
  <2> SUFFICES ASSUME TypeOK, [Next]_vars PROVE TypeOK'
    OBVIOUS
  <2>1. FlagsOK'
    BY FlagsTyped
  <2>2. CASE Poll
    BY <2>1, <2>2 DEF Poll
  <2>3. CASE ReadOwn("read")
    BY <2>1, <2>3 DEF ReadOwn, Dequeue
  <2>4. CASE ReadChld
    BY <2>1, <2>4 DEF ReadChld, Dequeue
  <2>5. CASE ReadIgnored
    BY <2>1, <2>5 DEF ReadIgnored, Dequeue, EndSignal
  <2>6. CASE ReadForwardable
    BY <2>1, <2>6 DEF ReadForwardable, Dequeue
  <2>7. CASE ReadDone
    BY <2>1, <2>7 DEF ReadDone
  <2>8. CASE Reap
    <3>1. state' \in [Procs -> {"unborn", "run", "doomed", "zombie", "gone"}]
      BY <2>8, CollectTyped DEF Reap, Reapable, Waitable
    <3>2. QED
      BY <2>1, <2>8, <3>1 DEF Reap, CodeOf, Statuses, NoStatus
  <2>9. CASE ReapDone
    BY <2>1, <2>9 DEF ReapDone, EndSignal, Fail
  <2>10. CASE Forward
    <3>1. state' \in [Procs -> {"unborn", "run", "doomed", "zombie", "gone"}]
      BY <2>10, DeliverTyped DEF Send, Forward
    <3>2. QED
      BY <2>1, <2>10, <3>1, AfterTyped DEF Forward, Forwarding, EndSignal, NextDeadline
  <2>11. CASE Query
    BY <2>1, <2>11, AfterTyped DEF Query, Forwarding, EndSignal, NextDeadline
  <2>12. CASE QueryFault
    BY <2>1, <2>12 DEF QueryFault
  <2>13. CASE Direct
    <3>1. state' \in [Procs -> {"unborn", "run", "doomed", "zombie", "gone"}]
      BY <2>13, DeliverTyped DEF Send, Direct
    <3>2. QED
      BY <2>1, <2>13, <3>1, AfterTyped DEF Direct, Forwarding, EndSignal, NextDeadline
  <2>14. CASE Check
    BY <2>1, <2>14 DEF Check
  <2>15. CASE Begin
    BY <2>1, <2>15, AfterTyped DEF Begin
  <2>16. CASE TermGroup
    <3>1. state' \in [Procs -> {"unborn", "run", "doomed", "zombie", "gone"}]
      BY <2>16, DeliverTyped DEF Send, TermGroup
    <3>2. QED
      BY <2>1, <2>16, <3>1 DEF TermGroup
  <2>17. CASE ReadOwn("cread")
    BY <2>1, <2>17 DEF ReadOwn, Dequeue
  <2>18. CASE CleanupReadIgnored
    BY <2>1, <2>18 DEF CleanupReadIgnored, Dequeue
  <2>19. CASE CleanupReadForwardable
    BY <2>1, <2>19 DEF CleanupReadForwardable, Dequeue
  <2>20. CASE CleanupForward
    <3>1. state' \in [Procs -> {"unborn", "run", "doomed", "zombie", "gone"}]
      BY <2>20, DeliverTyped DEF Send, CleanupForward
    <3>2. QED
      BY <2>1, <2>20, <3>1 DEF CleanupForward, EndCleanupSignal
  <2>21. CASE CleanupReadDone
    BY <2>1, <2>21 DEF CleanupReadDone
  <2>22. CASE CleanupReap
    <3>1. state' \in [Procs -> {"unborn", "run", "doomed", "zombie", "gone"}]
      BY <2>22, CollectTyped DEF CleanupReap, Reapable, Waitable
    <3>2. QED
      BY <2>1, <2>22, <3>1 DEF CleanupReap
  <2>23. CASE CleanupReapDone
    BY <2>1, <2>23 DEF CleanupReapDone, Finish, FinalExit
  <2>24. CASE CleanupExists
    BY <2>1, <2>24 DEF CleanupExists, Finish, FinalExit
  <2>25. CASE CleanupWait
    BY <2>1, <2>25 DEF CleanupWait, Finish, FinalExit
  <2>26. CASE CleanupPoll
    BY <2>1, <2>26 DEF CleanupPoll
  <2>27. CASE KillGroup
    <3>1. state' \in [Procs -> {"unborn", "run", "doomed", "zombie", "gone"}]
      BY <2>27, DeliverTyped DEF Send, KillGroup
    <3>2. QED
      BY <2>1, <2>27, <3>1, AfterTyped DEF KillGroup
  <2>28. CASE FailGroup
    <3>1. state' \in [Procs -> {"unborn", "run", "doomed", "zombie", "gone"}]
      BY <2>28, DeliverTyped DEF Send, FailGroup
    <3>2. QED
      BY <2>1, <2>28, <3>1 DEF FailGroup
  <2>29. CASE FailMain
    <3>1. state' \in [Procs -> {"unborn", "run", "doomed", "zombie", "gone"}]
      BY <2>29, DeliverTyped DEF FailMain
    <3>2. QED
      BY <2>1, <2>29, <3>1 DEF FailMain
  <2>30. CASE FailWait
    <3>1. state' \in [Procs -> {"unborn", "run", "doomed", "zombie", "gone"}]
      BY <2>30, CollectTyped DEF FailWait, Procs
    <3>2. QED
      BY <2>1, <2>30, <3>1 DEF FailWait
  <2>31. CASE FailGroupStart
    BY <2>1, <2>31, AfterTyped DEF FailGroupStart
  <2>32. CASE FailGroupReap
    <3>1. state' \in [Procs -> {"unborn", "run", "doomed", "zombie", "gone"}]
      BY <2>32, CollectTyped DEF FailGroupReap, Reapable, Waitable
    <3>2. QED
      BY <2>1, <2>32, <3>1 DEF FailGroupReap
  <2>33. CASE FailGroupWait
    BY <2>1, <2>33 DEF FailGroupWait
  <2>34. CASE FailGroupKill
    <3>1. state' \in [Procs -> {"unborn", "run", "doomed", "zombie", "gone"}]
      BY <2>34, DeliverTyped DEF FailGroupKill
    <3>2. QED
      BY <2>1, <2>34, <3>1 DEF FailGroupKill
  <2>35. CASE FailSleep
    BY <2>1, <2>35 DEF FailSleep
  <2>36. CASE CallFault
    <3>1. PICK call \in Faults : Fault(call)
      BY <2>36 DEF CallFault, Fault
    <3>2. QED
      BY <2>1, <3>1 DEF Fault, Fail
  <2>37. CASE Environment
    BY <2>1, <2>37, KernelTyped DEF Environment, supVars
  <2>38. CASE Clock
    BY <2>1, <2>38 DEF Clock, Tick, supVars
  <2>39. CASE UNCHANGED vars
    BY <2>1, <2>39 DEF vars, supVars
  <2> QED
    BY <2>2, <2>3, <2>4, <2>5, <2>6, <2>7, <2>8, <2>9, <2>10, <2>11, <2>12, <2>13, <2>14, <2>15, <2>16, <2>17, <2>18, <2>19, <2>20, <2>21, <2>22, <2>23, <2>24, <2>25, <2>26, <2>27, <2>28, <2>29, <2>30, <2>31, <2>32, <2>33, <2>34, <2>35, <2>36, <2>37, <2>38, <2>39
       DEF Next, Supervise, MainLoop, Cleanup, Failure
<1>3. QED
  BY <1>1, <1>2, PTL DEF Spec

----------------------------------------------------------------------------
(* Main's life and what the supervisor knows of it.  Two facts carry the   *)
(* rest: only tino can reap Main, and mainExit is set in the very step     *)
(* that reaps it, so that "mainExit is not set" means "its PID is still    *)
(* reserved" wherever the code relies on it.                               *)
Abandon == Main \in Immune \/ Faults \cap {"kill", "waitfailed"} # {}

Own == parent[Main] = Tino /\ state[Main] # "unborn"

StatusKnown == mainStatus = NoStatus <=> state[Main] \in {"run", "doomed"}

ExitKnown ==
    mainExit # NotExited => state[Main] = "gone" /\ mainExit = CodeOf(mainStatus)

Unreaped ==
    pc \in LoopPC \cup {"fGroup", "fMain", "fWait"}
        => mainExit # NotExited \/ state[Main] # "gone"

Phase ==
    /\ pc \in (LoopPC \ {"reap", "check"}) \cup {"fGroup", "fMain", "fWait"}
           => mainExit = NotExited
    /\ pc \in CleanupPC \cup {"done"} => mainExit # NotExited
    /\ pc = "done" => result = FinalExit(mainExit)
    /\ pc \in {"gStart", "gWait", "gKill", "gSleep", "failed"}
           => state[Main] = "gone" \/ Abandon

MainInv == Own /\ StatusKnown /\ ExitKnown /\ Unreaped /\ Phase /\ NoLostExit

(* What the workload and the kernel may do to Main: nobody but tino reaps  *)
(* it, and its death leaves a SIGCHLD behind.                              *)
LEMMA KernelMain ==
  ASSUME KernelTypeOK, Own, StatusKnown, Kernel
  PROVE  /\ Own' /\ StatusKnown'
         /\ state'[Main] = "gone" => state[Main] = "gone"
         /\ state[Main] \in {"zombie", "gone"}
              => state'[Main] = state[Main] /\ mainStatus' = mainStatus
         /\ pending \subseteq pending'
         /\ state'[Main] = "zombie"
              => state[Main] = "zombie" \/ "CHLD" \in pending'
<1> USE DEF KernelTypeOK, Own, StatusKnown, Procs
<1>1. ASSUME NEW q \in Procs, NEW d \in Descendants, Fork(q, d)
      PROVE  /\ state' = [state EXCEPT ![d] = "run"] /\ d # Main
             /\ parent' = [parent EXCEPT ![d] = q]
             /\ mainStatus' = mainStatus /\ pending' = pending
  BY <1>1 DEF Fork
<1>2. ASSUME NEW q \in Procs, ReapedElsewhere(q)
      PROVE  /\ state' = [state EXCEPT ![q] = "gone"] /\ q # Main
             /\ parent' = parent /\ mainStatus' = mainStatus
             /\ pending' = pending
  BY <1>2 DEF ReapedElsewhere, Collect
<1>3. ASSUME NEW q \in Procs, NEW c \in Possible, Die(q, c)
      PROVE  /\ parent'[Main] = Tino
             /\ state' = [state EXCEPT ![q] = "zombie"]
             /\ state[q] \in {"run", "doomed"}
             /\ mainStatus' = IF q = Main THEN c ELSE mainStatus
             /\ c # NoStatus
             /\ pending \subseteq pending'
             /\ q = Main => "CHLD" \in pending'
  <2>1. Main \notin Orphans(q)
    BY DEF Orphans
  <2>2. c # NoStatus
    BY DEF Possible, Killed, NoStatus
  <2>3. QED
    BY <1>3, <2>1, <2>2 DEF Die
<1>4. ASSUME NEW q \in Procs, LeaveGroup(q)
      PROVE  UNCHANGED <<state, parent, mainStatus, pending>>
  BY <1>4 DEF LeaveGroup
<1>5. ASSUME NEW k \in External \cup Flood, Arrive(k)
      PROVE  /\ UNCHANGED <<state, parent, mainStatus>>
             /\ pending \subseteq pending'
  BY <1>5 DEF Arrive
<1>6. QED
  BY <1>1, <1>2, <1>3, <1>4, <1>5 DEF Kernel

LEMMA MainInvInit == Init => MainInv
  BY DEF Init, KernelInit, MainInv, Own, StatusKnown, ExitKnown, Unreaped,
         Phase, NoLostExit, LoopPC, CleanupPC, Procs

LEMMA MainInvStep ==
  ASSUME TypeOK, MainInv, [Next]_vars
  PROVE  MainInv'
<1> USE DEF TypeOK, KernelTypeOK, Goto, locals, history, kernelVars, LoopPC,
            CleanupPC, FailurePC, MainInv, Own, StatusKnown, ExitKnown,
            Unreaped, Phase, NoLostExit, Running
<1>1. CASE Poll
  BY <1>1 DEF Poll
<1>2. CASE ReadOwn("read")
  BY <1>2 DEF ReadOwn, Dequeue, Kinds, Forwarded
<1>3. CASE ReadChld
  BY <1>3 DEF ReadChld, Dequeue, Kinds, Forwarded
<1>4. CASE ReadIgnored
  BY <1>4 DEF ReadIgnored, Dequeue, Kinds, Forwarded, EndSignal
<1>5. CASE ReadForwardable
  BY <1>5 DEF ReadForwardable, Dequeue, Kinds, Forwarded
<1>6. CASE ReadDone
  BY <1>6 DEF ReadDone
<1>7. CASE Reap
  <2>1. PICK q \in Reapable(Procs) :
           /\ Collect(q)
           /\ mainExit' = IF q = Main THEN CodeOf(mainStatus) ELSE mainExit
    BY <1>7 DEF Reap
  <2>2. q \in Procs /\ state[q] = "zombie"
    BY DEF Reapable, Waitable
  <2>3. /\ UNCHANGED <<parent, mainStatus, pending, pc, result>>
        /\ pc = "reap"
    BY <1>7 DEF Reap
  <2>4. CASE q = Main
    <3>1. state'[Main] = "gone"
      BY <2>1, <2>4, <2>2, CollectTyped
    <3>2. mainExit' = CodeOf(mainStatus) /\ mainExit' \in Nat
      BY <2>1, <2>4, CodeTyped
    <3>3. mainExit' = CodeOf(mainStatus)' /\ mainExit' # NotExited
      BY <3>2, <2>3 DEF CodeOf, NotExited
    <3>4. QED
      BY <2>2, <2>3, <2>4, <3>1, <3>3
  <2>5. CASE q # Main
    <3>1. state'[Main] = state[Main] /\ mainExit' = mainExit
      BY <2>1, <2>2, <2>5, CollectTyped DEF Procs
    <3>2. QED
      BY <2>3, <3>1 DEF CodeOf
  <2>6. QED
    BY <2>4, <2>5
<1>8. CASE ReapDone
  BY <1>8 DEF ReapDone, EndSignal, Fail, Reapable, Waitable, Exists, Procs
<1>9. CASE Forward
  BY DeliverTyped, <1>9 DEF Send, Forward, Forwarding, EndSignal, Procs
<1>10. CASE Query
  BY <1>10 DEF Query, Forwarding, EndSignal
<1>11. CASE QueryFault
  BY <1>11 DEF QueryFault
<1>12. CASE Direct
  BY DeliverTyped, <1>12 DEF Send, Direct, Forwarding, EndSignal, Procs
<1>13. CASE Check
  BY <1>13 DEF Check
<1>14. CASE Begin
  BY <1>14 DEF Begin
<1>15. CASE TermGroup
  BY DeliverTyped, <1>15 DEF Send, TermGroup, Procs
<1>16. CASE ReadOwn("cread")
  BY <1>16 DEF ReadOwn, Dequeue, Kinds, Forwarded
<1>17. CASE CleanupReadIgnored
  BY <1>17 DEF CleanupReadIgnored, Dequeue, Kinds, Forwarded
<1>18. CASE CleanupReadForwardable
  BY <1>18 DEF CleanupReadForwardable, Dequeue, Kinds, Forwarded
<1>19. CASE CleanupForward
  BY DeliverTyped, <1>19 DEF Send, CleanupForward, EndCleanupSignal, Procs
<1>20. CASE CleanupReadDone
  BY <1>20 DEF CleanupReadDone
<1>21. CASE CleanupReap
  BY CollectTyped, <1>21 DEF CleanupReap, Reapable, Waitable, Procs
<1>22. CASE CleanupReapDone
  BY <1>22 DEF CleanupReapDone, Finish
<1>23. CASE CleanupExists
  BY <1>23 DEF CleanupExists, Finish
<1>24. CASE CleanupWait
  BY <1>24 DEF CleanupWait, Finish
<1>25. CASE CleanupPoll
  BY <1>25 DEF CleanupPoll
<1>26. CASE KillGroup
  BY DeliverTyped, <1>26 DEF Send, KillGroup, Procs
<1>27. CASE FailGroup
  BY DeliverTyped, <1>27 DEF Send, FailGroup, Procs
<1>28. CASE FailMain
  BY DeliverTyped, <1>28 DEF FailMain, Procs, Abandon
<1>29. CASE FailWait
  <2>1. state'[Main] = "gone" \/ (state' = state /\ Abandon)
    BY CollectTyped, <1>29 DEF FailWait, Procs, Abandon
  <2>2. state'[Main] = "gone" => state[Main] \in {"zombie", "gone"}
    BY <1>29 DEF FailWait, Reapable
  <2>3. QED
    BY <1>29, <2>1, <2>2 DEF FailWait
<1>30. CASE FailGroupStart
  BY <1>30 DEF FailGroupStart
<1>31. CASE FailGroupReap
  BY CollectTyped, <1>31 DEF FailGroupReap, Reapable, Waitable, Procs
<1>32. CASE FailGroupWait
  BY <1>32 DEF FailGroupWait
<1>33. CASE FailGroupKill
  BY DeliverTyped, <1>33 DEF FailGroupKill, Procs
<1>34. CASE FailSleep
  BY <1>34 DEF FailSleep
<1>35. CASE CallFault
  BY <1>35 DEF CallFault, Fault, Fail
<1>36. CASE Environment
  BY KernelMain, <1>36 DEF Environment, supVars, Procs
<1>37. CASE Clock
  BY <1>37 DEF Clock, Tick, supVars
<1>38. CASE UNCHANGED vars
  BY <1>38 DEF vars, supVars
<1> QED
  BY <1>1, <1>2, <1>3, <1>4, <1>5, <1>6, <1>7, <1>8, <1>9, <1>10, <1>11, <1>12, <1>13, <1>14, <1>15, <1>16, <1>17, <1>18, <1>19, <1>20, <1>21, <1>22, <1>23, <1>24, <1>25, <1>26, <1>27, <1>28, <1>29, <1>30, <1>31, <1>32, <1>33, <1>34, <1>35, <1>36, <1>37, <1>38
     DEF Next, Supervise, MainLoop, Cleanup, Failure

THEOREM MainCorrect == Spec => []MainInv
<1>1. TypeOK /\ MainInv /\ [Next]_vars => MainInv'
  BY MainInvStep
<1>2. QED
  BY <1>1, MainInvInit, TypeCorrect, PTL DEF Spec

(* A dead Main is never overlooked: the SIGCHLD that will make the loop    *)
(* reap it is pending, or the reaping is under way.                        *)
THEOREM ExitNeverLost == Spec => []NoLostExit
<1>1. MainInv => NoLostExit
  BY DEF MainInv
<1>2. QED
  BY <1>1, MainCorrect, PTL

(* Signals go to Main's PID only while it cannot belong to anybody else.   *)
THEOREM PidReserved == Spec => []MainReserved
<1>1. MainInv => MainReserved
  BY DEF MainInv, MainReserved, Exists, Own, Unreaped, Phase, LoopPC
<1>2. QED
  BY <1>1, MainCorrect, PTL

(* The conversions of handle_wait_status and compute_exit_code agree with  *)
(* what the README says of exit codes.                                     *)
LEMMA CodesAgree ==
  ASSUME NEW s \in Statuses
  PROVE  FinalExit(CodeOf(s)) = Promised!Reported(s)
  BY DEF FinalExit, CodeOf, Statuses, Promised!Reported

(* tino returns the code of Main's own exit, whatever was signalled,       *)
(* reaped or failed meanwhile.                                             *)
THEOREM ExitCodeCorrect == Spec => []ExitFaithful
<1>1. TypeOK /\ MainInv => ExitFaithful
  <2> SUFFICES ASSUME TypeOK, MainInv, pc = "done" PROVE ExitFaithful
    BY DEF ExitFaithful
  <2>1. mainExit # NotExited /\ result = FinalExit(mainExit)
    BY DEF MainInv, Phase
  <2>2. mainExit = CodeOf(mainStatus) /\ mainStatus # NoStatus
    BY <2>1 DEF MainInv, ExitKnown, StatusKnown
  <2>3. mainStatus \in Statuses
    BY <2>2 DEF TypeOK, KernelTypeOK
  <2>4. QED
    BY <2>1, <2>2, <2>3, CodesAgree DEF ExitFaithful
<1>2. QED
  BY <1>1, MainCorrect, TypeCorrect, PTL

(* What a step of the supervisor changes of the picture its caller has.    *)
LEMMA SuperviseSeen ==
  ASSUME TypeOK, MainInv, Supervise
  PROVE  /\ pc \notin {"done", "failed"}
         /\ mainStatus' = mainStatus
         /\ \/ ChildSeen' = ChildSeen
            \/ /\ ChildSeen = "exited" /\ ChildSeen' = "collected"
               /\ pc' \notin {"done", "failed"}
         /\ pc' = "done" => result' = FinalExit(mainExit) /\ mainExit # NotExited
         /\ pc' = "failed" => state[Main] = "gone" \/ Abandon
<1> USE DEF TypeOK, KernelTypeOK, Goto, locals, kernelVars, LoopPC, CleanupPC,
            FailurePC, MainInv, ExitKnown, Phase, ChildSeen
<1>1. CASE Poll
  BY <1>1 DEF Poll
<1>2. CASE ReadOwn("read")
  BY <1>2 DEF ReadOwn, Dequeue
<1>3. CASE ReadChld
  BY <1>3 DEF ReadChld, Dequeue
<1>4. CASE ReadIgnored
  BY <1>4 DEF ReadIgnored, Dequeue, EndSignal
<1>5. CASE ReadForwardable
  BY <1>5 DEF ReadForwardable, Dequeue
<1>6. CASE ReadDone
  BY <1>6 DEF ReadDone
<1>7. CASE Reap
  BY CollectTyped, <1>7 DEF Reap, Reapable, Waitable, Procs
<1>8. CASE ReapDone
  BY <1>8 DEF ReapDone, EndSignal, Fail
<1>9. CASE Forward
  BY DeliverTyped, <1>9 DEF Send, Forward, Forwarding, EndSignal, Procs
<1>10. CASE Query
  BY <1>10 DEF Query, Forwarding, EndSignal
<1>11. CASE QueryFault
  BY <1>11 DEF QueryFault
<1>12. CASE Direct
  BY DeliverTyped, <1>12 DEF Send, Direct, Forwarding, EndSignal, Procs
<1>13. CASE Check
  BY <1>13 DEF Check
<1>14. CASE Begin
  BY <1>14 DEF Begin
<1>15. CASE TermGroup
  BY DeliverTyped, <1>15 DEF Send, TermGroup, Procs
<1>16. CASE ReadOwn("cread")
  BY <1>16 DEF ReadOwn, Dequeue
<1>17. CASE CleanupReadIgnored
  BY <1>17 DEF CleanupReadIgnored, Dequeue
<1>18. CASE CleanupReadForwardable
  BY <1>18 DEF CleanupReadForwardable, Dequeue
<1>19. CASE CleanupForward
  BY DeliverTyped, <1>19 DEF Send, CleanupForward, EndCleanupSignal, Procs
<1>20. CASE CleanupReadDone
  BY <1>20 DEF CleanupReadDone
<1>21. CASE CleanupReap
  BY CollectTyped, <1>21 DEF CleanupReap, Reapable, Waitable, Procs
<1>22. CASE CleanupReapDone
  BY <1>22 DEF CleanupReapDone, Finish
<1>23. CASE CleanupExists
  BY <1>23 DEF CleanupExists, Finish
<1>24. CASE CleanupWait
  BY <1>24 DEF CleanupWait, Finish
<1>25. CASE CleanupPoll
  BY <1>25 DEF CleanupPoll
<1>26. CASE KillGroup
  BY DeliverTyped, <1>26 DEF Send, KillGroup, Procs
<1>27. CASE FailGroup
  BY DeliverTyped, <1>27 DEF Send, FailGroup, Procs
<1>28. CASE FailMain
  BY DeliverTyped, <1>28 DEF FailMain, Procs
<1>29. CASE FailWait
  BY CollectTyped, <1>29 DEF FailWait, Reapable, Waitable, Procs
<1>30. CASE FailGroupStart
  BY <1>30 DEF FailGroupStart
<1>31. CASE FailGroupReap
  BY CollectTyped, <1>31 DEF FailGroupReap, Reapable, Waitable, Procs
<1>32. CASE FailGroupWait
  BY <1>32 DEF FailGroupWait
<1>33. CASE FailGroupKill
  BY DeliverTyped, <1>33 DEF FailGroupKill, Procs
<1>34. CASE FailSleep
  BY <1>34 DEF FailSleep
<1>35. CASE CallFault
  BY <1>35 DEF CallFault, Fault, Fail
<1> QED
  BY <1>1, <1>2, <1>3, <1>4, <1>5, <1>6, <1>7, <1>8, <1>9, <1>10, <1>11, <1>12, <1>13, <1>14, <1>15, <1>16, <1>17, <1>18, <1>19, <1>20, <1>21, <1>22, <1>23, <1>24, <1>25, <1>26, <1>27, <1>28, <1>29, <1>30, <1>31, <1>32, <1>33, <1>34, <1>35
     DEF Supervise, MainLoop, Cleanup, Failure

(* The supervision keeps Container's promise: the command is collected     *)
(* once, after its exit, and answered for once, with its own code; an      *)
(* error is returned only with the command dead and collected, unless the  *)
(* system refused to kill it or to wait for it.                            *)
THEOREM PromiseKept == Spec => KeepsPromise
<1> USE DEF ChildSeen, AnswerSeen
<1>1. Init => Promised!AbstractInit
  BY DEF Init, KernelInit, Promised!AbstractInit, Promised!Nothing,
         Promised!Waiting, NoStatus, Procs
<1>2. ASSUME TypeOK, TypeOK', MainInv, MainInv', [Next]_vars
      PROVE  [Promised!AbstractNext]_(Promised!abstractVars)
  <2> USE DEF Promised!AbstractNext, Promised!abstractVars, Promised!Exit,
              Promised!Gather, Promised!Answer, Promised!GiveError,
              Promised!Waiting, Promised!Error
  <2>1. CASE Supervise
    <3>1. CASE pc' \notin {"done", "failed"}
      BY <1>2, <2>1, <3>1, SuperviseSeen
    <3>2. CASE pc' = "done"
      <4>1. mainStatus \in Statuses /\ mainExit = CodeOf(mainStatus)
            /\ state[Main] = "gone"
        BY <1>2, <2>1, <3>2, SuperviseSeen
           DEF MainInv, ExitKnown, StatusKnown, TypeOK, KernelTypeOK
      <4>2. result' = Promised!Reported(mainStatus)
        BY <1>2, <2>1, <3>2, <4>1, SuperviseSeen, CodesAgree
      <4>3. QED
        BY <1>2, <2>1, <3>2, <4>1, <4>2, SuperviseSeen
    <3>3. CASE pc' = "failed"
      BY <1>2, <2>1, <3>3, SuperviseSeen DEF Abandon
    <3>4. QED
      BY <1>2, <3>1, <3>2, <3>3
  <2>2. CASE Environment
    <3>1. pc' = pc /\ result' = result
      BY <1>2, <2>2 DEF Environment, supVars, locals
    <3>2. CASE state[Main] \in {"zombie", "gone"}
      BY <1>2, <2>2, <3>1, <3>2, KernelMain DEF Environment, TypeOK, MainInv
    <3>3. CASE state[Main] \in {"run", "doomed"}
      <4>1. mainStatus = NoStatus
            /\ (mainStatus' = NoStatus <=> state'[Main] \in {"run", "doomed"})
            /\ state'[Main] \notin {"gone", "unborn"}
        BY <1>2, <2>2, <3>3, KernelMain
           DEF Environment, TypeOK, MainInv, StatusKnown, Own
      <4>2. CASE state'[Main] \in {"run", "doomed"}
        BY <1>2, <3>1, <3>3, <4>1, <4>2
      <4>3. CASE state'[Main] = "zombie"
        <5>1. mainStatus' \in Promised!AnyStatus
          BY <1>2, <4>1, <4>3
             DEF TypeOK, KernelTypeOK, Statuses, Promised!AnyStatus
        <5>2. CASE pc \in {"done", "failed"}
          BY <1>2, <3>1, <3>3, <4>3, <5>1, <5>2
        <5>3. CASE pc \notin {"done", "failed"}
          BY <1>2, <3>1, <3>3, <4>3, <5>1, <5>3
        <5>4. QED
          BY <1>2, <5>2, <5>3
      <4>4. QED
        BY <1>2, <4>1, <4>2, <4>3 DEF TypeOK, KernelTypeOK, Procs
    <3>4. QED
      BY <1>2, <3>2, <3>3 DEF TypeOK, KernelTypeOK, Procs, MainInv, Own
  <2>3. CASE Clock \/ UNCHANGED vars
    BY <1>2, <2>3 DEF Clock, Tick, vars, supVars, locals, kernelVars
  <2>4. QED
    BY <1>2, <2>1, <2>2, <2>3 DEF Next
<1>3. QED
  BY <1>1, <1>2, TypeCorrect, MainCorrect, PTL
     DEF Spec, KeepsPromise, Promised!AbstractSpec

----------------------------------------------------------------------------
(* A deadline, once set, is never postponed.  What a step does to it:      *)
DeadlineStep ==
    \/ deadline' = deadline
    \/ pc \in {"forward", "query", "direct"} /\ deadline' = NextDeadline(deadline)
    \/ pc = "begin" /\ (deadline.kind = "At" => deadline' = deadline)
    \/ pc = "killGroup"
    \/ pc' \in FailurePC

LEMMA DeadlineMoves ==
  ASSUME [Next]_vars
  PROVE  DeadlineStep
<1> USE DEF DeadlineStep, locals
<1>1. CASE Poll
  BY <1>1 DEF Poll
<1>2. CASE ReadOwn("read")
  BY <1>2 DEF ReadOwn
<1>3. CASE ReadChld
  BY <1>3 DEF ReadChld
<1>4. CASE ReadIgnored
  BY <1>4 DEF ReadIgnored
<1>5. CASE ReadForwardable
  BY <1>5 DEF ReadForwardable
<1>6. CASE ReadDone
  BY <1>6 DEF ReadDone
<1>7. CASE Reap
  BY <1>7 DEF Reap
<1>8. CASE ReapDone
  BY <1>8 DEF ReapDone
<1>9. CASE Forward
  BY <1>9 DEF Forward, Forwarding
<1>10. CASE Query
  BY <1>10 DEF Query, Forwarding
<1>11. CASE QueryFault
  BY <1>11 DEF QueryFault
<1>12. CASE Direct
  BY <1>12 DEF Direct, Forwarding
<1>13. CASE Check
  BY <1>13 DEF Check
<1>14. CASE Begin
  BY <1>14 DEF Begin
<1>15. CASE TermGroup
  BY <1>15 DEF TermGroup
<1>16. CASE ReadOwn("cread")
  BY <1>16 DEF ReadOwn
<1>17. CASE CleanupReadIgnored
  BY <1>17 DEF CleanupReadIgnored
<1>18. CASE CleanupReadForwardable
  BY <1>18 DEF CleanupReadForwardable
<1>19. CASE CleanupForward
  BY <1>19 DEF CleanupForward
<1>20. CASE CleanupReadDone
  BY <1>20 DEF CleanupReadDone
<1>21. CASE CleanupReap
  BY <1>21 DEF CleanupReap
<1>22. CASE CleanupReapDone
  BY <1>22 DEF CleanupReapDone
<1>23. CASE CleanupExists
  BY <1>23 DEF CleanupExists
<1>24. CASE CleanupWait
  BY <1>24 DEF CleanupWait
<1>25. CASE CleanupPoll
  BY <1>25 DEF CleanupPoll
<1>26. CASE KillGroup
  BY <1>26 DEF KillGroup
<1>27. CASE FailGroup
  BY <1>27 DEF FailGroup
<1>28. CASE FailMain
  BY <1>28 DEF FailMain
<1>29. CASE FailWait
  BY <1>29 DEF FailWait
<1>30. CASE FailGroupStart
  BY <1>30 DEF FailGroupStart, Goto, FailurePC
<1>31. CASE FailGroupReap
  BY <1>31 DEF FailGroupReap
<1>32. CASE FailGroupWait
  BY <1>32 DEF FailGroupWait
<1>33. CASE FailGroupKill
  BY <1>33 DEF FailGroupKill
<1>34. CASE FailSleep
  BY <1>34 DEF FailSleep
<1>35. CASE CallFault
  BY <1>35 DEF CallFault, Fault
<1>36. CASE Environment \/ Clock \/ UNCHANGED vars
  BY <1>36 DEF Environment, Clock, vars, supVars
<1> QED
  BY <1>1, <1>2, <1>3, <1>4, <1>5, <1>6, <1>7, <1>8, <1>9, <1>10, <1>11, <1>12, <1>13, <1>14, <1>15, <1>16, <1>17, <1>18, <1>19, <1>20, <1>21, <1>22, <1>23, <1>24, <1>25, <1>26, <1>27, <1>28, <1>29, <1>30, <1>31, <1>32, <1>33, <1>34, <1>35, <1>36
     DEF Next, Supervise, MainLoop, Cleanup, Failure

THEOREM NeverPostponed == Spec => GraceShared
<1>1. ASSUME TypeOK, [Next]_vars
      PROVE  DeadlineKept
  <2> SUFFICES ASSUME deadline.kind = "At", pc # "killGroup",
                      pc' \notin FailurePC
               PROVE  /\ deadline'.kind = "At"
                      /\ deadline'.at <= IF deadline.at > now
                                         THEN deadline.at ELSE now
    BY DEF DeadlineKept
  <2>1. deadline.at \in Nat /\ now \in Nat
    BY <1>1 DEF TypeOK, KernelTypeOK
  <2>2. deadline' = deadline \/ deadline' = At(now)
    BY <1>1, DeadlineMoves DEF DeadlineStep, NextDeadline
  <2>3. QED
    BY <2>1, <2>2 DEF At
<1>2. QED
  BY <1>1, TypeCorrect, PTL DEF Spec, GraceShared

(* Why a SIGKILL is due.  A deadline is at least the grace period away     *)
(* from the first termination signal, or from Main's exit, unless a second *)
(* termination signal was read; cleanup is interrupted only by a signal    *)
(* that is the second one, or the first since Main's exit.                 *)
Counted ==
    /\ firstTerm # -1 => terms >= 1
    /\ pc \in LoopPC \cup {"begin"}
         => /\ firstTerm = -1 => terms = 0
            /\ firstTerm = -1 <=> deadline.kind = "None"
            /\ sigkillSent => firstTerm # -1

Due(d) ==
    \/ terms = 2
    \/ firstTerm # -1 /\ d.at >= firstTerm + Grace
    \/ firstTerm = -1 /\ d.at >= exitSeen + Grace

LoopDue ==
    pc \in LoopPC \cup {"begin"} /\ deadline.kind = "At"
        => firstTerm # -1 /\ Due(deadline)

CleanupDue ==
    pc \in CleanupPC \ {"begin"}
        => /\ interruptible /\ deadline.kind = "At" => Due(deadline)
           /\ terminate => terms = 2 \/ (firstTerm = -1 /\ terms >= 1)
           /\ pc = "killGroup" => interruptible

GraceInv == Counted /\ LoopDue /\ CleanupDue /\ EscalationJustified

LEMMA KernelClock ==
  ASSUME Kernel
  PROVE  now' = now
  BY DEF Kernel, Fork, LeaveGroup, ReapedElsewhere, Die, Arrive

LEMMA GraceInvStep ==
  ASSUME TypeOK, GraceInv, [Next]_vars
  PROVE  GraceInv'
<1> USE DEF TypeOK, FlagsOK, KernelTypeOK, Goto, locals, history, kernelVars, LoopPC,
            CleanupPC, FailurePC, Forwarded, GraceInv, Counted, Due, LoopDue,
            CleanupDue, EscalationJustified, GraceOver
<1>1. CASE Poll
  BY <1>1 DEF Poll, Expired
<1>2. CASE ReadOwn("read")
  BY <1>2 DEF ReadOwn, Dequeue
<1>3. CASE ReadChld
  BY <1>3 DEF ReadChld, Dequeue
<1>4. CASE ReadIgnored
  BY <1>4 DEF ReadIgnored, Dequeue, EndSignal, Expired
<1>5. CASE ReadForwardable
  BY <1>5 DEF ReadForwardable, Dequeue
<1>6. CASE ReadDone
  BY <1>6 DEF ReadDone
<1>7. CASE Reap
  BY <1>7 DEF Reap
<1>8. CASE ReapDone
  BY <1>8 DEF ReapDone, EndSignal, Fail, Expired
<1>9. CASE Forward
  BY AfterTyped, <1>9 DEF Forward, Forwarding, EndSignal, NextDeadline, Expired
<1>10. CASE Query
  BY AfterTyped, <1>10 DEF Query, Forwarding, EndSignal, NextDeadline, Expired
<1>11. CASE QueryFault
  BY <1>11 DEF QueryFault
<1>12. CASE Direct
  BY AfterTyped, <1>12 DEF Direct, Forwarding, EndSignal, NextDeadline, Expired
<1>13. CASE Check
  BY <1>13 DEF Check, Expired
<1>14. CASE Begin
  <2>1. /\ pc = "begin" /\ pc' \in {"termGroup", "cread"}
        /\ deadline' = IF deadline.kind = "None" THEN After(now) ELSE deadline
        /\ exitSeen' = now /\ firstTerm' = firstTerm /\ terms' = terms
    BY <1>14 DEF Begin
  <2>2. terminate' = FALSE
    BY <1>14 DEF Begin
  <2>3. deadline'.kind = "At" => Due(deadline)'
    <3>1. CASE deadline.kind = "None"
      BY AfterTyped, <2>1, <3>1
    <3>2. CASE deadline.kind # "None"
      <4>1. deadline' = deadline
        BY <2>1, <3>2
      <4>2. deadline.kind = "At" => firstTerm # -1 /\ Due(deadline)
        BY <2>1
      <4>3. QED
        BY <2>1, <4>1, <4>2
    <3>3. QED
      BY <3>1, <3>2
  <2>4. Counted' /\ LoopDue' /\ EscalationJustified'
    BY <2>1
  <2>5. CleanupDue'
    <3>1. ~terminate'
      BY <2>2, Zenon
    <3>2. pc' # "killGroup"
      BY <2>1
    <3>3. QED
      BY <2>3, <3>1, <3>2
  <2>6. QED
    BY <2>4, <2>5
<1>15. CASE TermGroup
  BY <1>15 DEF TermGroup
<1>16. CASE ReadOwn("cread")
  BY <1>16 DEF ReadOwn, Dequeue
<1>17. CASE CleanupReadIgnored
  BY <1>17 DEF CleanupReadIgnored, Dequeue
<1>18. CASE CleanupReadForwardable
  BY <1>18 DEF CleanupReadForwardable, Dequeue
<1>19. CASE CleanupForward
  BY <1>19 DEF CleanupForward, EndCleanupSignal, Expired
<1>20. CASE CleanupReadDone
  BY <1>20 DEF CleanupReadDone
<1>21. CASE CleanupReap
  BY <1>21 DEF CleanupReap
<1>22. CASE CleanupReapDone
  BY <1>22 DEF CleanupReapDone, Finish
<1>23. CASE CleanupExists
  BY <1>23 DEF CleanupExists, Finish
<1>24. CASE CleanupWait
  BY <1>24 DEF CleanupWait, Finish, GiveUp, Expired
<1>25. CASE CleanupPoll
  BY <1>25 DEF CleanupPoll
<1>26. CASE KillGroup
  BY <1>26 DEF KillGroup
<1>27. CASE FailGroup
  BY <1>27 DEF FailGroup
<1>28. CASE FailMain
  BY <1>28 DEF FailMain
<1>29. CASE FailWait
  BY <1>29 DEF FailWait
<1>30. CASE FailGroupStart
  BY <1>30 DEF FailGroupStart
<1>31. CASE FailGroupReap
  BY <1>31 DEF FailGroupReap
<1>32. CASE FailGroupWait
  BY <1>32 DEF FailGroupWait, Expired
<1>33. CASE FailGroupKill
  BY <1>33 DEF FailGroupKill
<1>34. CASE FailSleep
  BY <1>34 DEF FailSleep
<1>35. CASE CallFault
  BY <1>35 DEF CallFault, Fault, Fail
<1>36. CASE Environment
  BY <1>36, KernelClock DEF Environment, supVars
<1>37. CASE Clock
  BY <1>37 DEF Clock, Tick, supVars
<1>38. CASE UNCHANGED vars
  BY <1>38 DEF vars, supVars
<1> QED
  BY <1>1, <1>2, <1>3, <1>4, <1>5, <1>6, <1>7, <1>8, <1>9, <1>10, <1>11, <1>12, <1>13, <1>14, <1>15, <1>16, <1>17, <1>18, <1>19, <1>20, <1>21, <1>22, <1>23, <1>24, <1>25, <1>26, <1>27, <1>28, <1>29, <1>30, <1>31, <1>32, <1>33, <1>34, <1>35, <1>36, <1>37, <1>38
     DEF Next, Supervise, MainLoop, Cleanup, Failure

(* Nobody is killed before the grace period is over or a second            *)
(* termination signal, or one after Main's exit, has asked for it.         *)
THEOREM NeverKilledEarly == Spec => []EscalationJustified
<1>1. Init => GraceInv
  BY DEF Init, GraceInv, Counted, LoopDue, CleanupDue, EscalationJustified,
         LoopPC, CleanupPC, Unset
<1>2. TypeOK /\ GraceInv /\ [Next]_vars => GraceInv'
  BY GraceInvStep
<1>3. GraceInv => EscalationJustified
  BY DEF GraceInv
<1>4. QED
  BY <1>1, <1>2, <1>3, TypeCorrect, PTL DEF Spec

----------------------------------------------------------------------------
(***************************************************************************)
(* What is left of the process group and of the caller's other children:   *)
(* the theorems above are about Main alone, these are about everybody      *)
(* else.                                                                   *)
(***************************************************************************)

(* What the kernel may do to the members of the group.                     *)

(* A process that was not forked is in no group, and one that runs keeps   *)
(* its permissions: a group in which only processes tino may not signal    *)
(* run can fork no other.                                                  *)
Born  == \A p \in group : state[p] # "unborn"
Wiped == \A p \in group \ Immune : state[p] # "run"

LEMMA KernelGroup ==
  ASSUME KernelTypeOK, Born, Kernel
  PROVE  /\ Born'
         /\ Wiped => Wiped'
<1> USE DEF KernelTypeOK, Born, Wiped, Procs
<1>1. ASSUME NEW q \in Procs, NEW d \in Descendants, Fork(q, d)
      PROVE  /\ state' = [state EXCEPT ![d] = "run"]
             /\ state[q] = "run" /\ state[d] = "unborn" /\ d \notin group
             /\ q \in Immune => d \in Immune
             /\ group' = IF q \in group THEN group \cup {d} ELSE group
  BY <1>1 DEF Fork
<1>2. ASSUME NEW q \in Procs, ReapedElsewhere(q)
      PROVE  /\ state' = [state EXCEPT ![q] = "gone"]
             /\ parent[q] # Tino /\ group' = group
  BY <1>2 DEF ReapedElsewhere, Collect
<1>3. ASSUME NEW q \in Procs, NEW c \in Possible, Die(q, c)
      PROVE  /\ state' = [state EXCEPT ![q] = "zombie"]
             /\ state[q] \in {"run", "doomed"} /\ group' = group
  BY <1>3 DEF Die
<1>4. ASSUME NEW q \in Procs, LeaveGroup(q)
      PROVE  state' = state /\ group' \subseteq group
  BY <1>4 DEF LeaveGroup
<1>5. ASSUME NEW k \in External \cup Flood, Arrive(k)
      PROVE  UNCHANGED <<state, group>>
  BY <1>5 DEF Arrive
<1>6. QED
  BY <1>1, <1>2, <1>3, <1>4, <1>5 DEF Kernel

LEMMA DeliverGroup ==
  ASSUME KernelTypeOK, Born, NEW S, NEW k, Deliver(S, k) \/ UNCHANGED state,
         UNCHANGED group
  PROVE  /\ Born'
         /\ Wiped => Wiped'
         /\ Deliver(S, k) /\ S = group /\ k = "KILL" => Wiped'
<1>1. Born' /\ (Wiped => Wiped')
  BY DeliverTyped DEF KernelTypeOK, Born, Wiped
<1>2. Deliver(S, k) /\ S = group /\ k = "KILL" => Wiped'
  BY DEF KernelTypeOK, Wiped, Deliver, Signalable, Exists
<1>3. QED
  BY <1>1, <1>2

LEMMA CollectGroup ==
  ASSUME KernelTypeOK, Born, NEW p \in Procs, Collect(p), UNCHANGED group
  PROVE  Born' /\ (Wiped => Wiped')
  BY CollectTyped DEF KernelTypeOK, Born, Wiped

----------------------------------------------------------------------------
(* The group after a normal return.  The second wait of the cleanup is the *)
(* one that signals cannot interrupt, and only the kill of the whole group *)
(* leads to it: from there on nobody in the group runs, and the cleanup    *)
(* returns from there, or on finding the group empty.                      *)
SecondWait == pc \in CleanupPC \ {"begin"} /\ ~interruptible

GroupInv ==
    /\ Born
    /\ UsePgroup /\ (SecondWait \/ pc = "done") => Wiped

(* The assumption: no kill of tino's fails.                                *)
KillsSucceed == "kill" \notin Faults

LEMMA GroupInvStep ==
  ASSUME KillsSucceed, TypeOK, GroupInv, [Next]_vars
  PROVE  GroupInv'
<1> USE DEF TypeOK, GroupInv, SecondWait, Goto, locals, history, kernelVars,
            LoopPC, CleanupPC, FailurePC
<1>0. KernelTypeOK /\ Born
  OBVIOUS
<1> DEFINE Still == UNCHANGED <<state, group>>
<1>s. Still => Born' /\ (Wiped' <=> Wiped)
  BY Zenon DEF Born, Wiped
<1>1. CASE Poll
  BY <1>1, <1>s DEF Poll
<1>2. CASE ReadOwn("read")
  BY <1>2, <1>s DEF ReadOwn, Dequeue
<1>3. CASE ReadChld
  BY <1>3, <1>s DEF ReadChld, Dequeue
<1>4. CASE ReadIgnored
  BY <1>4, <1>s DEF ReadIgnored, Dequeue, EndSignal
<1>5. CASE ReadForwardable
  BY <1>5, <1>s DEF ReadForwardable, Dequeue
<1>6. CASE ReadDone
  BY <1>6, <1>s DEF ReadDone
<1>7. CASE Reap
  BY <1>7, <1>0, <1>s, CollectGroup DEF Reap, Reapable, Waitable
<1>8. CASE ReapDone
  BY <1>8, <1>s DEF ReapDone, EndSignal, Fail
<1>9. CASE Forward
  BY <1>9, <1>0, <1>s, DeliverGroup DEF Send, Forward, Forwarding, EndSignal
<1>10. CASE Query
  BY <1>10, <1>s DEF Query, Forwarding, EndSignal
<1>11. CASE QueryFault
  BY <1>11, <1>s DEF QueryFault
<1>12. CASE Direct
  BY <1>12, <1>0, <1>s, DeliverGroup DEF Send, Direct, Forwarding, EndSignal
<1>13. CASE Check
  BY <1>13, <1>s DEF Check
<1>14. CASE Begin
  BY <1>14, <1>s DEF Begin
<1>15. CASE TermGroup
  BY <1>15, <1>0, <1>s, DeliverGroup DEF Send, TermGroup
<1>16. CASE ReadOwn("cread")
  BY <1>16, <1>s DEF ReadOwn, Dequeue
<1>17. CASE CleanupReadIgnored
  BY <1>17, <1>s DEF CleanupReadIgnored, Dequeue
<1>18. CASE CleanupReadForwardable
  BY <1>18, <1>s DEF CleanupReadForwardable, Dequeue
<1>19. CASE CleanupForward
  BY <1>19, <1>0, <1>s, DeliverGroup DEF Send, CleanupForward, EndCleanupSignal
<1>20. CASE CleanupReadDone
  BY <1>20, <1>s DEF CleanupReadDone
<1>21. CASE CleanupReap
  BY <1>21, <1>0, <1>s, CollectGroup DEF CleanupReap, Reapable, Waitable
<1>22. CASE CleanupReapDone
  BY <1>22, <1>s DEF CleanupReapDone, Finish
<1>23. CASE CleanupExists
  <2>1. Members = {} => Wiped
    BY DEF Members, Wiped, Exists
  <2>2. QED
    BY <1>23, <1>s, <2>1 DEF CleanupExists, Finish
<1>24. CASE CleanupWait
  BY <1>24, <1>s DEF CleanupWait, Finish
<1>25. CASE CleanupPoll
  BY <1>25, <1>s DEF CleanupPoll
<1>26. CASE KillGroup
  BY <1>26, <1>0, <1>s, DeliverGroup DEF Send, KillGroup, KillsSucceed
<1>27. CASE FailGroup
  BY <1>27, <1>0, <1>s, DeliverGroup DEF Send, FailGroup
<1>28. CASE FailMain
  BY <1>28, <1>0, <1>s, DeliverGroup DEF FailMain
<1>29. CASE FailWait
  BY <1>29, <1>0, <1>s, CollectGroup DEF FailWait, Procs
<1>30. CASE FailGroupStart
  BY <1>30, <1>s DEF FailGroupStart
<1>31. CASE FailGroupReap
  BY <1>31, <1>0, <1>s, CollectGroup
     DEF FailGroupReap, Reapable, Waitable, KernelTypeOK
<1>32. CASE FailGroupWait
  BY <1>32, <1>s DEF FailGroupWait
<1>33. CASE FailGroupKill
  BY <1>33, <1>0, <1>s, DeliverGroup DEF FailGroupKill
<1>34. CASE FailSleep
  BY <1>34, <1>s DEF FailSleep
<1>35. CASE CallFault
  <2>1. PICK call \in Faults : Fault(call)
    BY <1>35 DEF CallFault, Fault
  <2>2. QED
    BY <2>1, <1>s DEF Fault, Fail
<1>36. CASE Environment
  BY <1>36, <1>0, KernelGroup DEF Environment, supVars
<1>37. CASE Clock
  BY <1>37, <1>s DEF Clock, Tick, supVars
<1>38. CASE UNCHANGED vars
  BY <1>38, <1>s DEF vars, supVars
<1> QED
  BY <1>1, <1>2, <1>3, <1>4, <1>5, <1>6, <1>7, <1>8, <1>9, <1>10, <1>11, <1>12, <1>13, <1>14, <1>15, <1>16, <1>17, <1>18, <1>19, <1>20, <1>21, <1>22, <1>23, <1>24, <1>25, <1>26, <1>27, <1>28, <1>29, <1>30, <1>31, <1>32, <1>33, <1>34, <1>35, <1>36, <1>37, <1>38
     DEF Next, Supervise, MainLoop, Cleanup, Failure

LEMMA GroupCorrect ==
  ASSUME KillsSucceed
  PROVE  Spec => []GroupInv
<1>1. Init => GroupInv
  BY DEF Init, KernelInit, GroupInv, SecondWait, Born, CleanupPC, Procs
<1>2. TypeOK /\ GroupInv /\ [Next]_vars => GroupInv'
  BY GroupInvStep
<1>3. QED
  BY <1>1, <1>2, TypeCorrect, PTL DEF Spec

(* With a process group, a normal return leaves no member of it running    *)
(* that tino was allowed to kill, unless its kill fails.                   *)
THEOREM GroupWiped ==
  ASSUME KillsSucceed
  PROVE  Spec => []NoSurvivor
<1>1. GroupInv => NoSurvivor
  BY DEF GroupInv, NoSurvivor, Wiped, Members
<1>2. QED
  BY <1>1, GroupCorrect, PTL

----------------------------------------------------------------------------
(* The number of the group in a failed supervision.                        *)

(* The assumption of the theorem: the command may leave its group, as a    *)
(* session leader of its own would, its descendants do not.                *)
OnlyMainLeaves == Leavers \subseteq {Main}

(* A child of tino that holds the number goes on doing so: only tino can   *)
(* reap it, and whoever leaves the group has the number for its own.       *)
LEMMA KernelHeld ==
  ASSUME OnlyMainLeaves, KernelTypeOK, Kernel, NEW p \in Waitable(group \cup {Main})
  PROVE  p \in Waitable(group \cup {Main})'
<1> USE DEF KernelTypeOK, Waitable, Exists
<1>0. p \in Procs
  BY DEF Procs
<1>1. ASSUME NEW q \in Procs, NEW d \in Descendants, Fork(q, d)
      PROVE  /\ state' = [state EXCEPT ![d] = "run"] /\ state[d] = "unborn"
             /\ parent' = [parent EXCEPT ![d] = q]
             /\ group \subseteq group'
  BY <1>1 DEF Fork
<1>2. ASSUME NEW q \in Procs, ReapedElsewhere(q)
      PROVE  /\ state' = [state EXCEPT ![q] = "gone"]
             /\ parent[q] # Tino /\ UNCHANGED <<parent, group>>
  BY <1>2 DEF ReapedElsewhere, Collect
<1>3. ASSUME NEW q \in Procs, NEW c \in Possible, Die(q, c)
      PROVE  /\ state' = [state EXCEPT ![q] = "zombie"] /\ group' = group
             /\ parent[p] = Tino => parent'[p] = Tino
  BY <1>0, <1>3 DEF Die, Orphans
<1>4. ASSUME NEW q \in Procs, LeaveGroup(q)
      PROVE  /\ UNCHANGED <<state, parent>>
             /\ group' \cup {Main} = group \cup {Main}
  BY <1>4 DEF LeaveGroup, OnlyMainLeaves
<1>5. ASSUME NEW k \in External \cup Flood, Arrive(k)
      PROVE  UNCHANGED <<state, parent, group>>
  BY <1>5 DEF Arrive
<1>6. QED
  BY <1>0, <1>1, <1>2, <1>3, <1>4, <1>5 DEF Kernel

(* Only a look that found a child of the group leads to the kill. *)
LEMMA OwnedStep ==
  ASSUME OnlyMainLeaves, TypeOK, GroupKillOwned, [Next]_vars
  PROVE  GroupKillOwned'
<1> SUFFICES ASSUME pc' = "gKill" PROVE Waitable(group \cup {Main})' # {}
  BY DEF GroupKillOwned
<1> USE DEF Goto
<1>1. CASE FailGroupWait
  <2>1. Waitable(group) # {} /\ UNCHANGED <<state, parent, group>>
    BY <1>1 DEF FailGroupWait, kernelVars
  <2>2. Waitable(group) \subseteq Waitable(group \cup {Main})
    BY DEF Waitable
  <2>3. Waitable(group \cup {Main})' = Waitable(group \cup {Main})
    BY <2>1, Zenon DEF Waitable, Exists
  <2> QED BY <2>1, <2>2, <2>3
<1>2. CASE Environment
  <2>1. pc = "gKill" /\ Kernel
    BY <1>2 DEF Environment, supVars
  <2>2. PICK p : p \in Waitable(group \cup {Main})
    BY <2>1 DEF GroupKillOwned
  <2> QED BY <2>1, <2>2, KernelHeld DEF TypeOK
<1>3. CASE Clock \/ UNCHANGED vars
  <2>1. pc = "gKill" /\ UNCHANGED <<state, parent, group>>
    BY <1>3 DEF Clock, Tick, vars, supVars, kernelVars
  <2>2. Waitable(group \cup {Main})' = Waitable(group \cup {Main})
    BY <2>1, Zenon DEF Waitable, Exists
  <2> QED BY <2>1, <2>2 DEF GroupKillOwned
<1>4. ~MainLoop
  BY DEF MainLoop, Poll, ReadOwn, ReadChld, ReadIgnored, ReadForwardable,
         ReadDone, Reap, ReapDone, Forward, Query, QueryFault, Direct, Check,
         EndSignal, Forwarding, Fail
<1>5. ~Cleanup
  BY DEF Cleanup, Begin, TermGroup, ReadOwn, CleanupReadIgnored,
         CleanupReadForwardable, CleanupForward, CleanupReadDone, CleanupReap,
         CleanupReapDone, CleanupExists, CleanupWait, CleanupPoll, KillGroup,
         EndCleanupSignal, Finish
<1>6. Failure => FailGroupWait
  BY DEF Failure, FailGroup, FailMain, FailWait, FailGroupStart, FailGroupReap,
         FailGroupKill, FailSleep
<1>7. ~CallFault
  BY DEF CallFault, Fault, Fail
<1> QED BY <1>1, <1>2, <1>3, <1>4, <1>5, <1>6, <1>7 DEF Next, Supervise

(* The failure path signals the group only while a child that tino has not *)
(* reaped holds its number, whichever calls fail, when nobody but Main     *)
(* can leave the group.                                                    *)
THEOREM KillsOnlyItsOwnGroup ==
  ASSUME OnlyMainLeaves
  PROVE  Spec => []GroupKillOwned
<1>1. Init => GroupKillOwned
  BY DEF Init, GroupKillOwned
<1>2. TypeOK /\ GroupKillOwned /\ [Next]_vars => GroupKillOwned'
  BY OwnedStep
<1>3. QED
  BY <1>1, <1>2, TypeCorrect, PTL DEF Spec

----------------------------------------------------------------------------
LEMMA ReapedByParent ==
  ASSUME KernelTypeOK, Kernel, NEW p \in Procs, state[p] = "zombie",
         parent[p] = Tino
  PROVE  state'[p] = "zombie"
<1> USE DEF KernelTypeOK
<1>1. ASSUME NEW q \in Procs, NEW d \in Descendants, Fork(q, d)
      PROVE  state' = [state EXCEPT ![d] = "run"] /\ state[d] = "unborn"
  BY <1>1 DEF Fork
<1>2. ASSUME NEW q \in Procs, ReapedElsewhere(q)
      PROVE  state' = [state EXCEPT ![q] = "gone"] /\ q # p
  BY <1>2 DEF ReapedElsewhere, Collect
<1>3. ASSUME NEW q \in Procs, NEW c \in Possible, Die(q, c)
      PROVE  state' = [state EXCEPT ![q] = "zombie"]
  BY <1>3 DEF Die
<1>4. CASE UNCHANGED state
  BY <1>4
<1>5. QED
  BY <1>1, <1>2, <1>3, <1>4 DEF Kernel, LeaveGroup, Arrive

(* A failed supervision takes no wait status away from its caller: what it *)
(* reaps is Main or a member of the group.                                 *)
THEOREM OthersUntouched == Spec => FailureReapsOnlyOurs
<1>1. ASSUME TypeOK, [Next]_vars
      PROVE  [FailureReaps]_vars
  <2> SUFFICES ASSUME pc \in FailurePC, NEW p \in Procs, parent[p] = Tino,
                      state[p] = "zombie", state'[p] = "gone"
               PROVE  p \in {Main} \cup group
    BY DEF FailureReaps
  <2> USE <1>1 DEF TypeOK, KernelTypeOK, FailurePC
  <2>0. KernelTypeOK /\ state' # state
    BY Zenon
  <2>1. CASE Failure
    <3>1. CASE FailGroup \/ FailMain \/ FailGroupKill
      BY <3>1, <2>0, DeliverTyped DEF Send, FailGroup, FailMain, FailGroupKill
    <3>2. CASE FailWait
      BY <3>2, <2>0, CollectTyped DEF FailWait, Procs
    <3>3. CASE FailGroupReap
      BY <3>3, <2>0, CollectTyped DEF FailGroupReap, Reapable, Waitable
    <3>4. CASE FailGroupStart \/ FailGroupWait \/ FailSleep
      BY <3>4, <2>0 DEF FailGroupStart, FailGroupWait, FailSleep, kernelVars
    <3>5. QED
      BY <2>1, <3>1, <3>2, <3>3, <3>4 DEF Failure
  <2>2. CASE MainLoop
    BY <2>2 DEF MainLoop, Poll, ReadOwn, ReadChld, ReadIgnored,
                ReadForwardable, ReadDone, Reap, ReapDone, Forward, Query,
                QueryFault, Direct, Check
  <2>3. CASE Cleanup
    BY <2>3 DEF Cleanup, Begin, TermGroup, ReadOwn, CleanupReadIgnored,
                CleanupReadForwardable, CleanupForward, CleanupReadDone,
                CleanupReap, CleanupReapDone, CleanupExists, CleanupWait,
                CleanupPoll, KillGroup
  <2>4. CASE CallFault
    BY <2>4 DEF CallFault
  <2>5. CASE Environment
    <3>1. Kernel
      BY <2>5 DEF Environment
    <3>2. QED
      BY <3>1, <2>0, ReapedByParent
  <2>6. CASE Clock \/ UNCHANGED vars
    BY <2>6, <2>0 DEF Clock, Tick, vars, kernelVars
  <2>7. QED
    BY <2>1, <2>2, <2>3, <2>4, <2>5, <2>6 DEF Next, Supervise
<1>2. QED
  BY <1>1, TypeCorrect, PTL DEF Spec, FailureReapsOnlyOurs
----------------------------------------------------------------------------
(* Who is whose parent.                                                    *)

(* What tino's own steps do to the processes: it kills and it reaps.       *)
Handled ==
    /\ UNCHANGED <<parent, group>>
    /\ state' \in [Procs -> {"unborn", "run", "doomed", "zombie", "gone"}]
    /\ \A p \in Procs : \/ state'[p] = state[p]
                        \/ state[p] = "run" /\ state'[p] = "doomed"
                        \/ state[p] = "zombie" /\ state'[p] = "gone"

LEMMA OwnSteps ==
  ASSUME TypeOK, Supervise \/ Clock \/ UNCHANGED vars
  PROVE  Handled
<1>0. KernelTypeOK
  BY DEF TypeOK
<1>1. ASSUME UNCHANGED <<state, parent, group>>
      PROVE  Handled
  BY <1>0, <1>1 DEF KernelTypeOK, Handled
<1>2. ASSUME NEW S, NEW k, Deliver(S, k) \/ UNCHANGED state, UNCHANGED <<parent, group>>
      PROVE  Handled
  BY <1>0, <1>2, DeliverTyped DEF Handled
<1>3. ASSUME NEW p \in Procs, Collect(p), state[p] = "zombie",
             UNCHANGED <<parent, group>>
      PROVE  Handled
  BY <1>0, <1>3, CollectTyped DEF Handled
<1> USE DEF kernelVars
<1>4. CASE MainLoop
  <2>1. CASE Reap
    BY <1>3, <2>1 DEF Reap, Reapable, Waitable
  <2>2. CASE Forward \/ Direct
    BY <1>2, <2>2 DEF Send, Forward, Direct
  <2>3. CASE ~Reap /\ ~Forward /\ ~Direct
    BY <1>1, <1>4, <2>3
       DEF MainLoop, Poll, ReadOwn, ReadChld, ReadIgnored, ReadForwardable,
           ReadDone, ReapDone, Query, QueryFault, Check, Dequeue
  <2>4. QED
    BY <2>1, <2>2, <2>3
<1>5. CASE Cleanup
  <2>1. CASE CleanupReap
    BY <1>3, <2>1 DEF CleanupReap, Reapable, Waitable
  <2>2. CASE TermGroup \/ KillGroup
    BY <1>2, <2>2 DEF Send, TermGroup, KillGroup
  <2>3. CASE CleanupForward
    <3>1. CASE UsePgroup
      BY <1>2, <2>3, <3>1 DEF Send, CleanupForward
    <3>2. CASE ~UsePgroup
      BY <1>1, <2>3, <3>2 DEF CleanupForward
    <3>3. QED
      BY <3>1, <3>2
  <2>4. CASE ~CleanupReap /\ ~TermGroup /\ ~KillGroup /\ ~CleanupForward
    BY <1>1, <1>5, <2>4
       DEF Cleanup, Begin, ReadOwn, CleanupReadIgnored, CleanupReadForwardable,
           CleanupReadDone, CleanupReapDone, CleanupExists, CleanupWait,
           CleanupPoll, Dequeue
  <2>5. QED
    BY <2>1, <2>2, <2>3, <2>4
<1>6. CASE Failure
  <2>1. CASE FailWait
    BY <1>1, <1>3, <2>1 DEF FailWait, Reapable, Waitable, Procs
  <2>2. CASE FailGroupReap
    BY <1>0, <1>3, <2>2 DEF FailGroupReap, Reapable, Waitable, KernelTypeOK
  <2>3. CASE FailGroup \/ FailMain \/ FailGroupKill
    BY <1>1, <1>2, <2>3 DEF Send, FailGroup, FailMain, FailGroupKill
  <2>4. CASE FailGroupStart \/ FailGroupWait \/ FailSleep
    BY <1>1, <2>4 DEF FailGroupStart, FailGroupWait, FailSleep
  <2>5. QED
    BY <1>6, <2>1, <2>2, <2>3, <2>4 DEF Failure
<1>7. CASE CallFault \/ Clock \/ UNCHANGED vars
  BY <1>1, <1>7 DEF CallFault, Fault, Clock, Tick, vars
<1>8. QED
  BY <1>4, <1>5, <1>6, <1>7 DEF Supervise

(* The parents form a forest: every set of processes has a member whose    *)
(* parent is outside it, and a living process's parent lives or is tino or *)
(* init.  (Said of sets, so that no induction along a chain of parents is  *)
(* needed.)                                                                *)
Rooted(p) ==
    /\ parent[p] \in Procs => state[parent[p]] # "unborn"
    /\ parent[p] \in Procs /\ Exists(p) => state[parent[p]] \in {"run", "doomed"}
    /\ Subreaper => parent[p] # InitProc

Acyclic == \A S \in SUBSET Procs : S # {} => \E p \in S : parent[p] \notin S

Forest == Acyclic /\ \A p \in Procs : Rooted(p)

LEMMA KernelForest ==
  ASSUME KernelTypeOK, Forest, Kernel
  PROVE  Forest'
<1> USE DEF KernelTypeOK, Forest, Procs
<1>1. ASSUME NEW q \in Procs, NEW d \in Descendants, Fork(q, d)
      PROVE  Forest'
  <2>1. /\ state' = [state EXCEPT ![d] = "run"] /\ state[d] = "unborn"
        /\ parent' = [parent EXCEPT ![d] = q] /\ state[q] = "run"
        /\ d # q /\ d \in Procs
    BY <1>1 DEF Fork
  <2>2. ASSUME NEW S \in SUBSET Procs, S # {}
        PROVE  \E p \in S : parent'[p] \notin S
    <3>1. CASE d \notin S
      BY <2>1, <2>2, <3>1 DEF Acyclic
    <3>2. CASE S = {d}
      BY <2>1, <3>2
    <3>3. CASE d \in S /\ S # {d}
      <4>1. S \ {d} # {} /\ S \ {d} \in SUBSET Procs
        BY <2>2, <3>3
      <4>2. PICK p \in S \ {d} : parent[p] \notin S \ {d}
        BY <4>1 DEF Acyclic
      <4>3. parent[p] # d
        BY <2>1, <4>2 DEF Rooted
      <4>4. QED
        BY <2>1, <4>2, <4>3
    <3>4. QED
      BY <3>1, <3>2, <3>3
  <2>3. \A p \in Procs : Rooted(p)'
    BY <2>1 DEF Rooted, Exists
  <2>4. QED
    BY <2>2, <2>3 DEF Acyclic
<1>2. ASSUME NEW q \in Procs, ReapedElsewhere(q)
      PROVE  Forest'
  BY <1>2 DEF ReapedElsewhere, Collect, Acyclic, Rooted, Exists
<1>3. ASSUME NEW q \in Procs, NEW c \in Possible, Die(q, c)
      PROVE  Forest'
  <2>1. /\ state' = [state EXCEPT ![q] = "zombie"]
        /\ state[q] \in {"run", "doomed"}
        /\ \A p \in Procs : IF parent[p] = q THEN parent'[p] = Heir
                                             ELSE parent'[p] = parent[p]
    BY <1>3 DEF Die, Orphans
  <2>2. Heir \notin Procs /\ (Subreaper => Heir # InitProc)
    BY DEF Heir
  <2>3. ASSUME NEW S \in SUBSET Procs, S # {}
        PROVE  \E p \in S : parent'[p] \notin S
    BY <2>1, <2>2, <2>3 DEF Acyclic
  <2>4. \A p \in Procs : Rooted(p)'
    BY <2>1, <2>2 DEF Rooted, Exists
  <2>5. QED
    BY <2>3, <2>4 DEF Acyclic
<1>4. CASE UNCHANGED <<state, parent>>
  BY <1>4 DEF Acyclic, Rooted, Exists
<1>5. QED
  BY <1>1, <1>2, <1>3, <1>4 DEF Kernel, LeaveGroup, Arrive

LEMMA HandledForest ==
  ASSUME KernelTypeOK, Forest, Handled
  PROVE  Forest'
  BY DEF KernelTypeOK, Forest, Handled, Acyclic, Rooted, Exists

LEMMA ForestCorrect == Spec => []Forest
<1>1. Init => Forest
  BY DEF Init, KernelInit, Forest, Acyclic, Rooted
<1>2. ASSUME TypeOK, Forest, [Next]_vars
      PROVE  Forest'
  <2>1. KernelTypeOK
    BY <1>2 DEF TypeOK
  <2>2. CASE Environment
    BY <1>2, <2>1, <2>2, KernelForest DEF Environment
  <2>3. CASE Supervise \/ Clock \/ UNCHANGED vars
    BY <1>2, <2>1, <2>3, OwnSteps, HandledForest
  <2>4. QED
    BY <1>2, <2>2, <2>3 DEF Next
<1>3. QED
  BY <1>1, <1>2, TypeCorrect, PTL DEF Spec

(* A set of living processes none of which tino may wait for is empty,     *)
(* when tino is the subreaper and a living parent is never outside it.     *)
LEMMA NobodyLeft ==
  ASSUME KernelTypeOK, Forest, Subreaper, NEW S \in SUBSET Procs,
         \A p \in S : Exists(p) /\ parent[p] # Tino,
         \A p \in S : parent[p] \in Procs => parent[p] \in S
  PROVE  S = {}
<1> SUFFICES ASSUME S # {} PROVE FALSE
  OBVIOUS
<1>1. PICK p \in S : parent[p] \notin S
  BY DEF Forest, Acyclic
<1>2. parent[p] = InitProc
  BY <1>1 DEF KernelTypeOK
<1>3. QED
  BY <1>2 DEF Forest, Rooted

----------------------------------------------------------------------------
(* The cleanup without a process group.                                    *)

(* Nobody tino could wait for is left, and nobody will be: without a child *)
(* it is adopted by nobody's death, and under a subreaper nobody lives.    *)
Drained ==
    /\ Waitable(Procs) = {}
    /\ Subreaper => \A p \in Procs : ~Exists(p)

DrainInv ==
    /\ pc = "cexists" => UsePgroup
    /\ pc = "done" /\ ~UsePgroup => GiveUp \/ Drained

LEMMA NoneWaitable ==
  ASSUME KernelTypeOK, Forest, Waitable(Procs) = {}
  PROVE  Drained
<1> SUFFICES ASSUME Subreaper PROVE {p \in Procs : Exists(p)} = {}
  BY DEF Drained
<1> DEFINE S == {p \in Procs : Exists(p)}
<1>1. \A p \in S : Exists(p) /\ parent[p] # Tino
  BY DEF Waitable
<1>2. \A p \in S : parent[p] \in Procs => parent[p] \in S
  BY DEF Forest, Rooted, Exists
<1>3. QED
  BY <1>1, <1>2, NobodyLeft

LEMMA KernelDrained ==
  ASSUME KernelTypeOK, Drained, Kernel
  PROVE  Drained'
<1> USE DEF KernelTypeOK, Drained, Waitable, Exists
<1>1. ASSUME NEW q \in Procs, NEW d \in Descendants, Fork(q, d)
      PROVE  Drained'
  BY <1>1 DEF Fork, Procs
<1>2. ASSUME NEW q \in Procs, ReapedElsewhere(q)
      PROVE  Drained'
  BY <1>2 DEF ReapedElsewhere, Collect
<1>3. ASSUME NEW q \in Procs, NEW c \in Possible, Die(q, c)
      PROVE  Drained'
  BY <1>3 DEF Die, Orphans, Heir
<1>4. CASE UNCHANGED <<state, parent>>
  BY <1>4
<1>5. QED
  BY <1>1, <1>2, <1>3, <1>4 DEF Kernel, LeaveGroup, Arrive

LEMMA DrainInvStep ==
  ASSUME TypeOK, Forest, DrainInv, [Next]_vars
  PROVE  DrainInv'
<1> USE DEF DrainInv, Goto, locals, history, kernelVars
<1>0. KernelTypeOK
  BY DEF TypeOK
<1>1. CASE MainLoop
  BY <1>1 DEF MainLoop, Poll, ReadOwn, ReadChld, ReadIgnored, ReadForwardable,
              ReadDone, Reap, ReapDone, Forward, Query, QueryFault, Direct,
              Check, EndSignal, Forwarding, Fail
<1>2. CASE Cleanup
  <2>1. CASE CleanupReapDone
    <3>1. UNCHANGED <<state, parent>>
      BY <2>1 DEF CleanupReapDone
    <3>2. Drained => Drained'
      BY <3>1 DEF Drained, Waitable, Exists
    <3>3. QED
      BY <1>0, <2>1, <3>2, NoneWaitable DEF CleanupReapDone, Finish
  <2>2. CASE CleanupWait
    BY <2>2 DEF CleanupWait, Finish, GiveUp, Expired
  <2>3. CASE CleanupExists
    BY <2>3 DEF CleanupExists, Finish
  <2>4. CASE ~CleanupReapDone /\ ~CleanupWait /\ ~CleanupExists
    BY <1>2, <2>4
       DEF Cleanup, Begin, TermGroup, ReadOwn, CleanupReadIgnored,
           CleanupReadForwardable, CleanupForward, CleanupReadDone,
           CleanupReap, CleanupPoll, KillGroup, EndCleanupSignal
  <2>5. QED
    BY <2>1, <2>2, <2>3, <2>4
<1>3. CASE Failure
  BY <1>3 DEF Failure, FailGroup, FailMain, FailWait, FailGroupStart,
              FailGroupReap, FailGroupWait, FailGroupKill, FailSleep
<1>4. CASE CallFault
  BY <1>4 DEF CallFault, Fault, Fail
<1>5. CASE Environment
  <2>1. now' = now
    BY <1>5, KernelClock DEF Environment
  <2>2. QED
    BY <1>0, <1>5, <2>1, KernelDrained
       DEF Environment, supVars, GiveUp, Expired
<1>6. CASE Clock \/ UNCHANGED vars
  <2>1. /\ UNCHANGED <<state, parent, pc, deadline, interruptible, terminate>>
        /\ now' = now \/ now' = now + 1
    BY <1>6 DEF Clock, Tick, vars, supVars
  <2>2. GiveUp => GiveUp'
    BY <2>1 DEF GiveUp, Expired, TypeOK, KernelTypeOK
  <2>3. Drained => Drained'
    BY <2>1 DEF Drained, Waitable, Exists
  <2>4. QED
    BY <2>1, <2>2, <2>3
<1>7. QED
  BY <1>1, <1>2, <1>3, <1>4, <1>5, <1>6 DEF Next, Supervise

(* Without a group, tino returns before the deadline and uninterrupted     *)
(* only when it has no child left, and a subreaper then leaves no          *)
(* descendant, however late one is adopted.                                *)
THEOREM NobodyForgotten == Spec => []DrainedOnReturn
<1>1. Init => DrainInv
  BY DEF Init, DrainInv
<1>2. TypeOK /\ Forest /\ DrainInv /\ [Next]_vars => DrainInv'
  BY DrainInvStep
<1>3. DrainInv => DrainedOnReturn
  BY DEF DrainInv, DrainedOnReturn, Drained
<1>4. QED
  BY <1>1, <1>2, <1>3, TypeCorrect, ForestCorrect, PTL DEF Spec

----------------------------------------------------------------------------
(* The group after a failed supervision.                                   *)

(* A living member's parent is in the group too, or Main, or may reap it:  *)
(* nobody but Main leaves the group.                                       *)
Gathered ==
    \A p \in group : Exists(p)
        => parent[p] \in group \cup {Main, Tino, InitProc}

(* No child of tino is in the group, and none comes back. *)
Beyond == ~Subreaper /\ Waitable(group) = {}

FailInv ==
    /\ killed => Wiped
    /\ pc = "failed" /\ UsePgroup => Wiped \/ Beyond

LEMMA KernelGathered ==
  ASSUME OnlyMainLeaves, KernelTypeOK, Born, Gathered, Kernel
  PROVE  /\ Gathered'
         /\ Beyond => Beyond'
<1> USE DEF KernelTypeOK, Born, Gathered, Beyond, Waitable, Exists, OnlyMainLeaves
<1>1. ASSUME NEW q \in Procs, NEW d \in Descendants, Fork(q, d)
      PROVE  Gathered' /\ (Beyond => Beyond')
  BY <1>1 DEF Fork, Procs
<1>2. ASSUME NEW q \in Procs, ReapedElsewhere(q)
      PROVE  Gathered' /\ (Beyond => Beyond')
  BY <1>2 DEF ReapedElsewhere, Collect
<1>3. ASSUME NEW q \in Procs, NEW c \in Possible, Die(q, c)
      PROVE  Gathered' /\ (Beyond => Beyond')
  <2>1. /\ state' = [state EXCEPT ![q] = "zombie"] /\ group' = group
        /\ state[q] \in {"run", "doomed"}
        /\ \A p \in Procs : IF parent[p] = q THEN parent'[p] = Heir
                                             ELSE parent'[p] = parent[p]
    BY <1>3 DEF Die, Orphans
  <2>2. Heir \in {Tino, InitProc} /\ (~Subreaper => Heir # Tino)
    BY DEF Heir
  <2>3. QED
    BY <2>1, <2>2
<1>4. ASSUME NEW q \in Procs, LeaveGroup(q)
      PROVE  Gathered' /\ (Beyond => Beyond')
  BY <1>4 DEF LeaveGroup
<1>5. CASE UNCHANGED <<state, parent, group>>
  BY <1>5
<1>6. QED
  BY <1>1, <1>2, <1>3, <1>4, <1>5 DEF Kernel, Arrive

LEMMA HandledGathered ==
  ASSUME KernelTypeOK, Handled
  PROVE  /\ Gathered => Gathered'
         /\ Wiped => Wiped'
         /\ Beyond => Beyond'
  BY DEF KernelTypeOK, Handled, Gathered, Wiped, Beyond, Waitable, Exists

(* Once Main is reaped, a subreaper with nobody in the group to wait for   *)
(* has nobody in the group.                                                *)
LEMMA NoneOutOfReach ==
  ASSUME KernelTypeOK, Forest, Gathered, state[Main] = "gone",
         Waitable(group) = {}
  PROVE  Wiped \/ Beyond
<1> SUFFICES ASSUME Subreaper PROVE Members = {}
  BY DEF Members, Wiped, Beyond, Exists
<1>1. \A p \in Members : Exists(p) /\ parent[p] # Tino
  BY DEF Members, Waitable
<1>2. ASSUME NEW p \in Members, parent[p] \in Procs
      PROVE  parent[p] \in Members
  <2>1. state[parent[p]] \in {"run", "doomed"}
    BY <1>2 DEF Members, Forest, Rooted, KernelTypeOK
  <2>2. parent[p] \in group
    BY <1>2, <2>1 DEF Members, Gathered
  <2>3. QED
    BY <2>1, <2>2 DEF Members, Exists
<1>3. Members \in SUBSET Procs
  BY DEF Members, KernelTypeOK
<1>4. QED
  BY <1>1, <1>2, <1>3, NobodyLeft

(* The second assumption of the theorem: the calls of the failure cleanup  *)
(* do not fail themselves.                                                 *)
CleanupCalls == Faults \cap {"kill", "waitfailed"} = {}

LEMMA FailInvStep ==
  ASSUME OnlyMainLeaves, Main \notin Immune, CleanupCalls, TypeOK, MainInv, Forest, Born, Gathered,
         FailInv, [Next]_vars
  PROVE  FailInv'
<1> USE DEF FailInv, Goto, locals, history, kernelVars
<1>0. KernelTypeOK
  BY DEF TypeOK
<1>1. CASE MainLoop
  <2>1. Handled
    BY <1>1, OwnSteps DEF Supervise
  <2>2. killed' = killed /\ (pc' = "failed" => pc = "failed")
    BY <1>1 DEF MainLoop, Poll, ReadOwn, ReadChld, ReadIgnored,
                ReadForwardable, ReadDone, Reap, ReapDone, Forward, Query,
                QueryFault, Direct, Check, EndSignal, Forwarding, Fail
  <2>3. QED
    BY <1>0, <2>1, <2>2, HandledGathered
<1>2. CASE Cleanup
  <2>1. Handled
    BY <1>2, OwnSteps DEF Supervise
  <2>2. killed' = killed /\ (pc' = "failed" => pc = "failed")
    BY <1>2 DEF Cleanup, Begin, TermGroup, ReadOwn, CleanupReadIgnored,
                CleanupReadForwardable, CleanupForward, CleanupReadDone,
                CleanupReap, CleanupReapDone, CleanupExists, CleanupWait,
                CleanupPoll, KillGroup, EndCleanupSignal, Finish
  <2>3. QED
    BY <1>0, <2>1, <2>2, HandledGathered
<1>3. CASE Failure
  <2>1. Handled
    BY <1>3, OwnSteps DEF Supervise
  <2>2. CASE FailGroup \/ FailMain \/ FailWait \/ FailGroupReap \/ FailSleep
    <3>1. killed' = killed /\ pc' # "failed"
      BY <2>2 DEF FailGroup, FailMain, FailWait, FailGroupReap, FailSleep
    <3>2. QED
      BY <1>0, <2>1, <3>1, HandledGathered
  <2>3. CASE FailGroupStart
    <3>1. killed' => killed
      BY <2>3, Zenon DEF FailGroupStart
    <3>2. pc' = "failed" => ~UsePgroup
      BY <2>3 DEF FailGroupStart
    <3>3. QED
      BY <1>0, <2>1, <3>1, <3>2, HandledGathered
  <2>4. CASE FailGroupWait
    <3>1. /\ UNCHANGED <<killed, state, parent, group>>
          /\ pc' = "failed" => killed \/ Waitable(group) = {}
      BY <2>4 DEF FailGroupWait, CleanupCalls
    <3>2. state[Main] = "gone"
      BY <2>4 DEF FailGroupWait, MainInv, Phase, Abandon, CleanupCalls
    <3>3. pc' = "failed" => Wiped \/ Beyond
      BY <1>0, <3>1, <3>2, NoneOutOfReach
    <3>4. QED
      BY <1>0, <2>1, <3>1, <3>3, HandledGathered
  <2>5. CASE FailGroupKill
    <3>1. CASE Deliver(group, "KILL") /\ killed' = TRUE /\ pc' = "gWait"
      BY <1>0, <2>1, <3>1, DeliverGroup DEF Handled
    <3>2. CASE Signalable(group) = {} /\ pc' = "failed" /\ UNCHANGED <<state, killed>>
      <4>1. Wiped
        BY <3>2 DEF Signalable, Wiped, Exists
      <4>2. QED
        BY <1>0, <2>1, <3>2, <4>1, HandledGathered
    <3>3. QED
      BY <2>5, <3>1, <3>2 DEF FailGroupKill, CleanupCalls
  <2>6. QED
    BY <1>3, <2>2, <2>3, <2>4, <2>5 DEF Failure
<1>4. CASE CallFault
  <2>1. Handled
    BY <1>4, OwnSteps DEF Supervise
  <2>2. killed' = killed /\ pc' # "failed"
    BY <1>4 DEF CallFault, Fault, Fail
  <2>3. QED
    BY <1>0, <2>1, <2>2, HandledGathered
<1>5. CASE Environment
  BY <1>0, <1>5, KernelGroup, KernelGathered DEF Environment, supVars
<1>6. CASE Clock \/ UNCHANGED vars
  <2>1. Handled
    BY <1>6, OwnSteps
  <2>2. UNCHANGED <<killed, pc>>
    BY <1>6 DEF Clock, vars, supVars
  <2>3. QED
    BY <1>0, <2>1, <2>2, HandledGathered
<1>7. QED
  BY <1>1, <1>2, <1>3, <1>4, <1>5, <1>6 DEF Next, Supervise

(* After a failed supervision Main is dead and reaped, and no child tino   *)
(* could still wait for and kill runs in the group, then or later: when    *)
(* nobody but Main leaves the group and the cleanup's own calls succeed.   *)
THEOREM FailsClean ==
  ASSUME OnlyMainLeaves, Main \notin Immune, CleanupCalls
  PROVE  Spec => []FailureClean
<1>1. Init => Gathered /\ FailInv
  BY DEF Init, KernelInit, Gathered, FailInv, Procs
<1>2. ASSUME TypeOK, GroupInv, Gathered, [Next]_vars
      PROVE  Gathered'
  <2>1. KernelTypeOK /\ Born
    BY <1>2 DEF TypeOK, GroupInv
  <2>2. CASE Environment
    BY <1>2, <2>1, <2>2, KernelGathered DEF Environment
  <2>3. CASE Supervise \/ Clock \/ UNCHANGED vars
    BY <1>2, <2>1, <2>3, OwnSteps, HandledGathered
  <2>4. QED
    BY <1>2, <2>2, <2>3 DEF Next
<1>3. TypeOK /\ MainInv /\ Forest /\ GroupInv /\ Gathered /\ FailInv /\ [Next]_vars
        => FailInv'
  BY FailInvStep DEF GroupInv
<1>4. TypeOK /\ MainInv /\ FailInv => FailureClean
  BY DEF FailInv, FailureClean, Wiped, Beyond, Waitable, MainInv, Phase,
         Abandon, CleanupCalls, TypeOK, KernelTypeOK
<1>5. KillsSucceed
  BY DEF CleanupCalls, KillsSucceed
<1>6. QED
  BY <1>1, <1>2, <1>3, <1>4, TypeCorrect, MainCorrect, ForestCorrect,
     <1>5, GroupCorrect, PTL DEF Spec

=============================================================================
