---------------------------- MODULE SpawnProofs ----------------------------
(***************************************************************************)
(* Proofs about Spawn, for every set of signals, every request and every   *)
(* set of failing calls.  The invariants say, for each call of the child,  *)
(* what the calls before it have established whatever the supervisor did   *)
(* in the meantime.                                                        *)
(***************************************************************************)
EXTENDS Spawn, TLAPS

Masked      == {"reset", "sigpipe", "prctl", "getppid", "setpgid", "sigmask"}
HandlerFree == (PreExec \ {"reset"}) \cup {"program"}
PipeReset   == HandlerFree \ {"sigpipe"}
Armed       == PipeReset \ {"prctl"}
Checked     == Armed \ {"getppid"}
Led         == Checked \ {"setpgid"}
Unmasked    == Led \ {"sigmask"}

\* Until thread_set_mask nothing is delivered but what the fork left unblocked,
\* and there is no handler of the caller once reset_caught_handlers has run.
SignalInv ==
    /\ step \in Masked => Signals \ mask \subseteq Excluded \ asked.mask
    /\ step \in HandlerFree => \A s \in Signals : disp[s] # "handler"
    /\ NoHostHandler

\* From prctl on the kernel tells the child of the supervisor's death; a
\* death before it is noticed by getppid.
DeathInv ==
    /\ step \in Armed => armed = (asked.pdeath # None)
    /\ step \in Checked /\ asked.pdeath # None /\ super = "dead" => told

\* What the program inherits is established step by step.
PromiseInv ==
    /\ step \in Unmasked => mask = asked.mask
    /\ step \in PipeReset => disp[Pipe] = "default"
    /\ step \in {"exec", "program"} /\ asked.policy = "strict" => restricted

\* Unless a call failed or the program moved, a child that is past its
\* setpgid is in its own group.
GroupInv ==
    /\ step = "program" => execed
    /\ session => excused
    /\ (step \in Led \/ execed) /\ asked.pgroup /\ ~excused => group = "own"

-----------------------------------------------------------------------------
(* Every variable has its type.                                            *)

LEMMA InitType == Init => TypeOK
BY SpawnAssumption, SignalAssumption
   DEF Init, TypeOK, SignalsTypeOK, PreExec, Requests, Dispositions

LEMMA TypeStep == TypeOK /\ [Next]_vars => TypeOK'
<1> SUFFICES ASSUME TypeOK, [Next]_vars PROVE TypeOK'
  OBVIOUS
<1> USE SpawnAssumption, SignalAssumption DEF TypeOK, SignalsTypeOK, PreExec, Requests, Dispositions
<1>1. CASE ResetHandlers BY <1>1 DEF ResetHandlers
<1>2. CASE ResetPipe BY <1>2 DEF ResetPipe, SetAction, Discards
<1>3. CASE Arm
  <2>1. armed' \in BOOLEAN /\ (armed' => asked.pdeath # None)
    BY <1>3 DEF Arm
  <2>2. /\ step' = "getppid"
        /\ UNCHANGED <<signalVars, asked, group, session, execed, restricted,
                       super, useGroup, told, surprised, excused>>
    BY <1>3 DEF Arm
  <2> QED BY <2>1, <2>2 DEF signalVars
<1>s. \A s \in Signals : Strike(s) =>
        /\ mask' \subseteq Signals /\ pending' \subseteq mask' /\ disp' = disp
        /\ surprised' \subseteq Signals \X (PreExec \cup {"program", "zombie"})
  BY DEF Strike, Generate
<1>4. CASE CheckParent
  <2>1. CASE asked.pdeath # None /\ super = "dead"
    <3>1. asked.pdeath \in Signals /\ Strike(asked.pdeath)
      BY <1>4, <2>1 DEF CheckParent
    <3>2. step' \in {"zombie", "setpgid"} /\ told'
      BY <1>4, <2>1 DEF CheckParent
    <3> QED BY <1>4, <1>s, <3>1, <3>2 DEF CheckParent
  <2>2. CASE ~(asked.pdeath # None /\ super = "dead")
    BY <1>4, <2>2 DEF CheckParent, signalVars
  <2> QED BY <2>1, <2>2
<1>5. CASE LeadGroup BY <1>5 DEF LeadGroup, signalVars
<1>6. CASE Unmask
  <2>1. mask' \subseteq Signals /\ pending' \subseteq mask' /\ disp' = disp
    BY <1>6 DEF Unmask, SetMask
  <2>2. /\ step' \in {"zombie", "landlock"}
        /\ surprised' \subseteq Signals \X (PreExec \cup {"program", "zombie"})
    BY <1>6 DEF Unmask, Felt
  <2> QED BY <1>6, <2>1, <2>2 DEF Unmask
<1>7. CASE Restrict BY <1>7 DEF Restrict, signalVars
<1>8. CASE Exec BY <1>8 DEF Exec
<1>9. CASE Abort BY <1>9 DEF Abort, signalVars
<1>10. CASE SetGroup BY <1>10 DEF SetGroup, Decide, Ask, signalVars
<1>11. CASE NoGroup BY <1>11 DEF NoGroup, Decide, child, signalVars
<1>12. CASE QueryGroup BY <1>12 DEF QueryGroup, Decide, Ask, child, signalVars
<1>13. CASE GroupExists BY <1>13 DEF GroupExists, Decide, child, signalVars
<1>14. CASE GroupFault BY <1>14 DEF GroupFault, Decide, child, signalVars
<1>15. CASE SupervisorDies
  <2>1. CASE armed /\ Alive
    <3>1. asked.pdeath \in Signals /\ Strike(asked.pdeath)
      BY <1>15, <2>1 DEF SupervisorDies
    <3>2. step' \in {"zombie", step} /\ told'
      BY <1>15, <2>1 DEF SupervisorDies
    <3> QED BY <1>15, <1>s, <3>1, <3>2 DEF SupervisorDies
  <2>2. CASE ~(armed /\ Alive)
    BY <1>15, <2>2 DEF SupervisorDies, signalVars
  <2> QED BY <2>1, <2>2
<1>16. CASE \E s \in Signals : Send(s)
  <2>1. PICK s \in Signals : Send(s)
    BY <1>16
  <2>2. Strike(s) /\ step' \in {"zombie", step}
    BY <2>1 DEF Send
  <2> QED BY <1>s, <2>1, <2>2 DEF Send
<1>17. CASE ProgramLeadsSession BY <1>17 DEF ProgramLeadsSession, signalVars
<1>18. CASE ProgramMoves BY <1>18 DEF ProgramMoves, signalVars
<1>19. CASE ProgramExits BY <1>19 DEF ProgramExits, signalVars
<1>20. CASE UNCHANGED vars BY <1>20 DEF vars, child, signalVars
<1> QED
  BY <1>1, <1>2, <1>3, <1>4, <1>5, <1>6, <1>7, <1>8, <1>9, <1>10, <1>11,
     <1>12, <1>13, <1>14, <1>15, <1>16, <1>17, <1>18, <1>19, <1>20
     DEF Next, Child, Supervisor, Program

\* Every variable of the spawning protocol has its type (spawn_child,
\* manage_process_group).
THEOREM SpawnTypeCorrect == Spec => []TypeOK
BY InitType, TypeStep, PTL DEF Spec

-----------------------------------------------------------------------------
(* The caller's handlers never run in the child.                           *)

LEMMA SignalStep == TypeOK /\ SignalInv /\ [Next]_vars => SignalInv'
<1> SUFFICES ASSUME TypeOK, SignalInv, [Next]_vars PROVE SignalInv'
  OBVIOUS
<1> USE SpawnAssumption DEF SignalInv, Masked, HandlerFree, PreExec, NoHostHandler
<1>s. ASSUME NEW s \in Signals, Strike(s), step \in Masked \cup HandlerFree
      PROVE  /\ UNCHANGED <<mask, disp>>
             /\ surprised' \subseteq (Excluded \ asked.mask) \X {"reset"}
  <2>1. UNCHANGED <<mask, disp>>
    BY <1>s DEF Strike, Generate
  <2>2. s \notin mask /\ disp[s] = "handler" =>
          <<s, step>> \in (Excluded \ asked.mask) \X {"reset"}
    <3> SUFFICES ASSUME s \notin mask, disp[s] = "handler"
                 PROVE  <<s, step>> \in (Excluded \ asked.mask) \X {"reset"}
      OBVIOUS
    <3>1. step \notin HandlerFree
      OBVIOUS
    <3>2. step = "reset"
      BY <1>s, <3>1
    <3>3. s \in Excluded \ asked.mask
      BY <3>2
    <3> QED BY <3>2, <3>3
  <2>3. surprised \subseteq (Excluded \ asked.mask) \X {"reset"}
    OBVIOUS
  <2>4. surprised' \subseteq (Excluded \ asked.mask) \X {"reset"}
    <3>1. CASE s \notin mask /\ disp[s] = "handler"
      <4>1. surprised' = surprised \cup {<<s, step>>}
        BY <1>s, <3>1 DEF Strike
      <4> HIDE DEF SignalInv, NoHostHandler
      <4> QED BY <2>2, <2>3, <3>1, <4>1
    <3>2. CASE ~(s \notin mask /\ disp[s] = "handler")
      BY <1>s, <2>3, <3>2 DEF Strike
    <3> QED BY <3>1, <3>2
  <2> QED BY <2>1, <2>4
<1>1. CASE ResetHandlers
  <2>1. \A s \in Signals : disp'[s] # "handler"
    BY <1>1 DEF ResetHandlers, TypeOK, SignalsTypeOK
  <2> QED BY <1>1, <2>1 DEF ResetHandlers
<1>2. CASE ResetPipe
  <2>1. \A s \in Signals : disp'[s] # "handler"
    BY <1>2 DEF ResetPipe, SetAction, TypeOK, SignalsTypeOK
  <2> QED BY <1>2, <2>1 DEF ResetPipe, SetAction
<1>3. CASE Arm BY <1>3 DEF Arm, signalVars
<1>4. CASE CheckParent
  <2>1. CASE asked.pdeath # None /\ super = "dead"
    <3>1. asked.pdeath \in Signals /\ Strike(asked.pdeath) /\ asked' = asked
      BY <1>4, <2>1 DEF CheckParent, TypeOK, Requests
    <3>2. step = "getppid" /\ step' \in {"zombie", "setpgid"}
      BY <1>4, <2>1 DEF CheckParent
    <3> QED BY <1>s, <3>1, <3>2
  <2>2. CASE ~(asked.pdeath # None /\ super = "dead")
    BY <1>4, <2>2 DEF CheckParent, signalVars
  <2> QED BY <2>1, <2>2
<1>5. CASE LeadGroup BY <1>5 DEF LeadGroup, signalVars
<1>6. CASE Unmask
  <2>1. Felt(asked.mask) \subseteq Signals
    BY DEF Felt, TypeOK, SignalsTypeOK
  <2>2. surprised' = surprised
    BY <1>6, <2>1 DEF Unmask
  <2> QED BY <1>6, <2>2 DEF Unmask, SetMask
<1>7. CASE Restrict BY <1>7 DEF Restrict, signalVars
<1>8. CASE Exec
  <2>1. \A s \in Signals : disp'[s] # "handler"
    BY <1>8 DEF Exec, TypeOK, SignalsTypeOK
  <2> QED BY <1>8, <2>1 DEF Exec
<1>9. CASE Abort BY <1>9 DEF Abort, signalVars
<1>10. CASE Supervisor
  <2>1. UNCHANGED <<signalVars, step, surprised, asked>>
    BY <1>10 DEF Supervisor, SetGroup, NoGroup, QueryGroup, GroupExists,
                 GroupFault, child
  <2> QED BY <2>1 DEF signalVars
<1>11. CASE SupervisorDies
  <2>1. CASE armed /\ Alive
    <3>1. asked.pdeath \in Signals /\ Strike(asked.pdeath) /\ asked' = asked
      BY <1>11, <2>1 DEF SupervisorDies, TypeOK, Requests
    <3>2. step \in Masked \cup HandlerFree /\ step' \in {"zombie", step}
      BY <1>11, <2>1 DEF SupervisorDies, Alive, TypeOK
    <3> QED BY <1>s, <3>1, <3>2
  <2>2. CASE ~(armed /\ Alive)
    BY <1>11, <2>2 DEF SupervisorDies, signalVars
  <2> QED BY <2>1, <2>2
<1>12. CASE \E s \in Signals : Send(s)
  <2>1. PICK s \in Signals : Send(s)
    BY <1>12
  <2>2. Strike(s) /\ asked' = asked /\ step \in PreExec /\ step' \in {"zombie", step}
    BY <2>1 DEF Send
  <2> QED BY <1>s, <2>1, <2>2
<1>13. CASE Program
  <2>1. UNCHANGED <<signalVars, surprised, asked>> /\ step' \in {step, "zombie"}
    BY <1>13 DEF Program, ProgramLeadsSession, ProgramMoves, ProgramExits
  <2> QED BY <2>1 DEF signalVars
<1>14. CASE UNCHANGED vars BY <1>14 DEF vars, child, signalVars
<1> QED
  BY <1>1, <1>2, <1>3, <1>4, <1>5, <1>6, <1>7, <1>8, <1>9, <1>10, <1>11,
     <1>12, <1>13, <1>14 DEF Next, Child

\* No handler of the caller of tino::run runs in the child for a signal that was
\* blocked at the fork, nor any once they are reset (reset_caught_handlers).
THEOREM NoHandlerRuns == Spec => []NoHostHandler
<1>1. Init => SignalInv
  BY DEF Init, SignalInv, HandlerFree, PreExec, NoHostHandler
<1>2. SignalInv => NoHostHandler
  BY DEF SignalInv
<1> QED BY <1>1, <1>2, SignalStep, SpawnTypeCorrect, PTL DEF Spec

-----------------------------------------------------------------------------
(* The supervisor's death is not missed.                                   *)

LEMMA DeathStep == TypeOK /\ DeathInv /\ [Next]_vars => DeathInv'
<1> SUFFICES ASSUME TypeOK, DeathInv, [Next]_vars PROVE DeathInv'
  OBVIOUS
<1> USE DEF DeathInv, Checked, Armed, PipeReset, HandlerFree, PreExec
<1>1. CASE ResetHandlers BY <1>1 DEF ResetHandlers
<1>2. CASE ResetPipe BY <1>2 DEF ResetPipe
<1>3. CASE Arm
  <2>1. armed' = (asked'.pdeath # None) /\ step' = "getppid"
    BY <1>3 DEF Arm
  <2> QED BY <2>1
<1>4. CASE CheckParent BY <1>4 DEF CheckParent
<1>5. CASE LeadGroup BY <1>5 DEF LeadGroup
<1>6. CASE Unmask BY <1>6 DEF Unmask
<1>7. CASE Restrict BY <1>7 DEF Restrict
<1>8. CASE Exec BY <1>8 DEF Exec
<1>9. CASE Abort BY <1>9 DEF Abort
<1>10. CASE Supervisor
  <2>1. UNCHANGED <<step, armed, asked, told>>
    BY <1>10 DEF Supervisor, SetGroup, NoGroup, QueryGroup, GroupExists,
                 GroupFault, child
  <2>2. super' # "dead" \/ super = "dead"
    BY <1>10 DEF Supervisor, SetGroup, NoGroup, QueryGroup, GroupExists,
                 GroupFault, Decide, Ask
  <2> QED BY <2>1, <2>2
<1>11. CASE SupervisorDies
  <2>1. UNCHANGED <<armed, asked>> /\ step' \in {step, "zombie"}
    BY <1>11 DEF SupervisorDies
  <2>2. armed /\ Alive => told'
    BY <1>11 DEF SupervisorDies
  <2> QED BY <2>1, <2>2 DEF Alive
<1>12. CASE \E s \in Signals : Send(s) BY <1>12 DEF Send
<1>13. CASE Program
  BY <1>13 DEF Program, ProgramLeadsSession, ProgramMoves, ProgramExits
<1>14. CASE UNCHANGED vars BY <1>14 DEF vars, child
<1> QED
  BY <1>1, <1>2, <1>3, <1>4, <1>5, <1>6, <1>7, <1>8, <1>9, <1>10, <1>11,
     <1>12, <1>13, <1>14 DEF Next, Child

\* A program whose supervisor is dead has been sent its parent-death signal,
\* at whichever step of the child the supervisor died (spawn_child).
THEOREM DeathNeverMissed == Spec => []ParentDeathFelt
<1>1. Init => DeathInv
  BY DEF Init, DeathInv, Checked, Armed, PipeReset, HandlerFree, PreExec
<1>2. DeathInv => ParentDeathFelt
  BY DEF DeathInv, ParentDeathFelt, Checked, Armed, PipeReset, HandlerFree,
         PreExec
<1> QED BY <1>1, <1>2, DeathStep, SpawnTypeCorrect, PTL DEF Spec

-----------------------------------------------------------------------------
(* The program starts as run_impl promised.                                *)

LEMMA PromiseStep == TypeOK /\ PromiseInv /\ [Next]_vars => PromiseInv'
<1> SUFFICES ASSUME TypeOK, PromiseInv, [Next]_vars PROVE PromiseInv'
  OBVIOUS
<1> USE SpawnAssumption DEF PromiseInv, Unmasked, Led, Checked, Armed,
        PipeReset, HandlerFree, PreExec
<1>1. CASE ResetHandlers BY <1>1 DEF ResetHandlers
<1>2. CASE ResetPipe
  <2>1. disp'[Pipe] = "default"
    BY <1>2 DEF ResetPipe, SetAction, TypeOK, SignalsTypeOK
  <2> QED BY <1>2, <2>1 DEF ResetPipe
<1>3. CASE Arm BY <1>3 DEF Arm, signalVars
<1>4. CASE CheckParent
  BY <1>4 DEF CheckParent, Strike, Generate, signalVars
<1>5. CASE LeadGroup BY <1>5 DEF LeadGroup, signalVars
<1>6. CASE Unmask BY <1>6 DEF Unmask, SetMask
<1>7. CASE Restrict BY <1>7 DEF Restrict, signalVars
<1>8. CASE Exec
  <2>1. disp'[Pipe] = "default"
    BY <1>8 DEF Exec, TypeOK, SignalsTypeOK
  <2> QED BY <1>8, <2>1 DEF Exec
<1>9. CASE Abort BY <1>9 DEF Abort
<1>10. CASE Supervisor
  <2>1. UNCHANGED <<signalVars, step, asked, restricted>>
    BY <1>10 DEF Supervisor, SetGroup, NoGroup, QueryGroup, GroupExists,
                 GroupFault, child
  <2> QED BY <2>1 DEF signalVars
<1>11. CASE SupervisorDies
  BY <1>11 DEF SupervisorDies, Strike, Generate, signalVars
<1>12. CASE \E s \in Signals : Send(s)
  BY <1>12 DEF Send, Strike, Generate
<1>13. CASE Program
  BY <1>13 DEF Program, ProgramLeadsSession, ProgramMoves, ProgramExits,
               signalVars
<1>14. CASE UNCHANGED vars BY <1>14 DEF vars, child, signalVars
<1> QED
  BY <1>1, <1>2, <1>3, <1>4, <1>5, <1>6, <1>7, <1>8, <1>9, <1>10, <1>11,
     <1>12, <1>13, <1>14 DEF Next, Child

\* The program starts with the caller's mask, SIGPIPE at its default and under
\* its restrictions unless the policy only warns (spawn_child).
THEOREM ProgramStartsRight == Spec => []ProgramAsPromised
<1>1. Init => PromiseInv
  BY DEF Init, PromiseInv, Unmasked, Led, Checked, Armed, PipeReset,
         HandlerFree, PreExec
<1>2. PromiseInv => ProgramAsPromised
  BY DEF PromiseInv, ProgramAsPromised, Unmasked, Led, Checked, Armed,
         PipeReset, HandlerFree, PreExec
<1> QED BY <1>1, <1>2, PromiseStep, SpawnTypeCorrect, PTL DEF Spec

-----------------------------------------------------------------------------
(* The supervisor and the child agree about the group.                     *)

LEMMA GroupStep == TypeOK /\ GroupInv /\ [Next]_vars => GroupInv'
<1> SUFFICES ASSUME TypeOK, GroupInv, [Next]_vars PROVE GroupInv'
  OBVIOUS
<1> USE DEF GroupInv, Led, Checked, Armed, PipeReset, HandlerFree, PreExec
<1>1. CASE ResetHandlers BY <1>1 DEF ResetHandlers
<1>2. CASE ResetPipe BY <1>2 DEF ResetPipe
<1>3. CASE Arm BY <1>3 DEF Arm
<1>4. CASE CheckParent BY <1>4 DEF CheckParent
<1>5. CASE LeadGroup BY <1>5 DEF LeadGroup
<1>6. CASE Unmask BY <1>6 DEF Unmask
<1>7. CASE Restrict BY <1>7 DEF Restrict
<1>8. CASE Exec BY <1>8 DEF Exec
<1>9. CASE Abort BY <1>9 DEF Abort
<1>10. CASE SetGroup BY <1>10 DEF SetGroup
<1>11. CASE NoGroup \/ QueryGroup \/ GroupExists \/ GroupFault
  <2>1. UNCHANGED child /\ UNCHANGED asked
    BY <1>11 DEF NoGroup, QueryGroup, GroupExists, GroupFault
  <2>2. excused' = excused \/ excused' = TRUE
    BY <1>11 DEF NoGroup, QueryGroup, GroupExists, GroupFault
  <2> QED BY <2>1, <2>2 DEF child
<1>12. CASE SupervisorDies BY <1>12 DEF SupervisorDies
<1>13. CASE \E s \in Signals : Send(s) BY <1>13 DEF Send
<1>14. CASE Program
  BY <1>14 DEF Program, ProgramLeadsSession, ProgramMoves, ProgramExits
<1>15. CASE UNCHANGED vars BY <1>15 DEF vars, child
<1> QED
  BY <1>1, <1>2, <1>3, <1>4, <1>5, <1>6, <1>7, <1>8, <1>9, <1>10, <1>11,
     <1>12, <1>13, <1>14, <1>15 DEF Next, Child, Supervisor

DecidedRight ==
    super # "dead" /\ super' = "supervise" /\ super # "supervise" =>
        /\ useGroup' => asked.pgroup /\ group' = "own"
        /\ asked.pgroup /\ execed /\ ~excused' => useGroup'

\* The answer of manage_process_group is right whoever formed the group and
\* however far the child has come.
THEOREM GroupDecidedRight == Spec => GroupTruth
<1>1. Init => GroupInv
  BY DEF Init, GroupInv, Led, Checked, Armed, PipeReset, HandlerFree, PreExec
<1>2. TypeOK /\ GroupInv /\ [Next]_vars => [DecidedRight]_vars
  <2> SUFFICES ASSUME TypeOK, GroupInv, Next, super # "dead",
                      super' = "supervise", super # "supervise"
               PROVE  /\ useGroup' => asked.pgroup /\ group' = "own"
                      /\ asked.pgroup /\ execed /\ ~excused' => useGroup'
    BY DEF DecidedRight
  <2>1. Supervisor
    BY DEF Next, Child, Program, ResetHandlers, ResetPipe, Arm, CheckParent,
           LeadGroup, Unmask, Restrict, Exec, Abort, ProgramLeadsSession,
           ProgramMoves, ProgramExits, SupervisorDies, Send
  <2>2. CASE SetGroup
    BY <2>2 DEF SetGroup, Decide, Ask, GroupInv
  <2>3. CASE NoGroup
    BY <2>3 DEF NoGroup, Decide
  <2>4. CASE QueryGroup
    BY <2>4 DEF QueryGroup, Decide, Ask, GroupInv, TypeOK, child
  <2>5. CASE GroupExists
    BY <2>5 DEF GroupExists, Decide, GroupInv, TypeOK, child
  <2>6. CASE GroupFault
    BY <2>6 DEF GroupFault, Decide
  <2> QED BY <2>1, <2>2, <2>3, <2>4, <2>5, <2>6 DEF Supervisor
<1> QED
  BY <1>1, <1>2, GroupStep, SpawnTypeCorrect, PTL
     DEF Spec, GroupTruth, DecidedRight
=============================================================================
