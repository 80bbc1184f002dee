-------------------------- MODULE JobControlProofs --------------------------
(***************************************************************************)
(* Proofs about JobControl, for any number of events and any size of a     *)
(* batch: where the terminal may be at each step of tino, and what tino    *)
(* knows about it.                                                         *)
(***************************************************************************)
EXTENDS JobControl, TLAPS

Stopping == {"check", "query", "give", "stop"}
Setting  == {"resumeSet", "give", "restoreSet"}
Leaving  == {"restore", "restoreSet", "done"}

\* Only a tino that owned the terminal ever moves it, and the command has it
\* only through tino.
OwnerInv ==
    /\ pc = "lookup" => ~owned
    /\ pc \in Stopping \cup {"resume", "resumeSet"} => owned
    /\ fg = "job" => owned

\* Whoever leaves has collected the command, so no claim can follow.
GoneInv ==
    /\ report = "exited" => job = "gone"
    /\ pc \in Leaving => job = "gone"
    /\ pc = "done" => fg # "job"

\* A command that has stopped is past its claim of the terminal.
ClaimInv ==
    /\ job = "stopped" \/ report = "stopped" => claimed
    /\ mainStop = "stopped" \/ suspend => claimed
    /\ pc \in Stopping => claimed

\* The terminal leaves tino only while tino is stopped: a lookup that no stop
\* followed is still true.
FreshInv ==
    /\ stale \in [Sets -> BOOLEAN]
    /\ pc # "lookup" /\ owned /\ ~claimed /\ (fg = "shell" \/ stopped) => stale["claim"]
    /\ pc \in Setting /\ (fg = "shell" \/ stopped) => stale["set"]

\* The decision to stop is taken before any shutdown, and with a parent.
StopInv ==
    /\ pc \in Stopping => ~closing
    /\ pc \in Stopping \ {"check"} => parent \/ stale["set"]

IInv == OwnerInv /\ GoneInv /\ ClaimInv /\ FreshInv /\ StopInv

LEMMA InitSafe == Init => IInv
BY DEF Init, IInv, OwnerInv, GoneInv, ClaimInv, FreshInv, StopInv, Stopping,
       Setting, Leaving, Sets

LEMMA SafeStep == IInv /\ [Next]_vars => IInv'
<1> SUFFICES ASSUME IInv, [Next]_vars PROVE IInv'
  OBVIOUS
<1> USE DEF IInv, OwnerInv, GoneInv, ClaimInv, FreshInv, StopInv, Stopping,
            Setting, Leaving, Sets, world, locals, history
<1>1. CASE ~stopped /\ Lookup
  BY <1>1 DEF Lookup, Owned
<1>2. CASE Poll
  BY <1>2 DEF Poll
<1>3. CASE Read
  <2>1. Handler \in {"wait", "resume", "forward"} /\ (Handler = "resume" => owned)
    BY DEF Handler
  <2>2. /\ pc = "read" /\ pc' \in {"decide", "wait", "resume", "forward"}
        /\ pc' = "resume" => owned
    BY <1>3, <2>1 DEF Read
  <2>3. (Read => (suspend' => suspend)) /\ (Read => mainStop' \in {"none", mainStop})
    BY DEF Read
  <2>4. UNCHANGED <<fg, job, report, claimed, stopped, parent, owned, closing, stale>>
    BY <1>3 DEF Read
  <2> QED BY <1>3, <2>2, <2>3, <2>4
<1>4. CASE Wait
  <2>1. /\ pc = "wait" /\ pc' \in {"read", "restore", "wait"}
        /\ pc' = "restore" => report = "exited"
        /\ report' = "none"
    BY <1>4 DEF Wait
  <2>2. mainStop' = "stopped" => claimed
    BY <1>4 DEF Wait
  <2>3. suspend' => claimed
    <3>1. CASE report = "none" /\ mainStop # "none"
      BY <1>4, <3>1 DEF Wait
    <3>2. CASE ~(report = "none" /\ mainStop # "none")
      <4>1. suspend' = suspend
        BY <1>4, <3>2 DEF Wait
      <4> QED BY <4>1
    <3> QED BY <3>1, <3>2
  <2>4. UNCHANGED <<fg, job, home, claimed, stopped, parent, owned, started,
                    closing, stale>>
    BY <1>4 DEF Wait
  <2> QED BY <2>1, <2>2, <2>3, <2>4
<1>5. CASE ~stopped /\ Resume
  BY <1>5 DEF Resume, Resumes
<1>6. CASE ResumeSet
  BY <1>6 DEF ResumeSet, TakeFor
<1>7. CASE Forward
  BY <1>7 DEF Forward, Forwarded, JobTurns
<1>8. CASE Expire
  BY <1>8 DEF Expire, JobTurns
<1>9. CASE Decide
  BY <1>9 DEF Decide, SuspendWanted
<1>10. CASE ~stopped /\ Check
  BY <1>10 DEF Check, CanStop
<1>11. CASE ~stopped /\ Query
  BY <1>11 DEF Query, AfterQuery
<1>12. CASE Give
  BY <1>12 DEF Give, TakeFor
<1>13. CASE Stop
  BY <1>13 DEF Stop
<1>14. CASE ~stopped /\ Restore
  BY <1>14 DEF Restore, Left
<1>15. CASE RestoreSet
  BY <1>15 DEF RestoreSet, TakeFor
<1>16. CASE ChildClaims
  BY <1>16 DEF ChildClaims
<1>17. CASE ShellTakes
  BY <1>17 DEF ShellTakes
<1>18. CASE ShellContinues
  BY <1>18 DEF ShellContinues, Continue
<1>19. CASE JobExits \/ JobReads \/ JobMoves \/ OtherContinues
  BY <1>19 DEF JobExits, JobReads, JobMoves, OtherContinues, JobTurns, Event
<1>20. CASE Suspends
  BY <1>20 DEF Suspends, JobTurns, Event
<1>21. CASE Terminates
  BY <1>21 DEF Terminates, Event
<1>22. CASE OtherStops
  BY <1>22 DEF OtherStops, Event
<1>23. CASE ShellGives
  BY <1>23 DEF ShellGives, Event
<1>24. CASE Background
  BY <1>24 DEF Background, Continue, Event
<1>25. CASE ShellExits
  BY <1>25 DEF ShellExits, Continue, Event
<1>26. CASE UNCHANGED vars
  BY <1>26 DEF vars
<1> QED BY <1>1, <1>2, <1>3, <1>4, <1>5, <1>6, <1>7, <1>8, <1>9, <1>10, <1>11,
           <1>12, <1>13, <1>14, <1>15, <1>16, <1>17, <1>18, <1>19, <1>20, <1>21,
           <1>22, <1>23, <1>24, <1>25, <1>26
        DEF Next, Tino, TinoStep, Outside

(* Every variable has its type: first the flags, then the rest.           *)
LEMMA LowestPending ==
  ASSUME pend \subseteq DOMAIN Number, pend # {}
  PROVE  Lowest \in pend
<1>1. DOMAIN Number = {"TERM", "CHLD", "CONT", "TSTP"}
  BY DEF Number
<1>2. /\ Number["TERM"] = 15 /\ Number["CHLD"] = 17
      /\ Number["CONT"] = 18 /\ Number["TSTP"] = 20
  BY DEF Number
<1>3. \E s \in pend : \A t \in pend : Number[s] <= Number[t]
  <2>1. CASE "TERM" \in pend
    BY <1>1, <1>2, <2>1
  <2>2. CASE "TERM" \notin pend /\ "CHLD" \in pend
    BY <1>1, <1>2, <2>2
  <2>3. CASE pend \subseteq {"CONT", "TSTP"} /\ "CONT" \in pend
    BY <1>1, <1>2, <2>3
  <2>4. CASE pend = {"TSTP"}
    BY <1>1, <1>2, <2>4
  <2> QED BY <1>1, <2>1, <2>2, <2>3, <2>4
<1> QED BY <1>3 DEF Lowest

LEMMA FlagStep == Flags /\ [Next]_vars => Flags'
<1> SUFFICES ASSUME Flags, [Next]_vars PROVE Flags'
  OBVIOUS
<1> USE DEF Flags, world, locals, history
<1>1. CASE Lookup
  BY <1>1 DEF Lookup, Owned
<1>2. CASE Poll
  BY <1>2 DEF Poll
<1>3. CASE Read
  BY <1>3 DEF Read
<1>4. CASE Wait
  BY <1>4 DEF Wait
<1>5. CASE Resume
  BY <1>5 DEF Resume
<1>6. CASE ResumeSet
  BY <1>6 DEF ResumeSet, TakeFor
<1>7. CASE Forward
  BY <1>7 DEF Forward, Forwarded, JobTurns
<1>8. CASE Expire
  BY <1>8 DEF Expire, JobTurns
<1>9. CASE Decide
  BY <1>9 DEF Decide
<1>10. CASE Check
  BY <1>10 DEF Check
<1>11. CASE Query
  BY <1>11 DEF Query, AfterQuery
<1>12. CASE Give
  BY <1>12 DEF Give, TakeFor
<1>13. CASE Stop
  BY <1>13 DEF Stop, StopSignal
<1>14. CASE Restore
  BY <1>14 DEF Restore
<1>15. CASE RestoreSet
  BY <1>15 DEF RestoreSet, TakeFor
<1>16. CASE ChildClaims
  BY <1>16 DEF ChildClaims
<1>17. CASE ShellTakes
  BY <1>17 DEF ShellTakes
<1>18. CASE ShellContinues
  BY <1>18 DEF ShellContinues, Continue
<1>19. CASE JobExits
  BY <1>19 DEF JobExits, JobTurns
<1>20. CASE JobReads
  BY <1>20 DEF JobReads, JobTurns
<1>21. CASE JobMoves
  BY <1>21 DEF JobMoves
<1>22. CASE OtherContinues
  BY <1>22 DEF OtherContinues, JobTurns
<1>23. CASE Suspends
  BY <1>23 DEF Suspends, JobTurns, StopSignal
<1>24. CASE Terminates
  BY <1>24 DEF Terminates
<1>25. CASE OtherStops
  BY <1>25 DEF OtherStops, StopSignal
<1>26. CASE ShellGives
  BY <1>26 DEF ShellGives
<1>27. CASE Background
  BY <1>27 DEF Background, Continue
<1>28. CASE ShellExits
  BY <1>28 DEF ShellExits, Continue
<1>29. CASE UNCHANGED vars
  BY <1>29 DEF vars
<1> QED BY <1>1, <1>2, <1>3, <1>4, <1>5, <1>6, <1>7, <1>8, <1>9, <1>10, <1>11,
           <1>12, <1>13, <1>14, <1>15, <1>16, <1>17, <1>18, <1>19, <1>20, <1>21, <1>22,
           <1>23, <1>24, <1>25, <1>26, <1>27, <1>28, <1>29
        DEF Next, Tino, TinoStep, Outside

LEMMA TypeStep == TypeOK /\ [Next]_vars => TypeOK'
<1> SUFFICES ASSUME TypeOK, [Next]_vars PROVE TypeOK'
  OBVIOUS
<1>0. {"TERM", "CHLD", "CONT", "TSTP"} \subseteq DOMAIN Number
  BY DEF Number
<1>a. Event => events' \in 0..MaxEvents
  BY JobControlAssumption DEF TypeOK, Event
<1>b. (Poll => budget' \in 0..Batch) /\ (Read => budget' \in 0..Batch)
  BY JobControlAssumption DEF TypeOK, Poll, Read
<1>c. Flags'
  BY FlagStep DEF TypeOK
<1> USE <1>0, <1>c DEF TypeOK, Groups, Sets, world, locals, history
<1>1. CASE Lookup
  BY <1>1 DEF Lookup, Owned
<1>2. CASE Poll
  BY <1>2, <1>b DEF Poll
<1>3. CASE Read
  <2>1. pend # {} => Lowest \in pend
    BY LowestPending
  <2>2. Handler \in {"wait", "resume", "forward"}
    BY DEF Handler
  <2> QED BY <1>3, <1>b, <2>1, <2>2 DEF Read
<1>4. CASE Wait
  BY <1>4 DEF Wait
<1>5. CASE Resume
  BY <1>5 DEF Resume
<1>6. CASE ResumeSet
  BY <1>6 DEF ResumeSet, TakeFor
<1>7. CASE Forward
  BY <1>7 DEF Forward, Forwarded, JobTurns
<1>8. CASE Expire
  BY <1>8 DEF Expire, JobTurns
<1>9. CASE Decide
  BY <1>9 DEF Decide
<1>10. CASE Check
  BY <1>10 DEF Check
<1>11. CASE Query
  BY <1>11 DEF Query, AfterQuery
<1>12. CASE Give
  BY <1>12 DEF Give, TakeFor
<1>13. CASE Stop
  BY <1>13 DEF Stop, StopSignal
<1>14. CASE Restore
  BY <1>14 DEF Restore
<1>15. CASE RestoreSet
  BY <1>15 DEF RestoreSet, TakeFor
<1>16. CASE ChildClaims
  BY <1>16 DEF ChildClaims
<1>17. CASE ShellTakes
  BY <1>17 DEF ShellTakes
<1>18. CASE ShellContinues
  BY <1>18 DEF ShellContinues, Continue
<1>19. CASE JobExits
  BY <1>19 DEF JobExits, JobTurns
<1>20. CASE JobReads
  BY <1>20 DEF JobReads, JobTurns
<1>21. CASE JobMoves
  BY <1>21, <1>a DEF JobMoves
<1>22. CASE OtherContinues
  BY <1>22, <1>a DEF OtherContinues, JobTurns
<1>23. CASE Suspends
  BY <1>23, <1>a DEF Suspends, JobTurns, StopSignal
<1>24. CASE Terminates
  BY <1>24, <1>a DEF Terminates
<1>25. CASE OtherStops
  BY <1>25, <1>a DEF OtherStops, StopSignal
<1>26. CASE ShellGives
  BY <1>26, <1>a DEF ShellGives
<1>27. CASE Background
  BY <1>27, <1>a DEF Background, Continue
<1>28. CASE ShellExits
  BY <1>28, <1>a DEF ShellExits, Continue
<1>29. CASE UNCHANGED vars
  BY <1>29 DEF vars
<1> QED BY <1>1, <1>2, <1>3, <1>4, <1>5, <1>6, <1>7, <1>8, <1>9, <1>10, <1>11,
           <1>12, <1>13, <1>14, <1>15, <1>16, <1>17, <1>18, <1>19, <1>20, <1>21, <1>22,
           <1>23, <1>24, <1>25, <1>26, <1>27, <1>28, <1>29
        DEF Next, Tino, TinoStep, Outside

LEMMA AlwaysSafe == Spec => []IInv
BY InitSafe, SafeStep, PTL DEF Spec

(* Every variable has its type (ForegroundTtyRestore, supervise_child_inner). *)
THEOREM TypeCorrect == Spec => []TypeOK
<1>1. Init => TypeOK
  <2>1. "CHLD" \in DOMAIN Number
    BY DEF Number
  <2>2. ASSUME Init PROVE Flags
    BY <2>2 DEF Init, Flags
  <2>3. 0 \in 0..MaxEvents /\ 0 \in 0..Batch
    BY JobControlAssumption
  <2> QED BY <2>1, <2>2, <2>3 DEF Init, TypeOK, Groups, Sets
<1> QED BY <1>1, TypeStep, PTL DEF Spec

-----------------------------------------------------------------------------
(* When tino returns, the terminal is not left with the group of a command *)
(* that is gone (ForegroundTtyRestore::drop).                              *)
THEOREM TerminalComesBack == Spec => []TerminalReturned
<1>1. IInv => TerminalReturned
  BY DEF IInv, GoneInv, TerminalReturned
<1> QED BY <1>1, AlwaysSafe, PTL

(* The terminal is never taken from the shell or another job unless tino   *)
(* was itself stopped between the lookup and the call that relies on it    *)
(* (claim_foreground_tty, suspend_job, resume_job, drop).                  *)
THEOREM NothingStolen == Spec => NoTheft
<1>1. ASSUME IInv, [Next]_vars, fg = "shell", fg' \in {"sup", "job"}, user' = user
      PROVE  stale[IF claimed' # claimed THEN "claim" ELSE "set"]
  <2> USE DEF IInv, FreshInv, Setting, world, locals, history
  <2>1. CASE ChildClaims
    BY <1>1, <2>1 DEF ChildClaims
  <2>2. CASE ResumeSet \/ Give \/ RestoreSet
    BY <1>1, <2>2 DEF ResumeSet, Give, RestoreSet, TakeFor
  <2>3. CASE Lookup \/ Poll \/ Read \/ Wait \/ Resume \/ Forward \/ Expire
             \/ Decide \/ Check \/ Query \/ Stop \/ Restore
    BY <1>1, <2>3 DEF Lookup, Poll, Read, Wait, Resume, Forward, Expire, Decide,
                      Check, Query, Stop, Restore
  <2>4. CASE \/ JobExits \/ JobReads \/ JobMoves \/ OtherContinues \/ Suspends
             \/ Terminates \/ OtherStops \/ Background
    BY <1>1, <2>4 DEF JobExits, JobReads, JobMoves, OtherContinues, Suspends,
                      Terminates, OtherStops, Background
  <2>5. CASE ShellTakes \/ ShellExits
    BY <1>1, <2>5 DEF ShellTakes, ShellExits
  <2>6. CASE ShellGives \/ ShellContinues
    BY <1>1, <2>6 DEF ShellGives, ShellContinues
  <2>7. CASE UNCHANGED vars
    BY <1>1, <2>7 DEF vars
  <2> QED BY <1>1, <2>1, <2>2, <2>3, <2>4, <2>5, <2>6, <2>7
          DEF Next, Tino, TinoStep, Outside
<1>2. IInv /\ [Next]_vars =>
        [ fg = "shell" /\ fg' \in {"sup", "job"} /\ user' = user
          => stale[IF claimed' # claimed THEN "claim" ELSE "set"] ]_vars
  BY <1>1
<1> QED BY <1>2, AlwaysSafe, PTL DEF Spec, NoTheft

(* tino stops itself only where a parent can continue it, and never once a *)
(* shutdown has begun (ForegroundTtyRestore::suspend_job).                 *)
THEOREM StopIsSafe == Spec => StopsToBeContinued
<1>1. IInv =>
        [ pc = "stop" /\ stopped' => ~closing /\ (parent \/ stale["set"]) ]_vars
  BY DEF IInv, StopInv, Stopping
<1> QED BY <1>1, AlwaysSafe, PTL DEF Spec, StopsToBeContinued
=============================================================================
