----------------------------- MODULE Container -----------------------------
(***************************************************************************)
(* What tino promises whoever started it: it collects its command exactly  *)
(* once, after the command's own exit, and answers once, with the code of  *)
(* that exit.  It answers with an error only after the command is dead and *)
(* collected too, unless the system refused to let it kill or wait         *)
(* (MayAbandon).                                                           *)
(***************************************************************************)
EXTENDS Integers

CONSTANTS ExpectZero,  \* exit codes reported as 0
          MayAbandon   \* killing or waiting may be refused

VARIABLES child,   \* "running", "exited", "collected"
          status,  \* the wait status of an exited child
          answer   \* Waiting, Error, or the reported code

abstractVars == <<child, status, answer>>

Waiting == -1
Error   == -2
Nothing == [how |-> "none", n |-> 0]
AnyStatus == [how : {"exited", "signaled"}, n : 0..255]

Reported(s) ==
    LET code == IF s.how = "exited" THEN s.n ELSE 128 + s.n
    IN  IF code \in ExpectZero THEN 0 ELSE code

AbstractInit == child = "running" /\ status = Nothing /\ answer = Waiting

Exit == /\ child = "running"
        /\ child' = "exited"
        /\ status' \in AnyStatus
        /\ UNCHANGED answer

Gather == /\ child = "exited"
          /\ answer = Waiting
          /\ child' = "collected"
          /\ UNCHANGED <<status, answer>>

Answer == /\ child = "collected"
          /\ answer = Waiting
          /\ answer' = Reported(status)
          /\ UNCHANGED <<child, status>>

GiveError == /\ answer = Waiting
             /\ child = "collected" \/ MayAbandon
             /\ answer' = Error
             /\ UNCHANGED <<child, status>>

AbstractNext == Exit \/ Gather \/ Answer \/ GiveError

AbstractSpec == AbstractInit /\ [][AbstractNext]_abstractVars

(* A command that exited is answered for. *)
AbstractFairness == WF_abstractVars(Gather \/ Answer \/ GiveError)
=============================================================================
