----------------------- MODULE DiagnosticWriterProofs -----------------------
(***************************************************************************)
(* Proofs about DiagnosticWriter, for messages of every length, every set  *)
(* of files stderr may be, and any number of foreign signals and           *)
(* redirections.                                                           *)
(***************************************************************************)
EXTENDS DiagnosticWriter, TLAPS

\* The mask that will come back, and what is pending: signals the caller had
\* blocked, foreign ones, and tino's own.
MaskInv ==
    /\ callerMask \subseteq restoreMask
    /\ restoreMask \ callerMask \subseteq denied
    /\ pc = "block" => mask = callerMask
    /\ pc # "done" => felt = {}
    /\ shared \subseteq callerMask \cup sent
    /\ private \subseteq callerMask \cup sent \cup own

\* tino's own signal is private, exists only between the write and the end of
\* the consumption, and leaves a foreign one of its number only if that one
\* is shared: sigtimedwait, which takes the private one, takes the right one.
OwnInv ==
    /\ own \subseteq private
    /\ pc \notin {"consume", "drop", "done"} => own = {}
    /\ pc = "consume" => own = {errno}
    /\ pc = "drop" => own \subseteq restoreMask \cup pendingBefore \cup {errno}
    /\ pc = "drop" /\ errno \notin restoreMask \cup pendingBefore => errno \notin own

\* A foreign signal is pending; next to tino's own it is shared, or merged.
ForeignInv ==
    /\ pc # "done" => sent \ merged \subseteq Pending
    /\ (sent \ merged) \cap own \subseteq shared

IInv == MaskInv /\ OwnInv /\ ForeignInv /\ CallerUntouched

LEMMA InitSafe == Init => IInv
BY DEF Init, IInv, MaskInv, OwnInv, ForeignInv, CallerUntouched, Pending, Done,
       OwnSignalHidden, ForeignSignalKept, MaskRestored

LEMMA SafeStep == IInv /\ [Next]_vars => IInv'
<1> SUFFICES ASSUME IInv, [Next]_vars PROVE IInv'
  OBVIOUS
<1> USE DEF IInv, MaskInv, OwnInv, ForeignInv, CallerUntouched, Pending, Done,
            OwnSignalHidden, ForeignSignalKept, MaskRestored
<1>1. CASE Block
  BY <1>1 DEF Block, guard, writer, history
<1>2. CASE SnapshotPending
  BY <1>2 DEF SnapshotPending, signals, writer, history
<1>3. CASE Pin
  BY <1>3 DEF Pin, signals, guard, history
<1>4. CASE Classify
  BY <1>4 DEF Classify, signals, guard, history
<1>5. CASE Reopen
  BY <1>5 DEF Reopen, signals, guard, history
<1>6. CASE Write
  BY <1>6 DEF Write, Written, Interrupted, Failed, Raised, Consumes, writer, guard
<1>7. CASE Consume
  <2>1. errno \in private /\ own = {errno}
    BY <1>7 DEF Consume
  <2>2. /\ pc = "consume" /\ pc' \in {"consume", "drop"}
        /\ UNCHANGED <<mask, callerMask, pendingBefore, errno, sent, merged, felt>>
    BY <1>7 DEF Consume
  <2>3. CASE errno \in pendingBefore /\ UNCHANGED <<private, shared, own, restoreMask, denied>>
    BY <2>1, <2>2, <2>3
  <2>4. CASE /\ pc' = "drop" /\ private' = private \ {errno} /\ own' = own \ {errno}
             /\ UNCHANGED <<shared, restoreMask, denied>>
    BY <2>1, <2>2, <2>4
  <2>5. CASE pc' = pc /\ UNCHANGED <<private, shared, own, restoreMask, denied>>
    BY <2>1, <2>2, <2>5
  <2>6. CASE /\ restoreMask' = restoreMask \cup {errno} /\ denied' = denied \cup {errno}
             /\ UNCHANGED <<private, shared, own>>
    BY <2>1, <2>2, <2>6
  <2> QED BY <1>7, <2>1, <2>3, <2>4, <2>5, <2>6 DEF Consume, Foreign, Deny
<1>8. CASE DropGuard
  BY <1>8 DEF DropGuard, guard, writer
<1>9. ASSUME NEW s \in Signals, Send(s) PROVE IInv'
  BY <1>9 DEF Send, Event, guard, writer
<1>10. ASSUME NEW f \in Files, Redirect(f) PROVE IInv'
  BY <1>10 DEF Redirect, Event, signals, guard, writer, history
<1>11. CASE UNCHANGED vars
  BY <1>11 DEF vars, signals, guard, writer, history
<1> QED BY <1>1, <1>2, <1>3, <1>4, <1>5, <1>6, <1>7, <1>8, <1>9, <1>10, <1>11
        DEF Next, Step

-----------------------------------------------------------------------------
(* Nobody notices that tino wrote: its own SIGPIPE or SIGXFSZ is never     *)
(* felt, one of somebody else is never swallowed, and the mask comes back  *)
(* but for what could not be consumed (DiagnosticWriteGuard).              *)
THEOREM NobodyNotices == Spec => []CallerUntouched
<1>1. IInv => CallerUntouched
  BY DEF IInv
<1> QED BY <1>1, InitSafe, SafeStep, PTL DEF Spec
-----------------------------------------------------------------------------
(* Every variable has its type.                                            *)

LEMMA InitType == Init => TypeOK
BY WriterAssumption DEF Init, TypeOK, NoFile

LEMMA TypeStep == TypeOK /\ [Next]_vars => TypeOK'
<1> SUFFICES ASSUME TypeOK, [Next]_vars PROVE TypeOK'
  OBVIOUS
<1> USE WriterAssumption DEF TypeOK
<1>1. CASE Block
  BY <1>1 DEF Block, guard, writer, history
<1>2. CASE SnapshotPending
  BY <1>2 DEF SnapshotPending, signals, writer, history, Pending
<1>3. CASE Pin
  BY <1>3 DEF Pin, signals, guard, history
<1>4. CASE Classify
  BY <1>4 DEF Classify, Writable, AnyFile, NoFile, signals, guard, history
<1>5. CASE Reopen
  <2>1. [fd2 EXCEPT !.access = "write"] \in AnyFile
    BY DEF AnyFile
  <2> QED BY <1>5, <2>1 DEF Reopen, signals, guard, history
<1>6. CASE Write
  BY <1>6 DEF Write, Written, Interrupted, Failed, Raised, Consumes, Signals, writer, guard
<1>7. CASE Consume
  BY <1>7 DEF Consume, Foreign, Deny, Signals
<1>8. CASE DropGuard
  BY <1>8 DEF DropGuard, guard, writer, Pending
<1>9. ASSUME NEW s \in Signals, Send(s) PROVE TypeOK'
  BY <1>9 DEF Send, Event, guard, writer
<1>10. ASSUME NEW f \in Files, Redirect(f) PROVE TypeOK'
  BY <1>10 DEF Redirect, Event, signals, guard, writer, history
<1>11. CASE UNCHANGED vars
  BY <1>11 DEF vars, signals, guard, writer, history
<1> QED BY <1>1, <1>2, <1>3, <1>4, <1>5, <1>6, <1>7, <1>8, <1>9, <1>10, <1>11
        DEF Next, Step

(* Every variable has its type, and only a signal is ever consumed         *)
(* (DiagnosticWriteGuard, DiagnosticWriter).                               *)
THEOREM TypeCorrect == Spec => []TypeOK
BY InitType, TypeStep, PTL DEF Spec

-----------------------------------------------------------------------------
(* Every byte goes to the file that was stderr when it was pinned, whoever *)
(* redirects descriptor 2 meanwhile (DiagnosticWriter::stderr).            *)
THEOREM BytesGoRight == Spec => []RightFile
<1>1. Init => RightFile
  BY DEF Init, RightFile
<1>2. TypeOK /\ RightFile /\ [Next]_vars => RightFile'
  <2> SUFFICES ASSUME TypeOK, RightFile, [Next]_vars PROVE RightFile'
    OBVIOUS
  <2> USE DEF RightFile
  <2>1. CASE Block \/ SnapshotPending \/ Pin \/ DropGuard
    BY <2>1 DEF Block, SnapshotPending, Pin, DropGuard
  <2>2. CASE Classify
    BY <2>2 DEF Classify, Writable
  <2>3. CASE Reopen
    <3>1. fd2 \in AnyFile
      BY WriterAssumption DEF TypeOK
    <3>2. /\ [fd2 EXCEPT !.access = "write"].id = fd2.id
          /\ [fd2 EXCEPT !.access = "write"].access = "write"
      BY <3>1 DEF AnyFile
    <3> QED BY <2>3, <3>2 DEF Reopen, SameFile
  <2>4. CASE Write \/ Consume
    BY <2>4 DEF Write, Failed, Written, Interrupted, writer, Consume
  <2>5. CASE UNCHANGED vars \/ (\E s \in Signals : Send(s)) \/ (\E f \in Files : Redirect(f))
    BY <2>5 DEF vars, writer, Send, Redirect
  <2> QED BY <2>1, <2>2, <2>3, <2>4, <2>5 DEF Next, Step
<1> QED BY <1>1, <1>2, TypeCorrect, PTL DEF Spec
=============================================================================
