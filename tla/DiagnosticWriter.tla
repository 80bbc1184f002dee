-------------------------- MODULE DiagnosticWriter --------------------------
(***************************************************************************)
(* One diagnostic message to stderr: DiagnosticWriteGuard and              *)
(* DiagnosticWriter of src/platform/unix/sys.rs, called by logging::log    *)
(* and, in the forked child, by child_write.  Nobody may notice that tino  *)
(* writes: not the caller's signal handlers, not its mask, not the         *)
(* descriptor flags it shares with the command, and a full pipe must not   *)
(* stop the supervision.                                                   *)
(*                                                                         *)
(* A signal is pending for the thread (private: what a failing write       *)
(* raises, or pthread_kill) or for the process (shared: kill).             *)
(***************************************************************************)
EXTENDS Naturals, FiniteSets

CONSTANTS
    MaxWrites,     \* remaining_writes: 64
    MaxTries,      \* sigtimedwait: 64
    Length,        \* bound: pieces of the message
    Files,         \* what stderr may be: [kind, access, id]
    MaxEvents      \* bound: foreign signals, redirections, changes of the file

Signals == {"PIPE", "XFSZ"}
AnyFile == [kind : {"fifo", "socket", "other"},
            access : {"write", "read", "path"}, id : Nat]

ASSUME WriterAssumption ==
    /\ {MaxWrites, MaxTries, Length} \subseteq Nat \ {0}
    /\ MaxEvents \in Nat
    /\ Files \subseteq AnyFile

VARIABLES
    pc,
    mask, private, shared,      \* the thread's signals
    fd2,                        \* what descriptor 2 refers to now
    events,
    (* the guard and the writer *)
    callerMask,                 \* the mask at the call
    restoreMask, pendingBefore,
    pinned, target,             \* stderr when it was duplicated; where the
                                \* bytes go
    remaining, left, tries, errno,
    (* history *)
    own,                        \* signals tino's own write raised and that
                                \* are still pending
    sent,                       \* signals somebody else sent during the call
    merged,                     \* of them, those the kernel merged with
                                \* tino's own
    felt,                       \* signals delivered when the mask came back
    denied                      \* signals sigtimedwait could not consume

guard   == <<callerMask, restoreMask, pendingBefore>>
writer  == <<pinned, target, remaining, left, tries, errno>>
history == <<own, sent, merged, felt, denied>>
signals == <<mask, private, shared>>
vars == <<pc, signals, fd2, events, guard, writer, history>>

NoFile == [kind |-> "none"]

TypeOK ==
    /\ pc \in {"block", "pending", "pin", "classify", "reopen", "write",
               "consume", "drop", "done"}
    /\ {mask, private, shared, callerMask, restoreMask, pendingBefore, own, sent,
        merged, felt, denied} \subseteq SUBSET Signals
    /\ fd2 \in Files
    /\ pinned \in Files \cup {NoFile} /\ target \in AnyFile \cup {NoFile}
    /\ events \in 0..MaxEvents
    /\ remaining \in 0..MaxWrites /\ left \in 0..Length /\ tries \in 0..MaxTries
    /\ errno \in Signals \cup {"none", "other"}
    /\ pc = "consume" => errno \in Signals

Init ==
    /\ pc = "block"
    /\ mask \in SUBSET Signals
    /\ shared \in SUBSET mask /\ private \in SUBSET mask
    /\ fd2 \in Files /\ events = 0
    /\ callerMask = mask /\ restoreMask = mask /\ pendingBefore = {}
    /\ pinned = NoFile /\ target = NoFile
    /\ remaining = MaxWrites /\ left = Length /\ tries = MaxTries
    /\ errno = "none"
    /\ own = {} /\ sent = {} /\ merged = {} /\ felt = {} /\ denied = {}

Pending == private \cup shared

----------------------------------------------------------------------------
(* The surroundings: other threads and processes.                          *)

Event == pc # "done" /\ events < MaxEvents /\ events' = events + 1

(* kill, or pthread_kill to this thread. *)
Send(s) ==
    /\ Event /\ s \in mask
    /\ sent' = sent \cup {s}
    /\ \/ /\ shared' = shared \cup {s}
          /\ UNCHANGED <<private, merged>>
       \/ /\ private' = private \cup {s}
          /\ merged' = IF s \in own THEN merged \cup {s} ELSE merged
          /\ UNCHANGED shared
    /\ UNCHANGED <<pc, mask, fd2, guard, writer, own, felt, denied>>

(* Another thread redirects stderr with dup2. *)
Redirect(f) ==
    /\ Event /\ f # fd2
    /\ fd2' = f
    /\ UNCHANGED <<pc, signals, guard, writer, history>>

----------------------------------------------------------------------------
(* DiagnosticWriteGuard::new                                               *)

Block ==
    /\ pc = "block"
    /\ \/ /\ mask' = mask \cup Signals
          /\ pc' = "pending"
       \/ /\ pc' = "done"                   \* the call failed: no guard
          /\ UNCHANGED mask
    /\ UNCHANGED <<private, shared, fd2, events, guard, writer, history>>

SnapshotPending ==
    /\ pc = "pending"
    /\ \/ /\ pendingBefore' = Pending
          /\ pc' = "pin"
       \/ /\ pc' = "drop"                   \* sigpending failed: no write
          /\ UNCHANGED pendingBefore
    /\ UNCHANGED <<signals, fd2, events, callerMask, restoreMask, writer,
                   history>>

----------------------------------------------------------------------------
(* DiagnosticWriter::stderr                                                *)

Pin ==
    /\ pc = "pin"
    /\ \/ pinned' = fd2 /\ pc' = "classify"
       \/ pc' = "drop" /\ UNCHANGED pinned  \* no descriptor left
    /\ UNCHANGED <<signals, fd2, events, guard, target, remaining, left, tries,
                   errno, history>>

Writable(f) == f.access = "write"

Classify ==
    /\ pc = "classify"
    /\ pc' = IF ~Writable(pinned) THEN "drop"
             ELSE IF pinned.kind = "fifo" THEN "reopen" ELSE "write"
    /\ target' = IF Writable(pinned) /\ pinned.kind # "fifo" THEN pinned
                                                            ELSE target
    /\ UNCHANGED <<signals, fd2, events, guard, pinned, remaining, left, tries,
                   errno, history>>

MutSameFile(f, g) == f.kind = g.kind

SameFile(f, g) == f.kind = g.kind /\ f.id = g.id

(* A pipe is opened again through /proc/self/fd/2, write-only and with an  *)
(* O_NONBLOCK of tino's own; by now 2 may be another file, or another end  *)
(* of the pipe.  The open may fail.                                        *)
Reopen ==
    /\ pc = "reopen"
    /\ \/ /\ SameFile(fd2, pinned)
          /\ target' = [fd2 EXCEPT !.access = "write"]
          /\ pc' = "write"
       \/ /\ pc' = "drop"
          /\ UNCHANGED target
    /\ UNCHANGED <<signals, fd2, events, guard, pinned, remaining, left, tries,
                   errno, history>>

----------------------------------------------------------------------------
(* write_all                                                               *)

Written ==
    /\ left' \in 0..(left - 1)
    /\ UNCHANGED <<pc, private, own, merged, errno>>

Interrupted ==
    /\ pc' = pc
    /\ UNCHANGED <<left, private, own, merged, errno>>

(* A write that fails raises its signal for this thread, blocked or even  *)
(* ignored; send has MSG_NOSIGNAL.                                         *)
Raised(s) == IF target.kind = "socket" THEN {} ELSE {s}

Consumes(e) == target.kind # "socket" /\ e # "other"

Failed(e) ==
    /\ errno' = e
    /\ pc' = IF Consumes(e) THEN "consume" ELSE "drop"
    /\ IF e = "other"
       THEN UNCHANGED <<private, own, merged>>
       ELSE /\ private' = private \cup Raised(e)
            /\ own' = own \cup Raised(e)
            /\ merged' = merged \cup (Raised(e) \cap private \cap sent)
    /\ UNCHANGED left

Write ==
    /\ pc = "write"
    /\ IF left = 0 \/ remaining = 0
       THEN /\ pc' = "drop"
            /\ UNCHANGED <<private, writer, own, merged>>
       ELSE /\ remaining' = remaining - 1
            /\ Written \/ Interrupted \/ \E e \in Signals \cup {"other"} : Failed(e)
            /\ UNCHANGED <<pinned, target, tries>>
    /\ UNCHANGED <<mask, shared, fd2, events, guard, sent, felt, denied>>

----------------------------------------------------------------------------
(* consume_failure                                                         *)

Foreign == pendingBefore

MutDeny == UNCHANGED restoreMask

(* Cleanup was denied: the signal stays blocked. *)
Deny == restoreMask' = restoreMask \cup {errno}

(* sigtimedwait takes the thread's signal before the process's. *)
Consume ==
    /\ pc = "consume"
    /\ \/ /\ errno \in Foreign
          /\ pc' = "drop"
          /\ UNCHANGED <<private, shared, own, tries, restoreMask, denied>>
       \/ /\ errno \notin Foreign /\ errno \in Pending /\ tries > 0
          /\ IF errno \in private
             THEN /\ private' = private \ {errno}
                  /\ own' = own \ {errno}
                  /\ UNCHANGED shared
             ELSE /\ shared' = shared \ {errno}
                  /\ UNCHANGED <<private, own>>
          /\ pc' = "drop"
          /\ UNCHANGED <<tries, restoreMask, denied>>
       \/ /\ errno \notin Foreign /\ errno \notin Pending
          /\ pc' = "drop"                   \* EAGAIN
          /\ UNCHANGED <<private, shared, own, tries, restoreMask, denied>>
       \/ /\ errno \notin Foreign /\ tries > 0
          /\ tries' = tries - 1             \* EINTR
          /\ UNCHANGED <<pc, private, shared, own, restoreMask, denied>>
       \/ /\ errno \notin Foreign           \* EPERM, or the last EINTR
          /\ Deny
          /\ denied' = denied \cup {errno}
          /\ pc' = "drop"
          /\ UNCHANGED <<private, shared, own, tries>>
    /\ UNCHANGED <<mask, fd2, events, callerMask, pendingBefore, pinned, target,
                   remaining, left, errno, sent, merged, felt>>

(* Drop: the mask comes back, what it does not block is delivered. *)
DropGuard ==
    /\ pc = "drop"
    /\ mask' = restoreMask
    /\ felt' = Pending \ restoreMask
    /\ private' = private \cap restoreMask
    /\ shared' = shared \cap restoreMask
    /\ own' = own \cap restoreMask
    /\ pc' = "done"
    /\ UNCHANGED <<fd2, events, guard, writer, sent, merged, denied>>

Step ==
    \/ Block \/ SnapshotPending \/ Pin \/ Classify \/ Reopen \/ Write \/ Consume
    \/ DropGuard

Next ==
    \/ Step
    \/ \E s \in Signals : Send(s)
    \/ \E f \in Files : Redirect(f)

Spec == Init /\ [][Next]_vars

----------------------------------------------------------------------------
(* Properties.                                                             *)

Done == pc = "done"

(* The caller never feels the signal of tino's own write: it is consumed,  *)
(* or stays blocked; one that was pending before stands for both.          *)
OwnSignalHidden ==
    Done => \A s \in felt : s \in sent \cup pendingBefore

(* A signal somebody else sent is not swallowed with tino's own, although  *)
(* sigtimedwait cannot tell them apart: it is delivered, or still pending, *)
(* unless the kernel had already made one signal of the two.               *)
ForeignSignalKept ==
    Done => sent \ merged \subseteq felt \cup Pending

(* The mask that comes back is the caller's, except for a signal of a      *)
(* failed write that could not be consumed.                                *)
MaskRestored ==
    Done => /\ callerMask \subseteq mask
            /\ mask \ callerMask \subseteq denied

(* Nobody notices that tino wrote. *)
CallerUntouched == OwnSignalHidden /\ ForeignSignalKept /\ MaskRestored

(* Every byte goes to the file that was stderr when it was pinned, and     *)
(* only if the caller could write to it.                                   *)
RightFile ==
    pc \in {"write", "consume"} =>
        target.id = pinned.id /\ target.access = "write"
=============================================================================
