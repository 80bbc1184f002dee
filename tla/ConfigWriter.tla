---------------------------- MODULE ConfigWriter ----------------------------
(***************************************************************************)
(* --write-config, src/platform/mod.rs: write_file_atomically replaces the *)
(* configuration file by writing a temporary file beside it, syncing it,   *)
(* renaming it and syncing the directory.  Several supervisors may do so   *)
(* at once, with the same process id when they run in different PID        *)
(* namespaces and share the directory; any of them may be killed, and the  *)
(* machine may lose power.                                                 *)
(*                                                                         *)
(* A writer creates at most one file, so the file is named by the writer.  *)
(* pc of a writer is its next call:                                        *)
(*   inspect create write chmod sync rename parent                         *)
(*   remove (an error left the temporary file)   ok failed killed          *)
(***************************************************************************)
EXTENDS Naturals, FiniteSets

CONSTANTS
    Writers,
    Pids,
    PidOf,         \* std::process::id of each writer, in its own namespace
    Dest,          \* DEFAULT_CONFIG_PATH
    MaxAttempts,   \* MAX_TEMP_ATTEMPTS
    Faults         \* calls that may fail: write chmod sync rename parent

Old   == "old"             \* the file found at Dest when the system starts
None  == "none"
Other == "other"           \* a symbolic link, a directory, a leftover

Temp(p, a) == <<p, a>>
Temps      == Pids \X (0 .. MaxAttempts - 1)
Names      == Temps \cup {Dest}
Files      == Writers \cup {Old}
Modes      == {"temporary", "default", "private", "setuid"}

ASSUME WriterAssumption ==
    /\ PidOf \in [Writers -> Pids]
    /\ MaxAttempts \in Nat \ {0}
    /\ Dest \notin Temps
    /\ {Old, None, Other} \cap Writers = {}
    /\ Faults \subseteq {"write", "chmod", "sync", "rename", "parent"}

VARIABLES
    pc,
    attempt,       \* the attempt of each writer, its temporary file's name
    wanted,        \* permissions: the mode the new file will have
    dir,           \* the directory: what each name refers to
    data,          \* how much of each file is written: nothing part all
    mode,          \* the permission bits of each file
    diskDir,       \* the directory as a power loss would leave it
    synced,        \* the files whose data and mode a power loss keeps
    order          \* history: how many files were at Dest before each

inodes  == <<data, mode, synced>>
vars    == <<pc, attempt, wanted, dir, inodes, diskDir, order>>

Init ==
    \E found \in {None, Other, Old}, m \in {"private", "setuid", "default"},
       stale \in SUBSET Temps :
        /\ pc = [w \in Writers |-> "inspect"]
        /\ attempt = [w \in Writers |-> 0]
        /\ wanted = [w \in Writers |-> "default"]
        /\ dir = [n \in Names |-> IF n = Dest THEN found
                                  ELSE IF n \in stale THEN Other ELSE None]
        /\ data = [f \in Files |-> IF f = Old THEN "all" ELSE "nothing"]
        /\ mode = [f \in Files |-> IF f = Old THEN m ELSE "temporary"]
        /\ diskDir = dir
        /\ synced = {Old}
        /\ order = [f \in Files |-> 0]

TheTemp(w) == Temp(PidOf[w], attempt[w])
Goto(w, l) == pc' = [pc EXCEPT ![w] = l]

----------------------------------------------------------------------------
(* The writer.                                                             *)

\* normalize_config_permissions: mode & 0o777
Normalize(m) == IF m = "setuid" THEN "default" ELSE m

\* final_config_permissions
Inspect(w) ==
    /\ pc[w] = "inspect"
    /\ \/ /\ dir[Dest] = Other
          /\ Goto(w, "failed")
          /\ UNCHANGED wanted
       \/ /\ dir[Dest] # Other
          /\ wanted' = [wanted EXCEPT ![w] =
                IF dir[Dest] = None THEN "default"
                ELSE Normalize(mode[dir[Dest]])]
          /\ Goto(w, "create")
    /\ UNCHANGED <<attempt, dir, inodes, diskDir, order>>

\* open with create_new, mode 0600; the next name when this one is taken
MutCreate(w) ==
    /\ pc[w] = "create"
    /\ dir[TheTemp(w)] # Other
    /\ dir' = [dir EXCEPT ![TheTemp(w)] = w]
    /\ Goto(w, "write")
    /\ UNCHANGED <<attempt, wanted, inodes, diskDir, order>>

Create(w) ==
    /\ pc[w] = "create"
    /\ dir[TheTemp(w)] = None
    /\ dir' = [dir EXCEPT ![TheTemp(w)] = w]
    /\ Goto(w, "write")
    /\ UNCHANGED <<attempt, wanted, inodes, diskDir, order>>

NextName(w) ==
    /\ pc[w] = "create"
    /\ dir[TheTemp(w)] # None
    /\ \/ /\ attempt[w] + 1 < MaxAttempts
          /\ attempt' = [attempt EXCEPT ![w] = @ + 1]
          /\ UNCHANGED pc
       \/ /\ attempt[w] + 1 = MaxAttempts
          /\ Goto(w, "failed")
          /\ UNCHANGED attempt
    /\ UNCHANGED <<wanted, dir, inodes, diskDir, order>>

\* write_all: possibly in several parts
Write(w) ==
    /\ pc[w] = "write"
    /\ \/ data' = [data EXCEPT ![w] = "part"] /\ UNCHANGED pc
       \/ data' = [data EXCEPT ![w] = "all"] /\ Goto(w, "chmod")
    /\ UNCHANGED <<attempt, wanted, dir, mode, synced, diskDir, order>>

MutSetPermissions(w) ==
    /\ pc[w] = "chmod"
    /\ Goto(w, "sync")
    /\ UNCHANGED <<attempt, wanted, dir, inodes, diskDir, order>>

SetPermissions(w) ==
    /\ pc[w] = "chmod"
    /\ mode' = [mode EXCEPT ![w] = wanted[w]]
    /\ Goto(w, "sync")
    /\ UNCHANGED <<attempt, wanted, dir, data, synced, diskDir, order>>

MutSync(w) ==
    /\ pc[w] = "sync"
    /\ Goto(w, "rename")
    /\ UNCHANGED <<attempt, wanted, dir, inodes, diskDir, order>>

Sync(w) ==
    /\ pc[w] = "sync"
    /\ synced' = synced \cup {w}
    /\ Goto(w, "rename")
    /\ UNCHANGED <<attempt, wanted, dir, data, mode, diskDir, order>>

Rename(w) ==
    /\ pc[w] = "rename"
    /\ dir' = [dir EXCEPT ![TheTemp(w)] = None, ![Dest] = dir[TheTemp(w)]]
    /\ order' = [order EXCEPT ![w] = 1 + Cardinality({f \in Files : order[f] > 0})]
    /\ Goto(w, "parent")
    /\ UNCHANGED <<attempt, wanted, inodes, diskDir>>

\* sync_parent_dir
MutSyncParent(w) ==
    /\ pc[w] = "parent"
    /\ Goto(w, "ok")
    /\ UNCHANGED <<attempt, wanted, dir, inodes, diskDir, order>>

SyncParent(w) ==
    /\ pc[w] = "parent"
    /\ diskDir' = dir
    /\ Goto(w, "ok")
    /\ UNCHANGED <<attempt, wanted, dir, inodes, order>>

\* A call fails: the temporary file is removed, unless it was renamed.
AfterFault(w) == IF pc[w] = "parent" THEN "failed" ELSE "remove"

Fault(w) ==
    /\ pc[w] \in Faults
    /\ Goto(w, AfterFault(w))
    /\ UNCHANGED <<attempt, wanted, dir, inodes, diskDir, order>>

MutRemove(w) ==
    /\ pc[w] = "remove"
    /\ Goto(w, "failed")
    /\ UNCHANGED <<attempt, wanted, dir, inodes, diskDir, order>>

Remove(w) ==
    /\ pc[w] = "remove"
    /\ dir' = [dir EXCEPT ![TheTemp(w)] = None]
    /\ Goto(w, "failed")
    /\ UNCHANGED <<attempt, wanted, inodes, diskDir, order>>

----------------------------------------------------------------------------
(* The file system, and what ends a writer early.                          *)

\* The kernel writes the directory back when it likes.
WriteBack ==
    /\ diskDir' = dir
    /\ UNCHANGED <<pc, attempt, wanted, dir, inodes, order>>

Running(w) == pc[w] \notin {"inspect", "ok", "failed", "killed"}

Kill(w) ==
    /\ Running(w)
    /\ Goto(w, "killed")
    /\ UNCHANGED <<attempt, wanted, dir, inodes, diskDir, order>>

\* Files that were not synced may be found cut short.
PowerLoss ==
    /\ dir' = diskDir
    /\ data' \in {d \in [Files -> {"nothing", "part", "all"}] :
                    \A f \in Files : f \in synced \/ data[f] = "nothing" => d[f] = data[f]}
    /\ pc' = [w \in Writers |-> IF Running(w) THEN "killed" ELSE pc[w]]
    /\ UNCHANGED <<attempt, wanted, mode, synced, diskDir, order>>

Next ==
    \/ \E w \in Writers :
        \/ Inspect(w) \/ Create(w) \/ NextName(w) \/ Write(w)
        \/ SetPermissions(w) \/ Sync(w) \/ Rename(w) \/ SyncParent(w)
        \/ Fault(w) \/ Remove(w) \/ Kill(w)
    \/ WriteBack
    \/ PowerLoss

Spec == Init /\ [][Next]_vars

----------------------------------------------------------------------------
(* Properties.                                                             *)

TypeOK ==
    /\ pc \in [Writers -> {"inspect", "create", "write", "chmod", "sync",
                           "rename", "parent", "remove", "ok", "failed", "killed"}]
    /\ attempt \in [Writers -> 0 .. MaxAttempts - 1]
    /\ wanted \in [Writers -> Modes]
    /\ dir \in [Names -> Files \cup {None, Other}]
    /\ diskDir \in [Names -> Files \cup {None, Other}]
    /\ data \in [Files -> {"nothing", "part", "all"}]
    /\ mode \in [Files -> Modes]
    /\ synced \subseteq Files
    /\ order \in [Files -> Nat]

\* Whoever reads the configuration, now or after a power loss, reads a whole
\* file: the data was synced before the rename made it reachable
\* (write_temp_file, write_file_atomically).
NeverTorn ==
    \A d \in {dir[Dest], diskDir[Dest]} \cap Files :
        data[d] = "all" /\ d \in synced

\* A new configuration is readable by exactly the users who could read the
\* one it replaces, whatever the other writers did since the permissions were
\* looked up (final_config_permissions, write_temp_file).
ModeKept ==
    [][LET was == dir[Dest] now == dir'[Dest] IN
        was \in Files /\ now \in Files /\ was # now =>
            Normalize(mode'[now]) = Normalize(mode[was])]_vars

\* A writer removes or renames a temporary file only if it is its own, even
\* when another writer has the same process id (create_new in
\* write_temp_file).
OnlyOwnTemp ==
    [][\A n \in Temps : dir[n] \notin {None, dir'[n]} =>
        \/ dir'[n] = diskDir[n] /\ dir' = diskDir
        \/ /\ dir[n] \in Writers
           /\ pc[dir[n]] \in {"rename", "remove"}
           /\ pc'[dir[n]] # pc[dir[n]]]_vars

\* A writer that returns leaves no temporary file behind, whatever failed;
\* one that was killed may.
NoLitter ==
    [][\A w \in Writers : pc[w] # pc'[w] /\ pc'[w] \in {"ok", "failed"} =>
        \A n \in Temps : dir'[n] # w]_vars

\* Once a writer has reported success its file, or a later one, is what a
\* power loss leaves (sync_parent_dir).
DurableOnOk ==
    \A w \in Writers : pc[w] = "ok" =>
        /\ diskDir[Dest] \in Writers
        /\ order[diskDir[Dest]] >= order[w]
=============================================================================
