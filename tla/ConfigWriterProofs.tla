------------------------- MODULE ConfigWriterProofs -------------------------
(***************************************************************************)
(* Proofs about ConfigWriter, for any number of writers with any process   *)
(* ids, any number of attempts and any failing calls.  Each writer's       *)
(* temporary file is its own because create_new refuses a name that is     *)
(* taken (OwnInv); a file becomes the configuration only when a power loss *)
(* can no longer hurt it (TornInv).                                        *)
(***************************************************************************)
EXTENDS ConfigWriter, FiniteSetTheorems, TLAPS

Labels    == {"inspect", "create", "write", "chmod", "sync", "rename",
              "parent", "remove", "ok", "failed", "killed"}
HasTemp   == {"write", "chmod", "sync", "rename", "remove"}
Contents  == {"nothing", "part", "all"}
Whole(f)  == data[f] = "all" /\ f \in synced

\* The types without the history variable.
ShapeInv ==
    /\ pc \in [Writers -> Labels]
    /\ attempt \in [Writers -> 0 .. MaxAttempts - 1]
    /\ dir \in [Names -> Files \cup {None, Other}]
    /\ diskDir \in [Names -> Files \cup {None, Other}]
    /\ data \in [Files -> Contents]

\* Between create and rename or remove a writer's file is under its own
\* temporary name and no other; before and after that, under none.
Own(w) ==
    /\ pc[w] \in HasTemp =>
        \A n \in Temps : dir[n] = w <=> n = TheTemp(w)
    /\ pc[w] \in {"inspect", "create", "parent"} =>
        \A n \in Temps : dir[n] # w
    /\ pc[w] = "inspect" =>
        \A n \in Names : diskDir[n] # w /\ dir[n] # w

OwnInv == \A w \in Writers : Own(w)

\* What is or may become the configuration is written and synced.
TornInv ==
    /\ \A w \in Writers :
        /\ pc[w] \in {"inspect", "create", "write"} => w \notin synced
        /\ pc[w] \in {"chmod", "sync", "rename"} => data[w] = "all"
        /\ pc[w] = "rename" => w \in synced
    /\ dir[Dest] \in Files => Whole(dir[Dest])
    /\ diskDir[Dest] \in Files => Whole(diskDir[Dest])

-----------------------------------------------------------------------------
(* Names.                                                                  *)

LEMMA TempIsAName ==
    ASSUME ShapeInv, NEW w \in Writers
    PROVE  TheTemp(w) \in Temps /\ TheTemp(w) \in Names /\ TheTemp(w) # Dest
BY WriterAssumption DEF ShapeInv, TheTemp, Temp, Temps, Names

LEMMA ShapeStep == ShapeInv /\ [Next]_vars => ShapeInv'
<1> SUFFICES ASSUME ShapeInv, [Next]_vars PROVE ShapeInv'
  OBVIOUS
<1> USE DEF ShapeInv, Goto, Labels, Contents, inodes
<1>1. ASSUME NEW w \in Writers, Inspect(w) PROVE ShapeInv'
  BY <1>1 DEF Inspect
<1>2. ASSUME NEW w \in Writers, Create(w) PROVE ShapeInv'
  BY <1>2 DEF Create, Files
<1>3. ASSUME NEW w \in Writers, NextName(w) PROVE ShapeInv'
  <2>1. attempt[w] \in 0 .. MaxAttempts - 1
    OBVIOUS
  <2>2. attempt' \in [Writers -> 0 .. MaxAttempts - 1]
    BY <1>3, <2>1, WriterAssumption DEF NextName
  <2>3. pc' \in [Writers -> Labels]
    BY <1>3 DEF NextName
  <2> QED BY <1>3, <2>2, <2>3 DEF NextName
<1>4. ASSUME NEW w \in Writers, Write(w) PROVE ShapeInv'
  BY <1>4 DEF Write
<1>5. ASSUME NEW w \in Writers, SetPermissions(w) PROVE ShapeInv'
  BY <1>5 DEF SetPermissions
<1>6. ASSUME NEW w \in Writers, Sync(w) PROVE ShapeInv'
  BY <1>6 DEF Sync
<1>7. ASSUME NEW w \in Writers, Rename(w) PROVE ShapeInv'
  <2>1. dir[TheTemp(w)] \in Files \cup {None, Other}
    BY TempIsAName
  <2>2. dir' \in [Names -> Files \cup {None, Other}]
    BY <1>7, <2>1 DEF Rename
  <2>3. pc' \in [Writers -> Labels]
    BY <1>7 DEF Rename
  <2> QED BY <1>7, <2>2, <2>3 DEF Rename
<1>8. ASSUME NEW w \in Writers, SyncParent(w) PROVE ShapeInv'
  BY <1>8 DEF SyncParent
<1>9. ASSUME NEW w \in Writers, Fault(w) PROVE ShapeInv'
  BY <1>9 DEF Fault, AfterFault
<1>10. ASSUME NEW w \in Writers, Remove(w) PROVE ShapeInv'
  BY <1>10 DEF Remove
<1>11. ASSUME NEW w \in Writers, Kill(w) PROVE ShapeInv'
  BY <1>11 DEF Kill
<1>12. CASE WriteBack BY <1>12 DEF WriteBack
<1>13. CASE PowerLoss BY <1>13 DEF PowerLoss
<1>14. CASE UNCHANGED vars BY <1>14 DEF vars
<1> QED
  BY <1>1, <1>2, <1>3, <1>4, <1>5, <1>6, <1>7, <1>8, <1>9, <1>10, <1>11,
     <1>12, <1>13, <1>14 DEF Next

LEMMA ShapeInvariant == Spec => []ShapeInv
<1>1. Init => ShapeInv
  BY WriterAssumption DEF Init, ShapeInv, Labels, Contents, Files
<1> QED BY <1>1, ShapeStep, PTL DEF Spec

-----------------------------------------------------------------------------
(* Temporary files.                                                        *)

LEMMA OwnStep == ShapeInv /\ OwnInv /\ [Next]_vars => OwnInv'
<1> SUFFICES ASSUME ShapeInv, OwnInv, [Next]_vars, NEW v \in Writers
             PROVE  Own(v)'
  BY DEF OwnInv
<1>0. Own(v)
  BY DEF OwnInv
<1> USE DEF Own, HasTemp, Goto, TheTemp, inodes
<1>1. ASSUME NEW w \in Writers, Inspect(w) PROVE Own(v)'
  BY <1>0, <1>1 DEF Inspect, ShapeInv
<1>2. ASSUME NEW w \in Writers, Create(w) PROVE Own(v)'
  <2>1. /\ dir[TheTemp(w)] = None /\ TheTemp(w) \in Temps
        /\ \A n \in Temps : dir[n] # w
    BY <1>2, TempIsAName DEF Create, OwnInv
  <2>2. /\ pc'[w] = "write" /\ UNCHANGED <<attempt, diskDir>>
        /\ v # w => pc'[v] = pc[v]
    BY <1>2 DEF Create, ShapeInv
  <2>3. \A n \in Names : dir'[n] = IF n = TheTemp(w) THEN w ELSE dir[n]
    BY <1>2 DEF Create, ShapeInv
  <2>4. None # v /\ Temps \subseteq Names
    BY WriterAssumption DEF Names
  <2>5. CASE v = w
    BY <2>1, <2>2, <2>3, <2>4, <2>5
  <2>6. CASE v # w
    <3>1. pc'[v] = pc[v] /\ TheTemp(v)' = TheTemp(v)
      BY <2>2, <2>6
    <3>2. \A n \in Names : dir'[n] = v <=> dir[n] = v
      BY <2>1, <2>3, <2>4, <2>6
    <3> QED BY <1>0, <2>2, <2>4, <3>1, <3>2
  <2> QED BY <2>5, <2>6
<1>3. ASSUME NEW w \in Writers, NextName(w) PROVE Own(v)'
  BY <1>0, <1>3 DEF NextName, ShapeInv
<1>4. ASSUME NEW w \in Writers, Write(w) PROVE Own(v)'
  BY <1>0, <1>4 DEF Write, ShapeInv
<1>5. ASSUME NEW w \in Writers, SetPermissions(w) PROVE Own(v)'
  BY <1>0, <1>5 DEF SetPermissions, ShapeInv
<1>6. ASSUME NEW w \in Writers, Sync(w) PROVE Own(v)'
  BY <1>0, <1>6 DEF Sync, ShapeInv
<1>7. ASSUME NEW w \in Writers, Rename(w) \/ Remove(w) PROVE Own(v)'
  <2>1. /\ TheTemp(w) \in Temps /\ TheTemp(w) # Dest
        /\ \A n \in Temps : dir[n] = w <=> n = TheTemp(w)
    BY <1>7, TempIsAName DEF Rename, Remove, OwnInv
  <2>2. /\ pc'[w] \in {"parent", "failed"} /\ UNCHANGED <<attempt, diskDir>>
        /\ v # w => pc'[v] = pc[v]
    BY <1>7 DEF Rename, Remove, ShapeInv
  <2>3. /\ \A n \in Temps : dir'[n] = IF n = TheTemp(w) THEN None ELSE dir[n]
        /\ dir'[Dest] \in {w, dir[Dest]}
    BY <1>7, <2>1, WriterAssumption DEF Rename, Remove, ShapeInv, Names
  <2>4. None # v /\ Names = Temps \cup {Dest}
    BY WriterAssumption DEF Names
  <2>5. CASE v = w
    BY <2>1, <2>2, <2>3, <2>4, <2>5
  <2>6. CASE v # w
    <3>1. pc'[v] = pc[v] /\ TheTemp(v)' = TheTemp(v)
      BY <2>2, <2>6
    <3>2. \A n \in Temps : dir'[n] = v <=> dir[n] = v
      BY <2>1, <2>3, <2>4, <2>6
    <3>3. dir[Dest] # v => dir'[Dest] # v
      BY <2>3, <2>6
    <3> QED BY <1>0, <2>2, <2>4, <3>1, <3>2, <3>3
  <2> QED BY <2>5, <2>6
<1>8. ASSUME NEW w \in Writers, SyncParent(w) PROVE Own(v)'
  BY <1>0, <1>8 DEF SyncParent, ShapeInv
<1>9. ASSUME NEW w \in Writers, Fault(w) PROVE Own(v)'
  <2>1. /\ UNCHANGED <<dir, diskDir, attempt>>
        /\ pc' = [pc EXCEPT ![w] = AfterFault(w)]
        /\ pc[w] \in {"write", "chmod", "sync", "rename", "parent"}
    BY <1>9, WriterAssumption DEF Fault
  <2>2. CASE v = w
    <3>1. pc'[v] = "failed" \/ (pc'[v] = "remove" /\ pc[v] \in HasTemp)
      BY <2>1, <2>2 DEF AfterFault, ShapeInv
    <3> QED BY <1>0, <2>1, <3>1
  <2>3. CASE v # w
    BY <1>0, <2>1, <2>3 DEF ShapeInv
  <2> QED BY <2>2, <2>3
<1>10. ASSUME NEW w \in Writers, Kill(w) PROVE Own(v)'
  BY <1>0, <1>10 DEF Kill, ShapeInv
<1>11. CASE WriteBack BY <1>0, <1>11 DEF WriteBack
<1>12. CASE PowerLoss
  <2>1. pc'[v] \in {"inspect", "ok", "failed", "killed"}
        /\ (pc'[v] = "inspect" => pc[v] = "inspect")
    BY <1>12 DEF PowerLoss, Running
  <2>2. dir' = diskDir /\ diskDir' = diskDir /\ Temps \subseteq Names
    BY <1>12 DEF PowerLoss, Names
  <2> QED BY <1>0, <2>1, <2>2
<1>13. CASE UNCHANGED vars BY <1>0, <1>13 DEF vars
<1> QED
  BY <1>1, <1>2, <1>3, <1>4, <1>5, <1>6, <1>7, <1>8, <1>9, <1>10, <1>11,
     <1>12, <1>13 DEF Next

LEMMA OwnInvariant == Spec => []OwnInv
<1>1. Init => OwnInv
  BY WriterAssumption DEF Init, OwnInv, Own, HasTemp, Temps, Names, Files
<1> QED BY <1>1, OwnStep, ShapeInvariant, PTL DEF Spec

RemovedByOwner ==
    \A n \in Temps : dir[n] \notin {None, dir'[n]} =>
        \/ dir'[n] = diskDir[n] /\ dir' = diskDir
        \/ /\ dir[n] \in Writers
           /\ pc[dir[n]] \in {"rename", "remove"}
           /\ pc'[dir[n]] # pc[dir[n]]

\* Only the writer that created a temporary file ever renames or removes it,
\* whatever process ids the writers have (create_new in write_temp_file).
THEOREM TempFilesOwned == Spec => OnlyOwnTemp
<1>1. ShapeInv /\ OwnInv /\ [Next]_vars => [RemovedByOwner]_vars
  <2> SUFFICES ASSUME ShapeInv, OwnInv, Next, NEW n \in Temps,
                      dir[n] \notin {None, dir'[n]}
               PROVE  \/ dir'[n] = diskDir[n] /\ dir' = diskDir
                      \/ /\ dir[n] \in Writers
                         /\ pc[dir[n]] \in {"rename", "remove"}
                         /\ pc'[dir[n]] # pc[dir[n]]
    BY DEF RemovedByOwner
  <2> USE DEF Goto
  <2>1. CASE PowerLoss
    BY <2>1 DEF PowerLoss
  <2>2. ASSUME NEW w \in Writers, Create(w) PROVE FALSE
    BY <2>2 DEF Create, ShapeInv, Names
  <2>3. ASSUME NEW w \in Writers, Rename(w) \/ Remove(w)
        PROVE  /\ dir[n] = w /\ pc[w] \in {"rename", "remove"}
               /\ pc'[w] # pc[w]
    <3>1. n = TheTemp(w)
      BY <2>3, WriterAssumption DEF Rename, Remove, ShapeInv, Names
    <3>2. dir[n] = w
      BY <2>3, <3>1 DEF Rename, Remove, OwnInv, Own, HasTemp
    <3> QED BY <2>3, <3>2 DEF Rename, Remove, ShapeInv
  <2>4. ASSUME NEW w \in Writers,
               \/ Inspect(w) \/ NextName(w) \/ Write(w) \/ SetPermissions(w)
               \/ Sync(w) \/ SyncParent(w) \/ Fault(w) \/ Kill(w)
        PROVE  FALSE
    BY <2>4 DEF Inspect, NextName, Write, SetPermissions, Sync, SyncParent,
                Fault, Kill
  <2>5. CASE WriteBack
    BY <2>5 DEF WriteBack
  <2> QED BY <2>1, <2>2, <2>3, <2>4, <2>5 DEF Next
<1> QED
  BY <1>1, ShapeInvariant, OwnInvariant, PTL DEF Spec, OnlyOwnTemp, RemovedByOwner

Tidy ==
    \A w \in Writers : pc[w] # pc'[w] /\ pc'[w] \in {"ok", "failed"} =>
        \A n \in Temps : dir'[n] # w

\* A writer that returns, well or not, has left no temporary file behind
\* (write_temp_file, write_file_atomically).
THEOREM NothingLeftBehind == Spec => NoLitter
<1>1. ShapeInv /\ OwnInv /\ [Next]_vars => [Tidy]_vars
  <2> SUFFICES ASSUME ShapeInv, OwnInv, Next, NEW w \in Writers,
                      pc[w] # pc'[w], pc'[w] \in {"ok", "failed"}
               PROVE  \A n \in Temps : dir'[n] # w
    BY DEF Tidy
  <2> USE DEF Goto
  <2>1. ASSUME NEW u \in Writers, u # w,
               \/ Inspect(u) \/ Create(u) \/ NextName(u) \/ Write(u)
               \/ SetPermissions(u) \/ Sync(u) \/ Rename(u) \/ SyncParent(u)
               \/ Fault(u) \/ Remove(u) \/ Kill(u)
        PROVE  FALSE
    BY <2>1 DEF Inspect, Create, NextName, Write, SetPermissions, Sync, Rename,
                SyncParent, Fault, Remove, Kill, ShapeInv
  <2>2. CASE Inspect(w) \/ NextName(w) \/ SyncParent(w)
    BY <2>2 DEF Inspect, NextName, SyncParent, OwnInv, Own, inodes
  <2>3. CASE Create(w) \/ Write(w) \/ SetPermissions(w) \/ Sync(w)
             \/ Rename(w) \/ Kill(w)
    BY <2>3 DEF Create, Write, SetPermissions, Sync, Rename, Kill, ShapeInv
  <2>4. CASE Fault(w)
    BY <2>4 DEF Fault, AfterFault, OwnInv, Own, ShapeInv
  <2>5. CASE Remove(w)
    <3>1. \A n \in Temps : dir[n] = w <=> n = TheTemp(w)
      BY <2>5 DEF Remove, OwnInv, Own, HasTemp
    <3>2. \A n \in Temps : dir'[n] = IF n = TheTemp(w) THEN None ELSE dir[n]
      BY <2>5 DEF Remove, ShapeInv, Names
    <3> QED BY <3>1, <3>2, WriterAssumption
  <2>6. CASE WriteBack \/ PowerLoss
    BY <2>6 DEF WriteBack, PowerLoss
  <2> QED BY <2>1, <2>2, <2>3, <2>4, <2>5, <2>6 DEF Next
<1> QED
  BY <1>1, ShapeInvariant, OwnInvariant, PTL DEF Spec, NoLitter, Tidy

-----------------------------------------------------------------------------
(* The configuration is whole.                                             *)

LEMMA TornStep == ShapeInv /\ OwnInv /\ TornInv /\ [Next]_vars => TornInv'
<1> SUFFICES ASSUME ShapeInv, OwnInv, TornInv, [Next]_vars PROVE TornInv'
  OBVIOUS
<1>0. Writers \subseteq Files /\ Dest \in Names
  BY DEF Files, Names
<1> USE DEF TornInv, Whole, Goto, inodes
<1>1. ASSUME NEW w \in Writers, Inspect(w) PROVE TornInv'
  BY <1>1 DEF Inspect, ShapeInv
<1>2. ASSUME NEW w \in Writers, Create(w) PROVE TornInv'
  <2>1. dir'[Dest] = dir[Dest] /\ UNCHANGED <<data, synced, diskDir>>
    BY <1>2, TempIsAName, <1>0 DEF Create, ShapeInv
  <2>2. pc' = [pc EXCEPT ![w] = "write"] /\ pc[w] = "create"
    BY <1>2 DEF Create
  <2> QED BY <2>1, <2>2 DEF ShapeInv
<1>3. ASSUME NEW w \in Writers, NextName(w) PROVE TornInv'
  BY <1>3 DEF NextName, ShapeInv
<1>4. ASSUME NEW w \in Writers, Write(w) PROVE TornInv'
  <2>1. w \notin synced /\ UNCHANGED <<dir, diskDir, synced>>
    BY <1>4 DEF Write
  <2>2. /\ \A f \in Files : f # w => data'[f] = data[f]
        /\ pc'[w] = "write" \/ (pc'[w] = "chmod" /\ data'[w] = "all")
        /\ \A v \in Writers : v # w => pc'[v] = pc[v]
    BY <1>4, <1>0 DEF Write, ShapeInv
  <2> QED BY <1>0, <2>1, <2>2
<1>5. ASSUME NEW w \in Writers, SetPermissions(w) PROVE TornInv'
  BY <1>5 DEF SetPermissions, ShapeInv
<1>6. ASSUME NEW w \in Writers, Sync(w) PROVE TornInv'
  BY <1>6 DEF Sync, ShapeInv
<1>7. ASSUME NEW w \in Writers, Rename(w) PROVE TornInv'
  <2>1. dir[TheTemp(w)] = w
    BY <1>7, TempIsAName DEF Rename, OwnInv, Own, HasTemp
  <2>2. dir'[Dest] = w /\ UNCHANGED <<data, synced, diskDir>>
    BY <1>7, <1>0, <2>1 DEF Rename, ShapeInv
  <2>3. Whole(w) /\ pc' = [pc EXCEPT ![w] = "parent"]
    BY <1>7 DEF Rename
  <2> QED BY <2>2, <2>3 DEF ShapeInv
<1>8. ASSUME NEW w \in Writers, SyncParent(w) PROVE TornInv'
  BY <1>8 DEF SyncParent, ShapeInv
<1>9. ASSUME NEW w \in Writers, Fault(w) PROVE TornInv'
  BY <1>9 DEF Fault, AfterFault, ShapeInv
<1>10. ASSUME NEW w \in Writers, Remove(w) PROVE TornInv'
  <2>1. dir'[Dest] = dir[Dest] /\ UNCHANGED <<data, synced, diskDir>>
    BY <1>10, TempIsAName, <1>0 DEF Remove, ShapeInv
  <2>2. pc' = [pc EXCEPT ![w] = "failed"]
    BY <1>10 DEF Remove
  <2> QED BY <2>1, <2>2 DEF ShapeInv
<1>11. ASSUME NEW w \in Writers, Kill(w) PROVE TornInv'
  BY <1>11 DEF Kill, ShapeInv
<1>12. CASE WriteBack BY <1>12 DEF WriteBack
<1>13. CASE PowerLoss
  <2>1. \A f \in Files : f \in synced => data'[f] = data[f]
    BY <1>13 DEF PowerLoss
  <2>2. /\ dir' = diskDir /\ UNCHANGED <<diskDir, synced>>
        /\ \A v \in Writers :
              /\ pc'[v] \in {"inspect", "ok", "failed", "killed"}
              /\ pc'[v] = "inspect" => pc[v] = "inspect"
    BY <1>13 DEF PowerLoss, Running
  <2> QED BY <2>1, <2>2
<1>14. CASE UNCHANGED vars BY <1>14 DEF vars
<1> QED
  BY <1>1, <1>2, <1>3, <1>4, <1>5, <1>6, <1>7, <1>8, <1>9, <1>10, <1>11,
     <1>12, <1>13, <1>14 DEF Next

\* Whoever reads the configuration, now or after a power loss, reads a whole
\* file (write_file_atomically).
THEOREM ConfigNeverTorn == Spec => []NeverTorn
<1>1. Init => TornInv
  BY WriterAssumption DEF Init, TornInv, Whole, Files, Names, Temps, None, Other, Old
<1>2. TornInv => NeverTorn
  BY DEF TornInv, Whole, NeverTorn
<1> QED
  BY <1>1, <1>2, TornStep, ShapeInvariant, OwnInvariant, PTL DEF Spec

-----------------------------------------------------------------------------
(* A reported success lasts.                                               *)

Renamed == {f \in Files : order[f] > 0}
Before  == {"inspect", "create", "write", "chmod", "sync", "rename"}

\* Every rename gets an order above all earlier ones.
OrderInv ==
    /\ order \in [Files -> Nat]
    /\ IsFiniteSet(Renamed)
    /\ \A f \in Files : order[f] <= Cardinality(Renamed)
    /\ \A w \in Writers : pc[w] \in Before => order[w] = 0

\* The directory is never behind the disk, nor behind a writer that renamed
\* and lives; the disk is not behind a writer that reported success.
DurableInv ==
    /\ diskDir[Dest] \in Writers =>
        dir[Dest] \in Writers /\ order[dir[Dest]] >= order[diskDir[Dest]]
    /\ \A w \in Writers : pc[w] = "parent" =>
        dir[Dest] \in Writers /\ order[dir[Dest]] >= order[w]
    /\ DurableOnOk

LEMMA RenameOrder ==
    ASSUME ShapeInv, OrderInv, NEW w \in Writers, Rename(w)
    PROVE  /\ OrderInv'
           /\ order'[w] > 0 /\ \A f \in Files : order'[f] <= order'[w]
           /\ \A f \in Files : f # w => order'[f] = order[f]
<1> DEFINE n == Cardinality(Renamed)
<1>1. n \in Nat
  BY FS_CardinalityType DEF OrderInv
<1>2. w \in Files /\ w \notin Renamed
  BY DEF OrderInv, Renamed, Rename, Before, Files
<1>3. order' = [order EXCEPT ![w] = 1 + n]
  BY DEF Rename, Renamed
<1>4. Renamed' = Renamed \cup {w}
  BY <1>1, <1>2, <1>3 DEF OrderInv, Renamed
<1>5. IsFiniteSet(Renamed') /\ Cardinality(Renamed') = n + 1
  BY <1>2, <1>4, FS_AddElement DEF OrderInv
<1>6. order' \in [Files -> Nat] /\ \A f \in Files : order'[f] <= n + 1
  BY <1>1, <1>2, <1>3 DEF OrderInv
<1>7. \A v \in Writers : pc'[v] \in Before => v # w /\ pc[v] \in Before
  BY DEF Rename, Goto, ShapeInv, Before
<1>8. \A v \in Writers : pc'[v] \in Before => order'[v] = 0
  BY <1>3, <1>7 DEF OrderInv, Files
<1>9. OrderInv'
  BY <1>1, <1>5, <1>6, <1>8 DEF OrderInv
<1> QED BY <1>1, <1>2, <1>3, <1>6, <1>9 DEF OrderInv

LEMMA OrderStep == ShapeInv /\ OrderInv /\ [Next]_vars => OrderInv'
<1> SUFFICES ASSUME ShapeInv, OrderInv, [Next]_vars PROVE OrderInv'
  OBVIOUS
<1>1. ASSUME NEW w \in Writers, Rename(w) PROVE OrderInv'
  BY <1>1, RenameOrder
<1>2. ASSUME UNCHANGED order,
             \A w \in Writers : pc'[w] \in Before => pc[w] \in Before
      PROVE  OrderInv'
  BY <1>2 DEF OrderInv, Renamed
<1>3. ASSUME NEW w \in Writers,
             \/ Inspect(w) \/ Create(w) \/ NextName(w) \/ Write(w)
             \/ SetPermissions(w) \/ Sync(w) \/ SyncParent(w) \/ Fault(w)
             \/ Remove(w) \/ Kill(w)
      PROVE  OrderInv'
  <2>1. UNCHANGED order
    BY <1>3 DEF Inspect, Create, NextName, Write, SetPermissions, Sync, SyncParent,
                Fault, Remove, Kill
  <2>2. \A v \in Writers : pc'[v] \in Before => pc[v] \in Before
    BY <1>3 DEF Inspect, Create, NextName, Write, SetPermissions, Sync, SyncParent,
                Fault, AfterFault, Remove, Kill, Goto, Before, ShapeInv
  <2> QED BY <2>1, <2>2, <1>2
<1>4. CASE WriteBack BY <1>4, <1>2 DEF WriteBack
<1>5. CASE PowerLoss BY <1>5, <1>2 DEF PowerLoss, Before
<1>6. CASE UNCHANGED vars BY <1>6, <1>2 DEF vars
<1> QED BY <1>1, <1>3, <1>4, <1>5, <1>6 DEF Next

LEMMA DurableStep ==
    ShapeInv /\ OwnInv /\ OrderInv /\ DurableInv /\ [Next]_vars => DurableInv'
<1> SUFFICES ASSUME ShapeInv, OwnInv, OrderInv, DurableInv, [Next]_vars
             PROVE  DurableInv'
  OBVIOUS
<1>0. Writers \subseteq Files /\ Dest \in Names /\ order \in [Files -> Nat]
  BY DEF Files, Names, OrderInv
<1> USE DEF DurableInv, DurableOnOk
<1>1. ASSUME NEW w \in Writers, Rename(w) PROVE DurableInv'
  <2>1. dir[TheTemp(w)] = w
    BY <1>1, TempIsAName DEF Rename, OwnInv, Own, HasTemp
  <2>2. dir'[Dest] = w /\ UNCHANGED diskDir
    BY <1>1, <1>0, <2>1 DEF Rename, ShapeInv
  <2>3. /\ \A f \in Files : order'[f] <= order'[w]
        /\ \A f \in Files : f # w => order'[f] = order[f]
        /\ order' \in [Files -> Nat]
    BY <1>1, RenameOrder DEF OrderInv
  <2>4. order[w] = 0
    BY <1>1 DEF Rename, OrderInv, Before
  <2>5. pc'[w] = "parent" /\ \A v \in Writers : v # w => pc'[v] = pc[v]
    BY <1>1 DEF Rename, Goto, ShapeInv
  <2>6. \A f \in Files : order'[f] >= order[f]
    BY <1>0, <2>3, <2>4
  <2>7. ASSUME NEW v \in Writers, pc'[v] = "ok"
        PROVE  diskDir'[Dest] \in Writers /\ order'[diskDir'[Dest]] >= order'[v]
    <3>1. v # w /\ pc[v] = "ok"
      BY <2>5, <2>7
    <3>2. diskDir[Dest] \in Writers /\ order[diskDir[Dest]] >= order[v]
      BY <3>1
    <3>3. order'[v] = order[v] /\ order'[diskDir[Dest]] >= order[diskDir[Dest]]
      BY <1>0, <2>3, <2>6, <3>1, <3>2
    <3> QED BY <1>0, <2>2, <2>3, <3>2, <3>3
  <2> QED BY <1>0, <2>2, <2>3, <2>7
<1>2. ASSUME NEW w \in Writers, SyncParent(w) PROVE DurableInv'
  <2>1. diskDir' = dir /\ UNCHANGED <<dir, order>> /\ pc[w] = "parent"
    BY <1>2 DEF SyncParent
  <2>2. \A v \in Writers : pc'[v] = IF v = w THEN "ok" ELSE pc[v]
    BY <1>2 DEF SyncParent, Goto, ShapeInv
  <2>3. ASSUME NEW v \in Writers, pc'[v] = "ok"
        PROVE  dir[Dest] \in Writers /\ order[dir[Dest]] >= order[v]
    <3>1. CASE v = w BY <3>1, <2>1
    <3>2. CASE v # w
      <4>1. pc[v] = "ok"
        BY <3>2, <2>2, <2>3
      <4>2. diskDir[Dest] \in Writers /\ order[diskDir[Dest]] >= order[v]
        BY <4>1
      <4> QED BY <1>0, <4>2
    <3> QED BY <3>1, <3>2
  <2>4. \A v \in Writers : pc'[v] = "parent" => pc[v] = "parent"
    BY <2>2
  <2> QED BY <1>0, <2>1, <2>3, <2>4
<1>3. ASSUME dir'[Dest] = dir[Dest], UNCHANGED <<diskDir, order>>,
             \A v \in Writers : pc'[v] \in {"parent", "ok"} => pc'[v] = pc[v]
      PROVE  DurableInv'
  BY <1>3
<1>4. ASSUME NEW w \in Writers,
             \/ Inspect(w) \/ NextName(w) \/ Write(w) \/ SetPermissions(w)
             \/ Sync(w) \/ Fault(w) \/ Kill(w)
      PROVE  DurableInv'
  <2>1. UNCHANGED <<dir, diskDir, order>>
    BY <1>4 DEF Inspect, NextName, Write, SetPermissions, Sync, Fault, Kill, inodes
  <2>2. \A v \in Writers : pc'[v] \in {"parent", "ok"} => pc'[v] = pc[v]
    BY <1>4 DEF Inspect, NextName, Write, SetPermissions, Sync, Fault, AfterFault,
                Kill, Goto, ShapeInv
  <2> QED BY <1>3, <2>1, <2>2
<1>5. ASSUME NEW w \in Writers, Create(w) \/ Remove(w) PROVE DurableInv'
  <2>1. dir'[Dest] = dir[Dest] /\ UNCHANGED <<diskDir, order>>
    BY <1>5, TempIsAName, <1>0 DEF Create, Remove, ShapeInv
  <2>2. \A v \in Writers : pc'[v] \in {"parent", "ok"} => pc'[v] = pc[v]
    BY <1>5 DEF Create, Remove, Goto, ShapeInv
  <2> QED BY <1>3, <2>1, <2>2
<1>6. CASE WriteBack
  <2>1. diskDir' = dir /\ UNCHANGED <<dir, order, pc>>
    BY <1>6 DEF WriteBack
  <2>2. ASSUME NEW v \in Writers, pc[v] = "ok"
        PROVE  dir[Dest] \in Writers /\ order[dir[Dest]] >= order[v]
    <3>1. diskDir[Dest] \in Writers /\ order[diskDir[Dest]] >= order[v]
      BY <2>2
    <3> QED BY <1>0, <3>1
  <2> QED BY <1>0, <2>1, <2>2
<1>7. CASE PowerLoss
  <2>1. dir' = diskDir /\ UNCHANGED <<diskDir, order>>
    BY <1>7 DEF PowerLoss
  <2>2. \A v \in Writers : pc'[v] # "parent" /\ (pc'[v] = "ok" => pc[v] = "ok")
    BY <1>7 DEF PowerLoss, Running
  <2> QED BY <1>0, <2>1, <2>2
<1>8. CASE UNCHANGED vars BY <1>8, <1>3 DEF vars
<1> QED BY <1>1, <1>2, <1>4, <1>5, <1>6, <1>7, <1>8 DEF Next

LEMMA OrderInvariant == Spec => []OrderInv
<1>1. Init => OrderInv
  <2> SUFFICES ASSUME Init PROVE OrderInv
    OBVIOUS
  <2>1. Renamed = {}
    BY DEF Init, Renamed
  <2> QED BY <2>1, FS_EmptySet DEF Init, OrderInv, Files
<1> QED BY <1>1, OrderStep, ShapeInvariant, PTL DEF Spec

\* A success that was reported survives every power loss, for any number of
\* writers: what is found then is that file or a later one (sync_parent_dir).
THEOREM SuccessIsDurable == Spec => []DurableOnOk
<1>1. Init => DurableInv
  BY WriterAssumption DEF Init, DurableInv, DurableOnOk, Files, Names, None, Other, Old
<1>2. DurableInv => DurableOnOk
  BY DEF DurableInv
<1> QED
  BY <1>1, <1>2, DurableStep, OrderInvariant, ShapeInvariant, OwnInvariant, PTL DEF Spec

-----------------------------------------------------------------------------
(* Types.                                                                  *)

Permissions ==
    /\ wanted \in [Writers -> Modes]
    /\ mode \in [Files -> Modes]
    /\ synced \subseteq Files

LEMMA PermissionsStep == ShapeInv /\ Permissions /\ [Next]_vars => Permissions'
<1> SUFFICES ASSUME ShapeInv, Permissions, [Next]_vars PROVE Permissions'
  OBVIOUS
<1>0. Writers \subseteq Files /\ Dest \in Names
  BY DEF Files, Names
<1> USE DEF Permissions, inodes
<1>1. ASSUME NEW w \in Writers, Inspect(w) PROVE Permissions'
  <2>1. dir[Dest] \in Files \cup {None, Other}
    BY <1>0 DEF ShapeInv
  <2>2. ASSUME dir[Dest] \notin {None, Other} PROVE Normalize(mode[dir[Dest]]) \in Modes
    BY <2>1, <2>2 DEF Normalize, Modes
  <2> QED BY <1>1, <2>2 DEF Inspect, Modes
<1>2. ASSUME NEW w \in Writers, SetPermissions(w) PROVE Permissions'
  BY <1>0, <1>2 DEF SetPermissions
<1>3. ASSUME NEW w \in Writers, Sync(w) PROVE Permissions'
  BY <1>0, <1>3 DEF Sync
<1>4. ASSUME NEW w \in Writers,
             \/ Create(w) \/ NextName(w) \/ Write(w) \/ Rename(w)
             \/ SyncParent(w) \/ Fault(w) \/ Remove(w) \/ Kill(w)
      PROVE  Permissions'
  BY <1>4 DEF Create, NextName, Write, Rename, SyncParent, Fault, Remove, Kill
<1>5. CASE WriteBack BY <1>5 DEF WriteBack
<1>6. CASE PowerLoss BY <1>6 DEF PowerLoss
<1>7. CASE UNCHANGED vars BY <1>7 DEF vars
<1> QED BY <1>1, <1>2, <1>3, <1>4, <1>5, <1>6, <1>7 DEF Next

\* Every variable has its type, the history of renames too (ConfigWriter).
THEOREM TypeCorrect == Spec => []TypeOK
<1>1. Init => Permissions
  BY DEF Init, Permissions, Files, Modes
<1>2. ShapeInv /\ OrderInv /\ Permissions => TypeOK
  BY DEF ShapeInv, OrderInv, Permissions, TypeOK, Labels, Contents
<1> QED
  BY <1>1, <1>2, PermissionsStep, ShapeInvariant, OrderInvariant, PTL DEF Spec
-----------------------------------------------------------------------------
(* The permissions survive.                                                *)

\* All that is, was or is about to be the configuration has permissions m;
\* without a configuration they are the default ones.
Kept(m) ==
    /\ m = Normalize(m)
    /\ \A d \in {dir[Dest], diskDir[Dest]} :
        /\ d \in Files => Normalize(mode[d]) = m
        /\ d = None => m = "default"
    /\ \A w \in Writers :
        /\ pc[w] \in {"create", "write", "chmod"} => wanted[w] = m
        /\ pc[w] \in {"sync", "rename"} => mode[w] = m

KeptInv == \E m \in Modes : Kept(m)

LEMMA KeptStep ==
    ASSUME ShapeInv, OwnInv, NEW m \in Modes, Kept(m), [Next]_vars,
           mode \in [Files -> Modes], wanted \in [Writers -> Modes]
    PROVE  Kept(m)'
<1>0. Writers \subseteq Files /\ Dest \in Names /\ None \notin Files
  BY WriterAssumption DEF Files, Names, None, Old
<1> USE DEF Kept, Goto, inodes
<1>1. ASSUME NEW w \in Writers, Inspect(w) PROVE Kept(m)'
  <2>1. UNCHANGED <<dir, diskDir, mode>> /\ pc[w] = "inspect"
    BY <1>1 DEF Inspect
  <2>2. pc'[w] = "create" => wanted'[w] = m
    <3>1. CASE dir[Dest] = None
      BY <1>1, <3>1 DEF Inspect, ShapeInv
    <3>2. CASE dir[Dest] \in Files
      BY <1>1, <1>0, <3>2 DEF Inspect, ShapeInv
    <3>3. CASE dir[Dest] = Other
      BY <1>1, <3>3 DEF Inspect, ShapeInv
    <3> QED BY <1>0, <3>1, <3>2, <3>3 DEF ShapeInv
  <2>3. /\ pc'[w] \in {"create", "failed"}
        /\ \A v \in Writers : v # w => pc'[v] = pc[v] /\ wanted'[v] = wanted[v]
    BY <1>1 DEF Inspect, ShapeInv
  <2> QED BY <2>1, <2>2, <2>3
<1>2. ASSUME NEW w \in Writers, Create(w) \/ Remove(w) PROVE Kept(m)'
  <2>1. dir'[Dest] = dir[Dest] /\ UNCHANGED <<diskDir, mode, wanted>>
    BY <1>2, TempIsAName, <1>0 DEF Create, Remove, ShapeInv
  <2>2. /\ (pc[w] = "create" /\ pc'[w] = "write") \/ pc'[w] = "failed"
        /\ \A v \in Writers : v # w => pc'[v] = pc[v]
    BY <1>2 DEF Create, Remove, ShapeInv
  <2> QED BY <2>1, <2>2
<1>3. ASSUME NEW w \in Writers, NextName(w) \/ Write(w) PROVE Kept(m)'
  BY <1>3 DEF NextName, Write, ShapeInv
<1>4. ASSUME NEW w \in Writers, SetPermissions(w) PROVE Kept(m)'
  <2>1. /\ wanted[w] = m /\ UNCHANGED <<dir, diskDir, wanted>>
        /\ mode' = [mode EXCEPT ![w] = wanted[w]] /\ pc[w] = "chmod"
    BY <1>4 DEF SetPermissions
  <2>2. \A v \in Writers : pc'[v] = IF v = w THEN "sync" ELSE pc[v]
    BY <1>4 DEF SetPermissions, ShapeInv
  <2>3. \A f \in Files : mode'[f] = IF f = w THEN m ELSE mode[f]
    BY <1>0, <2>1
  <2> QED BY <1>0, <2>1, <2>2, <2>3
<1>5. ASSUME NEW w \in Writers, Sync(w) \/ Fault(w) \/ Kill(w) PROVE Kept(m)'
  BY <1>5 DEF Sync, Fault, AfterFault, Kill, ShapeInv
<1>6. ASSUME NEW w \in Writers, Rename(w) PROVE Kept(m)'
  <2>1. dir[TheTemp(w)] = w
    BY <1>6, TempIsAName DEF Rename, OwnInv, Own, HasTemp
  <2>2. dir'[Dest] = w /\ UNCHANGED <<diskDir, mode, wanted>> /\ mode[w] = m
    BY <1>6, <1>0, <2>1 DEF Rename, ShapeInv
  <2>3. \A v \in Writers : pc'[v] = IF v = w THEN "parent" ELSE pc[v]
    BY <1>6 DEF Rename, ShapeInv
  <2> QED BY <1>0, <2>2, <2>3
<1>7. ASSUME NEW w \in Writers, SyncParent(w) PROVE Kept(m)'
  <2>1. diskDir' = dir /\ UNCHANGED <<dir, mode, wanted>>
    BY <1>7 DEF SyncParent
  <2>2. \A v \in Writers : pc'[v] = IF v = w THEN "ok" ELSE pc[v]
    BY <1>7 DEF SyncParent, ShapeInv
  <2> QED BY <2>1, <2>2
<1>8. CASE WriteBack
  BY <1>8 DEF WriteBack
<1>9. CASE PowerLoss
  <2>1. dir' = diskDir /\ UNCHANGED <<diskDir, mode, wanted>>
    BY <1>9 DEF PowerLoss
  <2>2. \A v \in Writers : pc'[v] \notin {"create", "write", "chmod", "sync", "rename"}
    BY <1>9 DEF PowerLoss, Running
  <2> QED BY <2>1, <2>2
<1>10. CASE UNCHANGED vars
  BY <1>10 DEF vars
<1> QED BY <1>1, <1>2, <1>3, <1>4, <1>5, <1>6, <1>7, <1>8, <1>9, <1>10 DEF Next

\* Whoever could read the configuration can read the one that replaces it,
\* and nobody else, for any number of writers and power losses
\* (final_config_permissions, write_temp_file).
THEOREM PermissionsSurvive == Spec => ModeKept
<1> DEFINE Same == LET was == dir[Dest] now == dir'[Dest] IN
                     was \in Files /\ now \in Files /\ was # now =>
                         Normalize(mode'[now]) = Normalize(mode[was])
           Typed == mode \in [Files -> Modes] /\ wanted \in [Writers -> Modes]
<1>1. Init => KeptInv
  <2> SUFFICES ASSUME Init PROVE KeptInv
    OBVIOUS
  <2>0. Dest \in Names /\ Old \in Files /\ Other \notin Files /\ None \notin Files
        /\ Other # None
    BY WriterAssumption DEF Names, Files, Old, Other, None
  <2>1. PICK p \in {"private", "setuid", "default"} : mode[Old] = p
    BY <2>0 DEF Init
  <2>2. diskDir = dir /\ dir[Dest] \in {None, Other, Old}
        /\ \A w \in Writers : pc[w] = "inspect"
    BY <2>0 DEF Init
  <2>3. CASE dir[Dest] = Old
    <3>1. Kept(Normalize(p))
      BY <2>0, <2>1, <2>2, <2>3 DEF Kept, Normalize
    <3> QED BY <2>1, <3>1 DEF KeptInv, Normalize, Modes
  <2>4. CASE dir[Dest] # Old
    <3>1. Kept("default")
      BY <2>0, <2>2, <2>4 DEF Kept, Normalize
    <3> QED BY <3>1 DEF KeptInv, Modes
  <2> QED BY <2>3, <2>4
<1>2. ShapeInv /\ OwnInv /\ Typed /\ KeptInv /\ [Next]_vars => KeptInv' /\ [Same]_vars
  <2> SUFFICES ASSUME ShapeInv, OwnInv, Typed, KeptInv, [Next]_vars
               PROVE  KeptInv' /\ Same
    OBVIOUS
  <2>1. PICK m \in Modes : Kept(m)
    BY DEF KeptInv
  <2>2. Kept(m)'
    BY <2>1, KeptStep
  <2> QED BY <2>1, <2>2 DEF Kept, KeptInv
<1>3. TypeOK => Typed
  BY DEF TypeOK
<1> HIDE DEF Same, Typed
<1>4. Spec => [][Same]_vars
  BY <1>1, <1>2, <1>3, TypeCorrect, ShapeInvariant, OwnInvariant, PTL DEF Spec
<1> QED BY <1>4 DEF Same, ModeKept
=============================================================================
