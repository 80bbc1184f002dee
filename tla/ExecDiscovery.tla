--------------------------- MODULE ExecDiscovery ---------------------------
(***************************************************************************)
(* Which files the command may need to execute: the insert_landlock_exec_  *)
(* functions of src/platform/unix/mod.rs.  From each root they follow      *)
(* interpreters (shebang lines, ELF interpreters, the commands env runs)   *)
(* and PATH searches, and pin every executable they meet: the policy is    *)
(* about inodes, names are looked up again and again, and anybody may      *)
(* replace a file in between.                                              *)
(*                                                                         *)
(* The recursion of the code is a stack of frames, one per executable or   *)
(* list of PATH candidates, because an error ends at a frame: Auto skips   *)
(* the rest of one executable's interpreters, or one candidate; Strict     *)
(* fails.                                                                  *)
(***************************************************************************)
EXTENDS Naturals, Sequences, FiniteSets

CONSTANTS
    Names,             \* canonical paths
    Inodes,
    Type,              \* [Inodes -> file, dir, special]
    Executable,        \* inodes with an x bit
    Readable,          \* inodes that can be opened for reading
    Contexts,          \* environments and directories; 0 is tino's own
    Commands,          \* commands looked up along PATH
    Interps(_, _),     \* items the content of an inode names, in a context
    Found(_, _),       \* a command's name in each directory of PATH
    EnvName, ShName,   \* /usr/bin/env and /bin/sh
    Linked,            \* inodes /usr/bin/env leads to, if at all, by a link
                       \*   to another file name
    Multicall,         \* programs that act by the name they are called by
    MaxVisits,         \* 256
    MaxReplaced        \* bound: replacements

NoInode == "no inode"
Modes   == {"Auto", "Strict"}

(* An item: a path (with what it runs should it be env), a bare command,  *)
(* or a shebang that cannot be resolved.                                   *)
PathItem(n, c) == [kind |-> "path", to |-> n, ctx |-> c, env |-> <<>>]
EnvItem(n, c, item) == [kind |-> "path", to |-> n, ctx |-> c, env |-> <<item>>]
CmdItem(cmd, c) == [kind |-> "cmd", to |-> cmd, ctx |-> c, env |-> <<>>]
Unresolved(c) == [kind |-> "none", to |-> "none", ctx |-> c, env |-> <<>>]

PlainItem == {PathItem(n, c) : n \in Names, c \in Contexts}
               \cup {CmdItem(cmd, c) : cmd \in Commands, c \in Contexts}
               \cup {Unresolved(c) : c \in Contexts}
Item == PlainItem
          \cup {EnvItem(n, c, it) : n \in Names, c \in Contexts, it \in PlainItem}

ASSUME DiscoveryAssumption ==
    /\ NoInode \notin Inodes /\ EnvName \in Names /\ ShName \in Names
    /\ 0 \in Contexts /\ MaxVisits \in Nat /\ MaxReplaced \in Nat
    /\ \A c \in Contexts :
         /\ \A i \in Inodes : Interps(i, c) \in Seq(Item)
         /\ \A cmd \in Commands : Found(cmd, c) \in Seq(Names)

VARIABLES
    file,              \* [Names -> Inodes or NoInode], now
    replaced,
    everFile,          \* history: every inode a name has had
    roots,             \* [mode, item], still to discover
    stack, item,       \* frames; the item being looked up
    visited,           \* pairs of name and context, for this root
    grants,            \* exec_allow_paths: the inode pinned for a name
    dpc,
    limited            \* history: the bound on visits was hit

discoveryVars == <<file, replaced, everFile, roots, stack, item, visited,
                   grants, dpc, limited>>

NoItem == Unresolved(0)

(* An executable, and what it still asks for, or a list of candidates. *)
Frame(of, mode, todo) == [of |-> of, mode |-> mode, todo |-> todo]
Frames == [of : {"executable", "search"}, mode : Modes, todo : Seq(Item)]

DiscoveryTypeOK ==
    /\ file \in [Names -> Inodes \cup {NoInode}] /\ replaced \in 0..MaxReplaced
    /\ everFile \in [Names -> SUBSET Inodes]
    /\ roots \in Seq([mode : Modes, item : PlainItem])
    /\ stack \in Seq(Frames) /\ item \in Item
    /\ visited \subseteq Names \X Contexts
    /\ DOMAIN grants \subseteq Names
    /\ dpc \in {"root", "next", "stat", "open", "ready", "failed"}
    /\ limited \in BOOLEAN

DiscoveryInit(files, rootSeq) ==
    /\ file = files /\ replaced = 0
    /\ everFile = [n \in Names |-> {files[n]} \ {NoInode}]
    /\ roots = rootSeq
    /\ stack = <<>> /\ item = NoItem /\ visited = {}
    /\ grants = <<>>
    /\ dpc = "root" /\ limited = FALSE

IsExecutable(i) == i # NoInode /\ Type[i] = "file" /\ i \in Executable

----------------------------------------------------------------------------
(* Somebody replaces, creates or removes a file.                           *)

Replace(n, i) ==
    /\ replaced < MaxReplaced /\ file[n] # i
    /\ replaced' = replaced + 1
    /\ file' = [file EXCEPT ![n] = i]
    /\ everFile' = [everFile EXCEPT ![n] = @ \cup ({i} \ {NoInode})]
    /\ UNCHANGED <<roots, stack, item, visited, grants, dpc, limited>>

----------------------------------------------------------------------------

Top == Head(stack)

(* The next root: the command itself (Auto), then each --exec-allow.      *)
NextRoot ==
    /\ dpc = "root"
    /\ IF roots = <<>>
       THEN /\ dpc' = "ready"
            /\ UNCHANGED <<roots, stack, visited>>
       ELSE /\ stack' = <<Frame("executable", Head(roots).mode,
                              <<Head(roots).item>>)>>
            /\ roots' = Tail(roots)
            /\ visited' = {}
            /\ dpc' = "next"
    /\ UNCHANGED <<file, replaced, everFile, item, grants, limited>>

AtRoot == Len(stack) = 1 /\ Top.of = "executable"

(* An error: Strict fails, so does the main command itself; Auto goes on   *)
(* with the next candidate, or above the executable.                       *)
Error(frames) ==
    IF \/ frames[1].mode = "Strict"
       \/ Len(frames) = 1 /\ frames[1].of = "executable"
    THEN dpc' = "failed" /\ stack' = frames
    ELSE /\ dpc' = "next"
         /\ stack' = IF frames[1].of = "search" THEN frames
                                                   ELSE Tail(frames)

(* executable_paths_in_search_path: the directories of PATH that have the  *)
(* command; the others are passed over.                                    *)
Candidates(cmd, c) ==
    {k \in DOMAIN Found(cmd, c) : IsExecutable(file[Found(cmd, c)[k]])}

AsItems(cmd, c) ==
    [k \in DOMAIN Found(cmd, c) |->
       IF k \in Candidates(cmd, c) THEN PathItem(Found(cmd, c)[k], c)
                                   ELSE Unresolved(c)]

Search(frames, it) ==
    IF Candidates(it.to, it.ctx) = {} /\ Top.mode = "Strict"
    THEN Error(frames)
    ELSE /\ stack' = <<Frame("search", "Auto", AsItems(it.to, it.ctx))>> \o frames
         /\ dpc' = "next"

Take ==
    /\ dpc = "next"
    /\ IF Top.todo = <<>>
       THEN /\ stack' = Tail(stack)
            /\ dpc' = IF Len(stack) = 1 THEN "root" ELSE "next"
            /\ UNCHANGED item
       ELSE LET it     == Head(Top.todo)
                frames == <<[Top EXCEPT !.todo = Tail(@)]>> \o Tail(stack)
            IN /\ item' = it
               /\ \/ it.kind = "cmd" /\ Search(frames, it)
                  \/ /\ it.kind = "path"
                     /\ stack' = frames
                     /\ dpc' = IF Top.mode = "Auto" THEN "stat" ELSE "open"
                  \/ /\ it.kind = "none"
                     /\ IF Top.mode = "Auto"
                        THEN stack' = frames /\ dpc' = "next"
                        ELSE Error(frames)
    /\ UNCHANGED <<file, replaced, everFile, roots, visited, grants, limited>>

Missing(n) == file[n] = NoInode

(* Auto leaves what is not there to execvp; the main command must be a    *)
(* regular file.                                                           *)
Stat ==
    /\ dpc = "stat"
    /\ dpc' = IF Missing(item.to) \/ (AtRoot /\ Type[file[item.to]] # "file")
              THEN "next" ELSE "open"
    /\ UNCHANGED <<file, replaced, everFile, roots, stack, item, visited, grants,
                   limited>>

MutIsEnv(i) == FALSE

(* is_env_executable: the same file as env, unless env is a link to another *)
(* name or the same file as the shell: programs that go by their names.     *)
IsEnv(i) == i = file[EnvName] /\ i \notin Linked /\ i # file[ShName]

(* What env runs is looked up after the interpreter itself. *)
WithEnv(frames, i) ==
    IF item.env # <<>> /\ IsEnv(i)
    THEN <<[frames[1] EXCEPT !.todo = item.env \o @]>> \o Tail(frames)
    ELSE frames

MutSkips(i) == FALSE

(* Only executable files are granted, decided on the pinned inode; an     *)
(* --exec-allow may name anything but a device.                            *)
Skips(i) == Top.mode = "Auto" /\ ~IsExecutable(i)

Rejected(i) == Top.mode = "Strict" /\ ~AtRoot /\ ~IsExecutable(i)

MutSeen(key) == FALSE

Seen(key) == key \in visited

(* insert_resolved_exec_path *)
Insert(i) ==
    LET key == <<item.to, item.ctx>>
    IN  IF Seen(key)
        THEN /\ stack' = WithEnv(stack, i)
             /\ dpc' = "next"
             /\ UNCHANGED <<visited, grants, limited>>
        ELSE /\ visited' = visited \cup {key}
             /\ IF Cardinality(visited') > MaxVisits
                THEN /\ Error(stack)
                     /\ limited' = TRUE
                     /\ UNCHANGED grants
                ELSE /\ grants' = [n \in DOMAIN grants \cup {item.to} |->
                                     IF n = item.to THEN i ELSE grants[n]]
                     /\ IF ~IsExecutable(i)
                        THEN stack' = stack /\ dpc' = "next"
                        ELSE IF i \in Readable
                        THEN /\ stack' = <<Frame("executable", Top.mode,
                                                 Interps(i, item.ctx))>>
                                             \o WithEnv(stack, i)
                             /\ dpc' = "next"
                        ELSE IF Top.mode = "Auto"
                        THEN stack' = WithEnv(stack, i) /\ dpc' = "next"
                        ELSE Error(stack)
                     /\ UNCHANGED limited

(* Pin the inode: everything after is about this object. *)
Open ==
    /\ dpc = "open"
    /\ LET i == file[item.to]
       IN IF i = NoInode \/ Type[i] = "special" \/ Rejected(i)
          THEN Error(stack) /\ UNCHANGED <<visited, grants, limited>>
          ELSE IF Skips(i)
          THEN dpc' = "next" /\ UNCHANGED <<stack, visited, grants, limited>>
          ELSE Insert(i)
    /\ UNCHANGED <<file, replaced, everFile, roots, item>>

Discover == NextRoot \/ Take \/ Stat \/ Open

DiscoveryEnvironment == \E n \in Names, i \in Inodes \cup {NoInode} : Replace(n, i)

----------------------------------------------------------------------------
(* Reference: what running an item executes, as execve and execvp do.      *)

(* Under any name env runs its command after it was started itself, a      *)
(* program that goes by its names does not.                                *)
AsksEnv(it) ==
    IF it.kind = "path" /\ it.env # <<>> /\ IsExecutable(file[it.to])
       /\ file[it.to] = file[EnvName] /\ file[it.to] \notin Multicall
    THEN {it.env[1]} ELSE {}

(* The installs of env the code tells apart: one that goes by its names is *)
(* a link to another name or shares its file with the shell, no other is.  *)
EnvTelling(files) ==
    files[EnvName] \in Multicall <=>
        files[EnvName] \in Linked \/ files[EnvName] = files[ShName]

(* Of several things asked for, one is reached when those before it ran.   *)
Starts(it) == it.kind = "path" => IsExecutable(file[it.to])
Runs(it) == Starts(it) /\ \A e \in AsksEnv(it) : Starts(e)

Reached(items) ==
    {items[k] : k \in {k \in DOMAIN items : \A j \in 1..(k - 1) : Runs(items[j])}}

(* execvp may try every candidate; what tino cannot read it cannot follow. *)
Asks(it) ==
    IF it.kind = "cmd"
    THEN {PathItem(Found(it.to, it.ctx)[k], it.ctx) : k \in Candidates(it.to, it.ctx)}
    ELSE IF it.kind = "path" /\ IsExecutable(file[it.to]) /\ file[it.to] \in Readable
    THEN Reached(Interps(file[it.to], it.ctx))
    ELSE {}
=============================================================================
