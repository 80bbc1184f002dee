# A TLA+ model of tino

tino starts one command as its child, forwards signals to it, reaps every
orphan, shuts everything down within a grace period and returns the command's
exit code. It runs as process 1 of a container, as a binary, or inside another
program through `tino::run`. This directory holds a model of it in TLA+: modules
translated from the Rust source, TLC configurations that check them on small
instances, and proofs for every instance that TLAPS checks.

## 1. Inventory of the system

Source paths are relative to the repository; line numbers are of this commit.

| Component | Source | State it keeps | Operations | What makes it correct | Model |
|---|---|---|---|---|---|
| Supervision loop | `platform/unix/mod.rs` 2488-2770, `signals.rs` 200-235 | deadline, `sigkill_sent`, `main_exit`, the signal batch | poll, read a batch of signals, forward, reap, escalate | the command's exit is never overlooked; SIGKILL only when due; only its own PIDs are signalled | `Supervisor` |
| Descendant cleanup | `mod.rs` 2712-2742, 2869-2943 | the shared deadline, phase of the two waits | TERM the group, drain, KILL the group, drain | nobody killable is left; it ends; the grace period is shared, not restarted | `Supervisor` |
| Failure cleanup | `mod.rs` 2523-2619 | `group_killed`, its own deadline | kill and reap the command, then its group | ends; leaves nothing running; takes no child of the caller; signals only numbers it still owns | `Supervisor` |
| Caller's process state | `mod.rs` 84-214, `signals.rs` 1-198, `child.rs` 14-110 | saved mask, dispositions, subreaper flag; the signals to discard | block, open signalfd, enable reaping, become subreaper; undo all of it on every way out | the caller gets its state and its own signals back, and none of the command's | `Lifecycle` |
| Spawning, process group | `child.rs` 572-763, `sys.rs` 365-400, 674-722 | the child's signals, group and restrictions, before exec | fork; reset handlers, SIGPIPE, parent-death signal, group, mask, Landlock, exec; `manage_process_group` | the two processes agree on the group; a dead supervisor is noticed; no host handler runs | `Spawn` |
| Configuration writer | `platform/mod.rs` 706-855 | a temporary file per writer | inspect, create, write, chmod, sync, rename, sync directory | never torn, durable once reported, permissions kept, nothing left behind | `ConfigWriter` |
| Foreground terminal, job control | `child.rs` 461-570, `mod.rs` 2640-2709 | the foreground group, `job_control_started` | claim, suspend with the job, resume, give back | never takes the terminal from another job, never leaves it with a dead one; stops and continues with its command | `JobControl` |
| Diagnostics writer | `sys.rs` 155-360, `logging.rs` | mask, signals pending before, duplicate of stderr | guarded writes that consume their own SIGPIPE or SIGXFSZ | no foreign signal lost, no own one felt; the bytes go to stderr | `DiagnosticWriter` |
| Landlock policy and its application | `mod.rs` 269-745, `landlock.rs` | pinned paths, ports, ABI; ruleset | build from options; apply in the child | what is not permitted is denied on every kernel, or the run is refused; nothing else is denied | `Landlock`, `Policy` |
| Executable discovery | `mod.rs` 495-946 | visited pairs, pinned files | walk over PATH candidates, interpreters, env | grants what running the command executes, and no other kind of file; ends | `ExecDiscovery`, `Policy` |
| Shebang and `env -S` parsing | `mod.rs` 943-1980 | none (pure) | parse | agrees with the kernel and with env | `Shebang`, `EnvShebang` |
| ELF probing | `mod.rs` 1983-2485 | none (pure) | read headers with checked offsets | names the loader the kernel uses; no overflow | `ElfProbe` |
| Command line, configuration file, environment defaults, control modes | `cli.rs`, `platform/mod.rs` 27-705 | `Cli` and the origin of each value | parse, load, write, merge, select a mode | a file in the way is never dropped silently; what is written reads back; sources told truly | `Settings` |
| Argument expansion | `child.rs` 132-364 | none (pure) | `$VAR`, `${VAR:-word}` | a default ends at its own brace, values are not expanded again | `Expansion` |
| Errors, logging text, escaping, signal names, entry points, stub | `error.rs`, `diagnostic.rs`, `signals.rs`, `main.rs`, `lib.rs`, `platform/stub.rs` | verbosity | formatting, tables | nothing a state depends on | not modelled |

How they interact. `run_impl` takes over the caller's signal delivery, prepares
the command and its policy, forks, and hands the child's PID, the answer of
`manage_process_group` and the signalfd to `supervise_child`; the guards it
created restore the caller when it leaves, at whichever point. The supervisor is
one thread without locks: everything concurrent happens in the kernel and in
other processes, between any two of its system calls. That is where the
difficulties are:

* **interleavings**: the workload forks, leaves its group, dies and is adopted
  while it is being signalled; signals of several deaths become one SIGCHLD;
* **stale numbers**: a PID or a group number is signalled after its owner has
  been reaped;
* **failure half-way**: any call may fail after earlier calls took effect, in the
  middle of a reaping loop too;
* **time**: a second termination signal races the deadline of the first, and the
  exit of the command races both;
* **fork to exec**: parent and child set the group from both sides, and the
  parent may die before its death can be announced;
* **crashes**: only the configuration writer keeps anything on disk.

`PROJECT.json` lists each hazard at its line with the properties that cover it,
and the hazards that no property covers yet, with the reason.

## 2. Modules

| Module | Role |
|---|---|
| `Processes` | external: the kernel's processes, parents, the group, the signals pending in the signalfd, the clock |
| `Supervisor` | `supervise_child` and everything it calls; extends `Processes`, whose steps run between its calls |
| `Container` | abstract specification: what tino promises its caller. `Supervisor!Promised` is the refinement mapping |
| `SupervisorProofs` | proofs about `Supervisor`: the command, then the group and the caller's other children |
| `ThreadSignals` | external: mask, dispositions and pending signals of one thread; used by the next two |
| `Lifecycle` | `run_impl` as its caller experiences it: what is changed, and put back |
| `LifecycleProofs` | proofs about `Lifecycle` |
| `Spawn` | `spawn_child` (the child) and `manage_process_group` (the supervisor) side by side |
| `SpawnProofs` | proofs about `Spawn` |
| `ConfigWriter` | `write_file_atomically`, several writers, kills and power losses |
| `MCConfigWriter` | instance of it with two writers that share a process id |
| `ConfigWriterProofs` | proofs about `ConfigWriter` |
| `JobControl` | the terminal: tino, its child, a shell with job control, a user |
| `JobControlProofs` | proofs about `JobControl` |
| `DiagnosticWriter` | one message to stderr: `DiagnosticWriteGuard` and `DiagnosticWriter` |
| `MCDiagnosticWriter` | instance of it with six files |
| `DiagnosticWriterProofs` | proofs about `DiagnosticWriter` |
| `Landlock` | options to policy, policy to ruleset; the kernel's side of it; what the options permit |
| `ExecDiscovery` | the walk over the files a command executes, on a file system that changes |
| `Policy` | composes the two: discovery, then the policy, then its application in the child |
| `MCPolicy` | instance of it: scripts, env under two names, a loop, an ELF program; option combinations |
| `PolicyProofs` | proofs about `Policy` |
| `Shebang`, `EnvShebang`, `ElfProbe`, `Expansion`, `Settings` | pure readers, each next to a reference: the kernel's, env's, or the structure the text was written from |
| `SettingsCases` | what `Settings` promises of one command line, one file, one environment |
| `ReaderProofs` | proofs about `Shebang`, `ElfProbe` and `Settings` |
| `MCInputs` | feeds them one input at a time; each kind of input is an action |

In every module of the program `pc` (in `Spawn`, `step` and `super`) names the
next system call; an action is that call with everything the code does up to the
following one, and the environment's actions come between. A definition whose
name starts with `Mut` is the next definition with a plausible regression. None
is part of a specification; each shows that a property notices.

### Supervisor

`pc` values `poll read reap forward query direct check` are the main loop
(`supervise_child_inner`), `begin ... killGroup` the cleanup, `fGroup ... gSleep`
the failure path. `deadline` is `ShutdownDeadline` (`At`, `Never`) or `None`;
`NextDeadline` is the `deadline =` of line 2671, `Reap` one turn of
`handle_sigchld` with `handle_wait_status`, `Forward`, `Query` and `Direct` the three calls of
`forward_to_main_child`, `Fail` the `Err` arm of `supervise_child`.

Abstractions:
* Signals are of kinds: `TERM` (the three termination signals), `USR` (other
  forwarded ones), `CHLD`, `TTOU` (ignored), `OWNPIPE` (tino's own failing write).
  Each kind is standard, so it is pending once. They are dequeued in any order,
  which includes the kernel's order by number.
* `poll` with a timeout is a poll that may return at any time; the 10 ms polls of
  the cleanup and the sleeps of the failure path are such polls. EINTR is a
  stutter: every caller retries.
* Stopped and continued children appear as a `CHLD` with nothing to reap.
* The foreground terminal is `JobControl`'s: there the loop has its batches and its
  order of signals but one process to reap; here there is no terminal.
* A process that leaves the group does not come back, and group numbers are not
  reused: the code's ordinary path makes the second assumption itself (2721).
* A signal that cannot be sent (`Send`) is logged and changes nothing; `Faults` has `"kill"` where
  that may happen. `Immune` processes are those tino never may signal.
* Time is counted in units; `Instant` overflow is the constant `InstantMax`.

### Lifecycle and ThreadSignals

One thread with a mask, dispositions and pending signals, in any initial state.
`Inspect` to `OpenSignalFd` are `setup_signal_delivery`; `FirstGuard` says which
guard's restoration comes first at a given early return; `RestoreDelivery` to
`Undo` are `restore_signal_delivery` with `discard_pending_signal`
(`DrainLimit` is the number of its attempts). `owned` and `hit` are history: the
pending signals that came for the supervision, and those that reached the caller.
A real-time signal queued several times is one pending signal here.

### Spawn

The variables of `ThreadSignals` are the child's. `asked` is the request, any of
them. `group` is the child's group (the supervisor's, its own, another), `execed`
the kernel's record that the child has become a program, which decides whether
`setpgid` from outside is refused with EACCES. The mask at the fork is what `setup_signal_delivery` left: everything but the signals it
excludes, and those where the caller blocked them. A zombie may or may not be found
(`ESRCH`): the systems tino supports differ. A signal at its default action ends
the child (stop signals included: a stopped child takes no step). The claim
of the terminal is in `JobControl`.

### ConfigWriter

A directory maps names to files; a writer creates at most one, so files are named
by their writers. `diskDir` is what a power loss leaves of the directory,
`synced` the files it leaves whole; the kernel may write the directory back at
any time (`WriteBack`), as a whole, which is what a journal does. `Kill` ends
any writer, `PowerLoss` all of them; a writer that had not started may run
afterwards and finds what the others left. Removing the temporary file after an
error is taken to succeed (the code ignores the result).

### JobControl

`fg` is the foreground group and `pc` tino's next system call: `lookup` is
`owned_foreground_tty`, `poll ... decide` the loop, `check query give stop`
`suspend_job`, `resume resumeSet` `resume_job`, `restore restoreSet` the guard's Drop.
`tcgetpgrp` and `tcsetpgrp` are two steps, and everything outside runs between them. The
shell takes the terminal back from a job that stopped, hands it over and continues
(`fg`, in two steps), only continues (`bg`), or exits and hangs the terminal up. The signalfd
yields the lowest number first, as the kernel does. A stop signal drops a pending SIGCONT
although both are blocked: after ^Z at the wrong moment tino never sees the SIGCONT
of the user's `fg`, and the terminal stays with tino until the next one; the history
variable `missed` marks this, and it is the one excuse of `FgReaches` that is not the
command's own doing. Likewise `stale` marks that tino was stopped, or the terminal hung up, between a
lookup and the call that relies on it; no code can close that window.

### DiagnosticWriter

`Block`, `SnapshotPending` are `DiagnosticWriteGuard::new`, `Pin`, `Classify`, `Reopen`
the choice of the descriptor, `Write` one turn of `write_all`, `Consume` one
`sigtimedwait`, `DropGuard` the Drop. A failing write raises its signal for the thread;
others send theirs to the thread or to the process, and a private one merges with tino's
own (`merged`): of two signals that the kernel made one of, one is consumed. `own`,
`sent`, `felt` and `denied` are history.

### Landlock, ExecDiscovery and Policy

`Landlock` has the rights of each ABI and the kernel's two refusals (of rights it does
not know or of an empty ruleset; of a rule that allows nothing or the unhandled) as external
definitions, `Build` for `build_landlock_config_for_args`, and one action per system
call of `apply`. `Permitted` is the reference: what the options permit, written
without any of the code's sets. `ExecDiscovery` keeps the code's recursion as an explicit stack (`stack`) so
that files may be replaced between any two system calls; what a script or program
names is the constant `Interps`, which the readers below compute. The reference is `Execute`: the
restricted command runs whatever it `Asks` for, and that asks again. execvp may try every
candidate of a search, env runs its command after itself, of several items one is
reached if those before it could run, and what tino cannot read it cannot follow; so
`NotFalselyDenied` is about every command that running the first one leads to. The order in which invalid options
are found is not kept, only that one is. Descriptors are inodes: a pinned file keeps its
grant when its name is taken by another. A program is env to tino if it is the file `/usr/bin/env`, unless that is a link to
another name (`Linked`) or the shell's own file; to the reference, unless it goes by the name it is called by
(`Multicall`). That the two agree is the assumption `EnvTelling`: env's installs are a program of its own, a link to a multicall
binary, or a hard link that the shell shares.

### The readers

Texts are sequences of tokens, a token being a character that means something, or a
whole name, option or numeral.

* `Shebang`: the first `BufSize` bytes, against `load_script`'s pointer arithmetic.
* `EnvShebang`: the state machine of `split_env_split_string`, against words in
  quoting styles; the reading of env's options with nested `-S`, against a program that is
  built first and then written in some spelling.
* `ElfProbe`: checks in the code's order with a word of 0..3, against the kernel's loader. On two
  kinds of file the kernel is stricter (`Conventional`): an interpreter string with
  a NUL inside and none at its end, and a table longer than the kernel's limit. There tino
  names a loader, or nothing, where execvp would turn to the shell.
* `Expansion`: the byte scanner with its stack of braces, against the tree the
  argument was written from.
* `Settings`: arguments, file, environment, control modes and sources as one function
  `Invoke`; its properties compare several invocations. Arguments and the tokens of a file are read by
  recursive functions over positions, so that `ReaderProofs` can reason about them.

## 3. What TLC checks

| Run | Configuration | Question and result |
|---|---|---|
| `group` | `SupGroup.cfg` | a process group, two descendants, one out of tino's permission, a command that may leave its group, two signals, grace of 2, every call of the loop failing: no exit overlooked (`NoLostExit`), no early SIGKILL (`EscalationJustified`), no survivor of a return (`NoSurvivor`) or of a failure (`FailureClean`) |
| `drain` | `SupDrain.cfg` | no group, subreaper, a child of the caller's own: everything is reaped unless time runs out (`DrainedOnReturn`), the whole implements `Container` (`KeepsPromise`) |
| `progress` | `SupProgress.cfg` | termination signals and own SIGPIPEs that never stop, failing calls: escalation comes, and to the command wherever it is, and both cleanups end (`NothingStarves`); once arrivals stop, Main's death is answered for (`AnswersAtLast`, the liveness of `Container`) |
| `refused` | `SupRefused.cfg` | every call may fail, every kill and wait too, so that the command may survive them and leave its group: only numbers still held are signalled (`MainReserved`, `GroupKillOwned`), only own children reaped (`FailureReapsOnlyOurs`) |
| `readme_grace` | `SupReadme.cfg` | expected violation, see section 6 |
| `lifecycle` | `Lifecycle.cfg` | any caller, any failing call, signals at any time: `NoStray`, `CallerUndisturbed` (backlog kept; state back but for what could not itself be restored), `ChldKept`; the restoration ends although signals and interruptions do not (`RestoreEnds`) |
| `spawn` | `Spawn.cfg` | every request and caller, every failing call, a signal that is not blocked at the fork, a supervisor that dies anywhere: `ParentDeathFelt`, `NoHostHandler`, `ProgramAsPromised`, `GroupTruth` |
| `config_writer` | `ConfigWriter.cfg` | two writers, two names, every failure, kills, power losses: `NeverTorn`, `DurableOnOk`, `OnlyOwnTemp`, `ModeKept`, `NoLitter` |
| `job_control` | `JobControl.cfg` | four events of user, shell and others: `TerminalReturned`, `NoTheft`, `StopsToBeContinued`, and that stops reach tino (`StopShown`) and `fg` the command (`FgReaches`) |
| `diagnostics` | `DiagnosticWriter.cfg` | two foreign signals or redirections during a message: `CallerUntouched`, `RightFile` |
| `policy` | `Policy.cfg` | every option combination on every ABI, env installed in each of the ways the code tells apart, one replacement of a file: `Enforced`, `NotFalselyDenied`, `OnlyPinned`, `NestingBounded` |
| `inputs` | `Inputs.cfg` | the readers on bounded inputs: `ExpandsAsMeant`, `KnowsWhatRuns` (kernel, env, loader), `WrittenIsRead`, `FileDecides`, `SourceDecides` |

Bounds, and why they are enough. Two descendants are the fewest with which one
forks the other while it is signalled and with which two deaths share a SIGCHLD;
`Batch = 2` is the smallest batch that ends with signals left; two signals are
what escalation by repetition takes, and a grace of 2 lets the clock stand
strictly between the signal and the deadline. `Horizon` stops the clock from
running without a deadline, which no guard looks at. `group` and `progress` let every call
fail but the kills, whose failure the code only logs; `refused`, with one signal, lets those
fail too. `Lifecycle` has SIGCHLD and one signal that plays every other part: blocked or not
by the caller, pending or not, handled, ignored or at its default. That supervision does not block some
signals (`Excluded`) is for the theorems and for `Spawn`, which has SIGCHLD, SIGPIPE, a forwarded signal
and an excluded one: the four are reset, forwarded and blocked differently. Two writers with
one process id are the case that `create_new` is for; two attempts are one
collision. Four events in `JobControl` are a stop, its continuation, a second stop and
one disturbance (SIGSTOP, a hangup, a termination, a move to another group): the
second stop is what `started` is for. Two events in `DiagnosticWriter` are a
foreign signal and a redirection, or two signals of one number; two pieces and three writes let a message fail
in its middle and run out of writes. In `Policy` one replacement is enough for every lookup to
differ from its open, and `MaxVisits` is below what the loop of scripts asks for, so that the
limit is reached; a FIFO stands where an interpreter is looked for. `Inputs` has defaults nested three deep, words of two
pieces, lines up to two bytes beyond the buffer, files with three headers, two options on a command line. The
theorems of section 5 have no bounds.

CHECK_DEADLOCK is off because each of these programs ends.

Fairness. `Supervisor` assumes that the supervisor is scheduled (its calls never
block except in `poll`, which has a timeout whenever there is a deadline, and in
the `waitpid` of a child it killed), that the clock moves towards a deadline, and
that a process that was sent SIGKILL dies. Nothing is assumed of the workload:
it may ignore every other signal for ever. No failing call is fair: a fault may
happen, and never has to. `Lifecycle` assumes that the calling
thread is scheduled. Neither assumes that signals stop, except `AnswersAtLast`, which says so in its
premise (`QuietAtLast`). `JobControl` assumes that tino and its child are scheduled while they
are not stopped, and that a shell takes the terminal back from a stopped job and finishes an
`fg` it began; not that the user does anything, or the command.
`DiagnosticWriter` and `Policy` state no fairness: their loops are bounded by counters
(`remaining`, `tries`, `MaxVisits`), and what matters there is safety.

Some properties join several sentences about one promise (`CallerUndisturbed`,
`CallerUntouched`, `NothingStarves`, `KnowsWhatRuns`, `FileDecides`, `Enforced`); where the parts
have different code behind them the modules hold a `Mut` definition for each.

## 4. Abstract specification

`Container` has three variables and four actions: the command exits, is
collected once, is answered for once; an error is answered only with the command
dead and collected, or when the system refused to kill or wait. `Promised` in
`Supervisor` maps `state[Main]`, `mainStatus` and `pc`, `result` to it;
`KeepsPromise` and `AnswersAtLast` are its safety and its liveness.

## 5. What is proved

All for every value of the constants, under the `ASSUME`s of the modules.

* `SupervisorProofs`: `TypeCorrect`, `ExitNeverLost`, `PidReserved`,
  `ExitCodeCorrect`, `PromiseKept` (refinement of `Container`), `NeverPostponed`,
  `NeverKilledEarly`. The first argument is the invariant `MainInv`. `NoLostExit` alone is
  not inductive: that a reaping loop may end needs `mainExit` to say whether the
  command was reaped (`ExitKnown`), that it is signalled needs it to be unreaped
  (`Unreaped`) in the loop and in the failure path, and the answer needs the
  recorded status (`StatusKnown`). The second is `GraceInv`: how many termination
  signals were seen (`Counted`) and from when on the deadline of the loop
  (`LoopDue`) or of the cleanup (`CleanupDue`) may be due.
  About everybody else it proves `GroupWiped`, `KillsOnlyItsOwnGroup`, `OthersUntouched`, `NobodyForgotten`,
  `FailsClean`. `GroupInv` says
  that the wait which signals cannot interrupt is entered only by the kill of the whole group, after
  which its members that tino may signal run no more and so cannot fork (`Wiped`); `GroupWiped` assumes that
  kills succeed (`KillsSucceed`), since a failing one is only logged. `KillsOnlyItsOwnGroup` assumes no such thing: its
  invariant is the property itself. From the look to the kill an unreaped child of tino's is in the group or is the
  command, and neither goes away: only tino reaps it, and a command that survived its kills and leaves the group
  takes along the process id that is the group's number, so that nobody else can be given it. The theorem assumes
  that nobody but the command leaves the group (`OnlyMainLeaves`): another member could leave between the look and
  the kill.
  `NobodyForgotten` (`DrainedOnReturn`) and `FailsClean` (`FailureClean`) are about orphans: that tino has no child
  left must mean that nobody is left. `Forest` is why. The parents of living processes live or are
  tino's, and `Acyclic` says it without an order of births: every nonempty set of processes has a member
  whose parent is outside it. Applied to the set of all that are left (`NobodyLeft`), that member
  is a child of tino's, and there is none. `DrainInv` keeps this from the last look to the return.
  For `FailsClean` the same argument is made inside the group: a parent
  in the group keeps its children there (`Gathered`), so once no member is waitable those that run
  are out of tino's reach for good (`FailInv`). It assumes `OnlyMainLeaves` again, that tino may signal
  the command, and `CleanupCalls`: the kills and waits of the cleanup itself do not fail. The first is needed: TLC finds that a descendant which left the
  group and dies after tino's failed return makes its child, still in the group, a child of tino's.
* `LifecycleProofs`: `BacklogNeverTouched`, `NoSignalStrays`,
  `EverythingRestored`, `CallerNeverDisturbed` (the first and third), `ChildSignalKept`. `BacklogInv` says that what the caller
  blocked is in every mask that is set and in no set that is read or
  discarded; `StrayInv` that each signal of the supervision is on the list to
  discard, or stays blocked; `DispositionInv` and `SubreaperInv` that what differs
  from the caller is known to a guard or a list, or is the very thing whose restoration failed: `refused` names it,
  so a failure excuses nothing else.
* `SpawnProofs`: `DeathNeverMissed`, `NoHandlerRuns`, `ProgramStartsRight`,
  `GroupDecidedRight`, each from an invariant that says what the child's earlier
  calls have established. `NoHandlerRuns` is about the signals that are blocked at the fork; one of the seven that
  supervision never blocks (`Excluded`), unless the caller did, may run a handler of the caller's before the child's
  first call resets it, which no order of calls after a fork can exclude, and not later.
* `ConfigWriterProofs`: `ConfigNeverTorn`, `TempFilesOwned`,
  `NothingLeftBehind`, `SuccessIsDurable`, `PermissionsSurvive`, from `OwnInv` (between create and rename a writer's file is
  under its own name and no other), `TornInv` (what can become the configuration is synced),
  `OrderInv` (each rename is above all earlier ones) and `DurableInv` (the directory is never behind
  the disk, nor behind a writer that has renamed). `KeptInv` is that one set of permissions is that
  of all that is, was or is about to be the configuration: a writer may
  look at one file and replace another, so `ModeKept` needs all of them to agree.
* `JobControlProofs`: `TerminalComesBack`, `NothingStolen`, `StopIsSafe`. `FreshInv` is the
  heart: the terminal leaves tino's group only while tino is stopped, so a lookup that no
  stop followed is still true when the call is made. `GoneInv` says that whoever leaves has collected
  the command, `ClaimInv` that a stopped command has made its claim, `OwnerInv` and `StopInv` what tino knows
  at each step.
* `DiagnosticWriterProofs`: `NobodyNotices`, `BytesGoRight`. `OwnInv` says that tino's own
  signal is private and exists only from the write to its consumption, `ForeignInv` that a foreign
  one beside it is shared or merged: so the one that sigtimedwait takes first is the right one.
* `PolicyProofs`: `OptionsEnforced`, `NestingStaysBounded`, `OnlyPinnedGranted`, `NeverFalselyDenied`,
  for any file system, any content of its files and any search path. The lemmas say that a kernel that is not too old
  accepts the ruleset and every rule, and that the full ruleset allows exactly
  `Permitted` (`DomainExact`); `ConfigInv`, `RulesetInv` and `DomainInv` carry that from the options
  to the restricted child. `NestInv`: each executable on the stack was paid for by a visit and carries at
  most one list of candidates. `RootInv` and `PinInv`: the lowest frame holds what the
  options name and nothing else, so a file that cannot be executed is pinned only where this run's
  `--exec-allow` named it (`listed`): never for the command or for what it runs. `FollowInv` is that of a search through items that may name each other in a circle: there is a
  set of items handled, each pinned (`Pinned`), and all that they ask for is in the set or still
  on the stack (`Covered`); every visited name is in it (`Noted`), which is why skipping a second visit loses nothing, and
  an item that cannot run may be dropped with what follows it because nothing reaches that either.
  When the stack is empty the set is closed, and the command never leaves it.

Each of these modules proves its type invariant too (`TypeCorrect` and its like); `TypeOK` is not in
the configurations because the theorems cover it.

* `ReaderProofs`: `ShebangLikeTheKernel` and `LoaderLikeTheKernel`, the first and the last part of
  `KnowsWhatRuns` for files of any length. For a line, tino trims, cuts and trims again, the kernel
  walks pointers through its buffer; both come down to four positions in that buffer: the first and
  the last byte that is no blank before the line's end (`LineFromName`, `InterpretedNamed`), where the name
  ends, and where the argument begins (`NameAgrees`, `ArgumentAgrees`). What remains is
  whether both see the same end (`ParseIs`; `EndedByNewline`, `EndedByNul`, `NotEnded`), which is where a
  file shorter, as long as or longer than the buffer differs. It assumes a buffer of at least three bytes and a
  file that begins with `#!`. For an ELF file the checks come in another order on each side; the theorem assumes what
  the format and the platform fix (`Machine`) and that the table is not inside the file's own header
  (`ElfFile`). TLC finds both true of every file of the run `inputs`. `NamesTheLoader` itself is about
  `Conventional` files only (section 2).

  `FileAlwaysDecides`, `SourceAlwaysDecides` and `WrittenAlwaysRead` are about `Settings`, for command lines and files of
  any length and any environment. An induction on positions (`Induction`, from the
  well-foundedness of < on sets) gives each reading its value at the next position
  (`Iterates`), and from there every argument is looked at by itself. What it leaves stays
  (`IsMore`, `Grows`; single values change with their own option alone, `KeptAlong`): so what differs from the defaults at the end was put there by
  some argument, which `SourceDecides` needs, and a check refuses a line on which some option
  left anything. Which arguments are refused and which modes they set does not depend on the settings
  one begins with, as long as these have neither modes nor a command (`SameModes`): a run that starts
  from a file and one that starts from the defaults agree on it. `KeptOf` is what a command line without
  one of its options, as `SourceDecides` compares it, shares with the whole.
  `WrittenAlwaysRead` is a round trip. Options leave only values that can be written back
  (`Sane`: each was accepted for its key, a signal under its canonical name). The
  text is cut into the lines it was joined from (`FlattenIs`, `ByLines`); the lines of
  one key tell exactly that key (`KeyTold`), the keys tell one after the other
  what has been written so far (`Upto`), and at the last the file has told all (`TextIsRead`). The later
  run adds its own modes and the environment to that (`Alike`, `MoreModes`, `EnvAdds`).
  The theorems assume that the case is one (`IsCase`: words in any order, text of any tokens);
  the round trip also that its options hold no `--write-config` yet (`WritesOnce`: the property
  appends it) and that whether a policy is sound does not depend on control modes or on there being
  a command (`PolicyLeavesModes`: `Settings` takes the policy as a parameter). TLC evaluates the three for
  the inputs of the run `inputs` (`InputsAreCases`).

Only model-checked: `ExpandsAsMeant` and, of `KnowsWhatRuns`, what concerns `env -S` (`SplitsAsQuoted`,
`RunsWhatEnvRuns`): there the model or its reference recurses over nested data, a tree of defaults or
words inside words, and induction over data is out of the prover's reach. So is every
liveness property.

## 6. A disagreement with the documentation

`README.md:47` of the repository says that tino waits `--grace-ms` after
forwarding SIGTERM, SIGINT or SIGQUIT before it sends SIGKILL. The code sets the
deadline to now on a second such signal (`mod.rs` 2675), so SIGKILL follows at
once. `GraceAlwaysWaited` states the sentence; the run `readme_grace` violates it.
What the code does keep is `EscalationJustified`.

## 7. Plan

Every component with state has its module, and every safety property of one that a run checks has its
theorem, as does `Settings`, which has none. What is left, in this order:

1. Queues of real-time signals in `Lifecycle`.
2. `EnvShebang` without nested `-S`: its splitter is a state machine over positions, to which the
   argument of `Settings` would apply once it is written as a recursive function.

## 8. Not modelled

* Message texts, escaping and log levels, the table of signal names, `main`, `lib`
  and the stub carry no state the properties could depend on. Tests, benchmarks,
  packaging and the seccomp profile are not part of the program.
* Help, version and the spellings of short options; the wording of `--explain`.
* Byte order and offsets inside an ELF header: `ElfProbe` starts from decoded fields.
* The directory that `--write-config` creates for a new file, and a path that becomes a symbolic
  link between the check and the rename: the code checks at one moment and promises no more.
* A group number that is reused after the group is gone (`mod.rs` 2721), and a signal for
  the caller in the window of `signals.rs` 188: the code accepts both, and the hazards in
  `PROJECT.json` say so.
* A command that leaves its group before the group is signalled and is back when its group is queried is
  reached by neither signal; in the model whoever leaves stays away. A failing kill is only logged: `NoSurvivor`,
  `FailureClean` and the liveness properties are about kills that succeed or are known to be forbidden (`Immune`).
* A writer that replaces the configuration by one with other permissions while another writer is at work:
  the code looks at them before it renames and promises nothing.
* A main command that vanishes between its lookup and its opening makes tino fail before
  it runs anything: no property counts that as harm.
