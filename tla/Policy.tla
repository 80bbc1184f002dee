------------------------------- MODULE Policy -------------------------------
(***************************************************************************)
(* From the options to the restricted command: run_impl discovers what the *)
(* command executes and builds the policy, the child applies it and calls  *)
(* execve on a file system that may have changed since.                    *)
(***************************************************************************)
EXTENDS ExecDiscovery, Landlock

CONSTANTS
    Scenarios      \* [options, files, roots, abis, present]: starting
                   \* points; abis and present are sets to choose from

(* The first root is the command. *)
ASSUME PolicyAssumption ==
    \A s \in Scenarios :
       /\ s.abis \subseteq Nat /\ s.files \in [Names -> Inodes \cup {NoInode}]
       /\ s.roots \in Seq([mode : Modes, item : PlainItem])
       /\ s.roots # <<>> /\ s.roots[1].mode = "Auto"
       /\ EnvTelling(s.files)

VARIABLES
    command,       \* the item the child executes, then what that runs
    listed         \* the paths this run's --exec-allow name

vars == <<discoveryVars, landlockVars, command, listed>>

TypeOK ==
    /\ DiscoveryTypeOK
    /\ lpc \in {"build", "refused", "abi", "create", "rules", "privs",
                "restrict", "exec", "exit"}
    /\ abi \in Nat /\ noNewPrivs \in BOOLEAN
    /\ ruleset.fs \subseteq FsRights(abi) /\ ruleset.net \subseteq NetRights(abi)
    /\ ruleset.scoped \subseteq ScopeRights(abi)
    /\ listed \subseteq Names

ListedIn(rootSeq) ==
    {n \in Names : \E k \in DOMAIN rootSeq :
        /\ rootSeq[k].mode = "Strict"
        /\ rootSeq[k].item.kind = "path" /\ rootSeq[k].item.to = n}

Init ==
    \E s \in Scenarios :
        /\ LandlockInit({s.options}, s.abis, s.present)
        /\ DiscoveryInit(s.files, IF s.options.exec THEN s.roots ELSE <<>>)
        /\ command = s.roots[1].item
        /\ listed = ListedIn(s.roots)

Granted == {grants[n] : n \in DOMAIN grants}

(* Main's files are found before the policy is built; an error ends tino. *)
(* Once they are pinned a replacement changes nothing of the policy.       *)
DiscoveryStep ==
    /\ Discover \/ (options.exec /\ dpc # "ready" /\ DiscoveryEnvironment)
    /\ UNCHANGED <<landlockVars, command, listed>>

BuildStep ==
    /\ dpc = "ready"
    /\ Build(Granted)
    /\ UNCHANGED <<discoveryVars, command, listed>>

ApplyStep == Apply /\ UNCHANGED <<discoveryVars, command, listed>>

(* Whatever is executed asks for more to be executed. *)
Execute ==
    /\ lpc = "exec"
    /\ command' \in Asks(command) \cup AsksEnv(command)
    /\ UNCHANGED <<discoveryVars, landlockVars, listed>>

Next == DiscoveryStep \/ BuildStep \/ ApplyStep \/ Execute

Spec == Init /\ [][Next]_vars

----------------------------------------------------------------------------
(* Properties.                                                             *)

Restricted == lpc = "exec" /\ config.requested /\ error = "none"

(* The kernel never refuses the ruleset or a rule for being malformed, and *)
(* a kernel that has every feature asked for is never called too old.      *)
WellFormed ==
    /\ error # "refused by the kernel"
    /\ error = "AbiTooOld" => ~KernelAccepts(HandledFs, HandledNet, Scoped)

(* A command that runs restricted is restricted as the options say: what  *)
(* they do not permit is denied, nothing else is; and an unrestricted one  *)
(* was asked for, or --restrict-warn-only reported why.                    *)
Enforced ==
    /\ WellFormed
    /\ Restricted =>
         \A op \in Operations(Inodes) : Allowed(op[1], op[2]) <=> Permitted(op[1], op[2])
    /\ lpc = "exec" /\ domain = NoRuleset =>
         ~Enabled(options) \/ (options.warnOnly /\ error # "none")

(* Unless a file was replaced or a limit was reached, the command can      *)
(* execute everything that running it executes: no false denial.           *)
NotFalselyDenied ==
    Restricted /\ options.exec /\ replaced = 0 /\ ~limited
    /\ command.kind = "path" /\ IsExecutable(file[command.to])
        => Allowed("EXECUTE", file[command.to])

(* Only objects are granted that their name had on the way, no FIFO nor    *)
(* device, and only an executable file unless this run's --exec-allow      *)
(* lists the name: a replacement between the look and the open slips no    *)
(* other kind in for the command or what it runs.                          *)
OnlyPinned ==
    \A n \in DOMAIN grants :
        /\ grants[n] \in everFile[n]
        /\ Type[grants[n]] # "special"
        /\ IsExecutable(grants[n]) \/ n \in listed

(* The recursion of the discovery is bounded, also when scripts name each *)
(* other in a circle or through env: at most two frames, an executable and *)
(* a list of candidates, for each visit it may make, and the root's.       *)
NestingBounded == Len(stack) <= 2 * (MaxVisits + 1)
=============================================================================
