---------------------------- MODULE PolicyProofs ----------------------------
(***************************************************************************)
(* Proofs about Policy: the restriction of the command is the one the      *)
(* options ask for, for every combination of options, every kernel and     *)
(* every set of directories and files; and the discovery pins what the     *)
(* command executes, whatever the files name, within its bounds.           *)
(***************************************************************************)
EXTENDS Policy, SequenceTheorems, FiniteSetTheorems, TLAPS

Applying == {"abi", "create", "rules", "privs", "restrict"}
Checked  == Applying \ {"abi"}

Full == [Attr EXCEPT !.rules = Rules]

\* Nothing is granted for execution unless execution is to be restricted.
ExecInv ==
    /\ ~options.exec => roots = <<>> /\ grants = <<>> /\ dpc \in {"root", "ready"}
    /\ config.requested => config.exec = options.exec /\ (~options.exec => config.execs = {})

\* The configuration is that of the options, and whoever applies it has one.
ConfigInv ==
    /\ abi \in Nat
    /\ config.requested =>
         config = ConfigOf(options, config.execs) /\ Enabled(options) /\ ~Invalid(options)
    /\ lpc = "build" => config = NoConfig /\ error = "none" /\ domain = NoRuleset
    /\ lpc \in Applying => config.requested /\ error = "none" /\ domain = NoRuleset
    /\ lpc = "exec" => config.requested \/ ~Enabled(options)

\* Past the ABI check the kernel has every feature, and the ruleset grows to
\* what the policy asks for.
RulesetInv ==
    /\ lpc \in Checked => abi > 0 /\ ~TooOld
    /\ lpc = "rules" => ruleset = Attr
    /\ lpc \in {"privs", "restrict"} => ruleset = Full

\* A command that runs is restricted in full, or an error was reported.
DomainInv ==
    /\ lpc = "exec" /\ config.requested /\ error = "none" =>
         domain = Full /\ abi > 0 /\ ~TooOld
    /\ lpc = "exec" /\ error # "none" => config.requested /\ config.warnOnly
    /\ WellFormed

IInv == ExecInv /\ ConfigInv /\ RulesetInv /\ DomainInv

-----------------------------------------------------------------------------
(* What the kernel makes of the policy.                                    *)

Configured == abi \in Nat /\ config = ConfigOf(options, config.execs) /\ Enabled(options)

LEMMA OldKernelLacks ==
  ASSUME abi \in Nat, TooOld
  PROVE  ~KernelAccepts(HandledFs, HandledNet, Scoped)
BY DEF TooOld, KernelAccepts, HandledFs, HandledNet, Scoped, If, FsRights,
       NetRights, ScopeRights, AllWrites, Make, Nodes, Remove

\* On a kernel that is not too old the attribute holds all that is handled.
LEMMA AttrIsFull ==
  ASSUME abi \in Nat, ~TooOld
  PROVE  Attr = [fs |-> HandledFs, net |-> HandledNet, scoped |-> Scoped, rules |-> {}]
BY DEF TooOld, Attr, If

LEMMA RulesetAccepted ==
  ASSUME Configured, abi > 0, ~TooOld
  PROVE  KernelAccepts(Attr.fs, Attr.net, Attr.scoped)
<1>1. HandledFs \subseteq FsRights(abi)
  BY DEF Configured, TooOld, HandledFs, If, FsRights, AllWrites, Make, Nodes, Remove
<1>2. HandledNet \subseteq NetRights(abi)
  BY DEF Configured, TooOld, HandledNet, If, NetRights
<1>3. Scoped \subseteq ScopeRights(abi)
  BY DEF Configured, TooOld, Scoped, If, ScopeRights
<1>4. HandledFs \cup HandledNet \cup Scoped # {}
  BY DEF Configured, Enabled, ConfigOf, HandledFs, HandledNet, Scoped, If, AllWrites
<1> QED BY <1>1, <1>2, <1>3, <1>4, AttrIsFull DEF KernelAccepts, Configured

LEMMA RulesAccepted ==
  ASSUME Configured, ~TooOld, config.exec \/ config.execs = {}, ruleset = Attr
  PROVE  \A r \in Rules : KernelAcceptsRule(r)
<1>1. /\ config.dev # {} \/ config.dirs # {} => config.write
      /\ config.ioctls # {} => "IOCTL_DEV" \in HandledFs
      /\ config.execs # {} => "EXECUTE" \in HandledFs
      /\ config.bind # {} => "BIND_TCP" \in HandledNet
      /\ config.connect # {} => "CONNECT_TCP" \in HandledNet
  <2>1. /\ config.write = WriteRequested(options)
        /\ config.dirs = options.writeAllow \cup (IF options.preset THEN PresetDirs \cap present ELSE {})
        /\ config.dev = IF DevIncluded(options) THEN {DevDir} ELSE {}
    BY DEF Configured, ConfigOf
  <2>2. config.dev # {} \/ config.dirs # {} => config.write
    BY <2>1 DEF DevIncluded, WriteRequested
  <2>3. /\ config.ioctls # {} => "IOCTL_DEV" \in HandledFs
        /\ config.execs # {} => "EXECUTE" \in HandledFs
    BY DEF HandledFs, If
  <2>4. /\ config.bind # {} => "BIND_TCP" \in HandledNet
        /\ config.connect # {} => "CONNECT_TCP" \in HandledNet
    BY DEF HandledNet, If
  <2> QED BY <2>2, <2>3, <2>4
<1>2. config.write => AllowedWrites # {} /\ AllowedWrites \subseteq HandledFs
                      /\ "WRITE_FILE" \in HandledFs
  BY DEF AllowedWrites, HandledFs, If, AllWrites, Nodes
<1>3. ruleset.fs = HandledFs /\ ruleset.net = HandledNet
  BY AttrIsFull DEF Configured
<1> QED BY <1>1, <1>2, <1>3 DEF Rules, Rule, KernelAcceptsRule

\* What the rules say of each right.
LEMMA RuleFor ==
  ASSUME NEW right, NEW object
  PROVE  (\E r \in Rules : right \in r.rights /\ r.object = object) <=>
           \/ right = "WRITE_FILE" /\ object \in config.dev
           \/ right \in AllowedWrites /\ object \in config.dirs
           \/ right = "EXECUTE" /\ object \in config.execs
           \/ right = "IOCTL_DEV" /\ object \in config.ioctls
           \/ right = "BIND_TCP" /\ object \in config.bind
           \/ right = "CONNECT_TCP" /\ object \in config.connect
<1>1. ASSUME NEW objects, NEW rights
      PROVE  (\E r \in Rule(objects, rights) : right \in r.rights /\ r.object = object)
               <=> right \in rights /\ object \in objects
  <2>1. ASSUME right \in rights, object \in objects
        PROVE  \E r \in Rule(objects, rights) : right \in r.rights /\ r.object = object
    <3>1. [object |-> object, rights |-> rights] \in Rule(objects, rights)
      BY <2>1 DEF Rule
    <3> QED BY <2>1, <3>1
  <2>2. ASSUME NEW r \in Rule(objects, rights), right \in r.rights, r.object = object
        PROVE  right \in rights /\ object \in objects
    <3>1. PICK o \in objects : r = [object |-> o, rights |-> rights]
      BY <2>2 DEF Rule
    <3> QED BY <2>2, <3>1
  <2> QED BY <2>1, <2>2
<1>2. (\E r \in Rules : right \in r.rights /\ r.object = object) <=>
        \/ \E r \in Rule(config.dev, {"WRITE_FILE"}) : right \in r.rights /\ r.object = object
        \/ \E r \in Rule(config.dirs, AllowedWrites) : right \in r.rights /\ r.object = object
        \/ \E r \in Rule(config.execs, {"EXECUTE"}) : right \in r.rights /\ r.object = object
        \/ \E r \in Rule(config.ioctls, {"IOCTL_DEV"}) : right \in r.rights /\ r.object = object
        \/ \E r \in Rule(config.bind, {"BIND_TCP"}) : right \in r.rights /\ r.object = object
        \/ \E r \in Rule(config.connect, {"CONNECT_TCP"}) : right \in r.rights /\ r.object = object
  BY DEF Rules
<1> QED BY <1>1, <1>2

LEMMA DomainExact ==
  ASSUME Configured, ~TooOld, config.exec = options.exec, domain = Full,
         NEW op \in Operations(Inodes)
  PROVE  Allowed(op[1], op[2]) <=> Permitted(op[1], op[2])
<1>1. /\ domain.fs = HandledFs /\ domain.net = HandledNet /\ domain.scoped = Scoped
      /\ domain.rules = Rules
  BY AttrIsFull DEF Full, Configured
<1>2. Allowed(op[1], op[2]) <=>
        \/ op[1] \notin HandledFs \cup HandledNet \cup Scoped
        \/ op[1] = "WRITE_FILE" /\ op[2] \in config.dev
        \/ op[1] \in AllowedWrites /\ op[2] \in config.dirs
        \/ op[1] = "EXECUTE" /\ op[2] \in config.execs
        \/ op[1] = "IOCTL_DEV" /\ op[2] \in config.ioctls
        \/ op[1] = "BIND_TCP" /\ op[2] \in config.bind
        \/ op[1] = "CONNECT_TCP" /\ op[2] \in config.connect
  <2>1. Allowed(op[1], op[2]) <=>
          \/ op[1] \notin HandledFs \cup HandledNet \cup Scoped
          \/ \E r \in Rules : op[1] \in r.rights /\ r.object = op[2]
    BY <1>1 DEF Allowed
  <2> QED BY <2>1, RuleFor
<1> DEFINE right == op[1]
           object == op[2]
<1>3. CASE right = "EXECUTE"
  BY <1>2, <1>3 DEF Permitted, HandledFs, HandledNet, Scoped, If, AllowedWrites,
                    AllWrites, Make, Nodes, Remove
<1>4. CASE right = "IOCTL_DEV"
  BY <1>2, <1>4 DEF Permitted, HandledFs, HandledNet, Scoped, If, AllowedWrites,
                    AllWrites, Make, Nodes, Remove, Configured, ConfigOf
<1>5. CASE right \in {"BIND_TCP", "CONNECT_TCP"}
  BY <1>2, <1>5 DEF Permitted, HandledFs, HandledNet, Scoped, If, AllowedWrites,
                    AllWrites, Make, Nodes, Remove, Configured, ConfigOf
<1>6. CASE right \in {"SIGNAL", "ABSTRACT_UNIX"}
  BY <1>2, <1>6 DEF Permitted, HandledFs, HandledNet, Scoped, If, AllowedWrites,
                    AllWrites, Make, Nodes, Remove, Configured, ConfigOf
<1>7. CASE right \in AllWrites /\ object \in present
  <2>1. right \in HandledFs \cup HandledNet \cup Scoped <=> WriteRequested(options)
    BY <1>7 DEF HandledFs, HandledNet, Scoped, If, AllWrites, Make, Nodes, Remove,
                Configured, ConfigOf
  <2>2. WriteRequested(options) => (right \in AllowedWrites <=> right \notin Nodes)
    BY <1>7 DEF AllowedWrites, HandledFs, If, Configured, ConfigOf
  <2>3. object \in config.dirs <=> Writable(object)
    BY <1>7 DEF Configured, ConfigOf, Writable
  <2>4. object \in config.dev <=> WriteRequested(options) /\ ~options.noDev /\ object = DevDir
    BY <1>7 DEF Configured, ConfigOf, DevIncluded
  <2>5. right \notin {"EXECUTE", "IOCTL_DEV", "BIND_TCP", "CONNECT_TCP", "SIGNAL",
                     "ABSTRACT_UNIX"}
    BY <1>7 DEF AllWrites, Make, Nodes, Remove
  <2>6. "WRITE_FILE" \notin Nodes
    BY DEF Nodes
  <2> QED BY <1>2, <2>1, <2>2, <2>3, <2>4, <2>5, <2>6 DEF Permitted
<1>8. \/ right = "EXECUTE" \/ right = "IOCTL_DEV" \/ right \in {"BIND_TCP", "CONNECT_TCP"}
      \/ right \in {"SIGNAL", "ABSTRACT_UNIX"} \/ (right \in AllWrites /\ object \in present)
  BY DEF Operations
<1> QED BY <1>3, <1>4, <1>5, <1>6, <1>7, <1>8

-----------------------------------------------------------------------------
(* The invariant.                                                          *)

LEMMA InitSafe == Init => IInv
<1> SUFFICES ASSUME Init PROVE IInv
  OBVIOUS
<1>1. PICK sc \in Scenarios :
        /\ LandlockInit({sc.options}, sc.abis, sc.present)
        /\ DiscoveryInit(sc.files, IF sc.options.exec THEN sc.roots ELSE <<>>)
  BY DEF Init
<1>2. abi \in Nat /\ options = sc.options
  BY <1>1, PolicyAssumption DEF LandlockInit
<1>3. ExecInv
  BY <1>1, <1>2 DEF ExecInv, LandlockInit, DiscoveryInit, NoConfig
<1>4. ConfigInv /\ RulesetInv /\ DomainInv
  BY <1>1, <1>2 DEF ConfigInv, RulesetInv, DomainInv, WellFormed, LandlockInit,
                    NoConfig, Applying, Checked
<1> QED BY <1>3, <1>4 DEF IInv

LEMMA ExecStep == ExecInv /\ ConfigInv /\ [Next]_vars => ExecInv'
<1> SUFFICES ASSUME ExecInv, ConfigInv, [Next]_vars PROVE ExecInv'
  OBVIOUS
<1> USE DEF ExecInv
<1>1. CASE DiscoveryStep
  <2>1. UNCHANGED <<options, config>>
    BY <1>1 DEF DiscoveryStep, landlockVars
  <2>2. ASSUME ~options.exec
        PROVE  roots' = <<>> /\ grants' = <<>> /\ dpc' \in {"root", "ready"}
    <3>1. NextRoot
      BY <1>1, <2>2 DEF DiscoveryStep, Discover, Take, Stat, Open
    <3> QED BY <2>2, <3>1 DEF NextRoot
  <2> QED BY <2>1, <2>2
<1>2. CASE BuildStep
  <2>1. UNCHANGED <<options, roots, grants, dpc>>
    BY <1>2 DEF BuildStep, Build, discoveryVars
  <2>2. ~options.exec => Granted = {}
    BY DEF Granted
  <2>3. config' = ConfigOf(options, Granted) \/ UNCHANGED config \/ config' = NoConfig
    BY <1>2 DEF BuildStep, Build
  <2>4. CASE config' = ConfigOf(options, Granted)
    BY <2>1, <2>2, <2>4 DEF ConfigOf
  <2>5. CASE UNCHANGED config
    BY <2>1, <2>5
  <2>6. CASE config' = NoConfig
    BY <2>1, <2>6 DEF NoConfig
  <2> QED BY <2>3, <2>4, <2>5, <2>6
<1>3. CASE ApplyStep
  BY <1>3 DEF ApplyStep, Apply, QueryAbi, Create, AddRules, SetNoNewPrivs,
              RestrictSelf, discoveryVars
<1>4. CASE Execute \/ UNCHANGED vars
  BY <1>4 DEF Execute, vars, discoveryVars, landlockVars
<1> QED BY <1>1, <1>2, <1>3, <1>4 DEF Next

LEMMA BuildSafe ==
  ASSUME IInv, BuildStep
  PROVE  ConfigInv' /\ RulesetInv' /\ DomainInv'
<1> USE DEF IInv, ConfigInv, RulesetInv, DomainInv, Applying, Checked, WellFormed
<1>1. /\ lpc = "build" /\ config = NoConfig
      /\ UNCHANGED <<options, present, abi, ruleset, noNewPrivs, domain, error>>
  BY DEF BuildStep, Build
<1>2. CASE Enabled(options) /\ Invalid(options)
  BY <1>1, <1>2 DEF BuildStep, Build, NoConfig, Enabled, WriteRequested, Invalid
<1>3. CASE Enabled(options) /\ ~Invalid(options)
  <2>1. config' = ConfigOf(options, Granted) /\ lpc' = "abi"
    BY <1>3 DEF BuildStep, Build
  <2>2. config' = ConfigOf(options, config.execs)'
    BY <1>1, <2>1 DEF ConfigOf, WriteRequested, DevIncluded
  <2>3. (Enabled(options) /\ ~Invalid(options))'
    BY <1>1, <1>3 DEF Enabled, WriteRequested, Invalid
  <2>4. config'.requested
    BY <2>1 DEF ConfigOf
  <2> QED BY <1>1, <2>1, <2>2, <2>3, <2>4
<1>4. CASE ~Enabled(options)
  <2>1. config' = NoConfig /\ lpc' = "exec"
    BY <1>4 DEF BuildStep, Build
  <2>2. ~Enabled(options)'
    BY <1>1, <1>4 DEF Enabled, WriteRequested
  <2> QED BY <1>1, <2>1, <2>2 DEF NoConfig
<1> QED BY <1>2, <1>3, <1>4

LEMMA ApplySafe ==
  ASSUME IInv, ApplyStep
  PROVE  ConfigInv' /\ RulesetInv' /\ DomainInv'
<1>1. /\ lpc \in Applying /\ config.requested /\ error = "none" /\ domain = NoRuleset
      /\ UNCHANGED <<options, present, abi, config>>
  BY DEF ApplyStep, Apply, QueryAbi, Create, AddRules, SetNoNewPrivs, RestrictSelf,
         Applying, IInv, ConfigInv
<1>2. Configured
  BY <1>1 DEF Configured, IInv, ConfigInv
<1>3. config.exec \/ config.execs = {}
  BY <1>1 DEF IInv, ExecInv
<1>4. /\ (TooOld <=> TooOld') /\ Attr' = Attr /\ Full' = Full
      /\ KernelAccepts(HandledFs, HandledNet, Scoped)' =
           KernelAccepts(HandledFs, HandledNet, Scoped)
  BY <1>1 DEF TooOld, Attr, Full, KernelAccepts, HandledFs, HandledNet, Scoped, Rules,
              AllowedWrites
<1>5. ConfigOf(options, config.execs)' = ConfigOf(options, config.execs)
      /\ Enabled(options)' = Enabled(options) /\ Invalid(options)' = Invalid(options)
  BY <1>1 DEF ConfigOf, DevIncluded, WriteRequested, Enabled, Invalid
<1> USE DEF IInv, ConfigInv, RulesetInv, DomainInv, Applying, Checked, WellFormed
\* A call that fails: the command ends, or an error is reported.
<1>6. ASSUME NEW e, Fail(e), domain' = domain, e # "none", e # "refused by the kernel",
             e = "AbiTooOld" => TooOld
      PROVE  ConfigInv' /\ RulesetInv' /\ DomainInv'
  <2>1. /\ error' = e /\ lpc' \in {"exec", "exit"}
        /\ lpc' = "exec" => config.warnOnly
    BY <1>6 DEF Fail
  <2>2. e = "AbiTooOld" => ~KernelAccepts(HandledFs, HandledNet, Scoped)
    BY <1>2, <1>6, OldKernelLacks DEF Configured
  <2> QED BY <1>1, <1>4, <1>5, <1>6, <2>1, <2>2
<1>7. CASE QueryAbi
  BY <1>1, <1>4, <1>5, <1>6, <1>7 DEF QueryAbi
<1>8. CASE Create
  <2>1. KernelAccepts(Attr.fs, Attr.net, Attr.scoped)
    BY <1>2, <1>8, RulesetAccepted DEF Create
  <2> QED BY <1>1, <1>4, <1>5, <1>6, <1>8, <2>1 DEF Create
<1>9. CASE AddRules
  <2>1. \A r \in Rules : KernelAcceptsRule(r)
    BY <1>2, <1>3, <1>9, RulesAccepted DEF AddRules
  <2> QED BY <1>1, <1>4, <1>5, <1>6, <1>9, <2>1 DEF AddRules, Full
<1>10. CASE SetNoNewPrivs
  BY <1>1, <1>4, <1>5, <1>6, <1>10 DEF SetNoNewPrivs
<1>11. CASE RestrictSelf
  BY <1>1, <1>4, <1>5, <1>6, <1>11 DEF RestrictSelf
<1> QED BY <1>7, <1>8, <1>9, <1>10, <1>11 DEF ApplyStep, Apply

LEMMA SafeStep == IInv /\ [Next]_vars => IInv'
<1> SUFFICES ASSUME IInv, [Next]_vars PROVE IInv'
  OBVIOUS
<1>1. ExecInv'
  BY ExecStep DEF IInv
<1>2. CASE DiscoveryStep \/ Execute \/ UNCHANGED vars
  <2>1. UNCHANGED landlockVars
    BY <1>2 DEF DiscoveryStep, Execute, vars
  <2>2. /\ (TooOld <=> TooOld') /\ Attr' = Attr /\ Full' = Full
        /\ KernelAccepts(HandledFs, HandledNet, Scoped)' =
             KernelAccepts(HandledFs, HandledNet, Scoped)
    BY <2>1 DEF TooOld, Attr, Full, KernelAccepts, HandledFs, HandledNet, Scoped, Rules,
                AllowedWrites, landlockVars
  <2>3. ConfigOf(options, config.execs)' = ConfigOf(options, config.execs)
        /\ Enabled(options)' = Enabled(options) /\ Invalid(options)' = Invalid(options)
    BY <2>1 DEF ConfigOf, DevIncluded, WriteRequested, Enabled, Invalid, landlockVars
  <2>4. ConfigInv'
    BY <2>1, <2>3 DEF IInv, ConfigInv, landlockVars
  <2>5. RulesetInv'
    BY <2>1, <2>2 DEF IInv, RulesetInv, landlockVars
  <2>6. DomainInv'
    BY <2>1, <2>2 DEF IInv, DomainInv, WellFormed, landlockVars
  <2> QED BY <1>1, <2>4, <2>5, <2>6 DEF IInv
<1>3. CASE BuildStep
  BY <1>1, <1>3, BuildSafe DEF IInv
<1>4. CASE ApplyStep
  BY <1>1, <1>4, ApplySafe DEF IInv
<1> QED BY <1>2, <1>3, <1>4 DEF Next

-----------------------------------------------------------------------------
(* A command that runs restricted may do exactly what its options permit,  *)
(* one that runs unrestricted was to, or a warning says why, and a kernel  *)
(* that lacks a feature never silently drops it (landlock::apply,          *)
(* build_landlock_config_for_args).                                        *)
THEOREM OptionsEnforced == Spec => []Enforced
<1>1. IInv => Enforced
  <2> SUFFICES ASSUME IInv PROVE Enforced
    OBVIOUS
  <2>1. ASSUME Restricted, NEW op \in Operations(Inodes)
        PROVE  Allowed(op[1], op[2]) <=> Permitted(op[1], op[2])
    <3>1. Configured /\ ~TooOld /\ config.exec = options.exec /\ domain = Full
      BY <2>1 DEF Restricted, IInv, ExecInv, ConfigInv, DomainInv, Configured
    <3> QED BY <3>1, DomainExact
  <2>2. ASSUME lpc = "exec", domain = NoRuleset
        PROVE  ~Enabled(options) \/ (options.warnOnly /\ error # "none")
    <3>1. CASE ~config.requested
      BY <2>2, <3>1 DEF IInv, ConfigInv
    <3>2. CASE config.requested /\ error # "none"
      <4>1. config.warnOnly = options.warnOnly
        BY <3>2 DEF IInv, ConfigInv, ConfigOf
      <4> QED BY <2>2, <3>2, <4>1 DEF IInv, DomainInv
    <3>3. CASE config.requested /\ error = "none"
      <4>1. Configured /\ abi > 0 /\ ~TooOld /\ domain = Full
        BY <2>2, <3>3 DEF IInv, ConfigInv, DomainInv, Configured
      <4>2. Attr.fs \cup Attr.net \cup Attr.scoped # {}
        BY <4>1, RulesetAccepted DEF KernelAccepts
      <4>3. Attr.fs = {} /\ Attr.net = {} /\ Attr.scoped = {}
        BY <2>2, <4>1 DEF Full, NoRuleset, Attr
      <4> QED BY <4>2, <4>3
    <3> QED BY <3>1, <3>2, <3>3
  <2> QED BY <2>1, <2>2 DEF Enforced, IInv, DomainInv
<1> QED BY <1>1, InitSafe, SafeStep, PTL DEF Spec

-----------------------------------------------------------------------------
(* Items and sequences of them.                                            *)

LEMMA PlainTyped ==
  ASSUME NEW p \in PlainItem
  PROVE  p \in Item /\ p.env = <<>>
BY DEF PlainItem, Item, PathItem, CmdItem, Unresolved

LEMMA ItemTyped ==
  ASSUME NEW it \in Item
  PROVE  /\ it.kind \in {"path", "cmd", "none"} /\ it.ctx \in Contexts
         /\ it.kind = "path" => it.to \in Names
         /\ it.kind = "cmd" => it.to \in Commands
         /\ it.env = <<>> \/ (it.kind = "path" /\ \E p \in PlainItem : it.env = <<p>>)
<1>1. CASE it \in PlainItem
  BY <1>1 DEF PlainItem, PathItem, CmdItem, Unresolved
<1>2. CASE it \in {EnvItem(n, c, p) : n \in Names, c \in Contexts, p \in PlainItem}
  BY <1>2 DEF EnvItem
<1> QED BY <1>1, <1>2 DEF Item

LEMMA EnvTyped ==
  ASSUME NEW it \in Item
  PROVE  it.env \in Seq(Item)
<1>1. CASE it.env = <<>>
  BY <1>1
<1>2. ASSUME NEW p \in PlainItem, it.env = <<p>>
      PROVE  it.env \in Seq(Item)
  BY <1>2, PlainTyped
<1> QED BY <1>1, <1>2, ItemTyped

LEMMA SeqTail ==
  ASSUME NEW S, NEW s \in Seq(S), s # <<>>
  PROVE  /\ Head(s) \in S /\ Head(s) = s[1] /\ 1 \in DOMAIN s
         /\ Len(s) \in Nat /\ Len(s) >= 1 /\ DOMAIN s = 1..Len(s)
         /\ Tail(s) \in Seq(S) /\ Len(Tail(s)) = Len(s) - 1
         /\ DOMAIN Tail(s) = 1..(Len(s) - 1)
         /\ \A k \in 1..(Len(s) - 1) : Tail(s)[k] = s[k + 1]
         /\ Len(s) = 1 <=> Tail(s) = <<>>
<1>1. /\ Head(s) \in S /\ Head(s) = s[1] /\ 1 \in DOMAIN s
      /\ Len(s) \in Nat /\ Len(s) >= 1 /\ DOMAIN s = 1..Len(s)
  OBVIOUS
<1>2. /\ Tail(s) \in Seq(S) /\ Len(Tail(s)) = Len(s) - 1
      /\ \A k \in 1..(Len(s) - 1) : Tail(s)[k] = s[k + 1]
  BY HeadTailProperties
<1>3. DOMAIN Tail(s) = 1..(Len(s) - 1)
  BY <1>1, <1>2
<1>4. ASSUME Len(s) # 1, Tail(s) = <<>> PROVE FALSE
  <2> DEFINE t == Tail(s)
  <2>1. t = <<>> /\ Len(t) = Len(s) - 1
    BY <1>2, <1>4
  <2> HIDE DEF t
  <2>2. Len(t) = 0
    BY <2>1
  <2>3. Len(s) # 1 /\ Len(s) \in Nat
    BY <1>1, <1>4
  <2> QED BY <2>1, <2>2, <2>3
<1>5. ASSUME Len(s) = 1 PROVE Tail(s) = <<>>
  <2> DEFINE t == Tail(s)
  <2>1. t \in Seq(S) /\ Len(t) = 0
    BY <1>2, <1>5
  <2> HIDE DEF t
  <2>2. t = <<>>
    BY <2>1
  <2> QED BY <2>2 DEF t
<1> QED BY <1>1, <1>2, <1>3, <1>4, <1>5

LEMMA Retop ==
  ASSUME NEW S, NEW s \in Seq(S), s # <<>>, NEW f \in S
  PROVE  LET t == <<f>> \o Tail(s)
         IN  /\ t \in Seq(S) /\ t # <<>> /\ Len(t) = Len(s)
             /\ t[1] = f /\ Head(t) = f /\ Tail(t) = Tail(s)
             /\ \A k \in 2..Len(s) : t[k] = s[k]
<1> DEFINE t == <<f>> \o Tail(s)
<1>1. Tail(s) \in Seq(S) /\ Len(Tail(s)) = Len(s) - 1
      /\ \A k \in 1..Len(s) - 1 : Tail(s)[k] = s[k + 1]
  BY HeadTailProperties
<1>2. t \in Seq(S) /\ Len(t) = Len(s) /\ t[1] = f
      /\ \A k \in 2..Len(s) : t[k] = s[k]
  BY <1>1
<1>3. t # <<>> /\ Head(t) = f /\ Tail(t) = Tail(s)
  <2>1. Len(s) \in Nat /\ Len(s) > 0
    OBVIOUS
  <2>2. Tail(t) \in Seq(S) /\ Len(Tail(t)) = Len(Tail(s)) /\ t # <<>>
    BY <1>1, <1>2, <2>1
  <2>3. \A k \in 1..Len(Tail(s)) : Tail(t)[k] = Tail(s)[k]
    BY <1>1, <1>2, <2>1, <2>2, HeadTailProperties
  <2> HIDE DEF t
  <2>4. Tail(t) = Tail(s)
    BY <1>1, <2>2, <2>3, SeqEqual
  <2> QED BY <1>2, <2>2, <2>4
<1> QED BY <1>2, <1>3

LEMMA Pushed ==
  ASSUME NEW S, NEW s \in Seq(S), NEW f \in S
  PROVE  LET t == <<f>> \o s
         IN  /\ t \in Seq(S) /\ t # <<>> /\ Len(t) = Len(s) + 1
             /\ t[1] = f /\ Head(t) = f
             /\ \A k \in 2..Len(s) + 1 : t[k] = s[k - 1]
OBVIOUS

-----------------------------------------------------------------------------
(* What the discovery does to its stack.                                   *)

SearchItems(todo) ==
    \A j \in DOMAIN todo : todo[j].kind # "cmd" /\ todo[j].env = <<>>

\* A list of candidates asks for no further search.
Shape ==
    /\ dpc \in {"next", "stat", "open"} => stack # <<>>
    /\ dpc \in {"stat", "open"} =>
         item.kind = "path" /\ (Top.of = "search" => item.env = <<>>)
    /\ \A k \in DOMAIN stack :
         stack[k].of = "search" => stack[k].mode = "Auto" /\ SearchItems(stack[k].todo)

\* The top frame loses its first item, or is asked for what env runs.
Moved(f) ==
    /\ f \in Frames /\ f.of = Top.of /\ f.mode = Top.mode
    /\ \/ f.todo = Top.todo
       \/ Top.todo # <<>> /\ f.todo = Tail(Top.todo)
       \/ dpc = "open" /\ item.env # <<>> /\ f.todo = item.env \o Top.todo

\* A new frame: the candidates of a command, or what a file asks for.
Searched(g) ==
    /\ g.of = "search" /\ g.mode = "Auto" /\ Top.of = "executable"
    /\ SearchItems(g.todo) /\ visited' = visited
Followed(g) ==
    /\ g.of = "executable" /\ g.mode = Top.mode
    /\ <<item.to, item.ctx>> \notin visited
    /\ visited' = visited \cup {<<item.to, item.ctx>>}
    /\ ~(Cardinality(visited') > MaxVisits)

Grown(f, g) ==
    /\ Moved(f) /\ g \in Frames /\ (Searched(g) \/ Followed(g))
    /\ stack' = <<g>> \o (<<f>> \o Tail(stack))

StackMove ==
    \/ stack' = Tail(stack)
    \/ \E f : Moved(f) /\ stack' = <<f>> \o Tail(stack)
    \/ \E f, g : Grown(f, g)

LEMMA FoundTyped ==
  ASSUME NEW cmd \in Commands, NEW c \in Contexts
  PROVE  AsItems(cmd, c) \in Seq(Item) /\ SearchItems(AsItems(cmd, c))
<1>1. Found(cmd, c) \in Seq(Names)
  BY DiscoveryAssumption
<1>2. ASSUME NEW k \in DOMAIN Found(cmd, c)
      PROVE  /\ PathItem(Found(cmd, c)[k], c) \in Item /\ Unresolved(c) \in Item
             /\ AsItems(cmd, c)[k] \in {PathItem(Found(cmd, c)[k], c), Unresolved(c)}
  <2>1. Found(cmd, c)[k] \in Names
    BY <1>1
  <2> QED BY <2>1 DEF Item, PlainItem, AsItems
<1>3. /\ DOMAIN AsItems(cmd, c) = 1..Len(Found(cmd, c)) /\ Len(Found(cmd, c)) \in Nat
      /\ DOMAIN AsItems(cmd, c) = DOMAIN Found(cmd, c)
  BY <1>1 DEF AsItems
<1>4. AsItems(cmd, c) \in Seq(Item)
  <2>1. AsItems(cmd, c) \in [1..Len(Found(cmd, c)) -> Item]
    <3>1. \A k \in 1..Len(Found(cmd, c)) : AsItems(cmd, c)[k] \in Item
      BY <1>2, <1>3
    <3> QED BY <1>3, <3>1 DEF AsItems
  <2> QED BY <1>3, <2>1
<1>5. SearchItems(AsItems(cmd, c))
  <2> SUFFICES ASSUME NEW k \in DOMAIN AsItems(cmd, c)
               PROVE  AsItems(cmd, c)[k].kind # "cmd" /\ AsItems(cmd, c)[k].env = <<>>
    BY DEF SearchItems
  <2>1. k \in DOMAIN Found(cmd, c)
    BY <1>1, <1>3
  <2>2. \/ AsItems(cmd, c)[k] = PathItem(Found(cmd, c)[k], c)
        \/ AsItems(cmd, c)[k] = Unresolved(c)
    BY <1>2, <2>1
  <2>3. ASSUME NEW n PROVE PathItem(n, c).kind # "cmd" /\ PathItem(n, c).env = <<>>
    BY DEF PathItem
  <2>4. Unresolved(c).kind # "cmd" /\ Unresolved(c).env = <<>>
    BY DEF Unresolved
  <2> QED BY <2>2, <2>3, <2>4
<1> QED BY <1>4, <1>5

LEMMA ErrorMoves ==
  ASSUME NEW frames, Error(frames)
  PROVE  stack' = frames \/ stack' = Tail(frames)
BY DEF Error

LEMMA TopTyped ==
  ASSUME stack \in Seq(Frames), stack # <<>>
  PROVE  /\ Top \in Frames /\ Top = stack[1] /\ Top.todo \in Seq(Item)
         /\ Tail(stack) \in Seq(Frames) /\ stack = <<Top>> \o Tail(stack)
         /\ Len(stack) \in Nat /\ Len(stack) >= 1 /\ DOMAIN stack = 1..Len(stack)
<1>1. /\ Top \in Frames /\ Top = stack[1] /\ Tail(stack) \in Seq(Frames)
      /\ Len(stack) \in Nat /\ Len(stack) >= 1 /\ DOMAIN stack = 1..Len(stack)
  BY DEF Top
<1>2. Top.todo \in Seq(Item)
  BY <1>1 DEF Frames
<1>3. stack = <<Top>> \o Tail(stack)
  <2> DEFINE t == <<Top>> \o Tail(stack)
  <2>1. /\ t \in Seq(Frames) /\ Len(t) = Len(stack) /\ t[1] = Top
        /\ \A k \in 2..Len(stack) : t[k] = stack[k]
    BY <1>1, Retop
  <2> HIDE DEF t
  <2>2. \A k \in 1..Len(stack) : t[k] = stack[k]
    BY <1>1, <2>1
  <2>3. t = stack
    BY <2>1, <2>2, SeqEqual
  <2> QED BY <2>3 DEF t
<1> QED BY <1>1, <1>2, <1>3

LEMMA TakeMoves ==
  ASSUME DiscoveryTypeOK, Shape, Take
  PROVE  StackMove
<1>0. dpc = "next" /\ stack # <<>> /\ stack \in Seq(Frames)
  BY DEF Take, Shape, DiscoveryTypeOK
<1>t. /\ Top \in Frames /\ Top = stack[1] /\ Top.todo \in Seq(Item)
      /\ Tail(stack) \in Seq(Frames) /\ 1 \in DOMAIN stack
  BY <1>0, TopTyped
<1>1. CASE Top.todo = <<>>
  BY <1>1 DEF Take, StackMove
<1>2. CASE Top.todo # <<>>
  <2> DEFINE it == Head(Top.todo)
             f == [Top EXCEPT !.todo = Tail(@)]
             frames == <<f>> \o Tail(stack)
  <2>1. it \in Item /\ Tail(Top.todo) \in Seq(Item)
    BY <1>t, <1>2
  <2>2. f \in Frames /\ f.of = Top.of /\ f.mode = Top.mode /\ f.todo = Tail(Top.todo)
    BY <1>t, <2>1 DEF Frames
  <2>3. Moved(f)
    BY <1>2, <2>2 DEF Moved
  <2>4. Tail(frames) = Tail(stack)
    BY <1>0, <2>2, Retop
  <2> HIDE DEF f, frames, it
  <2>5. stack' = frames \/ stack' = Tail(frames) => StackMove
    BY <2>3, <2>4 DEF StackMove, frames
  <2>6. /\ visited' = visited
        /\ \/ it.kind = "cmd" /\ Search(frames, it)
           \/ stack' = frames
           \/ Error(frames)
    BY <1>2 DEF Take, it, frames, f
  <2>7. CASE stack' = frames \/ Error(frames)
    BY <2>5, <2>7, ErrorMoves
  <2>8. CASE it.kind = "cmd" /\ Search(frames, it)
    <3>1. CASE Error(frames)
      BY <3>1, <2>7
    <3>2. CASE stack' = <<Frame("search", "Auto", AsItems(it.to, it.ctx))>> \o frames
      <4> DEFINE g == Frame("search", "Auto", AsItems(it.to, it.ctx))
      <4>1. AsItems(it.to, it.ctx) \in Seq(Item) /\ SearchItems(AsItems(it.to, it.ctx))
        BY <2>1, <2>8, ItemTyped, FoundTyped
      <4>2. g \in Frames /\ g.of = "search" /\ g.mode = "Auto" /\ SearchItems(g.todo)
        BY <4>1 DEF Frame, Frames, Modes
      <4>3. Top.of = "executable"
        <5>1. CASE Top.of = "search"
          <6>1. SearchItems(Top.todo) /\ 1 \in DOMAIN Top.todo /\ Top.todo[1] = it
            BY <1>t, <1>2, <5>1 DEF Shape, it
          <6> QED BY <2>8, <6>1 DEF SearchItems
        <5> QED BY <1>t, <5>1 DEF Frames
      <4> HIDE DEF g
      <4>4. Grown(f, g)
        BY <2>3, <2>6, <3>2, <4>2, <4>3 DEF Grown, Searched, frames, g
      <4> QED BY <4>4 DEF StackMove
    <3> QED BY <2>8, <3>1, <3>2 DEF Search
  <2> QED BY <2>6, <2>7, <2>8
<1> QED BY <1>1, <1>2

LEMMA EnvMoves ==
  ASSUME DiscoveryTypeOK, Shape, dpc = "open", NEW i
  PROVE  \E f : Moved(f) /\ WithEnv(stack, i) = <<f>> \o Tail(stack)
<1>0. stack # <<>> /\ stack \in Seq(Frames) /\ item \in Item
  BY DEF Shape, DiscoveryTypeOK
<1>t. /\ Top \in Frames /\ Top = stack[1] /\ Top.todo \in Seq(Item)
      /\ stack = <<Top>> \o Tail(stack)
  BY <1>0, TopTyped
<1>1. CASE item.env # <<>> /\ IsEnv(i)
  <2> DEFINE f == [stack[1] EXCEPT !.todo = item.env \o @]
  <2>1. item.env \o Top.todo \in Seq(Item)
    BY <1>0, <1>t, EnvTyped
  <2>2. f \in Frames /\ f.of = Top.of /\ f.mode = Top.mode
        /\ f.todo = item.env \o Top.todo
    BY <1>t, <2>1 DEF Frames
  <2>3. Moved(f)
    BY <1>1, <2>2 DEF Moved
  <2>4. WithEnv(stack, i) = <<f>> \o Tail(stack)
    BY <1>1 DEF WithEnv
  <2> QED BY <2>3, <2>4
<1>2. CASE ~(item.env # <<>> /\ IsEnv(i))
  <2>1. WithEnv(stack, i) = <<Top>> \o Tail(stack)
    BY <1>2, <1>t DEF WithEnv
  <2>2. Moved(Top)
    BY <1>t DEF Moved
  <2> QED BY <2>1, <2>2
<1> QED BY <1>1, <1>2

LEMMA OpenMoves ==
  ASSUME DiscoveryTypeOK, Shape, Open
  PROVE  StackMove
<1>0. /\ dpc = "open" /\ stack # <<>> /\ stack \in Seq(Frames) /\ item \in Item
      /\ item.kind = "path"
  BY DEF Open, Shape, DiscoveryTypeOK
<1>t. Top \in Frames /\ stack = <<Top>> \o Tail(stack)
  BY <1>0, TopTyped
<1>s. Moved(Top)
  BY <1>t DEF Moved
<1>1. CASE stack' = stack
  BY <1>1, <1>t, <1>s DEF StackMove
<1>2. CASE Error(stack)
  BY <1>1, <1>2, ErrorMoves DEF StackMove
<1> DEFINE i == file[item.to]
<1>3. CASE stack' = WithEnv(stack, i)
  BY <1>0, <1>3, EnvMoves DEF StackMove
<1>4. CASE /\ stack' = <<Frame("executable", Top.mode, Interps(i, item.ctx))>>
                          \o WithEnv(stack, i)
           /\ i # NoInode
           /\ ~Seen(<<item.to, item.ctx>>)
           /\ visited' = visited \cup {<<item.to, item.ctx>>}
           /\ ~(Cardinality(visited') > MaxVisits)
  <2> DEFINE g == Frame("executable", Top.mode, Interps(i, item.ctx))
  <2>1. item.to \in Names /\ item.ctx \in Contexts
    BY <1>0, ItemTyped
  <2>2. i \in Inodes
    BY <1>4, <2>1 DEF DiscoveryTypeOK
  <2>3. Interps(i, item.ctx) \in Seq(Item)
    BY <2>1, <2>2, DiscoveryAssumption
  <2>4. g \in Frames /\ g.of = "executable" /\ g.mode = Top.mode
    BY <1>t, <2>3 DEF Frame, Frames
  <2>7. Followed(g)
    BY <1>4, <2>4 DEF Followed, Seen
  <2>8. PICK f : Moved(f) /\ WithEnv(stack, i) = <<f>> \o Tail(stack)
    BY <1>0, EnvMoves
  <2> HIDE DEF g
  <2>9. Grown(f, g)
    BY <1>4, <2>4, <2>7, <2>8 DEF Grown, g
  <2> QED BY <2>9 DEF StackMove
<1>5. \/ stack' = stack \/ Error(stack) \/ stack' = WithEnv(stack, i)
      \/ /\ stack' = <<Frame("executable", Top.mode, Interps(i, item.ctx))>>
                          \o WithEnv(stack, i)
         /\ i # NoInode
         /\ ~Seen(<<item.to, item.ctx>>)
         /\ visited' = visited \cup {<<item.to, item.ctx>>}
         /\ ~(Cardinality(visited') > MaxVisits)
  BY DEF Open, Insert
<1> QED BY <1>1, <1>2, <1>3, <1>4, <1>5

-----------------------------------------------------------------------------
(* Types, and the shape of the stack.                                      *)

LEMMA ErrorEnds ==
  ASSUME NEW frames \in Seq(Frames), frames # <<>>, Error(frames)
  PROVE  dpc' \in {"next", "failed"} /\ stack' # <<>>
<1>1. frames[1] \in Frames
  OBVIOUS
<1>2. frames[1].of \in {"executable", "search"}
  BY <1>1 DEF Frames
<1>3. Len(frames) # 1 => Tail(frames) # <<>>
  BY SeqTail
<1>4. CASE dpc' = "failed" /\ stack' = frames
  BY <1>4
<1>5. CASE /\ dpc' = "next" /\ ~(Len(frames) = 1 /\ frames[1].of = "executable")
           /\ stack' = IF frames[1].of = "search" THEN frames ELSE Tail(frames)
  BY <1>2, <1>3, <1>5
<1> QED BY <1>4, <1>5 DEF Error

LEMMA StackShaped ==
  ASSUME DiscoveryTypeOK, Shape, stack # <<>>, StackMove
  PROVE  /\ stack' \in Seq(Frames)
         /\ \A k \in DOMAIN stack' :
              stack'[k].of = "search" => stack'[k].mode = "Auto" /\ SearchItems(stack'[k].todo)
<1>0. stack \in Seq(Frames)
  BY DEF DiscoveryTypeOK
<1>t. /\ Top \in Frames /\ Top = stack[1] /\ Top.todo \in Seq(Item)
      /\ Tail(stack) \in Seq(Frames) /\ stack = <<Top>> \o Tail(stack)
      /\ Len(stack) \in Nat /\ Len(stack) >= 1 /\ DOMAIN stack = 1..Len(stack)
  BY <1>0, TopTyped
<1> DEFINE Fits(fr) == fr.of = "search" => fr.mode = "Auto" /\ SearchItems(fr.todo)
<1>1. \A k \in 1..Len(stack) : Fits(stack[k])
  BY <1>t DEF Shape
<1>2. ASSUME NEW f, Moved(f) PROVE f \in Frames /\ Fits(f)
  <2>1. f \in Frames /\ f.of = Top.of /\ f.mode = Top.mode
    BY <1>2 DEF Moved
  <2>2. ASSUME f.of = "search" PROVE f.mode = "Auto" /\ SearchItems(f.todo)
    <3>1. Top.mode = "Auto" /\ SearchItems(Top.todo)
      <4>1. Fits(stack[1])
        BY <1>1, <1>t
      <4>2. Top.of = "search" /\ Fits(Top)
        BY <1>t, <2>1, <2>2, <4>1
      <4> QED BY <4>2 DEF Fits
    <3>2. f.todo = Top.todo \/ (Top.todo # <<>> /\ f.todo = Tail(Top.todo))
      BY <1>2, <2>1, <2>2 DEF Moved, Shape
    <3>3. ASSUME Top.todo # <<>> PROVE SearchItems(Tail(Top.todo))
      <4>1. /\ Len(Top.todo) \in Nat /\ DOMAIN Top.todo = 1..Len(Top.todo)
            /\ DOMAIN Tail(Top.todo) = 1..(Len(Top.todo) - 1)
            /\ \A k \in 1..(Len(Top.todo) - 1) : Tail(Top.todo)[k] = Top.todo[k + 1]
        BY <1>t, <3>3, SeqTail
      <4> QED BY <3>1, <4>1 DEF SearchItems
    <3> QED BY <2>1, <3>1, <3>2, <3>3
  <2> QED BY <2>1, <2>2
<1>3. ASSUME NEW g, g \in Frames, Searched(g) \/ Followed(g) PROVE Fits(g)
  BY <1>3 DEF Searched, Followed
<1> HIDE DEF Fits
<1>4. CASE stack' = Tail(stack)
  <2>1. /\ Len(Tail(stack)) = Len(stack) - 1 /\ DOMAIN Tail(stack) = 1..(Len(stack) - 1)
        /\ \A k \in 1..(Len(stack) - 1) : Tail(stack)[k] = stack[k + 1]
    BY <1>0, <1>t, HeadTailProperties
  <2>2. \A k \in DOMAIN stack' : Fits(stack'[k])
    BY <1>1, <1>4, <1>t, <2>1
  <2> QED BY <1>4, <1>t, <2>2 DEF Fits
<1>5. ASSUME NEW f, Moved(f)
      PROVE  LET t == <<f>> \o Tail(stack)
             IN  t \in Seq(Frames) /\ Len(t) = Len(stack) /\ \A k \in 1..Len(stack) : Fits(t[k])
  <2> DEFINE t == <<f>> \o Tail(stack)
  <2>1. /\ t \in Seq(Frames) /\ Len(t) = Len(stack) /\ t[1] = f
        /\ \A k \in 2..Len(stack) : t[k] = stack[k]
    BY <1>0, <1>2, <1>5, Retop
  <2> HIDE DEF t
  <2>2. \A k \in 1..Len(stack) : Fits(t[k])
    BY <1>1, <1>2, <1>5, <1>t, <2>1
  <2> QED BY <2>1, <2>2 DEF t
<1>6. ASSUME NEW f, Moved(f), stack' = <<f>> \o Tail(stack)
      PROVE  stack' \in Seq(Frames) /\ \A k \in DOMAIN stack' : Fits(stack'[k])
  BY <1>5, <1>6, <1>t
<1>7. ASSUME NEW f, NEW g, Grown(f, g)
      PROVE  stack' \in Seq(Frames) /\ \A k \in DOMAIN stack' : Fits(stack'[k])
  <2> DEFINE s == <<f>> \o Tail(stack)
  <2>1. s \in Seq(Frames) /\ Len(s) = Len(stack) /\ \A k \in 1..Len(stack) : Fits(s[k])
    BY <1>5, <1>7 DEF Grown
  <2>2. g \in Frames /\ Fits(g) /\ stack' = <<g>> \o s
    BY <1>3, <1>7 DEF Grown
  <2> HIDE DEF s
  <2>3. /\ stack' \in Seq(Frames) /\ Len(stack') = Len(s) + 1 /\ stack'[1] = g
        /\ \A k \in 2..Len(s) + 1 : stack'[k] = s[k - 1]
    BY <2>1, <2>2, Pushed
  <2>4. \A k \in 1..Len(s) + 1 : Fits(stack'[k])
    BY <1>t, <2>1, <2>2, <2>3
  <2> QED BY <2>3, <2>4
<1> QED BY <1>4, <1>6, <1>7 DEF StackMove, Fits

LEMMA DiscoveryTyped ==
  ASSUME DiscoveryTypeOK, Shape,
         Discover \/ DiscoveryEnvironment \/ UNCHANGED discoveryVars
  PROVE  DiscoveryTypeOK' /\ Shape'
<1>0. /\ stack \in Seq(Frames) /\ item \in Item
      /\ roots \in Seq([mode : Modes, item : PlainItem])
      /\ visited \subseteq Names \X Contexts /\ DOMAIN grants \subseteq Names
  BY DEF DiscoveryTypeOK
<1>1. CASE NextRoot
  <2>1. UNCHANGED <<file, replaced, everFile, item, grants, limited>>
    BY <1>1 DEF NextRoot
  <2>2. CASE roots = <<>>
    BY <1>1, <2>1, <2>2 DEF NextRoot, DiscoveryTypeOK, Shape
  <2>3. CASE roots # <<>>
    <3> DEFINE fr == Frame("executable", Head(roots).mode, <<Head(roots).item>>)
    <3>1. Head(roots) \in [mode : Modes, item : PlainItem]
          /\ Tail(roots) \in Seq([mode : Modes, item : PlainItem])
      BY <1>0, <2>3, SeqTail
    <3>2. Head(roots).item \in Item /\ Head(roots).mode \in Modes
      BY <3>1, PlainTyped
    <3>3. fr \in Frames /\ fr.of = "executable"
      BY <3>2 DEF Frame, Frames
    <3>4. stack' = <<fr>> /\ roots' = Tail(roots) /\ visited' = {} /\ dpc' = "next"
      BY <1>1, <2>3 DEF NextRoot
    <3> HIDE DEF fr
    <3>5. /\ <<fr>> \in Seq(Frames) /\ <<fr>> # <<>>
          /\ \A k \in DOMAIN <<fr>> : <<fr>>[k] = fr
      BY <3>3
    <3>6. DiscoveryTypeOK'
      BY <2>1, <3>1, <3>4, <3>5 DEF DiscoveryTypeOK
    <3>7. Shape'
      BY <3>3, <3>4, <3>5 DEF Shape
    <3> QED BY <3>6, <3>7
  <2> QED BY <2>2, <2>3
<1>2. CASE Take
  <2>0. dpc = "next" /\ stack # <<>>
    BY <1>2 DEF Take, Shape
  <2>t. /\ Top \in Frames /\ Top = stack[1] /\ Top.todo \in Seq(Item)
        /\ Tail(stack) \in Seq(Frames) /\ 1 \in DOMAIN stack
    BY <1>0, <2>0, TopTyped
  <2>1. /\ stack' \in Seq(Frames)
        /\ \A k \in DOMAIN stack' :
             stack'[k].of = "search" => stack'[k].mode = "Auto" /\ SearchItems(stack'[k].todo)
    BY <1>2, <2>0, TakeMoves, StackShaped
  <2>2. UNCHANGED <<file, replaced, everFile, roots, visited, grants, limited>>
    BY <1>2 DEF Take
  <2>3. /\ item' \in Item /\ dpc' \in {"root", "next", "stat", "open", "failed"}
        /\ dpc' \in {"next", "stat", "open"} => stack' # <<>>
        /\ dpc' \in {"stat", "open"} =>
             item'.kind = "path" /\ (stack'[1].of = "search" => item'.env = <<>>)
    <3>1. CASE Top.todo = <<>>
      <4>1. item' = item /\ stack' = Tail(stack)
            /\ dpc' = IF Len(stack) = 1 THEN "root" ELSE "next"
        BY <1>2, <3>1 DEF Take
      <4>2. Len(stack) # 1 => Tail(stack) # <<>>
        BY <1>0, <2>0, SeqTail
      <4> QED BY <1>0, <4>1, <4>2
    <3>2. CASE Top.todo # <<>>
      <4> DEFINE it == Head(Top.todo)
                 f == [Top EXCEPT !.todo = Tail(@)]
                 frames == <<f>> \o Tail(stack)
      <4>1. it \in Item /\ Tail(Top.todo) \in Seq(Item) /\ 1 \in DOMAIN Top.todo
            /\ it = Top.todo[1]
        BY <2>t, <3>2
      <4>2. f \in Frames /\ f.of = Top.of
        BY <2>t, <4>1 DEF Frames
      <4>3. frames \in Seq(Frames) /\ frames # <<>> /\ frames[1] = f
        BY <1>0, <2>0, <4>2, Retop
      <4> HIDE DEF f, frames, it
      <4>4. /\ item' = it
            /\ \/ it.kind = "cmd" /\ Search(frames, it)
               \/ /\ it.kind = "path" /\ stack' = frames
                  /\ dpc' \in {"stat", "open"}
               \/ stack' = frames /\ dpc' = "next"
               \/ Error(frames)
        BY <1>2, <3>2 DEF Take, it, frames, f
      <4>5. Top.of = "search" => it.env = <<>>
        BY <2>t, <4>1 DEF Shape, SearchItems
      <4>6. CASE Error(frames)
        BY <4>1, <4>3, <4>4, <4>6, ErrorEnds
      <4>7. CASE /\ it.kind = "path" /\ stack' = frames
                 /\ dpc' \in {"stat", "open"}
        BY <4>1, <4>2, <4>3, <4>4, <4>5, <4>7
      <4>8. CASE stack' = frames /\ dpc' = "next"
        BY <4>1, <4>3, <4>4, <4>8
      <4>9. CASE it.kind = "cmd" /\ Search(frames, it)
        <5>1. CASE Error(frames)
          BY <4>6, <5>1
        <5>2. CASE /\ stack' = <<Frame("search", "Auto", AsItems(it.to, it.ctx))>> \o frames
                   /\ dpc' = "next"
          BY <4>1, <4>3, <4>4, <5>2
        <5> QED BY <4>9, <5>1, <5>2 DEF Search
      <4> QED BY <4>4, <4>6, <4>7, <4>8, <4>9
    <3> QED BY <3>1, <3>2
  <2>4. dpc' \in {"stat", "open"} => Top' = stack'[1]
    BY <2>1, <2>3 DEF Top
  <2> QED BY <2>1, <2>2, <2>3, <2>4 DEF DiscoveryTypeOK, Shape
<1>3. CASE Stat
  <2>1. dpc = "stat" /\ dpc' \in {"next", "open"}
        /\ UNCHANGED <<file, replaced, everFile, roots, stack, item, visited, grants, limited>>
    BY <1>3 DEF Stat
  <2> QED BY <2>1 DEF DiscoveryTypeOK, Shape, Top
<1>4. CASE Open
  <2>0. dpc = "open" /\ stack # <<>> /\ item.kind = "path"
    BY <1>4 DEF Open, Shape
  <2>1. /\ stack' \in Seq(Frames)
        /\ \A k \in DOMAIN stack' :
             stack'[k].of = "search" => stack'[k].mode = "Auto" /\ SearchItems(stack'[k].todo)
    BY <1>4, <2>0, OpenMoves, StackShaped
  <2>2. UNCHANGED <<file, replaced, everFile, roots, item>>
    BY <1>4 DEF Open
  <2>3. item.to \in Names /\ item.ctx \in Contexts
    BY <1>0, <2>0, ItemTyped
  <2>4. visited' \subseteq Names \X Contexts /\ DOMAIN grants' \subseteq Names
        /\ limited' \in BOOLEAN
    <3>1. visited' = visited \/ visited' = visited \cup {<<item.to, item.ctx>>}
      BY <1>4 DEF Open, Insert
    <3>2. grants' = grants \/ DOMAIN grants' = DOMAIN grants \cup {item.to}
      BY <1>4 DEF Open, Insert
    <3>3. limited' = limited \/ limited' = TRUE
      BY <1>4 DEF Open, Insert
    <3>4. limited \in BOOLEAN
      BY DEF DiscoveryTypeOK
    <3>5. visited' \subseteq Names \X Contexts
      BY <1>0, <2>3, <3>1
    <3>6. DOMAIN grants' \subseteq Names
      BY <1>0, <2>3, <3>2
    <3> QED BY <3>3, <3>4, <3>5, <3>6
  <2>5. dpc' \in {"next", "failed"} /\ (dpc' = "next" => stack' # <<>>)
    <3>1. CASE Error(stack)
      BY <1>0, <2>0, <3>1, ErrorEnds
    <3>2. CASE stack' = stack /\ dpc' = "next"
      BY <2>0, <3>2
    <3>3. ASSUME NEW i
          PROVE  WithEnv(stack, i) \in Seq(Frames) /\ WithEnv(stack, i) # <<>>
      <4>1. PICK f : Moved(f) /\ WithEnv(stack, i) = <<f>> \o Tail(stack)
        BY <2>0, EnvMoves
      <4> QED BY <1>0, <2>0, <4>1, Retop DEF Moved
    <3> DEFINE i == file[item.to]
    <3>4. CASE stack' = WithEnv(stack, i) /\ dpc' = "next"
      BY <3>3, <3>4
    <3>5. CASE /\ stack' = <<Frame("executable", Top.mode, Interps(i, item.ctx))>>
                              \o WithEnv(stack, i)
               /\ dpc' = "next"
      BY <3>3, <3>5
    <3>6. \/ stack' = stack /\ dpc' = "next"
          \/ Error(stack)
          \/ stack' = WithEnv(stack, i) /\ dpc' = "next"
          \/ /\ stack' = <<Frame("executable", Top.mode, Interps(i, item.ctx))>>
                              \o WithEnv(stack, i)
             /\ dpc' = "next"
      BY <1>4 DEF Open, Insert
    <3> QED BY <3>1, <3>2, <3>4, <3>5, <3>6
  <2> QED BY <2>1, <2>2, <2>4, <2>5 DEF DiscoveryTypeOK, Shape
<1>5. CASE DiscoveryEnvironment
  <2>1. PICK n \in Names, i \in Inodes \cup {NoInode} : Replace(n, i)
    BY <1>5 DEF DiscoveryEnvironment
  <2>2. UNCHANGED <<roots, stack, item, visited, grants, dpc, limited>>
    BY <2>1 DEF Replace
  <2>3. file' \in [Names -> Inodes \cup {NoInode}] /\ replaced' \in 0..MaxReplaced
    BY <2>1, DiscoveryAssumption DEF Replace, DiscoveryTypeOK
  <2>4. everFile' \in [Names -> SUBSET Inodes]
    BY <2>1 DEF Replace, DiscoveryTypeOK
  <2> QED BY <2>2, <2>3, <2>4 DEF DiscoveryTypeOK, Shape, Top
<1>6. CASE UNCHANGED discoveryVars
  BY <1>6 DEF discoveryVars, DiscoveryTypeOK, Shape, Top
<1> QED BY <1>1, <1>2, <1>3, <1>4, <1>5, <1>6 DEF Discover

-----------------------------------------------------------------------------
(* How deep the discovery may nest.                                        *)

\* A frame of an executable was paid for by a visit, and carries at most one
\* list of candidates.
NestInv ==
    /\ IsFiniteSet(visited)
    /\ stack # <<>> =>
         \E m \in Nat : /\ m <= MaxVisits /\ m <= Cardinality(visited)
                        /\ Len(stack) <= 2 * m + IF Top.of = "search" THEN 2 ELSE 1

LEMMA NestGrows ==
  ASSUME DiscoveryTypeOK, Shape, NestInv, stack # <<>>, StackMove,
         visited' = visited \/ \E key : visited' = visited \cup {key}
  PROVE  NestInv'
<1>0. stack \in Seq(Frames)
  BY DEF DiscoveryTypeOK
<1>t. /\ Top \in Frames /\ Top = stack[1] /\ Len(stack) \in Nat /\ Len(stack) >= 1
      /\ Tail(stack) \in Seq(Frames) /\ Len(Tail(stack)) = Len(stack) - 1
  BY <1>0, TopTyped, SeqTail
<1>v. /\ IsFiniteSet(visited') /\ Cardinality(visited) \in Nat
      /\ Cardinality(visited') \in Nat /\ Cardinality(visited) <= Cardinality(visited')
      /\ visited \subseteq visited' /\ IsFiniteSet(visited) /\ MaxVisits \in Nat
  <2>1. IsFiniteSet(visited) /\ visited \subseteq visited'
    BY DEF NestInv
  <2>2. IsFiniteSet(visited')
    BY <2>1, FS_AddElement
  <2> QED BY <2>1, <2>2, FS_Subset, FS_CardinalityType, DiscoveryAssumption
<1>m. PICK m \in Nat : /\ m <= MaxVisits /\ m <= Cardinality(visited)
                       /\ Len(stack) <= 2 * m + IF Top.of = "search" THEN 2 ELSE 1
  BY DEF NestInv
<1>1. CASE stack' = Tail(stack)
  <2>1. Len(stack') <= 2 * m + 1
    BY <1>1, <1>t, <1>m
  <2>2. stack' # <<>> =>
         \E mm \in Nat : /\ mm <= MaxVisits /\ mm <= Cardinality(visited')
                        /\ Len(stack') <= 2 * mm + IF Top'.of = "search" THEN 2 ELSE 1
    <3>1. Len(stack') <= 2 * m + IF Top'.of = "search" THEN 2 ELSE 1
      BY <1>1, <1>t, <2>1
    <3> QED BY <1>v, <1>m, <3>1
  <2> QED BY <1>v, <2>2 DEF NestInv
<1>2. ASSUME NEW f, Moved(f), stack' = <<f>> \o Tail(stack)
      PROVE  NestInv'
  <2>1. Len(stack') = Len(stack) /\ Top'.of = Top.of
    BY <1>0, <1>2, Retop DEF Moved, Top
  <2> QED BY <1>v, <1>m, <2>1 DEF NestInv
<1>3. ASSUME NEW f, NEW g, Grown(f, g)
      PROVE  NestInv'
  <2> DEFINE s == <<f>> \o Tail(stack)
  <2>1. s \in Seq(Frames) /\ Len(s) = Len(stack)
    BY <1>0, <1>3, Retop DEF Grown, Moved
  <2>2. g \in Frames /\ stack' = <<g>> \o s
    BY <1>3 DEF Grown
  <2> HIDE DEF s
  <2>3. Len(stack') = Len(stack) + 1 /\ Top' = g
    BY <2>1, <2>2, Pushed DEF Top
  <2>4. CASE Searched(g)
    <3>1. Len(stack') <= 2 * m + IF Top'.of = "search" THEN 2 ELSE 1
      BY <1>m, <1>t, <2>3, <2>4 DEF Searched
    <3> QED BY <1>v, <1>m, <3>1 DEF NestInv
  <2>5. CASE Followed(g)
    <3>1. Cardinality(visited') = Cardinality(visited) + 1
      BY <1>v, <2>5, FS_AddElement DEF Followed
    <3>2. Cardinality(visited') <= MaxVisits
      BY <1>v, <2>5 DEF Followed
    <3>3. /\ m + 1 \in Nat /\ m + 1 <= MaxVisits /\ m + 1 <= Cardinality(visited')
      BY <1>m, <1>v, <3>1, <3>2
    <3>4. Len(stack') <= 2 * (m + 1) + IF Top'.of = "search" THEN 2 ELSE 1
      BY <1>m, <1>t, <2>3, <2>5 DEF Followed
    <3> QED BY <1>v, <3>3, <3>4 DEF NestInv
  <2> QED BY <1>3, <2>4, <2>5 DEF Grown
<1> QED BY <1>1, <1>2, <1>3 DEF StackMove

LEMMA NestStep ==
  ASSUME DiscoveryTypeOK, Shape, NestInv,
         Discover \/ DiscoveryEnvironment \/ UNCHANGED discoveryVars
  PROVE  NestInv'
<1>1. CASE NextRoot
  <2>1. CASE roots = <<>>
    BY <1>1, <2>1 DEF NextRoot, NestInv, Top
  <2>2. CASE roots # <<>>
    <3> DEFINE fr == Frame("executable", Head(roots).mode, <<Head(roots).item>>)
    <3>1. stack' = <<fr>> /\ visited' = {} /\ fr.of = "executable"
      BY <1>1, <2>2 DEF NextRoot, Frame
    <3> HIDE DEF fr
    <3>2. Len(stack') = 1 /\ Top' = fr
      BY <3>1 DEF Top
    <3>3. IsFiniteSet(visited') /\ Cardinality(visited') = 0
      BY <3>1, FS_EmptySet
    <3>4. 0 \in Nat /\ 0 <= MaxVisits /\ 0 <= Cardinality(visited')
          /\ Len(stack') <= 2 * 0 + IF Top'.of = "search" THEN 2 ELSE 1
      BY <3>1, <3>2, <3>3, DiscoveryAssumption
    <3> QED BY <3>3, <3>4 DEF NestInv
  <2> QED BY <2>1, <2>2
<1>2. CASE Take
  <2>1. stack # <<>> /\ UNCHANGED visited
    BY <1>2 DEF Take, Shape
  <2> QED BY <1>2, <2>1, TakeMoves, NestGrows
<1>3. CASE Open
  <2>1. stack # <<>>
    BY <1>3 DEF Open, Shape
  <2>2. visited' = visited \/ visited' = visited \cup {<<item.to, item.ctx>>}
    BY <1>3 DEF Open, Insert
  <2> QED BY <1>3, <2>1, <2>2, OpenMoves, NestGrows
<1>4. CASE UNCHANGED <<stack, visited>>
  BY <1>4 DEF NestInv, Top
<1> QED
  BY <1>1, <1>2, <1>3, <1>4 DEF Discover, Stat, DiscoveryEnvironment, Replace, discoveryVars

LEMMA NestEnds == NestInv /\ DiscoveryTypeOK => NestingBounded
<1> SUFFICES ASSUME NestInv, DiscoveryTypeOK PROVE NestingBounded
  OBVIOUS
<1>0. MaxVisits \in Nat
  BY DiscoveryAssumption
<1>1. CASE stack = <<>>
  BY <1>0, <1>1 DEF NestingBounded
<1>2. CASE stack # <<>>
  <2>1. PICK m \in Nat : /\ m <= MaxVisits
                         /\ Len(stack) <= 2 * m + IF Top.of = "search" THEN 2 ELSE 1
    BY <1>2 DEF NestInv
  <2>2. Len(stack) \in Nat
    BY DEF DiscoveryTypeOK
  <2> QED BY <1>0, <2>1, <2>2 DEF NestingBounded
<1> QED BY <1>1, <1>2

-----------------------------------------------------------------------------
(* What is granted was there, and could be executed or was listed.         *)

\* What this run's options name: a path they name strictly is listed.
RootOf(mode, it) ==
    /\ it \in PlainItem
    /\ mode = "Strict" /\ it.kind = "path" => it.to \in listed

\* The lowest frame is a root's, and asks for the root alone.
RootFrame(f) == \A j \in DOMAIN f.todo : RootOf(f.mode, f.todo[j])

RootInv ==
    /\ \A k \in DOMAIN roots : RootOf(roots[k].mode, roots[k].item)
    /\ stack # <<>> => RootFrame(stack[Len(stack)])
    /\ Len(stack) = 1 /\ dpc \in {"stat", "open"} => RootOf(Top.mode, item)

PinInv ==
    /\ \A n \in Names : file[n] # NoInode => file[n] \in everFile[n]
    /\ \A n \in DOMAIN grants :
         /\ grants[n] \in everFile[n] /\ Type[grants[n]] # "special"
         /\ IsExecutable(grants[n]) \/ n \in listed

LEMMA RootStays ==
  ASSUME DiscoveryTypeOK, Shape, RootInv, stack # <<>>, StackMove, UNCHANGED roots
  PROVE  stack' # <<>> => RootFrame(stack'[Len(stack')])
<1>0. stack \in Seq(Frames)
  BY DEF DiscoveryTypeOK
<1>t. /\ Top \in Frames /\ Top = stack[1] /\ Len(stack) \in Nat /\ Len(stack) >= 1
      /\ Top.todo \in Seq(Item)
      /\ Tail(stack) \in Seq(Frames) /\ Len(Tail(stack)) = Len(stack) - 1
      /\ \A k \in 1..(Len(stack) - 1) : Tail(stack)[k] = stack[k + 1]
  BY <1>0, TopTyped, SeqTail
<1>b. RootFrame(stack[Len(stack)])
  BY DEF RootInv
<1>1. CASE stack' = Tail(stack)
  <2>1. ASSUME stack' # <<>> PROVE RootFrame(stack'[Len(stack')])
    <3>1. Len(stack') \in 1..(Len(stack) - 1)
      BY <1>1, <1>t, <2>1
    <3>2. stack'[Len(stack')] = stack[Len(stack)]
      BY <1>1, <1>t, <3>1
    <3> QED BY <1>b, <3>2
  <2> QED BY <2>1
<1>2. ASSUME NEW f, Moved(f)
      PROVE  LET t == <<f>> \o Tail(stack)
             IN  t \in Seq(Frames) /\ Len(t) = Len(stack) /\ RootFrame(t[Len(t)])
  <2> DEFINE t == <<f>> \o Tail(stack)
  <2>1. /\ t \in Seq(Frames) /\ Len(t) = Len(stack) /\ t[1] = f
        /\ \A k \in 2..Len(stack) : t[k] = stack[k]
    BY <1>0, <1>2, Retop DEF Moved
  <2> HIDE DEF t
  <2>2. CASE Len(stack) # 1
    <3>1. Len(stack) \in 2..Len(stack)
      BY <1>t, <2>2
    <3>2. t[Len(t)] = stack[Len(stack)]
      BY <2>1, <3>1
    <3> QED BY <1>b, <2>1, <3>2 DEF t
  <2>3. CASE Len(stack) = 1
    <3>1. RootFrame(Top)
      BY <1>b, <1>t, <2>3
    <3>2. f.mode = Top.mode
      BY <1>2 DEF Moved
    <3>3. ASSUME f.todo = Top.todo PROVE RootFrame(f)
      <4>1. ASSUME NEW j \in DOMAIN f.todo PROVE RootOf(f.mode, f.todo[j])
        <5>1. j \in DOMAIN Top.todo /\ f.todo[j] = Top.todo[j]
          BY <3>3, <4>1
        <5>2. RootOf(Top.mode, Top.todo[j])
          BY <3>1, <5>1 DEF RootFrame
        <5> QED BY <3>2, <5>1, <5>2
      <4> QED BY <4>1 DEF RootFrame
    <3>4. ASSUME Top.todo # <<>>, f.todo = Tail(Top.todo) PROVE RootFrame(f)
      <4>1. /\ Len(Top.todo) \in Nat /\ DOMAIN Top.todo = 1..Len(Top.todo)
            /\ DOMAIN f.todo = 1..(Len(Top.todo) - 1)
            /\ \A k \in 1..(Len(Top.todo) - 1) : f.todo[k] = Top.todo[k + 1]
        BY <1>t, <3>4, SeqTail
      <4>2. ASSUME NEW j \in DOMAIN f.todo PROVE RootOf(f.mode, f.todo[j])
        <5>1. j + 1 \in DOMAIN Top.todo /\ f.todo[j] = Top.todo[j + 1]
          BY <4>1, <4>2
        <5>2. RootOf(Top.mode, Top.todo[j + 1])
          BY <3>1, <5>1 DEF RootFrame
        <5> QED BY <3>2, <5>1, <5>2
      <4> QED BY <4>2 DEF RootFrame
    <3>5. ASSUME dpc = "open", item.env # <<>> PROVE FALSE
      <4>1. RootOf(Top.mode, item)
        BY <2>3, <3>5 DEF RootInv
      <4> QED BY <3>5, <4>1, PlainTyped DEF RootOf
    <3>6. RootFrame(f)
      <4>1. \/ f.todo = Top.todo
            \/ Top.todo # <<>> /\ f.todo = Tail(Top.todo)
            \/ dpc = "open" /\ item.env # <<>>
        BY <1>2 DEF Moved
      <4> QED BY <3>3, <3>4, <3>5, <4>1
    <3> QED BY <2>1, <2>3, <3>6 DEF t
  <2> QED BY <2>2, <2>3
<1>3. ASSUME NEW f, NEW g, Grown(f, g)
      PROVE  RootFrame(stack'[Len(stack')])
  <2> DEFINE s == <<f>> \o Tail(stack)
  <2>1. s \in Seq(Frames) /\ Len(s) = Len(stack) /\ RootFrame(s[Len(s)])
    BY <1>2, <1>3 DEF Grown
  <2>2. g \in Frames /\ stack' = <<g>> \o s
    BY <1>3 DEF Grown
  <2> HIDE DEF s
  <2>3. /\ Len(stack') = Len(s) + 1
        /\ \A k \in 2..Len(s) + 1 : stack'[k] = s[k - 1]
    BY <2>1, <2>2, Pushed
  <2>4. stack'[Len(stack')] = s[Len(s)]
    BY <1>t, <2>1, <2>3
  <2> QED BY <2>1, <2>4
<1> QED BY <1>1, <1>2, <1>3 DEF StackMove

LEMMA RootStep ==
  ASSUME DiscoveryTypeOK, Shape, RootInv, UNCHANGED listed,
         Discover \/ DiscoveryEnvironment \/ UNCHANGED discoveryVars
  PROVE  RootInv'
<1>0. stack \in Seq(Frames) /\ roots \in Seq([mode : Modes, item : PlainItem])
  BY DEF DiscoveryTypeOK
<1>1. CASE NextRoot
  <2>1. CASE roots = <<>>
    BY <1>1, <2>1 DEF NextRoot, RootInv, RootFrame, Top, RootOf
  <2>2. CASE roots # <<>>
    <3> DEFINE fr == Frame("executable", Head(roots).mode, <<Head(roots).item>>)
    <3>1. stack' = <<fr>> /\ roots' = Tail(roots) /\ dpc' = "next"
      BY <1>1, <2>2 DEF NextRoot
    <3>2. /\ Head(roots) = roots[1] /\ 1 \in DOMAIN roots /\ DOMAIN roots = 1..Len(roots)
          /\ DOMAIN Tail(roots) = 1..(Len(roots) - 1) /\ Len(roots) \in Nat
          /\ \A k \in 1..(Len(roots) - 1) : Tail(roots)[k] = roots[k + 1]
      BY <1>0, <2>2, SeqTail
    <3>3. RootOf(Head(roots).mode, Head(roots).item)
      BY <3>2 DEF RootInv
    <3>4. RootFrame(fr)
      BY <3>3 DEF RootFrame, Frame
    <3>5. \A k \in DOMAIN Tail(roots) : RootOf(Tail(roots)[k].mode, Tail(roots)[k].item)
      BY <3>2 DEF RootInv
    <3> HIDE DEF fr
    <3>6. stack'[Len(stack')] = fr
      BY <3>1
    <3> QED BY <3>1, <3>4, <3>5, <3>6 DEF RootInv, RootFrame, RootOf
  <2> QED BY <2>1, <2>2
<1>2. CASE Take
  <2>1. stack # <<>> /\ UNCHANGED roots
    BY <1>2 DEF Take, Shape
  <2>2. stack' # <<>> => RootFrame(stack'[Len(stack')])
    BY <1>2, <2>1, TakeMoves, RootStays
  <2>3. ASSUME Len(stack') = 1, dpc' \in {"stat", "open"}
        PROVE  RootOf(Top'.mode, item')
    <3> DEFINE it == Head(Top.todo)
               f == [Top EXCEPT !.todo = Tail(@)]
               frames == <<f>> \o Tail(stack)
    <3>t. Top \in Frames /\ Top = stack[1] /\ Top.todo \in Seq(Item)
      BY <1>0, <2>1, TopTyped
    <3>1. Top.todo # <<>> /\ item' = it /\ stack' = frames
      BY <1>2, <2>3 DEF Take, Search, Error
    <3>2. it = Top.todo[1] /\ 1 \in DOMAIN Top.todo /\ Tail(Top.todo) \in Seq(Item)
      BY <3>t, <3>1, SeqTail
    <3>3. f \in Frames /\ f.mode = Top.mode
      BY <3>t, <3>2 DEF Frames
    <3> HIDE DEF f, it
    <3>4. Len(frames) = Len(stack) /\ Head(frames) = f
      BY <1>0, <2>1, <3>3, Retop
    <3>5. RootFrame(Top)
      BY <2>1, <2>3, <3>1, <3>4, <3>t DEF RootInv
    <3>6. Top' = f
      BY <3>1, <3>4 DEF Top
    <3> QED BY <3>1, <3>2, <3>3, <3>5, <3>6 DEF RootFrame
  <2> QED BY <2>1, <2>2, <2>3 DEF RootInv, RootFrame, RootOf
<1>3. CASE Open
  <2>1. stack # <<>> /\ UNCHANGED roots
    BY <1>3 DEF Open, Shape
  <2>2. stack' # <<>> => RootFrame(stack'[Len(stack')])
    BY <1>3, <2>1, OpenMoves, RootStays
  <2>3. dpc' \notin {"stat", "open"}
    BY <1>3 DEF Open, Insert, Error
  <2> QED BY <2>1, <2>2, <2>3 DEF RootInv, RootFrame, RootOf
<1>4. CASE UNCHANGED <<roots, stack, item, dpc>>
  BY <1>4 DEF RootInv, RootFrame, RootOf, Top
<1>5. CASE Stat
  <2>1. dpc = "stat" /\ UNCHANGED <<roots, stack, item>>
    BY <1>5 DEF Stat
  <2> QED BY <2>1 DEF RootInv, RootFrame, RootOf, Top
<1> QED
  BY <1>1, <1>2, <1>3, <1>4, <1>5 DEF Discover, DiscoveryEnvironment, Replace, discoveryVars

LEMMA PinStep ==
  ASSUME DiscoveryTypeOK, Shape, RootInv, PinInv, UNCHANGED listed,
         Discover \/ DiscoveryEnvironment \/ UNCHANGED discoveryVars
  PROVE  PinInv'
<1>1. CASE Open
  <2> DEFINE i == file[item.to]
  <2>0. /\ dpc = "open" /\ stack # <<>> /\ stack \in Seq(Frames) /\ item \in Item
        /\ item.kind = "path"
    BY <1>1 DEF Open, Shape, DiscoveryTypeOK
  <2>1. UNCHANGED <<file, everFile>> /\ item.to \in Names
    BY <1>1, <2>0, ItemTyped DEF Open
  <2>2. CASE UNCHANGED grants
    BY <2>1, <2>2 DEF PinInv, IsExecutable
  <2>3. CASE /\ i # NoInode /\ Type[i] # "special" /\ ~Rejected(i) /\ ~Skips(i)
             /\ grants' = [n \in DOMAIN grants \cup {item.to} |->
                             IF n = item.to THEN i ELSE grants[n]]
    <3>1. i \in everFile[item.to]
      BY <2>1, <2>3 DEF PinInv
    <3>2. IsExecutable(i) \/ item.to \in listed
      <4>1. CASE Top.mode = "Auto"
        BY <2>3, <4>1 DEF Skips
      <4>2. CASE Top.mode = "Strict" /\ ~IsExecutable(i)
        <5>1. Len(stack) = 1
          BY <2>3, <4>2 DEF Rejected, AtRoot
        <5>2. RootOf("Strict", item)
          BY <2>0, <4>2, <5>1 DEF RootInv
        <5> QED BY <2>0, <5>2 DEF RootOf
      <4>3. Top.mode \in Modes
        BY <2>0, TopTyped DEF Frames
      <4> QED BY <4>1, <4>2, <4>3 DEF Modes
    <3>3. ASSUME NEW n \in DOMAIN grants'
          PROVE  /\ grants'[n] \in everFile'[n] /\ Type[grants'[n]] # "special"
                 /\ IsExecutable(grants'[n]) \/ n \in listed
      <4>1. CASE n = item.to
        BY <2>1, <2>3, <3>1, <3>2, <4>1
      <4>2. CASE n # item.to
        BY <2>1, <2>3, <4>2 DEF PinInv
      <4> QED BY <4>1, <4>2
    <3> QED BY <2>1, <3>3 DEF PinInv, IsExecutable
  <2> QED BY <1>1, <2>2, <2>3 DEF Open, Insert
<1>2. CASE DiscoveryEnvironment
  <2>1. PICK n \in Names, i \in Inodes \cup {NoInode} : Replace(n, i)
    BY <1>2 DEF DiscoveryEnvironment
  <2>2. /\ file' = [file EXCEPT ![n] = i] /\ file \in [Names -> Inodes \cup {NoInode}]
        /\ everFile' = [everFile EXCEPT ![n] = @ \cup ({i} \ {NoInode})]
        /\ everFile \in [Names -> SUBSET Inodes] /\ UNCHANGED grants
        /\ DOMAIN grants \subseteq Names
    BY <2>1 DEF Replace, DiscoveryTypeOK
  <2>3. \A m \in Names : everFile[m] \subseteq everFile'[m]
    BY <2>2
  <2>4. \A m \in Names : file'[m] # NoInode => file'[m] \in everFile'[m]
    BY <2>2 DEF PinInv
  <2>5. \A m \in DOMAIN grants : grants[m] \in everFile'[m]
    BY <2>2, <2>3 DEF PinInv
  <2> QED BY <2>2, <2>4, <2>5 DEF PinInv, IsExecutable
<1>3. CASE UNCHANGED <<file, everFile, grants>>
  BY <1>3 DEF PinInv, IsExecutable
<1> QED
  BY <1>1, <1>2, <1>3 DEF Discover, NextRoot, Take, Stat, discoveryVars

LEMMA PinEnds == PinInv => OnlyPinned
BY DEF PinInv, OnlyPinned

-----------------------------------------------------------------------------
(* What running the command leads to, and what of it is still to come.  A  *)
(* search through items that may name each other in a circle: H are the    *)
(* items handled, P what the stack still holds of what they ask for.  What *)
(* follows an item that cannot run is never asked for, so dropping the rest*)
(* of a frame with it loses nothing.                                       *)

Faithful == options.exec /\ replaced = 0 /\ ~limited

Pinned(it) ==
    it.kind = "path" /\ IsExecutable(file[it.to]) => it.to \in DOMAIN grants
AskedBy(it) == Asks(it) \cup AsksEnv(it)

\* What was handled is pinned, and asks for nothing that was not or is not
\* going to be.
Covered(H, P) ==
    /\ \A it \in H : Pinned(it) /\ AskedBy(it) \subseteq H \cup P
    /\ command \in H \cup P
Noted(H) == \A key \in visited : PathItem(key[1], key[2]) \in H

Todo(s) == UNION {Reached(s[k].todo) : k \in DOMAIN s}
Rest(it, todo) == {it} \cup (IF Runs(it) THEN Reached(todo) ELSE {})
Pending ==
    IF dpc \in {"stat", "open"}
    THEN Rest(item, Top.todo) \cup Todo(Tail(stack))
    ELSE Todo(stack)

-----------------------------------------------------------------------------

LEMMA Frozen ==
  ASSUME UNCHANGED file
  PROVE  /\ \A it : Asks(it)' = Asks(it) /\ AsksEnv(it)' = AsksEnv(it)
         /\ \A it : AskedBy(it)' = AskedBy(it) /\ Runs(it)' = Runs(it)
         /\ \A s : Reached(s)' = Reached(s) /\ Todo(s)' = Todo(s)
         /\ \A it, s : Rest(it, s)' = Rest(it, s)
<1>1. ASSUME NEW it PROVE AsksEnv(it)' = AsksEnv(it)
  BY DEF AsksEnv, IsExecutable
<1>2. ASSUME NEW it PROVE Runs(it)' = Runs(it)
  BY <1>1 DEF Runs, Starts, IsExecutable
<1>3. ASSUME NEW s PROVE Reached(s)' = Reached(s)
  BY <1>2 DEF Reached
<1>4. ASSUME NEW it PROVE Asks(it)' = Asks(it)
  BY <1>3 DEF Asks, IsExecutable, Candidates
<1>5. ASSUME NEW it PROVE AskedBy(it)' = AskedBy(it)
  BY <1>1, <1>4 DEF AskedBy
<1>6. ASSUME NEW s PROVE Todo(s)' = Todo(s)
  BY <1>3 DEF Todo
<1>7. ASSUME NEW it, NEW s PROVE Rest(it, s)' = Rest(it, s)
  BY <1>2, <1>3 DEF Rest
<1> QED BY <1>1, <1>2, <1>3, <1>4, <1>5, <1>6, <1>7

LEMMA ReachedEmpty == Reached(<<>>) = {} /\ Todo(<<>>) = {}
BY DEF Reached, Todo

LEMMA ReachedFirst ==
  ASSUME NEW s \in Seq(Item), s # <<>>
  PROVE  Reached(s) = Rest(Head(s), Tail(s))
<1> DEFINE t == Tail(s)
           Unblocked(q, k) == \A j \in 1..(k - 1) : Runs(q[j])
<1>1. /\ Head(s) = s[1] /\ 1 \in DOMAIN s /\ Len(s) \in Nat /\ Len(s) >= 1
      /\ DOMAIN s = 1..Len(s) /\ DOMAIN t = 1..(Len(s) - 1)
      /\ \A k \in 1..(Len(s) - 1) : t[k] = s[k + 1]
  BY SeqTail
<1>2. ASSUME NEW q PROVE Reached(q) = {q[k] : k \in {k \in DOMAIN q : Unblocked(q, k)}}
  BY DEF Reached
<1> HIDE DEF t
<1>3. \A k \in DOMAIN t : Unblocked(s, k + 1) <=> Runs(s[1]) /\ Unblocked(t, k)
  <2> TAKE k \in DOMAIN t
  <2>1. ASSUME Unblocked(s, k + 1) PROVE Runs(s[1]) /\ Unblocked(t, k)
    <3>1. Runs(s[1])
      BY <1>1, <2>1
    <3>2. ASSUME NEW j \in 1..(k - 1) PROVE Runs(t[j])
      <4>1. j + 1 \in 1..(k + 1 - 1) /\ t[j] = s[j + 1]
        BY <1>1
      <4> QED BY <2>1, <4>1
    <3> QED BY <3>1, <3>2
  <2>2. ASSUME Runs(s[1]), Unblocked(t, k) PROVE Unblocked(s, k + 1)
    <3> SUFFICES ASSUME NEW j \in 1..(k + 1 - 1) PROVE Runs(s[j])
      OBVIOUS
    <3>1. CASE j = 1
      BY <2>2, <3>1
    <3>2. CASE j # 1
      <4>1. j - 1 \in 1..(k - 1) /\ t[j - 1] = s[j]
        BY <1>1, <3>2
      <4> QED BY <2>2, <4>1
    <3> QED BY <3>1, <3>2
  <2> QED BY <2>1, <2>2
<1>4. Unblocked(s, 1)
  OBVIOUS
<1> HIDE DEF Unblocked
<1>5. ASSUME NEW x \in Reached(s) PROVE x \in Rest(s[1], t)
  <2>1. PICK k \in DOMAIN s : Unblocked(s, k) /\ x = s[k]
    BY <1>2, <1>5
  <2>2. CASE k = 1
    BY <2>1, <2>2 DEF Rest
  <2>3. CASE k # 1
    <3>1. k - 1 \in DOMAIN t /\ t[k - 1] = s[k] /\ (k - 1) + 1 = k
      BY <1>1, <2>1, <2>3
    <3>2. Runs(s[1]) /\ Unblocked(t, k - 1)
      BY <1>3, <2>1, <3>1
    <3>3. x \in Reached(t)
      BY <1>2, <2>1, <3>1, <3>2
    <3> QED BY <3>2, <3>3 DEF Rest
  <2> QED BY <2>2, <2>3
<1>6. ASSUME NEW x \in Rest(s[1], t) PROVE x \in Reached(s)
  <2>1. CASE x = s[1]
    BY <1>1, <1>2, <1>4, <2>1
  <2>2. CASE Runs(s[1]) /\ x \in Reached(t)
    <3>1. PICK k \in DOMAIN t : Unblocked(t, k) /\ x = t[k]
      BY <1>2, <2>2
    <3>2. Unblocked(s, k + 1) /\ k + 1 \in DOMAIN s /\ x = s[k + 1]
      BY <1>1, <1>3, <2>2, <3>1
    <3> QED BY <1>2, <3>2
  <2> QED BY <1>6, <2>1, <2>2 DEF Rest
<1> QED BY <1>1, <1>5, <1>6 DEF t

LEMMA TodoPushed ==
  ASSUME NEW s \in Seq(Frames), NEW f \in Frames
  PROVE  Todo(<<f>> \o s) = Reached(f.todo) \cup Todo(s)
<1> DEFINE t == <<f>> \o s
<1>1. /\ t \in Seq(Frames) /\ Len(t) = Len(s) + 1 /\ t[1] = f
      /\ \A k \in 2..Len(s) + 1 : t[k] = s[k - 1]
  BY Pushed
<1>2. DOMAIN t = 1..(Len(s) + 1) /\ DOMAIN s = 1..Len(s) /\ Len(s) \in Nat
  BY <1>1
<1> HIDE DEF t
<1>3. ASSUME NEW x \in Todo(t) PROVE x \in Reached(f.todo) \cup Todo(s)
  <2>1. PICK k \in DOMAIN t : x \in Reached(t[k].todo)
    BY <1>3 DEF Todo
  <2>2. CASE k = 1
    BY <1>1, <2>1, <2>2
  <2>3. CASE k # 1
    <3>1. k - 1 \in DOMAIN s /\ t[k] = s[k - 1]
      BY <1>1, <1>2, <2>1, <2>3
    <3> QED BY <2>1, <3>1 DEF Todo
  <2> QED BY <2>2, <2>3
<1>4. ASSUME NEW x \in Reached(f.todo) \cup Todo(s) PROVE x \in Todo(t)
  <2>1. CASE x \in Reached(f.todo)
    <3>1. 1 \in DOMAIN t /\ x \in Reached(t[1].todo)
      BY <1>1, <1>2, <2>1
    <3> QED BY <3>1 DEF Todo
  <2>2. CASE x \in Todo(s)
    <3>1. PICK k \in DOMAIN s : x \in Reached(s[k].todo)
      BY <2>2 DEF Todo
    <3>2. k + 1 \in DOMAIN t /\ t[k + 1] = s[k]
      BY <1>1, <1>2, <3>1
    <3> QED BY <3>1, <3>2 DEF Todo
  <2> QED BY <1>4, <2>1, <2>2
<1> QED BY <1>3, <1>4 DEF t

LEMMA TodoTop ==
  ASSUME stack \in Seq(Frames), stack # <<>>
  PROVE  Todo(stack) = Reached(Top.todo) \cup Todo(Tail(stack))
BY TopTyped, TodoPushed

\* Of several candidates each is tried.
LEMMA CandidatesReached ==
  ASSUME NEW it \in Item, it.kind = "cmd"
  PROVE  Asks(it) \subseteq Reached(AsItems(it.to, it.ctx))
<1> DEFINE fs == Found(it.to, it.ctx)
           as == AsItems(it.to, it.ctx)
<1>1. it.to \in Commands /\ it.ctx \in Contexts
  BY ItemTyped
<1>2. fs \in Seq(Names)
  BY <1>1, DiscoveryAssumption
<1>3. DOMAIN as = DOMAIN fs /\ DOMAIN fs = 1..Len(fs) /\ Len(fs) \in Nat
  BY <1>2 DEF AsItems
<1>4. ASSUME NEW k \in DOMAIN fs PROVE Runs(as[k])
  <2>1. CASE k \in Candidates(it.to, it.ctx)
    <3>1. as[k] = PathItem(fs[k], it.ctx) /\ IsExecutable(file[fs[k]])
      BY <2>1 DEF AsItems, Candidates
    <3> QED BY <3>1 DEF Runs, Starts, AsksEnv, PathItem
  <2>2. CASE k \notin Candidates(it.to, it.ctx)
    <3>1. as[k] = Unresolved(it.ctx)
      BY <2>2 DEF AsItems
    <3> QED BY <3>1 DEF Runs, Starts, AsksEnv, Unresolved
  <2> QED BY <2>1, <2>2
<1>5. ASSUME NEW x \in Asks(it) PROVE x \in Reached(as)
  <2>1. PICK k \in Candidates(it.to, it.ctx) : x = PathItem(fs[k], it.ctx)
    BY <1>5 DEF Asks
  <2>2. k \in DOMAIN fs /\ as[k] = x
    BY <2>1 DEF Candidates, AsItems
  <2>3. \A j \in 1..(k - 1) : Runs(as[j])
    BY <1>3, <1>4, <2>2
  <2> HIDE DEF as
  <2> QED BY <1>3, <2>2, <2>3 DEF Reached
<1> QED BY <1>5

\* What env runs comes next.
LEMMA EnvReached ==
  ASSUME DiscoveryTypeOK, Shape, dpc = "open", IsExecutable(file[item.to]),
         EnvTelling(file)
  PROVE  (IF Runs(item) THEN Reached(Top.todo) ELSE {}) \cup AsksEnv(item)
            \cup Todo(Tail(stack))
              \subseteq Todo(WithEnv(stack, file[item.to]))
<1>0. stack # <<>> /\ stack \in Seq(Frames) /\ item \in Item /\ item.kind = "path"
  BY DEF Shape, DiscoveryTypeOK
<1>t. /\ Top \in Frames /\ Top = stack[1] /\ Top.todo \in Seq(Item)
      /\ Tail(stack) \in Seq(Frames)
  BY <1>0, TopTyped
<1>1. CASE item.env = <<>> \/ ~IsEnv(file[item.to])
  <2>1. AsksEnv(item) = {}
    BY <1>0, <1>1 DEF AsksEnv, IsEnv, EnvTelling
  <2>2. WithEnv(stack, file[item.to]) = stack
    BY <1>1 DEF WithEnv
  <2> QED BY <1>0, <2>1, <2>2, TodoTop
<1>2. CASE item.env # <<>> /\ IsEnv(file[item.to])
  <2>1. PICK p \in PlainItem : item.env = <<p>>
    BY <1>0, <1>2, ItemTyped
  <2>p. p \in Item /\ p.env = <<>>
    BY PlainTyped
  <2> DEFINE q == <<p>> \o Top.todo
             f == [stack[1] EXCEPT !.todo = item.env \o @]
  <2>2. f \in Frames /\ f.todo = q
    <3>1. q \in Seq(Item) /\ item.env \o Top.todo = q
      BY <1>t, <2>1, <2>p
    <3> HIDE DEF q
    <3> QED BY <1>t, <3>1 DEF Frames
  <2>3. WithEnv(stack, file[item.to]) = <<f>> \o Tail(stack)
    BY <1>2 DEF WithEnv
  <2>4. q \in Seq(Item) /\ q # <<>> /\ Head(q) = p /\ Tail(q) = Top.todo
    <3>1. q \in Seq(Item) /\ q # <<>> /\ Head(q) = p /\ Len(q) = Len(Top.todo) + 1
          /\ \A k \in 2..Len(Top.todo) + 1 : q[k] = Top.todo[k - 1]
      BY <1>t, <2>p, Pushed
    <3> HIDE DEF q
    <3>2. Tail(q) \in Seq(Item) /\ Len(Tail(q)) = Len(q) - 1
          /\ \A k \in 1..(Len(q) - 1) : Tail(q)[k] = q[k + 1]
      BY <3>1, SeqTail
    <3>3. Len(Top.todo) \in Nat /\ Len(Tail(q)) = Len(Top.todo)
      BY <1>t, <3>1, <3>2
    <3>4. \A k \in 1..Len(Top.todo) : Tail(q)[k] = Top.todo[k]
      BY <3>1, <3>2, <3>3
    <3>5. Tail(q) = Top.todo
      BY <1>t, <3>2, <3>3, <3>4, SeqEqual
    <3> QED BY <3>1, <3>5
  <2> HIDE DEF f, q
  <2>5. Reached(q) = Rest(p, Top.todo)
    BY <2>4, ReachedFirst
  <2>6. AsksEnv(item) = {p}
    BY <1>0, <1>2, <2>1 DEF AsksEnv, IsEnv, EnvTelling
  <2>7. Runs(item) => Runs(p)
    BY <2>6, <2>p DEF Runs, AsksEnv
  <2>8. Todo(WithEnv(stack, file[item.to])) = Reached(q) \cup Todo(Tail(stack))
    BY <1>t, <2>2, <2>3, TodoPushed
  <2> QED BY <2>5, <2>6, <2>7, <2>8 DEF Rest
<1> QED BY <1>1, <1>2

Before ==
    /\ dpc = "root" /\ stack = <<>> /\ lpc = "build"
    /\ roots # <<>> /\ roots[1].mode = "Auto" /\ roots[1].item = command
Failed == dpc = "failed" /\ lpc = "build"
During ==
    /\ dpc \in {"next", "stat", "open"} /\ stack # <<>> /\ lpc = "build"
    /\ \A k \in DOMAIN stack : stack[k].mode = "Auto"
    /\ \E H : Covered(H, Pending) /\ Noted(H)
After == \E H : Covered(H, {})

\* The env that was there is one the code tells apart.
EnvInv == replaced = 0 => EnvTelling(file)

FollowInv == Faithful => Before \/ Failed \/ During \/ After

\* One step: what was pending is handled or still pending.
LEMMA Progress ==
  ASSUME UNCHANGED <<file, command>>, DOMAIN grants \subseteq DOMAIN grants',
         NEW H, Covered(H, Pending), Noted(H), NEW D,
         Pending \subseteq H \cup D \cup Pending',
         \A it \in D : Pinned(it)' /\ AskedBy(it) \subseteq H \cup D \cup Pending',
         \A key \in visited' : key \in visited \/ PathItem(key[1], key[2]) \in D
  PROVE  \E HH : Covered(HH, Pending)' /\ Noted(HH)'
<1>1. ASSUME NEW it \in H PROVE Pinned(it)' /\ AskedBy(it)' \subseteq H \cup D \cup Pending'
  <2>1. Pinned(it)'
    BY DEF Covered, Pinned, IsExecutable
  <2>2. AskedBy(it)' = AskedBy(it)
    BY Frozen
  <2> QED BY <2>2, <2>1 DEF Covered
<1>2. ASSUME NEW it \in D PROVE Pinned(it)' /\ AskedBy(it)' \subseteq H \cup D \cup Pending'
  <2>1. AskedBy(it)' = AskedBy(it)
    BY Frozen
  <2> QED BY <2>1
<1>3. command' \in H \cup D \cup Pending'
  BY DEF Covered
<1> DEFINE HH == H \cup D
<1>4. Covered(HH, Pending)'
  BY <1>1, <1>2, <1>3 DEF Covered
<1>5. Noted(HH)'
  BY DEF Noted
<1> QED BY <1>4, <1>5

LEMMA AutoKept ==
  ASSUME DiscoveryTypeOK, stack # <<>>, StackMove,
         \A k \in DOMAIN stack : stack[k].mode = "Auto"
  PROVE  \A k \in DOMAIN stack' : stack'[k].mode = "Auto"
<1>0. stack \in Seq(Frames)
  BY DEF DiscoveryTypeOK
<1>t. /\ Top \in Frames /\ Top = stack[1] /\ Len(stack) \in Nat /\ Len(stack) >= 1
      /\ DOMAIN stack = 1..Len(stack) /\ DOMAIN Tail(stack) = 1..(Len(stack) - 1)
      /\ \A k \in 1..(Len(stack) - 1) : Tail(stack)[k] = stack[k + 1]
  BY <1>0, TopTyped, SeqTail
<1>1. CASE stack' = Tail(stack)
  BY <1>1, <1>t
<1>2. ASSUME NEW f, Moved(f)
      PROVE  LET t == <<f>> \o Tail(stack)
             IN  /\ t \in Seq(Frames) /\ Len(t) = Len(stack)
                 /\ \A k \in 1..Len(stack) : t[k].mode = "Auto"
  <2> DEFINE t == <<f>> \o Tail(stack)
  <2>1. /\ t \in Seq(Frames) /\ Len(t) = Len(stack) /\ t[1] = f
        /\ \A k \in 2..Len(stack) : t[k] = stack[k]
    BY <1>0, <1>2, Retop DEF Moved
  <2>2. f.mode = "Auto"
    BY <1>2, <1>t DEF Moved
  <2> HIDE DEF t
  <2>3. \A k \in 1..Len(stack) : t[k].mode = "Auto"
    BY <1>t, <2>1, <2>2
  <2> QED BY <2>1, <2>3 DEF t
<1>3. ASSUME NEW f, Moved(f), stack' = <<f>> \o Tail(stack)
      PROVE  \A k \in DOMAIN stack' : stack'[k].mode = "Auto"
  BY <1>2, <1>3
<1>4. ASSUME NEW f, NEW g, Grown(f, g)
      PROVE  \A k \in DOMAIN stack' : stack'[k].mode = "Auto"
  <2> DEFINE s == <<f>> \o Tail(stack)
  <2>1. /\ s \in Seq(Frames) /\ Len(s) = Len(stack)
        /\ \A k \in 1..Len(stack) : s[k].mode = "Auto"
    BY <1>2, <1>4 DEF Grown
  <2>2. g \in Frames /\ stack' = <<g>> \o s /\ g.mode = "Auto"
    <3>1. Top.mode = "Auto"
      BY <1>t
    <3> QED BY <1>4, <3>1 DEF Grown, Searched, Followed
  <2> HIDE DEF s
  <2>3. /\ stack' \in Seq(Frames) /\ Len(stack') = Len(s) + 1 /\ stack'[1] = g
        /\ \A k \in 2..Len(s) + 1 : stack'[k] = s[k - 1]
    BY <2>1, <2>2, Pushed
  <2> QED BY <1>t, <2>1, <2>2, <2>3
<1> QED BY <1>1, <1>3, <1>4 DEF StackMove

LEMMA PendingRoot ==
  ASSUME DiscoveryTypeOK, dpc = "next", stack # <<>>
  PROVE  Pending = Reached(Top.todo) \cup Todo(Tail(stack))
BY TodoTop DEF Pending, DiscoveryTypeOK

LEMMA TakeFollows ==
  ASSUME DiscoveryTypeOK, Shape, During, Take, UNCHANGED <<lpc, command>>
  PROVE  During' \/ After'
<1>0. /\ dpc = "next" /\ stack # <<>> /\ stack \in Seq(Frames)
      /\ UNCHANGED <<file, visited, grants>>
  BY DEF Take, Shape, DiscoveryTypeOK
<1>t. /\ Top \in Frames /\ Top = stack[1] /\ Top.todo \in Seq(Item)
      /\ Tail(stack) \in Seq(Frames) /\ Len(stack) \in Nat /\ Top.mode = "Auto"
      /\ Len(stack) = 1 <=> Tail(stack) = <<>>
  BY <1>0, TopTyped, SeqTail DEF During
<1>a. \A k \in DOMAIN stack' : stack'[k].mode = "Auto"
  BY <1>0, TakeMoves, AutoKept DEF During
<1>d. DiscoveryTypeOK'
  BY DiscoveryTyped DEF Discover
<1>h. PICK H : Covered(H, Pending) /\ Noted(H)
  BY DEF During
<1>p. Pending = Reached(Top.todo) \cup Todo(Tail(stack))
  BY <1>0, PendingRoot
<1>f. /\ \A s : Todo(s)' = Todo(s) /\ Reached(s)' = Reached(s)
      /\ \A it, s : Rest(it, s)' = Rest(it, s)
  BY <1>0, Frozen
\* It is enough to say what was handled.
<1>e. ASSUME NEW D, Pending \subseteq D \cup Pending',
             \A it \in D : Pinned(it)' /\ AskedBy(it) \subseteq Pending'
      PROVE  \E HH : Covered(HH, Pending)' /\ Noted(HH)'
  BY <1>0, <1>e, <1>h, Progress
<1>1. CASE Top.todo = <<>>
  <2>1. stack' = Tail(stack) /\ dpc' = IF Len(stack) = 1 THEN "root" ELSE "next"
    BY <1>1 DEF Take
  <2>2. Pending = Todo(Tail(stack))
    BY <1>1, <1>p, ReachedEmpty
  <2>3. Pending' = Todo(Tail(stack))
    BY <1>f, <2>1 DEF Pending
  <2>4. PICK HH : Covered(HH, Pending)' /\ Noted(HH)'
    <3>1. PICK D : D = {}
      OBVIOUS
    <3>2. /\ Pending \subseteq D \cup Pending'
          /\ \A x \in D : Pinned(x)' /\ AskedBy(x) \subseteq Pending'
      BY <2>2, <2>3, <3>1
    <3> QED BY <1>e, <3>2
  <2>5. CASE Len(stack) = 1
    <3>1. Pending' = {}
      BY <1>t, <2>3, <2>5, ReachedEmpty
    <3>2. Covered(HH, {})'
      BY <2>4, <3>1 DEF Covered
    <3> QED BY <3>2 DEF After
  <2>6. CASE Len(stack) # 1
    <3>1. stack' # <<>> /\ dpc' = "next" /\ lpc' = "build"
      BY <1>t, <2>1, <2>6 DEF During
    <3> QED BY <1>a, <2>4, <3>1 DEF During
  <2> QED BY <2>5, <2>6
<1>2. CASE Top.todo # <<>>
  <2> DEFINE it == Head(Top.todo)
             f == [Top EXCEPT !.todo = Tail(@)]
             frames == <<f>> \o Tail(stack)
  <2>1. it \in Item /\ Tail(Top.todo) \in Seq(Item)
    BY <1>t, <1>2, SeqTail
  <2>2. f \in Frames /\ f.of = Top.of /\ f.mode = "Auto" /\ f.todo = Tail(Top.todo)
    BY <1>t, <2>1 DEF Frames
  <2>3. frames \in Seq(Frames) /\ frames # <<>> /\ Head(frames) = f
        /\ Tail(frames) = Tail(stack)
    BY <1>0, <2>2, Retop
  <2>4. Todo(frames) = Reached(f.todo) \cup Todo(Tail(stack))
    BY <1>t, <2>2, TodoPushed
  <2>5. Pending = Rest(it, f.todo) \cup Todo(Tail(stack))
    BY <1>t, <1>p, <1>2, <2>2, ReachedFirst
  <2> HIDE DEF f, it, frames
  <2>6. lpc' = "build"
    BY DEF During
  <2>7. CASE it.kind = "path" /\ stack' = frames /\ dpc' = "stat" /\ item' = it
    <3>1. Top' = f
      BY <2>3, <2>7 DEF Top
    <3>2. Pending' = Rest(it, f.todo) \cup Todo(Tail(stack))
      BY <1>f, <2>3, <2>7, <3>1 DEF Pending
    <3>d. PICK D : D = {}
      OBVIOUS
    <3>3. /\ Pending \subseteq D \cup Pending'
          /\ \A x \in D : Pinned(x)' /\ AskedBy(x) \subseteq Pending'
      BY <2>5, <3>2, <3>d
    <3>4. \E HH : Covered(HH, Pending)' /\ Noted(HH)'
      BY <1>e, <3>3
    <3> QED BY <1>a, <2>3, <2>6, <2>7, <3>4 DEF During
  <2>8. CASE it.kind = "none" /\ stack' = frames /\ dpc' = "next"
    <3>1. Pending' = Reached(f.todo) \cup Todo(Tail(stack))
      BY <1>f, <2>4, <2>8 DEF Pending
    <3>2. PICK D : D = {it}
      OBVIOUS
    <3>3. Pending \subseteq D \cup Pending'
      BY <2>5, <3>1, <3>2 DEF Rest
    <3>4. \A x \in D : Pinned(x)' /\ AskedBy(x) \subseteq Pending'
      BY <2>8, <3>2 DEF Pinned, AskedBy, Asks, AsksEnv
    <3>5. \E HH : Covered(HH, Pending)' /\ Noted(HH)'
      BY <1>e, <3>3, <3>4
    <3> QED BY <1>a, <2>3, <2>6, <2>8, <3>5 DEF During
  <2>9. CASE /\ it.kind = "cmd" /\ dpc' = "next"
             /\ stack' = <<Frame("search", "Auto", AsItems(it.to, it.ctx))>> \o frames
    <3> DEFINE g == Frame("search", "Auto", AsItems(it.to, it.ctx))
    <3>1. AsItems(it.to, it.ctx) \in Seq(Item)
      BY <2>1, <2>9, ItemTyped, FoundTyped
    <3>2. g \in Frames /\ g.todo = AsItems(it.to, it.ctx)
      BY <3>1 DEF Frame, Frames, Modes
    <3>3. Todo(<<g>> \o frames) = Reached(g.todo) \cup Todo(frames)
      BY <2>3, <3>2, TodoPushed
    <3>4. stack' = <<g>> \o frames /\ stack' # <<>>
      BY <2>3, <2>9, <3>2, Pushed
    <3> HIDE DEF g
    <3>5. Pending' = Reached(g.todo) \cup Reached(f.todo) \cup Todo(Tail(stack))
      BY <1>f, <2>4, <2>9, <3>3, <3>4 DEF Pending
    <3>6. PICK D : D = {it}
      OBVIOUS
    <3>7. Pending \subseteq D \cup Pending'
      BY <2>5, <3>5, <3>6 DEF Rest
    <3>8. \A x \in D : Pinned(x)' /\ AskedBy(x) \subseteq Pending'
      <4>1. Asks(it) \subseteq Reached(g.todo)
        BY <2>1, <2>9, <3>2, CandidatesReached
      <4>2. AsksEnv(it) = {}
        BY <2>9 DEF AsksEnv
      <4>3. ASSUME NEW x \in D PROVE Pinned(x)'
        BY <2>9, <3>6, <4>3 DEF Pinned
      <4> QED BY <3>5, <3>6, <4>1, <4>2, <4>3 DEF AskedBy
    <3>9. \E HH : Covered(HH, Pending)' /\ Noted(HH)'
      BY <1>e, <3>7, <3>8
    <3> QED BY <1>a, <2>6, <2>9, <3>4, <3>9 DEF During
  <2>10. \/ it.kind = "path" /\ stack' = frames /\ dpc' = "stat" /\ item' = it
         \/ it.kind = "none" /\ stack' = frames /\ dpc' = "next"
         \/ /\ it.kind = "cmd" /\ dpc' = "next"
            /\ stack' = <<Frame("search", "Auto", AsItems(it.to, it.ctx))>> \o frames
    BY <1>t, <1>2 DEF Take, Search, it, f, frames
  <2> QED BY <2>7, <2>8, <2>9, <2>10
<1> QED BY <1>1, <1>2

LEMMA StatFollows ==
  ASSUME DiscoveryTypeOK, Shape, During, Stat, UNCHANGED <<lpc, command>>
  PROVE  During'
<1>0. /\ dpc = "stat" /\ stack # <<>> /\ stack \in Seq(Frames) /\ item.kind = "path"
      /\ UNCHANGED <<file, visited, grants, stack, item>>
  BY DEF Stat, Shape, DiscoveryTypeOK
<1>h. PICK H : Covered(H, Pending) /\ Noted(H)
  BY DEF During
<1>f. /\ \A s : Todo(s)' = Todo(s) /\ Reached(s)' = Reached(s)
      /\ \A it, s : Rest(it, s)' = Rest(it, s)
  BY <1>0, Frozen
<1>p. Pending = Rest(item, Top.todo) \cup Todo(Tail(stack))
  BY <1>0 DEF Pending
<1>t. Top' = Top
  BY <1>0 DEF Top
<1>e. ASSUME NEW D, Pending \subseteq D \cup Pending', dpc' \in {"next", "open"},
             \A it \in D : Pinned(it)' /\ AskedBy(it) \subseteq Pending'
      PROVE  During'
  <2>1. \E HH : Covered(HH, Pending)' /\ Noted(HH)'
    BY <1>0, <1>e, <1>h, Progress
  <2> QED BY <1>0, <1>e, <2>1 DEF During
<1>1. CASE dpc' = "open"
  <2>1. Pending' = Pending
    BY <1>0, <1>1, <1>f, <1>p, <1>t DEF Pending
  <2>2. PICK D : D = {}
    OBVIOUS
  <2>3. /\ Pending \subseteq D \cup Pending'
        /\ \A x \in D : Pinned(x)' /\ AskedBy(x) \subseteq Pending'
    BY <2>1, <2>2
  <2> QED BY <1>1, <1>e, <2>3
<1>2. CASE dpc' = "next" /\ ~IsExecutable(file[item.to])
  <2>1. Pending' = Reached(Top.todo) \cup Todo(Tail(stack))
    BY <1>0, <1>2, <1>f, <1>t, TodoTop DEF Pending
  <2>2. PICK D : D = {item}
    OBVIOUS
  <2>3. Pending \subseteq D \cup Pending'
    BY <1>p, <2>1, <2>2 DEF Rest
  <2>4. ASSUME NEW x \in D PROVE Pinned(x)' /\ AskedBy(x) \subseteq Pending'
    BY <1>0, <1>2, <2>2 DEF Pinned, AskedBy, Asks, AsksEnv, IsExecutable
  <2> QED BY <1>2, <1>e, <2>3, <2>4
<1> QED BY <1>1, <1>2 DEF Stat, Missing, IsExecutable

LEMMA OpenFollows ==
  ASSUME DiscoveryTypeOK, Shape, During, Open, UNCHANGED <<lpc, command>>, ~limited',
         EnvTelling(file)
  PROVE  During' \/ Failed'
<1> DEFINE i == file[item.to]
           key == <<item.to, item.ctx>>
           path == PathItem(item.to, item.ctx)
<1>0. /\ dpc = "open" /\ stack # <<>> /\ stack \in Seq(Frames) /\ item \in Item
      /\ item.kind = "path" /\ lpc' = "build"
      /\ UNCHANGED <<file, item>>
  BY DEF Open, Shape, DiscoveryTypeOK, During
<1>t. /\ Top \in Frames /\ Top = stack[1] /\ Top.mode = "Auto"
      /\ Tail(stack) \in Seq(Frames) /\ 1 \in DOMAIN stack
  BY <1>0, TopTyped DEF During
<1>h. PICK H : Covered(H, Pending) /\ Noted(H)
  BY DEF During
<1>f. \A s : Todo(s)' = Todo(s)
  BY <1>0, Frozen
<1>p. Pending = Rest(item, Top.todo) \cup Todo(Tail(stack))
  BY <1>0 DEF Pending
<1>q. dpc' = "next" => Pending' = Todo(stack')
  BY <1>f DEF Pending
<1>a. \A k \in DOMAIN stack' : stack'[k].mode = "Auto"
  BY <1>0, OpenMoves, AutoKept DEF During
<1>s. dpc' = "next" => stack' # <<>>
  BY DiscoveryTyped DEF Discover, Shape
<1>g. DOMAIN grants \subseteq DOMAIN grants'
  BY DEF Open, Insert
<1>e. ASSUME NEW D, Pending \subseteq H \cup D \cup Pending', dpc' = "next",
             \A it \in D : Pinned(it)' /\ AskedBy(it) \subseteq H \cup D \cup Pending',
             \A k \in visited' : k \in visited \/ PathItem(k[1], k[2]) \in D
      PROVE  During'
  <2>1. \E HH : Covered(HH, Pending)' /\ Noted(HH)'
    BY <1>0, <1>e, <1>g, <1>h, Progress
  <2> QED BY <1>0, <1>a, <1>e, <1>s, <2>1 DEF During
\* What cannot be executed asks for nothing, and nothing after it is reached.
<1>1. ASSUME ~IsExecutable(i), UNCHANGED visited, dpc' = "next",
             stack' \in {stack, Tail(stack)}
      PROVE  During'
  <2>1. PICK D : D = {item}
    OBVIOUS
  <2>2. Todo(Tail(stack)) \subseteq Pending'
    BY <1>0, <1>1, <1>q, TodoTop
  <2>3. Pending \subseteq H \cup D \cup Pending'
    <3>1. ~Runs(item)
      BY <1>0, <1>1 DEF Runs, Starts
    <3> QED BY <1>p, <2>1, <2>2, <3>1 DEF Rest
  <2>4. ASSUME NEW x \in D PROVE Pinned(x)' /\ AskedBy(x) \subseteq H \cup D \cup Pending'
    BY <1>0, <1>1, <2>1 DEF Pinned, AskedBy, Asks, AsksEnv, IsExecutable
  <2> QED BY <1>1, <1>e, <2>3, <2>4
<1>2. CASE i = NoInode \/ Type[i] = "special" \/ Rejected(i)
  <2>1. Error(stack) /\ UNCHANGED visited
    BY <1>2 DEF Open
  <2>2. ~IsExecutable(i)
    BY <1>2, <1>t DEF IsExecutable, Rejected
  <2>3. dpc' \in {"next", "failed"}
    BY <1>0, <2>1, ErrorEnds
  <2>4. CASE dpc' = "next"
    BY <1>1, <2>1, <2>2, <2>4, ErrorMoves
  <2>5. CASE dpc' = "failed"
    BY <1>0, <2>5 DEF Failed
  <2> QED BY <2>3, <2>4, <2>5
<1>3. CASE ~(i = NoInode \/ Type[i] = "special" \/ Rejected(i)) /\ Skips(i)
  BY <1>1, <1>3 DEF Open, Skips
<1>4. CASE ~(i = NoInode \/ Type[i] = "special" \/ Rejected(i)) /\ ~Skips(i)
  <2>0. IsExecutable(i) /\ Insert(i)
    BY <1>4, <1>t DEF Open, Skips
  <2> DEFINE rest == (IF Runs(item) THEN Reached(Top.todo) ELSE {}) \cup AsksEnv(item)
                        \cup Todo(Tail(stack))
  <2>1. rest \subseteq Todo(WithEnv(stack, i))
    BY <1>0, <2>0, EnvReached
  <2>2. Pending \subseteq {item} \cup rest
    BY <1>p DEF Rest
  <2>3. Asks(path) = Asks(item) /\ AsksEnv(path) = {} /\ path.kind = "path" /\ path.to = item.to
    <3>1. Asks(path) = Asks(item)
      BY <1>0 DEF Asks, PathItem
    <3>2. AsksEnv(path) = {}
      BY DEF AsksEnv, PathItem
    <3> QED BY <3>1, <3>2 DEF PathItem
  <2>4. CASE Seen(key)
    <3>1. stack' = WithEnv(stack, i) /\ dpc' = "next" /\ UNCHANGED <<visited, grants>>
      BY <2>0, <2>4 DEF Insert
    <3>2. path \in H
      <4>1. key \in visited /\ key[1] = item.to /\ key[2] = item.ctx
        BY <2>4 DEF Seen
      <4> QED BY <1>h, <4>1 DEF Noted
    <3>3. PICK D : D = {item}
      OBVIOUS
    <3>4. Pending' = Todo(WithEnv(stack, i))
      BY <1>q, <3>1
    <3>5. Pending \subseteq H \cup D \cup Pending'
      BY <2>1, <2>2, <3>3, <3>4
    <3>6. AskedBy(item) \subseteq H \cup D \cup Pending'
      <4>1. Asks(item) \subseteq H \cup Pending
        BY <1>h, <2>3, <3>2 DEF Covered, AskedBy
      <4>2. AsksEnv(item) \subseteq Pending'
        BY <2>1, <3>4
      <4> QED BY <3>5, <4>1, <4>2 DEF AskedBy
    <3>7. Pinned(item)'
      <4>1. item.to \in DOMAIN grants
        BY <1>h, <2>0, <2>3, <3>2 DEF Covered, Pinned
      <4> QED BY <1>0, <3>1, <4>1 DEF Pinned
    <3>8. ASSUME NEW x \in D
          PROVE  Pinned(x)' /\ AskedBy(x) \subseteq H \cup D \cup Pending'
      <4>1. x = item /\ x = item'
        BY <1>0, <3>3
      <4> QED BY <3>6, <3>7, <4>1 DEF Pinned
    <3>9. \A k \in visited' : k \in visited \/ PathItem(k[1], k[2]) \in D
      BY <3>1
    <3> QED BY <1>e, <3>1, <3>5, <3>8, <3>9
  <2>5. CASE ~Seen(key)
    <3>1. /\ visited' = visited \cup {key} /\ dpc' = "next"
          /\ DOMAIN grants' = DOMAIN grants \cup {item.to}
          /\ \/ /\ i \in Readable
                /\ stack' = <<Frame("executable", Top.mode, Interps(i, item.ctx))>>
                               \o WithEnv(stack, i)
             \/ i \notin Readable /\ stack' = WithEnv(stack, i)
      BY <1>t, <2>0, <2>5 DEF Insert
    <3>2. Asks(item) \cup Todo(WithEnv(stack, i)) \subseteq Pending'
      <4>1. CASE i \notin Readable /\ stack' = WithEnv(stack, i)
        <5>1. Asks(item) = {}
          BY <1>0, <4>1 DEF Asks
        <5> QED BY <1>q, <3>1, <4>1, <5>1
      <4>2. CASE /\ i \in Readable
                 /\ stack' = <<Frame("executable", Top.mode, Interps(i, item.ctx))>>
                               \o WithEnv(stack, i)
        <5> DEFINE g == Frame("executable", Top.mode, Interps(i, item.ctx))
        <5>1. item.to \in Names /\ item.ctx \in Contexts
          BY <1>0, ItemTyped
        <5>2. i \in Inodes
          BY <2>0, <5>1 DEF DiscoveryTypeOK, IsExecutable
        <5>3. g \in Frames /\ g.todo = Interps(i, item.ctx)
          BY <1>t, <5>1, <5>2, DiscoveryAssumption DEF Frame, Frames
        <5>4. PICK f : Moved(f) /\ WithEnv(stack, i) = <<f>> \o Tail(stack)
          BY <1>0, EnvMoves
        <5>5. WithEnv(stack, i) \in Seq(Frames)
          BY <1>0, <5>4, Retop DEF Moved
        <5>6. Todo(<<g>> \o WithEnv(stack, i)) = Reached(g.todo) \cup Todo(WithEnv(stack, i))
          BY <5>3, <5>5, TodoPushed
        <5>7. Asks(item) = Reached(Interps(i, item.ctx))
          BY <1>0, <2>0, <4>2 DEF Asks
        <5> QED BY <1>q, <3>1, <4>2, <5>3, <5>6, <5>7
      <4> QED BY <3>1, <4>1, <4>2
    <3>3. PICK D : D = {item, path}
      OBVIOUS
    <3>4. Pending \subseteq H \cup D \cup Pending'
      BY <2>1, <2>2, <3>2, <3>3
    <3>5. ASSUME NEW x \in D
          PROVE  Pinned(x)' /\ AskedBy(x) \subseteq H \cup D \cup Pending'
      <4>1. x.to = item.to
        BY <2>3, <3>3
      <4>2. Pinned(x)'
        BY <3>1, <4>1 DEF Pinned
      <4>3. AskedBy(x) \subseteq Pending'
        BY <2>1, <2>3, <3>2, <3>3 DEF AskedBy
      <4> QED BY <4>2, <4>3
    <3>6. ASSUME NEW k \in visited' PROVE k \in visited \/ PathItem(k[1], k[2]) \in D
      BY <3>1, <3>3
    <3> QED BY <1>e, <3>1, <3>4, <3>5, <3>6
  <2> QED BY <2>4, <2>5
<1> QED BY <1>2, <1>3, <1>4

-----------------------------------------------------------------------------
(* The discovery and the policy made of it.                                *)

HeldInv ==
    /\ EnvInv
    /\ replaced = 0 => \A n \in DOMAIN grants : grants[n] = file[n]
    /\ options.exec /\ config.requested => dpc = "ready" /\ config.execs = Granted
    /\ FollowInv

DiscoveryInv ==
    DiscoveryTypeOK /\ Shape /\ NestInv /\ RootInv /\ PinInv /\ HeldInv

LEMMA DiscoveryStarts == Init => DiscoveryInv
<1> SUFFICES ASSUME Init PROVE DiscoveryInv
  OBVIOUS
<1>1. PICK sc \in Scenarios :
        /\ LandlockInit({sc.options}, sc.abis, sc.present)
        /\ DiscoveryInit(sc.files, IF sc.options.exec THEN sc.roots ELSE <<>>)
        /\ command = sc.roots[1].item /\ listed = ListedIn(sc.roots)
  BY DEF Init
<1>2. /\ options = sc.options /\ config = NoConfig /\ lpc = "build"
      /\ file = sc.files /\ replaced = 0 /\ stack = <<>> /\ visited = {} /\ grants = <<>>
      /\ everFile = [n \in Names |-> {sc.files[n]} \ {NoInode}]
      /\ item = NoItem /\ dpc = "root" /\ limited = FALSE
      /\ roots = IF sc.options.exec THEN sc.roots ELSE <<>>
  BY <1>1 DEF LandlockInit, DiscoveryInit
<1>3. /\ sc.files \in [Names -> Inodes \cup {NoInode}]
      /\ sc.roots \in Seq([mode : Modes, item : PlainItem])
      /\ sc.roots # <<>> /\ sc.roots[1].mode = "Auto" /\ EnvTelling(sc.files)
  BY PolicyAssumption
<1>4. DiscoveryTypeOK
  <2>1. everFile \in [Names -> SUBSET Inodes]
    BY <1>2, <1>3
  <2>2. roots \in Seq([mode : Modes, item : PlainItem])
    BY <1>2, <1>3
  <2>3. item \in Item
    BY <1>2, DiscoveryAssumption DEF NoItem, Item, PlainItem
  <2>4. replaced \in 0..MaxReplaced
    BY <1>2, DiscoveryAssumption
  <2>5. /\ stack \in Seq(Frames) /\ DOMAIN grants \subseteq Names
        /\ visited \subseteq Names \X Contexts
    BY <1>2
  <2> QED BY <1>2, <1>3, <2>1, <2>2, <2>3, <2>4, <2>5 DEF DiscoveryTypeOK
<1>5. Shape
  BY <1>2 DEF Shape
<1>6. NestInv
  BY <1>2, FS_EmptySet DEF NestInv
<1>7. RootInv
  <2>1. ASSUME NEW k \in DOMAIN roots
        PROVE  RootOf(roots[k].mode, roots[k].item)
    <3> DEFINE R  == [mode : Modes, item : PlainItem]
               rs == sc.roots
    <3>1. rs \in Seq(R) /\ k \in DOMAIN rs /\ roots[k] = rs[k]
      BY <1>2, <1>3, <2>1
    <3> HIDE DEF R, rs
    <3>2. rs[k] \in R
      BY <3>1
    <3>3. rs[k].item \in PlainItem
      BY <3>2 DEF R
    <3>4. rs[k].item.kind = "path" => rs[k].item.to \in Names
      BY <3>3, PlainTyped, ItemTyped
    <3>5. rs[k].mode = "Strict" /\ rs[k].item.kind = "path" => rs[k].item.to \in listed
      BY <1>1, <3>1, <3>4 DEF ListedIn, rs
    <3> QED BY <3>1, <3>3, <3>5 DEF RootOf
  <2> QED BY <1>2, <2>1 DEF RootInv
<1>8. PinInv
  BY <1>2, <1>3 DEF PinInv
<1>9. HeldInv
  BY <1>1, <1>2, <1>3 DEF HeldInv, EnvInv, EnvTelling, FollowInv, Faithful, Before, NoConfig
<1> QED BY <1>4, <1>5, <1>6, <1>7, <1>8, <1>9 DEF DiscoveryInv

LEMMA FirstRoot ==
  ASSUME DiscoveryTypeOK, Before, NextRoot, UNCHANGED <<lpc, command>>
  PROVE  During'
<1> DEFINE fr == Frame("executable", "Auto", <<command>>)
<1>0. Head(roots) = roots[1]
  BY DEF Before
<1>1. /\ stack' = <<fr>> /\ visited' = {} /\ dpc' = "next" /\ lpc' = "build"
      /\ UNCHANGED file
  BY <1>0 DEF NextRoot, Before
<1>2. fr.mode = "Auto" /\ fr.todo = <<command>>
  BY DEF Frame
<1> HIDE DEF fr
<1>3. Pending' = Todo(<<fr>>)
  <2>1. \A s : Todo(s)' = Todo(s)
    BY <1>1, Frozen
  <2> QED BY <1>1, <2>1 DEF Pending
<1>4. command \in Todo(<<fr>>)
  <2>1. 1 \in DOMAIN <<fr>> /\ <<fr>>[1] = fr
    OBVIOUS
  <2>2. command \in Reached(<<command>>)
    <3> DEFINE q == <<command>>
    <3>1. 1 \in DOMAIN q /\ q[1] = command
      OBVIOUS
    <3>2. \A j \in 1..(1 - 1) : Runs(q[j])
      OBVIOUS
    <3> HIDE DEF q
    <3>3. command \in Reached(q)
      BY <3>1, <3>2 DEF Reached
    <3> QED BY <3>3 DEF q
  <2> QED BY <1>2, <2>1, <2>2 DEF Todo
<1>5. PICK H : H = {}
  OBVIOUS
<1>6. Covered(H, Pending)' /\ Noted(H)'
  BY <1>1, <1>3, <1>4, <1>5 DEF Covered, Noted
<1>7. \A k \in DOMAIN stack' : stack'[k].mode = "Auto"
  BY <1>1, <1>2
<1>8. stack' # <<>>
  BY <1>1
<1> QED BY <1>1, <1>6, <1>7, <1>8 DEF During

LEMMA AfterStays ==
  ASSUME After, UNCHANGED <<file, command>>, DOMAIN grants \subseteq DOMAIN grants'
  PROVE  After'
<1>1. PICK H : Covered(H, {})
  BY DEF After
<1>2. ASSUME NEW it \in H PROVE Pinned(it)' /\ AskedBy(it)' \subseteq H \cup {}
  <2>1. AskedBy(it)' = AskedBy(it)
    BY Frozen
  <2>2. Pinned(it)'
    BY <1>1 DEF Covered, Pinned, IsExecutable
  <2> QED BY <1>1, <2>1, <2>2 DEF Covered
<1>3. Covered(H, {})'
  BY <1>1, <1>2 DEF Covered
<1> QED BY <1>3 DEF After

LEMMA FollowStep ==
  ASSUME DiscoveryTypeOK, Shape, EnvInv, FollowInv, Discover,
         UNCHANGED <<landlockVars, command>>
  PROVE  FollowInv'
<1> SUFFICES ASSUME Faithful' PROVE (Before \/ Failed \/ During \/ After)'
  BY DEF FollowInv
<1>0. UNCHANGED <<options, lpc, command, file, replaced>>
  BY DEF landlockVars, Discover, NextRoot, Take, Stat, Open
<1>1. ~limited' /\ DOMAIN grants \subseteq DOMAIN grants'
  BY DEF Faithful, Discover, NextRoot, Take, Stat, Open, Insert
<1>2. Faithful
  <2>1. limited' = limited \/ limited' = TRUE
    BY DEF Discover, NextRoot, Take, Stat, Open, Insert
  <2>2. limited \in BOOLEAN
    BY DEF DiscoveryTypeOK
  <2> QED BY <1>0, <1>1, <2>1, <2>2 DEF Faithful
<1>3. CASE Before
  <2>1. NextRoot
    BY <1>3 DEF Before, Discover, Take, Stat, Open
  <2> QED BY <1>0, <1>3, <2>1, FirstRoot
<1>4. CASE Failed
  BY <1>4 DEF Failed, Discover, NextRoot, Take, Stat, Open
<1>5. CASE During
  <2>1. CASE Take
    BY <1>0, <1>5, <2>1, TakeFollows
  <2>2. CASE Stat
    BY <1>0, <1>5, <2>2, StatFollows
  <2>3. CASE Open
    BY <1>0, <1>1, <1>2, <1>5, <2>3, OpenFollows DEF Faithful, EnvInv
  <2>4. ~NextRoot
    BY <1>5 DEF During, NextRoot
  <2> QED BY <2>1, <2>2, <2>3, <2>4 DEF Discover
<1>6. CASE After
  BY <1>0, <1>1, <1>6, AfterStays
<1> QED BY <1>2, <1>3, <1>4, <1>5, <1>6 DEF FollowInv

LEMMA HeldStep ==
  ASSUME DiscoveryTypeOK, Shape, IInv, HeldInv, [Next]_vars
  PROVE  HeldInv'
<1>e. EnvInv'
  <2>1. replaced' = 0 => replaced = 0 /\ file' = file
    BY DiscoveryAssumption
       DEF Next, vars, discoveryVars, DiscoveryStep, BuildStep, ApplyStep, Execute,
           Discover, NextRoot, Take, Stat, Open, DiscoveryEnvironment, Replace,
           DiscoveryTypeOK
  <2> QED BY <2>1 DEF HeldInv, EnvInv, EnvTelling
<1>1. CASE DiscoveryStep /\ Discover
  <2>1. UNCHANGED <<landlockVars, command, file, replaced>> /\ UNCHANGED <<options, config>>
    BY <1>1 DEF DiscoveryStep, landlockVars, Discover, NextRoot, Take, Stat, Open
  <2>2. dpc # "ready"
    BY <1>1 DEF Discover, NextRoot, Take, Stat, Open
  <2>3. \/ grants' = grants
        \/ grants' = [n \in DOMAIN grants \cup {item.to} |->
                        IF n = item.to THEN file[item.to] ELSE grants[n]]
    BY <1>1 DEF Discover, NextRoot, Take, Stat, Open, Insert
  <2>4. replaced' = 0 => \A n \in DOMAIN grants' : grants'[n] = file'[n]
    BY <2>1, <2>3 DEF HeldInv
  <2>5. ~(options.exec /\ config.requested)'
    BY <2>1, <2>2 DEF HeldInv
  <2>6. FollowInv'
    BY <1>1, <2>1, FollowStep DEF HeldInv
  <2> QED BY <1>e, <2>4, <2>5, <2>6 DEF HeldInv
<1>2. CASE DiscoveryStep /\ ~Discover
  <2>1. PICK n \in Names, i \in Inodes \cup {NoInode} : Replace(n, i)
    BY <1>2 DEF DiscoveryStep, DiscoveryEnvironment
  <2>2. replaced' # 0
    BY <2>1, DiscoveryAssumption DEF Replace, DiscoveryTypeOK
  <2>3. UNCHANGED <<options, config>> /\ options.exec /\ dpc # "ready"
    BY <1>2 DEF DiscoveryStep, landlockVars
  <2> QED BY <1>e, <2>2, <2>3 DEF HeldInv, FollowInv, Faithful
<1>3. CASE BuildStep
  <2>1. /\ dpc = "ready" /\ UNCHANGED discoveryVars /\ UNCHANGED <<options, command>>
        /\ UNCHANGED <<file, replaced, grants, dpc, limited>>
    BY <1>3 DEF BuildStep, Build, discoveryVars
  <2>2. config' \in {config, NoConfig, ConfigOf(options, Granted)} /\ config = NoConfig
    BY <1>3 DEF BuildStep, Build, IInv, ConfigInv
  <2>3. config'.requested => config'.execs = Granted
    BY <2>2 DEF NoConfig, ConfigOf
  <2>4. Granted' = Granted
    BY <2>1 DEF Granted
  <2>5. FollowInv'
    <3>1. After => After'
      BY <2>1, AfterStays
    <3> QED BY <2>1, <3>1 DEF HeldInv, FollowInv, Faithful, Before, Failed, During
  <2> QED BY <1>e, <2>1, <2>3, <2>4, <2>5 DEF HeldInv
<1>4. CASE ApplyStep
  <2>1. /\ UNCHANGED <<options, config, command>> /\ lpc # "build"
        /\ UNCHANGED <<file, replaced, grants, dpc, limited>>
    BY <1>4 DEF ApplyStep, Apply, QueryAbi, Create, AddRules, SetNoNewPrivs, RestrictSelf,
                discoveryVars
  <2>2. FollowInv'
    <3>1. After => After'
      BY <2>1, AfterStays
    <3> QED BY <2>1, <3>1 DEF HeldInv, FollowInv, Faithful, Before, Failed, During
  <2> QED BY <1>e, <2>1, <2>2 DEF HeldInv, Granted
<1>5. CASE Execute
  <2>1. /\ UNCHANGED <<options, config>> /\ lpc = "exec"
        /\ UNCHANGED <<file, replaced, grants, dpc, limited>>
        /\ command' \in AskedBy(command)
    BY <1>5 DEF Execute, discoveryVars, landlockVars, AskedBy
  <2>2. ASSUME After PROVE After'
    <3>1. PICK H : Covered(H, {})
      BY <2>2 DEF After
    <3>2. command' \in H
      BY <2>1, <3>1 DEF Covered
    <3>3. ASSUME NEW it \in H PROVE Pinned(it)' /\ AskedBy(it)' \subseteq H \cup {}
      <4>1. AskedBy(it)' = AskedBy(it)
        BY <2>1, Frozen
      <4>2. Pinned(it)'
        BY <2>1, <3>1 DEF Covered, Pinned, IsExecutable
      <4> QED BY <3>1, <4>1, <4>2 DEF Covered
    <3>4. Covered(H, {})'
      BY <3>2, <3>3 DEF Covered
    <3> QED BY <3>4 DEF After
  <2>3. FollowInv'
    BY <2>1, <2>2 DEF HeldInv, FollowInv, Faithful, Before, Failed, During
  <2> QED BY <1>e, <2>1, <2>3 DEF HeldInv, Granted
<1>6. CASE UNCHANGED vars
  <2>1. /\ UNCHANGED <<options, config, lpc, command>>
        /\ UNCHANGED <<file, replaced, grants, dpc, limited, stack, item, visited, roots>>
    BY <1>6 DEF vars, discoveryVars, landlockVars
  <2>2. Faithful' = Faithful /\ Before' = Before /\ Failed' = Failed
    BY <2>1 DEF Faithful, Before, Failed
  <2>3. After => After'
    BY <2>1, AfterStays
  <2>4. ASSUME During PROVE During'
    <3>1. PICK H : Covered(H, Pending) /\ Noted(H)
      BY <2>4 DEF During
    <3>2. Pending' = Pending
      <4>1. /\ \A s : Todo(s)' = Todo(s)
            /\ \A it, s : Rest(it, s)' = Rest(it, s)
        BY <2>1, Frozen
      <4> QED BY <2>1, <4>1 DEF Pending, Top
    <3>3. PICK D : D = {}
      OBVIOUS
    <3>4. \E HH : Covered(HH, Pending)' /\ Noted(HH)'
      BY <2>1, <3>1, <3>2, <3>3, Progress
    <3> QED BY <2>1, <2>4, <3>4 DEF During
  <2>5. FollowInv'
    BY <2>2, <2>3, <2>4 DEF HeldInv, FollowInv
  <2> QED BY <1>e, <2>1, <2>5 DEF HeldInv, Granted
<1> QED BY <1>1, <1>2, <1>3, <1>4, <1>5, <1>6 DEF Next

LEMMA DiscoveryKept == DiscoveryInv /\ IInv /\ [Next]_vars => DiscoveryInv'
<1> SUFFICES ASSUME DiscoveryInv, IInv, [Next]_vars PROVE DiscoveryInv'
  OBVIOUS
<1>1. Discover \/ DiscoveryEnvironment \/ UNCHANGED discoveryVars
  BY DEF Next, vars, DiscoveryStep, BuildStep, ApplyStep, Execute
<1>2. UNCHANGED listed
  BY DEF Next, vars, DiscoveryStep, BuildStep, ApplyStep, Execute
<1> QED
  BY <1>1, <1>2, DiscoveryTyped, NestStep, RootStep, PinStep, HeldStep DEF DiscoveryInv

LEMMA DiscoveryCorrect == Spec => [](DiscoveryInv /\ IInv)
BY InitSafe, SafeStep, DiscoveryStarts, DiscoveryKept, PTL DEF Spec

(* Every variable has its type, and the kernel's ruleset never holds a     *)
(* right the kernel does not know (landlock::create_ruleset).              *)
THEOREM TypeCorrect == Spec => []TypeOK
<1> DEFINE LandlockTypeOK ==
      /\ lpc \in {"build", "refused", "abi", "create", "rules", "privs",
                  "restrict", "exec", "exit"}
      /\ abi \in Nat /\ noNewPrivs \in BOOLEAN
      /\ ruleset.fs \subseteq FsRights(abi) /\ ruleset.net \subseteq NetRights(abi)
      /\ ruleset.scoped \subseteq ScopeRights(abi)
      /\ listed \subseteq Names
<1>1. Init => LandlockTypeOK
  <2> SUFFICES ASSUME Init PROVE LandlockTypeOK
    OBVIOUS
  <2>1. PICK sc \in Scenarios : /\ LandlockInit({sc.options}, sc.abis, sc.present)
                                /\ listed = ListedIn(sc.roots)
    BY DEF Init
  <2>2. abi \in Nat /\ lpc = "build" /\ noNewPrivs = FALSE
    BY <2>1, PolicyAssumption DEF LandlockInit
  <2>3. ruleset.fs = {} /\ ruleset.net = {} /\ ruleset.scoped = {}
    BY <2>1 DEF LandlockInit, NoRuleset
  <2>4. listed \subseteq Names
    BY <2>1 DEF ListedIn
  <2> QED BY <2>2, <2>3, <2>4
<1>2. LandlockTypeOK /\ IInv /\ [Next]_vars => LandlockTypeOK'
  <2> SUFFICES ASSUME LandlockTypeOK, IInv, [Next]_vars PROVE LandlockTypeOK'
    OBVIOUS
  <2>0. UNCHANGED listed
    BY DEF Next, vars, DiscoveryStep, BuildStep, ApplyStep, Execute
  <2>1. CASE UNCHANGED landlockVars
    BY <2>0, <2>1 DEF landlockVars
  <2>2. CASE BuildStep
    BY <2>0, <2>2 DEF BuildStep, Build
  <2>3. CASE ApplyStep
    <3> USE <2>0, <2>3 DEF ApplyStep, Fail
    <3>1. CASE QueryAbi
      BY <3>1 DEF QueryAbi
    <3>2. CASE Create
      BY <3>2 DEF Create, KernelAccepts
    <3>3. CASE AddRules
      <4>1. lpc' \in {"privs", "exec", "exit"} /\ UNCHANGED <<abi, noNewPrivs>>
        BY <3>3 DEF AddRules
      <4>2. ruleset = [fs |-> ruleset.fs, net |-> ruleset.net, scoped |-> ruleset.scoped,
                       rules |-> {}]
        <5>1. ruleset = Attr
          BY <3>3 DEF AddRules, IInv, RulesetInv
        <5>2. Attr = [fs |-> Attr.fs, net |-> Attr.net, scoped |-> Attr.scoped, rules |-> {}]
          BY DEF Attr
        <5> QED BY <5>1, <5>2
      <4>3. ruleset' = ruleset \/ ruleset' = [ruleset EXCEPT !.rules = Rules]
        BY <3>3 DEF AddRules
      <4>4. ruleset'.fs = ruleset.fs /\ ruleset'.net = ruleset.net
            /\ ruleset'.scoped = ruleset.scoped
        BY <4>2, <4>3
      <4> QED BY <4>1, <4>4
    <3>4. CASE SetNoNewPrivs
      BY <3>4 DEF SetNoNewPrivs
    <3>5. CASE RestrictSelf
      BY <3>5 DEF RestrictSelf
    <3> QED BY <3>1, <3>2, <3>3, <3>4, <3>5 DEF Apply
  <2> QED BY <2>1, <2>2, <2>3 DEF Next, DiscoveryStep, Execute, vars
<1>3. DiscoveryInv /\ LandlockTypeOK => TypeOK
  BY DEF DiscoveryInv, TypeOK
<1> HIDE DEF LandlockTypeOK
<1> QED BY <1>1, <1>2, <1>3, DiscoveryCorrect, PTL DEF Spec

(* Scripts that name each other in a circle, directly or through env, do   *)
(* not make the discovery recurse without end: every frame but the root's  *)
(* and a list of candidates was paid for by one of the 256 visits          *)
(* (insert_resolved_exec_path, MAX_EXEC_INTERPRETER_DEPTH).                *)
THEOREM NestingStaysBounded == Spec => []NestingBounded
<1>1. DiscoveryInv => NestingBounded
  BY NestEnds DEF DiscoveryInv
<1> QED BY <1>1, DiscoveryCorrect, PTL

(* Whoever replaces files while they are discovered, only an object that   *)
(* the name had is granted, and only --exec-allow grants what cannot be    *)
(* executed (insert_landlock_exec_path, insert_resolved_exec_path).        *)
THEOREM OnlyPinnedGranted == Spec => []OnlyPinned
<1>1. DiscoveryInv => OnlyPinned
  BY PinEnds DEF DiscoveryInv
<1> QED BY <1>1, DiscoveryCorrect, PTL

(* With the files left alone and no limit reached, the restricted command  *)
(* may execute everything that executing it leads to: interpreters, what   *)
(* env runs, and every candidate of a search along PATH, for any content   *)
(* of the files, also when they name each other in a circle                *)
(* (insert_landlock_exec_paths_with_context and what it calls).            *)
THEOREM NeverFalselyDenied == Spec => []NotFalselyDenied
<1>1. DiscoveryInv /\ IInv => NotFalselyDenied
  <2> SUFFICES ASSUME DiscoveryInv, IInv, Restricted, options.exec, replaced = 0, ~limited,
                      command.kind = "path", IsExecutable(file[command.to])
               PROVE  Allowed("EXECUTE", file[command.to])
    BY DEF NotFalselyDenied
  <2> DEFINE i == file[command.to]
  <2>1. /\ lpc = "exec" /\ config.requested /\ error = "none"
        /\ Configured /\ ~TooOld /\ config.exec = options.exec /\ domain = Full
    BY DEF Restricted, IInv, ExecInv, ConfigInv, DomainInv, Configured
  <2>2. PICK H : Covered(H, {})
    BY <2>1 DEF DiscoveryInv, HeldInv, FollowInv, Faithful, Before, Failed, During, After
  <2>3. command.to \in DOMAIN grants
    BY <2>2 DEF Covered, Pinned
  <2>4. i = grants[command.to] /\ config.execs = Granted
    BY <2>1, <2>3 DEF DiscoveryInv, HeldInv
  <2>5. i \in config.execs
    BY <2>3, <2>4 DEF Granted
  <2>6. i \in Inodes
    <3>1. command.to \in Names
      BY <2>3 DEF DiscoveryInv, DiscoveryTypeOK
    <3> QED BY <3>1 DEF DiscoveryInv, DiscoveryTypeOK, IsExecutable
  <2> DEFINE op == <<"EXECUTE", i>>
  <2>7. op \in Operations(Inodes) /\ op[1] = "EXECUTE" /\ op[2] = i
    BY <2>6 DEF Operations
  <2>8. Permitted("EXECUTE", i)
    BY <2>5 DEF Permitted, Nodes
  <2> HIDE DEF op, i
  <2>9. Allowed(op[1], op[2]) <=> Permitted(op[1], op[2])
    BY <2>1, <2>7, DomainExact
  <2>10. Allowed("EXECUTE", i)
    BY <2>7, <2>8, <2>9
  <2> QED BY <2>10 DEF i
<1> QED BY <1>1, DiscoveryCorrect, PTL
=============================================================================
