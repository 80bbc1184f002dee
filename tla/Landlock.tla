------------------------------ MODULE Landlock ------------------------------
(***************************************************************************)
(* Access restriction of the command: the policy that build_landlock_      *)
(* config_for_args makes of the options (src/platform/unix/mod.rs) and     *)
(* landlock::apply, which the forked child runs before exec (landlock.rs,  *)
(* child.rs), on a kernel of any Landlock ABI.  The danger is silence: a   *)
(* kernel that lacks a feature must not leave the command less restricted  *)
(* than the options say.                                                   *)
(***************************************************************************)
EXTENDS Naturals, FiniteSets

CONSTANTS
    Dirs,          \* directories; DevDir is /dev
    DevDir,
    PresetDirs,    \* what write presets name
    Ports

ASSUME LandlockAssumption ==
    DevDir \in Dirs /\ PresetDirs \subseteq Dirs /\ Ports \subseteq Nat

VARIABLES
    options,       \* the restriction options of the command line
    present,       \* the directories that exist
    abi,           \* the kernel's Landlock ABI, 0 if it has none
    lpc,
    config,        \* LandlockConfig, or NoConfig
    ruleset,       \* the kernel's ruleset: handled rights and rules
    noNewPrivs,
    domain,        \* the ruleset the child is restricted by, or NoRuleset
    error          \* what apply returned

landlockVars ==
    <<options, present, abi, lpc, config, ruleset, noNewPrivs, domain, error>>

NoConfig  == [requested |-> FALSE]
NoRuleset == [fs |-> {}, net |-> {}, scoped |-> {}, rules |-> {}]

----------------------------------------------------------------------------
(* The kernel's rights.                                                    *)

Make   == {"MAKE_DIR", "MAKE_REG", "MAKE_SOCK", "MAKE_FIFO", "MAKE_SYM"}
Nodes  == {"MAKE_CHAR", "MAKE_BLOCK"}
Remove == {"REMOVE_DIR", "REMOVE_FILE"}

AllWrites ==
    {"WRITE_FILE", "REFER", "TRUNCATE"} \cup Make \cup Nodes \cup Remove

FsRights(v) ==
    IF v < 1 THEN {} ELSE
        {"EXECUTE", "WRITE_FILE"} \cup Make \cup Nodes \cup Remove
            \cup (IF v >= 2 THEN {"REFER"} ELSE {})
            \cup (IF v >= 3 THEN {"TRUNCATE"} ELSE {})
            \cup (IF v >= 5 THEN {"IOCTL_DEV"} ELSE {})
NetRights(v) == IF v >= 4 THEN {"BIND_TCP", "CONNECT_TCP"} ELSE {}
ScopeRights(v) == IF v >= 6 THEN {"SIGNAL", "ABSTRACT_UNIX"} ELSE {}

(* landlock_create_ruleset: unknown rights, or none at all, are refused. *)
KernelAccepts(fs, net, scoped) ==
    /\ fs \subseteq FsRights(abi) /\ net \subseteq NetRights(abi)
    /\ scoped \subseteq ScopeRights(abi)
    /\ fs \cup net \cup scoped # {}

(* landlock_add_rule: a rule allows something, and only what is handled. *)
KernelAcceptsRule(r) ==
    r.rights # {} /\ r.rights \subseteq ruleset.fs \cup ruleset.net

(* A restricted thread: what is handled needs a rule for the object. *)
Allowed(right, object) ==
    \/ right \notin domain.fs \cup domain.net \cup domain.scoped
    \/ \E r \in domain.rules : right \in r.rights /\ r.object = object

----------------------------------------------------------------------------
(* build_landlock_config_for_args                                          *)

WriteRequested(o) == o.writeRestrict \/ o.writeAllow # {} \/ o.preset

Enabled(o) ==
    \/ WriteRequested(o) \/ o.bind # {} \/ o.connect # {}
    \/ o.signals \/ o.abstractUnix \/ o.exec \/ o.ioctl # {}

Invalid(o) == 0 \in o.bind \cup o.connect \/ ~(o.writeAllow \cup o.ioctl \subseteq present)

(* /dev stays writable unless --write-no-dev. *)
DevIncluded(o) == WriteRequested(o) /\ ~o.noDev /\ DevDir \in present

ConfigOf(o, execs) ==
    [requested |-> TRUE, write |-> WriteRequested(o), warnOnly |-> o.warnOnly,
     exec |-> o.exec, execs |-> execs, ioctls |-> o.ioctl,
     dirs |-> o.writeAllow \cup (IF o.preset THEN PresetDirs \cap present ELSE {}),
     dev |-> IF DevIncluded(o) THEN {DevDir} ELSE {},
     bind |-> o.bind, connect |-> o.connect,
     signals |-> o.signals, abstractUnix |-> o.abstractUnix]

LandlockInit(os, vs, ps) ==
    /\ options \in os /\ abi \in vs /\ present \in ps
    /\ lpc = "build" /\ config = NoConfig /\ ruleset = NoRuleset
    /\ noNewPrivs = FALSE /\ domain = NoRuleset /\ error = "none"

(* The files to execute were discovered before. *)
Build(execs) ==
    /\ lpc = "build"
    /\ IF Enabled(options) /\ Invalid(options)
       THEN lpc' = "refused" /\ UNCHANGED config
       ELSE /\ config' = IF Enabled(options) THEN ConfigOf(options, execs)
                                             ELSE NoConfig
            /\ lpc' = IF Enabled(options) THEN "abi" ELSE "exec"
    /\ UNCHANGED <<options, present, abi, ruleset, noNewPrivs, domain, error>>

----------------------------------------------------------------------------
(* landlock::apply, in the child.                                          *)

(* An error ends the child, or is only reported. *)
Fail(e) ==
    /\ error' = e
    /\ lpc' = IF config.warnOnly THEN "exec" ELSE "exit"

If(flag, set) == IF flag THEN set ELSE {}

(* What the policy handles; each feature has its first ABI. *)
HandledFs ==
    If(config.write, AllWrites) \cup If(config.exec, {"EXECUTE"})
        \cup If(config.ioctls # {}, {"IOCTL_DEV"})
HandledNet ==
    If(config.bind # {}, {"BIND_TCP"}) \cup If(config.connect # {}, {"CONNECT_TCP"})
Scoped == If(config.signals, {"SIGNAL"}) \cup If(config.abstractUnix, {"ABSTRACT_UNIX"})

MutTooOld ==
    \/ config.write /\ abi < 3
    \/ config.ioctls # {} /\ abi < 5
    \/ HandledNet # {} /\ abi < 4

TooOld ==
    \/ config.write /\ abi < 3
    \/ config.ioctls # {} /\ abi < 5
    \/ HandledNet # {} /\ abi < 4
    \/ Scoped # {} /\ abi < 6

QueryAbi ==
    /\ lpc = "abi"
    /\ \/ /\ abi > 0 /\ ~TooOld
          /\ lpc' = "create"
          /\ UNCHANGED error
       \/ abi = 0 /\ Fail("NotSupported")
       \/ abi > 0 /\ TooOld /\ Fail("AbiTooOld")
       \/ Fail("QueryAbi")
    /\ UNCHANGED <<options, present, abi, config, ruleset, noNewPrivs, domain>>

(* The attribute structure grows with the ABI: what a shorter one lacks    *)
(* never reaches the kernel.                                               *)
Attr == [fs |-> HandledFs, net |-> If(abi >= 4, HandledNet),
         scoped |-> If(abi >= 6, Scoped), rules |-> {}]

Create ==
    /\ lpc = "create"
    /\ \/ /\ KernelAccepts(Attr.fs, Attr.net, Attr.scoped)
          /\ ruleset' = Attr
          /\ lpc' = "rules"
          /\ UNCHANGED error
       \/ /\ Fail(IF KernelAccepts(Attr.fs, Attr.net, Attr.scoped)
                  THEN "CreateRuleset" ELSE "refused by the kernel")
          /\ UNCHANGED ruleset
    /\ UNCHANGED <<options, present, abi, config, noNewPrivs, domain>>

(* Device nodes are not to be made, not even where writing is allowed. *)
AllowedWrites == (HandledFs \cap AllWrites) \ Nodes

Rule(objects, rights) == {[object |-> o, rights |-> rights] : o \in objects}

Rules ==
    UNION {Rule(config.dev, {"WRITE_FILE"}), Rule(config.dirs, AllowedWrites),
           Rule(config.execs, {"EXECUTE"}), Rule(config.ioctls, {"IOCTL_DEV"}),
           Rule(config.bind, {"BIND_TCP"}), Rule(config.connect, {"CONNECT_TCP"})}

(* Any rule may fail; then the ruleset is dropped. *)
AddRules ==
    /\ lpc = "rules"
    /\ \/ /\ \A r \in Rules : KernelAcceptsRule(r)
          /\ ruleset' = [ruleset EXCEPT !.rules = Rules]
          /\ lpc' = "privs"
          /\ UNCHANGED error
       \/ /\ Rules # {}
          /\ Fail(IF \A r \in Rules : KernelAcceptsRule(r)
                  THEN "AddRule" ELSE "refused by the kernel")
          /\ UNCHANGED ruleset
    /\ UNCHANGED <<options, present, abi, config, noNewPrivs, domain>>

SetNoNewPrivs ==
    /\ lpc = "privs"
    /\ \/ noNewPrivs' = TRUE /\ lpc' = "restrict" /\ UNCHANGED error
       \/ Fail("SetNoNewPrivs") /\ UNCHANGED noNewPrivs
    /\ UNCHANGED <<options, present, abi, config, ruleset, domain>>

RestrictSelf ==
    /\ lpc = "restrict"
    /\ \/ noNewPrivs /\ domain' = ruleset /\ lpc' = "exec" /\ UNCHANGED error
       \/ Fail("RestrictSelf") /\ UNCHANGED domain
    /\ UNCHANGED <<options, present, abi, config, ruleset, noNewPrivs>>

Apply == QueryAbi \/ Create \/ AddRules \/ SetNoNewPrivs \/ RestrictSelf

----------------------------------------------------------------------------
(* Reference: what the options permit.                                     *)

Writable(d) == d \in options.writeAllow \/ (options.preset /\ d \in PresetDirs)

Permitted(right, object) ==
    CASE right = "EXECUTE" -> ~options.exec \/ object \in config.execs
      [] right = "IOCTL_DEV" -> options.ioctl = {} \/ object \in options.ioctl
      [] right = "BIND_TCP" -> options.bind = {} \/ object \in options.bind
      [] right = "CONNECT_TCP" -> options.connect = {} \/ object \in options.connect
      [] right = "SIGNAL" -> ~options.signals
      [] right = "ABSTRACT_UNIX" -> ~options.abstractUnix
      [] right \in Nodes -> ~WriteRequested(options)
      [] OTHER -> \/ ~WriteRequested(options)
                  \/ Writable(object)
                  \/ right = "WRITE_FILE" /\ object = DevDir /\ ~options.noDev

Operations(files) ==
    ({"EXECUTE"} \X files)
        \cup ((AllWrites \cup {"IOCTL_DEV"}) \X present)
        \cup ({"BIND_TCP", "CONNECT_TCP"} \X (Ports \ {0}))
        \cup ({"SIGNAL", "ABSTRACT_UNIX"} \X {"outside"})
=============================================================================
