------------------------------ MODULE Settings ------------------------------
(***************************************************************************)
(* From the command line, the configuration file and the environment to    *)
(* what a run does: src/cli.rs and run, selected_control_mode,             *)
(* apply_env_defaults and the sources of --explain in src/platform/mod.rs. *)
(*                                                                         *)
(* An argument is [name, attached, value]: an option by its long name, its *)
(* value if it takes one, attached when it is written --name=value.  Texts *)
(* are sequences of tokens: a key, "sp", "nl", "hash", "nul", "/" or other *)
(* text.  A number is one token.                                           *)
(***************************************************************************)
EXTENDS Naturals, Integers, Sequences, FiniteSets, SequencesExt

CONSTANTS
    Numerals,       \* function: a numeral token to its number
    SignalNames,    \* function: a name of a signal to its canonical name
    PolicyIsSound(_) \* collect_explain_platform accepts these settings

Separators == {"sp", "nl", "hash", "nul", "no value"}

ASSUME SettingsAssumption ==
    /\ DOMAIN Numerals \subseteq STRING \ Separators
    /\ \A t \in DOMAIN Numerals : Numerals[t] \in Nat
    /\ \A n \in 0..3 : \E t \in DOMAIN Numerals : Numerals[t] = n
    /\ DOMAIN SignalNames \subseteq STRING \ Separators
    /\ \A t \in DOMAIN SignalNames :
          SignalNames[t] \in DOMAIN SignalNames /\ SignalNames[SignalNames[t]] = SignalNames[t]

FlagKeys == {"subreaper", "warn-on-reap", "pgroup-kill", "write-restrict",
             "restrict-warn-only", "write-no-dev", "scope-signals",
             "scope-abstract-unix", "expand-env"}
ModeFlags == {"explain", "print-config", "write-config", "check-config", "no-config"}
PathKeys == {"write-allow", "device-ioctl-allow"}
PortKeys == {"bind-tcp-allow", "connect-tcp-allow"}
ListKeys == PathKeys \cup PortKeys \cup {"remap-exit", "write-preset", "exec-allow"}
KeyOrder == <<"subreaper", "pdeath", "verbosity", "warn-on-reap", "pgroup-kill", "remap-exit",
              "grace-ms", "write-restrict", "write-allow", "write-preset", "restrict-warn-only",
              "write-no-dev", "bind-tcp-allow", "connect-tcp-allow", "scope-signals",
              "scope-abstract-unix", "exec-allow", "device-ioctl-allow", "expand-env">>

NoValue == <<"no value">>

(* What a command line is made of. *)
ValueOptions == ListKeys \cup {"grace-ms", "pdeath"}
Argument ==
    {a \in [name : FlagKeys \cup ModeFlags \cup ValueOptions \cup {"verbose", "CMD"},
            attached : BOOLEAN, value : Seq(STRING) \cup {NoValue}] :
        a.name \notin ValueOptions => a.value = NoValue}

(* Default *)
Defaults ==
    [flags |-> {}, modes |-> {}, pdeath |-> NoValue, verbosity |-> 0, grace |-> <<"500">>,
     lists |-> [key \in ListKeys |-> <<>>], command |-> FALSE]

Error == [kind |-> "error", settings |-> Defaults]
Fine(s) == [kind |-> "ok", settings |-> s]

----------------------------------------------------------------------------

IsNumber(value, limit) ==
    Len(value) = 1 /\ value[1] \in DOMAIN Numerals /\ Numerals[value[1]] <= limit

(* What both the options and the lines accept: u8, u16 but 0, u64, presets.*)
Accepted(key, value) ==
    CASE key = "remap-exit" -> IsNumber(value, 255)
      [] key \in PortKeys -> IsNumber(value, 65535) /\ Numerals[value[1]] # 0
      [] key = "grace-ms" -> Len(value) = 1 /\ value[1] \in DOMAIN Numerals
      [] key = "pdeath" -> Len(value) = 1 /\ value[1] \in DOMAIN SignalNames   \* parse_signal
      [] key = "write-preset" -> value \in {<<"tmp">>, <<"runtime">>}
      [] OTHER -> TRUE

Put(s, key, value) ==
    CASE key \in ListKeys -> [s EXCEPT !.lists[key] = Append(@, value)]
      [] key = "grace-ms" -> [s EXCEPT !.grace = value]
      [] key = "pdeath" -> [s EXCEPT !.pdeath = <<SignalNames[value[1]]>>]
      [] key \in FlagKeys -> [s EXCEPT !.flags = @ \cup {key}]
      [] key \in ModeFlags -> [s EXCEPT !.modes = @ \cup {key}]

Saturated(n) == IF n < 255 THEN n + 1 ELSE n    \* count_flag

(* try_parse_from_base, one argument; what follows the command is its own. *)
Applied(r, a) ==
    LET s == r.settings
    IN  IF r.kind = "error" \/ s.command THEN r
        ELSE CASE a.name = "CMD" -> Fine([s EXCEPT !.command = TRUE])
          [] a.name = "verbose" ->
                IF a.attached THEN Error ELSE Fine([s EXCEPT !.verbosity = Saturated(@)])
          [] a.name \in FlagKeys \cup ModeFlags ->
                IF a.attached THEN Error ELSE Fine(Put(s, a.name, NoValue))
          [] OTHER ->
                IF a.value = NoValue \/ ~Accepted(a.name, a.value) THEN Error
                ELSE Fine(Put(s, a.name, a.value))

MutGraceWithCheck(argv) == FALSE

(* A grace period of the default length shows in no setting. *)
GraceWithCheck(argv) ==
    \E k \in DOMAIN argv : argv[k].name = "grace-ms" /\ \A m \in 1..(k - 1) : argv[m].name # "CMD"

Refusing(r, argv) ==
    IF r.kind = "ok" /\ "check-config" \in r.settings.modes /\ GraceWithCheck(argv)
    THEN Error ELSE r

ParseArgs(argv, base) ==
    LET after[k \in 0..Len(argv)] ==
            IF k = 0 THEN Fine(base) ELSE Applied(after[k - 1], argv[k])
    IN  Refusing(after[Len(argv)], argv)

----------------------------------------------------------------------------
(* The file's text: config_text and the push_config_ functions write it. *)

IsAbsolute(value) == value # <<>> /\ value[1] = "/"
HasToken(value, t) == \E k \in DOMAIN value : value[k] = t

MutWritable(key, value) == value # <<>>

(* validate_config_value, push_config_absolute_path, push_config_exec_path *)
Writable(key, value) ==
    /\ value # <<>> /\ value[1] \notin {"sp", "nl"} /\ value[Len(value)] \notin {"sp", "nl"}
    /\ ~HasToken(value, "nl") /\ ~HasToken(value, "nul")
    /\ key \in PathKeys => IsAbsolute(value)
    /\ key = "exec-allow" /\ HasToken(value, "/") => IsAbsolute(value)

Resolved(verbosity) == IF verbosity > 3 THEN 3 ELSE verbosity   \* resolved_verbosity

VerbosityToken(n) == CHOOSE t \in DOMAIN Numerals : Numerals[t] = n

(* config_text: the lines for a key. *)
LinesFor(s, key) ==
    CASE key \in FlagKeys -> IF key \in s.flags THEN <<<<key, NoValue>>>> ELSE <<>>
      [] key = "pdeath" -> IF s.pdeath = NoValue THEN <<>> ELSE <<<<key, s.pdeath>>>>
      [] key = "verbosity" -> IF s.verbosity = 0 THEN <<>>
                              ELSE <<<<key, <<VerbosityToken(Resolved(s.verbosity))>>>>>>
      [] key = "grace-ms" -> IF s.grace = <<"500">> THEN <<>> ELSE <<<<key, s.grace>>>>
      [] key \in ListKeys -> [k \in DOMAIN s.lists[key] |-> <<key, s.lists[key][k]>>]

Lines(s) == FlattenSeq([j \in DOMAIN KeyOrder |-> LinesFor(s, KeyOrder[j])])

IsWritable(s) ==
    \A k \in DOMAIN Lines(s) : Lines(s)[k][2] # NoValue => Writable(Lines(s)[k][1], Lines(s)[k][2])

Text(line) == IF line[2] = NoValue THEN <<line[1]>> ELSE <<line[1], "sp">> \o line[2]

ConfigText(s) == FlattenSeq([k \in DOMAIN Lines(s) |-> Append(Text(Lines(s)[k]), "nl")])

(* parse_config_content and apply_config_line read it. *)
IsBlank(t) == t = "sp"
Trim(text) ==
    LET kept == {k \in DOMAIN text : ~IsBlank(text[k])}
    IN  IF kept = {} THEN <<>>
        ELSE SubSeq(text, CHOOSE k \in kept : \A m \in kept : k <= m,
                          CHOOSE k \in kept : \A m \in kept : m <= k)

AppliedLine(r, raw) ==
    LET line  == Trim(raw)
        key   == line[1]
        value == Trim(SubSeq(line, 2, Len(line)))
        s     == r.settings
    IN  IF r.kind = "error" \/ line = <<>> \/ line[1] = "hash" THEN r
        ELSE IF Len(line) > 1 /\ line[2] # "sp" THEN Error             \* unknown option
        ELSE IF key \in FlagKeys THEN IF value = <<>> THEN Fine(Put(s, key, NoValue)) ELSE Error
        ELSE IF value = <<>> \/ HasToken(value, "nul") THEN Error
        ELSE IF key = "verbosity"
             THEN IF IsNumber(value, 3) THEN Fine([s EXCEPT !.verbosity = Numerals[value[1]]])
                                        ELSE Error
        ELSE IF key \in ListKeys \cup {"grace-ms", "pdeath"} /\ Accepted(key, value)
             THEN Fine(Put(s, key, value)) ELSE Error

(* Where the line begins that k ends or belongs to. *)
Start(text, k) ==
    LET ends == {m \in 1..(k - 1) : text[m] = "nl"}
    IN  IF ends = {} THEN 1 ELSE 1 + CHOOSE m \in ends : \A l \in ends : l <= m

(* The last line need not end. *)
ParseText(text) ==
    LET read[k \in 0..Len(text)] ==
            IF k = 0 THEN Fine(Defaults)
            ELSE IF text[k] = "nl"
            THEN AppliedLine(read[k - 1], SubSeq(text, Start(text, k), k - 1))
            ELSE read[k - 1]
    IN  AppliedLine(read[Len(text)], SubSeq(text, Start(text, Len(text) + 1), Len(text)))

----------------------------------------------------------------------------
(* The file: "absent", "dangling" (a link to nothing), "irregular" (a FIFO *)
(* or the like), "unreadable", or "text".  It may change between the open  *)
(* and the look that follows when the open found nothing.                  *)

Absent == [is |-> "absent", text |-> <<>>]
TextFile(text) == [is |-> "text", text |-> text]
Files == {f \in [is : {"absent", "dangling", "irregular", "unreadable", "text"},
                 text : Seq(STRING)] : f.is # "text" => f.text = <<>>}

MutIsThere(inspected) == FALSE

IsThere(inspected) == inspected.is # "absent"

(* read_config_file, load_config *)
LoadConfig(opened, inspected, required) ==
    CASE opened.is = "text" -> ParseText(opened.text)
      [] opened.is \in {"irregular", "unreadable"} -> Error
      [] OTHER -> IF required \/ IsThere(inspected) THEN Error ELSE Fine(Defaults)

(* try_parse_with_default_config_from *)
OverFile(only, base, argv) ==
    IF only.kind = "error"
       \/ only.settings.modes \cap {"no-config", "print-config", "write-config",
                                    "check-config"} # {}
    THEN only
    ELSE IF base.kind = "error" THEN Error ELSE ParseArgs(argv, base.settings)

ParseAll(argv, opened, inspected) ==
    OverFile(ParseArgs(argv, Defaults), LoadConfig(opened, inspected, FALSE), argv)

----------------------------------------------------------------------------
(* env_default, interpret_env_flag: env gives for each pair of names the   *)
(* two raw values, TINO_ before TINI_; Unset when the variable is not set. *)

Unset == "unset"
Given(pair) == IF pair[1] # Unset THEN 1 ELSE IF pair[2] # Unset THEN 2 ELSE 0

Yes == {"1", "true"}
No == {"0", "false"}
Levels == {raw \in DOMAIN Numerals : Numerals[raw] <= 255}

(* apply_env_defaults_with: which name decides, 0 when none does. *)
Decides(pair, isSet, good) ==
    IF ~isSet /\ Given(pair) # 0 /\ pair[Given(pair)] \in good THEN Given(pair) ELSE 0

WithEnv(s, env) ==
    LET sub  == Decides(env.subreaper, "subreaper" \in s.flags, Yes \cup No)
        pg   == Decides(env.pgroup, "pgroup-kill" \in s.flags, Yes \cup No)
        verb == Decides(env.verbosity, s.verbosity # 0, Levels)
        on   == {f \in {"subreaper"} : sub # 0 /\ env.subreaper[sub] \in Yes}
                \cup {f \in {"pgroup-kill"} : pg # 0 /\ env.pgroup[pg] \in Yes}
        set  == s.flags \cup on
        warn == "warn-on-reap" \in set /\ "subreaper" \notin set
    IN  [settings |-> [s EXCEPT !.flags = IF warn THEN set \cup {"subreaper"} ELSE set,
                                !.verbosity = IF verb = 0 THEN @
                                              ELSE Resolved(Numerals[env.verbosity[verb]])],
         subreaper |-> sub, pgroup |-> pg, verbosity |-> verb, warn |-> warn]

Named(by) == IF by = 0 THEN "default" ELSE <<"TINO", "TINI">>[by]

MutSubreaperSource(s, e) ==
    CASE "subreaper" \in s.flags -> "configured"
      [] OTHER -> IF e.subreaper # 0 THEN Named(e.subreaper)
                  ELSE IF e.warn THEN "--warn-on-reap" ELSE "default"

(* subreaper_source, pgroup_kill_source, verbosity_source *)
SubreaperSource(s, e) ==
    CASE "subreaper" \in s.flags -> "configured"
      [] "subreaper" \notin s.flags /\ e.warn -> "--warn-on-reap"
      [] OTHER -> Named(e.subreaper)

PgroupSource(s, e) == IF "pgroup-kill" \in s.flags THEN "configured" ELSE Named(e.pgroup)

VerbositySource(s, e) == IF s.verbosity > 0 THEN "configured" ELSE Named(e.verbosity)

----------------------------------------------------------------------------
(* run: the control modes, then the environment, then --explain or the     *)
(* command.  An outcome has the settings in force and the file after it.   *)

Outcome(kind, s, file) == [kind |-> kind, settings |-> s, file |-> file,
                           subreaper |-> "", pgroup |-> "", verbosity |-> ""]
Failure(file) == Outcome("error", Defaults, file)

(* selected_control_mode, check_config_inline_option, reject_control_command *)
ModeIsClear(s) ==
    LET selected == s.modes \ {"no-config"}
    IN  /\ Cardinality(selected) <= 1
        /\ "check-config" \in selected =>
              [s EXCEPT !.modes = {"check-config"}, !.command = FALSE]
              = [Defaults EXCEPT !.modes = {"check-config"}] /\ "no-config" \notin s.modes
        /\ selected \cap {"check-config", "write-config", "print-config"} # {} => ~s.command

CheckResult(r, file) ==
    IF r.kind = "ok" /\ PolicyIsSound(r.settings) THEN Outcome("checked", r.settings, file)
                                                  ELSE Failure(file)

CheckConfig(file) == CheckResult(LoadConfig(file, file, TRUE), file)

Written(s, text) ==
    IF CheckConfig(text).kind = "error" THEN Failure(text) ELSE Outcome("written", s, text)

Runs(s, e, file) ==
    [Outcome(IF "explain" \in s.modes THEN "explained" ELSE "run", e.settings, file)
     EXCEPT !.subreaper = SubreaperSource(s, e), !.pgroup = PgroupSource(s, e),
            !.verbosity = VerbositySource(s, e)]

Perform(s, file, env) ==
    IF ~ModeIsClear(s) THEN Failure(file)
    ELSE IF "check-config" \in s.modes THEN CheckConfig(file)
    ELSE IF ~PolicyIsSound(s) THEN Failure(file)
    ELSE IF s.modes \cap {"write-config", "print-config"} # {}
         THEN IF ~IsWritable(s) THEN Failure(file)
              ELSE IF "write-config" \in s.modes THEN Written(s, TextFile(ConfigText(s)))
              ELSE Outcome("printed", s, TextFile(ConfigText(s)))
    ELSE IF s.command \/ "explain" \in s.modes THEN Runs(s, WithEnv(s, env), file)
    ELSE Failure(file)

Attempt(parsed, file, env) ==
    IF parsed.kind = "error" THEN Failure(file) ELSE Perform(parsed.settings, file, env)

Invoke(argv, opened, file, env) == Attempt(ParseAll(argv, opened, file), file, env)

----------------------------------------------------------------------------
(* What has to hold of it. *)

Flag(name) == [name |-> name, attached |-> FALSE, value |-> NoValue]
Alone(argv) == Append(Append(argv, Flag("no-config")), Flag("CMD"))
Silent == [subreaper |-> <<Unset, Unset>>, pgroup |-> <<Unset, Unset>>,
           verbosity |-> <<Unset, Unset>>]
InForce(s) == [s EXCEPT !.modes = {}, !.verbosity = Resolved(@)]

(* What --write-config wrote without an error is a file that --check-config*)
(* accepts, that --print-config would have printed, and that gives a later *)
(* run, whatever its environment, the settings of the options written.     *)
ReadsBack(argv, env) ==
    LET w       == Invoke(Append(argv, Flag("write-config")), Absent, Absent, env)
        printed == Invoke(Append(argv, Flag("print-config")), Absent, Absent, env)
        checked == Invoke(<<Flag("check-config")>>, w.file, w.file, env)
        later   == Invoke(<<Flag("CMD")>>, w.file, w.file, env)
        direct  == Invoke(Alone(argv), Absent, Absent, env)
    IN  w.kind = "written" =>
          /\ checked.kind = "checked"
          /\ printed.file = w.file
          /\ later.kind = "run"
          /\ InForce(later.settings) = InForce(direct.settings)

(* The argument for a key, before the command. *)
Supplied(argv, key) ==
    \E k \in DOMAIN argv : argv[k].name = key /\ \A m \in 1..(k - 1) : argv[m].name # "CMD"

(* A run goes on without the configuration file only if it looked and saw  *)
(* none there; otherwise everything the file asks for is in force: flags   *)
(* and lists beside what the options add, a verbosity that nothing lowers, *)
(* and a grace period and a parent-death signal that options alone change. *)
NothingDiscarded(argv, opened, inspected, env) ==
    LET o == Invoke(argv, opened, inspected, env)
        s == o.settings
        f == ParseText(opened.text).settings
    IN  o.kind \in {"run", "explained"} /\ "no-config" \notin s.modes =>
          \/ inspected = Absent /\ opened.is \in {"absent", "dangling"}
          \/ /\ opened.is = "text"
             /\ f.flags \subseteq s.flags
             /\ \A key \in ListKeys : IsPrefix(f.lists[key], s.lists[key])
             /\ s.verbosity >= f.verbosity
             /\ s.grace = f.grace \/ Supplied(argv, "grace-ms")
             /\ s.pdeath = f.pdeath \/ Supplied(argv, "pdeath")

(* "config OK" is said of the file alone: any other option is refused, not *)
(* left out of the check.                                                  *)
CheckJudgesTheFile(argv, file, env) ==
    Invoke(argv, file, file, env).kind = "checked" =>
        \A k \in DOMAIN argv : argv[k] = Flag("check-config")

Without(argv, name) ==
    LET kept[k \in 0..Len(argv)] ==
            IF k = 0 THEN <<>>
            ELSE IF argv[k].name = name THEN kept[k - 1] ELSE Append(kept[k - 1], argv[k])
    IN  kept[Len(argv)]

(* The source --explain names for a setting accounts for it: options alone *)
(* give it, or the variable asks for it, or it goes when --warn-on-reap    *)
(* does, or nothing was asked.                                             *)
SourcesAccount(argv, env) ==
    LET Explained(a, e) == Invoke(Append(a, Flag("explain")), Absent, Absent, e)
        On(a, e, flag)  == flag \in Explained(a, e).settings.flags
        Accounts(source, flag, pair) ==
            CASE source = "configured" -> On(argv, Silent, flag)
              [] source = "--warn-on-reap" ->
                    On(argv, env, flag) /\ ~On(Without(argv, "warn-on-reap"), env, flag)
              [] source = "TINO" -> On(argv, env, flag) = (pair[1] \in Yes)
              [] source = "TINI" -> On(argv, env, flag) = (pair[2] \in Yes)
              [] source = "default" -> ~On(argv, env, flag)
        o == Explained(argv, env)
    IN  o.kind = "explained" =>
          /\ Accounts(o.subreaper, "subreaper", env.subreaper)
          /\ Accounts(o.pgroup, "pgroup-kill", env.pgroup)
          /\ o.verbosity = "configured" =>
                o.settings.verbosity = Explained(argv, Silent).settings.verbosity
          /\ o.verbosity = "default" => o.settings.verbosity = 0
=============================================================================
