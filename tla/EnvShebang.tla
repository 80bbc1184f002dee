----------------------------- MODULE EnvShebang -----------------------------
(***************************************************************************)
(* What "#!/usr/bin/env <argument>" runs: env_shebang_command and what it  *)
(* calls in src/platform/unix/mod.rs.  tino repeats the work of env, which *)
(* it may not run: split -S strings, read the options, and look for the    *)
(* command with the PATH and the directory env would use.                  *)
(*                                                                         *)
(* A string is a sequence of tokens: characters ("-", "S", "=", "sp" for a *)
(* blank, "sq", "dq", "bs" for the quotes and the backslash, "us" for "_"),*)
(* a long option ("--unset"), or a whole variable reference.  References   *)
(* names those references; any other token is text.                        *)
(***************************************************************************)
EXTENDS Naturals, Sequences, FiniteSets

CONSTANTS
    References,        \* tokens that are ${NAME}
    Value(_),          \* what such a token stands for, or Unset
    Directories,       \* strings -C can enter
    LongOption(_),     \* the option a token "--xyz" abbreviates, "none" if not one
    SignalKind(_),     \* of a token: "usual", "fixed" (KILL, STOP), "reserved", "none"
    MaxSplits          \* 32

None == [kind |-> "none"]              \* env would not run a command
Endless == [kind |-> "unresolved"]     \* Err: more than MaxSplits splits
Unset == <<"unset">>
Failed == [kind |-> "failed"]

Tail2(s, i) == SubSeq(s, i, Len(s))

----------------------------------------------------------------------------
(* split_env_split_string: one token at a time. *)

Start == [fields |-> <<>>, current |-> <<>>, inField |-> FALSE, quote |-> "none",
          escaped |-> FALSE, state |-> "reading"]

Add(q, text) == [q EXCEPT !.current = @ \o text, !.inField = TRUE]
EndField(q) ==
    IF q.inField
    THEN [q EXCEPT !.fields = Append(@, q.current), !.current = <<>>, !.inField = FALSE]
    ELSE q
Reject(q) == [q EXCEPT !.state = "failed"]
EndText(q) == [q EXCEPT !.state = "ended", !.escaped = FALSE]

AfterBackslash(q, ch) ==
    LET p == [q EXCEPT !.escaped = FALSE]
    IN  CASE ch = "us" /\ q.quote = "none" -> EndField(p)
          [] ch = "us" /\ q.quote # "none" -> Add(p, <<"sp">>)
          [] ch = "c" /\ q.quote = "none" -> EndText(p)
          [] ch = "n" -> Add(p, <<"newline">>)
          [] ch \in {"bs", "sq", "dq", "$", "hash"} -> Add(p, <<ch>>)
          [] OTHER -> Reject(p)

MutStartsEscape(q, next) == TRUE

(* Only an escaped backslash or quote means anything between single quotes. *)
StartsEscape(q, next) == q.quote # "sq" \/ next \in {"bs", "sq"}

Reads(q, ch, next) ==
    IF q.escaped THEN AfterBackslash(q, ch)
    ELSE IF ch = "bs" /\ StartsEscape(q, next) THEN [q EXCEPT !.escaped = TRUE]
    ELSE IF ch \in References /\ q.quote # "sq"
         THEN IF Value(ch) = Unset THEN q ELSE Add(q, Value(ch))
    ELSE IF ch = "$" /\ q.quote # "sq" THEN Reject(q)
    ELSE IF q.quote # "none"
         THEN IF ch = q.quote THEN [q EXCEPT !.quote = "none", !.inField = TRUE]
                              ELSE Add(q, <<ch>>)
    ELSE CASE ch \in {"sq", "dq"} -> [q EXCEPT !.quote = ch, !.inField = TRUE]
           [] ch = "hash" /\ ~q.inField -> EndText(q)
           [] ch = "sp" -> EndField(q)
           [] OTHER -> Add(q, <<ch>>)

RECURSIVE Scan(_, _, _)
Scan(raw, i, q) ==
    IF i > Len(raw) \/ q.state # "reading" THEN q
    ELSE Scan(raw, i + 1,
              Reads(q, raw[i], IF i < Len(raw) THEN raw[i + 1] ELSE "end"))

Split(raw) ==
    LET q == Scan(raw, 1, Start)
    IN  IF q.state = "failed" \/ q.escaped \/ q.quote # "none" THEN Failed
        ELSE [kind |-> "fields", fields |-> EndField(q).fields]

----------------------------------------------------------------------------
(* Options.  A reading is [fields, idx, options]: fields[idx] is the next. *)

NoOptions == [ignore |-> FALSE, unset |-> <<>>, chdir |-> Unset, badSignal |-> FALSE]

Go(r)         == [kind |-> "continue", r |-> r]
Invalid       == [kind |-> "invalid"]
SplitThis(r, s) == [kind |-> "split", r |-> r, text |-> s]

HasNext(r) == r.idx <= Len(r.fields)
NextField(r) == r.fields[r.idx]
Skip(r) == [r EXCEPT !.idx = IF HasNext(r) THEN @ + 1 ELSE @]

(* Options that take a value: attached, or the next field. *)
Take(r, attached, given) ==
    IF given THEN [has |-> TRUE, value |-> attached, r |-> r]
    ELSE IF HasNext(r) THEN [has |-> TRUE, value |-> NextField(r), r |-> Skip(r)]
    ELSE [has |-> FALSE, value |-> <<>>, r |-> r]

WithValue(option, t) ==
    CASE option = "split-string" -> IF t.has THEN SplitThis(t.r, t.value) ELSE Go(t.r)
      [] option = "unset" ->
            IF t.has THEN Go([t.r EXCEPT !.options.unset = Append(@, t.value)]) ELSE Go(t.r)
      [] option = "chdir" ->
            IF t.has THEN Go([t.r EXCEPT !.options.chdir = t.value]) ELSE Invalid
      [] option = "argv0" -> Go(t.r)

(* validate_env_signal_option *)
Signals(r, option, value, given) ==
    LET kinds == {SignalKind(value[k]) : k \in DOMAIN value}
    IN  CASE ~given -> Go(IF option = "block-signal" THEN r
                          ELSE [r EXCEPT !.options.badSignal = FALSE])
          [] given /\ "none" \in kinds -> Invalid
          [] given /\ "none" \notin kinds /\ option = "block-signal" ->
                IF "reserved" \in kinds THEN Invalid ELSE Go(r)
          [] OTHER -> Go([r EXCEPT !.options.badSignal =
                              @ \/ kinds \cap {"reserved", "fixed"} # {}])

(* env_long_option_action *)
Long(r, arg) ==
    LET given  == Len(arg) > 1
        option == IF given /\ arg[2] # "=" THEN "none" ELSE LongOption(arg[1])
        value  == Tail2(arg, 3)
    IN  CASE option = "none" -> Invalid
          [] option \in {"split-string", "unset", "chdir", "argv0"} ->
                WithValue(option, Take(r, value, given))
          [] option \in {"block-signal", "default-signal", "ignore-signal"} ->
                Signals(r, option, value, given)
          [] option = "ignore-environment" ->
                IF given THEN Invalid ELSE Go([r EXCEPT !.options.ignore = TRUE])
          [] option \in {"debug", "list-signal-handling"} ->
                IF given THEN Invalid ELSE Go(r)
          [] option \in {"help", "null", "version"} -> Invalid

ShortValue == [u |-> "unset", a |-> "argv0", C |-> "chdir", S |-> "split-string"]

(* env_short_option_action: a cluster such as -ivS. *)
RECURSIVE Short(_, _, _)
Short(r, arg, k) ==
    IF k > Len(arg) THEN Go(r)
    ELSE LET ch == arg[k]
         IN  CASE ch = "i" -> Short([r EXCEPT !.options.ignore = TRUE], arg, k + 1)
               [] ch = "v" -> Short(r, arg, k + 1)
               [] ch \in DOMAIN ShortValue ->
                     WithValue(ShortValue[ch], Take(r, Tail2(arg, k + 1), k < Len(arg)))
               [] OTHER -> Invalid

IsLong(arg) == LongOption(arg[1]) # "text"

----------------------------------------------------------------------------

EqualsAt(arg) == {k \in DOMAIN arg : arg[k] = "="}
IsAssignment(arg) == EqualsAt(arg) # {}
FirstEquals(arg) == CHOOSE k \in EqualsAt(arg) : \A m \in EqualsAt(arg) : k <= m
AssignedName(arg) == SubSeq(arg, 1, FirstEquals(arg) - 1)
AssignedValue(arg) == Tail2(arg, FirstEquals(arg) + 1)

MutClears(options) == FALSE

(* -i makes env skip every unset, even of a name that unsetenv refuses. *)
Clears(options) == options.ignore

PathName == <<"PATH">>

(* env_shebang_command_operands, finish_env_shebang_command.  Of the       *)
(* environment only PATH matters here: the inherited one, none, or what    *)
(* the assignments before the command made of it.                          *)
Operands(fields, options) ==
    LET dash     == fields # <<>> /\ fields[1] = <<"-">>
        rest     == IF dash THEN Tail(fields) ELSE fields
        opts     == [options EXCEPT !.ignore = @ \/ dash]
        commands == {k \in DOMAIN rest : ~IsAssignment(rest[k])}
        command  == CHOOSE k \in commands : \A m \in commands : k <= m
        paths    == {k \in 1..(command - 1) : AssignedName(rest[k]) = PathName}
        unsets   == {opts.unset[k] : k \in DOMAIN opts.unset}
        path     == CASE paths # {} ->
                           AssignedValue(rest[CHOOSE k \in paths : \A m \in paths : m <= k])
                      [] paths = {} /\ (Clears(opts) \/ PathName \in unsets) -> Unset
                      [] OTHER -> <<"inherited">>
    IN  IF \/ opts.badSignal
           \/ ~Clears(opts) /\ \E n \in unsets : n = <<>> \/ IsAssignment(n)
           \/ commands = {}
           \/ opts.chdir # Unset /\ opts.chdir \notin Directories
        THEN None
        ELSE [kind |-> "command", name |-> rest[command], path |-> path, cwd |-> opts.chdir]

(* env_shebang_command_fields *)
RECURSIVE Command(_, _)
Command(r, splits) ==
    IF ~HasNext(r) THEN None
    ELSE LET arg  == NextField(r)
             next == Skip(r)
             act  == IF IsLong(arg) THEN Long(next, arg) ELSE Short(next, arg, 2)
             more == Split(act.text)
         IN  IF arg = <<"--">> THEN Operands(Tail2(r.fields, r.idx + 1), r.options)
             ELSE IF arg \in {<<"-">>, <<>>} \/ ~(IsLong(arg) \/ arg[1] = "-")
                  THEN Operands(Tail2(r.fields, r.idx), r.options)
             ELSE CASE act.kind = "continue" -> Command(act.r, splits)
                    [] act.kind = "invalid" -> None
                    [] act.kind = "split" /\ splits = MaxSplits -> Endless
                    [] act.kind = "split" /\ splits < MaxSplits ->
                          IF more = Failed THEN None
                          ELSE Command([fields  |-> more.fields \o Tail2(act.r.fields, act.r.idx),
                                        idx     |-> 1,
                                        options |-> act.r.options], splits + 1)

Reading(fields, options) == [fields |-> fields, idx |-> 1, options |-> options]

(* env_split_string: the usual single argument "-S ...", split before any  *)
(* option is read.                                                         *)
Prefix(argument) ==
    LET ends == {k \in DOMAIN argument : k > 1 /\ argument[k] = "S"
                    /\ \A m \in 2..(k - 1) : argument[m] \in {"i", "v"}}
    IN  IF argument # <<>> /\ argument[1] = "-" /\ ends # {}
        THEN CHOOSE k \in ends : TRUE ELSE 0

MutIgnoresBefore(argument) == FALSE

IgnoresBefore(argument) == \E m \in 2..(Prefix(argument) - 1) : argument[m] = "i"

(* env_shebang_command *)
Runs(argument) ==
    LET long  == Len(argument) > 1 /\ LongOption(argument[1]) = "split-string"
                 /\ argument[2] = "="
        text  == Tail2(argument, IF long THEN 3 ELSE Prefix(argument) + 1)
        split == Split(text)
    IN  IF ~long /\ Prefix(argument) = 0 THEN Command(Reading(<<argument>>, NoOptions), 0)
        ELSE IF split = Failed THEN None
        ELSE Command(Reading(split.fields,
                             [NoOptions EXCEPT !.ignore = ~long /\ IgnoresBefore(argument)]), 0)

----------------------------------------------------------------------------
(* Reference: what a user means by a line, from its structure.  A piece is *)
(* [style, text]; pieces side by side make a word, blanks separate words.  *)

RECURSIVE Flat(_)
Flat(ss) == IF ss = <<>> THEN <<>> ELSE Head(ss) \o Flat(Tail(ss))

Each(s, Op(_, _)) ==
    Flat([k \in DOMAIN s |-> Op(s[k], IF k < Len(s) THEN s[k + 1] ELSE "sq")])

InSingle(ch, next) ==
    IF ch = "sq" \/ (ch = "bs" /\ next \in {"bs", "sq"}) THEN <<"bs", ch>> ELSE <<ch>>
InDouble(ch, next) ==
    CASE ch \in {"dq", "bs", "$"} -> <<"bs", ch>>
      [] ch = "newline" -> <<"bs", "n">>
      [] ch = "sp" -> <<"bs", "us">>
      [] OTHER -> <<ch>>

Quoted(piece) ==
    CASE piece.style = "bare" -> piece.text
      [] piece.style = "single" -> <<"sq">> \o Each(piece.text, InSingle) \o <<"sq">>
      [] piece.style = "double" -> <<"dq">> \o Each(piece.text, InDouble) \o <<"dq">>

Literally(ch, next) ==
    IF ch \notin References THEN <<ch>> ELSE IF Value(ch) = Unset THEN <<>> ELSE Value(ch)
Means(piece) ==
    IF piece.style = "single" THEN piece.text ELSE Each(piece.text, Literally)

(* A word of nothing but unset references is no word. *)
IsWord(word) ==
    \E k \in DOMAIN word : word[k].style # "bare" \/ \E j \in DOMAIN word[k].text :
        word[k].text[j] \notin References \/ Value(word[k].text[j]) # Unset

WrittenWord(word) == Flat([k \in DOMAIN word |-> Quoted(word[k])])
WordMeans(word) == Flat([k \in DOMAIN word |-> Means(word[k])])
WrittenLine(words, blank) == Flat([k \in DOMAIN words |-> WrittenWord(words[k]) \o blank])
LineMeans(words) ==
    LET real == SelectSeq(words, IsWord)
    IN  [kind |-> "fields", fields |-> [k \in DOMAIN real |-> WordMeans(real[k])]]

(* A split string gives the words its quotes and blanks delimit: values    *)
(* are not split again, and nothing after a comment is read.               *)
SplitsAsQuoted(words, blank, end) ==
    Split(WrittenLine(words, blank) \o end) = LineMeans(words)

(* A program: options (each [fields, does, with]), what ends them,         *)
(* assignments, the command; and how often -S wraps it all up.             *)
Fields(p) ==
    Flat([k \in DOMAIN p.opts |-> p.opts[k].fields]) \o p.end \o p.assigns \o <<p.command>>

Carried(fields, p) ==
    LET words == [k \in DOMAIN fields |-> <<[style |-> p.style, text |-> fields[k]]>>]
    IN  WrittenLine(words, <<"sp">>)

RECURSIVE Wrapped(_, _, _)
Wrapped(fields, p, depth) ==
    IF depth = 0 THEN p.carrier \o Carried(fields, p)
    ELSE Wrapped(<<<<"-", "S">> \o Carried(fields, p)>>, p, depth - 1)

LastOf(s, P(_), none) ==
    LET ks == {k \in DOMAIN s : P(s[k])}
    IN  IF ks = {} THEN none ELSE s[CHOOSE k \in ks : \A m \in ks : m <= k].with

ProgramMeans(p) ==
    LET does(w)   == \E k \in DOMAIN p.opts : p.opts[k].does = w
        clear     == does("ignore") \/ <<"-">> \in {p.end[k] : k \in DOMAIN p.end}
                     \/ "i" \in {p.carrier[k] : k \in DOMAIN p.carrier}
        cwd       == LastOf(p.opts, LAMBDA o : o.does = "chdir", Unset)
        names     == {p.opts[k].with : k \in {j \in DOMAIN p.opts : p.opts[j].does = "unset"}}
        signals   == LastOf(p.opts, LAMBDA o : o.does \in {"bad signal", "reset"}, "good")
        path      == LastOf([k \in DOMAIN p.assigns |-> [name |-> AssignedName(p.assigns[k]),
                                                        with |-> AssignedValue(p.assigns[k])]],
                            LAMBDA a : a.name = PathName,
                            IF clear \/ PathName \in names THEN Unset ELSE <<"inherited">>)
    IN  IF does("refused") THEN None
        ELSE IF p.depth > MaxSplits THEN Endless
        ELSE IF \/ signals = "bad"
                \/ cwd # Unset /\ cwd \notin Directories
                \/ ~clear /\ \E n \in names : n = <<>> \/ IsAssignment(n)
        THEN None
        ELSE [kind |-> "command", name |-> p.command, path |-> path, cwd |-> cwd]

(* tino looks for the command, along the path and from the directory, that *)
(* env would use, however the options are spelled and wrapped; a line that *)
(* splits for ever is reported and not taken for one without a command.    *)
RunsWhatEnvRuns(p) ==
    LET r == Runs(Wrapped(Fields(p), p, p.depth)) m == ProgramMeans(p)
    IN  r = m \/ (m = None /\ p.depth > MaxSplits /\ r = Endless)
=============================================================================
