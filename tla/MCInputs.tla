------------------------------ MODULE MCInputs ------------------------------
(***************************************************************************)
(* tino's readers of outside text, one case at a time: a behaviour takes   *)
(* one input from the sets below, and the invariants say what the reader   *)
(* makes of it.  Each kind of input is an action.                          *)
(***************************************************************************)
EXTENDS SettingsCases

Of(S, n) == [1..n -> S]
UpTo(S, n) == UNION {Of(S, k) : k \in 0..n}

----------------------------------------------------------------------------
(* Expansion: N is set, E set to nothing, U not set, B not Unicode. *)

EnvOf(name) == CASE name = <<"N">> -> <<"v", "$", "{">>
                 [] name = <<"E">> -> <<>>
                 [] name = <<"B">> -> <<"error">>
                 [] OTHER -> <<"unset">>
Expansion == INSTANCE Expansion WITH
    Env <- EnvOf, NameTokens <- {"N", "E", "U", "B"}, MaxDepth <- 2

Plain == {Expansion!Text(<<"x">>), Expansion!Text(<<":-">>), Expansion!Text(<<"$", "x">>),
          Expansion!Dollar}
         \cup {Expansion!Var(<<n>>) : n \in {"N", "E", "U", "B"}}
Braces == Expansion!Text(<<"{", "x", "}">>)
Nest(parts) == {Expansion!Default(<<n>>, t) : n \in {"N", "E", "U"}, t \in UpTo(parts, 2)}
               \cup {Expansion!Escaped(t) : t \in UpTo(parts \cup {Braces}, 2)}
Deep(parts) == {Expansion!Default(<<n>>, <<p>>) : n \in {"N", "U"}, p \in parts}
               \cup {Expansion!Escaped(<<p>>) : p \in parts}
Templates(parts) == UpTo(parts, 1) \cup {<<p, q>> : p \in parts, q \in Plain}

TakeTemplate ==
    \E t \in Templates(Plain \cup Nest(Plain)) \cup Templates(Nest(Deep(Plain)))
             \cup Templates(Deep(Deep(Deep(Plain)))) \cup Templates(Deep(Nest(Plain))) :
        kind' = "template" /\ input' = t

----------------------------------------------------------------------------

Shebang == INSTANCE Shebang WITH BufSize <- 6

TakeShebang ==
    \E body \in UpTo({"p", "q", "s", "n", "0"}, 6) :
        kind' = "shebang" /\ input' = <<"#", "!">> \o body

----------------------------------------------------------------------------
(* env: ${V} has a blank and a hash in it, ${U} is not set, ${L} is a -S    *)
(* of itself.                                                              *)

ValueOf(t) == CASE t = "V" -> <<"a", "sp", "hash">>
                [] t = "U" -> <<"unset">>
                [] t = "L" -> <<"-", "S", "L">>
OptionOf(t) == CASE t = "--unset" -> "unset"
                 [] t = "--chdir" -> "chdir"
                 [] t = "--ignore-e" -> "ignore-environment"
                 [] t = "--ignore" -> "none"
                 [] t = "--split" -> "split-string"
                 [] t = "--default" -> "default-signal"
                 [] t = "--block" -> "block-signal"
                 [] OTHER -> "text"
KindOf(t) == CASE t = "TERM" -> "usual" [] t = "KILL" -> "fixed" [] t = "33" -> "reserved"
               [] OTHER -> "none"
EnvShebang == INSTANCE EnvShebang WITH
    References <- {"V", "U", "L"}, Value <- ValueOf, Directories <- {<<"dir">>},
    LongOption <- OptionOf, SignalKind <- KindOf, MaxSplits <- 1

Pieces ==
    [style : {"bare"}, text : {<<"a">>, <<"V">>, <<"U">>}]
    \cup [style : {"single"},
          text : {<<>>, <<"sp">>, <<"V">>, <<"hash">>, <<"bs", "n">>, <<"bs", "sq", "bs">>,
                  <<"a", "dq", "$">>}]
    \cup [style : {"double"},
          text : {<<>>, <<"sp", "sq">>, <<"V">>, <<"U">>, <<"newline">>, <<"bs", "dq", "$">>}]
Words == UpTo(Pieces, 2) \ {<<>>}
LinesOfWords == {<<w>> : w \in Words}
    \cup {<<<<p>>, w, <<q>>>> : p \in Pieces, w \in Of(Pieces, 1), q \in Pieces}

TakeLine ==
    \E words \in LinesOfWords, blank \in {<<"sp">>, <<"bs", "us">>},
       end \in {<<>>, <<"hash", "sq">>, <<"bs", "c", "sq">>} :
        kind' = "line" /\ input' = [words |-> words, blank |-> blank, end |-> end]

Opt(fields, does, with) == [fields |-> fields, does |-> does, with |-> with]
EnvOptions ==
    { Opt(<<<<"-", "i">>>>, "ignore", ""),
      Opt(<<<<"--ignore-e">>>>, "ignore", ""),
      Opt(<<<<"--ignore">>>>, "refused", ""),
      Opt(<<<<"-", "v", "u">>, <<"PATH">>>>, "unset", <<"PATH">>),
      Opt(<<<<"--unset", "=", "PATH">>>>, "unset", <<"PATH">>),
      Opt(<<<<"-", "u", "a", "=">>>>, "unset", <<"a", "=">>),
      Opt(<<<<"--unset">>, <<>>>>, "unset", <<>>),
      Opt(<<<<"-", "C", "dir">>>>, "chdir", <<"dir">>),
      Opt(<<<<"--chdir">>, <<"nowhere">>>>, "chdir", <<"nowhere">>),
      Opt(<<<<"-", "a">>, <<"-">>>>, "nothing", ""),
      Opt(<<<<"--default", "=", "TERM", "KILL">>>>, "bad signal", "bad"),
      Opt(<<<<"--default">>>>, "reset", "good"),
      Opt(<<<<"--block", "=", "KILL">>>>, "nothing", ""),
      Opt(<<<<"--block", "=", "33">>>>, "refused", "") }
EnvPrograms(opts) ==
    [opts : opts,
     end : {<<>>, <<<<"-">>>>, <<<<"--">>>>, <<<<"--">>, <<"-">>>>},
     assigns : {<<>>, <<<<"PATH", "=", "dir">>, <<"a", "=", "=">>>>},
     command : {<<"a">>}, style : {"single", "double"},
     carrier : {<<"-", "S">>, <<"-", "v", "i", "S">>, <<"--split", "=">>}, depth : {0, 1, 2}]

TakeProgram ==
    \E n \in 0..2 : \E p \in EnvPrograms(Of(EnvOptions, n)) : kind' = "program" /\ input' = p

----------------------------------------------------------------------------

HeaderLenOf(class) == IF class = "64" THEN 2 ELSE 1
EntryLenOf(class) == IF class = "64" THEN 2 ELSE 1
ElfProbe == INSTANCE ElfProbe WITH
    Word <- 3, TaskSize <- 2, HeaderLen <- HeaderLenOf, EntryLen <- EntryLenOf,
    MaxTable <- 4, KernelTable <- 3, MaxInterp <- 3

Load(vaddr, memsz, executable) ==
    [type |-> "LOAD", offset |-> 9, filesz |-> 1, vaddr |-> vaddr, memsz |-> memsz,
     executable |-> executable, bytes |-> <<>>]
Loadable == {Load(v, m, x) : v \in {0, 1, 3}, m \in {0, 1, 2}, x \in BOOLEAN}
Naming ==
    [type : {"INTERP"}, offset : {2, 7}, filesz : 0..4, vaddr : {0}, memsz : {0},
     executable : {FALSE},
     bytes : {<<"p", "0", "q", "0", "0">>, <<"0", "0", "0", "0", "0">>,
              <<"p", "q", "0", "p", "p">>}]
Note == [Load(3, 3, FALSE) EXCEPT !.type = "NOTE", !.filesz = 9]
ElfFiles(lens, tables) ==
    [len : lens, magic : {TRUE}, little : {TRUE}, type : {"EXEC"}, native : {TRUE},
     class : {"32", "64"}, phoff : {1, 3}, entsize : {1, 2}, entry : {0, 2}, headers : tables]

TakeFile ==
    \E f \in ElfFiles({1, 4, 8}, UpTo(Loadable \cup Naming \cup {Note}, 2))
             \cup ElfFiles({8}, {<<i, j, Load(0, 1, TRUE)>> : i \in Naming, j \in Naming}) :
        kind' = "file" /\ input' = f

----------------------------------------------------------------------------
(* Settings *)

NumeralsOf == [t \in {"0", "1", "2", "3", "255", "300", "500", "65535", "65536"} |->
    CASE t = "0" -> 0 [] t = "1" -> 1 [] t = "2" -> 2 [] t = "3" -> 3 [] t = "255" -> 255
      [] t = "300" -> 300 [] t = "500" -> 500 [] t = "65535" -> 65535 [] t = "65536" -> 65536]
SignalsOf == [t \in {"TERM", "SIGTERM"} |-> "SIGTERM"]
Sound(s) == \A k \in DOMAIN s.lists["exec-allow"] : s.lists["exec-allow"][k] # <<"missing">>

With(name, value) == [name |-> name, attached |-> TRUE, value |-> value]
F(name) == Flag(name)
Texts == {<<>>, <<"/", "a">>, <<"sp", "/", "a">>, <<"/", "a", "sp", "hash">>, <<"a">>,
          <<"a", "/">>, <<"/", "a", "nl", "subreaper">>, <<"missing">>}
Options ==
    {F("subreaper"), F("warn-on-reap"), F("pgroup-kill"), F("verbose"), F("no-config"),
     F("explain"), F("check-config"), F("expand-env"), F("CMD"),
     [F("subreaper") EXCEPT !.attached = TRUE]}
    \cup {With("remap-exit", <<n>>) : n \in {"255", "300"}}
    \cup {With("bind-tcp-allow", <<n>>) : n \in {"0", "65535", "65536"}}
    \cup {With("grace-ms", <<n>>) : n \in {"0", "500"}}
    \cup {With("pdeath", <<n>>) : n \in {"TERM", "SIGTERM", "NOSIG"}}
    \cup {With("write-preset", <<"tmp">>)}
    \cup {With("write-allow", v) : v \in Texts}
    \cup {With("exec-allow", v) : v \in Texts}

EnvTexts == {<<"unset", "unset">>, <<"1", "unset">>, <<"unset", "1">>, <<"0", "1">>,
             <<"bad", "1">>, <<"1", "0">>, <<"unset", "0">>}
Verbosities == {<<"unset", "unset">>, <<"2", "unset">>, <<"unset", "255">>, <<"300", "1">>}
Surroundings(subs, pgs, levels) == [subreaper : subs, pgroup : pgs, verbosity : levels]
FewSurroundings == Surroundings({<<"unset", "unset">>, <<"1", "unset">>},
                                {<<"unset", "unset">>, <<"unset", "1">>},
                                {<<"unset", "unset">>, <<"2", "unset">>})

TakeOptions ==
    \E argv \in UpTo(Options, 2) \cup {<<F("verbose"), F("verbose"), F("verbose"), F("verbose")>>},
       env \in FewSurroundings :
        kind' = "options" /\ input' = [argv |-> argv, env |-> env]

Contents ==
    {TextFile(t) :
        t \in {<<>>, <<"subreaper", "nl", "hash", "x", "nl", "sp", "nl">>,
               <<"exec-allow", "sp", "/", "a", "sp", "nl", "exec-allow", "sp", "b", "nl">>,
               <<"verbosity", "sp", "3", "nl">>, <<"verbosity", "sp", "255">>,
               <<"unknown", "nl">>, <<"subreaper", "sp", "1", "nl">>,
               <<"write-allow", "nl">>, <<"grace-ms", "sp", "0", "nl", "pdeath", "sp", "TERM">>}}
    \cup {[is |-> w, text |-> <<>>] : w \in {"absent", "dangling", "irregular", "unreadable"}}

ASSUME InputsAreCases ==
    /\ Options \subseteq Argument /\ Contents \subseteq Files
    /\ \A a \in Options : a.name # "write-config"
    /\ PolicyLeavesModes({ParseArgs(argv, Defaults).settings : argv \in UpTo(Options, 2)})

TakeLookup ==
    \E argv \in {Append(a, F("CMD")) : a \in UpTo(Options, 1)}, opened \in Contents,
       inspected \in Contents, env \in Surroundings({<<"0", "unset">>}, {<<"1", "unset">>}, {<<"2", "unset">>}) :
        kind' = "lookup" /\ input' = [argv |-> argv, opened |-> opened,
                                      inspected |-> inspected, env |-> env]

TakeSurroundings ==
    \E argv \in UpTo({F("subreaper"), F("warn-on-reap"), F("pgroup-kill"), F("verbose")}, 2),
       env \in Surroundings(EnvTexts, EnvTexts, Verbosities) :
        kind' = "surroundings" /\ input' = [argv |-> argv, env |-> env]

----------------------------------------------------------------------------

Init == kind = "none" /\ input = <<>>

Next ==
    /\ kind = "none"
    /\ \/ TakeTemplate \/ TakeShebang \/ TakeLine \/ TakeProgram \/ TakeFile
       \/ TakeOptions \/ TakeLookup \/ TakeSurroundings

Spec == Init /\ [][Next]_<<kind, input>>

(* An argument under --expand-env becomes what its nesting says: a default  *)
(* ends at its own brace, whatever is written in it (child.rs, find_        *)
(* matching_brace, split_braced_default, expand_command_arg_with_depth).    *)
ExpandsAsMeant == kind = "template" => Expansion!ExpandsAsMeant(input)

(* The interpreter and argument tino reads from a "#!" line are those the   *)
(* kernel reads, up to the last byte it sees (mod.rs, parse_shebang).       *)
SeesWhatTheKernelSees == kind = "shebang" => Shebang!SeesWhatTheKernelSees(input)

(* A -S string is split where its quotes, escapes and blanks say, and       *)
(* values are not split again (mod.rs, split_env_split_string).             *)
SplitsAsQuoted ==
    kind = "line" => EnvShebang!SplitsAsQuoted(input.words, input.blank, input.end)

(* tino looks for the command that env would run, along the same PATH and   *)
(* from the same directory, however options are spelled and wrapped in -S   *)
(* (mod.rs, env_shebang_command_fields).                                    *)
RunsWhatEnvRuns ==
    /\ kind = "program" => EnvShebang!RunsWhatEnvRuns(input)
    /\ kind = "none" => EnvShebang!Runs(<<"-", "S", "L">>) = EnvShebang!Endless

(* The loader granted for an ELF file is the one the kernel would load it   *)
(* with, and a file it refuses gets the shell (mod.rs,                      *)
(* read_elf_interpreter_from_file).                                         *)
NamesTheLoader == kind = "file" => ElfProbe!NamesTheLoader(input)

(* What a script or program makes the kernel, env and the loader execute is *)
(* what the discovery of executables follows (mod.rs).                      *)
KnowsWhatRuns ==
    SeesWhatTheKernelSees /\ SplitsAsQuoted /\ RunsWhatEnvRuns /\ NamesTheLoader
=============================================================================
