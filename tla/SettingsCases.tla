--------------------------- MODULE SettingsCases ---------------------------
(***************************************************************************)
(* What Settings promises, about one case at a time: a command line, what  *)
(* there is of a configuration file, and an environment.                   *)
(***************************************************************************)
EXTENDS Settings

VARIABLES
    kind,      \* which of its promises the case is about
    input      \* the case

(* Command lines, files and environments there can be: any words in any     *)
(* order, any text.                                                         *)
IsCase ==
    /\ kind \in {"options", "lookup", "surroundings"} => input.argv \in Seq(Argument)
    /\ kind = "lookup" => input.opened \in Files /\ input.inspected \in Files

(* The options of a case are those before --write-config, which it adds.    *)
WritesOnce ==
    kind = "options" => \A k \in DOMAIN input.argv : input.argv[k].name # "write-config"

(* Whether there is a Landlock policy for settings is a matter of what they *)
(* allow: collect_explain_platform looks neither at the modes nor, but for  *)
(* the command's own program and arguments, at whether there is a command.  *)
PolicyLeavesModes(S) ==
    \A s \in S, modes \in SUBSET ModeFlags, command \in BOOLEAN :
        PolicyIsSound([s EXCEPT !.modes = modes, !.command = command]) <=> PolicyIsSound(s)

(* A configuration that was written without an error gives a later run the  *)
(* settings that were written (cli.rs, config_text, parse_config_content).  *)
WrittenIsRead == kind = "options" => ReadsBack(input.argv, input.env)

(* Neither a run nor a check leaves out what the configuration file says:   *)
(* no run silently goes on with defaults while there is an entry it could   *)
(* not use (cli.rs, load_config), and --check-config refuses every other    *)
(* option, even one given its default value (cli.rs, grace_ms_supplied;     *)
(* platform/mod.rs, check_config_inline_option).                            *)
FileDecides ==
    /\ kind = "lookup" => NothingDiscarded(input.argv, input.opened, input.inspected, input.env)
    /\ kind = "options" => CheckJudgesTheFile(Append(input.argv, Flag("check-config")),
                                              TextFile(<<"subreaper", "nl">>), input.env)

(* The source that --explain names for a setting is the one that decides it *)
(* (platform/mod.rs, subreaper_source and its neighbours).                  *)
SourceDecides == kind = "surroundings" => SourcesAccount(input.argv, input.env)
=============================================================================
