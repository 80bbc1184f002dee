------------------------------ MODULE MCPolicy ------------------------------
(***************************************************************************)
(* A script run by env -S that finds its program along a PATH env sets,    *)
(* two candidates of one name, an alias of env, a loop of scripts, an      *)
(* interpreter that is a FIFO, an ELF program with its loader, an env that *)
(* is a program of many names; and every combination of the other options. *)
(***************************************************************************)
EXTENDS Policy, TLC

MCNames == {"main", "env", "alias", "sh", "prog1", "prog2", "ld"}

\* Inodes are named after what they hold.
MCInodes == {"envScript", "aliasScript", "loopScript", "brokenScript",
             "fifoScript", "elf", "static", "envElf", "ld", "hidden",
             "linkedBox", "sharedBox", "directory", "fifo"}
MCType == [i \in MCInodes |-> CASE i = "directory" -> "dir"
                                [] i = "fifo" -> "special"
                                [] OTHER -> "file"]
MCExecutable == MCInodes
MCReadable == MCInodes \ {"hidden"}

\* Context 0 is inherited, in context 1 env changed PATH; a loop adds to the
\* environment each time.
MCInterps(i, c) ==
    CASE i \in {"envScript", "fifoScript"} -> <<PathItem("env", c), CmdItem("prog", 1)>>
      [] i = "aliasScript" -> <<EnvItem("alias", c, CmdItem("prog", 1))>>
      [] i = "loopScript" -> <<PathItem("env", c), PathItem("main", IF c < 4 THEN c + 1 ELSE 1)>>
      [] i = "brokenScript" -> <<PathItem("env", c), Unresolved(c)>>
      [] i \in {"elf", "envElf"} -> <<PathItem("ld", c)>>
      [] OTHER -> <<>>

MCLinked == {"linkedBox"}
MCMulticall == {"linkedBox", "sharedBox"}

MCContexts == 0..4

MCFound(cmd, c) == IF c = 0 THEN <<"prog2", "main">> ELSE <<"prog1", "prog2">>

MCFiles(main) ==
    ("main" :> main) @@ ("env" :> IF main = "fifoScript" THEN "fifo" ELSE "envElf")
        @@ ("alias" :> "envElf")
        @@ ("sh" :> "static") @@ ("prog1" :> "elf") @@ ("prog2" :> "static")
        @@ ("ld" :> "ld")

\* env and its alias as one program of many names.
MCBox(box) ==
    [MCFiles("aliasScript") EXCEPT !["env"] = box, !["alias"] = box,
        !["sh"] = IF box = "sharedBox" THEN box ELSE @]

MCDirs == {"work", "tmp", "dev"}

Off == [writeRestrict |-> FALSE, writeAllow |-> {}, preset |-> FALSE,
        noDev |-> FALSE, exec |-> FALSE, ioctl |-> {}, bind |-> {},
        connect |-> {}, signals |-> FALSE, abstractUnix |-> FALSE,
        warnOnly |-> FALSE]

MainRoot == [mode |-> "Auto", item |-> PathItem("main", 0)]

\* Every combination of the options that name no executable.
OptionScenarios ==
    {[options |-> [Off EXCEPT !.writeRestrict = wr, !.writeAllow = wa,
          !.preset = p, !.noDev = nd, !.ioctl = io, !.bind = b, !.connect = co,
          !.signals = s, !.abstractUnix = u, !.warnOnly = w],
      files |-> MCFiles("static"), roots |-> <<MainRoot>>,
      abis |-> 0..7, present |-> {MCDirs, {"work"}}] :
        wr \in BOOLEAN, wa \in {{}, {"work"}}, p \in BOOLEAN, nd \in BOOLEAN,
        io \in {{}, {"dev"}}, b \in {{}, {1}}, co \in {{}, {0}, {2}},
        s \in BOOLEAN, u \in BOOLEAN, w \in BOOLEAN}

ExecScenarios ==
    {[options |-> [Off EXCEPT !.exec = TRUE, !.writeRestrict = TRUE,
          !.warnOnly = w],
      files |-> files,
      roots |-> <<[mode |-> "Auto", item |-> cmd],
                  [mode |-> "Strict", item |-> extra]>>,
      abis |-> {2, 6}, present |-> {MCDirs}] :
        w \in BOOLEAN, cmd \in {PathItem("main", 0), CmdItem("prog", 0)},
        files \in {MCFiles(main) : main \in {"envScript", "aliasScript", "loopScript",
                                         "brokenScript", "fifoScript", "elf", "hidden"}}
                    \cup {MCBox(box) : box \in MCMulticall},
        extra \in {PathItem("prog1", 0), CmdItem("prog", 0), PathItem("main", 0)}}

MCScenarios == OptionScenarios \cup ExecScenarios
=============================================================================
