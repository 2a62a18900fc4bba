------------------------------ MODULE CommandLine ------------------------------
(***************************************************************************)
(* main() of src/passkeeper.c with src/command.c: from the command line to *)
(* the body of a command's handler.  The vector is rewritten for --help,   *)
(* parsed with pk's own options up to the command, completed from the      *)
(* environment, the command is looked up, its requirements are checked,    *)
(* and its handler parses what is left with its own options.               *)
(*                                                                         *)
(* Init picks a command line together with what its user means by it.      *)
(***************************************************************************)
EXTENDS Reading, Similar, Integers

CONSTANTS
    CommandLines, \* records [args, cmd, means, rest, faults]: the arguments, the
                  \* command and the values the user means, the words left for the
                  \* command, and what is wrong with the line
    Databases,    \* what stat() and geteuid() may tell of the database file
    Environments, \* sets of environment variables that may be set
    Spelling      \* argument -> its letters

(* A command line is a vector; what follows a dash has no NUL in it. *)
ASSUME CommandLinesAssumption ==
    \A l \in CommandLines :
        /\ l.args \in Seq({l.args[i] : i \in DOMAIN l.args})
        /\ \A i \in DOMAIN l.args : l.args[i].form = "short" =>
               l.args[i].letters \in Seq(STRING \ {""})

VARIABLES
    pc,         \* main() and the handler
    said,       \* the command line
    cmd,        \* the command
    env,        \* the environment variables that are set
    db,         \* the database file
    suggestions \* the commands help_unknown_command() names

vars == <<parsevars, pc, said, cmd, env, db, suggestions>>
mainvars == <<said, env, db>>

MainOptions == <<
    OPTION_FILENAME("", "cred-db"), OPTION_FILENAME("", "cred-cc"),
    OPTION_FILENAME("", "tmp-rec"),
    OPTION_STRING("", "editor"), OPTION_OPTARG("", "spinner", {"ALLONEG"}),
    OPTION_GROUP, OPTION_COMMAND("init"), OPTION_COMMAND("create"),
    OPTION_COMMAND("read"), OPTION_COMMAND("update"), OPTION_COMMAND("delete"),
    OPTION_COMMAND("count"), OPTION_GROUP, OPTION_COMMAND("makekey"),
    OPTION_GROUP, OPTION_COMMAND("help"), OPTION_COMMAND("version")>>

OPTION__NANO   == OPTION_SWITCH("e", "nano")
OPTION__CMDKEY == OPTION_COUNTUP("k", "cmdkey")

CreateOptions == <<
    OPTION__NANO, OPTION__CMDKEY, OPTION_GROUP,
    OPTION_STRING("", "sitename"), OPTION_STRING("", "siteurl"),
    OPTION_STRING("", "username"), OPTION_STRING("", "password"), OPTION_GROUP,
    OPTION_STRING("", "guard"), OPTION_STRING("", "recovery"),
    OPTION_PATHNAME("", "memo"), OPTION_GROUP, OPTION_STRING("", "comment")>>

InitOptions == <<
    OPTION_COUNTUP("e", "encrypt"), OPTION__CMDKEY, OPTION_SWITCH("", "remember"),
    OPTION_COUNTUP("f", "force"), OPTION_GROUP,
    OPTION_STRING("", "kdf-algorithm"), OPTION_STRING("", "hmac-algorithm"),
    OPTION_UNSIGNED("", "cipher-compat"), OPTION_UNSIGNED("", "page-size"),
    OPTION_UNSIGNED("", "kdf-iter")>>

MakekeyOptions == <<OPTION_FILENAME("", "output"), OPTION_UNSIGNED("s", "size")>>
VersionOptions == <<OPTION_SWITCH("", "build-options")>>
CountOptions   == <<OPTION_STRING("", "search")>>

(* The handlers that parse options; the others are stubs. *)
OptionsOf == [create |-> CreateOptions, init |-> InitOptions,
              makekey |-> MakekeyOptions, version |-> VersionOptions, count |-> CountOptions]

PolicyOf(c) == IF c = "version" THEN "collect" ELSE "abort"

Commands == <<"count", "create", "delete", "help", "init", "makekey", "read", "update", "version">>

(* Every word that may be looked up is a sequence of letters. *)
ASSUME SpellingAssumption ==
    /\ \A l \in CommandLines : \A i \in DOMAIN l.args : Spelling[l.args[i]] \in Seq(STRING)
    /\ \A i \in DOMAIN Commands : Spelling[Word(Commands[i])] \in Seq(STRING)
    /\ Spelling[Word("pk")] \in Seq(STRING)

Requirements(c) ==
    (IF c \in {"count", "create", "delete", "read", "update"} THEN {"CREDDB"} ELSE {})
    \cup (IF c \in {"create", "update"} THEN {"RECFILE"} ELSE {})

Numeric == {"cipher-compat", "page-size", "kdf-iter", "size"}

(* The variables behind the options before anything is parsed; a number is its
   default. *)
Initially(name) ==
    CASE name \in {"nano", "remember"} -> -1
      [] name \in {"cmdkey", "encrypt", "force", "build-options"} -> 0
      [] name \in {"spinner", "search"} \cup Numeric -> <<[form |-> "builtin"]>>
      [] OTHER -> <<>>

OptionNames == {"cred-db", "cred-cc", "tmp-rec", "editor", "spinner", "nano", "cmdkey",
                "sitename", "siteurl", "username", "password", "guard", "recovery", "memo",
                "comment", "encrypt", "remember", "force", "kdf-algorithm", "hmac-algorithm",
                "output", "build-options", "search"} \cup Numeric

Init ==
    /\ said \in CommandLines /\ argv = said.args /\ argc0 = Len(said.args)
    /\ env \in Environments /\ db \in Databases
    /\ vals = [n \in OptionNames |-> Initially(n)]
    /\ pc = "main" /\ parse = "idle" /\ table = <<>> /\ policy = "until"
    /\ cur = 1 /\ idx = 0 /\ optstr = <<>> /\ parsed = 0
    /\ cmd = "none" /\ suggestions = <<>>
-------------------------------------------------------------------------------
(* "pk cmd --help" becomes "pk help cmd", "pk --help" becomes "pk help pk" and "pk"
   becomes "pk -h". *)
Rewritten(args) ==
    CASE Len(args) > 1 /\ args[2] = HelpOption -> [args EXCEPT ![1] = Word("help"), ![2] = args[1]]
      [] args = <<HelpOption>>                 -> <<Word("help"), Word("pk")>>
      [] args = <<>>                           -> <<Cluster(<<"h">>)>>
      [] OTHER                                 -> args

ParseMainOption ==
    /\ pc = "main" /\ pc' = "mainoptions"
    /\ Begin(MainOptions, "until", Rewritten(argv))
    /\ UNCHANGED <<mainvars, cmd, suggestions, vals>>

ParseStep ==
    /\ pc \in {"mainoptions", "options"}
    /\ Parse
    /\ UNCHANGED <<mainvars, pc, cmd, suggestions>>

(* Where a path or the editor comes from if no option gave it. *)
Variables(name) ==
    CASE name = "cred-db" -> <<"PK_CRED_DB">> [] name = "cred-cc" -> <<"PK_CRED_CC">>
      [] name = "tmp-rec" -> <<"PK_TMP_REC">> [] name = "editor" -> <<"PK_EDITOR", "VISUAL", "EDITOR">>

FromEnvironment(name) ==
    LET i == SelectInSeq(Variables(name), LAMBDA v : v \in env)
    IN  IF i # 0 THEN <<[form |-> "env", name |-> Variables(name)[i]]>>
        ELSE IF name = "editor" /\ "dumb" \in env THEN <<>>
        ELSE <<[form |-> "default", name |-> name]>>

InitEnval ==
    /\ pc = "mainoptions" /\ parse = "done" /\ pc' = "find"
    /\ vals' = [n \in OptionNames |->
                  IF n \in {"cred-db", "cred-cc", "tmp-rec", "editor"} /\ vals[n] = <<>>
                  THEN FromEnvironment(n) ELSE vals[n]]
    /\ UNCHANGED <<mainvars, table, policy, argv, argc0, cur, idx, optstr, parsed, parse,
                   cmd, suggestions>>

IsCommand(arg) == arg.form = "word" /\ \E i \in DOMAIN Commands : Commands[i] = arg.text

(* find_command() *)
FindCommand ==
    /\ pc = "find" /\ argv # <<>> /\ IsCommand(argv[1])
    /\ cmd' = argv[1].text /\ argv' = Tail(argv) /\ pc' = "precheck"
    /\ UNCHANGED <<mainvars, table, policy, argc0, cur, idx, optstr, parsed, vals, parse,
                   suggestions>>

(* Without a command find_command() compares NULL. *)
NoCommand ==
    /\ pc = "find" /\ argv = <<>> /\ pc' = "crashed"
    /\ UNCHANGED <<mainvars, parsevars, cmd, suggestions>>

HelpUnknownCommand ==
    /\ pc = "find" /\ argv # <<>> /\ ~IsCommand(argv[1]) /\ pc' = "unknown"
    /\ suggestions' = Approximate(Spelling[argv[1]], Commands,
                                   [i \in DOMAIN Commands |-> Spelling[Word(Commands[i])]])
    /\ UNCHANGED <<mainvars, parsevars, cmd>>

SkipPrecheck == \E i \in DOMAIN argv : argv[i] = Cluster(<<"h">>)

(* test_file_mode(): the bits of the first class the user belongs to. *)
MayAccess(d) == {"R", "W"} \subseteq d.bits[d.class]

(* access_regular() *)
AccessRegular(d) == d.kind = "regular" /\ MayAccess(d)

(* Mutant: the requirements are checked in the handler's stead. *)
Precheck_Never ==
    /\ pc = "precheck"
    /\ pc' = "handle"
    /\ UNCHANGED <<mainvars, parsevars, cmd, suggestions>>

(* precheck_command(); the directory of the record file can be made or not. *)
Precheck ==
    /\ pc = "precheck"
    /\ IF SkipPrecheck
       THEN pc' = "handle"
       ELSE \/ "RECFILE" \in Requirements(cmd) /\ pc' = "refused"
            \/ "CREDDB" \in Requirements(cmd) /\ ~AccessRegular(db) /\ pc' = "refused"
            \/ ("CREDDB" \in Requirements(cmd) => AccessRegular(db)) /\ pc' = "handle"
    /\ UNCHANGED <<mainvars, parsevars, cmd, suggestions>>

Handle ==
    /\ pc = "handle"
    /\ IF cmd \in DOMAIN OptionsOf
       THEN Begin(OptionsOf[cmd], PolicyOf(cmd), argv) /\ pc' = "options"
       ELSE UNCHANGED <<table, policy, argv, argc0, cur, idx, optstr, parsed, parse>> /\ pc' = "run"
    /\ UNCHANGED <<mainvars, vals, cmd, suggestions>>

Run ==
    /\ pc = "options" /\ parse = "done" /\ pc' = "run"
    /\ UNCHANGED <<mainvars, parsevars, cmd, suggestions>>

(* The parser exits by itself. *)
Ended == pc \in {"run", "crashed", "unknown", "refused"} \/ parse \in Exited

Next ==
    \/ ParseMainOption \/ ParseStep \/ InitEnval \/ FindCommand \/ NoCommand
    \/ HelpUnknownCommand \/ Precheck \/ Handle \/ Run
    \/ Ended /\ UNCHANGED vars

Spec == Init /\ [][Next]_vars
-------------------------------------------------------------------------------
(* What a line says: its reading up to the command, and the command's own. *)
MainReading(args) == Reading(MainOptions, "until", Rewritten(args))

OwnReading(c, args) ==
    IF c \in DOMAIN OptionsOf THEN Reading(OptionsOf[c], PolicyOf(c), args)
    ELSE Reads("ok", NoMeaning, args)

LineSays(args) ==
    LET main == MainReading(args)
        own  == OwnReading(main.rest[1].text, Tail(main.rest))
    IN  IF main.verdict # "ok" THEN main
        ELSE IF main.rest = <<>> THEN Reads("nothing", NoMeaning, <<>>)
        ELSE IF ~IsCommand(main.rest[1]) THEN Reads("unknown", NoMeaning, <<>>)
        ELSE Reads(own.verdict, Merged({}, main.means, own.means), own.rest)

(* What the user of a line means is what it says. *)
ASSUME MeaningAssumption ==
    \A l \in CommandLines :
        LET says == LineSays(l.args)
        IN  /\ says.verdict \in {"nothing", "dash"} => says.verdict \in l.faults
            /\ l.faults = {} => says.verdict = "ok"
            /\ says.verdict = "ok" =>
                   /\ l.faults \subseteq {"word"} /\ l.cmd = MainReading(l.args).rest[1].text
                   /\ l.means = says.means /\ l.rest = says.rest
-------------------------------------------------------------------------------
(***************************************************************************)
(* Properties.                                                             *)
(***************************************************************************)
(* What the user means, where nothing is said: the environment, then a default. *)
Meant(name) ==
    IF name \in DOMAIN said.means THEN said.means[name]
    ELSE IF name \in {"cred-db", "cred-cc", "tmp-rec", "editor"} THEN FromEnvironment(name)
    ELSE Initially(name)

(* A handler that gets to its body has the values its user meant and the words
   that are left, in their order, and its command line had nothing wrong with
   it; except that a lone "-" may pass for some option, and that what is no
   number passes for one and is dropped.  No number ever gets that far. *)
Understood ==
    pc = "run" /\ "dash" \notin said.faults =>
        /\ said.faults \subseteq {"word"}
        /\ cmd = said.cmd
        /\ \A n \in OptionNames : vals[n] = Meant(n)
        /\ argv = said.rest

(* A command line that is right is not refused. *)
RightAccepted ==
    said.faults = {} => parse \notin Exited /\ pc \notin {"crashed", "unknown"}

(* pk falls over its own command line only where a "-" stands for an option, or
   where pk's options are not followed by a command. *)
FallsOnlyOver ==
    /\ parse = "bug" => "dash" \in said.faults
    /\ pc = "crashed" => {"nothing", "dash"} \cap said.faults # {}

(* A command that needs the database starts only if it may read and write it,
   unless some argument, be it the value of an option, reads "-h". *)
DatabaseChecked ==
    pc = "run" /\ "CREDDB" \in Requirements(cmd) =>
        \/ AccessRegular(db)
        \/ \E i \in DOMAIN said.args : said.args[i] = Cluster(<<"h">>)

AllCommands == {Commands[i] : i \in DOMAIN Commands}
Place(c)    == CHOOSE i \in DOMAIN Commands : Commands[i] = c

(* What it takes to get from the word to a command: nothing from its beginning. *)
FarFrom(word) ==
    [c \in AllCommands |-> IF IsPrefix(word, Spelling[Word(c)]) THEN 0
                           ELSE Cost(word, Spelling[Word(c)])]

NearestTo(word) ==
    LET far == FarFrom(word)
        any == \A c \in AllCommands : far[c] = 0
    IN  {c \in AllCommands : /\ far[c] <= TooFar
                             /\ \A d \in AllCommands : far[c] <= far[d]
                             /\ any => Place(c) <= MostListed}

(* The commands that are suggested for an unknown one are those it takes least to
   get to, in the order of the list; a beginning of a command takes nothing.  When
   nothing is needed for any command, the first seven stand for all. *)
SuggestsNearest ==
    pc = "unknown" =>
        /\ {suggestions[i] : i \in DOMAIN suggestions} = NearestTo(Spelling[argv[1]])
        /\ \A i, j \in DOMAIN suggestions : i < j => Place(suggestions[i]) < Place(suggestions[j])
===============================================================================
