--------------------------- MODULE CommandLineProofs ---------------------------
(***************************************************************************)
(* Theorems about main() and its parser, for any command line, any         *)
(* environment and any database file: where the parser reads and writes,   *)
(* what is suggested for an unknown command, what a lone "-" leads to, and *)
(* that each pass of the parser does what Reading makes of its arguments.  *)
(***************************************************************************)
EXTENDS CommandLine, SimilarProofs

Given     == {said.args[i] : i \in DOMAIN said.args}
Arguments == Given \cup {Word("help"), Word("pk")}
Dash      == Cluster(<<>>)
AskedHelp == Cluster(<<"h">>)
Parsing   == {"next", "short", "validate"}

(* The parser is at an argument or at the end of the vector, inside an option at
   an argument, and what it collects stays behind it. *)
InVector ==
    /\ idx \in Nat /\ cur \in Nat /\ idx < cur
    /\ parse \in Parsing => cur <= Len(argv) + 1
    /\ parse \in {"short", "validate"} => cur <= Len(argv)

(* "pk" alone is taken for "pk -h", and gets no further. *)
OnlyHelp ==
    /\ pc = "mainoptions" /\ parse \in {"next", "help"}
    /\ argv = <<AskedHelp>> /\ argc0 = 1 /\ cur = 1

(* Otherwise main() adds no argument but the words of "pk help pk". *)
ArgsInv ==
    /\ said.args \in Seq(Given)
    /\ argv \in Seq(Arguments) \/ OnlyHelp
    /\ policy \in {"until", "abort", "collect"}

CheckedInv ==
    pc \in {"handle", "options", "run"} /\ "CREDDB" \in Requirements(cmd) =>
        AccessRegular(db) \/ AskedHelp \in Given

(* No pass is under way where main() or a handler has not begun one. *)
StoppedInv == pc \in {"find", "precheck", "handle"} => parse = "done"

Inv == InVector /\ ArgsInv /\ CheckedInv /\ StoppedInv

LEMMA InitInv == Init => Inv
<1> SUFFICES ASSUME Init PROVE Inv
    OBVIOUS
<1>1. said.args \in Seq(Given)
      BY CommandLinesAssumption DEF Init, Given
<1>2. Given \subseteq Arguments
      BY DEF Arguments
<1>3. argv \in Seq(Arguments)
      BY <1>1, <1>2, SeqMonotonic DEF Init
<1> QED BY <1>1, <1>3 DEF Init, Inv, InVector, ArgsInv, CheckedInv, StoppedInv, Parsing
-------------------------------------------------------------------------------
(***************************************************************************)
(* The parser.                                                             *)
(***************************************************************************)
(* An option ends inside the vector, whatever value it takes. *)
LEMMA GetArgStays ==
    ASSUME NEW o, NEW unset, NEW short, NEW str, NEW next \in {"short", "validate"},
           GetArg(o, unset, short, str, next),
           cur \in Nat, Len(argv) \in Nat, cur <= Len(argv)
    PROVE  /\ cur' \in Nat /\ cur <= cur' /\ cur' <= Len(argv)
           /\ parse' \in {next, "error", "bug"}
<1>1. CASE TakeText(o, str, next)
      BY <1>1 DEF TakeText
<1>2. CASE UNCHANGED cur /\ parse' \in {next, "error", "bug"}
      BY <1>2
<1>3. TakeText(o, str, next) \/ (UNCHANGED cur /\ parse' \in {next, "error", "bug"})
      BY DEF GetArg, LacksText
<1> QED BY <1>1, <1>2, <1>3

(* What the parser leaves consists of what it was given. *)
LEMMA FinishKeeps ==
    ASSUME NEW S, argv \in Seq(S), idx \in Nat, NEW from \in Nat \ {0}, idx <= Len(argv),
           Finish(from)
    PROVE  argv' \in Seq(S)
<1>1. Len(argv) \in Nat /\ \A i \in 1 .. Len(argv) : argv[i] \in S
      BY ElementOfSeq
<1>2. SubSeq(argv, 1, idx) \in Seq(S)
      BY <1>1, SubSeqProperties
<1>3. SubSeq(argv, from, Len(argv)) \in Seq(S)
      BY <1>1, SubSeqProperties
<1> QED BY <1>2, <1>3, ConcatProperties DEF Finish

(* A pass over the vector. *)
LEMMA ParseKeeps ==
    ASSUME NEW S, argv \in Seq(S), InVector, policy \in {"until", "abort", "collect"}, Parse
    PROVE  InVector' /\ argv' \in Seq(S) /\ policy' = policy
<1>1. Len(argv) \in Nat
      BY LenProperties
<1>2. CASE AtEnd
  <2>1. Finish(cur) /\ cur \in Nat \ {0} /\ idx <= Len(argv) /\ parse = "next"
        BY <1>1, <1>2 DEF AtEnd, InVector, Parsing
  <2>2. argv' \in Seq(S)
        BY <2>1, FinishKeeps DEF InVector
  <2> QED BY <2>1, <2>2 DEF Finish, InVector, Parsing
<1>3. CASE NonOption
  <2>1. parse = "next" /\ cur <= Len(argv)
        BY <1>3 DEF NonOption, At
  <2>2. CASE policy = "abort"
        BY <1>3, <2>2 DEF NonOption, Stop, InVector, Parsing
  <2>3. CASE policy = "until"
    <3>1. Finish(cur) /\ cur \in Nat \ {0} /\ idx <= Len(argv)
          BY <1>1, <1>3, <2>1, <2>3 DEF NonOption, InVector
    <3>2. argv' \in Seq(S)
          BY <3>1, FinishKeeps DEF InVector
    <3> QED BY <3>1, <3>2 DEF Finish, InVector, Parsing
  <2>4. CASE policy = "collect"
    <3>1. /\ argv' = [argv EXCEPT ![idx + 1] = argv[cur]]
          /\ idx' = idx + 1 /\ cur' = cur + 1 /\ UNCHANGED <<policy, parse>>
          BY <1>3, <2>4 DEF NonOption
    <3>2. idx + 1 \in 1 .. Len(argv) /\ argv[cur] \in S
          BY <1>1, <2>1, ElementOfSeq DEF InVector
    <3>3. argv' \in Seq(S) /\ Len(argv') = Len(argv)
          BY <3>1, <3>2, ExceptSeq
    <3> QED BY <1>1, <2>1, <3>1, <3>3 DEF InVector, Parsing
  <2> QED BY <2>2, <2>3, <2>4
<1>4. CASE EndOfOptions
  <2>1. Finish(cur + 1) /\ cur + 1 \in Nat \ {0} /\ idx <= Len(argv) /\ parse = "next"
        BY <1>1, <1>4 DEF EndOfOptions, At, InVector, Parsing
  <2>2. argv' \in Seq(S)
        BY <2>1, FinishKeeps DEF InVector
  <2> QED BY <2>1, <2>2 DEF Finish, InVector, Parsing
<1>5. CASE AskForHelp \/ UnknownShort \/ UnclearOption
  <2>1. UNCHANGED <<argv, cur, idx, policy>> /\ parse' \in {"help", "unknown"}
        BY <1>5 DEF AskForHelp, UnknownShort, UnclearOption, Stop
  <2> QED BY <2>1 DEF InVector, Parsing
<1>6. CASE Shorts
      BY <1>6 DEF Shorts, At, InVector, Parsing
<1>7. CASE ShortOption
  <2>1. parse = "short" /\ UNCHANGED <<argv, idx, policy>>
        BY <1>7 DEF ShortOption
  <2>2. \E o, rest : GetArg(o, FALSE, TRUE, rest, "short")
        BY <1>7 DEF ShortOption
  <2>3. cur \in Nat /\ cur <= Len(argv)
        BY <2>1 DEF InVector
  <2>4. /\ cur' \in Nat /\ cur <= cur' /\ cur' <= Len(argv)
        /\ parse' \in {"short", "error", "bug"}
        BY <1>1, <2>2, <2>3, GetArgStays
  <2> QED BY <1>1, <2>1, <2>4 DEF InVector, Parsing
<1>8. CASE ExactOption \/ AbbreviatedOption
  <2>1. parse = "next" /\ cur <= Len(argv) /\ UNCHANGED <<argv, idx, policy>>
        BY <1>8 DEF ExactOption, AbbreviatedOption, At
  <2>2. \E o, unset, str : GetArg(o, unset, FALSE, str, "validate")
        BY <1>8 DEF ExactOption, AbbreviatedOption
  <2>3. cur \in Nat
        BY DEF InVector
  <2>4. /\ cur' \in Nat /\ cur <= cur' /\ cur' <= Len(argv)
        /\ parse' \in {"validate", "error", "bug"}
        BY <1>1, <2>1, <2>2, <2>3, GetArgStays
  <2> QED BY <1>1, <2>1, <2>4 DEF InVector, Parsing
<1>9. CASE Validate
  <2>1. parse \in {"short", "validate"} /\ UNCHANGED <<argv, idx, policy>>
        BY <1>9 DEF Validate, Stop
  <2>2. \/ parse' = "error" /\ cur' = cur
        \/ parse' = "next" /\ cur' = cur + 1
        BY <1>9 DEF Validate, Stop
  <2> QED BY <1>1, <2>1, <2>2 DEF InVector, Parsing
<1> QED BY <1>2, <1>3, <1>4, <1>5, <1>6, <1>7, <1>8, <1>9 DEF Parse

(* The parser answers the lone "-h". *)
LEMMA OnlyHelpKeeps ==
    ASSUME OnlyHelp, ParseStep
    PROVE  OnlyHelp' /\ UNCHANGED <<idx, policy>> /\ parse' \notin Parsing
<1> USE DEF OnlyHelp
<1>1. Parse /\ pc' = pc
      BY DEF ParseStep
<1>2. Len(argv) = 1 /\ argv[cur] = AskedHelp /\ argv[cur].form = "short" /\ IsLoneHelp
      BY DEF AskedHelp, Cluster, IsLoneHelp
<1>3. ~AtEnd
      BY <1>2 DEF AtEnd
<1>4. ~NonOption /\ ~EndOfOptions /\ ~ExactOption /\ ~AbbreviatedOption /\ ~UnclearOption
      BY <1>2 DEF NonOption, EndOfOptions, ExactOption, AbbreviatedOption, UnclearOption, At
<1>5. ~Shorts /\ ~ShortOption /\ ~UnknownShort /\ ~Validate
      BY <1>2 DEF Shorts, ShortOption, UnknownShort, Validate
<1>6. AskForHelp
      BY <1>1, <1>3, <1>4, <1>5 DEF Parse
<1> QED BY <1>1, <1>6 DEF AskForHelp, Stop, Parsing
-------------------------------------------------------------------------------
(***************************************************************************)
(* main().                                                                 *)
(***************************************************************************)
(* The vector that is parsed first. *)
LEMMA RewrittenArgs ==
    ASSUME NEW args \in Seq(Arguments)
    PROVE  Rewritten(args) \in Seq(Arguments) \/ Rewritten(args) = <<AskedHelp>>
<1>1. Len(args) \in Nat /\ \A i \in 1 .. Len(args) : args[i] \in Arguments
      BY LenProperties, ElementOfSeq
<1>2. Word("help") \in Arguments /\ Word("pk") \in Arguments
      BY DEF Arguments
<1>3. CASE Len(args) > 1 /\ args[2] = HelpOption
  <2>1. Rewritten(args) = [args EXCEPT ![1] = Word("help"), ![2] = args[1]]
        BY <1>3 DEF Rewritten
  <2>2. [args EXCEPT ![1] = Word("help")] \in Seq(Arguments)
        /\ Len([args EXCEPT ![1] = Word("help")]) = Len(args)
        BY <1>1, <1>2, <1>3, ExceptSeq
  <2>3. args[1] \in Arguments /\ 2 \in 1 .. Len(args)
        BY <1>1, <1>3
  <2> QED BY <2>1, <2>2, <2>3, ExceptSeq
<1>4. CASE ~(Len(args) > 1 /\ args[2] = HelpOption)
  <2>1. Rewritten(args) \in {<<Word("help"), Word("pk")>>, <<AskedHelp>>, args}
        BY <1>4 DEF Rewritten, AskedHelp
  <2>2. <<Word("help"), Word("pk")>> \in Seq(Arguments)
        BY <1>2
  <2> QED BY <2>1, <2>2
<1> QED BY <1>3, <1>4

(* The start of a pass over a vector. *)
LEMMA BeginKeeps ==
    ASSUME NEW options, NEW flags \in {"until", "abort", "collect"}, NEW args,
           Len(args) \in Nat, Begin(options, flags, args)
    PROVE  InVector' /\ policy' \in {"until", "abort", "collect"} /\ argv' = args
BY DEF Begin, InVector, Parsing

(* A "-h" among the arguments was given. *)
LEMMA AskedHelpGiven ==
    ASSUME argv \in Seq(Arguments), SkipPrecheck
    PROVE  AskedHelp \in Given
<1>1. AskedHelp \in Arguments
      BY LenProperties, ElementOfSeq DEF SkipPrecheck, AskedHelp
<1>2. AskedHelp # Word("help") /\ AskedHelp # Word("pk")
  <2>1. AskedHelp.form = "short" /\ Word("help").form = "word" /\ Word("pk").form = "word"
        BY DEF AskedHelp, Cluster, Word
  <2> QED BY <2>1
<1> QED BY <1>1, <1>2 DEF Arguments

LEMMA StepInv == Inv /\ [Next]_vars => Inv'
<1> SUFFICES ASSUME Inv, [Next]_vars PROVE Inv'
    OBVIOUS
<1> USE DEF Inv
<1>0. UNCHANGED said => Given' = Given /\ Arguments' = Arguments
      BY DEF Given, Arguments
<1>1. CASE ParseMainOption
  <2>1. /\ pc = "main" /\ pc' = "mainoptions" /\ UNCHANGED <<said, cmd, db>>
        /\ Begin(MainOptions, "until", Rewritten(argv))
        BY <1>1 DEF ParseMainOption, mainvars
  <2>2. Rewritten(argv) \in Seq(Arguments) \/ Rewritten(argv) = <<AskedHelp>>
        BY <2>1, RewrittenArgs DEF ArgsInv, OnlyHelp
  <2>3. Len(Rewritten(argv)) \in Nat
        BY <2>2, LenProperties
  <2>4. InVector' /\ policy' \in {"until", "abort", "collect"} /\ argv' = Rewritten(argv)
        BY <2>1, <2>3, BeginKeeps
  <2>5. argv' = <<AskedHelp>> => OnlyHelp'
        BY <2>1 DEF OnlyHelp, Begin, AskedHelp
  <2>6. ArgsInv'
        BY <1>0, <2>1, <2>2, <2>4, <2>5 DEF ArgsInv, StoppedInv
  <2> QED BY <2>1, <2>4, <2>6 DEF CheckedInv, StoppedInv
<1>2. CASE ParseStep
  <2>1. pc \in {"mainoptions", "options"} /\ Parse /\ UNCHANGED <<said, db, pc, cmd>>
        BY <1>2 DEF ParseStep, mainvars
  <2>2. CheckedInv'
        BY <1>0, <2>1 DEF CheckedInv
  <2>3. StoppedInv'
        BY <2>1 DEF StoppedInv
  <2>4. CASE argv \in Seq(Arguments)
    <3>1. InVector' /\ argv' \in Seq(Arguments) /\ policy' = policy
          BY <2>1, <2>4, ParseKeeps DEF ArgsInv
    <3> QED BY <1>0, <2>1, <2>2, <2>3, <3>1 DEF ArgsInv
  <2>5. CASE OnlyHelp
    <3>1. OnlyHelp' /\ UNCHANGED <<idx, policy>> /\ parse' \notin Parsing
          BY <1>2, <2>5, OnlyHelpKeeps
    <3>2. InVector'
          BY <2>5, <3>1 DEF InVector, OnlyHelp, Parsing
    <3> QED BY <1>0, <2>1, <2>2, <2>3, <3>1, <3>2 DEF ArgsInv
  <2> QED BY <2>4, <2>5 DEF ArgsInv
<1>3. CASE InitEnval
  <2>1. /\ pc = "mainoptions" /\ parse = "done" /\ pc' = "find"
        /\ UNCHANGED <<said, db, policy, argv, cur, idx, parse, cmd>>
        BY <1>3 DEF InitEnval, mainvars
  <2> QED BY <1>0, <2>1 DEF InVector, ArgsInv, OnlyHelp, CheckedInv, StoppedInv, Parsing
<1>4. CASE FindCommand
  <2>1. /\ pc = "find" /\ argv # <<>> /\ argv' = Tail(argv) /\ pc' = "precheck"
        /\ UNCHANGED <<said, db, policy, cur, idx, parse>>
        BY <1>4 DEF FindCommand, mainvars
  <2>2. argv' \in Seq(Arguments)
        BY <2>1, HeadTailProperties DEF ArgsInv, OnlyHelp
  <2> QED BY <1>0, <2>1, <2>2 DEF InVector, ArgsInv, CheckedInv, StoppedInv, Parsing
<1>5. CASE NoCommand \/ HelpUnknownCommand
  <2>1. /\ pc = "find" /\ pc' \in {"crashed", "unknown"}
        /\ UNCHANGED <<said, db, policy, argv, cur, idx, parse, cmd>>
        BY <1>5 DEF NoCommand, HelpUnknownCommand, mainvars, parsevars
  <2> QED BY <1>0, <2>1 DEF InVector, ArgsInv, OnlyHelp, CheckedInv, StoppedInv, Parsing
<1>6. CASE Precheck
  <2>1. pc = "precheck" /\ UNCHANGED <<said, db, policy, argv, cur, idx, parse, cmd>>
        BY <1>6 DEF Precheck, mainvars, parsevars
  <2>2. argv \in Seq(Arguments)
        BY <2>1 DEF ArgsInv, OnlyHelp
  <2>3. \/ pc' = "refused"
        \/ pc' = "handle" /\ (SkipPrecheck \/ ("CREDDB" \in Requirements(cmd) => AccessRegular(db)))
        BY <1>6 DEF Precheck
  <2>4. CheckedInv'
        BY <1>0, <2>1, <2>2, <2>3, AskedHelpGiven DEF CheckedInv
  <2> QED BY <1>0, <2>1, <2>2, <2>4 DEF InVector, ArgsInv, StoppedInv, Parsing
<1>7. CASE Handle
  <2>1. /\ pc = "handle" /\ pc' \in {"options", "run"} /\ UNCHANGED <<said, db, cmd>>
        /\ \/ Begin(OptionsOf[cmd], PolicyOf(cmd), argv)
           \/ UNCHANGED <<policy, argv, cur, idx, parse>>
        BY <1>7 DEF Handle, mainvars
  <2>2. argv \in Seq(Arguments) /\ Len(argv) \in Nat
        BY <2>1, LenProperties DEF ArgsInv, OnlyHelp
  <2>3. PolicyOf(cmd) \in {"until", "abort", "collect"}
        BY DEF PolicyOf
  <2>4. InVector' /\ policy' \in {"until", "abort", "collect"} /\ argv' = argv
    <3>1. CASE Begin(OptionsOf[cmd], PolicyOf(cmd), argv)
          BY <2>2, <2>3, <3>1, BeginKeeps
    <3>2. CASE UNCHANGED <<policy, argv, cur, idx, parse>>
          BY <3>2 DEF InVector, ArgsInv
    <3> QED BY <2>1, <3>1, <3>2
  <2>5. CheckedInv'
        BY <1>0, <2>1 DEF CheckedInv
  <2> QED BY <1>0, <2>1, <2>2, <2>4, <2>5 DEF ArgsInv, StoppedInv
<1>8. CASE Run
  <2>1. /\ pc = "options" /\ pc' = "run"
        /\ UNCHANGED <<said, db, policy, argv, cur, idx, parse, cmd>>
        BY <1>8 DEF Run, mainvars, parsevars
  <2> QED BY <1>0, <2>1 DEF InVector, ArgsInv, OnlyHelp, CheckedInv, StoppedInv
<1>9. CASE UNCHANGED vars
  <2>1. UNCHANGED <<said, db, pc, policy, argv, argc0, cur, idx, parse, cmd>>
        BY <1>9 DEF vars, parsevars
  <2> QED BY <1>0, <2>1 DEF InVector, ArgsInv, OnlyHelp, CheckedInv, StoppedInv
<1> QED BY <1>1, <1>2, <1>3, <1>4, <1>5, <1>6, <1>7, <1>8, <1>9 DEF Next
-------------------------------------------------------------------------------
(* The parser looks at the arguments of its vector and at the NULL behind them,
   and what it moves to the front overwrites nothing it has not looked at. *)
THEOREM ParserStaysInVector == Spec => []InVector
<1>1. Inv => InVector
      BY DEF Inv
<1> QED BY <1>1, InitInv, StepInv, PTL DEF Spec

(* The handler of a command that needs the database runs only if the file is one
   pk may read and write; a "-h" that lets it run all the same was given. *)
THEOREM DatabaseIsChecked == Spec => []DatabaseChecked
<1>1. Inv => DatabaseChecked
      BY DEF Inv, CheckedInv, DatabaseChecked, Given, AskedHelp
<1> QED BY <1>1, InitInv, StepInv, PTL DEF Spec
-------------------------------------------------------------------------------
(***************************************************************************)
(* What is suggested for an unknown command.                               *)
(***************************************************************************)
Spellings == [i \in DOMAIN Commands |-> Spelling[Word(Commands[i])]]

SuggestedInv ==
    /\ said \in CommandLines
    /\ pc = "unknown" =>
           /\ argv # <<>> /\ argv \in Seq(Arguments)
           /\ suggestions = Approximate(Spelling[argv[1]], Commands, Spellings)

LEMMA SuggestedInit == Init => SuggestedInv
BY DEF Init, SuggestedInv

LEMMA SuggestedStep == Inv /\ SuggestedInv /\ [Next]_vars => SuggestedInv'
<1> SUFFICES ASSUME Inv, SuggestedInv, [Next]_vars PROVE SuggestedInv'
    OBVIOUS
<1>0. UNCHANGED said => Arguments' = Arguments
      BY DEF Given, Arguments
<1>1. CASE HelpUnknownCommand
  <2>1. /\ pc = "find" /\ argv # <<>> /\ UNCHANGED <<said, argv>>
        /\ suggestions' = Approximate(Spelling[argv[1]], Commands, Spellings)
        BY <1>1 DEF HelpUnknownCommand, mainvars, parsevars, Spellings
  <2>2. argv \in Seq(Arguments)
        BY <2>1 DEF Inv, ArgsInv, OnlyHelp
  <2> QED BY <1>0, <2>1, <2>2 DEF SuggestedInv
<1>2. CASE UNCHANGED vars
      BY <1>0, <1>2 DEF vars, parsevars, SuggestedInv
<1>3. CASE ParseMainOption \/ ParseStep \/ InitEnval \/ FindCommand \/ NoCommand \/ Precheck
           \/ Handle \/ Run
  <2>1. UNCHANGED said /\ pc' # "unknown"
        BY <1>3 DEF ParseMainOption, ParseStep, InitEnval, FindCommand, NoCommand, Precheck,
                    Handle, Run, mainvars
  <2> QED BY <2>1 DEF SuggestedInv
<1> QED BY <1>1, <1>2, <1>3 DEF Next

LEMMA CommandsListed ==
    /\ Commands \in Seq({Commands[i] : i \in 1 .. 9}) /\ Len(Commands) = 9 /\ DOMAIN Commands = 1 .. 9
    /\ \A i, j \in 1 .. 9 : Commands[i] = Commands[j] => i = j
    /\ Commands[4] = "help"
<1>1. ASSUME NEW i \in 1 .. 9
      PROVE  i = 1 \/ i = 2 \/ i = 3 \/ i = 4 \/ i = 5 \/ i = 6 \/ i = 7 \/ i = 8 \/ i = 9
      OBVIOUS
<1>2. Len(Commands) = 9 /\ DOMAIN Commands = 1 .. 9 /\ Commands = [i \in 1 .. 9 |-> Commands[i]]
      BY DEF Commands
<1>4. Commands \in Seq({Commands[i] : i \in 1 .. 9})
  <2> DEFINE C == Commands
             S == {C[i] : i \in 1 .. 9}
  <2>1. C = [i \in 1 .. 9 |-> C[i]] /\ \A i \in 1 .. 9 : C[i] \in S
        BY <1>2
  <2> HIDE DEF C, S
  <2>2. C \in [1 .. 9 -> S]
        BY <2>1
  <2>3. C \in Seq(S)
        BY <2>2, SeqDef
  <2> QED BY <2>3 DEF C, S
<1>3. ASSUME NEW i \in 1 .. 9, NEW j \in 1 .. 9, Commands[i] = Commands[j]
      PROVE  i = j
      BY <1>1, <1>3 DEF Commands
<1> QED BY <1>2, <1>3, <1>4 DEF Commands

(* Every argument that may be looked up has letters. *)
LEMMA ArgumentSpelled ==
    ASSUME said \in CommandLines, NEW a \in Arguments
    PROVE  Spelling[a] \in Seq(STRING)
<1>1. CASE a \in Given
      BY <1>1, SpellingAssumption DEF Given
<1>2. CASE a = Word("help")
      BY <1>2, SpellingAssumption, CommandsListed
<1>3. CASE a = Word("pk")
      BY <1>3, SpellingAssumption
<1> QED BY <1>1, <1>2, <1>3 DEF Arguments

LEMMA DistanceIs ==
    ASSUME NEW s \in Seq(STRING), NEW t \in Seq(STRING)
    PROVE  /\ Distance(s, t) = IF IsPrefix(s, t) THEN 0 ELSE Cost(s, t)
           /\ Distance(s, t) \in Nat
BY LevenshteinIsCost DEF Distance, StartsWith

LEMMA PlaceIs == \A i \in 1 .. 9 : Place(Commands[i]) = i
BY CommandsListed DEF Place

(* What help_unknown_command() names for a word nobody knows are the commands it takes
   least to get to, for every command line and every spelling. *)
THEOREM SuggestionsAreNearest == Spec => []SuggestsNearest
<1>1. SuggestedInv => SuggestsNearest
  <2> SUFFICES ASSUME SuggestedInv, pc = "unknown" PROVE SuggestsNearest
      BY DEF SuggestsNearest
  <2> DEFINE word == Spelling[argv[1]]
             far  == FarFrom(word)
             dist == [i \in 1 .. 9 |-> Distance(word, Spellings[i])]
             any  == \A c \in AllCommands : far[c] = 0
             near == {c \in AllCommands : /\ far[c] <= TooFar
                                          /\ \A d \in AllCommands : far[c] <= far[d]
                                          /\ any => Place(c) <= MostListed}
  <2>1. word \in Seq(STRING)
    <3>1. argv[1] \in Arguments /\ said \in CommandLines
      <4>1. argv \in Seq(Arguments) /\ argv # <<>>
            BY DEF SuggestedInv
      <4>2. Len(argv) \in Nat /\ Len(argv) # 0
            BY <4>1, EmptySeq
      <4> QED BY <4>1, <4>2, ElementOfSeq DEF SuggestedInv
    <3> QED BY <3>1, ArgumentSpelled
  <2>2. \A i \in 1 .. 9 : Spellings[i] = Spelling[Word(Commands[i])] /\ Spellings[i] \in Seq(STRING)
        BY SpellingAssumption, CommandsListed DEF Spellings
  <2> HIDE DEF word
  <2>3. AllCommands = {Commands[i] : i \in 1 .. 9}
        BY CommandsListed DEF AllCommands
  <2>4. \A i \in 1 .. 9 : /\ dist[i] \in Nat /\ far[Commands[i]] = dist[i]
                          /\ dist[i] = Distance(word, Spellings[i])
        BY <2>1, <2>2, <2>3, DistanceIs DEF FarFrom
  <2>5. dist \in [1 .. 9 -> Nat]
        BY <2>4
  <2> HIDE DEF far, dist
  <2>6. any <=> NeedsNothing(9, dist)
        BY <2>3, <2>4 DEF NeedsNothing, MostListed
  <2>7. near = {Commands[i] : i \in NearestOf(9, dist)}
    <3> HIDE DEF any
    <3>1. ASSUME NEW i \in 1 .. 9
          PROVE  Commands[i] \in near <=> i \in NearestOf(9, dist)
      <4>1. /\ Commands[i] \in AllCommands /\ far[Commands[i]] = dist[i]
            /\ Place(Commands[i]) = i
            BY <2>3, <2>4, PlaceIs
      <4>2. (\A d \in AllCommands : dist[i] <= far[d]) <=> (\A j \in 1 .. 9 : dist[i] <= dist[j])
            BY <2>3, <2>4
      <4>3. Commands[i] \in near <=> /\ dist[i] <= TooFar
                                     /\ \A d \in AllCommands : dist[i] <= far[d]
                                     /\ any => i <= MostListed
            BY <4>1
      <4>4. i \in NearestOf(9, dist) <=> /\ dist[i] <= TooFar
                                         /\ \A j \in 1 .. 9 : dist[i] <= dist[j]
                                         /\ NeedsNothing(9, dist) => i <= MostListed
            BY DEF NearestOf
      <4> QED BY <2>6, <4>2, <4>3, <4>4
    <3>2. near \subseteq AllCommands /\ NearestOf(9, dist) \subseteq 1 .. 9
          BY DEF NearestOf
    <3> HIDE DEF near
    <3> QED BY <2>3, <3>1, <3>2
  <2> HIDE DEF near
  <2>8. Names(Commands, 9, NearestOf(9, dist), suggestions)
    <3>1. suggestions = Approximate(word, Commands, Spellings)
          BY DEF SuggestedInv, word
    <3>2. 9 \in Nat /\ 9 >= 1 /\ \A i \in 1 .. 9 : dist[i] = Distance(word, Spellings[i])
          BY <2>4
    <3> QED BY <2>5, <3>1, <3>2, CommandsListed, ApproximateIsNearest
  <2>9. \A i, j \in DOMAIN suggestions : i < j => Place(suggestions[i]) < Place(suggestions[j])
        BY <2>8, PlaceIs DEF Names, InOrder
  <2>10. {suggestions[i] : i \in DOMAIN suggestions} = near
        BY <2>7, <2>8 DEF Names
  <2>11. NearestTo(Spelling[argv[1]]) = near
         BY DEF NearestTo, near, far, word
  <2> QED BY <2>9, <2>10, <2>11 DEF SuggestsNearest
<1>2. Spec => [](Inv /\ SuggestedInv)
  <2>1. Init => Inv /\ SuggestedInv
        BY InitInv, SuggestedInit
  <2>2. Inv /\ SuggestedInv /\ [Next]_vars => (Inv /\ SuggestedInv)'
        BY StepInv, SuggestedStep
  <2> QED BY <2>1, <2>2, PTL DEF Spec
<1> QED BY <1>1, <1>2, PTL
-------------------------------------------------------------------------------
(***************************************************************************)
(* The option that is no option.  A group has no alias, and no letter of a *)
(* cluster is the empty one, unless the cluster is "-".                    *)
(***************************************************************************)
(* What a cluster may have; "h" among it. *)
Letter == (STRING \ {""}) \cup {"h"}

DashGiven == \E i \in DOMAIN said.args : said.args[i].form = "short" /\ said.args[i].letters = <<>>

IsNameless(o) == o.type = "GROUP" => o.alias = "" /\ o.flags = {}

GroupsNameless(options) ==
    /\ Len(options) \in Nat /\ DOMAIN options = 1 .. Len(options)
    /\ \A i \in DOMAIN options : IsNameless(options[i])

LettersInv ==
    /\ \A i \in DOMAIN said.args : said.args[i].form = "short" => said.args[i].letters \in Seq(Letter)
    /\ GroupsNameless(table)
    /\ parse = "short" /\ optstr # <<>> /\ ~DashGiven =>
           \E l \in Seq(Letter) : l # <<>> /\ optstr = <<Letters(l)>>
    /\ parse = "bug" => DashGiven

LEMMA MinOfSome ==
    ASSUME NEW n \in Nat, NEW I, I \subseteq 1 .. n, I # {}
    PROVE  Min(I) \in I
<1>0. I \subseteq Nat
      OBVIOUS
<1>1. \E m \in I : \A k \in I : m <= k
      BY <1>0, LeastNat
<1> QED BY <1>1 DEF Min

LEMMA OptionsNameless ==
    /\ IsNameless(OPTION_GROUP) /\ \A l : IsNameless(OPTION_COMMAND(l))
    /\ \A s, l : /\ IsNameless(OPTION_SWITCH(s, l)) /\ IsNameless(OPTION_COUNTUP(s, l))
                 /\ IsNameless(OPTION_UNSIGNED(s, l)) /\ IsNameless(OPTION_STRING(s, l))
                 /\ IsNameless(OPTION_FILENAME(s, l)) /\ IsNameless(OPTION_PATHNAME(s, l))
    /\ \A s, l, f : IsNameless(OPTION_OPTARG(s, l, f))
BY DEF IsNameless, Option, OPTION_GROUP, OPTION_COMMAND, OPTION_SWITCH, OPTION_COUNTUP,
       OPTION_UNSIGNED, OPTION_STRING, OPTION_FILENAME, OPTION_PATHNAME, OPTION_OPTARG

LEMMA TablesNameless ==
    /\ GroupsNameless(MainOptions)
    /\ \A c \in DOMAIN OptionsOf : GroupsNameless(OptionsOf[c])
<1>1. GroupsNameless(MainOptions)
  <2>1. Len(MainOptions) = 17 /\ DOMAIN MainOptions = 1 .. 17
        BY DEF MainOptions
  <2>2. /\ IsNameless(MainOptions[1]) /\ IsNameless(MainOptions[2])
        /\ IsNameless(MainOptions[3]) /\ IsNameless(MainOptions[4])
        /\ IsNameless(MainOptions[5]) /\ IsNameless(MainOptions[6])
        /\ IsNameless(MainOptions[7]) /\ IsNameless(MainOptions[8])
        /\ IsNameless(MainOptions[9]) /\ IsNameless(MainOptions[10])
        /\ IsNameless(MainOptions[11]) /\ IsNameless(MainOptions[12])
        /\ IsNameless(MainOptions[13]) /\ IsNameless(MainOptions[14])
        /\ IsNameless(MainOptions[15]) /\ IsNameless(MainOptions[16])
        /\ IsNameless(MainOptions[17])
        BY OptionsNameless DEF MainOptions
  <2>3. ASSUME NEW i \in 1 .. 17
        PROVE  i = 1 \/ i = 2 \/ i = 3 \/ i = 4 \/ i = 5 \/ i = 6 \/ i = 7 \/
               i = 8 \/ i = 9 \/ i = 10 \/ i = 11 \/ i = 12 \/ i = 13 \/ i = 14 \/
               i = 15 \/ i = 16 \/ i = 17
        OBVIOUS
  <2>4. \A i \in 1 .. 17 : IsNameless(MainOptions[i])
        BY <2>2, <2>3
  <2> QED BY <2>1, <2>4 DEF GroupsNameless
<1>2. GroupsNameless(CreateOptions)
  <2>1. Len(CreateOptions) = 13 /\ DOMAIN CreateOptions = 1 .. 13
        BY DEF CreateOptions
  <2>2. /\ IsNameless(CreateOptions[1]) /\ IsNameless(CreateOptions[2])
        /\ IsNameless(CreateOptions[3]) /\ IsNameless(CreateOptions[4])
        /\ IsNameless(CreateOptions[5]) /\ IsNameless(CreateOptions[6])
        /\ IsNameless(CreateOptions[7]) /\ IsNameless(CreateOptions[8])
        /\ IsNameless(CreateOptions[9]) /\ IsNameless(CreateOptions[10])
        /\ IsNameless(CreateOptions[11]) /\ IsNameless(CreateOptions[12])
        /\ IsNameless(CreateOptions[13])
        BY OptionsNameless DEF CreateOptions, OPTION__NANO, OPTION__CMDKEY
  <2>3. ASSUME NEW i \in 1 .. 13
        PROVE  i = 1 \/ i = 2 \/ i = 3 \/ i = 4 \/ i = 5 \/ i = 6 \/ i = 7 \/
               i = 8 \/ i = 9 \/ i = 10 \/ i = 11 \/ i = 12 \/ i = 13
        OBVIOUS
  <2>4. \A i \in 1 .. 13 : IsNameless(CreateOptions[i])
        BY <2>2, <2>3
  <2> QED BY <2>1, <2>4 DEF GroupsNameless
<1>3. GroupsNameless(InitOptions)
  <2>1. Len(InitOptions) = 10 /\ DOMAIN InitOptions = 1 .. 10
        BY DEF InitOptions
  <2>2. /\ IsNameless(InitOptions[1]) /\ IsNameless(InitOptions[2])
        /\ IsNameless(InitOptions[3]) /\ IsNameless(InitOptions[4])
        /\ IsNameless(InitOptions[5]) /\ IsNameless(InitOptions[6])
        /\ IsNameless(InitOptions[7]) /\ IsNameless(InitOptions[8])
        /\ IsNameless(InitOptions[9]) /\ IsNameless(InitOptions[10])
        BY OptionsNameless DEF InitOptions, OPTION__CMDKEY
  <2>3. ASSUME NEW i \in 1 .. 10
        PROVE  i = 1 \/ i = 2 \/ i = 3 \/ i = 4 \/ i = 5 \/ i = 6 \/ i = 7 \/
               i = 8 \/ i = 9 \/ i = 10
        OBVIOUS
  <2>4. \A i \in 1 .. 10 : IsNameless(InitOptions[i])
        BY <2>2, <2>3
  <2> QED BY <2>1, <2>4 DEF GroupsNameless
<1>4. GroupsNameless(MakekeyOptions)
  <2>1. Len(MakekeyOptions) = 2 /\ DOMAIN MakekeyOptions = 1 .. 2
        BY DEF MakekeyOptions
  <2>2. /\ IsNameless(MakekeyOptions[1]) /\ IsNameless(MakekeyOptions[2])
        BY OptionsNameless DEF MakekeyOptions
  <2>3. ASSUME NEW i \in 1 .. 2
        PROVE  i = 1 \/ i = 2
        OBVIOUS
  <2>4. \A i \in 1 .. 2 : IsNameless(MakekeyOptions[i])
        BY <2>2, <2>3
  <2> QED BY <2>1, <2>4 DEF GroupsNameless
<1>5. GroupsNameless(VersionOptions)
  <2>1. Len(VersionOptions) = 1 /\ DOMAIN VersionOptions = 1 .. 1
        BY DEF VersionOptions
  <2>2. /\ IsNameless(VersionOptions[1])
        BY OptionsNameless DEF VersionOptions
  <2>3. ASSUME NEW i \in 1 .. 1
        PROVE  i = 1
        OBVIOUS
  <2>4. \A i \in 1 .. 1 : IsNameless(VersionOptions[i])
        BY <2>2, <2>3
  <2> QED BY <2>1, <2>4 DEF GroupsNameless
<1>6. GroupsNameless(CountOptions)
  <2>1. Len(CountOptions) = 1 /\ DOMAIN CountOptions = 1 .. 1
        BY DEF CountOptions
  <2>2. /\ IsNameless(CountOptions[1])
        BY OptionsNameless DEF CountOptions
  <2>3. ASSUME NEW i \in 1 .. 1
        PROVE  i = 1
        OBVIOUS
  <2>4. \A i \in 1 .. 1 : IsNameless(CountOptions[i])
        BY <2>2, <2>3
  <2> QED BY <2>1, <2>4 DEF GroupsNameless
<1> QED BY <1>1, <1>2, <1>3, <1>4, <1>5, <1>6 DEF OptionsOf

(* What the lookups find. *)
LEMMA ExactIsLong ==
    ASSUME Len(table) \in Nat, NEW a, Exact(a) # 0
    PROVE  table[Exact(a)].type # "GROUP"
<1> DEFINE I == {i \in 1 .. Len(table) : /\ IsLong(table[i]) /\ table[i].name = a.stem
                                         /\ a.no => "ALLONEG" \in table[i].flags}
<1>1. Exact(a) = IF I # {} THEN Min(I) ELSE 0
      BY DEF Exact, SelectInSeq
<1>2. Exact(a) \in I
      BY <1>1, MinOfSome
<1> QED BY <1>2 DEF IsLong

LEMMA AliasFound ==
    ASSUME Len(table) \in Nat, NEW c, ByAlias(c) # 0
    PROVE  ByAlias(c) \in 1 .. Len(table) /\ table[ByAlias(c)].alias = c
<1> DEFINE I == {i \in 1 .. Len(table) : table[i].alias = c}
<1>1. ByAlias(c) = IF I # {} THEN Min(I) ELSE 0
      BY DEF ByAlias, SelectInSeq
<1> QED BY <1>1, MinOfSome

LEMMA AbbreviatedIsLong ==
    ASSUME GroupsNameless(table), NEW a, NEW i \in AbbreviatedBy(a)
    PROVE  table[i].type # "GROUP"
<1>1. IsNameless(table[i])
      BY DEF AbbreviatedBy, GroupsNameless
<1>2. IsLong(table[i]) \/ "ALLONEG" \in table[i].flags
      BY DEF AbbreviatedBy, Abbreviates, NegShortens, Shortens
<1> QED BY <1>1, <1>2 DEF IsLong, IsNameless

(* Only a group is a bug. *)
LEMMA GetArgOption ==
    ASSUME NEW o, o.type # "GROUP", NEW unset, NEW short, NEW str, NEW next,
           GetArg(o, unset, short, str, next)
    PROVE  parse' \in {next, "error"} /\ optstr' \in {str, <<>>}
BY DEF GetArg, TakeText, LacksText

LEMMA LettersInit == Init => LettersInv
<1> SUFFICES ASSUME Init PROVE LettersInv
    OBVIOUS
<1>1. \A i \in DOMAIN said.args : said.args[i].form = "short" => said.args[i].letters \in Seq(Letter)
  <2>1. STRING \ {""} \subseteq Letter
        BY DEF Letter
  <2>2. \A i \in DOMAIN said.args :
            said.args[i].form = "short" => said.args[i].letters \in Seq(STRING \ {""})
        BY CommandLinesAssumption DEF Init
  <2> QED BY <2>1, <2>2, SeqMonotonic
<1>2. GroupsNameless(table)
      BY DEF Init, GroupsNameless
<1> QED BY <1>1, <1>2 DEF Init, LettersInv

(* The letters of a cluster are looked at one after the other. *)
LEMMA ShortLetters ==
    ASSUME LettersInv, ShortOption, UNCHANGED said
    PROVE  LettersInv'
<1>1. /\ parse = "short" /\ optstr # <<>> /\ UNCHANGED table /\ DashGiven' = DashGiven
      /\ \A i \in DOMAIN said'.args : said'.args[i].form = "short" => said'.args[i].letters \in Seq(Letter)
      BY DEF ShortOption, LettersInv, DashGiven
<1>2. CASE DashGiven
      BY <1>1, <1>2 DEF LettersInv, GroupsNameless
<1>3. CASE ~DashGiven
  <2>1. PICK l \in Seq(Letter) : l # <<>> /\ optstr = <<Letters(l)>>
        BY <1>1, <1>3 DEF LettersInv
  <2>2. optstr[1].letters = l
        BY <2>1 DEF Letters
  <2>3. Head(l) \in Letter /\ Tail(l) \in Seq(Letter) /\ Len(Tail(l)) = Len(l) - 1 /\ Len(l) \in Nat \ {0}
        BY <2>1, HeadTailProperties, EmptySeq
  <2>4. FirstLetter(l) # ""
        BY <2>1, <2>3 DEF FirstLetter, Letter
  <2>5. /\ ByAlias(FirstLetter(l)) # 0
        /\ \E rest \in RestOf(l) :
               GetArg(table[ByAlias(FirstLetter(l))], FALSE, TRUE, rest, "short")
        BY <2>2 DEF ShortOption
  <2>6. PICK rest \in RestOf(l) :
               GetArg(table[ByAlias(FirstLetter(l))], FALSE, TRUE, rest, "short")
        BY <2>5
  <2>7. table[ByAlias(FirstLetter(l))].type # "GROUP"
        BY <2>4, <2>5, AliasFound DEF LettersInv, GroupsNameless, IsNameless
  <2>8. parse' \in {"short", "error"} /\ optstr' \in {rest, <<>>}
        BY <2>6, <2>7, GetArgOption
  <2>9. rest = <<>> \/ (rest = <<Letters(Tail(l))>> /\ Tail(l) # <<>>)
        BY <2>1, <2>3, EmptySeq DEF RestOf
  <2>10. optstr' # <<>> => \E k \in Seq(Letter) : k # <<>> /\ optstr' = <<Letters(k)>>
        BY <2>3, <2>8, <2>9
  <2> QED BY <1>1, <2>8, <2>10 DEF LettersInv, GroupsNameless
<1> QED BY <1>2, <1>3

LEMMA LettersParse ==
    ASSUME Inv, LettersInv, ParseStep
    PROVE  LettersInv'
<1>1. Parse /\ UNCHANGED said
      BY DEF ParseStep, mainvars
<1>2. UNCHANGED table /\ DashGiven' = DashGiven
  <2>1. NonOption => UNCHANGED table
        BY DEF Inv, ArgsInv, NonOption, Stop, Finish
  <2>2. Parse /\ ~NonOption => UNCHANGED table
        BY DEF Parse, AtEnd, EndOfOptions, AskForHelp, Shorts, ShortOption, UnknownShort,
               ExactOption, AbbreviatedOption, UnclearOption, Validate, Finish, Stop
  <2> QED BY <1>1, <2>1, <2>2 DEF DashGiven
<1>3. \A i \in DOMAIN said'.args : said'.args[i].form = "short" => said'.args[i].letters \in Seq(Letter)
      BY <1>1 DEF LettersInv
<1>4. GroupsNameless(table')
      BY <1>2 DEF LettersInv, GroupsNameless
<1>5. CASE parse' \notin {"short", "bug"}
      BY <1>3, <1>4, <1>5 DEF LettersInv, GroupsNameless
<1>6. CASE ShortOption
      BY <1>1, <1>6, ShortLetters
<1>7. CASE Shorts
  <2>1. /\ parse = "next" /\ cur <= Len(argv) /\ argv[cur].form = "short" /\ ~IsLoneHelp
        /\ optstr' = <<Letters(argv[cur].letters)>> /\ parse' = "short"
        BY <1>7 DEF Shorts, At
  <2>2. argv \in Seq(Arguments)
        BY <2>1 DEF Inv, ArgsInv, OnlyHelp, IsLoneHelp, AskedHelp
  <2>3. cur \in 1 .. Len(argv)
        BY <2>1, <2>2, LenProperties DEF Inv, InVector
  <2>4. argv[cur] \in Arguments
        BY <2>2, <2>3, ElementOfSeq
  <2>5. argv[cur] \in Given
        BY <2>1, <2>4 DEF Arguments, Word
  <2>6. /\ argv[cur].letters \in Seq(Letter)
        /\ argv[cur].letters = <<>> => DashGiven
        BY <2>1, <2>5 DEF Given, LettersInv, DashGiven
  <2> QED BY <1>2, <1>3, <1>4, <2>1, <2>6 DEF LettersInv, GroupsNameless
<1>8. CASE ExactOption \/ AbbreviatedOption
  <2>1. \E o, unset, str : o.type # "GROUP" /\ GetArg(o, unset, FALSE, str, "validate")
    <3>1. CASE ExactOption
          BY <3>1, ExactIsLong DEF ExactOption, LettersInv, GroupsNameless
    <3>2. CASE AbbreviatedOption
          BY <3>2, AbbreviatedIsLong DEF AbbreviatedOption, LettersInv
    <3> QED BY <1>8, <3>1, <3>2
  <2>2. parse' \in {"validate", "error"}
        BY <2>1, GetArgOption
  <2> QED BY <1>5, <2>2
<1>9. CASE AtEnd \/ NonOption \/ EndOfOptions \/ AskForHelp \/ UnknownShort \/ UnclearOption \/ Validate
  <2>1. parse' \notin {"short", "bug"}
        BY <1>9 DEF Inv, ArgsInv, AtEnd, NonOption, EndOfOptions, AskForHelp, UnknownShort,
                    UnclearOption, Validate, At, Finish, Stop
  <2> QED BY <1>5, <2>1
<1> QED BY <1>1, <1>6, <1>7, <1>8, <1>9 DEF Parse

LEMMA LettersStep == Inv /\ LettersInv /\ [Next]_vars => LettersInv'
<1> SUFFICES ASSUME Inv, LettersInv, [Next]_vars PROVE LettersInv'
    OBVIOUS
<1>1. CASE ParseStep
      BY <1>1, LettersParse
<1>2. CASE ParseMainOption \/ Handle
  <2>1. UNCHANGED said
        BY <1>2 DEF ParseMainOption, Handle, mainvars
  <2>2. \/ parse' = "next" /\ GroupsNameless(table')
        \/ UNCHANGED <<parse, optstr, table>>
        BY <1>2, TablesNameless DEF ParseMainOption, Handle, Begin
  <2> QED BY <2>1, <2>2 DEF LettersInv, DashGiven, GroupsNameless
<1>3. CASE InitEnval \/ FindCommand \/ NoCommand \/ HelpUnknownCommand \/ Precheck \/ Run \/ UNCHANGED vars
  <2>1. UNCHANGED <<said, parse, optstr, table>>
        BY <1>3 DEF InitEnval, FindCommand, NoCommand, HelpUnknownCommand, Precheck, Run, vars,
                    parsevars, mainvars
  <2> QED BY <2>1 DEF LettersInv, DashGiven, GroupsNameless
<1> QED BY <1>1, <1>2, <1>3 DEF Next

(* The parser meets an option it has no way to read only where the user gave "-". *)
THEOREM BugOnlyOverDash == Spec => [](parse = "bug" => DashGiven)
<1>1. LettersInv => (parse = "bug" => DashGiven)
      BY DEF LettersInv
<1>2. Spec => [](Inv /\ LettersInv)
  <2>1. Init => Inv /\ LettersInv
        BY InitInv, LettersInit
  <2>2. Inv /\ LettersInv /\ [Next]_vars => (Inv /\ LettersInv)'
        BY StepInv, LettersStep
  <2> QED BY <2>1, <2>2, PTL DEF Spec
<1> QED BY <1>1, <1>2, PTL

-------------------------------------------------------------------------------
(***************************************************************************)
(* The tables.  What can be named on a command line has a name of N and    *)
(* one of a few shapes; a group or a command cannot be named.              *)
(***************************************************************************)
Counting == {"cmdkey", "encrypt", "force"}
Located  == {"cred-db", "cred-cc", "tmp-rec", "editor"}

MainNames == Located \cup {"spinner"}
OwnNames  == OptionNames \ MainNames

IsUnnamed(o) ==
    o.type \in {"GROUP", "STRING"} /\ o.alias = "" /\ ~IsLong(o) /\ "ALLONEG" \notin o.flags

IsProper(N, o) ==
    /\ o.name \in N
    /\ o.type = "COUNTUP" <=> o.name \in Counting
    /\ \/ o.type = "COUNTUP" /\ o.flags = {"NOARG"}
       \/ o.type = "INTEGER" /\ o.flags = {"NOARG", "ALLONEG"}
       \/ o.type = "INTEGER" /\ o.flags = {"UNSIGNED"}
       \/ o.type = "STRING" /\ o.flags \subseteq {"OPTARG", "ALLONEG"}
       \/ o.type = "FILENAME" /\ o.flags \subseteq {"REALPATH"}
    /\ o.name \in Located => o.type \in {"STRING", "FILENAME"} /\ o.flags = {}

IsSound(N, o) == IsUnnamed(o) \/ IsProper(N, o)

IsTable(N, options) ==
    /\ Len(options) \in Nat /\ DOMAIN options = 1 .. Len(options)
    /\ \A i \in 1 .. Len(options) : IsSound(N, options[i])

LEMMA NamesSplit ==
    /\ Counting \subseteq OwnNames /\ Located \subseteq MainNames
    /\ MainNames \subseteq OptionNames /\ MainNames \cap OwnNames = {}
    /\ OptionNames = MainNames \cup OwnNames
BY DEF Counting, OwnNames, OptionNames, MainNames, Located, Numeric

LEMMA UnnamedOptions ==
    ASSUME NEW N
    PROVE  IsSound(N, OPTION_GROUP) /\ \A l : IsSound(N, OPTION_COMMAND(l))
BY DEF IsSound, IsUnnamed, Option, OPTION_GROUP, OPTION_COMMAND, IsLong

LEMMA ProperOptions ==
    ASSUME NEW N, NEW s, NEW l \in N
    PROVE  /\ l \in Counting /\ l \notin Located => IsSound(N, OPTION_COUNTUP(s, l))
           /\ l \notin Counting /\ l \notin Located =>
                  /\ IsSound(N, OPTION_SWITCH(s, l)) /\ IsSound(N, OPTION_UNSIGNED(s, l))
                  /\ IsSound(N, OPTION_PATHNAME(s, l))
                  /\ IsSound(N, OPTION_OPTARG(s, l, {"ALLONEG"}))
           /\ l \notin Counting =>
                  IsSound(N, OPTION_STRING(s, l)) /\ IsSound(N, OPTION_FILENAME(s, l))
BY DEF IsSound, IsProper, Option, OPTION_SWITCH, OPTION_COUNTUP, OPTION_UNSIGNED, OPTION_STRING,
       OPTION_FILENAME, OPTION_PATHNAME, OPTION_OPTARG

LEMMA Tables ==
    /\ IsTable(MainNames, MainOptions)
    /\ \A c \in DOMAIN OptionsOf : IsTable(OwnNames, OptionsOf[c])
<1>1. IsTable(MainNames, MainOptions)
  <2>1. Len(MainOptions) = 17 /\ DOMAIN MainOptions = 1 .. 17
        BY DEF MainOptions
  <2>2. /\ "cred-db" \in MainNames /\ "cred-db" \notin Counting
        /\ "cred-cc" \in MainNames /\ "cred-cc" \notin Counting
        /\ "tmp-rec" \in MainNames /\ "tmp-rec" \notin Counting
        /\ "editor" \in MainNames /\ "editor" \notin Counting
        /\ "spinner" \in MainNames /\ "spinner" \notin Counting /\ "spinner" \notin Located
        BY DEF MainNames, OwnNames, OptionNames, Located, Counting, Numeric
  <2>3. /\ IsSound(MainNames, MainOptions[1]) /\ IsSound(MainNames, MainOptions[2])
        /\ IsSound(MainNames, MainOptions[3]) /\ IsSound(MainNames, MainOptions[4])
        /\ IsSound(MainNames, MainOptions[5]) /\ IsSound(MainNames, MainOptions[6])
        /\ IsSound(MainNames, MainOptions[7]) /\ IsSound(MainNames, MainOptions[8])
        /\ IsSound(MainNames, MainOptions[9]) /\ IsSound(MainNames, MainOptions[10])
        /\ IsSound(MainNames, MainOptions[11]) /\ IsSound(MainNames, MainOptions[12])
        /\ IsSound(MainNames, MainOptions[13]) /\ IsSound(MainNames, MainOptions[14])
        /\ IsSound(MainNames, MainOptions[15]) /\ IsSound(MainNames, MainOptions[16])
        /\ IsSound(MainNames, MainOptions[17])
        BY <2>2, UnnamedOptions, ProperOptions DEF MainOptions
  <2>4. ASSUME NEW i \in 1 .. 17
        PROVE  i = 1 \/ i = 2 \/ i = 3 \/ i = 4 \/ i = 5 \/ i = 6 \/ i = 7 \/ i = 8 \/ i = 9 \/
               i = 10 \/ i = 11 \/ i = 12 \/ i = 13 \/ i = 14 \/ i = 15 \/ i = 16 \/ i = 17
        OBVIOUS
  <2>5. \A i \in 1 .. 17 : IsSound(MainNames, MainOptions[i])
        BY <2>3, <2>4
  <2> QED BY <2>1, <2>5 DEF IsTable
<1>2. IsTable(OwnNames, CreateOptions)
  <2>1. Len(CreateOptions) = 13 /\ DOMAIN CreateOptions = 1 .. 13
        BY DEF CreateOptions
  <2>2. /\ "nano" \in OwnNames /\ "nano" \notin Counting /\ "nano" \notin Located
        /\ "cmdkey" \in OwnNames /\ "cmdkey" \in Counting /\ "cmdkey" \notin Located
        /\ "sitename" \in OwnNames /\ "sitename" \notin Counting /\ "sitename" \notin Located
        /\ "siteurl" \in OwnNames /\ "siteurl" \notin Counting /\ "siteurl" \notin Located
        /\ "username" \in OwnNames /\ "username" \notin Counting /\ "username" \notin Located
        /\ "password" \in OwnNames /\ "password" \notin Counting /\ "password" \notin Located
        /\ "guard" \in OwnNames /\ "guard" \notin Counting /\ "guard" \notin Located
        /\ "recovery" \in OwnNames /\ "recovery" \notin Counting /\ "recovery" \notin Located
        /\ "memo" \in OwnNames /\ "memo" \notin Counting /\ "memo" \notin Located
        /\ "comment" \in OwnNames /\ "comment" \notin Counting /\ "comment" \notin Located
        BY DEF MainNames, OwnNames, OptionNames, Located, Counting, Numeric
  <2>3. /\ IsSound(OwnNames, CreateOptions[1]) /\ IsSound(OwnNames, CreateOptions[2])
        /\ IsSound(OwnNames, CreateOptions[3]) /\ IsSound(OwnNames, CreateOptions[4])
        /\ IsSound(OwnNames, CreateOptions[5]) /\ IsSound(OwnNames, CreateOptions[6])
        /\ IsSound(OwnNames, CreateOptions[7]) /\ IsSound(OwnNames, CreateOptions[8])
        /\ IsSound(OwnNames, CreateOptions[9]) /\ IsSound(OwnNames, CreateOptions[10])
        /\ IsSound(OwnNames, CreateOptions[11]) /\ IsSound(OwnNames, CreateOptions[12])
        /\ IsSound(OwnNames, CreateOptions[13])
        BY <2>2, UnnamedOptions, ProperOptions DEF CreateOptions, OPTION__NANO, OPTION__CMDKEY
  <2>4. ASSUME NEW i \in 1 .. 13
        PROVE  i = 1 \/ i = 2 \/ i = 3 \/ i = 4 \/ i = 5 \/ i = 6 \/ i = 7 \/ i = 8 \/ i = 9 \/
               i = 10 \/ i = 11 \/ i = 12 \/ i = 13
        OBVIOUS
  <2>5. \A i \in 1 .. 13 : IsSound(OwnNames, CreateOptions[i])
        BY <2>3, <2>4
  <2> QED BY <2>1, <2>5 DEF IsTable
<1>3. IsTable(OwnNames, InitOptions)
  <2>1. Len(InitOptions) = 10 /\ DOMAIN InitOptions = 1 .. 10
        BY DEF InitOptions
  <2>2. /\ "encrypt" \in OwnNames /\ "encrypt" \in Counting /\ "encrypt" \notin Located
        /\ "cmdkey" \in OwnNames /\ "cmdkey" \in Counting /\ "cmdkey" \notin Located
        /\ "remember" \in OwnNames /\ "remember" \notin Counting /\ "remember" \notin Located
        /\ "force" \in OwnNames /\ "force" \in Counting /\ "force" \notin Located
        /\ "kdf-algorithm" \in OwnNames /\ "kdf-algorithm" \notin Counting /\ "kdf-algorithm" \notin Located
        /\ "hmac-algorithm" \in OwnNames /\ "hmac-algorithm" \notin Counting /\ "hmac-algorithm" \notin Located
        /\ "cipher-compat" \in OwnNames /\ "cipher-compat" \notin Counting /\ "cipher-compat" \notin Located
        /\ "page-size" \in OwnNames /\ "page-size" \notin Counting /\ "page-size" \notin Located
        /\ "kdf-iter" \in OwnNames /\ "kdf-iter" \notin Counting /\ "kdf-iter" \notin Located
        BY DEF MainNames, OwnNames, OptionNames, Located, Counting, Numeric
  <2>3. /\ IsSound(OwnNames, InitOptions[1]) /\ IsSound(OwnNames, InitOptions[2])
        /\ IsSound(OwnNames, InitOptions[3]) /\ IsSound(OwnNames, InitOptions[4])
        /\ IsSound(OwnNames, InitOptions[5]) /\ IsSound(OwnNames, InitOptions[6])
        /\ IsSound(OwnNames, InitOptions[7]) /\ IsSound(OwnNames, InitOptions[8])
        /\ IsSound(OwnNames, InitOptions[9]) /\ IsSound(OwnNames, InitOptions[10])
        BY <2>2, UnnamedOptions, ProperOptions DEF InitOptions, OPTION__CMDKEY
  <2>4. ASSUME NEW i \in 1 .. 10
        PROVE  i = 1 \/ i = 2 \/ i = 3 \/ i = 4 \/ i = 5 \/ i = 6 \/ i = 7 \/ i = 8 \/ i = 9 \/
               i = 10
        OBVIOUS
  <2>5. \A i \in 1 .. 10 : IsSound(OwnNames, InitOptions[i])
        BY <2>3, <2>4
  <2> QED BY <2>1, <2>5 DEF IsTable
<1>4. IsTable(OwnNames, MakekeyOptions)
  <2>1. Len(MakekeyOptions) = 2 /\ DOMAIN MakekeyOptions = 1 .. 2
        BY DEF MakekeyOptions
  <2>2. /\ "output" \in OwnNames /\ "output" \notin Counting /\ "output" \notin Located
        /\ "size" \in OwnNames /\ "size" \notin Counting /\ "size" \notin Located
        BY DEF MainNames, OwnNames, OptionNames, Located, Counting, Numeric
  <2>3. /\ IsSound(OwnNames, MakekeyOptions[1]) /\ IsSound(OwnNames, MakekeyOptions[2])
        BY <2>2, UnnamedOptions, ProperOptions DEF MakekeyOptions
  <2>4. ASSUME NEW i \in 1 .. 2
        PROVE  i = 1 \/ i = 2
        OBVIOUS
  <2>5. \A i \in 1 .. 2 : IsSound(OwnNames, MakekeyOptions[i])
        BY <2>3, <2>4
  <2> QED BY <2>1, <2>5 DEF IsTable
<1>5. IsTable(OwnNames, VersionOptions)
  <2>1. Len(VersionOptions) = 1 /\ DOMAIN VersionOptions = 1 .. 1
        BY DEF VersionOptions
  <2>2. /\ "build-options" \in OwnNames /\ "build-options" \notin Counting /\ "build-options" \notin Located
        BY DEF MainNames, OwnNames, OptionNames, Located, Counting, Numeric
  <2>3. /\ IsSound(OwnNames, VersionOptions[1])
        BY <2>2, UnnamedOptions, ProperOptions DEF VersionOptions
  <2>4. ASSUME NEW i \in 1 .. 1
        PROVE  i = 1
        OBVIOUS
  <2>5. \A i \in 1 .. 1 : IsSound(OwnNames, VersionOptions[i])
        BY <2>3, <2>4
  <2> QED BY <2>1, <2>5 DEF IsTable
<1>6. IsTable(OwnNames, CountOptions)
  <2>1. Len(CountOptions) = 1 /\ DOMAIN CountOptions = 1 .. 1
        BY DEF CountOptions
  <2>2. /\ "search" \in OwnNames /\ "search" \notin Counting /\ "search" \notin Located
        BY DEF MainNames, OwnNames, OptionNames, Located, Counting, Numeric
  <2>3. /\ IsSound(OwnNames, CountOptions[1])
        BY <2>2, UnnamedOptions, ProperOptions DEF CountOptions
  <2>4. ASSUME NEW i \in 1 .. 1
        PROVE  i = 1
        OBVIOUS
  <2>5. \A i \in 1 .. 1 : IsSound(OwnNames, CountOptions[i])
        BY <2>3, <2>4
  <2> QED BY <2>1, <2>5 DEF IsTable
<1> QED BY <1>1, <1>2, <1>3, <1>4, <1>5, <1>6 DEF OptionsOf

-------------------------------------------------------------------------------
(***************************************************************************)
(* Values and meanings.                                                    *)
(***************************************************************************)
IsValues(v) ==
    v = [n \in OptionNames |-> v[n]] /\ \A n \in Counting : v[n] \in Nat

IsMeaning(N, m) ==
    /\ DOMAIN m \subseteq N
    /\ \A n \in DOMAIN m : (n \in Counting => m[n] \in Nat) /\ (n \in Located => m[n] # <<>>)

LEMMA MergedMeaning ==
    ASSUME NEW N, NEW c, c \subseteq Counting, NEW m, NEW n, IsMeaning(N, m), IsMeaning(N, n)
    PROVE  IsMeaning(N, Merged(c, m, n))
<1> DEFINE both == Merged(c, m, n)
<1>1. /\ DOMAIN both = DOMAIN m \cup DOMAIN n
      /\ \A k : k \notin DOMAIN n /\ k \in DOMAIN m => both[k] = m[k]
      /\ \A k : k \in DOMAIN n /\ ~(k \in c /\ k \in DOMAIN m) => both[k] = n[k]
      /\ \A k : k \in DOMAIN n /\ k \in c /\ k \in DOMAIN m => both[k] = m[k] + n[k]
      BY DEF Merged
<1> HIDE DEF both
<1>2. \A k \in Counting : k \notin Located
      BY DEF Counting, Located
<1>3. ASSUME NEW k \in DOMAIN both
      PROVE  (k \in Counting => both[k] \in Nat) /\ (k \in Located => both[k] # <<>>)
  <2>1. CASE k \in c /\ k \in DOMAIN m /\ k \in DOMAIN n
        BY <1>1, <1>2, <2>1 DEF IsMeaning
  <2>2. CASE k \in DOMAIN n /\ ~(k \in c /\ k \in DOMAIN m)
        BY <1>1, <2>2 DEF IsMeaning
  <2>3. CASE k \notin DOMAIN n
        BY <1>1, <1>3, <2>3 DEF IsMeaning
  <2> QED BY <2>1, <2>2, <2>3
<1>4. DOMAIN both \subseteq N
      BY <1>1 DEF IsMeaning
<1> QED BY <1>3, <1>4 DEF IsMeaning, both

LEMMA AppliedValues ==
    ASSUME NEW N, NEW c, NEW v, NEW m, IsValues(v), IsMeaning(N, m)
    PROVE  IsValues(Applied(c, v, m))
<1>1. DOMAIN v = OptionNames
      BY DEF IsValues
<1>2. ASSUME NEW n \in Counting
      PROVE  Applied(c, v, m)[n] \in Nat
  <2>1. n \in OptionNames /\ v[n] \in Nat
        BY NamesSplit DEF IsValues
  <2> QED BY <1>1, <2>1 DEF Applied, IsMeaning
<1> QED BY <1>1, <1>2 DEF IsValues, Applied

LEMMA AppliedNothing ==
    ASSUME NEW c, NEW v, IsValues(v)
    PROVE  Applied(c, v, NoMeaning) = v
BY DEF Applied, NoMeaning, IsValues

With(v, name, x) == [v EXCEPT ![name] = x]

LEMMA AppliedJust ==
    ASSUME NEW c, NEW v, IsValues(v), NEW name \in OptionNames, NEW x
    PROVE  /\ name \in c => Applied(c, v, Just(name, x)) = With(v, name, v[name] + x)
           /\ name \notin c => Applied(c, v, Just(name, x)) = With(v, name, x)
<1>1. DOMAIN v = OptionNames
      BY DEF IsValues
<1>2. DOMAIN Just(name, x) = {name} /\ Just(name, x)[name] = x
      BY DEF Just
<1> QED BY <1>1, <1>2 DEF Applied, IsValues, With

(* One thing that is said after another. *)
LEMMA AppliedMerged ==
    ASSUME NEW N, NEW c, c \subseteq Counting, NEW v, NEW m, NEW n,
           IsValues(v), IsMeaning(N, m), IsMeaning(N, n)
    PROVE  Applied(c, Applied(c, v, m), n) = Applied(c, v, Merged(c, m, n))
<1> DEFINE both == Merged(c, m, n)
           one  == Applied(c, v, m)
<1>1. /\ DOMAIN both = DOMAIN m \cup DOMAIN n
      /\ \A k : k \notin DOMAIN n /\ k \in DOMAIN m => both[k] = m[k]
      /\ \A k : k \in DOMAIN n /\ ~(k \in c /\ k \in DOMAIN m) => both[k] = n[k]
      /\ \A k : k \in DOMAIN n /\ k \in c /\ k \in DOMAIN m => both[k] = m[k] + n[k]
      BY DEF Merged
<1>2. DOMAIN v = OptionNames /\ DOMAIN one = OptionNames
      BY DEF IsValues, Applied
<1>3. \A k \in OptionNames :
          one[k] = IF k \notin DOMAIN m THEN v[k] ELSE IF k \in c THEN v[k] + m[k] ELSE m[k]
      BY <1>2 DEF Applied
<1> HIDE DEF both, one
<1>4. ASSUME NEW k \in OptionNames
      PROVE  (IF k \notin DOMAIN n THEN one[k] ELSE IF k \in c THEN one[k] + n[k] ELSE n[k])
             = (IF k \notin DOMAIN both THEN v[k] ELSE IF k \in c THEN v[k] + both[k] ELSE both[k])
  <2>1. CASE k \notin DOMAIN n
        BY <1>1, <1>3, <2>1
  <2>2. CASE k \in DOMAIN n /\ k \notin c
        BY <1>1, <2>2
  <2>3. CASE k \in DOMAIN n /\ k \in c /\ k \notin DOMAIN m
        BY <1>1, <1>3, <2>3
  <2>4. CASE k \in DOMAIN n /\ k \in c /\ k \in DOMAIN m
    <3>1. v[k] \in Nat /\ m[k] \in Nat /\ n[k] \in Nat
          BY <2>4 DEF IsValues, IsMeaning
    <3>2. one[k] = v[k] + m[k] /\ both[k] = m[k] + n[k] /\ k \in DOMAIN both
          BY <1>1, <1>3, <2>4
    <3>3. (v[k] + m[k]) + n[k] = v[k] + (m[k] + n[k])
          BY <3>1
    <3> QED BY <2>4, <3>2, <3>3
  <2> QED BY <2>1, <2>2, <2>3, <2>4
<1>5. /\ Applied(c, one, n) = [k \in OptionNames |->
             IF k \notin DOMAIN n THEN one[k] ELSE IF k \in c THEN one[k] + n[k] ELSE n[k]]
      /\ Applied(c, v, both) = [k \in OptionNames |->
             IF k \notin DOMAIN both THEN v[k] ELSE IF k \in c THEN v[k] + both[k] ELSE both[k]]
      BY <1>2 DEF Applied
<1>6. Applied(c, one, n) = Applied(c, v, both)
      BY <1>4, <1>5
<1> QED BY <1>6 DEF one, both

-------------------------------------------------------------------------------
(***************************************************************************)
(* One option: get_arg() and validate_parsed_value() do what it says.      *)
(***************************************************************************)
IsSaid(N, one, behind) ==
    IsMeaning(N, one.means) /\ one.used \in {0, 1} /\ (one.used = 1 => behind # <<>>)

(* validate_parsed_value() is to find fault with the option. *)
Fails(o) == "REALPATH" \in o.flags /\ vals[o.name][1] \notin RegularFiles

LEMMA NothingMeant == \A N : IsMeaning(N, NoMeaning)
BY DEF IsMeaning, NoMeaning

LEMMA JustMeant ==
    ASSUME NEW N, NEW n \in N, NEW x, n \in Counting => x \in Nat, n \in Located => x # <<>>
    PROVE  IsMeaning(N, Just(n, x))
BY DEF IsMeaning, Just

LEMMA TextSaysType ==
    ASSUME NEW N, NEW o, IsProper(N, o), o.type # "COUNTUP", NEW text, NEW behind,
           NEW used \in {0, 1}, used = 1 => text = behind
    PROVE  IsSaid(N, TextSays(o, text, used), behind)
<1>1. IsSaid(N, NotTaken, behind)
      BY NothingMeant DEF IsSaid, NotTaken
<1>2. IsMeaning(N, Just(o.name, Stored(o, text[1])))
  <2>1. o.name \in N /\ o.name \notin Counting /\ Stored(o, text[1]) # <<>>
        BY DEF IsProper, Stored
  <2> QED BY <2>1, JustMeant
<1>3. CASE text = <<>>
      BY <1>1, <1>3 DEF TextSays
<1>4. CASE text # <<>>
  <2>1. \A m : IsMeaning(N, m) => IsSaid(N, Taken(m, used), behind)
        BY <1>4 DEF IsSaid, Taken
  <2> QED BY <1>1, <1>2, <1>4, <2>1, NothingMeant DEF TextSays
<1> QED BY <1>3, <1>4

LEMMA OptionSaysType ==
    ASSUME NEW N, NEW o, IsProper(N, o), NEW unset, NEW short, NEW str, NEW behind
    PROVE  IsSaid(N, OptionSays(o, unset, short, str, behind), behind)
<1>1. CASE Refuses(o, unset, short, str)
      BY <1>1, NothingMeant DEF IsSaid, NotTaken, OptionSays
<1>2. CASE ~Refuses(o, unset, short, str) /\ TakesText(o, unset, str)
  <2>1. o.type # "COUNTUP"
        BY <1>2 DEF TakesText, IsProper
  <2>2. /\ IsSaid(N, TextSays(o, str, 0), behind)
        /\ IsSaid(N, TextSays(o, behind, 1), behind)
        BY <2>1, TextSaysType
  <2> QED BY <1>2, <2>2 DEF OptionSays
<1>3. CASE ~Refuses(o, unset, short, str) /\ ~TakesText(o, unset, str)
  <2> DEFINE x == IF o.type = "COUNTUP" THEN 1
                  ELSE IF o.type = "INTEGER" /\ unset THEN 0
                  ELSE IF unset THEN <<>> ELSE o.defval
  <2>1. o.name \in N /\ (o.name \in Counting => x \in Nat)
        BY DEF IsProper
  <2>2. o.name \notin Located
        BY <1>3 DEF IsProper, Refuses, TakesText
  <2>3. IsMeaning(N, Just(o.name, x))
        BY <2>1, <2>2, JustMeant
  <2>4. OptionSays(o, unset, short, str, behind) = Taken(Just(o.name, x), 0)
        BY <1>3 DEF OptionSays, SwitchSays
  <2> QED BY <2>3, <2>4 DEF IsSaid, Taken
<1> QED BY <1>1, <1>2, <1>3

LEMMA CountsAre ==
    ASSUME NEW N, NEW options, IsTable(N, options)
    PROVE  /\ CountsIn(options) \subseteq Counting
           /\ \A i \in DOMAIN options : IsProper(N, options[i]) =>
                  (options[i].name \in CountsIn(options) <=> options[i].type = "COUNTUP")
<1>1. ASSUME NEW i \in DOMAIN options, options[i].type = "COUNTUP"
      PROVE  options[i].name \in Counting
      BY <1>1 DEF IsTable, IsSound, IsUnnamed, IsProper
<1>2. CountsIn(options) \subseteq Counting
      BY <1>1 DEF CountsIn
<1>3. ASSUME NEW i \in DOMAIN options, IsProper(N, options[i])
      PROVE  options[i].name \in CountsIn(options) <=> options[i].type = "COUNTUP"
      BY <1>2, <1>3 DEF CountsIn, IsProper
<1> QED BY <1>2, <1>3

(* What is left to be done when get_arg() returns. *)
DoesSay(c, o, unset, one, str, next) ==
    \/ parse' = "error" /\ ~one.ok
    \/ parse' = next /\ ~one.ok /\ Fails(o)' /\ optstr' = <<>>
    \/ /\ parse' = next /\ one.ok /\ ~Fails(o)'
       /\ vals' = Applied(c, vals, one.means) /\ cur' = cur + one.used
       /\ optstr' = IF TakesText(o, unset, str) THEN <<>> ELSE str

LEMMA TakeTextSays ==
    ASSUME NEW N, N \subseteq OptionNames, NEW c, NEW o, IsProper(N, o), o.name \notin c,
           IsValues(vals), cur \in Nat, NEW unset, NEW str, NEW next, NEW text, NEW used,
           TakesText(o, unset, str), TakeText(o, str, next),
           IF str # <<>> THEN text = str /\ used = 0
                         ELSE text # <<>> /\ text[1] = argv[cur + 1] /\ used = 1
    PROVE  DoesSay(c, o, unset, TextSays(o, text, used), str, next)
<1>1. text # <<>> /\ cur' = cur + used /\ optstr' = <<>>
      BY DEF TakeText
<1>2. CASE "UNSIGNED" \in o.flags
  <2>1. parse' = (IF text[1] \in Numbers THEN "error" ELSE next) /\ UNCHANGED vals
        BY <1>2 DEF TakeText
  <2>2. TextSays(o, text, used) = IF text[1] \in Numbers THEN NotTaken ELSE Taken(NoMeaning, used)
        BY <1>1, <1>2 DEF TextSays
  <2>3. ~Fails(o)'
        BY <1>2 DEF Fails, IsProper
  <2>4. Applied(c, vals, NoMeaning) = vals
        BY AppliedNothing
  <2> QED BY <1>1, <2>1, <2>2, <2>3, <2>4 DEF DoesSay, Taken, NotTaken
<1>3. CASE "UNSIGNED" \notin o.flags
  <2>1. vals' = [vals EXCEPT ![o.name] = Stored(o, text[1])] /\ parse' = next
        BY <1>3 DEF TakeText
  <2>2. o.name \in OptionNames /\ DOMAIN vals = OptionNames
        BY DEF IsProper, IsValues
  <2>3. vals'[o.name] = Stored(o, text[1])
        BY <2>1, <2>2
  <2>4. vals' = Applied(c, vals, Just(o.name, Stored(o, text[1])))
    <3>1. Applied(c, vals, Just(o.name, Stored(o, text[1]))) =
              With(vals, o.name, Stored(o, text[1]))
          BY <2>2, AppliedJust
    <3> QED BY <2>1, <3>1 DEF With
  <2>5. "REALPATH" \in o.flags => Stored(o, text[1])[1] = Prefixed(text[1])
        BY DEF IsProper, Stored
  <2>6. Fails(o)' <=> "REALPATH" \in o.flags /\ Prefixed(text[1]) \notin RegularFiles
        BY <2>3, <2>5 DEF Fails
  <2>7. TextSays(o, text, used) =
            IF "REALPATH" \in o.flags /\ Prefixed(text[1]) \notin RegularFiles THEN NotTaken
            ELSE Taken(Just(o.name, Stored(o, text[1])), used)
        BY <1>1, <1>3 DEF TextSays
  <2>8. CASE Fails(o)'
    <3>1. TextSays(o, text, used) = NotTaken
          BY <2>6, <2>7, <2>8
    <3> QED BY <1>1, <2>1, <2>8, <3>1 DEF DoesSay, NotTaken
  <2>9. CASE ~Fails(o)'
    <3>1. TextSays(o, text, used) = Taken(Just(o.name, Stored(o, text[1])), used)
          BY <2>6, <2>7, <2>9
    <3>2. /\ TextSays(o, text, used).ok /\ TextSays(o, text, used).used = used
          /\ TextSays(o, text, used).means = Just(o.name, Stored(o, text[1]))
          BY <3>1 DEF Taken
    <3> QED BY <1>1, <2>1, <2>4, <2>9, <3>2 DEF DoesSay
  <2> QED BY <2>8, <2>9
<1> QED BY <1>2, <1>3

LEMMA SwitchDoes ==
    ASSUME NEW N, N \subseteq OptionNames, NEW c, NEW o, IsProper(N, o),
           o.name \in c <=> o.type = "COUNTUP", IsValues(vals), cur \in Nat,
           NEW unset, NEW short, NEW str, NEW next,
           ~Refuses(o, unset, short, str), ~TakesText(o, unset, str),
           vals' = [vals EXCEPT ![o.name] = Switched(o, unset)],
           parse' = next, optstr' = str, UNCHANGED cur
    PROVE  DoesSay(c, o, unset, SwitchSays(o, unset), str, next)
<1> DEFINE x == IF o.type = "COUNTUP" THEN 1
                ELSE IF o.type = "INTEGER" /\ unset THEN 0
                ELSE IF unset THEN <<>> ELSE o.defval
<1>1. o.name \in OptionNames
      BY DEF IsProper
<1>2. Switched(o, unset) = IF o.name \in c THEN vals[o.name] + x ELSE x
  <2>1. CASE o.type = "COUNTUP"
        BY <2>1 DEF Switched
  <2>2. CASE o.type = "INTEGER"
        BY <2>2 DEF Switched
  <2>3. CASE o.type = "STRING"
        BY <2>3 DEF Switched
  <2>4. o.type \in {"COUNTUP", "INTEGER", "STRING"}
        BY DEF IsProper, TakesText
  <2> QED BY <2>1, <2>2, <2>3, <2>4
<1>3. vals' = Applied(c, vals, Just(o.name, x))
  <2> HIDE DEF x
  <2>1. CASE o.name \in c
    <3>1. Applied(c, vals, Just(o.name, x)) = With(vals, o.name, vals[o.name] + x)
          BY <1>1, <2>1, AppliedJust
    <3> QED BY <1>2, <2>1, <3>1 DEF With
  <2>2. CASE o.name \notin c
    <3>1. Applied(c, vals, Just(o.name, x)) = With(vals, o.name, x)
          BY <1>1, <2>2, AppliedJust
    <3> QED BY <1>2, <2>2, <3>1 DEF With
  <2> QED BY <2>1, <2>2
<1>4. SwitchSays(o, unset) = Taken(Just(o.name, x), 0)
      BY DEF SwitchSays
<1>5. ~Fails(o)'
      BY DEF Fails, IsProper, TakesText
<1>6. /\ Taken(Just(o.name, x), 0).ok /\ Taken(Just(o.name, x), 0).used = 0
      /\ Taken(Just(o.name, x), 0).means = Just(o.name, x)
      BY DEF Taken
<1> HIDE DEF x
<1>7. cur' = cur + 0
      OBVIOUS
<1> QED BY <1>3, <1>4, <1>5, <1>6, <1>7 DEF DoesSay

LEMMA GetArgSays ==
    ASSUME NEW N, N \subseteq OptionNames, NEW c, NEW o, IsProper(N, o),
           o.name \in c <=> o.type = "COUNTUP", IsValues(vals), cur \in Nat,
           Len(argv) \in Nat, cur <= Len(argv),
           NEW unset, NEW short, NEW str, NEW next, GetArg(o, unset, short, str, next)
    PROVE  DoesSay(c, o, unset, OptionSays(o, unset, short, str, Behind(argv, cur)), str, next)
<1> DEFINE behind == Behind(argv, cur)
<1>1. o.type # "GROUP"
      BY DEF IsProper
<1>2. CASE Refuses(o, unset, short, str)
      BY <1>1, <1>2 DEF GetArg, DoesSay, OptionSays, NotTaken
<1>3. CASE ~Refuses(o, unset, short, str) /\ TakesText(o, unset, str)
  <2>1. o.name \notin c
        BY <1>3 DEF IsProper, TakesText
  <2>2. CASE str # <<>>
    <3>1. TakeText(o, str, next)
          BY <1>1, <1>3, <2>2 DEF GetArg, LacksText
    <3>2. OptionSays(o, unset, short, str, behind) = TextSays(o, str, 0)
          BY <1>3, <2>2 DEF OptionSays
    <3>3. DoesSay(c, o, unset, TextSays(o, str, 0), str, next)
          BY <1>3, <2>1, <2>2, <3>1, TakeTextSays
    <3> QED BY <3>2, <3>3
  <2>3. CASE str = <<>>
    <3>1. OptionSays(o, unset, short, str, behind) = TextSays(o, behind, 1)
          BY <1>3, <2>3 DEF OptionSays
    <3>2. CASE TakeText(o, str, next)
      <4>1. behind # <<>> /\ behind[1] = argv[cur + 1]
            BY <2>3, <3>2 DEF TakeText, Behind
      <4>2. DoesSay(c, o, unset, TextSays(o, behind, 1), str, next)
        <5> HIDE DEF behind
        <5> QED BY <1>3, <2>1, <2>3, <3>2, <4>1, TakeTextSays
      <4> QED BY <3>1, <4>2
    <3>3. CASE LacksText(str)
      <4>1. behind = <<>>
            BY <3>3 DEF LacksText, Behind
      <4>2. parse' = "error" /\ TextSays(o, behind, 1) = NotTaken
            BY <3>3, <4>1 DEF LacksText, TextSays
      <4> QED BY <3>1, <4>2 DEF DoesSay, NotTaken
    <3> QED BY <1>1, <1>3, <3>2, <3>3 DEF GetArg
  <2> QED BY <2>2, <2>3
<1>4. CASE ~Refuses(o, unset, short, str) /\ ~TakesText(o, unset, str)
  <2>1. /\ vals' = [vals EXCEPT ![o.name] = Switched(o, unset)]
        /\ parse' = next /\ optstr' = str /\ UNCHANGED cur
        BY <1>1, <1>4 DEF GetArg
  <2>2. DoesSay(c, o, unset, SwitchSays(o, unset), str, next)
        BY <1>4, <2>1, SwitchDoes
  <2>3. OptionSays(o, unset, short, str, behind) = SwitchSays(o, unset)
        BY <1>4 DEF OptionSays
  <2> QED BY <2>2, <2>3
<1> QED BY <1>2, <1>3, <1>4

-------------------------------------------------------------------------------
(***************************************************************************)
(* A cluster: what it says from a letter on.                               *)
(***************************************************************************)
(* Down from n + 1 to 1. *)
LEMMA Downwards ==
    ASSUME NEW n \in Nat, NEW S, n + 1 \in S,
           \A k \in 1 .. n : k + 1 \in S => k \in S
    PROVE  1 .. n + 1 \subseteq S
<1> DEFINE D == 1 .. n + 1
           mu == [k \in D |-> (n + 1) - k]
<1>1. mu \in [D -> Nat]
      OBVIOUS
<1>2. ASSUME NEW k \in D, \A j \in D : mu[j] < mu[k] => j \in S
      PROVE  k \in S
  <2>1. CASE k = n + 1
        BY <2>1
  <2>2. CASE k # n + 1
    <3>1. k \in 1 .. n /\ k + 1 \in D
          BY <2>2
    <3>2. mu[k + 1] < mu[k]
          BY <3>1
    <3> QED BY <1>2, <3>1, <3>2
  <2> QED BY <2>1, <2>2
<1>3. IsInductive(D, mu, S)
      BY <1>2 DEF IsInductive
<1> HIDE DEF D, mu
<1>4. D \subseteq S
      BY <1>1, <1>3, Induction
<1> QED BY <1>4 DEF D

LEMMA AfterLast ==
    ASSUME NEW letters, Len(letters) \in Nat, NEW k \in 1 .. Len(letters)
    PROVE  LettersAfter(letters, k) = <<>> <=> k = Len(letters)
BY DEF LettersAfter

LEMMA LetterLocal ==
    ASSUME NEW options, NEW letters, NEW behind, Len(letters) \in Nat,
           NEW k \in 1 .. Len(letters), NEW f, NEW g, k < Len(letters) => f[k + 1] = g[k + 1]
    PROVE  LetterSays(options, letters, behind, f, k) = LetterSays(options, letters, behind, g, k)
<1>1. CASE k < Len(letters)
      BY <1>1 DEF LetterSays
<1>2. CASE k = Len(letters)
  <2>1. LettersAfter(letters, k) = <<>>
        BY <1>2, AfterLast
  <2> QED BY <2>1 DEF LetterSays
<1> QED BY <1>1, <1>2

LEMMA ClusterEquations ==
    ASSUME NEW options, NEW letters, NEW behind, Len(letters) \in Nat, Len(letters) # 0
    PROVE  LET C == ClusterReading(options, letters, behind)
           IN  \A k \in 1 .. Len(letters) : C[k] = LetterSays(options, letters, behind, C, k)
<1> DEFINE n == Len(letters)
           At2(f, k) == LetterSays(options, letters, behind, f, k)
           Upto(f, k) == DOMAIN f = 1 .. n /\ \A j \in k .. n : f[j] = At2(f, j)
           S == {k \in 1 .. n + 1 : \E f : Upto(f, k)}
           C == CHOOSE says : says = [k \in 1 .. n |-> At2(says, k)]
<1>1. n + 1 \in S
  <2>1. Upto([k \in 1 .. n |-> 0], n + 1)
        OBVIOUS
  <2> QED BY <2>1
<1>2. ASSUME NEW k \in 1 .. n, k + 1 \in S
      PROVE  k \in S
  <2>1. PICK f : Upto(f, k + 1)
        BY <1>2
  <2> DEFINE g == [f EXCEPT ![k] = At2(f, k)]
  <2>2. DOMAIN g = 1 .. n /\ g[k] = At2(f, k) /\ \A j \in k + 1 .. n : g[j] = f[j]
        BY <2>1
  <2> HIDE DEF g
  <2>3. ASSUME NEW j \in k .. n
        PROVE  At2(g, j) = At2(f, j)
    <3>1. j \in 1 .. n /\ (j < n => j + 1 \in k + 1 .. n)
          OBVIOUS
    <3>2. j < n => g[j + 1] = f[j + 1]
          BY <2>2, <3>1
    <3> HIDE DEF g
    <3> QED BY <3>1, <3>2, LetterLocal
  <2>4. ASSUME NEW j \in k .. n
        PROVE  g[j] = At2(g, j)
    <3>1. g[j] = At2(f, j)
      <4>1. CASE j = k
            BY <2>2, <4>1
      <4>2. CASE j # k
        <5>1. j \in k + 1 .. n
              BY <4>2
        <5> HIDE DEF At2
        <5> QED BY <2>1, <2>2, <5>1
      <4> QED BY <4>1, <4>2
    <3> QED BY <2>3, <3>1
  <2>5. Upto(g, k)
    <3> HIDE DEF At2
    <3> QED BY <2>2, <2>4
  <2> HIDE DEF Upto
  <2> QED BY <2>5
<1>3. 1 \in S
  <2> HIDE DEF S
  <2>1. 1 .. n + 1 \subseteq S
        BY <1>1, <1>2, Downwards
  <2> QED BY <2>1
<1>4. PICK f : Upto(f, 1)
      BY <1>3
<1> DEFINE h == [k \in 1 .. n |-> At2(f, k)]
<1>5. ASSUME NEW k \in 1 .. n
      PROVE  h[k] = At2(h, k)
  <2>1. \A j \in 1 .. n : h[j] = f[j]
    <3> HIDE DEF At2
    <3> QED BY <1>4
  <2>2. k < n => f[k + 1] = h[k + 1]
        BY <2>1
  <2>3. h[k] = At2(f, k)
        OBVIOUS
  <2> HIDE DEF h
  <2>4. At2(f, k) = At2(h, k)
        BY <2>2, LetterLocal
  <2> QED BY <2>3, <2>4
<1>6. h = [k \in 1 .. n |-> h[k]]
      OBVIOUS
<1>7. \E says : says = [k \in 1 .. n |-> At2(says, k)]
  <2> HIDE DEF h, At2
  <2> QED BY <1>5, <1>6
<1>8. C = [k \in 1 .. n |-> At2(C, k)]
  <2> HIDE DEF At2
  <2> QED BY <1>7
<1>9. ClusterReading(options, letters, behind) = C
      BY DEF ClusterReading
<1> HIDE DEF C
<1>10. \A k \in 1 .. n : C[k] = At2(C, k)
  <2> HIDE DEF At2
  <2> QED BY <1>8
<1> QED BY <1>9, <1>10

(* The lookups. *)
LEMMA FirstIs ==
    ASSUME NEW options, Len(options) \in Nat, NEW I, I \subseteq 1 .. Len(options), I # {}
    PROVE  FirstOf(options, I) = options[Min(I)] /\ Min(I) \in I
<1>1. Min(I) = CHOOSE i \in I : \A j \in I : i <= j
      BY DEF Min
<1> QED BY <1>1, MinOfSome DEF FirstOf

LEMMA AliasedProper ==
    ASSUME NEW N, NEW options, IsTable(N, options), NEW c \in Letter, Aliased(options, c) # {}
    PROVE  /\ FirstOf(options, Aliased(options, c)) = options[Min(Aliased(options, c))]
           /\ Min(Aliased(options, c)) \in DOMAIN options
           /\ IsProper(N, options[Min(Aliased(options, c))])
<1> DEFINE I == Aliased(options, c)
           i == Min(I)
<1>1. /\ I \subseteq 1 .. Len(options) /\ I # {}
      /\ Len(options) \in Nat /\ DOMAIN options = 1 .. Len(options)
      BY DEF IsTable, Aliased
<1>2. FirstOf(options, I) = options[i] /\ i \in I
  <2> HIDE DEF I
  <2> QED BY <1>1, FirstIs
<1>3. i \in 1 .. Len(options) /\ options[i].alias \in Letter
      BY <1>1, <1>2 DEF Aliased
<1>4. ~IsUnnamed(options[i])
      BY <1>3 DEF IsUnnamed, Letter
<1> QED BY <1>1, <1>2, <1>3, <1>4 DEF IsTable, IsSound

LEMMA LetterSaysType ==
    ASSUME NEW N, NEW options, IsTable(N, options), NEW letters, NEW behind, NEW k,
           letters[k] \in Letter, NEW f, LettersAfter(letters, k) # <<>> => IsSaid(N, f[k + 1], behind)
    PROVE  IsSaid(N, LetterSays(options, letters, behind, f, k), behind)
<1> DEFINE I    == Aliased(options, letters[k])
           o    == FirstOf(options, I)
           text == LettersAfter(letters, k)
           one  == OptionSays(o, FALSE, TRUE, text, behind)
<1>1. IsSaid(N, NotTaken, behind)
      BY NothingMeant DEF IsSaid, NotTaken
<1>2. CASE I = {} \/ ~one.ok
      BY <1>1, <1>2 DEF LetterSays
<1>3. CASE I # {} /\ one.ok
  <2>1. IsProper(N, o)
        BY <1>3, AliasedProper
  <2>2. IsSaid(N, one, behind)
    <3> HIDE DEF o, text
    <3> QED BY <2>1, OptionSaysType
  <2>3. CASE text = <<>> \/ TakesText(o, FALSE, text)
        BY <1>3, <2>2, <2>3 DEF LetterSays
  <2>4. CASE ~(text = <<>> \/ TakesText(o, FALSE, text))
    <3>1. CASE ~f[k + 1].ok
          BY <1>1, <1>3, <2>4, <3>1 DEF LetterSays
    <3>2. CASE f[k + 1].ok
      <4> DEFINE both == Merged(CountsIn(options), one.means, f[k + 1].means)
      <4>1. IsMeaning(N, one.means) /\ IsSaid(N, f[k + 1], behind)
            BY <2>2, <2>4 DEF IsSaid
      <4> HIDE DEF one
      <4>2. IsMeaning(N, both)
            BY <4>1, CountsAre, MergedMeaning DEF IsSaid
      <4> USE DEF one
      <4>3. LetterSays(options, letters, behind, f, k) = Taken(both, f[k + 1].used)
            BY <1>3, <2>4, <3>2 DEF LetterSays
      <4> HIDE DEF both
      <4> QED BY <4>1, <4>2, <4>3 DEF IsSaid, Taken
    <3> QED BY <3>1, <3>2
  <2> QED BY <2>3, <2>4
<1> QED BY <1>2, <1>3

LEMMA ClusterType ==
    ASSUME NEW N, NEW options, IsTable(N, options), NEW letters, NEW behind,
           Len(letters) \in Nat, Len(letters) # 0, \A k \in 1 .. Len(letters) : letters[k] \in Letter
    PROVE  \A k \in 1 .. Len(letters) : IsSaid(N, ClusterReading(options, letters, behind)[k], behind)
<1> DEFINE n == Len(letters)
           C == ClusterReading(options, letters, behind)
           S == {k \in 1 .. n + 1 : k = n + 1 \/ IsSaid(N, C[k], behind)}
<1>1. \A k \in 1 .. n : C[k] = LetterSays(options, letters, behind, C, k)
      BY ClusterEquations
<1> HIDE DEF C
<1>2. ASSUME NEW k \in 1 .. n, k + 1 \in S
      PROVE  k \in S
  <2>1. LettersAfter(letters, k) # <<>> => k + 1 # n + 1
        BY AfterLast
  <2>2. LettersAfter(letters, k) # <<>> => IsSaid(N, C[k + 1], behind)
        BY <1>2, <2>1
  <2>3. IsSaid(N, LetterSays(options, letters, behind, C, k), behind)
        BY <2>2, LetterSaysType
  <2> QED BY <1>1, <2>3
<1>3. n + 1 \in S
      OBVIOUS
<1>4. 1 .. n + 1 \subseteq S
  <2> HIDE DEF S
  <2> QED BY <1>2, <1>3, Downwards
<1>5. \A k \in 1 .. n : IsSaid(N, C[k], behind)
      BY <1>4
<1> QED BY <1>5 DEF C

LEMMA NamedProper ==
    ASSUME NEW N, NEW options, IsTable(N, options), NEW a, Named(options, a) # {}
    PROVE  /\ FirstOf(options, Named(options, a)) = options[Min(Named(options, a))]
           /\ Min(Named(options, a)) \in DOMAIN options
           /\ IsProper(N, options[Min(Named(options, a))])
<1> DEFINE I == Named(options, a)
           i == Min(I)
<1>1. /\ I \subseteq 1 .. Len(options) /\ I # {}
      /\ Len(options) \in Nat /\ DOMAIN options = 1 .. Len(options)
      BY DEF IsTable, Named
<1>2. FirstOf(options, I) = options[i] /\ i \in I
  <2> HIDE DEF I
  <2> QED BY <1>1, FirstIs
<1>3. i \in 1 .. Len(options) /\ IsLong(options[i])
      BY <1>1, <1>2 DEF Named
<1>4. ~IsUnnamed(options[i])
      BY <1>3 DEF IsUnnamed
<1> QED BY <1>1, <1>2, <1>3, <1>4 DEF IsTable, IsSound

LEMMA AbbreviatedProper ==
    ASSUME NEW N, NEW options, IsTable(N, options), NEW a, NEW i \in Abbreviated(options, a)
    PROVE  i \in DOMAIN options /\ IsProper(N, options[i])
<1>1. i \in DOMAIN options /\ Abbreviates(a, options[i])
      BY DEF Abbreviated
<1>2. ~IsUnnamed(options[i])
      BY <1>1 DEF IsUnnamed, Abbreviates, NegShortens, Shortens
<1> QED BY <1>1, <1>2 DEF IsTable, IsSound

LEMMA OnlyAbbreviated ==
    ASSUME NEW options, NEW a, NEW i \in Int, Abbreviated(options, a) = {i}
    PROVE  FirstOf(options, Abbreviated(options, a)) = options[i]
<1>1. (CHOOSE k \in {i} : \A j \in {i} : k <= j) = i
      OBVIOUS
<1> QED BY <1>1 DEF FirstOf

LEMMA LongSaysType ==
    ASSUME NEW N, NEW options, IsTable(N, options), NEW a, NEW behind
    PROVE  IsSaid(N, LongSays(options, a, behind), behind)
<1>1. IsSaid(N, NotTaken, behind)
      BY NothingMeant DEF IsSaid, NotTaken
<1>2. CASE a # HelpOption /\ Named(options, a) # {}
  <2> DEFINE o == FirstOf(options, Named(options, a))
  <2>1. IsProper(N, o)
        BY <1>2, NamedProper
  <2>2. LongSays(options, a, behind) = OptionSays(o, a.no, FALSE, a.val, behind)
        BY <1>2 DEF LongSays
  <2> HIDE DEF o
  <2> QED BY <2>1, <2>2, OptionSaysType
<1>3. CASE a # HelpOption /\ Named(options, a) = {} /\ \E i \in DOMAIN options : Abbreviated(options, a) = {i}
  <2> DEFINE o == FirstOf(options, Abbreviated(options, a))
  <2>1. PICK i \in DOMAIN options : Abbreviated(options, a) = {i}
        BY <1>3
  <2>2. IsProper(N, options[i]) /\ i \in Int
    <3>1. i \in Abbreviated(options, a)
          BY <2>1
    <3>2. i \in Int
          BY DEF IsTable
    <3> QED BY <3>1, <3>2, AbbreviatedProper
  <2>3. o = options[i]
        BY <2>1, <2>2, OnlyAbbreviated
  <2>4. LongSays(options, a, behind) = OptionSays(o, NegShortens(a, o), FALSE, a.val, behind)
        BY <1>3 DEF LongSays
  <2> HIDE DEF o
  <2> QED BY <2>2, <2>3, <2>4, OptionSaysType
<1>4. CASE \/ a = HelpOption
           \/ Named(options, a) = {} /\ ~\E i \in DOMAIN options : Abbreviated(options, a) = {i}
      BY <1>1, <1>4 DEF LongSays
<1> QED BY <1>2, <1>3, <1>4
-------------------------------------------------------------------------------
(***************************************************************************)
(* The arguments from one on.                                              *)
(***************************************************************************)
IsVector(S, args) ==
    args \in Seq(S) /\ \A a \in S : a.form = "short" => a.letters \in Seq(Letter)

IsAsking(args, i) == args[i].form = "short" /\ args = <<AskedHelp>>

IsOption(args, i) ==
    \/ args[i].form = "long"
    \/ args[i].form = "short" /\ ~IsAsking(args, i) /\ args[i].letters # <<>>

OptionSaid(options, args, i) ==
    IF args[i].form = "long" THEN LongSays(options, args[i], Behind(args, i))
    ELSE ClusterSays(options, args[i].letters, Behind(args, i))

LEMMA ReadsOption ==
    ASSUME NEW options, NEW flags, NEW args, Len(args) \in Nat, NEW i \in 1 .. Len(args),
           IsOption(args, i), NEW f
    PROVE  ReadAt(options, flags, args, f, i)
               = OptionAndMore(options, OptionSaid(options, args, i), f, i)
<1>1. ~(i > Len(args)) /\ args[i].form \in {"long", "short"}
      BY DEF IsOption
<1>2. CASE args[i].form = "long"
      BY <1>1, <1>2 DEF ReadAt, OptionSaid
<1>3. CASE args[i].form = "short"
      BY <1>1, <1>3 DEF ReadAt, OptionSaid, IsOption, IsAsking, AskedHelp
<1> QED BY <1>1, <1>2, <1>3

LEMMA ClusterHasLetters ==
    ASSUME NEW S, NEW args, IsVector(S, args), NEW i \in 1 .. Len(args),
           args[i].form = "short", args[i].letters # <<>>
    PROVE  /\ args[i].letters \in Seq(Letter)
           /\ Len(args[i].letters) \in Nat /\ Len(args[i].letters) # 0
           /\ \A k \in 1 .. Len(args[i].letters) : args[i].letters[k] \in Letter
<1>1. args[i] \in S
      BY ElementOfSeq DEF IsVector
<1>2. args[i].letters \in Seq(Letter)
      BY <1>1 DEF IsVector
<1> HIDE DEF Letter
<1> QED BY <1>2, LenProperties, EmptySeq, ElementOfSeq

LEMMA OptionSaidType ==
    ASSUME NEW N, NEW options, IsTable(N, options), NEW S, NEW args, IsVector(S, args),
           NEW i \in 1 .. Len(args), IsOption(args, i)
    PROVE  /\ IsMeaning(N, OptionSaid(options, args, i).means)
           /\ i + 1 + OptionSaid(options, args, i).used \in i + 1 .. Len(args) + 1
<1> DEFINE one == OptionSaid(options, args, i)
<1>1. IsSaid(N, one, Behind(args, i))
  <2>1. CASE args[i].form = "long"
        BY <2>1, LongSaysType DEF OptionSaid
  <2>2. CASE args[i].form # "long"
    <3>1. args[i].form = "short" /\ args[i].letters # <<>>
          BY <2>2 DEF IsOption
    <3>2. one = ClusterReading(options, args[i].letters, Behind(args, i))[1]
          BY <2>2 DEF OptionSaid, ClusterSays
    <3>3. 1 \in 1 .. Len(args[i].letters)
          BY <3>1, ClusterHasLetters
    <3> QED BY <3>1, <3>2, <3>3, ClusterHasLetters, ClusterType
  <2> QED BY <2>1, <2>2
<1>2. one.used \in {0, 1} /\ (one.used = 1 => i < Len(args))
      BY <1>1 DEF IsSaid, Behind
<1>3. Len(args) \in Nat
      BY LenProperties DEF IsVector
<1> HIDE DEF one
<1>4. i + 1 + one.used \in i + 1 .. Len(args) + 1
      BY <1>2, <1>3
<1> QED BY <1>1, <1>4 DEF IsSaid, one

LEMMA ReadLocal ==
    ASSUME NEW N, NEW options, IsTable(N, options), NEW S, NEW args, IsVector(S, args),
           NEW flags, NEW i \in 1 .. Len(args) + 1, NEW f, NEW g,
           \A j \in i + 1 .. Len(args) + 1 : f[j] = g[j]
    PROVE  ReadAt(options, flags, args, f, i) = ReadAt(options, flags, args, g, i)
<1>1. Len(args) \in Nat
      BY LenProperties DEF IsVector
<1>2. CASE i > Len(args)
      BY <1>2 DEF ReadAt
<1>3. CASE i <= Len(args) /\ IsOption(args, i)
  <2> DEFINE next == i + 1 + OptionSaid(options, args, i).used
  <2>1. i \in 1 .. Len(args)
        BY <1>1, <1>3
  <2>2. next \in i + 1 .. Len(args) + 1
        BY <1>3, <2>1, OptionSaidType
  <2>3. f[next] = g[next]
    <3> HIDE DEF next
    <3> QED BY <2>2
  <2>4. OptionAndMore(options, OptionSaid(options, args, i), f, i)
            = OptionAndMore(options, OptionSaid(options, args, i), g, i)
        BY <2>3 DEF OptionAndMore
  <2> QED BY <1>1, <1>3, <2>1, <2>4, ReadsOption
<1>4. CASE i <= Len(args) /\ args[i].form = "word"
  <2>1. f[i + 1] = g[i + 1]
        BY <1>1, <1>4
  <2> QED BY <1>4, <2>1 DEF ReadAt, WordAndMore
<1>5. CASE i <= Len(args) /\ ~IsOption(args, i) /\ args[i].form # "word"
      BY <1>5 DEF ReadAt, IsOption, IsAsking, AskedHelp
<1> QED BY <1>1, <1>2, <1>3, <1>4, <1>5

LEMMA ReadingsEquations ==
    ASSUME NEW N, NEW options, IsTable(N, options), NEW S, NEW args, IsVector(S, args), NEW flags
    PROVE  LET R == Readings(options, flags, args)
           IN  \A i \in 1 .. Len(args) + 1 : R[i] = ReadAt(options, flags, args, R, i)
<1> DEFINE n == Len(args) + 1
           ReadIs(f, i) == ReadAt(options, flags, args, f, i)
           Upto(f, i) == DOMAIN f = 1 .. n /\ \A j \in i .. n : f[j] = ReadIs(f, j)
           T == {i \in 1 .. n + 1 : \E f : Upto(f, i)}
           R == CHOOSE reads : reads = [i \in 1 .. n |-> ReadIs(reads, i)]
<1>0. n \in Nat
      BY LenProperties DEF IsVector
<1>1. n + 1 \in T
  <2>1. Upto([i \in 1 .. n |-> 0], n + 1)
        BY <1>0
  <2> HIDE DEF Upto, n
  <2> QED BY <1>0, <2>1
<1>local. ASSUME NEW i \in 1 .. n, NEW f, NEW g, \A j \in i + 1 .. n : f[j] = g[j]
          PROVE  ReadIs(f, i) = ReadIs(g, i)
      BY <1>local, ReadLocal
<1> HIDE DEF n
<1>2. ASSUME NEW i \in 1 .. n, i + 1 \in T
      PROVE  i \in T
  <2>1. PICK f : Upto(f, i + 1)
        BY <1>2
  <2> DEFINE g == [f EXCEPT ![i] = ReadIs(f, i)]
  <2>2. DOMAIN g = 1 .. n /\ g[i] = ReadIs(f, i) /\ \A j \in i + 1 .. n : g[j] = f[j]
        BY <1>0, <2>1
  <2> HIDE DEF g
  <2>3. ASSUME NEW j \in i .. n
        PROVE  ReadIs(g, j) = ReadIs(f, j)
    <3>1. j \in 1 .. n /\ \A e \in j + 1 .. n : g[e] = f[e]
          BY <1>0, <2>2
    <3> HIDE DEF ReadIs
    <3> QED BY <3>1, <1>local
  <2>4. ASSUME NEW j \in i .. n
        PROVE  g[j] = ReadIs(g, j)
    <3>1. g[j] = ReadIs(f, j)
      <4>1. CASE j = i
            BY <2>2, <4>1
      <4>2. CASE j # i
        <5>1. j \in i + 1 .. n
              BY <1>0, <4>2
        <5> HIDE DEF ReadIs
        <5> QED BY <2>1, <2>2, <5>1
      <4> QED BY <4>1, <4>2
    <3> QED BY <2>3, <3>1
  <2>5. Upto(g, i)
    <3> HIDE DEF ReadIs
    <3> QED BY <2>2, <2>4
  <2> HIDE DEF Upto
  <2> QED BY <1>0, <2>5
<1>3. 1 \in T
  <2> HIDE DEF T
  <2>1. 1 .. n + 1 \subseteq T
        BY <1>0, <1>1, <1>2, Downwards
  <2> QED BY <1>0, <2>1
<1>4. PICK f : Upto(f, 1)
      BY <1>3
<1> DEFINE h == [i \in 1 .. n |-> ReadIs(f, i)]
<1>5. ASSUME NEW i \in 1 .. n
      PROVE  h[i] = ReadIs(h, i)
  <2>1. \A j \in 1 .. n : h[j] = f[j]
    <3> HIDE DEF ReadIs
    <3> QED BY <1>4
  <2>2. h[i] = ReadIs(f, i)
        OBVIOUS
  <2> HIDE DEF h
  <2>3. \A j \in i + 1 .. n : f[j] = h[j]
        BY <1>0, <2>1
  <2>4. ReadIs(f, i) = ReadIs(h, i)
    <3> HIDE DEF ReadIs
    <3> QED BY <2>3, <1>local
  <2> QED BY <2>2, <2>4
<1>6. h = [i \in 1 .. n |-> h[i]]
      OBVIOUS
<1>7. \E reads : reads = [i \in 1 .. n |-> ReadIs(reads, i)]
  <2> HIDE DEF h, ReadIs
  <2> QED BY <1>5, <1>6
<1>8. R = [i \in 1 .. n |-> ReadIs(R, i)]
  <2> HIDE DEF ReadIs
  <2> QED BY <1>7
<1>9. Readings(options, flags, args) = R
      BY DEF Readings, n
<1> HIDE DEF R
<1>10. \A i \in 1 .. n : R[i] = ReadIs(R, i)
  <2> HIDE DEF ReadIs
  <2> QED BY <1>8
<1> QED BY <1>9, <1>10 DEF n

IsRead(N, S, r) == IsMeaning(N, r.means) /\ r.rest \in Seq(S)

LEMMA ReadType ==
    ASSUME NEW N, NEW options, IsTable(N, options), NEW S, NEW args, IsVector(S, args),
           NEW flags, NEW f, NEW i \in 1 .. Len(args) + 1,
           \A j \in i + 1 .. Len(args) + 1 : IsRead(N, S, f[j])
    PROVE  IsRead(N, S, ReadAt(options, flags, args, f, i))
<1>1. Len(args) \in Nat /\ args \in Seq(S)
      BY LenProperties DEF IsVector
<1>2. \A verdict, rest : rest \in Seq(S) => IsRead(N, S, Reads(verdict, NoMeaning, rest))
      BY NothingMeant DEF IsRead, Reads
<1>3. <<>> \in Seq(S)
      BY EmptySeq
<1>4. CASE i > Len(args)
      BY <1>2, <1>3, <1>4 DEF ReadAt
<1>5. CASE i <= Len(args) /\ IsOption(args, i)
  <2> DEFINE one  == OptionSaid(options, args, i)
             more == f[i + 1 + one.used]
             both == Merged(CountsIn(options), one.means, more.means)
  <2>1. i \in 1 .. Len(args)
        BY <1>1, <1>5
  <2>2. IsMeaning(N, one.means) /\ i + 1 + one.used \in i + 1 .. Len(args) + 1
        BY <1>5, <2>1, OptionSaidType
  <2>3. ReadAt(options, flags, args, f, i) = OptionAndMore(options, one, f, i)
        BY <1>1, <1>5, <2>1, ReadsOption
  <2> HIDE DEF one
  <2>4. IsRead(N, S, more)
        BY <2>2
  <2> HIDE DEF more
  <2>5. IsMeaning(N, both)
        BY <2>2, <2>4, CountsAre, MergedMeaning DEF IsRead
  <2> HIDE DEF both
  <2>6. OptionAndMore(options, one, f, i) \in
            {Reads("refused", NoMeaning, <<>>), Reads(more.verdict, both, more.rest)}
        BY DEF OptionAndMore, more, both
  <2>7. IsRead(N, S, Reads(more.verdict, both, more.rest))
        BY <2>4, <2>5 DEF IsRead, Reads
  <2> QED BY <1>2, <1>3, <2>3, <2>6, <2>7
<1>6. CASE i <= Len(args) /\ args[i].form = "word"
  <2>1. IsRead(N, S, f[i + 1])
        BY <1>1, <1>6
  <2>2. args[i] \in S
        BY <1>1, <1>6, ElementOfSeq
  <2>3. <<args[i]>> \o f[i + 1].rest \in Seq(S)
        BY <2>1, <2>2, ConcatProperties DEF IsRead
  <2>4. SubSeq(args, i, Len(args)) \in Seq(S)
        BY <1>1, SubSeqProperties, ElementOfSeq
  <2>5. ReadAt(options, flags, args, f, i) = WordAndMore(flags, args, f, i)
        BY <1>1, <1>6 DEF ReadAt
  <2>6. IsRead(N, S, Reads(f[i + 1].verdict, f[i + 1].means, <<args[i]>> \o f[i + 1].rest))
        BY <2>1, <2>3 DEF IsRead, Reads
  <2> QED BY <1>2, <1>3, <2>4, <2>5, <2>6 DEF WordAndMore
<1>7. CASE i <= Len(args) /\ ~IsOption(args, i) /\ args[i].form # "word"
  <2>1. SubSeq(args, i + 1, Len(args)) \in Seq(S)
        BY <1>1, SubSeqProperties, ElementOfSeq
  <2>2. ReadAt(options, flags, args, f, i) \in
            {Reads("ok", NoMeaning, SubSeq(args, i + 1, Len(args))),
             Reads("refused", NoMeaning, <<>>), Reads("dash", NoMeaning, <<>>)}
        BY <1>1, <1>7 DEF ReadAt, IsOption, IsAsking, AskedHelp
  <2> QED BY <1>2, <1>3, <2>1, <2>2
<1> QED BY <1>1, <1>4, <1>5, <1>6, <1>7

LEMMA ReadingsType ==
    ASSUME NEW N, NEW options, IsTable(N, options), NEW S, NEW args, IsVector(S, args), NEW flags
    PROVE  \A i \in 1 .. Len(args) + 1 : IsRead(N, S, Readings(options, flags, args)[i])
<1> DEFINE n == Len(args) + 1
           R == Readings(options, flags, args)
           T == {i \in 1 .. n + 1 : \A j \in i .. n : IsRead(N, S, R[j])}
<1>0. n \in Nat
      BY LenProperties DEF IsVector
<1>1. \A i \in 1 .. n : R[i] = ReadAt(options, flags, args, R, i)
      BY ReadingsEquations
<1> HIDE DEF R
<1>2. ASSUME NEW i \in 1 .. n, i + 1 \in T
      PROVE  i \in T
  <2>1. \A j \in i + 1 .. n : IsRead(N, S, R[j])
        BY <1>2
  <2>2. IsRead(N, S, R[i])
        BY <1>1, <2>1, ReadType
  <2> HIDE DEF n
  <2>3. \A j \in i .. n : j = i \/ j \in i + 1 .. n
        BY <1>0
  <2> QED BY <1>0, <2>1, <2>2, <2>3
<1> HIDE DEF n
<1>3. n + 1 \in T
      BY <1>0
<1>4. 1 .. n + 1 \subseteq T
  <2> HIDE DEF T
  <2> QED BY <1>0, <1>2, <1>3, Downwards
<1>5. 1 \in T
      BY <1>0, <1>4
<1>6. \A i \in 1 .. n : IsRead(N, S, R[i])
      BY <1>5
<1> QED BY <1>6 DEF R, n

-------------------------------------------------------------------------------
(***************************************************************************)
(* A pass over the arguments p.args with the options p.options, from the   *)
(* values p.before on.                                                     *)
(***************************************************************************)
Policies == {"until", "abort", "collect"}

(* A pass p with a sound table whose names are of N, over arguments of S. *)
IsPass(N, S, p) ==
    /\ N \subseteq OptionNames /\ IsTable(N, p.options) /\ IsVector(S, p.args)
    /\ p.flags \in Policies /\ IsValues(p.before)

ReadsOf(p) == Readings(p.options, p.flags, p.args)
Whole(p)   == ReadsOf(p)[1]

(* With v, and front collected, the arguments from i on say the rest of it all. *)
Ahead(p, front, i, v) ==
    /\ i \in 1 .. Len(p.args) + 1 /\ IsValues(v)
    /\ ReadsOf(p)[i].verdict = Whole(p).verdict
    /\ front \o ReadsOf(p)[i].rest = Whole(p).rest
    /\ Applied(CountsIn(p.options), v, ReadsOf(p)[i].means)
           = Applied(CountsIn(p.options), p.before, Whole(p).means)

(* The same behind the option at i, of which one is left to be done. *)
AheadOf(p, front, one, i, v) ==
    IF one.ok THEN Ahead(p, front, i + 1 + one.used, Applied(CountsIn(p.options), v, one.means))
    ELSE Whole(p).verdict = "refused"

LEMMA ReadsAre ==
    ASSUME NEW N, NEW S, NEW p, IsPass(N, S, p), NEW i \in 1 .. Len(p.args) + 1
    PROVE  /\ ReadsOf(p)[i] = ReadAt(p.options, p.flags, p.args, ReadsOf(p), i)
           /\ IsRead(N, S, ReadsOf(p)[i])
BY ReadingsEquations, ReadingsType DEF IsPass, ReadsOf

LEMMA OptionAhead ==
    ASSUME NEW N, NEW S, NEW p, IsPass(N, S, p), NEW front, NEW i, NEW v,
           Ahead(p, front, i, v), i <= Len(p.args), IsOption(p.args, i)
    PROVE  AheadOf(p, front, OptionSaid(p.options, p.args, i), i, v)
<1> DEFINE one  == OptionSaid(p.options, p.args, i)
           k    == i + 1 + one.used
           R    == ReadsOf(p)
           c    == CountsIn(p.options)
<1>1. i \in 1 .. Len(p.args) /\ Len(p.args) \in Nat /\ i \in 1 .. Len(p.args) + 1
      BY LenProperties DEF Ahead, IsPass, IsVector
<1>2. R[i] = OptionAndMore(p.options, one, R, i)
      BY <1>1, ReadsAre, ReadsOption
<1>3. IsMeaning(N, one.means) /\ k \in i + 1 .. Len(p.args) + 1
      BY <1>1, OptionSaidType DEF IsPass
<1>4. CASE ~one.ok
  <2>1. R[i].verdict = "refused"
        BY <1>2, <1>4 DEF OptionAndMore, Reads
  <2> QED BY <1>4, <2>1 DEF AheadOf, Ahead, Whole
<1>5. CASE one.ok
  <2> DEFINE both == Merged(c, one.means, R[k].means)
  <2>1. R[i] = Reads(R[k].verdict, both, R[k].rest)
        BY <1>2, <1>5 DEF OptionAndMore
  <2> HIDE DEF one, k, R
  <2>2. k \in 1 .. Len(p.args) + 1
        BY <1>1, <1>3
  <2>3. IsMeaning(N, R[k].means)
        BY <2>2, ReadsAre DEF IsRead, R
  <2>4. IsValues(v) /\ c \subseteq Counting
        BY CountsAre DEF Ahead, IsPass
  <2> HIDE DEF c
  <2>5. Applied(c, Applied(c, v, one.means), R[k].means) = Applied(c, v, both)
        BY <1>3, <2>3, <2>4, AppliedMerged
  <2>6. IsValues(Applied(c, v, one.means))
        BY <1>3, <2>4, AppliedValues
  <2>7. R[i].verdict = R[k].verdict /\ R[i].means = both /\ R[i].rest = R[k].rest
        BY <2>1 DEF Reads
  <2> HIDE DEF both
  <2>8. Ahead(p, front, k, Applied(c, v, one.means))
        BY <2>2, <2>5, <2>6, <2>7 DEF Ahead, R, c
  <2> QED BY <1>5, <2>8 DEF AheadOf, one, k, c
<1> QED BY <1>4, <1>5
-------------------------------------------------------------------------------
Collected == SubSeq(argv, 1, idx)

(* The arguments from the cursor on are as they were given. *)
OnVector(S, p) ==
    parse \in Parsing =>
        /\ argv \in Seq(S) /\ Len(argv) = Len(p.args)
        /\ \A j \in cur .. Len(p.args) : argv[j] = p.args[j]

Between(p) == parse = "next" => optstr = <<>> /\ Ahead(p, Collected, cur, vals)

(* Behind an option only validate_parsed_value() is left. *)
Behindhand == parse = "validate" \/ (parse = "short" /\ optstr = <<>>)

Valued(p) ==
    Behindhand =>
        /\ optstr = <<>>
        /\ IF Fails(p.options[parsed]) THEN Whole(p).verdict = "refused"
           ELSE Ahead(p, Collected, cur + 1, vals)

(* In a cluster there is left what its pending letters say. *)
InCluster(p) ==
    parse = "short" /\ optstr # <<>> =>
        LET letters == p.args[cur].letters
        IN  /\ p.args[cur].form = "short" /\ letters # <<>> /\ IsValues(vals)
            /\ \E k \in 1 .. Len(letters) :
                  /\ optstr = <<Letters(SubSeq(letters, k, Len(letters)))>>
                  /\ AheadOf(p, Collected, ClusterReading(p.options, letters, Behind(p.args, cur))[k],
                             cur, vals)

(* A pass that is done has done what its arguments say. *)
Passed(p) ==
    parse = "done" =>
        /\ Whole(p).verdict = "ok" /\ argv = Whole(p).rest
        /\ vals = Applied(CountsIn(p.options), p.before, Whole(p).means)

(* What is left to be read, with what was stored and collected so far, comes to
   what the arguments say as a whole; a pass that exits was to refuse them. *)
PassInv(S, p) ==
    /\ table = p.options /\ policy = p.flags /\ argc0 = Len(p.args)
    /\ OnVector(S, p) /\ Between(p) /\ Valued(p) /\ InCluster(p) /\ Passed(p)
    /\ parse \in Exited => Whole(p).verdict = "refused" /\ parse # "bug"

LEMMA BeginPass ==
    ASSUME NEW N, NEW S, NEW p, IsPass(N, S, p), Begin(p.options, p.flags, p.args),
           UNCHANGED vals, vals = p.before
    PROVE  PassInv(S, p)'
<1>1. Len(p.args) \in Nat /\ p.args \in Seq(S)
      BY LenProperties DEF IsPass, IsVector
<1>2. SubSeq(p.args, 1, 0) = <<>>
      BY <1>1, SubSeqProperties, EmptySeq
<1>3. Whole(p).rest \in Seq(S)
      BY <1>1, ReadsAre DEF Whole, IsRead
<1>4. <<>> \o Whole(p).rest = Whole(p).rest
      BY <1>3
<1>5. Ahead(p, <<>>, 1, p.before)
      BY <1>1, <1>4 DEF Ahead, IsPass, Whole
<1>6. argv' = p.args /\ cur' = 1 /\ idx' = 0 /\ optstr' = <<>> /\ parse' = "next"
      BY DEF Begin
<1>7. Collected' = <<>>
      BY <1>2, <1>6 DEF Collected
<1>8. Between(p)'
      BY <1>5, <1>6, <1>7 DEF Between
<1>9. OnVector(S, p)'
      BY <1>1, <1>6 DEF OnVector
<1> QED BY <1>6, <1>8, <1>9 DEF PassInv, Begin, Valued, Behindhand, InCluster, Passed, Exited

-------------------------------------------------------------------------------
LEMMA InPass ==
    ASSUME NEW N, NEW S, NEW p, IsPass(N, S, p), InVector, PassInv(S, p), parse \in Parsing
    PROVE  /\ table = p.options /\ policy = p.flags /\ argc0 = Len(p.args)
           /\ argv \in Seq(S) /\ Len(argv) = Len(p.args) /\ Len(argv) \in Nat
           /\ cur \in Nat /\ idx \in Nat /\ idx < cur /\ cur <= Len(argv) + 1
           /\ \A j \in cur .. Len(p.args) : argv[j] = p.args[j]
BY LenProperties DEF PassInv, OnVector, InVector

LEMMA SameBehind ==
    ASSUME NEW p, Len(argv) = Len(p.args), Len(argv) \in Nat, cur \in Nat, cur <= Len(argv),
           \A j \in cur .. Len(p.args) : argv[j] = p.args[j]
    PROVE  argv[cur] = p.args[cur] /\ Behind(argv, cur) = Behind(p.args, cur)
<1>1. argv[cur] = p.args[cur]
      OBVIOUS
<1>2. cur < Len(argv) => argv[cur + 1] = p.args[cur + 1]
      OBVIOUS
<1> QED BY <1>1, <1>2 DEF Behind

(* An option stands where it stood when the next one is looked at. *)
LEMMA StaysOnVector ==
    ASSUME NEW S, NEW p, argv \in Seq(S), Len(argv) = Len(p.args), cur \in Nat, cur' \in Nat,
           \A j \in cur .. Len(p.args) : argv[j] = p.args[j], UNCHANGED argv, cur <= cur'
    PROVE  OnVector(S, p)'
<1>1. Len(argv) \in Nat
      BY LenProperties
<1>2. \A j \in cur' .. Len(p.args) : j \in cur .. Len(p.args)
      BY <1>1
<1> QED BY <1>2 DEF OnVector

LEMMA NothingPending ==
    ASSUME NEW N, NEW o, IsProper(N, o), NEW unset, NEW str, NEW behind,
           OptionSays(o, unset, FALSE, str, behind).ok, ~TakesText(o, unset, str)
    PROVE  str = <<>>
<1>1. ~Refuses(o, unset, FALSE, str)
      BY DEF OptionSays, NotTaken
<1> QED BY <1>1 DEF Refuses, TakesText, IsProper

(* A long option is done with. *)
LEMMA LongDone ==
    ASSUME NEW N, NEW S, NEW p, IsPass(N, S, p), InVector, PassInv(S, p),
           parse = "next", cur <= Len(argv), argv[cur].form = "long",
           NEW i \in DOMAIN p.options, IsProper(N, p.options[i]), NEW unset,
           LongSays(p.options, argv[cur], Behind(p.args, cur))
               = OptionSays(p.options[i], unset, FALSE, argv[cur].val, Behind(p.args, cur)),
           GetArg(p.options[i], unset, FALSE, Pending(argv[cur]), "validate"),
           parsed' = i, UNCHANGED <<table, policy, argv, argc0, idx>>
    PROVE  PassInv(S, p)'
<1> DEFINE o   == p.options[i]
           str == argv[cur].val
           one == OptionSays(o, unset, FALSE, str, Behind(p.args, cur))
           c   == CountsIn(p.options)
<1>1. /\ table = p.options /\ policy = p.flags /\ argc0 = Len(p.args)
      /\ argv \in Seq(S) /\ Len(argv) = Len(p.args) /\ Len(argv) \in Nat
      /\ cur \in Nat /\ idx \in Nat /\ idx < cur /\ cur <= Len(argv) + 1
      /\ \A j \in cur .. Len(p.args) : argv[j] = p.args[j]
      BY InPass DEF Parsing
<1>2. argv[cur] = p.args[cur] /\ Behind(argv, cur) = Behind(p.args, cur)
      BY <1>1, SameBehind
<1>3. optstr = <<>> /\ Ahead(p, Collected, cur, vals)
      BY DEF PassInv, Between
<1>4. Pending(argv[cur]) = str /\ IsValues(vals)
      BY <1>3 DEF Pending, Ahead
<1>5. OptionSaid(p.options, p.args, cur) = one /\ IsOption(p.args, cur)
      BY <1>2 DEF OptionSaid, IsOption
<1>6. AheadOf(p, Collected, one, cur, vals)
      BY <1>1, <1>3, <1>5, OptionAhead
<1>7. GetArg(o, unset, FALSE, str, "validate")
      BY <1>4
<1>8. o.name \in c <=> o.type = "COUNTUP"
      BY CountsAre DEF IsPass
<1>9. DoesSay(c, o, unset, one, str, "validate")
  <2> HIDE DEF o, str, c
  <2>1. N \subseteq OptionNames /\ IsProper(N, o)
        BY DEF IsPass, o
  <2> QED BY <1>1, <1>2, <1>4, <1>7, <1>8, <2>1, GetArgSays
<1>10. cur' \in Nat /\ cur <= cur'
  <2> HIDE DEF o, str
  <2> QED BY <1>1, <1>7, GetArgStays
<1>11. OnVector(S, p)'
       BY <1>1, <1>10, StaysOnVector
<1>12. Collected' = Collected
       BY DEF Collected
<1>13. ~one.ok => Whole(p).verdict = "refused"
       BY <1>6 DEF AheadOf
<1>14. table' = p.options /\ policy' = p.flags /\ argc0' = Len(p.args)
       BY <1>1
<1>15. CASE parse' = "error" /\ ~one.ok
       BY <1>13, <1>14, <1>15
          DEF PassInv, OnVector, Between, Valued, Behindhand, InCluster, Passed, Parsing
<1>16. CASE parse' = "validate" /\ optstr' = <<>> /\ Valued(p)'
       BY <1>11, <1>14, <1>16 DEF PassInv, Between, InCluster, Passed, Exited
<1>17. CASE parse' = "validate" /\ ~one.ok /\ Fails(o)' /\ optstr' = <<>>
  <2>1. Valued(p)'
        BY <1>13, <1>17 DEF Valued, Fails
  <2> QED BY <1>16, <1>17, <2>1
<1>18. CASE /\ parse' = "validate" /\ one.ok /\ ~Fails(o)'
            /\ vals' = Applied(c, vals, one.means) /\ cur' = cur + one.used
            /\ optstr' = IF TakesText(o, unset, str) THEN <<>> ELSE str
  <2>1. optstr' = <<>>
        BY <1>18, NothingPending
  <2>2. Ahead(p, Collected, cur + 1 + one.used, Applied(c, vals, one.means))
        BY <1>6, <1>18 DEF AheadOf
  <2>3. one.used \in {0, 1}
        BY OptionSaysType DEF IsSaid
  <2>4. cur' + 1 = cur + 1 + one.used
    <3> HIDE DEF one
    <3> QED BY <1>1, <1>18, <2>3
  <2>5. Ahead(p, Collected', cur' + 1, vals')
        BY <1>12, <1>18, <2>2, <2>4
  <2>6. Valued(p)'
        BY <1>18, <2>1, <2>5 DEF Valued, Fails
  <2> QED BY <1>16, <1>18, <2>1, <2>6
<1> QED BY <1>9, <1>15, <1>17, <1>18 DEF DoesSay

(* The letters that are left of a cluster. *)
LEMMA LettersLeft ==
    ASSUME NEW T, NEW letters \in Seq(T), NEW k \in 1 .. Len(letters)
    PROVE  LET left == SubSeq(letters, k, Len(letters))
           IN  FirstLetter(left) = letters[k] /\ RestOf(left) = {LettersAfter(letters, k)}
<1> DEFINE n    == Len(letters)
           left == SubSeq(letters, k, n)
           more == SubSeq(letters, k + 1, n)
<1>1. n \in Nat /\ \A i \in 1 .. n : letters[i] \in T
      BY LenProperties, ElementOfSeq
<1>2. left \in Seq(T) /\ Len(left) = n - k + 1 /\ \A i \in 1 .. n - k + 1 : left[i] = letters[k + i - 1]
      BY <1>1, SubSeqProperties
<1>3. left # <<>> /\ Head(left) = letters[k]
  <2> HIDE DEF left
  <2>1. 1 \in 1 .. n - k + 1 /\ k + 1 - 1 = k
        BY <1>1
  <2>2. Len(left) # 0 /\ left[1] = letters[k]
        BY <1>1, <1>2, <2>1
  <2>3. left # <<>>
        BY <1>2, <2>2, EmptySeq
  <2> QED BY <1>2, <2>2, <2>3
<1>4. CASE k = n
  <2>1. Len(left) = 1
        BY <1>1, <1>2, <1>4
  <2> HIDE DEF left
  <2>2. RestOf(left) = {<<>>}
        BY <1>3, <2>1 DEF RestOf
  <2> QED BY <1>3, <1>4, <2>2 DEF FirstLetter, LettersAfter, left
<1>5. CASE k # n
  <2>1. Len(left) # 1 /\ Len(left) \in Nat
        BY <1>1, <1>2, <1>5
  <2>2. more \in Seq(T) /\ Len(more) = n - k /\ \A i \in 1 .. n - k : more[i] = letters[k + i]
    <3>1. k + 1 \in 1 .. n
          BY <1>1, <1>5
    <3>2. /\ more \in Seq(T) /\ Len(more) = n - (k + 1) + 1
          /\ \A i \in 1 .. n - (k + 1) + 1 : more[i] = letters[(k + 1) + i - 1]
      <4> HIDE DEF n, more
      <4>1. \A i \in k + 1 .. n : letters[i] \in T
            BY <1>1
      <4> QED BY <1>1, <3>1, <4>1, SubSeqProperties DEF n, more
    <3>3. n - (k + 1) + 1 = n - k /\ \A i \in 1 .. n - k : (k + 1) + i - 1 = k + i
          BY <1>1
    <3> QED BY <3>2, <3>3
  <2>3. /\ Tail(left) \in Seq(T) /\ Len(Tail(left)) = n - k
        /\ \A i \in 1 .. n - k : Tail(left)[i] = letters[k + i]
    <3> HIDE DEF left
    <3>1. /\ Tail(left) \in Seq(T) /\ Len(Tail(left)) = Len(left) - 1
          /\ \A i \in 1 .. Len(Tail(left)) : Tail(left)[i] = left[i + 1]
          BY <1>2, <1>3, HeadTailProperties
    <3>2. \A i \in 1 .. n - k : left[i + 1] = letters[k + i]
      <4>1. \A i \in 1 .. n - k : i + 1 \in 1 .. n - k + 1 /\ k + (i + 1) - 1 = k + i
            BY <1>1
      <4> QED BY <1>2, <4>1
    <3>3. Len(Tail(left)) = n - k
          BY <1>1, <1>2, <3>1
    <3> QED BY <3>1, <3>2, <3>3
  <2>4. Tail(left) = more
    <3> HIDE DEF left, more
    <3> QED BY <2>2, <2>3, SeqEqual
  <2> HIDE DEF left
  <2>5. RestOf(left) = {<<Letters(Tail(left))>>}
        BY <1>3, <2>1 DEF RestOf
  <2> QED BY <1>3, <1>5, <2>4, <2>5 DEF FirstLetter, LettersAfter, left
<1> QED BY <1>4, <1>5

LEMMA AliasIs ==
    ASSUME NEW N, NEW options, IsTable(N, options), table = options, NEW c
    PROVE  /\ Aliased(options, c) = {} => ByAlias(c) = 0
           /\ Aliased(options, c) # {} => ByAlias(c) = Min(Aliased(options, c)) /\ ByAlias(c) # 0
<1> DEFINE I == {i \in 1 .. Len(table) : table[i].alias = c}
<1>1. ByAlias(c) = IF I # {} THEN Min(I) ELSE 0
      BY DEF ByAlias, SelectInSeq
<1>2. I = Aliased(options, c)
      BY DEF IsTable, Aliased
<1>3. I # {} => Min(I) \in I
      BY MinOfSome DEF IsTable
<1>4. I # {} => Min(I) # 0
      BY <1>3 DEF IsTable
<1> HIDE DEF I
<1> QED BY <1>1, <1>2, <1>4

(* Where the letters of a cluster are pending. *)
LEMMA Pends ==
    ASSUME NEW N, NEW S, NEW p, IsPass(N, S, p), InVector, PassInv(S, p),
           parse = "short", optstr # <<>>
    PROVE  LET letters == p.args[cur].letters
           IN  /\ letters \in Seq(Letter) /\ Len(letters) \in Nat /\ Len(letters) # 0 /\ IsValues(vals)
               /\ \E k \in 1 .. Len(letters) :
                     /\ optstr[1].letters = SubSeq(letters, k, Len(letters))
                     /\ AheadOf(p, Collected,
                                ClusterReading(p.options, letters, Behind(p.args, cur))[k], cur, vals)
<1> DEFINE letters == p.args[cur].letters
<1>1. /\ p.args[cur].form = "short" /\ letters # <<>> /\ IsValues(vals)
      /\ \E k \in 1 .. Len(letters) :
             /\ optstr = <<Letters(SubSeq(letters, k, Len(letters)))>>
             /\ AheadOf(p, Collected,
                        ClusterReading(p.options, letters, Behind(p.args, cur))[k], cur, vals)
      BY DEF PassInv, InCluster
<1>2. cur \in 1 .. Len(p.args)
      BY InPass DEF InVector, Parsing
<1>3. letters \in Seq(Letter) /\ Len(letters) \in Nat /\ Len(letters) # 0
      BY <1>1, <1>2, ClusterHasLetters DEF IsPass
<1>4. PICK k \in 1 .. Len(letters) :
             /\ optstr = <<Letters(SubSeq(letters, k, Len(letters)))>>
             /\ AheadOf(p, Collected,
                        ClusterReading(p.options, letters, Behind(p.args, cur))[k], cur, vals)
      BY <1>1
<1>5. optstr[1].letters = SubSeq(letters, k, Len(letters))
      BY <1>4 DEF Letters
<1> QED BY <1>1, <1>3, <1>4, <1>5

LEMMA PassUnknownShort ==
    ASSUME NEW N, NEW S, NEW p, IsPass(N, S, p), InVector, PassInv(S, p), UnknownShort
    PROVE  PassInv(S, p)'
<1> DEFINE letters == p.args[cur].letters
           behind  == Behind(p.args, cur)
           C       == ClusterReading(p.options, letters, behind)
<1>1. parse = "short" /\ optstr # <<>>
      BY DEF UnknownShort
<1>2. letters \in Seq(Letter) /\ Len(letters) \in Nat /\ Len(letters) # 0
      BY <1>1, Pends
<1>3. PICK k \in 1 .. Len(letters) :
          /\ optstr[1].letters = SubSeq(letters, k, Len(letters))
          /\ AheadOf(p, Collected, C[k], cur, vals)
      BY <1>1, Pends
<1>4. FirstLetter(optstr[1].letters) = letters[k]
      BY <1>2, <1>3, LettersLeft
<1>5. ByAlias(letters[k]) = 0 /\ parse' \in {"help", "unknown"}
      /\ UNCHANGED <<table, policy, argv, argc0, cur, idx, optstr, parsed, vals>>
      BY <1>4 DEF UnknownShort, Stop
<1>6. table = p.options /\ policy = p.flags /\ argc0 = Len(p.args)
      BY DEF PassInv
<1>7. Aliased(p.options, letters[k]) = {}
      BY <1>5, <1>6, AliasIs DEF IsPass
<1>8. C[k] = LetterSays(p.options, letters, behind, C, k)
  <2> HIDE DEF letters, behind
  <2> QED BY <1>2, ClusterEquations
<1>9. ~C[k].ok
      BY <1>7, <1>8 DEF LetterSays, NotTaken
<1>10. Whole(p).verdict = "refused"
      BY <1>3, <1>9 DEF AheadOf
<1> QED BY <1>5, <1>6, <1>10
       DEF PassInv, OnVector, Between, Valued, Behindhand, InCluster, Passed, Parsing

(* A letter that takes no text says as much as it is, whatever follows it. *)
LEMMA SwitchUsesNone ==
    ASSUME NEW o, NEW unset, NEW short, NEW str, NEW behind, ~TakesText(o, unset, str)
    PROVE  OptionSays(o, unset, short, str, behind).ok =>
               OptionSays(o, unset, short, str, behind).used = 0
BY DEF OptionSays, SwitchSays, Taken, NotTaken

(* The next letter. *)
LEMMA LetterAhead ==
    ASSUME NEW N, NEW S, NEW p, IsPass(N, S, p), NEW front, NEW i \in Nat, NEW v, IsValues(v),
           NEW letters, NEW behind, NEW f, NEW k,
           LettersAfter(letters, k) # <<>> => IsSaid(N, f[k + 1], behind),
           letters[k] \in Letter, Aliased(p.options, letters[k]) # {},
           AheadOf(p, front, LetterSays(p.options, letters, behind, f, k), i, v)
    PROVE  LET o    == FirstOf(p.options, Aliased(p.options, letters[k]))
               text == LettersAfter(letters, k)
               one  == OptionSays(o, FALSE, TRUE, text, behind)
           IN  /\ ~one.ok => Whole(p).verdict = "refused"
               /\ one.ok /\ (text = <<>> \/ TakesText(o, FALSE, text)) => AheadOf(p, front, one, i, v)
               /\ one.ok /\ text # <<>> /\ ~TakesText(o, FALSE, text) =>
                     AheadOf(p, front, f[k + 1], i, Applied(CountsIn(p.options), v, one.means))
<1> DEFINE o    == FirstOf(p.options, Aliased(p.options, letters[k]))
           text == LettersAfter(letters, k)
           one  == OptionSays(o, FALSE, TRUE, text, behind)
           says == LetterSays(p.options, letters, behind, f, k)
           c    == CountsIn(p.options)
<1>1. ~one.ok => says = NotTaken
      BY DEF LetterSays
<1>2. one.ok /\ (text = <<>> \/ TakesText(o, FALSE, text)) => says = one
      BY DEF LetterSays
<1>3. one.ok /\ text # <<>> /\ ~TakesText(o, FALSE, text) =>
          says = IF f[k + 1].ok THEN Taken(Merged(c, one.means, f[k + 1].means), f[k + 1].used)
                 ELSE NotTaken
      BY DEF LetterSays
<1>4. IsProper(N, o)
      BY AliasedProper DEF IsPass
<1>5. IsMeaning(N, one.means)
  <2> HIDE DEF o, text
  <2> QED BY <1>4, OptionSaysType DEF IsSaid
<1>6. c \subseteq Counting
      BY CountsAre DEF IsPass
<1> HIDE DEF one, says, c, text, o
<1>7. AheadOf(p, front, says, i, v)
      BY DEF says
<1>8. ~NotTaken.ok
      BY DEF NotTaken
<1>9. ~one.ok => Whole(p).verdict = "refused"
      BY <1>1, <1>7, <1>8 DEF AheadOf
<1>10. one.ok /\ (text = <<>> \/ TakesText(o, FALSE, text)) => AheadOf(p, front, one, i, v)
      BY <1>2, <1>7
<1> DEFINE w == Applied(c, v, one.means)
<1>11. ASSUME one.ok, text # <<>>, ~TakesText(o, FALSE, text)
       PROVE  AheadOf(p, front, f[k + 1], i, w)
  <2>1. CASE ~f[k + 1].ok
    <3>1. says = NotTaken
          BY <1>3, <1>11, <2>1
    <3>2. Whole(p).verdict = "refused"
          BY <1>7, <1>8, <3>1 DEF AheadOf
    <3> QED BY <2>1, <3>2 DEF AheadOf
  <2>2. CASE f[k + 1].ok
    <3> DEFINE both == Merged(c, one.means, f[k + 1].means)
               next == i + 1 + f[k + 1].used
    <3>1. says = Taken(both, f[k + 1].used)
          BY <1>3, <1>11, <2>2
    <3>2. says.ok /\ says.used = f[k + 1].used /\ says.means = both
          BY <3>1 DEF Taken
    <3>3. Ahead(p, front, next, Applied(c, v, both))
          BY <1>7, <3>2 DEF AheadOf, c
    <3>4. IsMeaning(N, f[k + 1].means)
          BY <1>11 DEF IsSaid, text
    <3>5. Applied(c, w, f[k + 1].means) = Applied(c, v, both)
          BY <1>5, <1>6, <3>4, AppliedMerged
    <3> HIDE DEF w, both, next
    <3>6. Ahead(p, front, next, Applied(c, w, f[k + 1].means))
          BY <3>3, <3>5
    <3> QED BY <2>2, <3>6 DEF AheadOf, next, c
  <2> QED BY <2>1, <2>2
<1> QED BY <1>9, <1>10, <1>11 DEF o, text, one, c

LEMMA PassShort ==
    ASSUME NEW N, NEW S, NEW p, IsPass(N, S, p), InVector, PassInv(S, p), ShortOption
    PROVE  PassInv(S, p)'
<1> DEFINE letters == p.args[cur].letters
           behind  == Behind(p.args, cur)
           C       == ClusterReading(p.options, letters, behind)
           c       == CountsIn(p.options)
<1>1. parse = "short" /\ optstr # <<>> /\ UNCHANGED <<table, policy, argv, argc0, idx>>
      BY DEF ShortOption
<1>2. letters \in Seq(Letter) /\ Len(letters) \in Nat /\ Len(letters) # 0 /\ IsValues(vals)
      BY <1>1, Pends
<1>3. PICK k \in 1 .. Len(letters) :
          /\ optstr[1].letters = SubSeq(letters, k, Len(letters))
          /\ AheadOf(p, Collected, C[k], cur, vals)
      BY <1>1, Pends
<1>4. /\ table = p.options /\ policy = p.flags /\ argc0 = Len(p.args)
      /\ argv \in Seq(S) /\ Len(argv) = Len(p.args) /\ Len(argv) \in Nat
      /\ cur \in Nat /\ idx \in Nat /\ idx < cur
      /\ \A j \in cur .. Len(p.args) : argv[j] = p.args[j]
      BY <1>1, InPass DEF Parsing
<1>5. cur <= Len(argv)
      BY <1>1 DEF InVector
<1>6. argv[cur] = p.args[cur] /\ Behind(argv, cur) = behind
      BY <1>4, <1>5, SameBehind
<1> DEFINE text == LettersAfter(letters, k)
           I    == Aliased(p.options, letters[k])
<1>7. /\ FirstLetter(optstr[1].letters) = letters[k]
      /\ RestOf(optstr[1].letters) = {text}
      BY <1>2, <1>3, LettersLeft
<1>8. /\ ByAlias(letters[k]) # 0 /\ parsed' = ByAlias(letters[k])
      /\ GetArg(table[ByAlias(letters[k])], FALSE, TRUE, text, "short")
      BY <1>7 DEF ShortOption
<1>9. letters[k] \in Letter
      BY <1>2, ElementOfSeq
<1>10. I # {} /\ ByAlias(letters[k]) = Min(I)
       BY <1>4, <1>8, AliasIs DEF IsPass
<1>0. PICK i \in DOMAIN p.options :
          i = Min(I) /\ FirstOf(p.options, I) = p.options[i] /\ IsProper(N, p.options[i])
      BY <1>9, <1>10, AliasedProper DEF IsPass
<1> DEFINE o   == p.options[i]
           one == OptionSays(o, FALSE, TRUE, text, behind)
<1>11. FirstOf(p.options, I) = o /\ parsed' = i /\ IsProper(N, o)
       BY <1>0, <1>8, <1>10
<1>12. GetArg(o, FALSE, TRUE, text, "short")
       BY <1>4, <1>8, <1>11
<1>13. o.name \in c <=> o.type = "COUNTUP"
       BY <1>11, CountsAre DEF IsPass
<1>14. DoesSay(c, o, FALSE, one, text, "short")
  <2> HIDE DEF o, text, c, behind
  <2>1. N \subseteq OptionNames
        BY DEF IsPass
  <2> QED BY <1>2, <1>4, <1>5, <1>6, <1>11, <1>12, <1>13, <2>1, GetArgSays
<1>15. cur' \in Nat /\ cur <= cur'
  <2> HIDE DEF o, text
  <2> QED BY <1>4, <1>5, <1>12, GetArgStays
<1>16. C[k] = LetterSays(p.options, letters, behind, C, k)
  <2> HIDE DEF letters, behind
  <2> QED BY <1>2, ClusterEquations
<1>17. text # <<>> => k + 1 \in 1 .. Len(letters)
       BY <1>2, AfterLast
<1>18. text # <<>> => IsSaid(N, C[k + 1], behind)
  <2>1. \A j \in 1 .. Len(letters) : letters[j] \in Letter
        BY <1>2, ElementOfSeq
  <2> HIDE DEF letters, behind, text
  <2> QED BY <1>2, <1>17, <2>1, ClusterType DEF IsPass
<1>19. /\ ~one.ok => Whole(p).verdict = "refused"
       /\ one.ok /\ (text = <<>> \/ TakesText(o, FALSE, text)) => AheadOf(p, Collected, one, cur, vals)
       /\ one.ok /\ text # <<>> /\ ~TakesText(o, FALSE, text) =>
             AheadOf(p, Collected, C[k + 1], cur, Applied(c, vals, one.means))
  <2>1. AheadOf(p, Collected, LetterSays(p.options, letters, behind, C, k), cur, vals)
        BY <1>3, <1>16
  <2> HIDE DEF letters, behind, C, o
  <2> QED BY <1>2, <1>4, <1>9, <1>10, <1>11, <1>18, <2>1, LetterAhead
<1>20. one.used \in {0, 1} /\ IsMeaning(N, one.means)
  <2> HIDE DEF o, text, behind
  <2> QED BY <1>11, OptionSaysType DEF IsSaid
<1>21. one.ok /\ ~TakesText(o, FALSE, text) => one.used = 0
  <2> HIDE DEF o, text, behind
  <2> QED BY SwitchUsesNone
<1> HIDE DEF o, text, c, C, one, behind, I
<1>22. OnVector(S, p)'
       BY <1>1, <1>4, <1>15, StaysOnVector
<1>23. Collected' = Collected
       BY <1>1 DEF Collected
<1>24. table' = p.options /\ policy' = p.flags /\ argc0' = Len(p.args)
       BY <1>1, <1>4
<1>25. CASE parse' = "error" /\ ~one.ok
       BY <1>19, <1>24, <1>25
          DEF PassInv, OnVector, Between, Valued, Behindhand, InCluster, Passed, Parsing
<1>26. CASE parse' = "short" /\ optstr' = <<>> /\ Valued(p)'
       BY <1>22, <1>24, <1>26 DEF PassInv, Between, InCluster, Passed, Exited
<1>27. CASE parse' = "short" /\ ~one.ok /\ Fails(o)' /\ optstr' = <<>>
  <2>1. Valued(p)'
        BY <1>11, <1>19, <1>27 DEF Valued, Fails, o
  <2> QED BY <1>26, <1>27, <2>1
<1>28. CASE /\ parse' = "short" /\ one.ok /\ ~Fails(o)'
            /\ vals' = Applied(c, vals, one.means) /\ cur' = cur + one.used
            /\ optstr' = IF TakesText(o, FALSE, text) THEN <<>> ELSE text
  <2>1. CASE text = <<>> \/ TakesText(o, FALSE, text)
    <3>1. optstr' = <<>>
          BY <1>28, <2>1
    <3>2. Ahead(p, Collected, cur + 1 + one.used, Applied(c, vals, one.means))
          BY <1>19, <1>28, <2>1 DEF AheadOf, c
    <3>3. cur' + 1 = cur + 1 + one.used
          BY <1>4, <1>20, <1>28
    <3>4. Ahead(p, Collected', cur' + 1, vals')
          BY <1>23, <1>28, <3>2, <3>3
    <3>5. Valued(p)'
          BY <1>11, <1>28, <3>1, <3>4 DEF Valued, Fails, o
    <3> QED BY <1>26, <1>28, <3>1, <3>5
  <2>2. CASE text # <<>> /\ ~TakesText(o, FALSE, text)
    <3>1. optstr' = text /\ cur' = cur
          BY <1>4, <1>21, <1>28, <2>2
    <3>2. text = <<Letters(SubSeq(letters, k + 1, Len(letters)))>> /\ k + 1 \in 1 .. Len(letters)
          BY <1>17, <2>2 DEF LettersAfter, text
    <3>3. AheadOf(p, Collected', C[k + 1], cur', vals')
          BY <1>19, <1>23, <1>28, <2>2, <3>1
    <3>4. IsValues(vals')
          BY <1>2, <1>20, <1>28, AppliedValues
    <3>5. p.args[cur].form = "short" /\ letters # <<>>
          BY <1>1 DEF PassInv, InCluster
    <3>6. \E j \in 1 .. Len(letters) :
              /\ optstr' = <<Letters(SubSeq(letters, j, Len(letters)))>>
              /\ AheadOf(p, Collected', C[j], cur', vals')
          BY <3>1, <3>2, <3>3
    <3>7. InCluster(p)'
          BY <3>1, <3>4, <3>5, <3>6 DEF InCluster, C, behind
    <3>8. optstr' # <<>>
          BY <2>2, <3>1
    <3> QED BY <1>22, <1>24, <1>28, <3>7, <3>8 DEF PassInv, Between, Valued, Behindhand, Passed, Exited
  <2> QED BY <2>1, <2>2
<1> QED BY <1>14, <1>25, <1>27, <1>28 DEF DoesSay

LEMMA ExactIs ==
    ASSUME NEW N, NEW options, IsTable(N, options), table = options, NEW a
    PROVE  /\ Named(options, a) = {} => Exact(a) = 0
           /\ Named(options, a) # {} => Exact(a) = Min(Named(options, a)) /\ Exact(a) # 0
<1> DEFINE I == {i \in 1 .. Len(table) : /\ IsLong(table[i]) /\ table[i].name = a.stem
                                         /\ a.no => "ALLONEG" \in table[i].flags}
<1>1. Exact(a) = IF I # {} THEN Min(I) ELSE 0
      BY DEF Exact, SelectInSeq
<1>2. I = Named(options, a)
      BY DEF IsTable, Named
<1>3. I # {} => Min(I) \in I
      BY MinOfSome DEF IsTable
<1>4. I # {} => Min(I) # 0
      BY <1>3 DEF IsTable
<1> HIDE DEF I
<1> QED BY <1>1, <1>2, <1>4

LEMMA PassExact ==
    ASSUME NEW N, NEW S, NEW p, IsPass(N, S, p), InVector, PassInv(S, p), ExactOption
    PROVE  PassInv(S, p)'
<1>1. /\ parse = "next" /\ cur <= Len(argv) /\ argv[cur].form = "long"
      /\ argv[cur] # HelpOption /\ Exact(argv[cur]) # 0
      /\ parsed' = Exact(argv[cur])
      /\ GetArg(table[Exact(argv[cur])], argv[cur].no, FALSE, Pending(argv[cur]), "validate")
      /\ UNCHANGED <<table, policy, argv, argc0, idx>>
      BY DEF ExactOption, At
<1>2. table = p.options /\ IsTable(N, p.options)
      BY DEF PassInv, IsPass
<1>3. Named(p.options, argv[cur]) # {} /\ Exact(argv[cur]) = Min(Named(p.options, argv[cur]))
      BY <1>1, <1>2, ExactIs
<1>4. PICK i \in DOMAIN p.options :
          /\ i = Exact(argv[cur]) /\ IsProper(N, p.options[i])
          /\ FirstOf(p.options, Named(p.options, argv[cur])) = p.options[i]
      BY <1>2, <1>3, NamedProper
<1>5. LongSays(p.options, argv[cur], Behind(p.args, cur))
          = OptionSays(p.options[i], argv[cur].no, FALSE, argv[cur].val, Behind(p.args, cur))
      BY <1>1, <1>3, <1>4 DEF LongSays
<1>6. GetArg(p.options[i], argv[cur].no, FALSE, Pending(argv[cur]), "validate") /\ parsed' = i
      BY <1>1, <1>2, <1>4
<1> QED BY <1>1, <1>4, <1>5, <1>6, LongDone

LEMMA PassAbbreviated ==
    ASSUME NEW N, NEW S, NEW p, IsPass(N, S, p), InVector, PassInv(S, p), AbbreviatedOption
    PROVE  PassInv(S, p)'
<1>1. /\ parse = "next" /\ cur <= Len(argv) /\ argv[cur].form = "long"
      /\ argv[cur] # HelpOption /\ Exact(argv[cur]) = 0
      /\ UNCHANGED <<table, policy, argv, argc0, idx>>
      BY DEF AbbreviatedOption, At
<1>2. table = p.options /\ IsTable(N, p.options)
      BY DEF PassInv, IsPass
<1>3. AbbreviatedBy(argv[cur]) = Abbreviated(p.options, argv[cur])
      BY <1>2 DEF AbbreviatedBy, Abbreviated
<1>4. PICK i \in Abbreviated(p.options, argv[cur]) :
          /\ Abbreviated(p.options, argv[cur]) = {i} /\ parsed' = i
          /\ GetArg(table[i], NegShortens(argv[cur], table[i]), FALSE, Pending(argv[cur]), "validate")
      BY <1>3 DEF AbbreviatedOption
<1>5. i \in DOMAIN p.options /\ IsProper(N, p.options[i])
      BY <1>2, AbbreviatedProper
<1>6. FirstOf(p.options, Abbreviated(p.options, argv[cur])) = p.options[i]
  <2>1. i \in Int
        BY <1>2, <1>5 DEF IsTable
  <2> QED BY <1>4, <2>1, OnlyAbbreviated
<1>7. Named(p.options, argv[cur]) = {}
      BY <1>1, <1>2, ExactIs
<1>8. LongSays(p.options, argv[cur], Behind(p.args, cur))
          = OptionSays(p.options[i], NegShortens(argv[cur], p.options[i]), FALSE, argv[cur].val,
                       Behind(p.args, cur))
      BY <1>1, <1>4, <1>5, <1>6, <1>7 DEF LongSays
<1>9. GetArg(p.options[i], NegShortens(argv[cur], p.options[i]), FALSE, Pending(argv[cur]), "validate")
      BY <1>2, <1>4
<1> QED BY <1>1, <1>4, <1>5, <1>8, <1>9, LongDone

(* What is said is refused, and the parser exits. *)
LEMMA PassExits ==
    ASSUME NEW S, NEW p, PassInv(S, p), Whole(p).verdict = "refused",
           parse' \in Exited \ {"bug"}, UNCHANGED <<table, policy, argc0>>
    PROVE  PassInv(S, p)'
BY DEF PassInv, OnVector, Between, Valued, Behindhand, InCluster, Passed, Parsing, Exited

(* At an argument the parser has not looked at. *)
LEMMA AtArgument ==
    ASSUME NEW N, NEW S, NEW p, IsPass(N, S, p), InVector, PassInv(S, p), parse = "next"
    PROVE  /\ cur \in 1 .. Len(p.args) + 1 /\ Ahead(p, Collected, cur, vals) /\ optstr = <<>>
           /\ ReadsOf(p)[cur] = ReadAt(p.options, p.flags, p.args, ReadsOf(p), cur)
           /\ ReadsOf(p)[cur].verdict = Whole(p).verdict
           /\ IsRead(N, S, ReadsOf(p)[cur])
           /\ cur <= Len(argv) => cur <= Len(p.args) /\ argv[cur] = p.args[cur]
<1>1. Ahead(p, Collected, cur, vals) /\ optstr = <<>>
      BY DEF PassInv, Between
<1>2. cur \in 1 .. Len(p.args) + 1 /\ ReadsOf(p)[cur].verdict = Whole(p).verdict
      BY <1>1 DEF Ahead
<1>3. cur <= Len(argv) => cur <= Len(p.args) /\ argv[cur] = p.args[cur]
      BY InPass, SameBehind DEF Parsing
<1> QED BY <1>1, <1>2, <1>3, ReadsAre

LEMMA PassUnclear ==
    ASSUME NEW N, NEW S, NEW p, IsPass(N, S, p), InVector, PassInv(S, p), UnclearOption
    PROVE  PassInv(S, p)'
<1>1. /\ parse = "next" /\ cur <= Len(argv) /\ argv[cur].form = "long"
      /\ argv[cur] # HelpOption /\ Exact(argv[cur]) = 0
      BY DEF UnclearOption, At
<1>2. table = p.options /\ IsTable(N, p.options)
      BY DEF PassInv, IsPass
<1>3. AbbreviatedBy(argv[cur]) = Abbreviated(p.options, argv[cur])
      BY <1>2 DEF AbbreviatedBy, Abbreviated
<1>4. ~\E i \in DOMAIN p.options : Abbreviated(p.options, argv[cur]) = {i}
      BY <1>3 DEF UnclearOption
<1>5. Named(p.options, argv[cur]) = {}
      BY <1>1, <1>2, ExactIs
<1>6. LongSays(p.options, argv[cur], Behind(p.args, cur)) = NotTaken
      BY <1>1, <1>4, <1>5 DEF LongSays
<1>7. parse' \in Exited \ {"bug"} /\ UNCHANGED <<table, policy, argc0>>
      BY DEF UnclearOption, Stop, Exited
<1>8. cur \in 1 .. Len(p.args) /\ argv[cur] = p.args[cur] /\ Ahead(p, Collected, cur, vals)
      BY <1>1, AtArgument
<1>9. IsOption(p.args, cur) /\ OptionSaid(p.options, p.args, cur) = NotTaken
      BY <1>1, <1>6, <1>8 DEF IsOption, OptionSaid
<1>10. AheadOf(p, Collected, NotTaken, cur, vals)
       BY <1>8, <1>9, OptionAhead
<1>11. Whole(p).verdict = "refused"
       BY <1>10 DEF AheadOf, NotTaken
<1> QED BY <1>7, <1>11, PassExits

LEMMA OneArgument ==
    ASSUME NEW S, NEW args, IsVector(S, args), Len(args) = 1
    PROVE  args = <<args[1]>>
<1>1. args \in Seq(S) /\ args[1] \in S
      BY ElementOfSeq DEF IsVector
<1> QED BY <1>1

LEMMA PassAskForHelp ==
    ASSUME NEW N, NEW S, NEW p, IsPass(N, S, p), InVector, PassInv(S, p), AskForHelp
    PROVE  PassInv(S, p)'
<1>1. parse = "next" /\ cur <= Len(argv)
      BY DEF AskForHelp, At
<1>2. /\ cur \in 1 .. Len(p.args) /\ argv[cur] = p.args[cur] /\ Ahead(p, Collected, cur, vals)
      /\ ReadsOf(p)[cur] = ReadAt(p.options, p.flags, p.args, ReadsOf(p), cur)
      /\ ReadsOf(p)[cur].verdict = Whole(p).verdict
      BY <1>1, AtArgument
<1>3. parse' \in Exited \ {"bug"} /\ UNCHANGED <<table, policy, argc0>>
      BY DEF AskForHelp, Stop, Exited
<1>4. CASE At("short") /\ IsLoneHelp
  <2>1. Len(p.args) = 1 /\ argv[cur] = AskedHelp
        BY <1>4 DEF IsLoneHelp, AskedHelp, PassInv
  <2>2. cur = 1 /\ p.args = <<p.args[1]>>
        BY <1>2, <2>1, OneArgument DEF IsPass
  <2>3. p.args = <<AskedHelp>>
        BY <1>2, <2>1, <2>2
  <2>4. ReadsOf(p)[cur] = Reads("refused", NoMeaning, <<>>)
    <3>1. ~(cur > Len(p.args)) /\ p.args[cur].form = "short"
          BY <1>2, <1>4, <2>1, <2>2 DEF At
    <3> QED BY <1>2, <2>3, <3>1 DEF ReadAt, AskedHelp
  <2>5. Whole(p).verdict = "refused"
        BY <1>2, <2>4 DEF Reads
  <2> QED BY <1>3, <2>5, PassExits
<1>5. CASE At("long") /\ argv[cur] = HelpOption
  <2>1. p.args[cur].form = "long"
        BY <1>2, <1>5 DEF At
  <2>2. LongSays(p.options, p.args[cur], Behind(p.args, cur)) = NotTaken
        BY <1>2, <1>5 DEF LongSays
  <2>3. IsOption(p.args, cur) /\ OptionSaid(p.options, p.args, cur) = NotTaken
        BY <2>1, <2>2 DEF IsOption, OptionSaid
  <2>4. AheadOf(p, Collected, NotTaken, cur, vals)
        BY <1>2, <2>3, OptionAhead
  <2>5. Whole(p).verdict = "refused"
        BY <2>4 DEF AheadOf, NotTaken
  <2> QED BY <1>3, <2>5, PassExits
<1> QED BY <1>4, <1>5 DEF AskForHelp

LEMMA PassShorts ==
    ASSUME NEW N, NEW S, NEW p, IsPass(N, S, p), InVector, PassInv(S, p), Shorts,
           Whole(p).verdict # "dash"
    PROVE  PassInv(S, p)'
<1> DEFINE letters == p.args[cur].letters
           n       == Len(letters)
           behind  == Behind(p.args, cur)
           C       == ClusterReading(p.options, letters, behind)
<1>1. /\ parse = "next" /\ cur <= Len(argv) /\ argv[cur].form = "short" /\ ~IsLoneHelp
      /\ optstr' = <<Letters(argv[cur].letters)>> /\ parse' = "short"
      /\ UNCHANGED <<table, policy, argv, argc0, cur, idx, parsed, vals>>
      BY DEF Shorts, At
<1>2. /\ cur \in 1 .. Len(p.args) /\ argv[cur] = p.args[cur] /\ Ahead(p, Collected, cur, vals)
      /\ ReadsOf(p)[cur] = ReadAt(p.options, p.flags, p.args, ReadsOf(p), cur)
      /\ ReadsOf(p)[cur].verdict = Whole(p).verdict
      BY <1>1, AtArgument
<1>3. /\ table = p.options /\ policy = p.flags /\ argc0 = Len(p.args)
      /\ argv \in Seq(S) /\ Len(argv) = Len(p.args) /\ Len(argv) \in Nat /\ cur \in Nat
      /\ \A j \in cur .. Len(p.args) : argv[j] = p.args[j]
      BY <1>1, InPass DEF Parsing
<1>4. ~IsAsking(p.args, cur)
  <2> SUFFICES ASSUME p.args = <<AskedHelp>> PROVE FALSE
      BY DEF IsAsking
  <2>1. Len(p.args) = 1
        OBVIOUS
  <2>2. cur = 1
        BY <1>2, <2>1
  <2>3. argv[cur] = AskedHelp
        BY <1>2, <2>2
  <2> QED BY <1>1, <1>3, <2>1, <2>3 DEF IsLoneHelp, AskedHelp
<1>5. letters # <<>>
  <2> SUFFICES ASSUME letters = <<>> PROVE FALSE
      OBVIOUS
  <2>1. ReadsOf(p)[cur] = Reads("dash", NoMeaning, <<>>)
        BY <1>1, <1>2, <1>4 DEF ReadAt, IsAsking, AskedHelp
  <2> QED BY <1>2, <2>1 DEF Reads
<1>6. IsOption(p.args, cur) /\ OptionSaid(p.options, p.args, cur) = C[1]
      BY <1>1, <1>2, <1>4, <1>5 DEF IsOption, OptionSaid, ClusterSays
<1>7. AheadOf(p, Collected, C[1], cur, vals)
      BY <1>2, <1>6, OptionAhead
<1>8. letters \in Seq(Letter) /\ n \in Nat /\ n # 0
      BY <1>1, <1>2, <1>5, ClusterHasLetters DEF IsPass
<1>9. SubSeq(letters, 1, n) = letters
  <2> HIDE DEF letters
  <2>1. \A i \in 1 .. n : letters[i] \in Letter
        BY <1>8, ElementOfSeq
  <2>2. /\ SubSeq(letters, 1, n) \in Seq(Letter) /\ Len(SubSeq(letters, 1, n)) = n
        /\ \A i \in 1 .. n : SubSeq(letters, 1, n)[i] = letters[i]
    <3>1. /\ SubSeq(letters, 1, n) \in Seq(Letter)
          /\ Len(SubSeq(letters, 1, n)) = n - 1 + 1
          /\ \A i \in 1 .. n - 1 + 1 : SubSeq(letters, 1, n)[i] = letters[1 + i - 1]
          BY <1>8, <2>1, SubSeqProperties
    <3>2. n - 1 + 1 = n /\ \A i \in 1 .. n : 1 + i - 1 = i
          BY <1>8
    <3> QED BY <3>1, <3>2
  <2> QED BY <1>8, <2>2, SeqEqual
<1>10. InCluster(p)'
  <2>1. Collected' = Collected /\ IsValues(vals) /\ 1 \in 1 .. n
        BY <1>1, <1>2, <1>8 DEF Collected, Ahead
  <2>2. optstr' = <<Letters(SubSeq(letters, 1, n))>>
        BY <1>1, <1>2, <1>9
  <2> HIDE DEF C
  <2>3. \E k \in 1 .. n : /\ optstr' = <<Letters(SubSeq(letters, k, n))>>
                          /\ AheadOf(p, Collected', C[k], cur', vals')
        BY <1>1, <1>7, <2>1, <2>2
  <2> QED BY <1>1, <1>2, <1>5, <2>1, <2>3 DEF InCluster, C
<1>11. OnVector(S, p)'
       BY <1>1, <1>3, StaysOnVector
<1> QED BY <1>1, <1>3, <1>10, <1>11 DEF PassInv, Between, Valued, Behindhand, Passed, Exited

LEMMA PassValidate ==
    ASSUME NEW N, NEW S, NEW p, IsPass(N, S, p), InVector, PassInv(S, p), Validate
    PROVE  PassInv(S, p)'
<1>1. Behindhand /\ parse \in Parsing
      BY DEF Validate, Behindhand, Parsing
<1>2. /\ optstr = <<>>
      /\ IF Fails(p.options[parsed]) THEN Whole(p).verdict = "refused"
         ELSE Ahead(p, Collected, cur + 1, vals)
      BY <1>1 DEF PassInv, Valued
<1>3. /\ table = p.options /\ policy = p.flags /\ argc0 = Len(p.args)
      /\ argv \in Seq(S) /\ Len(argv) = Len(p.args) /\ Len(argv) \in Nat /\ cur \in Nat
      /\ \A j \in cur .. Len(p.args) : argv[j] = p.args[j]
      BY <1>1, InPass
<1>4. CASE Fails(p.options[parsed])
  <2>1. Stop("error")
        BY <1>3, <1>4 DEF Validate, Fails
  <2> QED BY <1>2, <1>4, <2>1, PassExits DEF Stop, Exited
<1>5. CASE ~Fails(p.options[parsed])
  <2>1. /\ parse' = "next" /\ cur' = cur + 1
        /\ UNCHANGED <<table, policy, argv, argc0, idx, optstr, parsed, vals>>
        BY <1>3, <1>5 DEF Validate, Fails
  <2>2. Collected' = Collected
        BY <2>1 DEF Collected
  <2>3. Between(p)'
        BY <1>2, <1>5, <2>1, <2>2 DEF Between
  <2>4. OnVector(S, p)'
    <3>1. cur' \in Nat /\ cur <= cur'
          BY <1>3, <2>1
    <3> QED BY <1>3, <2>1, <3>1, StaysOnVector
  <2> QED BY <1>3, <2>1, <2>3, <2>4 DEF PassInv, Valued, Behindhand, InCluster, Passed, Exited
<1> QED BY <1>4, <1>5

(* The pass ends: what was collected is joined by the arguments from one on. *)
LEMMA PassFinishes ==
    ASSUME NEW N, NEW S, NEW p, IsPass(N, S, p), InVector, PassInv(S, p), parse = "next",
           NEW from \in Nat, cur <= from, from <= Len(p.args) + 1,
           ReadsOf(p)[cur] = Reads("ok", NoMeaning, SubSeq(p.args, from, Len(p.args))),
           Finish(from)
    PROVE  PassInv(S, p)'
<1> DEFINE n == Len(p.args)
<1>1. /\ table = p.options /\ policy = p.flags /\ argc0 = Len(p.args)
      /\ argv \in Seq(S) /\ Len(argv) = n /\ n \in Nat /\ cur \in Nat /\ idx \in Nat /\ idx < cur
      /\ \A j \in cur .. n : argv[j] = p.args[j]
      BY InPass DEF Parsing
<1>2. Ahead(p, Collected, cur, vals)
      BY AtArgument
<1>3. SubSeq(argv, from, n) = SubSeq(p.args, from, n)
  <2>1. \A j \in from .. n : argv[j] = p.args[j] /\ argv[j] \in S
        BY <1>1, ElementOfSeq
  <2> DEFINE s == SubSeq(argv, from, n)
             t == SubSeq(p.args, from, n)
  <2>2. /\ s \in Seq(S) /\ Len(s) = IF from <= n THEN n - from + 1 ELSE 0
        /\ \A j \in 1 .. n - from + 1 : s[j] = argv[from + j - 1]
        BY <1>1, <2>1, SubSeqProperties
  <2>3. /\ t \in Seq(S) /\ Len(t) = IF from <= n THEN n - from + 1 ELSE 0
        /\ \A j \in 1 .. n - from + 1 : t[j] = p.args[from + j - 1]
        BY <1>1, <2>1, SubSeqProperties
  <2> HIDE DEF s, t
  <2>4. \A j \in 1 .. Len(s) : s[j] = t[j]
    <3> SUFFICES ASSUME NEW j \in 1 .. Len(s) PROVE s[j] = t[j]
        OBVIOUS
    <3>1. j \in 1 .. n - from + 1 /\ from + j - 1 \in from .. n
          BY <1>1, <2>2
    <3> QED BY <2>1, <2>2, <2>3, <3>1
  <2> QED BY <2>2, <2>3, <2>4, SeqEqual DEF s, t
<1>4. /\ ReadsOf(p)[cur].verdict = "ok" /\ ReadsOf(p)[cur].means = NoMeaning
      /\ ReadsOf(p)[cur].rest = SubSeq(p.args, from, n)
      BY DEF Reads
<1>5. argv' = Whole(p).rest
      BY <1>1, <1>2, <1>3, <1>4 DEF Ahead, Finish, Collected
<1>6. vals = Applied(CountsIn(p.options), p.before, Whole(p).means)
      BY <1>2, <1>4, AppliedNothing DEF Ahead
<1>7. Whole(p).verdict = "ok"
      BY <1>2, <1>4 DEF Ahead
<1>8. parse' = "done" /\ UNCHANGED <<table, policy, argc0, vals>>
      BY DEF Finish
<1> QED BY <1>1, <1>5, <1>6, <1>7, <1>8
       DEF PassInv, OnVector, Between, Valued, Behindhand, InCluster, Passed, Parsing, Exited

(* A word is moved to those collected before it. *)
LEMMA CollectedMore ==
    ASSUME NEW S, argv \in Seq(S), idx \in Nat, cur \in Nat, idx < cur, cur <= Len(argv),
           argv' = [argv EXCEPT ![idx + 1] = argv[cur]], idx' = idx + 1
    PROVE  /\ Collected \in Seq(S) /\ argv[cur] \in S
           /\ Collected' = Collected \o <<argv[cur]>>
           /\ argv' \in Seq(S) /\ Len(argv') = Len(argv)
           /\ \A j \in cur + 1 .. Len(argv) : argv'[j] = argv[j]
<1> DEFINE w == argv[cur]
           s == SubSeq(argv', 1, idx + 1)
           t == SubSeq(argv, 1, idx) \o <<w>>
<1>1. Len(argv) \in Nat /\ \A j \in 1 .. Len(argv) : argv[j] \in S
      BY LenProperties, ElementOfSeq
<1>2. w \in S /\ idx + 1 \in 1 .. Len(argv)
      BY <1>1
<1>3. argv' \in Seq(S) /\ Len(argv') = Len(argv)
      BY <1>1, <1>2, ExceptSeq
<1>4. /\ argv'[idx + 1] = w
      /\ \A j \in 1 .. Len(argv) : j # idx + 1 => argv'[j] = argv[j]
      BY <1>1, <1>2
<1>5. /\ s \in Seq(S) /\ Len(s) = idx + 1 /\ \A j \in 1 .. idx + 1 : s[j] = argv'[j]
  <2>1. \A j \in 1 .. idx + 1 : argv'[j] \in S
        BY <1>1, <1>2, <1>3, ElementOfSeq
  <2>2. /\ s \in Seq(S) /\ Len(s) = (idx + 1) - 1 + 1
        /\ \A j \in 1 .. (idx + 1) - 1 + 1 : s[j] = argv'[1 + j - 1]
        BY <2>1, SubSeqProperties
  <2>3. (idx + 1) - 1 + 1 = idx + 1 /\ \A j \in 1 .. idx + 1 : 1 + j - 1 = j
        OBVIOUS
  <2> HIDE DEF s
  <2> QED BY <2>2, <2>3
<1>6. /\ SubSeq(argv, 1, idx) \in Seq(S) /\ Len(SubSeq(argv, 1, idx)) = idx
      /\ \A j \in 1 .. idx : SubSeq(argv, 1, idx)[j] = argv[j]
  <2> DEFINE u == SubSeq(argv, 1, idx)
  <2>1. \A j \in 1 .. idx : argv[j] \in S
        BY <1>1
  <2>2. /\ u \in Seq(S) /\ Len(u) = IF 1 <= idx THEN idx - 1 + 1 ELSE 0
        /\ \A j \in 1 .. idx - 1 + 1 : u[j] = argv[1 + j - 1]
        BY <2>1, SubSeqProperties
  <2>3. idx - 1 + 1 = idx /\ \A j \in 1 .. idx : 1 + j - 1 = j
        OBVIOUS
  <2> HIDE DEF u
  <2>4. Len(u) = idx
        BY <2>2
  <2>5. \A j \in 1 .. idx : u[j] = argv[j]
        BY <2>2, <2>3
  <2> QED BY <2>2, <2>4, <2>5 DEF u
<1>7. <<w>> \in Seq(S) /\ Len(<<w>>) = 1 /\ <<w>>[1] = w
      BY <1>2
<1>8. /\ t \in Seq(S) /\ Len(t) = idx + 1
      /\ \A j \in 1 .. idx : t[j] = argv[j]
      /\ t[idx + 1] = w
  <2> DEFINE u == SubSeq(argv, 1, idx)
             x == <<w>>
  <2>0. /\ u \in Seq(S) /\ Len(u) = idx /\ \A j \in 1 .. idx : u[j] = argv[j]
        /\ x \in Seq(S) /\ Len(x) = 1 /\ x[1] = w
        BY <1>6, <1>7
  <2> HIDE DEF u, x, w
  <2>0a. u \in Seq(S) /\ x \in Seq(S)
        BY <2>0
  <2>1. /\ u \o x \in Seq(S) /\ Len(u \o x) = Len(u) + Len(x)
        /\ \A j \in 1 .. Len(u) + Len(x) :
               (u \o x)[j] = IF j <= Len(u) THEN u[j] ELSE x[j - Len(u)]
        BY <2>0a, ConcatProperties
  <2>2. Len(u \o x) = idx + 1
        BY <2>0, <2>1
  <2>3. \A j \in 1 .. idx : (u \o x)[j] = argv[j]
        BY <2>0, <2>1
  <2>4. idx + 1 \in 1 .. Len(u) + Len(x) /\ ~(idx + 1 <= Len(u)) /\ (idx + 1) - Len(u) = 1
        BY <2>0
  <2>5. (u \o x)[idx + 1] = x[1]
        BY <2>1, <2>4
  <2> QED BY <2>0, <2>1, <2>2, <2>3, <2>5 DEF u, x
<1> HIDE DEF s, t, w
<1>9. \A j \in 1 .. idx + 1 : s[j] = t[j]
  <2> SUFFICES ASSUME NEW j \in 1 .. idx + 1 PROVE s[j] = t[j]
      OBVIOUS
  <2>1. CASE j = idx + 1
        BY <1>4, <1>5, <1>8, <2>1
  <2>2. CASE j # idx + 1
    <3>1. j \in 1 .. idx /\ j \in 1 .. Len(argv)
          BY <1>1, <1>2, <2>2
    <3> QED BY <1>4, <1>5, <1>8, <2>2, <3>1
  <2> QED BY <2>1, <2>2
<1>10. s = t
       BY <1>5, <1>8, <1>9, SeqEqual
<1>11. \A j \in cur + 1 .. Len(argv) : argv'[j] = argv[j]
  <2>1. \A j \in cur + 1 .. Len(argv) : j \in 1 .. Len(argv) /\ j # idx + 1
        BY <1>1
  <2> QED BY <1>4, <2>1
<1> QED BY <1>2, <1>3, <1>6, <1>10, <1>11 DEF s, t, w, Collected

LEMMA PassCollects ==
    ASSUME NEW N, NEW S, NEW p, IsPass(N, S, p), InVector, PassInv(S, p), NonOption,
           p.flags = "collect"
    PROVE  PassInv(S, p)'
<1> DEFINE R == ReadsOf(p)
           w == argv[cur]
           more == R[cur + 1]
<1>1. parse = "next" /\ cur <= Len(argv) /\ w.form = "word" /\ policy = "collect"
      BY DEF NonOption, At, PassInv
<1>2. /\ table = p.options /\ policy = p.flags /\ argc0 = Len(p.args)
      /\ argv \in Seq(S) /\ Len(argv) = Len(p.args) /\ Len(argv) \in Nat
      /\ cur \in Nat /\ idx \in Nat /\ idx < cur
      /\ \A j \in cur .. Len(p.args) : argv[j] = p.args[j]
      BY <1>1, InPass DEF Parsing
<1>3. /\ cur \in 1 .. Len(p.args) /\ w = p.args[cur] /\ Ahead(p, Collected, cur, vals) /\ optstr = <<>>
      /\ R[cur] = ReadAt(p.options, p.flags, p.args, R, cur)
      BY <1>1, AtArgument
<1>4. /\ argv' = [argv EXCEPT ![idx + 1] = w] /\ idx' = idx + 1 /\ cur' = cur + 1
      /\ UNCHANGED <<table, policy, argc0, optstr, parsed, vals, parse>>
      BY <1>1 DEF NonOption
<1>5. R[cur] = Reads(more.verdict, more.means, <<w>> \o more.rest)
      BY <1>1, <1>2, <1>3 DEF ReadAt, WordAndMore
<1>6. R[cur].verdict = more.verdict /\ R[cur].means = more.means /\ R[cur].rest = <<w>> \o more.rest
      BY <1>5 DEF Reads
<1>7. cur + 1 \in 1 .. Len(p.args) + 1
      BY <1>2, <1>3
<1>8. more.rest \in Seq(S)
      BY <1>7, ReadsAre DEF IsRead
<1>9. /\ Collected \in Seq(S) /\ w \in S /\ Collected' = Collected \o <<w>>
      /\ argv' \in Seq(S) /\ Len(argv') = Len(argv)
      /\ \A j \in cur + 1 .. Len(argv) : argv'[j] = argv[j]
      BY <1>1, <1>2, <1>4, CollectedMore
<1>10. Collected \o (<<w>> \o more.rest) = Collected' \o more.rest
  <2> DEFINE x == <<w>>
  <2>1. x \in Seq(S)
        BY <1>9
  <2> DEFINE r == more.rest
             front == Collected
  <2>0. front \in Seq(S) /\ r \in Seq(S)
        BY <1>8, <1>9
  <2> HIDE DEF x, r, front
  <2>2. front \o (x \o r) = (front \o x) \o r
        BY <2>0, <2>1, ConcatAssociative
  <2>3. front \o x = Collected'
        BY <1>9 DEF x, front
  <2> QED BY <2>2, <2>3 DEF x, r, front
<1>11. Ahead(p, Collected', cur', vals')
       BY <1>3, <1>4, <1>6, <1>7, <1>10 DEF Ahead
<1>12. OnVector(S, p)'
  <2>1. \A j \in cur' .. Len(p.args) : argv'[j] = p.args[j]
    <3>1. \A j \in cur + 1 .. Len(p.args) : j \in cur .. Len(p.args)
          BY <1>2
    <3> QED BY <1>2, <1>4, <1>9, <3>1
  <2> QED BY <1>2, <1>9, <2>1 DEF OnVector
<1>13. Between(p)'
       BY <1>3, <1>4, <1>11 DEF Between
<1> QED BY <1>1, <1>2, <1>4, <1>12, <1>13
       DEF PassInv, Valued, Behindhand, InCluster, Passed, Exited

LEMMA PassWord ==
    ASSUME NEW N, NEW S, NEW p, IsPass(N, S, p), InVector, PassInv(S, p), NonOption
    PROVE  PassInv(S, p)'
<1>1. parse = "next" /\ cur <= Len(argv) /\ argv[cur].form = "word" /\ policy = p.flags
      BY DEF NonOption, At, PassInv
<1>2. /\ cur \in 1 .. Len(p.args) /\ argv[cur] = p.args[cur]
      /\ ReadsOf(p)[cur] = ReadAt(p.options, p.flags, p.args, ReadsOf(p), cur)
      /\ ReadsOf(p)[cur].verdict = Whole(p).verdict
      BY <1>1, AtArgument
<1>3. ReadsOf(p)[cur] = WordAndMore(p.flags, p.args, ReadsOf(p), cur)
      BY <1>1, <1>2 DEF ReadAt
<1>4. CASE p.flags = "abort"
  <2>1. Stop("nonoption")
        BY <1>1, <1>4 DEF NonOption
  <2>2. Whole(p).verdict = "refused"
        BY <1>2, <1>3, <1>4 DEF WordAndMore, Reads
  <2> QED BY <2>1, <2>2, PassExits DEF Stop, Exited
<1>5. CASE p.flags = "until"
  <2>1. Finish(cur)
        BY <1>1, <1>5 DEF NonOption
  <2>2. ReadsOf(p)[cur] = Reads("ok", NoMeaning, SubSeq(p.args, cur, Len(p.args)))
        BY <1>3, <1>5 DEF WordAndMore
  <2>3. cur \in Nat /\ cur <= cur /\ cur <= Len(p.args) + 1
        BY <1>2, LenProperties DEF IsPass, IsVector
  <2> QED BY <1>1, <2>1, <2>2, <2>3, PassFinishes
<1>6. CASE p.flags = "collect"
      BY <1>6, PassCollects
<1> QED BY <1>4, <1>5, <1>6 DEF IsPass, Policies

LEMMA PassEnds ==
    ASSUME NEW N, NEW S, NEW p, IsPass(N, S, p), InVector, PassInv(S, p), AtEnd \/ EndOfOptions
    PROVE  PassInv(S, p)'
<1>0. parse = "next" /\ Len(p.args) \in Nat
      BY LenProperties DEF AtEnd, EndOfOptions, At, IsPass, IsVector
<1>1. /\ cur \in 1 .. Len(p.args) + 1 /\ Len(argv) = Len(p.args)
      /\ ReadsOf(p)[cur] = ReadAt(p.options, p.flags, p.args, ReadsOf(p), cur)
      /\ cur <= Len(argv) => cur <= Len(p.args) /\ argv[cur] = p.args[cur]
      BY <1>0, AtArgument, InPass DEF Parsing
<1>2. CASE AtEnd
  <2>1. cur = Len(p.args) + 1 /\ Finish(cur)
        BY <1>1, <1>2 DEF AtEnd
  <2>2. SubSeq(p.args, cur, Len(p.args)) = <<>>
        BY <1>0, <2>1, SubSeqEmpty
  <2>3. ReadsOf(p)[cur] = Reads("ok", NoMeaning, SubSeq(p.args, cur, Len(p.args)))
    <3>1. cur > Len(p.args)
          BY <1>0, <2>1
    <3>2. ReadsOf(p)[cur] = Reads("ok", NoMeaning, <<>>)
          BY <1>1, <3>1 DEF ReadAt
    <3> QED BY <2>2, <3>2
  <2>4. cur \in Nat /\ cur <= cur /\ cur <= Len(p.args) + 1
        BY <1>0, <2>1
  <2> QED BY <1>0, <2>1, <2>3, <2>4, PassFinishes
<1>3. CASE EndOfOptions
  <2>1. cur <= Len(p.args) /\ p.args[cur].form = "end" /\ Finish(cur + 1)
        BY <1>1, <1>3 DEF EndOfOptions, At
  <2>2. ReadsOf(p)[cur] = Reads("ok", NoMeaning, SubSeq(p.args, cur + 1, Len(p.args)))
        BY <1>0, <1>1, <2>1 DEF ReadAt
  <2>3. cur + 1 \in Nat /\ cur <= cur + 1 /\ cur + 1 <= Len(p.args) + 1
        BY <1>0, <1>1, <2>1
  <2> QED BY <1>0, <2>1, <2>2, <2>3, PassFinishes
<1> QED BY <1>2, <1>3

(* A pass of parse_options() does what its arguments say. *)
LEMMA PassStep ==
    ASSUME NEW N, NEW S, NEW p, IsPass(N, S, p), InVector, PassInv(S, p), Parse,
           Whole(p).verdict # "dash"
    PROVE  PassInv(S, p)'
BY PassEnds, PassWord, PassAskForHelp, PassShorts, PassShort, PassUnknownShort, PassExact,
   PassAbbreviated, PassUnclear, PassValidate DEF Parse

-------------------------------------------------------------------------------
(***************************************************************************)
(* main() and a handler do what the command line says, pass by pass.       *)
(***************************************************************************)
(* What may be in a vector. *)
Members == Arguments \cup {AskedHelp}
AtFirst == [n \in OptionNames |-> Initially(n)]

(* The pass with pk's own options, what it says, and the values behind it. *)
MainPass == [options |-> MainOptions, flags |-> "until", args |-> Rewritten(said.args),
             before |-> AtFirst]
MainSaid == MainReading(said.args)
MainVals == Applied(CountsIn(MainOptions), AtFirst, MainSaid.means)

(* The values when the environment was asked for what no option gave. *)
Settled ==
    [n \in OptionNames |->
        IF n \in Located /\ MainVals[n] = <<>> THEN FromEnvironment(n) ELSE MainVals[n]]

(* The pass with the command's options, over what the first one has left. *)
Command == MainSaid.rest[1].text
OwnPass == [options |-> OptionsOf[Command], flags |-> PolicyOf(Command),
            args |-> Tail(MainSaid.rest), before |-> Settled]
OwnSaid == OwnReading(Command, Tail(MainSaid.rest))
OwnVals ==
    IF Command \in DOMAIN OptionsOf
    THEN Applied(CountsIn(OptionsOf[Command]), Settled, OwnSaid.means) ELSE Settled

HasCommand == MainSaid.verdict = "ok" /\ MainSaid.rest # <<>> /\ IsCommand(MainSaid.rest[1])

(* Where main() and the handler are, they have done what the line says so far. *)
Follows ==
    /\ pc = "main" => argv = said.args /\ vals = AtFirst
    /\ pc = "mainoptions" => PassInv(Members, MainPass)
    /\ pc = "find" => MainSaid.verdict = "ok" /\ argv = MainSaid.rest /\ vals = Settled
    /\ pc = "unknown" => MainSaid.verdict = "ok" /\ MainSaid.rest # <<>> /\ ~HasCommand
    /\ pc = "crashed" => MainSaid.verdict = "ok" /\ MainSaid.rest = <<>>
    /\ pc \in {"precheck", "handle", "options", "run"} => HasCommand /\ cmd = Command
    /\ pc \in {"precheck", "handle"} => argv = Tail(MainSaid.rest) /\ vals = Settled
    /\ pc = "options" => Command \in DOMAIN OptionsOf /\ PassInv(Members, OwnPass)
    /\ pc = "run" => OwnSaid.verdict = "ok" /\ argv = OwnSaid.rest /\ vals = OwnVals
    /\ pc \notin {"mainoptions", "options"} => parse \notin Exited

(* Where a lone "-" is met as an option, what is done is not what is said. *)
DashSaid == LineSays(said.args).verdict = "dash"
LineInv  == DashSaid \/ Follows

LEMMA SaidStays ==
    ASSUME UNCHANGED <<said, env>>
    PROVE  /\ Members' = Members /\ MainPass' = MainPass /\ MainSaid' = MainSaid
           /\ MainVals' = MainVals /\ Settled' = Settled /\ Command' = Command
           /\ OwnPass' = OwnPass /\ OwnSaid' = OwnSaid /\ OwnVals' = OwnVals
           /\ HasCommand' = HasCommand /\ DashSaid' = DashSaid
<1>1. /\ Members' = Members /\ MainPass' = MainPass /\ MainSaid' = MainSaid
      /\ DashSaid' = DashSaid
      BY DEF Members, Arguments, Given, MainPass, MainSaid, DashSaid
<1>2. MainVals' = MainVals /\ Command' = Command /\ HasCommand' = HasCommand
      BY <1>1 DEF MainVals, Command, HasCommand
<1>3. ASSUME NEW n PROVE FromEnvironment(n)' = FromEnvironment(n)
      BY DEF FromEnvironment, SelectInSeq
<1>4. Settled' = Settled
      BY <1>2, <1>3 DEF Settled
<1>5. OwnPass' = OwnPass /\ OwnSaid' = OwnSaid
      BY <1>1, <1>2, <1>4 DEF OwnPass, OwnSaid
<1>6. OwnVals' = OwnVals
      BY <1>2, <1>4, <1>5 DEF OwnVals
<1> QED BY <1>1, <1>2, <1>4, <1>5, <1>6

(* The values before each pass. *)
LEMMA FirstValues == IsValues(AtFirst)
BY DEF IsValues, AtFirst, Initially, Counting, OptionNames, Numeric

LEMMA MainIsPass ==
    ASSUME Inv, LettersInv
    PROVE  /\ IsPass(MainNames, Members, MainPass) /\ Whole(MainPass) = MainSaid
           /\ IsRead(MainNames, Members, MainSaid) /\ IsValues(MainVals) /\ IsValues(Settled)
<1>1. said.args \in Seq(Arguments)
      BY SeqMonotonic DEF Inv, ArgsInv, Arguments
<1>2. Rewritten(said.args) \in Seq(Members)
  <2>1. CASE Rewritten(said.args) = <<AskedHelp>>
        BY <2>1 DEF Members
  <2>2. CASE Rewritten(said.args) \in Seq(Arguments)
        BY <2>2, SeqMonotonic DEF Members
  <2> QED BY <1>1, <2>1, <2>2, RewrittenArgs
<1>3. ASSUME NEW a \in Members, a.form = "short"
      PROVE  a.letters \in Seq(Letter)
  <2>1. CASE a \in Given
        BY <1>3, <2>1 DEF LettersInv, Given
  <2>2. CASE a = AskedHelp
    <3>1. "h" \in Letter
          BY Zenon DEF Letter
    <3>2. a.letters = <<"h">>
          BY <2>2 DEF AskedHelp, Cluster
    <3> HIDE DEF Letter
    <3> QED BY <3>1, <3>2
  <2>3. a \notin {Word("help"), Word("pk")}
        BY <1>3 DEF Word
  <2> QED BY <2>1, <2>2, <2>3 DEF Members, Arguments
<1>4. IsVector(Members, Rewritten(said.args))
      BY <1>2, <1>3 DEF IsVector
<1>5. IsPass(MainNames, Members, MainPass)
      BY <1>4, Tables, NamesSplit, FirstValues DEF IsPass, MainPass, Policies
<1>6. Whole(MainPass) = MainSaid
      BY DEF Whole, ReadsOf, MainPass, MainSaid, MainReading, Reading
<1>7. Len(MainPass.args) \in Nat /\ 1 \in 1 .. Len(MainPass.args) + 1
  <2>1. Len(MainPass.args) \in Nat
        BY <1>5, LenProperties DEF IsPass, IsVector
  <2> QED BY <2>1
<1>8. IsRead(MainNames, Members, Whole(MainPass))
      BY <1>5, <1>7, ReadsAre DEF Whole
<1>9. IsValues(MainVals)
      BY <1>6, <1>8, FirstValues, AppliedValues DEF MainVals, IsRead
<1>10. IsValues(Settled)
  <2>1. ASSUME NEW n \in Counting PROVE Settled[n] = MainVals[n]
        BY NamesSplit DEF Settled, Counting, Located
  <2> QED BY <1>9, <2>1 DEF IsValues, Settled
<1> QED BY <1>5, <1>6, <1>8, <1>9, <1>10

LEMMA OwnIsPass ==
    ASSUME Inv, LettersInv, HasCommand, Command \in DOMAIN OptionsOf
    PROVE  /\ IsPass(OwnNames, Members, OwnPass) /\ Whole(OwnPass) = OwnSaid
           /\ IsRead(OwnNames, Members, OwnSaid)
<1>1. /\ IsPass(MainNames, Members, MainPass) /\ MainSaid.rest \in Seq(Members)
      /\ IsValues(Settled)
      BY MainIsPass DEF IsRead
<1>2. Tail(MainSaid.rest) \in Seq(Members)
      BY <1>1, HeadTailProperties DEF HasCommand
<1>3. IsVector(Members, Tail(MainSaid.rest))
      BY <1>1, <1>2 DEF IsPass, IsVector
<1>4. PolicyOf(Command) \in Policies
      BY DEF PolicyOf, Policies
<1>5. OwnNames \subseteq OptionNames
      BY NamesSplit
<1>6. IsPass(OwnNames, Members, OwnPass)
      BY <1>1, <1>3, <1>4, <1>5, Tables DEF IsPass, OwnPass
<1>7. Whole(OwnPass) = OwnSaid
      BY DEF Whole, ReadsOf, OwnPass, OwnSaid, OwnReading, Reading
<1>8. 1 \in 1 .. Len(OwnPass.args) + 1
  <2>1. Len(OwnPass.args) \in Nat
        BY <1>6, LenProperties DEF IsPass, IsVector
  <2> QED BY <2>1
<1>9. IsRead(OwnNames, Members, Whole(OwnPass))
      BY <1>6, <1>8, ReadsAre DEF Whole
<1> QED BY <1>6, <1>7, <1>9

(* What the line says, as far as it is said. *)
LEMMA WhatIsSaid ==
    /\ MainSaid.verdict # "ok" => LineSays(said.args).verdict = MainSaid.verdict
    /\ MainSaid.verdict = "ok" /\ MainSaid.rest = <<>> => LineSays(said.args).verdict = "nothing"
    /\ MainSaid.verdict = "ok" /\ MainSaid.rest # <<>> /\ ~HasCommand =>
           LineSays(said.args).verdict = "unknown"
    /\ HasCommand =>
           /\ LineSays(said.args).verdict = OwnSaid.verdict
           /\ LineSays(said.args).means = Merged({}, MainSaid.means, OwnSaid.means)
           /\ LineSays(said.args).rest = OwnSaid.rest
BY DEF LineSays, MainSaid, HasCommand, OwnSaid, Command, Reads

LEMMA LineInit == Init => LineInv
BY DEF Init, LineInv, Follows, AtFirst, Exited

(* A step in the two passes. *)
LEMMA LineParses ==
    ASSUME Inv, LettersInv, Follows, ~DashSaid, ParseStep
    PROVE  Follows'
<1>1. pc \in {"mainoptions", "options"} /\ Parse /\ UNCHANGED <<said, env, pc, cmd>>
      BY DEF ParseStep, mainvars
<1>2. PICK S, m, o : S = Members /\ m = MainPass /\ o = OwnPass
      OBVIOUS
<1>3. S = Members' /\ m = MainPass' /\ o = OwnPass'
      BY <1>1, <1>2, SaidStays
<1>4. InVector
      BY DEF Inv
<1>5. CASE pc = "mainoptions"
  <2>1. PassInv(S, m) /\ IsPass(MainNames, S, m) /\ Whole(m) = MainSaid
        BY <1>2, <1>5, MainIsPass DEF Follows
  <2>2. Whole(m).verdict # "dash"
        BY <2>1, WhatIsSaid DEF DashSaid
  <2>3. PassInv(S, m)'
        BY <1>1, <1>4, <2>1, <2>2, PassStep
  <2>4. PassInv(Members, MainPass)'
        BY <1>3, <2>3
  <2> QED BY <1>1, <1>5, <2>4 DEF Follows
<1>6. CASE pc = "options"
  <2>1. HasCommand /\ cmd = Command /\ Command \in DOMAIN OptionsOf
        BY <1>6 DEF Follows
  <2>2. PassInv(S, o) /\ IsPass(OwnNames, S, o) /\ Whole(o) = OwnSaid
        BY <1>2, <1>6, <2>1, OwnIsPass DEF Follows
  <2>3. Whole(o).verdict # "dash"
        BY <2>1, <2>2, WhatIsSaid DEF DashSaid
  <2>4. PassInv(S, o)'
        BY <1>1, <1>4, <2>2, <2>3, PassStep
  <2>5. PassInv(Members, OwnPass)'
        BY <1>3, <2>4
  <2>6. HasCommand' /\ cmd' = Command' /\ Command' \in DOMAIN OptionsOf
        BY <1>1, <2>1, SaidStays
  <2> QED BY <1>1, <1>6, <2>5, <2>6 DEF Follows
<1> QED BY <1>1, <1>5, <1>6

(* The other steps of main() and of a handler. *)
LEMMA LineBegins ==
    ASSUME Inv, LettersInv, Follows, ParseMainOption
    PROVE  Follows'
<1>1. /\ pc = "main" /\ pc' = "mainoptions" /\ UNCHANGED <<said, env, vals>>
      /\ Begin(MainOptions, "until", Rewritten(argv))
      BY DEF ParseMainOption, mainvars
<1>2. PICK S, m : S = Members /\ m = MainPass
      OBVIOUS
<1>3. S = Members' /\ m = MainPass'
      BY <1>1, <1>2, SaidStays
<1>4. IsPass(MainNames, S, m)
      BY <1>2, MainIsPass
<1>5. Begin(m.options, m.flags, m.args) /\ vals = m.before
      BY <1>1, <1>2 DEF Follows, MainPass
<1>6. PassInv(S, m)'
      BY <1>1, <1>4, <1>5, BeginPass
<1> QED BY <1>1, <1>3, <1>6 DEF Follows

LEMMA LineSettles ==
    ASSUME Inv, LettersInv, Follows, InitEnval
    PROVE  Follows'
<1>1. /\ pc = "mainoptions" /\ parse = "done" /\ pc' = "find"
      /\ UNCHANGED <<said, env, argv, parse>>
      BY DEF InitEnval, mainvars
<1>2. PassInv(Members, MainPass) /\ Whole(MainPass) = MainSaid
      BY <1>1, MainIsPass DEF Follows
<1>3. MainSaid.verdict = "ok" /\ argv = MainSaid.rest /\ vals = MainVals
      BY <1>1, <1>2 DEF PassInv, Passed, MainPass, MainVals
<1>4. vals' = Settled
      BY <1>3 DEF InitEnval, Settled, Located
<1> QED BY <1>1, <1>3, <1>4, SaidStays DEF Follows, Exited

LEMMA LineFinds ==
    ASSUME Inv, LettersInv, Follows, FindCommand \/ NoCommand \/ HelpUnknownCommand
    PROVE  Follows'
<1>1. /\ pc = "find" /\ UNCHANGED <<said, env, vals, parse>>
      /\ parse \notin Exited
      /\ MainSaid.verdict = "ok" /\ argv = MainSaid.rest /\ vals = Settled
      BY DEF FindCommand, NoCommand, HelpUnknownCommand, mainvars, parsevars, Follows
<1>2. CASE FindCommand
  <2>1. /\ argv # <<>> /\ IsCommand(argv[1]) /\ pc' = "precheck" /\ cmd' = argv[1].text
        /\ argv' = Tail(argv)
        BY <1>2 DEF FindCommand
  <2>2. HasCommand /\ cmd' = Command
        BY <1>1, <2>1 DEF HasCommand, Command
  <2> QED BY <1>1, <2>1, <2>2, SaidStays DEF Follows
<1>3. CASE NoCommand
  <2>1. argv = <<>> /\ pc' = "crashed"
        BY <1>3 DEF NoCommand
  <2>2. MainSaid' = MainSaid /\ MainSaid.rest = <<>>
        BY <1>1, <2>1, SaidStays
  <2>3. (MainSaid.verdict = "ok" /\ MainSaid.rest = <<>>)' /\ (parse \notin Exited)'
        BY <1>1, <2>2 DEF Exited
  <2> QED BY <2>1, <2>3 DEF Follows
<1>4. CASE HelpUnknownCommand
  <2>1. argv # <<>> /\ ~IsCommand(argv[1]) /\ pc' = "unknown"
        BY <1>4 DEF HelpUnknownCommand
  <2> QED BY <1>1, <2>1, SaidStays DEF Follows, HasCommand
<1> QED BY <1>2, <1>3, <1>4

LEMMA LineHandles ==
    ASSUME Inv, LettersInv, Follows, Precheck \/ Handle \/ Run
    PROVE  Follows'
<1>1. CASE Precheck
  <2>1. pc = "precheck" /\ pc' \in {"handle", "refused"} /\ UNCHANGED <<said, env, argv, vals, parse, cmd>>
        BY <1>1 DEF Precheck, mainvars, parsevars
  <2> QED BY <2>1, SaidStays DEF Follows
<1>2. CASE Handle
  <2>1. /\ pc = "handle" /\ UNCHANGED <<said, env, vals, cmd>>
        /\ HasCommand /\ cmd = Command /\ argv = Tail(MainSaid.rest) /\ vals = Settled
        /\ parse \notin Exited
        BY <1>2 DEF Handle, mainvars, Follows
  <2>2. CASE cmd \in DOMAIN OptionsOf
    <3>1. Begin(OptionsOf[cmd], PolicyOf(cmd), argv) /\ pc' = "options"
          BY <1>2, <2>2 DEF Handle
    <3>2. PICK S, o : S = Members /\ o = OwnPass
          OBVIOUS
    <3>3. S = Members' /\ o = OwnPass'
          BY <2>1, <3>2, SaidStays
    <3>4. IsPass(OwnNames, S, o)
          BY <2>1, <2>2, <3>2, OwnIsPass
    <3>5. Begin(o.options, o.flags, o.args) /\ vals = o.before
          BY <2>1, <3>1, <3>2 DEF OwnPass
    <3>6. PassInv(S, o)'
          BY <2>1, <3>4, <3>5, BeginPass
    <3>7. PassInv(Members, OwnPass)'
          BY <3>3, <3>6
    <3>8. HasCommand' /\ cmd' = Command' /\ Command' \in DOMAIN OptionsOf
          BY <2>1, <2>2, SaidStays
    <3> QED BY <3>1, <3>7, <3>8 DEF Follows
  <2>3. CASE cmd \notin DOMAIN OptionsOf
    <3>1. pc' = "run" /\ UNCHANGED <<argv, parse>>
          BY <1>2, <2>3 DEF Handle
    <3>2. OwnSaid = Reads("ok", NoMeaning, Tail(MainSaid.rest)) /\ OwnVals = Settled
          BY <2>1, <2>3 DEF OwnSaid, OwnReading, OwnVals
    <3>3. OwnSaid.verdict = "ok" /\ OwnSaid.rest = Tail(MainSaid.rest)
          BY <3>2 DEF Reads
    <3> QED BY <2>1, <3>1, <3>2, <3>3, SaidStays DEF Follows
  <2> QED BY <2>2, <2>3
<1>3. CASE Run
  <2>1. /\ pc = "options" /\ parse = "done" /\ pc' = "run"
        /\ UNCHANGED <<said, env, argv, vals, parse, cmd>>
        BY <1>3 DEF Run, mainvars, parsevars
  <2>2. HasCommand /\ cmd = Command /\ Command \in DOMAIN OptionsOf /\ PassInv(Members, OwnPass)
        BY <2>1 DEF Follows
  <2>3. Whole(OwnPass) = OwnSaid
        BY <2>2, OwnIsPass
  <2>4. OwnSaid.verdict = "ok" /\ argv = OwnSaid.rest /\ vals = OwnVals
        BY <2>1, <2>2, <2>3 DEF PassInv, Passed, OwnPass, OwnVals
  <2> QED BY <2>1, <2>2, <2>4, SaidStays DEF Follows, Exited
<1> QED BY <1>1, <1>2, <1>3

LEMMA LineStays ==
    ASSUME Follows, UNCHANGED vars
    PROVE  Follows'
<1>1. /\ UNCHANGED <<said, env, pc, argv, vals, parse, cmd>>
      /\ UNCHANGED <<table, policy, argc0, cur, idx, optstr, parsed>>
      BY DEF vars, parsevars
<1>2. ASSUME NEW S, NEW p PROVE PassInv(S, p)' = PassInv(S, p)
      BY <1>1 DEF PassInv, OnVector, Between, Valued, InCluster, Passed, Behindhand, Collected, Fails
<1>3. PICK S, m, o : S = Members /\ m = MainPass /\ o = OwnPass
      OBVIOUS
<1>4. S = Members' /\ m = MainPass' /\ o = OwnPass'
      BY <1>1, <1>3, SaidStays
<1>5. PassInv(Members, MainPass)' = PassInv(Members, MainPass)
      BY <1>2, <1>3, <1>4
<1>6. PassInv(Members, OwnPass)' = PassInv(Members, OwnPass)
      BY <1>2, <1>3, <1>4
<1> QED BY <1>1, <1>5, <1>6, SaidStays DEF Follows

LEMMA LineStep == Inv /\ LettersInv /\ LineInv /\ [Next]_vars => LineInv'
<1> SUFFICES ASSUME Inv, LettersInv, LineInv, [Next]_vars PROVE LineInv'
    OBVIOUS
<1>1. UNCHANGED <<said, env>>
      BY DEF Next, vars, mainvars, ParseMainOption, ParseStep, InitEnval, FindCommand, NoCommand,
             HelpUnknownCommand, Precheck, Handle, Run
<1>2. CASE DashSaid
      BY <1>1, <1>2, SaidStays DEF LineInv
<1>3. CASE ~DashSaid
  <2>1. Follows
        BY <1>3 DEF LineInv
  <2>2. Follows'
        BY <1>3, <2>1, LineParses, LineBegins, LineSettles, LineFinds, LineHandles, LineStays DEF Next
  <2> QED BY <2>2 DEF LineInv
<1> QED BY <1>2, <1>3
-------------------------------------------------------------------------------
LEMMA LineAlways == Spec => [](Inv /\ LettersInv /\ LineInv /\ said \in CommandLines)
<1> DEFINE All == Inv /\ LettersInv /\ LineInv /\ said \in CommandLines
<1>1. Init => All
      BY InitInv, LettersInit, LineInit DEF Init
<1>2. All /\ [Next]_vars => All'
  <2>1. [Next]_vars => said' = said
        BY DEF Next, vars, mainvars, ParseMainOption, ParseStep, InitEnval, FindCommand, NoCommand,
               HelpUnknownCommand, Precheck, Handle, Run
  <2> QED BY <2>1, StepInv, LettersStep, LineStep
<1> QED BY <1>1, <1>2, PTL DEF Spec

(* The two passes of parse_options(), with what main() does before, between and
   behind them, come to what the command line says, whatever its user means by
   it, as long as it says anything: no "-" is met as an option. *)
THEOREM LineIsFollowed == Spec => [](DashSaid \/ Follows)
<1>1. LineInv => DashSaid \/ Follows
      BY DEF LineInv
<1> QED BY <1>1, LineAlways, PTL

(* The values at the body of a handler are those that were meant. *)
LEMMA ValuesMeant ==
    ASSUME Inv, LettersInv, HasCommand, OwnSaid.verdict = "ok", vals = OwnVals,
           said.means = Merged({}, MainSaid.means, OwnSaid.means), NEW n \in OptionNames
    PROVE  vals[n] = Meant(n)
<1> DEFINE m == MainSaid.means
           o == OwnSaid.means
           c == CountsIn(OptionsOf[Command])
<1>1. IsMeaning(MainNames, m) /\ CountsIn(MainOptions) \subseteq Counting
  <2>1. IsRead(MainNames, Members, MainSaid) /\ IsTable(MainNames, MainOptions)
        BY MainIsPass, Tables
  <2> QED BY <2>1, CountsAre DEF IsRead
<1>2. IsMeaning(OwnNames, o) /\ (Command \in DOMAIN OptionsOf => c \subseteq Counting)
  <2>1. CASE Command \in DOMAIN OptionsOf
    <3>1. IsRead(OwnNames, Members, OwnSaid) /\ IsTable(OwnNames, OptionsOf[Command])
          BY <2>1, OwnIsPass, Tables
    <3> QED BY <3>1, CountsAre DEF IsRead
  <2>2. CASE Command \notin DOMAIN OptionsOf
    <3>1. o = NoMeaning
          BY <2>2 DEF OwnSaid, OwnReading, Reads
    <3> QED BY <2>2, <3>1, NothingMeant
  <2> QED BY <2>1, <2>2
<1>3. /\ n \in MainNames <=> n \notin OwnNames
      /\ n \in Counting => n \in OwnNames
      /\ n \in Located => n \in MainNames
      BY NamesSplit
<1>4. /\ MainVals[n] = IF n \notin DOMAIN m THEN Initially(n)
                       ELSE IF n \in CountsIn(MainOptions) THEN Initially(n) + m[n] ELSE m[n]
      /\ Settled[n] = IF n \in Located /\ MainVals[n] = <<>> THEN FromEnvironment(n) ELSE MainVals[n]
      BY DEF MainVals, Applied, AtFirst, Settled
<1>5. /\ n \in DOMAIN said.means <=> n \in DOMAIN m \/ n \in DOMAIN o
      /\ n \in DOMAIN o => said.means[n] = o[n]
      /\ n \in DOMAIN m /\ n \notin DOMAIN o => said.means[n] = m[n]
      BY DEF Merged
<1>6. /\ n \in Counting => Initially(n) = 0
      /\ n \in Located => Initially(n) = <<>>
      BY DEF Counting, Located, Initially, Numeric
<1>7. Settled[n] = IF n \in DOMAIN m THEN m[n]
                   ELSE IF n \in Located THEN FromEnvironment(n) ELSE Initially(n)
  <2>1. CASE n \in DOMAIN m
    <3>1. n \in MainNames /\ n \notin CountsIn(MainOptions) /\ (n \in Located => m[n] # <<>>)
          BY <1>1, <1>3, <2>1 DEF IsMeaning
    <3> QED BY <1>4, <2>1, <3>1
  <2>2. CASE n \notin DOMAIN m
        BY <1>4, <1>6, <2>2
  <2> QED BY <2>1, <2>2
<1>8. OwnVals[n] = IF n \in DOMAIN o THEN o[n] ELSE Settled[n]
  <2>1. CASE Command \notin DOMAIN OptionsOf
    <3>1. o = NoMeaning
          BY <2>1 DEF OwnSaid, OwnReading, Reads
    <3> QED BY <2>1, <3>1 DEF OwnVals, NoMeaning
  <2>2. CASE Command \in DOMAIN OptionsOf
    <3>1. OwnVals[n] = IF n \notin DOMAIN o THEN Settled[n]
                       ELSE IF n \in c THEN Settled[n] + o[n] ELSE o[n]
          BY <2>2 DEF OwnVals, Applied, Settled
    <3>2. ASSUME n \in DOMAIN o, n \in c
          PROVE  Settled[n] + o[n] = o[n]
      <4>1. n \in OwnNames /\ n \in Counting /\ o[n] \in Nat
            BY <1>2, <2>2, <3>2 DEF IsMeaning
      <4>2. n \notin DOMAIN m /\ n \notin Located
            BY <1>1, <1>3, <4>1 DEF IsMeaning
      <4>3. Settled[n] = 0
            BY <1>6, <1>7, <4>1, <4>2
      <4> QED BY <4>1, <4>3
    <3> QED BY <3>1, <3>2
  <2> QED BY <2>1, <2>2
<1>9. Meant(n) = IF n \in DOMAIN said.means THEN said.means[n]
                 ELSE IF n \in Located THEN FromEnvironment(n) ELSE Initially(n)
      BY DEF Meant, Located
<1> HIDE DEF m, o, c
<1> QED BY <1>5, <1>7, <1>8, <1>9

(* What is meant is what is said. *)
LEMMA MeaningIsSaid ==
    ASSUME said \in CommandLines
    PROVE  /\ LineSays(said.args).verdict \in {"nothing", "dash"} =>
                  LineSays(said.args).verdict \in said.faults
           /\ said.faults = {} => LineSays(said.args).verdict = "ok"
           /\ LineSays(said.args).verdict = "ok" =>
                  /\ said.faults \subseteq {"word"} /\ said.cmd = Command
                  /\ said.means = LineSays(said.args).means
                  /\ said.rest = LineSays(said.args).rest
BY MeaningAssumption DEF Command, MainSaid

LEMMA PassStops ==
    ASSUME Inv, LettersInv, Follows, parse \in Exited
    PROVE  parse # "bug" /\ LineSays(said.args).verdict = "refused"
<1>1. pc \in {"mainoptions", "options"}
      BY DEF Follows
<1>2. CASE pc = "mainoptions"
  <2>1. PassInv(Members, MainPass) /\ Whole(MainPass) = MainSaid
        BY <1>2, MainIsPass DEF Follows
  <2> QED BY <2>1, WhatIsSaid DEF PassInv
<1>3. CASE pc = "options"
  <2>1. HasCommand /\ Command \in DOMAIN OptionsOf /\ PassInv(Members, OwnPass)
        BY <1>3 DEF Follows
  <2>2. Whole(OwnPass) = OwnSaid
        BY <2>1, OwnIsPass
  <2> QED BY <2>1, <2>2, WhatIsSaid DEF PassInv
<1> QED BY <1>1, <1>2, <1>3

LEMMA LineUnderstood ==
    ASSUME Inv, LettersInv, LineInv, said \in CommandLines
    PROVE  Understood /\ RightAccepted /\ FallsOnlyOver
<1>1. CASE DashSaid
  <2>1. LineSays(said.args).verdict = "dash"
        BY <1>1 DEF DashSaid
  <2>2. "dash" \in said.faults /\ said.faults # {}
        BY <2>1, MeaningIsSaid
  <2> QED BY <2>2 DEF Understood, RightAccepted, FallsOnlyOver
<1>2. CASE Follows
  <2>1. Understood
    <3> SUFFICES ASSUME pc = "run"
                 PROVE  /\ said.faults \subseteq {"word"} /\ cmd = said.cmd
                        /\ \A n \in OptionNames : vals[n] = Meant(n)
                        /\ argv = said.rest
        BY DEF Understood
    <3>1. /\ HasCommand /\ cmd = Command
          /\ OwnSaid.verdict = "ok" /\ argv = OwnSaid.rest /\ vals = OwnVals
          BY <1>2 DEF Follows
    <3>2. /\ LineSays(said.args).verdict = "ok"
          /\ LineSays(said.args).means = Merged({}, MainSaid.means, OwnSaid.means)
          /\ LineSays(said.args).rest = OwnSaid.rest
          BY <3>1, WhatIsSaid
    <3>3. /\ said.faults \subseteq {"word"} /\ said.cmd = Command /\ said.rest = OwnSaid.rest
          /\ said.means = Merged({}, MainSaid.means, OwnSaid.means)
          BY <3>2, MeaningIsSaid
    <3>4. \A n \in OptionNames : vals[n] = Meant(n)
          BY <3>1, <3>3, ValuesMeant
    <3> QED BY <3>1, <3>3, <3>4
  <2>2. pc = "crashed" => LineSays(said.args).verdict = "nothing"
        BY <1>2, WhatIsSaid DEF Follows
  <2>3. pc = "unknown" => LineSays(said.args).verdict = "unknown"
        BY <1>2, WhatIsSaid DEF Follows
  <2>4. parse \in Exited => parse # "bug" /\ LineSays(said.args).verdict = "refused"
        BY <1>2, PassStops
  <2>5. RightAccepted
    <3>1. said.faults = {} => LineSays(said.args).verdict = "ok"
          BY MeaningIsSaid
    <3> QED BY <2>2, <2>3, <2>4, <3>1 DEF RightAccepted
  <2>6. FallsOnlyOver
    <3>1. pc = "crashed" => "nothing" \in said.faults
          BY <2>2, MeaningIsSaid
    <3>2. parse # "bug"
          BY <2>4 DEF Exited
    <3> QED BY <3>1, <3>2 DEF FallsOnlyOver
  <2> QED BY <2>1, <2>5, <2>6
<1> QED BY <1>1, <1>2 DEF LineInv

(* A handler that gets to its body has the values and the words its user meant,
   for any command line whose meaning is what it says. *)
THEOREM LineIsUnderstood == Spec => []Understood
<1>1. Inv /\ LettersInv /\ LineInv /\ said \in CommandLines => Understood
      BY LineUnderstood
<1> QED BY <1>1, LineAlways, PTL

(* pk exits over no command line that is right, neither in its parser nor in its
   search for the command. *)
THEOREM RightLineIsAccepted == Spec => []RightAccepted
<1>1. Inv /\ LettersInv /\ LineInv /\ said \in CommandLines => RightAccepted
      BY LineUnderstood
<1> QED BY <1>1, LineAlways, PTL

(* A lone "-" where an option may stand, or no command, is all pk falls over: its
   parser meets an option it cannot read over nothing else, and find_command()
   compares NULL with nothing else. *)
THEOREM FallsOverNothingElse == Spec => []FallsOnlyOver
<1>1. Inv /\ LettersInv /\ LineInv /\ said \in CommandLines => FallsOnlyOver
      BY LineUnderstood
<1> QED BY <1>1, LineAlways, PTL
================================================================================
