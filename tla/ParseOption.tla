------------------------------ MODULE ParseOption ------------------------------
(***************************************************************************)
(* parse_options() of src/parse-option.c: one pass over an argument vector *)
(* that stores what the options say, and leaves the arguments that are     *)
(* neither options nor values of options at the front of the same vector.  *)
(*                                                                         *)
(* A text is a record; what it consists of matters only as far as the      *)
(* parser looks: a word, a cluster of short options, a long option with    *)
(* its "no-", its stem and what follows its "=".  NULL is <<>>, and a      *)
(* pointer to a text t is <<t>>.                                           *)
(*                                                                         *)
(* Not modelled, because no table of pk uses it: OPTION_CMDMODE (the list  *)
(* ctx->cmdmode is always empty), PARSER_ONE_SHOT, PARSER_NO_SHORT_HELP    *)
(* and options whose name starts with "no-".  The layout of the usage is   *)
(* left out.                                                               *)
(***************************************************************************)
EXTENDS Naturals, Sequences, SequencesExt

CONSTANTS
    Abbreviations, \* pairs of a stem and an option name it is a proper prefix of
    Numbers,       \* the texts strtou() takes for a number
    AbsolutePaths, \* the texts is_abs_path() holds for
    RegularFiles,  \* the paths stat() finds a file at that is no directory
    Beyond         \* the clusters that may follow an empty string in memory

VARIABLES
    table,   \* options
    policy,  \* flags: what to do with an argument that is no option
    argv,    \* the vector, rewritten in place
    argc0,   \* its length at the beginning
    cur,     \* ctx.argv, as an index
    idx,     \* ctx.idx: how many arguments were collected
    optstr,  \* ctx.optstr
    parsed,  \* the option in hand
    vals,    \* option name -> *opt->value
    parse    \* the state of the parser

parsevars == <<table, policy, argv, argc0, cur, idx, optstr, parsed, vals, parse>>

Word(w)             == [form |-> "word", text |-> w]
Cluster(letters)    == [form |-> "short", letters |-> letters]
Long(no, stem, val) == [form |-> "long", no |-> no, stem |-> stem, val |-> val]
EndMark             == [form |-> "end"]
Letters(letters)    == [form |-> "letters", letters |-> letters]
HelpOption          == Long(FALSE, "help", <<>>)

Exited == {"help", "error", "unknown", "nonoption", "bug"}
-------------------------------------------------------------------------------
(***************************************************************************)
(* The tables.                                                             *)
(***************************************************************************)
Option(type, alias, name, defval, flags) ==
    [type |-> type, alias |-> alias, name |-> name, defval |-> defval, flags |-> flags]

OPTION_GROUP              == Option("GROUP", "", "", <<>>, {})
OPTION_SWITCH(s, l)       == Option("INTEGER", s, l, 1, {"NOARG", "ALLONEG"})
OPTION_COUNTUP(s, l)      == Option("COUNTUP", s, l, 0, {"NOARG"})
OPTION_UNSIGNED(s, l)     == Option("INTEGER", s, l, 0, {"UNSIGNED"})
OPTION_STRING(s, l)       == Option("STRING", s, l, <<>>, {})
OPTION_OPTARG(s, l, f)    == Option("STRING", s, l, <<>>, {"OPTARG"} \cup f)
OPTION_FILENAME(s, l)     == Option("FILENAME", s, l, <<>>, {})
OPTION_PATHNAME(s, l)     == Option("FILENAME", s, l, <<>>, {"REALPATH"})
OPTION_COMMAND(l)         == Option("STRING", "", l, <<>>, {"NOARG", "NOEMDASH"})

IsLong(o) == o.type # "GROUP" /\ "NOEMDASH" \notin o.flags

(* The stem is a proper prefix of the name. *)
Shortens(stem, o) ==
    IsLong(o) /\ (stem = "" \/ <<stem, o.name>> \in Abbreviations)

(* "no-" itself may be cut short as well, but then the argument has no value. *)
NegShortens(a, o) ==
    /\ "ALLONEG" \in o.flags /\ a.val = <<>>
    /\ \/ a.no /\ Shortens(a.stem, o)
       \/ ~a.no /\ a.stem \in {"n", "no"} /\ ~Shortens(a.stem, o)

Abbreviates(a, o) == (~a.no /\ Shortens(a.stem, o)) \/ NegShortens(a, o)

(* The first option the argument names in full, 0 if there is none. *)
Exact(a) ==
    SelectInSeq(table, LAMBDA o : /\ IsLong(o) /\ o.name = a.stem
                                  /\ a.no => "ALLONEG" \in o.flags)

AbbreviatedBy(a) == {i \in DOMAIN table : Abbreviates(a, table[i])}
-------------------------------------------------------------------------------
(***************************************************************************)
(* get_arg() for the option o, with str for ctx->optstr.                   *)
(***************************************************************************)
Refuses(o, unset, short, str) ==
    \/ unset /\ (str # <<>> \/ "ALLONEG" \notin o.flags)
    \/ ~short /\ str # <<>> /\ "NOARG" \in o.flags

TakesText(o, unset, str) ==
    \/ "UNSIGNED" \in o.flags
    \/ o.type = "STRING" /\ ~unset /\ (str # <<>> \/ "OPTARG" \notin o.flags)
    \/ o.type = "FILENAME"

(* prefix_filename() *)
Prefixed(t) == IF t \in AbsolutePaths THEN t ELSE [form |-> "path", of |-> t]

Stored(o, t) == IF o.type = "FILENAME" THEN <<Prefixed(t)>> ELSE <<t>>

(* Mutant: a value behind "=" is taken and stays pending. *)
TakeText_Pending(o, str, next) ==
    LET text == IF str # <<>> THEN str[1] ELSE argv[cur + 1]
    IN  /\ str # <<>> \/ cur < Len(argv)
        /\ cur' = IF str # <<>> THEN cur ELSE cur + 1
        /\ optstr' = str
        /\ IF "UNSIGNED" \in o.flags
           THEN /\ parse' = IF text \in Numbers THEN "error" ELSE next
                /\ UNCHANGED vals
           ELSE /\ vals' = [vals EXCEPT ![o.name] = Stored(o, text)]
                /\ parse' = next

(* get_arg_str() and get_arg_uint().  The latter takes the 0 that strtou()
   returns on success for its failure, and a failure for a success. *)
TakeText(o, str, next) ==
    LET text == IF str # <<>> THEN str[1] ELSE argv[cur + 1]
    IN  /\ str # <<>> \/ cur < Len(argv)
        /\ cur' = IF str # <<>> THEN cur ELSE cur + 1
        /\ optstr' = <<>>
        /\ IF "UNSIGNED" \in o.flags
           THEN /\ parse' = IF text \in Numbers THEN "error" ELSE next
                /\ UNCHANGED vals
           ELSE /\ vals' = [vals EXCEPT ![o.name] = Stored(o, text)]
                /\ parse' = next

LacksText(str) ==
    /\ str = <<>> /\ cur = Len(argv)
    /\ parse' = "error" /\ optstr' = str
    /\ UNCHANGED <<cur, vals>>

(* The value of an option that takes no text. *)
Switched(o, unset) ==
    CASE o.type = "INTEGER" -> IF unset THEN 0 ELSE o.defval
      [] o.type = "COUNTUP" -> vals[o.name] + 1
      [] o.type = "STRING"  -> IF unset THEN <<>> ELSE o.defval

GetArg(o, unset, short, str, next) ==
    \/ /\ Refuses(o, unset, short, str)
       /\ parse' = "error" /\ optstr' = str
       /\ UNCHANGED <<cur, vals>>
    \/ /\ ~Refuses(o, unset, short, str) /\ TakesText(o, unset, str)
       /\ TakeText(o, str, next) \/ LacksText(str)
    \/ /\ ~Refuses(o, unset, short, str) /\ ~TakesText(o, unset, str)
       /\ o.type # "GROUP"
       /\ vals' = [vals EXCEPT ![o.name] = Switched(o, unset)]
       /\ parse' = next /\ optstr' = str
       /\ UNCHANGED cur
    \/ /\ o.type = "GROUP"
       /\ parse' = "bug" /\ optstr' = str
       /\ UNCHANGED <<cur, vals>>
-------------------------------------------------------------------------------
(***************************************************************************)
(* parse_options(): Begin starts it, each of the other actions is a way    *)
(* through parse_option_next().                                            *)
(***************************************************************************)
Begin(options, flags, args) ==
    /\ table' = options /\ policy' = flags
    /\ argv' = args /\ argc0' = Len(args)
    /\ cur' = 1 /\ idx' = 0
    /\ optstr' = <<>> /\ parsed' = 0
    /\ parse' = "next"

Stop(state) ==
    /\ parse' = state
    /\ UNCHANGED <<table, policy, argv, argc0, cur, idx, optstr, parsed, vals>>

(* Mutant: the rest is moved without its first argument. *)
Finish_SkipsOne(from) ==
    /\ argv' = SubSeq(argv, 1, idx) \o SubSeq(argv, from + 1, Len(argv))
    /\ parse' = "done"
    /\ UNCHANGED <<table, policy, argc0, cur, idx, optstr, parsed, vals>>

(* The arguments from there on join the collected ones. *)
Finish(from) ==
    /\ argv' = SubSeq(argv, 1, idx) \o SubSeq(argv, from, Len(argv))
    /\ parse' = "done"
    /\ UNCHANGED <<table, policy, argc0, cur, idx, optstr, parsed, vals>>

AtEnd == parse = "next" /\ cur = Len(argv) + 1 /\ Finish(cur)

At(form) == parse = "next" /\ cur <= Len(argv) /\ argv[cur].form = form

NonOption ==
    /\ At("word")
    /\ CASE policy = "abort"   -> Stop("nonoption")
         [] policy = "until"   -> Finish(cur)
         [] policy = "collect" ->
              /\ argv' = [argv EXCEPT ![idx + 1] = argv[cur]]
              /\ idx' = idx + 1 /\ cur' = cur + 1
              /\ UNCHANGED <<table, policy, argc0, optstr, parsed, vals, parse>>

EndOfOptions == At("end") /\ Finish(cur + 1)

IsLoneHelp == argc0 = 1 /\ argv[cur] = Cluster(<<"h">>)

AskForHelp ==
    /\ \/ At("short") /\ IsLoneHelp
       \/ At("long") /\ argv[cur] = HelpOption
    /\ Stop("help")

Shorts ==
    /\ At("short") /\ ~IsLoneHelp
    /\ optstr' = <<Letters(argv[cur].letters)>>
    /\ parse' = "short"
    /\ UNCHANGED <<table, policy, argv, argc0, cur, idx, parsed, vals>>

(* An empty cluster, "-", stands at the NUL that ends its string: its alias is
   that of the options that have none, and the character after it belongs to
   whatever follows in memory. *)
RestOf(letters) ==
    CASE letters = <<>>    -> {<<>>} \cup {<<Letters(b)>> : b \in Beyond}
      [] Len(letters) = 1  -> {<<>>}
      [] OTHER             -> {<<Letters(Tail(letters))>>}

FirstLetter(letters) == IF letters = <<>> THEN "" ELSE Head(letters)

ByAlias(c) == SelectInSeq(table, LAMBDA o : o.alias = c)

ShortOption ==
    /\ parse = "short" /\ optstr # <<>>
    /\ LET letters == optstr[1].letters
           i       == ByAlias(FirstLetter(letters))
       IN  /\ i # 0
           /\ parsed' = i
           /\ \E rest \in RestOf(letters) : GetArg(table[i], FALSE, TRUE, rest, "short")
    /\ UNCHANGED <<table, policy, argv, argc0, idx>>

UnknownShort ==
    /\ parse = "short" /\ optstr # <<>>
    /\ LET c == FirstLetter(optstr[1].letters)
       IN  ByAlias(c) = 0 /\ Stop(IF c = "h" THEN "help" ELSE "unknown")

(* The text of a long option: what follows its "=", else what is pending. *)
Pending(a) == IF a.val # <<>> THEN a.val ELSE optstr

(* Mutant: the negation of a name given in full is overlooked. *)
ExactOption_Positive ==
    /\ At("long") /\ argv[cur] # HelpOption
    /\ LET i == Exact(argv[cur])
       IN  /\ i # 0
           /\ parsed' = i
           /\ GetArg(table[i], FALSE, FALSE, Pending(argv[cur]), "validate")
    /\ UNCHANGED <<table, policy, argv, argc0, idx>>

ExactOption ==
    /\ At("long") /\ argv[cur] # HelpOption
    /\ LET i == Exact(argv[cur])
       IN  /\ i # 0
           /\ parsed' = i
           /\ GetArg(table[i], argv[cur].no, FALSE, Pending(argv[cur]), "validate")
    /\ UNCHANGED <<table, policy, argv, argc0, idx>>

AbbreviatedOption ==
    /\ At("long") /\ argv[cur] # HelpOption /\ Exact(argv[cur]) = 0
    /\ \E i \in AbbreviatedBy(argv[cur]) :
          /\ AbbreviatedBy(argv[cur]) = {i}
          /\ parsed' = i
          /\ GetArg(table[i], NegShortens(argv[cur], table[i]), FALSE, Pending(argv[cur]),
                     "validate")
    /\ UNCHANGED <<table, policy, argv, argc0, idx>>

UnclearOption ==
    /\ At("long") /\ argv[cur] # HelpOption /\ Exact(argv[cur]) = 0
    /\ \/ AbbreviatedBy(argv[cur]) = {} /\ Stop("unknown")
       \/ \E i, j \in AbbreviatedBy(argv[cur]) : i # j /\ Stop("help")

(* validate_parsed_value() looks at the last option of a cluster only. *)
Validate ==
    /\ \/ parse = "validate"
       \/ parse = "short" /\ optstr = <<>>
    /\ IF /\ "REALPATH" \in table[parsed].flags
          /\ vals[table[parsed].name][1] \notin RegularFiles
       THEN Stop("error")
       ELSE /\ parse' = "next" /\ cur' = cur + 1
            /\ UNCHANGED <<table, policy, argv, argc0, idx, optstr, parsed, vals>>

Parse ==
    \/ AtEnd \/ NonOption \/ EndOfOptions \/ AskForHelp
    \/ Shorts \/ ShortOption \/ UnknownShort
    \/ ExactOption \/ AbbreviatedOption \/ UnclearOption \/ Validate
===============================================================================
