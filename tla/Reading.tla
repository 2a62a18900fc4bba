-------------------------------- MODULE Reading --------------------------------
(***************************************************************************)
(* What an argument vector says under a table of options: the promise of   *)
(* parse_options().  There is no cursor here, no pending text and no       *)
(* vector that is rewritten while it is read; an argument is read with     *)
(* the one behind it.                                                      *)
(***************************************************************************)
EXTENDS ParseOption

(* Occurrences of an option that counts add up, of any other the last one holds. *)
CountsIn(options) == {options[i].name : i \in {j \in DOMAIN options : options[j].type = "COUNTUP"}}

Merged(counts, m, n) ==
    [k \in DOMAIN m \cup DOMAIN n |->
        IF k \notin DOMAIN n THEN m[k]
        ELSE IF k \in counts /\ k \in DOMAIN m THEN m[k] + n[k] ELSE n[k]]

(* The values after something is said that means m. *)
Applied(counts, v, m) ==
    [k \in DOMAIN v |->
        IF k \notin DOMAIN m THEN v[k] ELSE IF k \in counts THEN v[k] + m[k] ELSE m[k]]

NoMeaning       == [n \in {} |-> n]
Just(name, val) == [n \in {name} |-> val]

Taken(means, used) == [ok |-> TRUE, means |-> means, used |-> used]
NotTaken           == [ok |-> FALSE, means |-> NoMeaning, used |-> 0]

(* What the option o says with the text str or, if it is to have one and has none,
   with the argument behind: its meaning, and how many more arguments it takes. *)
TextSays(o, text, used) ==
    IF text = <<>> THEN NotTaken
    ELSE IF "UNSIGNED" \in o.flags
    THEN IF text[1] \in Numbers THEN NotTaken ELSE Taken(NoMeaning, used)
    ELSE IF "REALPATH" \in o.flags /\ Prefixed(text[1]) \notin RegularFiles THEN NotTaken
    ELSE Taken(Just(o.name, Stored(o, text[1])), used)

SwitchSays(o, unset) ==
    Taken(Just(o.name, IF o.type = "COUNTUP" THEN 1
                       ELSE IF o.type = "INTEGER" /\ unset THEN 0
                       ELSE IF unset THEN <<>> ELSE o.defval), 0)

OptionSays(o, unset, short, str, behind) ==
    IF Refuses(o, unset, short, str) THEN NotTaken
    ELSE IF ~TakesText(o, unset, str) THEN SwitchSays(o, unset)
    ELSE IF str # <<>> THEN TextSays(o, str, 0) ELSE TextSays(o, behind, 1)

FirstOf(options, I) == options[CHOOSE i \in I : \A j \in I : i <= j]

(* A cluster, from its letter k on; says[k + 1] is what it says from the next one on. *)
LettersAfter(letters, k) ==
    IF k = Len(letters) THEN <<>> ELSE <<Letters(SubSeq(letters, k + 1, Len(letters)))>>

Aliased(options, c) == {i \in DOMAIN options : options[i].alias = c}

LetterSays(options, letters, behind, says, k) ==
    LET o    == FirstOf(options, Aliased(options, letters[k]))
        text == LettersAfter(letters, k)
        one  == OptionSays(o, FALSE, TRUE, text, behind)
    IN  IF Aliased(options, letters[k]) = {} \/ ~one.ok THEN NotTaken
        ELSE IF text = <<>> \/ TakesText(o, FALSE, text) THEN one
        ELSE IF ~says[k + 1].ok THEN NotTaken
        ELSE Taken(Merged(CountsIn(options), one.means, says[k + 1].means), says[k + 1].used)

ClusterReading(options, letters, behind) ==
    LET says[k \in 1 .. Len(letters)] == LetterSays(options, letters, behind, says, k)
    IN  says

ClusterSays(options, letters, behind) == ClusterReading(options, letters, behind)[1]

(* A long option: one that is named in full, or the only one that is abbreviated. *)
Named(options, a) ==
    {i \in DOMAIN options : /\ IsLong(options[i]) /\ options[i].name = a.stem
                            /\ a.no => "ALLONEG" \in options[i].flags}

Abbreviated(options, a) == {i \in DOMAIN options : Abbreviates(a, options[i])}

LongSays(options, a, behind) ==
    LET named == FirstOf(options, Named(options, a))
        short == FirstOf(options, Abbreviated(options, a))
    IN  IF a = HelpOption THEN NotTaken
        ELSE IF Named(options, a) # {} THEN OptionSays(named, a.no, FALSE, a.val, behind)
        ELSE IF \E i \in DOMAIN options : Abbreviated(options, a) = {i}
        THEN OptionSays(short, NegShortens(a, short), FALSE, a.val, behind)
        ELSE NotTaken
-------------------------------------------------------------------------------
(* The arguments from i on: whether they are taken, what they mean, and which of them
   are left; reads[j] is the same from j on. *)
Reads(verdict, means, rest) == [verdict |-> verdict, means |-> means, rest |-> rest]

Behind(args, i) == IF i < Len(args) THEN <<args[i + 1]>> ELSE <<>>

OptionAndMore(options, one, reads, i) ==
    LET more == reads[i + 1 + one.used]
    IN  IF ~one.ok THEN Reads("refused", NoMeaning, <<>>)
        ELSE Reads(more.verdict, Merged(CountsIn(options), one.means, more.means), more.rest)

WordAndMore(flags, args, reads, i) ==
    IF flags = "abort" THEN Reads("refused", NoMeaning, <<>>)
    ELSE IF flags = "until" THEN Reads("ok", NoMeaning, SubSeq(args, i, Len(args)))
    ELSE Reads(reads[i + 1].verdict, reads[i + 1].means, <<args[i]>> \o reads[i + 1].rest)

ReadAt(options, flags, args, reads, i) ==
    IF i > Len(args) THEN Reads("ok", NoMeaning, <<>>)
    ELSE IF args[i].form = "word" THEN WordAndMore(flags, args, reads, i)
    ELSE IF args[i].form = "end" THEN Reads("ok", NoMeaning, SubSeq(args, i + 1, Len(args)))
    ELSE IF args[i].form = "long"
    THEN OptionAndMore(options, LongSays(options, args[i], Behind(args, i)), reads, i)
    ELSE IF args[i].form # "short" \/ args = <<Cluster(<<"h">>)>>
    THEN Reads("refused", NoMeaning, <<>>)
    ELSE IF args[i].letters = <<>> THEN Reads("dash", NoMeaning, <<>>)
    ELSE OptionAndMore(options, ClusterSays(options, args[i].letters, Behind(args, i)), reads, i)

Readings(options, flags, args) ==
    LET reads[i \in 1 .. Len(args) + 1] == ReadAt(options, flags, args, reads, i)
    IN  reads

Reading(options, flags, args) == Readings(options, flags, args)[1]
===============================================================================
