------------------------------ MODULE MCRecordFile ------------------------------
(***************************************************************************)
(* Up to two fields given on the command line, or a text of up to five     *)
(* lines saved by the user of a "pk create" without fields.                *)
(***************************************************************************)
EXTENDS RecordFile

MCChar == Names \cup {":", "#", "|", " ", NL, "x", "y", "please", "end"}

MCMessage == <<"#", " ", "please", NL, "#", " ", "end">>

Values == {<<"x">>, <<" ">>, <<"#", "x">>, <<":", "x">>, <<"|", "x">>, <<"x", NL, "y">>,
           [k \in 1 .. 40 |-> "x"], [k \in 1 .. 90 |-> "x"]}

Given(f, v, g, w) == [NoRecord EXCEPT ![f] = v, ![g] = w]

MCRecords ==
    {NoRecord} \cup {Given(f, v, f, v) : f \in Names, v \in Values}
    \cup {Given("sitename", v, g, w) : g \in Names, v, w \in Values}
    \cup {[Given("sitename", v, "password", w) EXCEPT !.comment = <<"y">>] : v, w \in Values}

EditLines == {<<>>, <<"#", "x">>, <<":", "sitename", ":">>, <<":", "password", ":">>,
              <<":", "x">>, <<"x">>, <<"|", ":", "x">>, <<" ">>}

ASSUME SelectedIsSelectSeq ==
    \A strs \in UNION {[1 .. n -> EditLines] : n \in 0 .. 4} :
        Selected(strs, {k \in DOMAIN strs : LineFilter(strs[k])}) = SelectSeq(strs, LineFilter)

Text(strs) == FoldLeft(LAMBDA str, line : str \o <<NL>> \o line, strs[1], Tail(strs))

MCEdits(r) ==
    IF r # NoRecord THEN {}
    ELSE {[k \in 1 .. n |-> "x"] : n \in {MaxIoSize, MaxIoSize + 1}}
         \cup {Text(strs) : strs \in UNION {[1 .. n -> EditLines] : n \in 1 .. 5}}
===============================================================================
