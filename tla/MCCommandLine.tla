----------------------------- MODULE MCCommandLine -----------------------------
(***************************************************************************)
(* Command lines put together from pieces, each with what its user means.  *)
(* Up to two pieces stand before the command and up to two after it, and a *)
(* piece that has to be the last one may follow them.                      *)
(***************************************************************************)
EXTENDS CommandLine

Piece(args, means, rest, faults) ==
    [args |-> args, means |-> means, rest |-> rest, faults |-> faults]

Says(args, name, value) == Piece(args, name :> value, <<>>, {})
Faulty(args, fault)     == Piece(args, <<>>, <<>>, {fault})

X      == Word("x")
Abs    == Word("/x")
Thirty == Word("32")
Path(t) == <<[form |-> "path", of |-> t]>>

(* Values that count add up, of the others the last one holds. *)
Counts == {"cmdkey", "encrypt", "force"}
Join(p, q) == Piece(p.args \o q.args, Merged(Counts, p.means, q.means), p.rest \o q.rest,
                    p.faults \cup q.faults)

Nothing == Piece(<<>>, <<>>, <<>>, {})
UpTo2(S) == {Nothing} \cup S \cup {Join(p, q) : p, q \in S}

MainPieces == {
    Says(<<Long(FALSE, "cred-db", <<>>), X>>, "cred-db", Path(X)),
    Says(<<Long(FALSE, "cred-db", <<Abs>>)>>, "cred-db", <<Abs>>),
    Faulty(<<Long(FALSE, "cred", <<X>>)>>, "wrong"),
    Says(<<Long(FALSE, "edi", <<X>>)>>, "editor", <<X>>),
    Says(<<Long(FALSE, "editor", <<>>), EndMark>>, "editor", <<EndMark>>),
    Says(<<Long(FALSE, "spinner", <<>>)>>, "spinner", <<>>),
    Says(<<Long(FALSE, "spinner", <<X>>)>>, "spinner", <<X>>),
    Says(<<Long(FALSE, "no", <<>>)>>, "spinner", <<>>),
    Says(<<Long(TRUE, "spinner", <<>>)>>, "spinner", <<>>),
    Faulty(<<Long(TRUE, "spinner", <<X>>)>>, "wrong"),
    Faulty(<<Long(TRUE, "editor", <<>>)>>, "wrong"),
    Faulty(<<Long(FALSE, "init", <<>>)>>, "wrong"),
    Faulty(<<Cluster(<<"x">>)>>, "wrong"),
    Faulty(<<Cluster(<<>>)>>, "dash")}

MainLast == {Piece(<<EndMark>>, <<>>, <<>>, {})}

CreatePieces == {
    Says(<<Cluster(<<"e">>)>>, "nano", 1),
    Piece(<<Cluster(<<"e", "k">>)>>, [nano |-> 1, cmdkey |-> 1], <<>>, {}),
    Says(<<Long(FALSE, "cmd", <<>>)>>, "cmdkey", 1),
    Says(<<Long(FALSE, "n", <<>>)>>, "nano", 1),
    Says(<<Long(FALSE, "no", <<>>)>>, "nano", 0),
    Says(<<Long(TRUE, "nano", <<>>)>>, "nano", 0),
    Says(<<Long(TRUE, "na", <<>>)>>, "nano", 0),
    Faulty(<<Long(FALSE, "nano", <<X>>)>>, "wrong"),
    Faulty(<<Long(TRUE, "cmdkey", <<>>)>>, "wrong"),
    Says(<<Long(FALSE, "sitename", <<>>), X>>, "sitename", <<X>>),
    Says(<<Long(FALSE, "sitename", <<>>), Cluster(<<"h">>)>>, "sitename", <<Cluster(<<"h">>)>>),
    Says(<<Long(FALSE, "siten", <<HelpOption>>)>>, "sitename", <<HelpOption>>),
    Faulty(<<Long(FALSE, "site", <<X>>)>>, "wrong"),
    Says(<<Long(FALSE, "memo", <<>>), X>>, "memo", Path(X)),
    Faulty(<<Long(FALSE, "memo", <<Abs>>)>>, "wrong"),
    Faulty(<<Cluster(<<"k", "x">>)>>, "wrong"),
    Faulty(<<Cluster(<<"k", "h">>)>>, "wrong"),
    Faulty(<<X>>, "wrong"),
    Faulty(<<Cluster(<<>>)>>, "dash")}

CreateLast == {
    Piece(<<EndMark, X, Cluster(<<"e">>)>>, <<>>, <<X, Cluster(<<"e">>)>>, {}),
    Faulty(<<Long(FALSE, "sitename", <<>>)>>, "wrong")}

InitPieces == {
    Says(<<Cluster(<<"e">>)>>, "encrypt", 1),
    Piece(<<Cluster(<<"e", "f">>)>>, [encrypt |-> 1, force |-> 1], <<>>, {}),
    Says(<<Long(FALSE, "f", <<>>)>>, "force", 1),
    Says(<<Long(FALSE, "remember", <<>>)>>, "remember", 1),
    Says(<<Long(TRUE, "rem", <<>>)>>, "remember", 0),
    Says(<<Long(FALSE, "kdf-a", <<X>>)>>, "kdf-algorithm", <<X>>),
    Faulty(<<Long(FALSE, "kdf", <<X>>)>>, "wrong"),
    Faulty(<<Long(FALSE, "kdf-iter", <<Thirty>>)>>, "number"),
    Faulty(<<Long(FALSE, "page-size", <<>>), Thirty>>, "number"),
    Faulty(<<Long(FALSE, "page-size", <<>>), X>>, "word"),
    Faulty(<<Cluster(<<>>)>>, "dash")}

InitLast == {Faulty(<<Long(FALSE, "kdf-iter", <<>>)>>, "wrong")}

VersionPieces == {
    Piece(<<X>>, <<>>, <<X>>, {}), Piece(<<Abs>>, <<>>, <<Abs>>, {}),
    Says(<<Long(FALSE, "build-options", <<>>)>>, "build-options", 1)}

VersionLast == {Piece(<<EndMark, HelpOption>>, <<>>, <<HelpOption>>, {})}

MakekeyPieces == {
    Says(<<Long(FALSE, "output", <<>>), X>>, "output", Path(X)),
    Faulty(<<Cluster(<<"s", "32">>)>>, "number"),
    Faulty(<<Cluster(<<"s", "x">>)>>, "word")}

CountPieces == {Says(<<Long(FALSE, "search", <<X>>)>>, "search", <<X>>)}

Line(c, before, after) ==
    LET all == Join(before, after)
    IN  [args |-> before.args \o <<Word(c)>> \o after.args, cmd |-> c,
         means |-> all.means, rest |-> after.rest, faults |-> all.faults]

After(pieces, last) == UpTo2(pieces) \cup {Join(p, q) : p \in pieces \cup {Nothing}, q \in last}

Special(args, c, rest, faults) ==
    [args |-> args, cmd |-> c, means |-> <<>>, rest |-> rest, faults |-> faults]

MCCommandLines ==
    {Line("create", Nothing, a) : a \in After(CreatePieces, CreateLast)}
    \cup {Line("init", Nothing, a) : a \in After(InitPieces, InitLast)}
    \cup {Line("version", Nothing, a) : a \in After(VersionPieces, VersionLast)}
    \cup {Line("makekey", Nothing, a) : a \in UpTo2(MakekeyPieces)}
    \cup {Line("count", Nothing, a) : a \in UpTo2(CountPieces)}
    \cup {Line(c, b, Nothing) : c \in {"create", "read", "help"},
                                b \in After(MainPieces, MainLast)}
    \cup {Special(b.args, "none", <<>>, b.faults \cup {"nothing"}) : b \in After(MainPieces, MainLast)}
    \cup {Special(<<Word(c)>>, "none", <<>>, {"wrong"}) :
              c \in {"", "re", "inti", "vesrion", "hlep", "crate", "x", "cot", "reade"}}
    \cup {Special(<<HelpOption>>, "help", <<Word("pk")>>, {}),
          Special(<<Word("create"), HelpOption>>, "help", <<Word("create")>>, {}),
          Special(<<Word("create"), Cluster(<<"h">>)>>, "none", <<>>, {"wrong"}),
          Special(<<Word("create"), Cluster(<<"e">>), HelpOption>>, "none", <<>>, {"wrong"})}

MCAbbreviations == {<<"cred", "cred-db">>, <<"cred", "cred-cc">>, <<"edi", "editor">>,
    <<"cmd", "cmdkey">>, <<"n", "nano">>, <<"na", "nano">>, <<"site", "sitename">>, <<"site", "siteurl">>,
    <<"siten", "sitename">>, <<"f", "force">>, <<"rem", "remember">>,
    <<"kdf", "kdf-algorithm">>, <<"kdf", "kdf-iter">>, <<"kdf-a", "kdf-algorithm">>}

MCNumbers       == {Thirty, Letters(<<"32">>)}
MCAbsolutePaths == {Abs}
MCRegularFiles  == {[form |-> "path", of |-> X]}
MCBeyond        == {<<"k">>, <<"x">>}

Bits(o, g) == [owner |-> o, group |-> g, other |-> {"R"}]
MCDatabases == {
    [kind |-> "none", class |-> "other", bits |-> Bits({}, {})],
    [kind |-> "directory", class |-> "owner", bits |-> Bits({"R", "W"}, {})],
    [kind |-> "regular", class |-> "owner", bits |-> Bits({"R", "W"}, {})],
    [kind |-> "regular", class |-> "owner", bits |-> Bits({"R"}, {"R", "W"})]}

MCEnvironments == {{}, {"PK_CRED_DB", "VISUAL"}, {"dumb"}}

WordSpelling == [
    count |-> <<"c","o","u","n","t">>, create |-> <<"c","r","e","a","t","e">>,
    delete |-> <<"d","e","l","e","t","e">>, help |-> <<"h","e","l","p">>,
    init |-> <<"i","n","i","t">>, makekey |-> <<"m","a","k","e","k","e","y">>,
    read |-> <<"r","e","a","d">>, update |-> <<"u","p","d","a","t","e">>,
    version |-> <<"v","e","r","s","i","o","n">>,
    re |-> <<"r","e">>, inti |-> <<"i","n","t","i">>, hlep |-> <<"h","l","e","p">>,
    vesrion |-> <<"v","e","s","r","i","o","n">>, crate |-> <<"c","r","a","t","e">>,
    cot |-> <<"c","o","t">>, reade |-> <<"r","e","a","d","e">>, x |-> <<"x">>]
    @@ ("" :> <<>>) @@ ("/x" :> <<"/","x">>) @@ ("pk" :> <<"p","k">>) @@ ("32" :> <<"3","2">>)

MCSpelling ==
    LET args == UNION {{l.args[i] : i \in DOMAIN l.args} : l \in MCCommandLines}
                \cup {Word(w) : w \in DOMAIN WordSpelling}
    IN  [a \in args |-> IF a.form = "word" THEN WordSpelling[a.text] ELSE <<"-">>]
===============================================================================
