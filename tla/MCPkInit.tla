------------------------------- MODULE MCPkInit -------------------------------
(***************************************************************************)
(* Small instances of PkInit: sets of command lines.                       *)
(***************************************************************************)
EXTENDS PkInit

(* Every command line that differs for the handler: a count-up option or a
   switch given or not, each algorithm unset, default, another or invalid. *)
MCAllOptions == AllOptions

(* One command line per outcome, with and without --force: no encryption, a
   random key remembered, not remembered and with another HMAC, a typed key
   remembered or not, and an invalid algorithm. *)
MCFewOptions ==
    {[encrypt |-> e, cmdkey |-> c, remember |-> r, force |-> f,
      kdf |-> "unset", hmac |-> h] :
        <<e, c, r, h>> \in {<<FALSE, FALSE, -1, "unset">>,
                            <<TRUE,  FALSE, -1, "unset">>,
                            <<TRUE,  FALSE,  0, "unset">>,
                            <<TRUE,  FALSE,  0, "other">>,
                            <<FALSE, TRUE,   1, "unset">>,
                            <<TRUE,  FALSE, -1, "invalid">>},
        f \in BOOLEAN}

(* Two processes at once: the lines that reach the most shared steps. *)
MCOverlapOptions ==
    {o \in MCFewOptions : o.hmac = "unset" /\ o.remember # 0}

(* Every command line but for the algorithms, which go together. *)
MCSerialOptions ==
    {o \in MCAllOptions : <<o.kdf, o.hmac>> \in {<<"unset", "unset">>, <<"default", "other">>,
                                                <<"other", "default">>, <<"unset", "invalid">>}}
    \cup MCFewOptions

(* Bound: an init with any other command line is the only one to run. *)
OtherLinesAlone ==
    \A p, q \in Procs : p # q /\ opt[p] \notin MCFewOptions => pc[q] = "idle"

(* The first example of docs/pk-init.adoc: no option at all. *)
MCPlainOption == {NoOption}
===============================================================================
