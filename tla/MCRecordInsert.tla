---------------------------- MODULE MCRecordInsert ----------------------------
(***************************************************************************)
(* Small instances of RecordInsert.                                        *)
(***************************************************************************)
EXTENDS RecordInsert, TLC

MCRows == Procs \X {"account", "security", "misc"}

(* Every combination of field groups a record can have. *)
MCRecords == {<<"account">>, <<"account", "security">>, <<"account", "misc">>,
              <<"account", "security", "misc">>}

(* One statement, and a transaction of two. *)
MCTwoRecords == {<<"account">>, <<"account", "misc">>}

Symmetry == Permutations(Procs)
===============================================================================
