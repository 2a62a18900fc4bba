------------------------------ MODULE MCPkCreate ------------------------------
(***************************************************************************)
(* Small instances of PkCreate.                                            *)
(***************************************************************************)
EXTENDS PkCreate, TLC

Plain(s) == [state |-> s, cipher |-> [key |-> "none", settings |-> "default"]]

Read(k, s) == [state |-> "read", cipher |-> [key |-> k, settings |-> s]]

(* No config, one that cannot be decoded, one without a key, and three with a
   key: that of the database, the right key with other settings, a wrong one. *)
MCConfigs == {Plain("absent"), Plain("broken"), Read("none", "other"),
              Read("right", "other"), Read("right", "default"), Read("wrong", "other")}

MCDatabases == {[key |-> "right", settings |-> "other"],
                [key |-> "none", settings |-> "default"]}

Symmetry == Permutations(Procs)
===============================================================================
