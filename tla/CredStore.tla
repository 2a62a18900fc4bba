------------------------------- MODULE CredStore -------------------------------
(***************************************************************************)
(* What "pk create" promises of the database: a record is stored with all  *)
(* its groups at one moment or not at all, the command says that it        *)
(* created a record only when the record is stored, and says that it       *)
(* failed only when nothing of it is.  A killed command says nothing, and  *)
(* its record may be there.                                                *)
(***************************************************************************)
CONSTANTS
    Procs,   \* the commands; each stores one record
    Groups   \* the groups of fields a record may have

VARIABLES
    record,   \* command -> the groups of its record, none before it starts
    store,    \* the stored groups: pairs of a command and a group
    outcome   \* command -> what its user has been told

vars == <<record, store, outcome>>

RecordRows(p) == {p} \X record[p]

Stored(p) == record[p] # {} /\ RecordRows(p) \subseteq store
Absent(p) == RecordRows(p) \cap store = {}

Tell(p, what) ==
    /\ outcome[p] = "pending"
    /\ outcome' = [outcome EXCEPT ![p] = what]
    /\ UNCHANGED <<record, store>>

Submit(p) ==
    /\ outcome[p] = "pending" /\ record[p] = {}
    /\ \E gs \in (SUBSET Groups) \ {{}} : record' = [record EXCEPT ![p] = gs]
    /\ UNCHANGED <<store, outcome>>

Commit(p) ==
    /\ outcome[p] = "pending" /\ record[p] # {} /\ Absent(p)
    /\ store' = store \cup RecordRows(p)
    /\ UNCHANGED <<record, outcome>>

Succeed(p) == Stored(p) /\ Tell(p, "created")

Fail(p) == Absent(p) /\ Tell(p, "failed")

Die(p) == Tell(p, "silent")

Init ==
    /\ record = [p \in Procs |-> {}]
    /\ store = {}
    /\ outcome = [p \in Procs |-> "pending"]

Next == \E p \in Procs : Submit(p) \/ Commit(p) \/ Succeed(p) \/ Fail(p) \/ Die(p)

Spec == Init /\ [][Next]_vars
================================================================================
