----------------------------- MODULE RecordInsert -----------------------------
(***************************************************************************)
(* The last part of "pk create" (src/command/create.c, from the opening of *)
(* the database): a record is inserted as a row per field group, in one    *)
(* transaction if there is more than one group, while rm_journal_file() is *)
(* on the atexit chain.  Several commands share the database; each inserts *)
(* one record.                                                             *)
(*                                                                         *)
(* The key, the cipher config and the editor come earlier in the command   *)
(* and are not part of this module.                                        *)
(***************************************************************************)
EXTENDS SqliteFile, AtexitChain

CONSTANTS
    Records,        \* the records a command may insert: their groups, in order
    Faults,         \* may library calls fail and processes be killed?
    RollbackFails,  \* may the rollback of a failed commit fail as well?
    Overlap         \* may a command start while another one is running?

Groups == {"account", "security", "misc"}

ASSUME RecordAssumption ==
    /\ Records \subseteq {<<"account">>, <<"account", "security">>,
                          <<"account", "misc">>, <<"account", "security", "misc">>}
    /\ Rows = Procs \X Groups
    /\ NoJournal \notin Procs
    /\ Faults \in BOOLEAN /\ RollbackFails \in BOOLEAN /\ Overlap \in BOOLEAN

VARIABLES
    pc,      \* process -> where cmd_create() is
    rec,     \* process -> its record
    todo,    \* process -> the groups still to insert
    intx,    \* process -> is an explicit transaction open?
    chain,   \* process -> its atexit chain
    robbed   \* history: whose journal a cleanup handler has removed while it
             \* was in use or still had to be played back

local == <<rec, todo, intx, chain, robbed>>
vars  == <<db, pc, local>>

Exits   == {"exit0", "exit1"}
Ended   == {"done", "failed", "killed"}
Working == {"open", "avail", "push", "begin", "insert", "commit", "write", "close"}
Running == Working \cup Exits

GroupsOf(r) == {r[i] : i \in DOMAIN r}

RowsOf(p) == {p} \X GroupsOf(rec[p])

(* Mutant: two groups are taken for one. *)
NeedTransaction_OffByOne(r) == Len(r) > 2

(* is_need_transaction(): more than one group has a value; the basic group
   always has one, because a complete record has a sitename and a password. *)
NeedTransaction(r) == Len(r) > 1

Goto(p, from, to) == pc[p] = from /\ pc' = [pc EXCEPT ![p] = to]

(* Mutant: a failing call returns to be tried again. *)
ExitFailure_Retry(p) == UNCHANGED pc

(* require_success(): a call failed, exit(EXIT_FAILURE). *)
ExitFailure(p) == pc' = [pc EXCEPT ![p] = "exit1"]

Start(p) ==
    /\ Goto(p, "idle", "open")
    /\ Overlap \/ \A q \in Procs : pc[q] \in Ended \cup {"idle"}
    /\ \E r \in Records : /\ rec' = [rec EXCEPT ![p] = r]
                          /\ todo' = [todo EXCEPT ![p] = r]
    /\ UNCHANGED <<db, intx, chain, robbed>>

(* xsqlite3_open_v2() and the key leave the file alone. *)
Open(p) ==
    /\ Goto(p, "open", "avail")
    /\ UNCHANGED <<db, local>>

(* xsqlite3_avail(): a SELECT that rolls back what a killed process left. *)
Avail(p) ==
    /\ Goto(p, "avail", "push")
    /\ TakeShared(p)
    /\ UNCHANGED local

AvailBusy(p) ==
    /\ pc[p] = "avail" /\ ~CanRead(p)
    /\ ExitFailure(p)
    /\ UNCHANGED <<db, local>>

(* Mutant: the handler of the record file is registered instead. *)
RegisterCleanup_WrongHandler(p) ==
    /\ Goto(p, "push", "begin")
    /\ DropShared(p)
    /\ chain' = [chain EXCEPT ![p] = Push(@, "rm_tmp_rec")]
    /\ UNCHANGED <<rec, todo, intx, robbed>>

(* The SELECT is over, rm_journal_file is registered. *)
RegisterCleanup(p) ==
    /\ Goto(p, "push", "begin")
    /\ DropShared(p)
    /\ chain' = [chain EXCEPT ![p] = Push(@, "rm_journal_file")]
    /\ UNCHANGED <<rec, todo, intx, robbed>>

(* BEGIN is deferred: it takes no lock. *)
BeginTransaction(p) ==
    /\ Goto(p, "begin", "insert")
    /\ intx' = [intx EXCEPT ![p] = NeedTransaction(rec[p])]
    /\ UNCHANGED <<db, rec, todo, chain, robbed>>

(* One INSERT; outside of a transaction it commits by itself. *)
InsertRow(p) ==
    /\ pc[p] = "insert" /\ todo[p] # <<>>
    /\ IF lock[p] = "reserved"
       THEN NextInsert(p, <<p, Head(todo[p])>>)
       ELSE FirstInsert(p, <<p, Head(todo[p])>>)
    /\ todo' = [todo EXCEPT ![p] = Tail(@)]
    /\ pc' = [pc EXCEPT ![p] = IF intx[p] THEN "insert" ELSE "commit"]
    /\ UNCHANGED <<rec, intx, chain, robbed>>

(* Another process is writing.  A transaction that could read keeps SHARED. *)
InsertBusy(p) ==
    /\ pc[p] = "insert" /\ todo[p] # <<>>
    /\ lock[p] = "none" /\ ~CanWrite(p)
    /\ ExitFailure(p)
    /\ IF intx[p] /\ CanRead(p) THEN TakeShared(p) ELSE UNCHANGED db
    /\ UNCHANGED local

EndTransaction(p) ==
    /\ Goto(p, "insert", "commit")
    /\ todo[p] = <<>> /\ intx[p]
    /\ UNCHANGED <<db, local>>

StartCommit(p) ==
    /\ Goto(p, "commit", "write")
    /\ TakeExclusive(p)
    /\ UNCHANGED local

(* Mutant: the result of COMMIT is not looked at. *)
CommitBusy_Ignored(p) ==
    /\ Goto(p, "commit", "close")
    /\ \E q \in Others(p) : lock[q] # "none"
    /\ UNCHANGED <<db, local>>

CommitBusy(p) ==
    /\ pc[p] = "commit" /\ \E q \in Others(p) : lock[q] # "none"
    /\ ExitFailure(p)
    /\ UNCHANGED <<db, local>>

WriteRow(p) ==
    /\ pc[p] = "write"
    /\ WritePage(p)
    /\ UNCHANGED <<pc, local>>

(* The journal is unlinked: that is the commit.  If it is gone already the
   rows are in the file all the same, and SQLite may report an error. *)
FinishCommit(p) ==
    /\ pc[p] = "write"
    /\ UnlinkJournal(p)
    /\ \/ pc' = [pc EXCEPT ![p] = IF todo[p] = <<>> THEN "close" ELSE "insert"]
       \/ journal = NoJournal /\ ExitFailure(p)
    /\ intx' = [intx EXCEPT ![p] = FALSE]
    /\ UNCHANGED <<rec, todo, chain, robbed>>

(* Mutant: the handler stays on the chain. *)
Close_NoPop(p) ==
    /\ Goto(p, "close", "exit0")
    /\ UNCHANGED <<db, local>>

(* sqlite3_close(), and the handler is popped. *)
Close(p) ==
    /\ Goto(p, "close", "exit0")
    /\ chain' = [chain EXCEPT ![p] = Pop(@)]
    /\ UNCHANGED <<db, rec, todo, intx, robbed>>

(* A call fails before the commit writes: the memo file cannot be opened, a
   statement is not prepared, memory runs out. *)
CallFails(p) ==
    /\ Faults /\ pc[p] \in Working \ {"write", "close"}
    /\ ExitFailure(p)
    /\ UNCHANGED <<db, local>>

(* Writing the pages fails: SQLite rolls back, or cannot. *)
CommitFails(p) ==
    /\ Faults /\ pc[p] = "write"
    /\ ExitFailure(p)
    /\ \/ Rollback(p)
       \/ RollbackFails /\ UNCHANGED db
    /\ UNCHANGED local

Killed(p) ==
    /\ Faults /\ pc[p] \in Running
    /\ pc' = [pc EXCEPT ![p] = "killed"]
    /\ Vanish(p)
    /\ UNCHANGED local

(* rm_journal_file(): unlinks the path, whoever's journal it is. *)
RmJournalFile(p) ==
    /\ pc[p] \in Exits /\ chain[p] # <<>>
    /\ journal' = NoJournal
    /\ robbed' = IF journal # NoJournal
                    /\ (journal # p \/ disk # image[journal])
                 THEN robbed \cup {journal} ELSE robbed
    /\ chain' = [chain EXCEPT ![p] = Pop(@)]
    /\ UNCHANGED <<disk, image, cache, lock, pc, rec, todo, intx>>

Exit(p) ==
    /\ pc[p] \in Exits /\ chain[p] = <<>>
    /\ pc' = [pc EXCEPT ![p] = IF pc[p] = "exit0" THEN "done" ELSE "failed"]
    /\ Vanish(p)
    /\ UNCHANGED local

Init ==
    /\ DbInit
    /\ pc = [p \in Procs |-> "idle"]
    /\ rec = [p \in Procs |-> <<"account">>]
    /\ todo = [p \in Procs |-> <<>>]
    /\ intx = [p \in Procs |-> FALSE]
    /\ chain = [p \in Procs |-> <<>>]
    /\ robbed = {}

Run(p) ==
    \/ Open(p) \/ Avail(p) \/ AvailBusy(p) \/ RegisterCleanup(p)
    \/ BeginTransaction(p) \/ InsertRow(p) \/ InsertBusy(p) \/ EndTransaction(p)
    \/ StartCommit(p) \/ CommitBusy(p) \/ WriteRow(p) \/ FinishCommit(p)
    \/ Close(p) \/ RmJournalFile(p) \/ Exit(p)

Next ==
    \/ \E p \in Procs : Start(p) \/ Run(p) \/ CallFails(p) \/ CommitFails(p) \/ Killed(p)
    \/ (\A p \in Procs : pc[p] \in Ended) /\ UNCHANGED vars

Spec == Init /\ [][Next]_vars

(* The calls return at once: there is no busy handler and nothing waits. *)
FairSpec == Spec /\ \A p \in Procs : WF_vars(Run(p))
-------------------------------------------------------------------------------
TypeOK ==
    /\ DbTypeOK
    /\ pc \in [Procs -> {"idle"} \cup Running \cup Ended]
    /\ rec \in [Procs -> Records \cup {<<"account">>}]
    /\ todo \in [Procs -> Seq(Groups)]
    /\ intx \in [Procs -> BOOLEAN]
    /\ chain \in [Procs -> Seq({"rm_journal_file"})]
    /\ robbed \subseteq Procs

(* What a reader would find has each record whole or not at all. *)
Whole(p) == RowsOf(p) \subseteq Recovered \/ RowsOf(p) \cap Recovered = {}

(* The hot-journal discipline has one hole: a record can be torn only if the
   cleanup handler of some command removed its journal while that journal was
   in use or still had to be played back. *)
TornOnlyIfRobbed == \A p \in Procs : Whole(p) \/ p \in robbed

(* "A new record with rowid %d was created.": a record that was reported
   stays, whatever happens to the commands that run beside it or later. *)
ReportedStays == \A p \in Procs : pc[p] = "done" => RowsOf(p) \subseteq Recovered

(* A command that reports a failure has stored nothing, unless its journal was
   taken away before it could be played back. *)
FailureStoresNothing ==
    \A p \in Procs : pc[p] = "failed" =>
        RowsOf(p) \cap Recovered = {} \/ p \in robbed

(* A command that succeeds removes no journal: "at this point, cleanup journal
   file is unnecessary".  Only one that fails can take a journal away. *)
OnlyFailuresRob ==
    [][robbed' # robbed => \E p \in Procs : pc[p] = "exit1" /\ chain'[p] # chain[p]]_vars

(* No command waits for another: each one comes to its end. *)
InsertEnds == \A p \in Procs : pc[p] # "idle" ~> pc[p] \in Ended

(***************************************************************************)
(* Commands that run one after the other implement CredStore: a record is  *)
(* stored, with all its groups, from the moment its journal is unlinked.   *)
(***************************************************************************)
Store == INSTANCE CredStore WITH
    record  <- [p \in Procs |-> IF pc[p] = "idle" THEN {} ELSE GroupsOf(rec[p])],
    store   <- Recovered,
    outcome <- [p \in Procs |->
                   CASE pc[p] = "done"   -> "created"
                     [] pc[p] = "failed" -> "failed"
                     [] pc[p] = "killed" -> "silent"
                     [] OTHER            -> "pending"]

(* Create is atomic for a user: see the header of CredStore. *)
StoreSpec == Store!Spec
===============================================================================
