--------------------------- MODULE RecordInsertProofs ---------------------------
(***************************************************************************)
(* Theorems about RecordInsert, for any number of creates, with or without *)
(* overlap, failures, kills and rollbacks that fail.                       *)
(***************************************************************************)
EXTENDS RecordInsert, TLAPS

-------------------------------------------------------------------------------
(***************************************************************************)
(* The inductive invariant.                                                *)
(***************************************************************************)

(* One writer at a time, nobody beside a writer of pages, and the journal at
   the path is the writer's if there is one. *)
LockInv ==
    \A p \in Procs : lock[p] \in Writing =>
        /\ journal \in {p, NoJournal}
        /\ \A q \in Others(p) : /\ lock[q] \notin Writing
                                /\ lock[p] = "exclusive" => lock[q] = "none"

(* The lock a command holds where it is. *)
HoldInv ==
    \A p \in Procs :
        /\ pc[p] \in {"idle", "open", "avail", "begin", "close"} => lock[p] = "none"
        /\ pc[p] = "insert" => lock[p] \in {"none", "reserved"}
        /\ pc[p] = "commit" => lock[p] = "reserved"
        /\ pc[p] = "write" => lock[p] = "exclusive"

(* The rows of a record are still to insert, in the cache or in the file. *)
TodoOK(p) ==
    /\ cache[p] \subseteq RowsOf(p)
    /\ pc[p] = "idle" => cache[p] = {}
    /\ pc[p] \in {"open", "avail", "push", "begin"} => todo[p] = rec[p]
    /\ pc[p] = "insert" =>
          /\ intx[p] = NeedTransaction(rec[p])
          /\ GroupsOf(todo[p]) \subseteq GroupsOf(rec[p])
          /\ lock[p] = "none" => todo[p] = rec[p]
          /\ lock[p] # "none" => intx[p]
          /\ lock[p] # "none" =>
                RowsOf(p) \subseteq cache[p] \cup ({p} \X GroupsOf(todo[p]))
    /\ pc[p] = "commit" => todo[p] = <<>> /\ RowsOf(p) \subseteq cache[p]
    /\ pc[p] = "write" => todo[p] = <<>> /\ RowsOf(p) \subseteq cache[p] \cup disk

TodoInv == \A p \in Procs : TodoOK(p)

(* A command that inserts or commits has its journal unless it was taken. *)
JournalInv ==
    \A p \in Procs :
        pc[p] \in {"insert", "commit", "write"} /\ lock[p] # "none" =>
            journal = p \/ p \in robbed

(* A journal that some reader may still play back. *)
Active(j) == journal = j \/ lock[j] \in Writing

(* The record is there, and no journal takes it back. *)
Full(p) == /\ RowsOf(p) \subseteq disk
           /\ \A j \in Procs : Active(j) => RowsOf(p) \subseteq image[j]

(* Nothing of the record is there, or p's own journal takes it back. *)
Empty(p) == /\ journal = p \/ RowsOf(p) \cap disk = {}
            /\ \A j \in Procs : Active(j) => RowsOf(p) \cap image[j] = {}

Committed == {"close", "exit0", "done"}

RecordOK(p) ==
    /\ pc[p] \in Committed => Full(p)
    /\ pc[p] \notin Committed \cup {"killed"} => p \in robbed \/ Empty(p)
    /\ pc[p] = "killed" => p \in robbed \/ Full(p) \/ Empty(p)

RecordInv == \A p \in Procs : RecordOK(p)

(* A command that has not started has no row anywhere. *)
FreshInv ==
    \A p \in Procs : pc[p] = "idle" =>
        /\ disk \cap ({p} \X Groups) = {}
        /\ \A j \in Procs : image[j] \cap ({p} \X Groups) = {}

Inv == TypeOK /\ LockInv /\ HoldInv /\ TodoInv /\ JournalInv /\ RecordInv /\ FreshInv

-------------------------------------------------------------------------------
(***************************************************************************)
(* Records and their groups.                                               *)
(***************************************************************************)
RecordShapes == {<<"account">>, <<"account", "security">>,
                 <<"account", "misc">>, <<"account", "security", "misc">>}

(* A record a command can have is one of four sequences of groups. *)
LEMMA RecordShape ==
    ASSUME NEW r \in Records \cup {<<"account">>}
    PROVE  r \in RecordShapes /\ r \in Seq(Groups) /\ r # <<>>
<1>1. r \in RecordShapes
  BY RecordAssumption DEF RecordShapes
<1>2. CASE r = <<"account">>
  BY <1>1, <1>2 DEF Groups
<1>3. CASE r = <<"account", "security">>
  BY <1>1, <1>3 DEF Groups
<1>4. CASE r = <<"account", "misc">>
  BY <1>1, <1>4 DEF Groups
<1>5. CASE r = <<"account", "security", "misc">>
  BY <1>1, <1>5 DEF Groups
<1>. QED  BY <1>1, <1>2, <1>3, <1>4, <1>5 DEF RecordShapes

(* A record that needs no transaction has one group. *)
LEMMA SingleGroup ==
    ASSUME NEW r \in RecordShapes, ~NeedTransaction(r)
    PROVE  r = <<"account">>
BY DEF RecordShapes, NeedTransaction

LEMMA NeedTransactionType ==
    ASSUME NEW r \in Seq(Groups)
    PROVE  NeedTransaction(r) \in BOOLEAN
BY DEF NeedTransaction

(* Taking the head off a sequence of groups takes one group off its set. *)
LEMMA GroupsOfTail ==
    ASSUME NEW s \in Seq(Groups), s # <<>>
    PROVE  /\ Head(s) \in Groups /\ Tail(s) \in Seq(Groups)
           /\ GroupsOf(s) = {Head(s)} \cup GroupsOf(Tail(s))
<1>1. ASSUME NEW i \in DOMAIN s, i # 1 PROVE s[i] \in GroupsOf(Tail(s))
  <2>1. i - 1 \in DOMAIN Tail(s) /\ Tail(s)[i - 1] = s[i]
    BY <1>1
  <2>. QED  BY <2>1 DEF GroupsOf
<1>2. ASSUME NEW i \in DOMAIN Tail(s) PROVE Tail(s)[i] \in GroupsOf(s)
  <2>1. i + 1 \in DOMAIN s /\ s[i + 1] = Tail(s)[i]
    BY <1>2
  <2>. QED  BY <2>1 DEF GroupsOf
<1>3. Head(s) = s[1] /\ 1 \in DOMAIN s
  OBVIOUS
<1>4. Head(s) \in GroupsOf(s)
  BY <1>3 DEF GroupsOf
<1>5. GroupsOf(s) \subseteq {Head(s)} \cup GroupsOf(Tail(s))
  BY <1>1, <1>3 DEF GroupsOf
<1>6. GroupsOf(Tail(s)) \subseteq GroupsOf(s)
  BY <1>2 DEF GroupsOf
<1>. QED  BY <1>4, <1>5, <1>6

LEMMA GroupsType ==
    ASSUME NEW s \in Seq(Groups)
    PROVE  GroupsOf(s) \subseteq Groups
BY DEF GroupsOf

-------------------------------------------------------------------------------
(***************************************************************************)
(* Type correctness.                                                       *)
(***************************************************************************)
LEMMA InitType == Init => TypeOK
<1>. SUFFICES ASSUME Init PROVE TypeOK
  OBVIOUS
<1>1. DbTypeOK
  BY DEF Init, DbInit, DbTypeOK, Locks
<1>. QED  BY <1>1 DEF Init, TypeOK

(* The library's steps keep the types of the database. *)
LEMMA ReadType ==
    ASSUME DbTypeOK, NEW p \in Procs, TakeShared(p) \/ DropShared(p)
    PROVE  DbTypeOK'
BY DEF DbTypeOK, TakeShared, DropShared, SetLock, RolledBack, IsHot, Locks

LEMMA InsertType ==
    ASSUME DbTypeOK, NEW p \in Procs, NEW row \in Rows,
           FirstInsert(p, row) \/ NextInsert(p, row)
    PROVE  DbTypeOK'
BY DEF DbTypeOK, FirstInsert, NextInsert, SetLock, RolledBack, IsHot, Locks

LEMMA CommitType ==
    ASSUME DbTypeOK, NEW p \in Procs,
           \/ TakeExclusive(p) \/ WritePage(p) \/ UnlinkJournal(p)
           \/ Rollback(p) \/ Vanish(p)
    PROVE  DbTypeOK'
BY DEF DbTypeOK, TakeExclusive, WritePage, UnlinkJournal, Rollback, Vanish,
       SetLock, Locks

LEMMA StepType == TypeOK /\ [Next]_vars => TypeOK'
<1>. SUFFICES ASSUME TypeOK, [Next]_vars PROVE TypeOK'
  OBVIOUS
<1>. USE DEF TypeOK
<1>0. CASE UNCHANGED vars
  BY <1>0 DEF vars, local, db, DbTypeOK
<1>1. ASSUME NEW p \in Procs, Start(p) PROVE TypeOK'
  <2>1. \A r \in Records : r \in Seq(Groups)
    BY RecordShape
  <2>. QED  BY <1>1, <2>1 DEF Start, Goto, db, DbTypeOK, Running, Working
<1>2. ASSUME NEW p \in Procs, Open(p) \/ BeginTransaction(p) \/ EndTransaction(p)
      PROVE TypeOK'
  <2>1. NeedTransaction(rec[p]) \in BOOLEAN
    BY NeedTransactionType, RecordShape
  <2>2. CASE Open(p) \/ EndTransaction(p)
    BY <2>2 DEF Open, EndTransaction, Goto, local, db, DbTypeOK, Running, Working
  <2>3. CASE BeginTransaction(p)
    BY <2>1, <2>3 DEF BeginTransaction, Goto, db, DbTypeOK, Running, Working
  <2>. QED  BY <1>2, <2>2, <2>3
<1>3. ASSUME NEW p \in Procs, Avail(p) PROVE TypeOK'
  BY <1>3, ReadType DEF Avail, Goto, local, Running, Working
<1>4. ASSUME NEW p \in Procs, RegisterCleanup(p) PROVE TypeOK'
  <2>1. Push(chain[p], "rm_journal_file") \in Seq({"rm_journal_file"})
    BY DEF Push
  <2>. QED  BY <1>4, <2>1, ReadType DEF RegisterCleanup, Goto, Running, Working
<1>5. ASSUME NEW p \in Procs, InsertRow(p) PROVE TypeOK'
  <2>1. todo[p] \in Seq(Groups) /\ todo[p] # <<>>
    BY <1>5 DEF InsertRow
  <2>2. <<p, Head(todo[p])>> \in Rows /\ Tail(todo[p]) \in Seq(Groups)
    BY <2>1, GroupsOfTail, RecordAssumption
  <2>3. DbTypeOK'
    BY <1>5, <2>2, InsertType DEF InsertRow
  <2>. QED  BY <1>5, <2>2, <2>3 DEF InsertRow, Running, Working
<1>6. ASSUME NEW p \in Procs, InsertBusy(p) PROVE TypeOK'
  <2>1. DbTypeOK'
    BY <1>6, ReadType DEF InsertBusy, db, DbTypeOK
  <2>. QED  BY <1>6, <2>1 DEF InsertBusy, ExitFailure, local, Running, Exits
<1>7. ASSUME NEW p \in Procs, AvailBusy(p) \/ CommitBusy(p) \/ CallFails(p)
      PROVE TypeOK'
  BY <1>7 DEF AvailBusy, CommitBusy, CallFails, ExitFailure, local, db, DbTypeOK,
              Running, Exits
<1>8. ASSUME NEW p \in Procs, StartCommit(p) \/ WriteRow(p) PROVE TypeOK'
  BY <1>8, CommitType DEF StartCommit, WriteRow, Goto, local, Running, Working
<1>9. ASSUME NEW p \in Procs, FinishCommit(p) PROVE TypeOK'
  BY <1>9, CommitType DEF FinishCommit, ExitFailure, Running, Working, Exits
<1>10. ASSUME NEW p \in Procs, CommitFails(p) PROVE TypeOK'
  <2>1. DbTypeOK'
    BY <1>10, CommitType DEF CommitFails, db, DbTypeOK
  <2>. QED  BY <1>10, <2>1 DEF CommitFails, ExitFailure, local, Running, Exits
<1>11. ASSUME NEW p \in Procs, Killed(p) \/ Exit(p) PROVE TypeOK'
  BY <1>11, CommitType DEF Killed, Exit, local, Ended
<1>12. ASSUME NEW p \in Procs, Close(p) \/ RmJournalFile(p) PROVE TypeOK'
  <2>1. Pop(chain[p]) \in Seq({"rm_journal_file"})
    BY DEF Pop
  <2>2. CASE Close(p)
    BY <2>1, <2>2 DEF Close, Goto, db, DbTypeOK, Running, Exits
  <2>3. CASE RmJournalFile(p)
    BY <2>1, <2>3 DEF RmJournalFile, DbTypeOK
  <2>. QED  BY <1>12, <2>2, <2>3
<1>. QED
  BY <1>0, <1>1, <1>2, <1>3, <1>4, <1>5, <1>6, <1>7, <1>8, <1>9, <1>10, <1>11, <1>12
     DEF Next, Run

(* Every variable of the inserting commands and of the database they share
   keeps its type. *)
THEOREM TypeCorrect == Spec => []TypeOK
BY InitType, StepType, PTL DEF Spec

-------------------------------------------------------------------------------
(***************************************************************************)
(* Locks.                                                                  *)
(***************************************************************************)
LEMMA InitInv == Init => Inv
<1>. SUFFICES ASSUME Init PROVE Inv
  OBVIOUS
<1>1. LockInv /\ HoldInv
  BY DEF Init, DbInit, LockInv, HoldInv, Writing
<1>2. TodoInv /\ JournalInv /\ FreshInv
  BY DEF Init, DbInit, TodoInv, TodoOK, JournalInv, FreshInv
<1>3. RecordInv
  BY RecordAssumption DEF Init, DbInit, RecordInv, RecordOK, Committed, Empty, Active
<1>. QED  BY <1>1, <1>2, <1>3, InitType DEF Inv

LEMMA StepLock ==
    ASSUME Inv, [Next]_vars
    PROVE  LockInv' /\ HoldInv'
<1>. USE RecordAssumption DEF Inv, TypeOK, DbTypeOK, LockInv, HoldInv, Writing, Others, Locks
<1>0. CASE UNCHANGED vars
  BY <1>0 DEF vars, db
<1>1. ASSUME NEW p \in Procs,
             \/ Start(p) \/ Open(p) \/ BeginTransaction(p) \/ EndTransaction(p)
             \/ Close(p) \/ AvailBusy(p) \/ CommitBusy(p) \/ CallFails(p)
      PROVE  LockInv' /\ HoldInv'
  <2>1. UNCHANGED <<lock, journal>>
    BY <1>1 DEF Start, Open, BeginTransaction, EndTransaction, Close, AvailBusy,
                CommitBusy, CallFails, db
  <2>2. LockInv'
    BY <2>1
  <2>3. CASE Start(p) \/ Open(p) \/ BeginTransaction(p)
    BY <2>1, <2>3 DEF Start, Open, BeginTransaction, Goto
  <2>4. CASE EndTransaction(p)
    <3>1. rec[p] # <<>>
      BY RecordShape
    <3>2. lock[p] = "reserved"
      BY <2>4, <3>1 DEF EndTransaction, Goto, TodoInv, TodoOK
    <3>. QED  BY <2>1, <2>4, <3>2 DEF EndTransaction, Goto
  <2>5. CASE Close(p) \/ AvailBusy(p) \/ CommitBusy(p) \/ CallFails(p)
    BY <2>1, <2>5 DEF Close, AvailBusy, CommitBusy, CallFails, Goto, ExitFailure
  <2>. QED  BY <1>1, <2>2, <2>3, <2>4, <2>5
<1>2. ASSUME NEW p \in Procs, Avail(p) \/ InsertBusy(p) PROVE LockInv' /\ HoldInv'
  BY <1>2 DEF Avail, InsertBusy, TakeShared, CanRead, IsHot, SetLock, Goto, ExitFailure, db
<1>3. ASSUME NEW p \in Procs, RegisterCleanup(p) PROVE LockInv' /\ HoldInv'
  BY <1>3 DEF RegisterCleanup, DropShared, SetLock, Goto
<1>4. ASSUME NEW p \in Procs, InsertRow(p) PROVE LockInv' /\ HoldInv'
  <2>1. pc' \in {[pc EXCEPT ![p] = "insert"], [pc EXCEPT ![p] = "commit"]}
    BY <1>4 DEF InsertRow
  <2>2. CASE lock[p] = "reserved"
    <3>1. UNCHANGED <<lock, journal>>
      BY <1>4, <2>2 DEF InsertRow, NextInsert
    <3>. QED  BY <2>1, <2>2, <3>1
  <2>3. CASE lock[p] # "reserved"
    <3>1. /\ lock' = [lock EXCEPT ![p] = "reserved"]
          /\ journal' = p
          /\ \A q \in Procs \ {p} : lock[q] \notin {"reserved", "exclusive"}
      BY <1>4, <2>3 DEF InsertRow, FirstInsert, CanWrite, SetLock
    <3>. QED  BY <2>1, <3>1
  <2>. QED  BY <2>2, <2>3
<1>5. ASSUME NEW p \in Procs, StartCommit(p) PROVE LockInv' /\ HoldInv'
  BY <1>5 DEF StartCommit, TakeExclusive, SetLock, Goto
<1>6. ASSUME NEW p \in Procs, WriteRow(p) PROVE LockInv' /\ HoldInv'
  BY <1>6 DEF WriteRow, WritePage
<1>7. ASSUME NEW p \in Procs, FinishCommit(p) PROVE LockInv' /\ HoldInv'
  BY <1>7 DEF FinishCommit, UnlinkJournal, SetLock, ExitFailure
<1>8. ASSUME NEW p \in Procs, CommitFails(p) PROVE LockInv' /\ HoldInv'
  <2>1. pc' = [pc EXCEPT ![p] = "exit1"]
    BY <1>8 DEF CommitFails, ExitFailure
  <2>2. CASE Rollback(p)
    <3>1. journal' = NoJournal /\ lock' = [lock EXCEPT ![p] = "none"]
      BY <2>2 DEF Rollback, SetLock
    <3>. QED  BY <2>1, <3>1
  <2>3. CASE UNCHANGED db
    <3>1. UNCHANGED <<lock, journal>>
      BY <2>3 DEF db
    <3>. QED  BY <2>1, <3>1
  <2>. QED  BY <1>8, <2>2, <2>3 DEF CommitFails
<1>9. ASSUME NEW p \in Procs, Killed(p) \/ Exit(p) PROVE LockInv' /\ HoldInv'
  <2>1. /\ UNCHANGED journal
        /\ lock' = [lock EXCEPT ![p] = "none"]
    BY <1>9 DEF Killed, Exit, Vanish, SetLock
  <2>2. pc' \in {[pc EXCEPT ![p] = "killed"], [pc EXCEPT ![p] = "done"],
                 [pc EXCEPT ![p] = "failed"]}
    BY <1>9 DEF Killed, Exit
  <2>. QED  BY <2>1, <2>2
<1>10. ASSUME NEW p \in Procs, RmJournalFile(p) PROVE LockInv' /\ HoldInv'
  BY <1>10 DEF RmJournalFile
<1>. QED
  BY <1>0, <1>1, <1>2, <1>3, <1>4, <1>5, <1>6, <1>7, <1>8, <1>9, <1>10 DEF Next, Run

-------------------------------------------------------------------------------
(***************************************************************************)
(* Where the rows of a record are.                                         *)
(***************************************************************************)

(* A process that writes pages is alone with the file. *)
LEMMA WriterAlone ==
    ASSUME Inv, NEW p \in Procs, NEW q \in Procs, p # q, pc[q] = "write"
    PROVE  lock[p] = "none" /\ ~CanRead(p) /\ ~CanWrite(p) /\ pc[p] # "write"
BY DEF Inv, LockInv, HoldInv, Writing, Others, CanRead, CanWrite

(* Between two INSERTs a lock is held only in a transaction. *)
LEMMA HeldInTransaction ==
    ASSUME Inv, NEW p \in Procs, pc[p] = "insert", lock[p] # "none"
    PROVE  intx[p]
BY DEF Inv, TodoInv, TodoOK

LEMMA StepTodo ==
    ASSUME Inv, [Next]_vars
    PROVE  TodoInv'
<1>. USE DEF Inv, TypeOK, DbTypeOK, TodoInv, TodoOK
<1>0. CASE UNCHANGED vars
  BY <1>0 DEF vars, local, db, RowsOf
<1>1. ASSUME NEW p \in Procs, Start(p) PROVE TodoInv'
  <2>1. PICK r \in Records : rec' = [rec EXCEPT ![p] = r] /\ todo' = [todo EXCEPT ![p] = r]
    BY <1>1 DEF Start
  <2>2. pc' = [pc EXCEPT ![p] = "open"] /\ UNCHANGED <<db, intx>> /\ cache[p] = {}
    BY <1>1 DEF Start, Goto
  <2>3. \A q \in Procs : q # p => RowsOf(q)' = RowsOf(q)
    BY <2>1 DEF RowsOf
  <2>. QED  BY <2>1, <2>2, <2>3 DEF db
<1>2. ASSUME NEW p \in Procs, Open(p) \/ AvailBusy(p) \/ CommitBusy(p) \/ CallFails(p)
      PROVE TodoInv'
  BY <1>2 DEF Open, AvailBusy, CommitBusy, CallFails, Goto, ExitFailure, local, db, RowsOf
<1>3. ASSUME NEW p \in Procs, Avail(p) \/ InsertBusy(p) PROVE TodoInv'
  <2>1. \A q \in Procs : pc[q] = "write" => disk' = disk \/ p = q
    BY <1>3, WriterAlone DEF Avail, InsertBusy, TakeShared, db
  <2>2. /\ UNCHANGED <<rec, todo, intx, cache>>
        /\ lock' \in {lock, [lock EXCEPT ![p] = "shared"]}
        /\ pc' \in {[pc EXCEPT ![p] = "push"], [pc EXCEPT ![p] = "exit1"]}
    BY <1>3 DEF Avail, InsertBusy, TakeShared, SetLock, Goto, ExitFailure, local, db
  <2>3. pc[p] = "avail" \/ pc'[p] = "exit1"
    BY <1>3 DEF Avail, InsertBusy, Goto, ExitFailure
  <2>. QED  BY <2>1, <2>2, <2>3 DEF RowsOf
<1>4. ASSUME NEW p \in Procs, RegisterCleanup(p) PROVE TodoInv'
  BY <1>4 DEF RegisterCleanup, DropShared, SetLock, Goto, RowsOf
<1>5. ASSUME NEW p \in Procs, BeginTransaction(p) PROVE TodoInv'
  BY <1>5 DEF BeginTransaction, Goto, db, HoldInv, RowsOf
<1>6. ASSUME NEW p \in Procs, InsertRow(p) PROVE TodoInv'
  <2>. DEFINE row == <<p, Head(todo[p])>>
  <2>1. /\ pc[p] = "insert" /\ todo[p] # <<>> /\ todo[p] \in Seq(Groups)
        /\ UNCHANGED <<rec, intx>>
        /\ todo' = [todo EXCEPT ![p] = Tail(@)]
        /\ pc' = [pc EXCEPT ![p] = IF intx[p] THEN "insert" ELSE "commit"]
    BY <1>6 DEF InsertRow
  <2>2. /\ lock' = [lock EXCEPT ![p] = "reserved"]
        /\ lock[p] = "none" => cache' = [cache EXCEPT ![p] = {row}]
        /\ lock[p] # "none" => cache' = [cache EXCEPT ![p] = @ \cup {row}]
    BY <1>6, <2>1 DEF InsertRow, FirstInsert, NextInsert, SetLock, HoldInv
  <2>3. \A q \in Procs : pc[q] = "write" => disk' = disk
    <3>1. \A q \in Procs : pc[q] = "write" => p # q /\ lock[p] # "reserved" /\ ~CanWrite(p)
      BY <2>1, WriterAlone
    <3>. QED  BY <1>6, <3>1 DEF InsertRow, FirstInsert
  <2>4. GroupsOf(todo[p]) = {Head(todo[p])} \cup GroupsOf(Tail(todo[p]))
    BY <2>1, GroupsOfTail
  <2>5. RowsOf(p) \subseteq cache'[p] \cup ({p} \X GroupsOf(Tail(todo[p])))
    <3>1. {p} \X GroupsOf(todo[p]) \subseteq {row} \cup ({p} \X GroupsOf(Tail(todo[p])))
      BY <2>4
    <3>2. CASE lock[p] = "none"
      <4>1. RowsOf(p) = {p} \X GroupsOf(todo[p])
        BY <2>1, <3>2 DEF RowsOf
      <4>. QED  BY <2>2, <3>1, <3>2, <4>1
    <3>3. CASE lock[p] # "none"
      <4>1. RowsOf(p) \subseteq cache[p] \cup ({p} \X GroupsOf(todo[p]))
        BY <2>1, <3>3
      <4>2. cache'[p] = cache[p] \cup {row}
        BY <2>2, <3>3
      <4>. QED  BY <3>1, <4>1, <4>2
    <3>. QED  BY <3>2, <3>3
  <2>6. cache'[p] \subseteq RowsOf(p)
    <3>1. row \in RowsOf(p)
      BY <2>1, <2>4 DEF RowsOf
    <3>2. cache[p] \subseteq RowsOf(p)
      OBVIOUS
    <3>3. cache'[p] = {row} \/ cache'[p] = cache[p] \cup {row}
      BY <2>2
    <3>. QED  BY <3>1, <3>2, <3>3
  <2>7. ~intx[p] => Tail(todo[p]) = <<>>
    <3>1. SUFFICES ASSUME ~intx[p] PROVE Tail(todo[p]) = <<>>
      OBVIOUS
    <3>2. rec[p] = <<"account">>
      BY <2>1, <3>1, SingleGroup, RecordShape
    <3>3. lock[p] = "none"
      BY <2>1, <3>1, HeldInTransaction
    <3>. QED  BY <2>1, <3>2, <3>3
  <2>8. GroupsOf(Tail(todo[p])) \subseteq GroupsOf(rec[p])
    BY <2>1, <2>4
  <2>9. \A q \in Procs : RowsOf(q)' = RowsOf(q)
    BY <2>1 DEF RowsOf
  <2>10. ASSUME NEW q \in Procs, q # p PROVE TodoOK(q)'
    BY <2>1, <2>2, <2>3, <2>9, <2>10
  <2>11. TodoOK(p)'
    <3>1. todo'[p] = Tail(todo[p]) /\ lock'[p] = "reserved" /\ UNCHANGED <<rec, intx>>
      BY <2>1, <2>2
    <3>2. CASE intx[p]
      <4>1. pc'[p] = "insert"
        BY <2>1, <3>2
      <4>. QED  BY <2>1, <2>5, <2>6, <2>8, <2>9, <3>1, <3>2, <4>1
    <3>3. CASE ~intx[p]
      <4>1. pc'[p] = "commit" /\ Tail(todo[p]) = <<>>
        BY <2>1, <2>7, <3>3
      <4>2. GroupsOf(Tail(todo[p])) = {}
        BY <4>1 DEF GroupsOf
      <4>3. {p} \X GroupsOf(Tail(todo[p])) = {}
        BY <4>2
      <4>. QED  BY <2>5, <2>6, <2>9, <3>1, <4>1, <4>3
    <3>. QED  BY <3>2, <3>3
  <2>. QED  BY <2>10, <2>11
<1>7. ASSUME NEW p \in Procs, EndTransaction(p) PROVE TodoInv'
  <2>1. rec[p] # <<>> /\ GroupsOf(<<>>) = {}
    BY RecordShape DEF GroupsOf
  <2>2. lock[p] # "none"
    BY <1>7, <2>1 DEF EndTransaction, Goto
  <2>3. RowsOf(p) \subseteq cache[p]
    BY <1>7, <2>1, <2>2 DEF EndTransaction, Goto
  <2>. QED  BY <1>7, <2>3 DEF EndTransaction, Goto, local, db, RowsOf
<1>8. ASSUME NEW p \in Procs, StartCommit(p) PROVE TodoInv'
  BY <1>8 DEF StartCommit, TakeExclusive, SetLock, Goto, local, RowsOf
<1>9. ASSUME NEW p \in Procs, WriteRow(p) PROVE TodoInv'
  <2>1. PICK row \in cache[p] : /\ disk' = disk \cup {row}
                                /\ cache' = [cache EXCEPT ![p] = @ \ {row}]
    BY <1>9 DEF WriteRow, WritePage
  <2>2. UNCHANGED <<pc, rec, todo, intx, lock>>
    BY <1>9 DEF WriteRow, WritePage, local
  <2>3. \A q \in Procs : RowsOf(q)' = RowsOf(q)
    BY <2>2 DEF RowsOf
  <2>4. pc[p] = "write"
    BY <1>9 DEF WriteRow
  <2>. QED  BY <2>1, <2>2, <2>3, <2>4
<1>10. ASSUME NEW p \in Procs, FinishCommit(p) PROVE TodoInv'
  <2>1. UNCHANGED <<disk, cache, rec, todo>>
    BY <1>10 DEF FinishCommit, UnlinkJournal
  <2>2. \A q \in Procs : RowsOf(q)' = RowsOf(q)
    BY <2>1 DEF RowsOf
  <2>3. \A q \in Procs : q # p =>
            pc'[q] = pc[q] /\ lock'[q] = lock[q] /\ intx'[q] = intx[q]
    BY <1>10 DEF FinishCommit, UnlinkJournal, SetLock, ExitFailure
  <2>4. pc'[p] \in {"close", "exit1"}
    BY <1>10 DEF FinishCommit, ExitFailure
  <2>5. ASSUME NEW q \in Procs PROVE TodoOK(q)'
    <3>1. TodoOK(q)
      OBVIOUS
    <3>2. CASE q = p
      BY <2>1, <2>2, <2>4, <3>1, <3>2
    <3>3. CASE q # p
      BY <2>1, <2>2, <2>3, <3>1, <3>3
    <3>. QED  BY <3>2, <3>3
  <2>. QED  BY <2>5
<1>11. ASSUME NEW p \in Procs, CommitFails(p) PROVE TodoInv'
  <2>1. \A q \in Procs : pc[q] = "write" => p = q
    BY <1>11, WriterAlone DEF CommitFails
  <2>2. /\ UNCHANGED <<rec, todo, intx>>
        /\ pc' = [pc EXCEPT ![p] = "exit1"]
        /\ lock' \in {lock, [lock EXCEPT ![p] = "none"]}
        /\ cache' \in {cache, [cache EXCEPT ![p] = {}]}
    BY <1>11 DEF CommitFails, Rollback, SetLock, ExitFailure, local, db
  <2>. QED  BY <2>1, <2>2 DEF RowsOf
<1>12. ASSUME NEW p \in Procs, Killed(p) \/ Exit(p) PROVE TodoInv'
  <2>1. /\ UNCHANGED <<rec, todo, intx, disk>>
        /\ lock' = [lock EXCEPT ![p] = "none"]
        /\ cache' = [cache EXCEPT ![p] = {}]
    BY <1>12 DEF Killed, Exit, Vanish, SetLock, local
  <2>2. pc' \in {[pc EXCEPT ![p] = "killed"], [pc EXCEPT ![p] = "done"],
                 [pc EXCEPT ![p] = "failed"]}
    BY <1>12 DEF Killed, Exit
  <2>. QED  BY <2>1, <2>2 DEF RowsOf
<1>13. ASSUME NEW p \in Procs, Close(p) PROVE TodoInv'
  BY <1>13 DEF Close, Goto, db, RowsOf
<1>14. ASSUME NEW p \in Procs, RmJournalFile(p) PROVE TodoInv'
  BY <1>14 DEF RmJournalFile, RowsOf
<1>. QED
  BY <1>0, <1>1, <1>2, <1>3, <1>4, <1>5, <1>6, <1>7, <1>8, <1>9, <1>10, <1>11, <1>12,
     <1>13, <1>14 DEF Next, Run

-------------------------------------------------------------------------------
(***************************************************************************)
(* Journals and rows of commands that have not started.                    *)
(***************************************************************************)
LEMMA RowsType ==
    ASSUME TypeOK, NEW p \in Procs
    PROVE  RowsOf(p) \subseteq {p} \X Groups
BY RecordShape, GroupsType DEF TypeOK, RowsOf

LEMMA StepJournal ==
    ASSUME Inv, [Next]_vars
    PROVE  JournalInv'
<1>. USE RecordAssumption DEF Inv, TypeOK, DbTypeOK, JournalInv, Others, Writing
<1>0. CASE UNCHANGED vars
  BY <1>0 DEF vars, local, db
<1>1. ASSUME NEW p \in Procs, Start(p) \/ Open(p) \/ Close(p) \/ AvailBusy(p)
                              \/ CommitBusy(p) \/ CallFails(p)
      PROVE JournalInv'
  BY <1>1 DEF Start, Open, Close, AvailBusy, CommitBusy, CallFails, Goto, ExitFailure,
              local, db
<1>2. ASSUME NEW p \in Procs, BeginTransaction(p) \/ EndTransaction(p) PROVE JournalInv'
  BY <1>2 DEF BeginTransaction, EndTransaction, Goto, HoldInv, local, db
<1>3. ASSUME NEW p \in Procs, Avail(p) \/ InsertBusy(p) PROVE JournalInv'
  BY <1>3 DEF Avail, InsertBusy, TakeShared, IsHot, SetLock, Goto, ExitFailure, HoldInv,
              local, db
<1>4. ASSUME NEW p \in Procs, RegisterCleanup(p) PROVE JournalInv'
  BY <1>4 DEF RegisterCleanup, DropShared, SetLock, Goto, HoldInv
<1>5. ASSUME NEW p \in Procs, InsertRow(p) PROVE JournalInv'
  <2>1. CASE lock[p] = "reserved"
    BY <1>5, <2>1 DEF InsertRow, NextInsert
  <2>2. CASE lock[p] # "reserved"
    <3>1. /\ journal' = p /\ UNCHANGED robbed
          /\ \A q \in Procs \ {p} : /\ pc'[q] = pc[q] /\ lock'[q] = lock[q]
                                    /\ lock[q] \notin Writing
      BY <1>5, <2>2 DEF InsertRow, FirstInsert, CanWrite, SetLock
    <3>. QED  BY <3>1 DEF HoldInv
  <2>. QED  BY <2>1, <2>2
<1>6. ASSUME NEW p \in Procs, StartCommit(p) \/ WriteRow(p) PROVE JournalInv'
  BY <1>6 DEF StartCommit, TakeExclusive, WriteRow, WritePage, SetLock, Goto, HoldInv, local
<1>7. ASSUME NEW p \in Procs, FinishCommit(p) PROVE JournalInv'
  BY <1>7 DEF FinishCommit, UnlinkJournal, SetLock, ExitFailure, LockInv
<1>8. ASSUME NEW p \in Procs, CommitFails(p) PROVE JournalInv'
  BY <1>8 DEF CommitFails, Rollback, SetLock, ExitFailure, LockInv, local, db
<1>9. ASSUME NEW p \in Procs, Killed(p) \/ Exit(p) PROVE JournalInv'
  BY <1>9 DEF Killed, Exit, Vanish, SetLock, local
<1>10. ASSUME NEW p \in Procs, RmJournalFile(p) PROVE JournalInv'
  BY <1>10 DEF RmJournalFile, Exits
<1>. QED
  BY <1>0, <1>1, <1>2, <1>3, <1>4, <1>5, <1>6, <1>7, <1>8, <1>9, <1>10 DEF Next, Run

LEMMA StepFresh ==
    ASSUME Inv, [Next]_vars
    PROVE  FreshInv'
<1>. USE DEF Inv, TypeOK, DbTypeOK, FreshInv
<1>0. CASE UNCHANGED vars
  BY <1>0 DEF vars, db
<1>1. ASSUME NEW p \in Procs, \A q \in Procs \ {p} : pc'[q] = pc[q], pc'[p] # "idle",
             /\ disk' \in {disk, RolledBack} \cup {image[q] : q \in Procs}
             /\ \A j \in Procs : image'[j] \in {image[j], disk'}
      PROVE FreshInv'
  <2> SUFFICES ASSUME NEW r \in Procs, pc'[r] = "idle"
               PROVE  /\ disk' \cap ({r} \X Groups) = {}
                      /\ \A j \in Procs : image'[j] \cap ({r} \X Groups) = {}
    OBVIOUS
  <2>1. pc[r] = "idle"
    BY <1>1
  <2>2. /\ disk \cap ({r} \X Groups) = {}
        /\ \A j \in Procs : image[j] \cap ({r} \X Groups) = {}
    BY <2>1
  <2>3. disk' = disk \/ \E j \in Procs : disk' = image[j]
    BY <1>1 DEF RolledBack, IsHot
  <2>. QED  BY <1>1, <2>2, <2>3
<1>2. ASSUME NEW p \in Procs, WriteRow(p) PROVE FreshInv'
  <2>1. PICK row \in cache[p] : disk' = disk \cup {row}
    BY <1>2 DEF WriteRow, WritePage
  <2>2. row \in {p} \X Groups /\ pc[p] = "write"
    BY <1>2, RowsType DEF TodoInv, TodoOK, WriteRow
  <2>. QED  BY <1>2, <2>1, <2>2 DEF WriteRow, WritePage
<1>3. ASSUME NEW p \in Procs,
             \/ Start(p) \/ Open(p) \/ Avail(p) \/ AvailBusy(p) \/ RegisterCleanup(p)
             \/ BeginTransaction(p) \/ InsertRow(p) \/ InsertBusy(p)
             \/ EndTransaction(p) \/ StartCommit(p) \/ CommitBusy(p) \/ FinishCommit(p)
             \/ Close(p) \/ RmJournalFile(p) \/ Exit(p) \/ CallFails(p)
             \/ CommitFails(p) \/ Killed(p)
      PROVE FreshInv'
  <2>1. (\A q \in Procs \ {p} : pc'[q] = pc[q]) /\ pc'[p] # "idle"
    BY <1>3 DEF Start, Open, Avail, AvailBusy, RegisterCleanup, BeginTransaction, InsertRow,
                InsertBusy, EndTransaction, StartCommit, CommitBusy, FinishCommit, Close,
                RmJournalFile, Exit, CallFails, CommitFails, Killed, Goto, ExitFailure, Exits
  <2>2. /\ disk' \in {disk, RolledBack} \cup {image[q] : q \in Procs}
        /\ \A j \in Procs : image'[j] \in {image[j], disk'}
    <3>1. CASE InsertRow(p)
      BY <3>1 DEF InsertRow, FirstInsert, NextInsert
    <3>2. CASE Avail(p) \/ InsertBusy(p) \/ RegisterCleanup(p)
      BY <3>2 DEF Avail, InsertBusy, TakeShared, RegisterCleanup, DropShared, db
    <3>3. CASE StartCommit(p) \/ FinishCommit(p) \/ CommitFails(p)
      BY <3>3 DEF StartCommit, TakeExclusive, FinishCommit, UnlinkJournal, CommitFails,
                  Rollback, db
    <3>4. CASE Killed(p) \/ Exit(p) \/ RmJournalFile(p)
      BY <3>4 DEF Killed, Exit, Vanish, RmJournalFile
    <3>5. CASE \/ Start(p) \/ Open(p) \/ AvailBusy(p) \/ BeginTransaction(p)
               \/ EndTransaction(p) \/ CommitBusy(p) \/ Close(p) \/ CallFails(p)
      BY <3>5 DEF Start, Open, AvailBusy, BeginTransaction, EndTransaction, CommitBusy,
                  Close, CallFails, db
    <3>. QED  BY <1>3, <3>1, <3>2, <3>3, <3>4, <3>5
  <2>. QED  BY <1>1, <2>1, <2>2
<1>. QED  BY <1>0, <1>2, <1>3 DEF Next, Run

-------------------------------------------------------------------------------
(***************************************************************************)
(* Records stay whole.  What a step of the library does to the record of   *)
(* any command: a record that is there stays, and one that is not does not *)
(* come, unless its journal is taken away.                                 *)
(***************************************************************************)
Kept(q) == /\ Full(q) => Full(q)'
           /\ Empty(q) => Empty(q)' \/ q \in robbed'

(* Steps that leave the files alone, or end a writer. *)
LEMMA KeptByOthers ==
    ASSUME UNCHANGED <<disk, image, journal, rec>>,
           \A j \in Procs : lock'[j] \in Writing => lock[j] \in Writing,
           NEW q \in Procs
    PROVE  Kept(q)
BY DEF Kept, Full, Empty, Active, RowsOf

(* A reader plays a hot journal back. *)
LEMMA KeptByReader ==
    ASSUME Inv, NEW p \in Procs, TakeShared(p), UNCHANGED rec, NEW q \in Procs
    PROVE  Kept(q)
<1>. USE RecordAssumption DEF Inv, TypeOK, DbTypeOK
<1>1. UNCHANGED image /\ RowsOf(q)' = RowsOf(q)
  BY DEF TakeShared, RowsOf
<1>2. \A j \in Procs : lock'[j] \in Writing => lock[j] \in Writing
  BY DEF TakeShared, SetLock, Writing
<1>3. CASE IsHot
  <2>1. disk' = image[journal] /\ journal' = NoJournal /\ journal \in Procs
    BY <1>3 DEF TakeShared, RolledBack, IsHot
  <2>2. \A j \in Procs : Active(j)' => Active(j)
    BY <1>2, <2>1 DEF Active
  <2>3. Active(journal)
    BY <2>1 DEF Active
  <2>. QED  BY <1>1, <2>1, <2>2, <2>3 DEF Kept, Full, Empty
<1>4. CASE ~IsHot
  <2>1. disk' = disk /\ journal' = journal
    BY <1>4 DEF TakeShared, RolledBack
  <2>. QED  BY <1>1, <1>2, <2>1 DEF Kept, Full, Empty, Active
<1>. QED  BY <1>3, <1>4

(* A writer plays a hot journal back and opens one of its own. *)
LEMMA KeptByFirstInsert ==
    ASSUME Inv, NEW p \in Procs, NEW row, FirstInsert(p, row), lock[p] = "none",
           UNCHANGED rec, NEW q \in Procs
    PROVE  Kept(q)
<1>. USE RecordAssumption DEF Inv, TypeOK, DbTypeOK
<1>1. /\ RowsOf(q)' = RowsOf(q) /\ journal' = p /\ disk' = RolledBack
      /\ image' = [image EXCEPT ![p] = disk']
      /\ lock' = [lock EXCEPT ![p] = "reserved"]
  BY DEF FirstInsert, SetLock, RowsOf
<1>2. \A j \in Procs : lock[j] \notin Writing
  BY DEF FirstInsert, CanWrite, Others, Writing
<1>3. \A j \in Procs : Active(j)' => j = p
  BY <1>1, <1>2 DEF Active, Writing
<1>4. /\ journal = NoJournal => disk' = disk
      /\ journal # NoJournal => journal \in Procs /\ Active(journal) /\ disk' = image[journal]
  BY <1>1, <1>2 DEF RolledBack, IsHot, Active
<1>5. image'[p] = disk'
  BY <1>1
<1>6. Full(q) => RowsOf(q) \subseteq disk'
  BY <1>4 DEF Full
<1>7. Empty(q) => RowsOf(q) \cap disk' = {}
  BY <1>4 DEF Empty
<1>. QED  BY <1>1, <1>3, <1>5, <1>6, <1>7 DEF Kept, Full, Empty

(* A writer puts its own rows into the file. *)
LEMMA KeptByWrite ==
    ASSUME Inv, NEW p \in Procs, WriteRow(p), NEW q \in Procs
    PROVE  Kept(q)
<1>. USE DEF Inv, TypeOK, DbTypeOK
<1>1. PICK row \in cache[p] : disk' = disk \cup {row}
  BY DEF WriteRow, WritePage
<1>2. /\ UNCHANGED <<image, journal, lock>> /\ UNCHANGED rec /\ UNCHANGED robbed
      /\ pc[p] = "write" /\ lock[p] = "exclusive"
  BY DEF WriteRow, WritePage, local
<1>3. RowsOf(q)' = RowsOf(q) /\ \A j \in Procs : Active(j)' <=> Active(j)
  BY <1>2 DEF RowsOf, Active
<1>4. CASE q = p
  BY <1>1, <1>2, <1>3, <1>4 DEF Kept, Full, Empty, JournalInv
<1>5. CASE q # p
  <2>1. row \in {p} \X Groups
    BY RowsType DEF TodoInv, TodoOK
  <2>2. row \notin RowsOf(q)
    BY <1>5, <2>1, RowsType
  <2>. QED  BY <1>1, <1>2, <1>3, <2>2 DEF Kept, Full, Empty
<1>. QED  BY <1>4, <1>5

(* A commit unlinks the journal, a failed one is rolled back: of another
   command's record nothing changes. *)
LEMMA KeptByCommit ==
    ASSUME Inv, NEW p \in Procs, lock[p] = "exclusive", UnlinkJournal(p), UNCHANGED rec,
           NEW q \in Procs, q # p
    PROVE  Kept(q)
<1>. USE DEF Inv, TypeOK, DbTypeOK
<1>1. /\ UNCHANGED <<disk, image>> /\ journal' = NoJournal
      /\ RowsOf(q)' = RowsOf(q) /\ journal # q
  BY RecordAssumption DEF UnlinkJournal, RowsOf, LockInv, Writing, Others
<1>2. \A j \in Procs : ~Active(j)'
  BY <1>1, RecordAssumption DEF UnlinkJournal, SetLock, Active, Writing, LockInv, Others
<1>. QED  BY <1>1, <1>2 DEF Kept, Full, Empty

LEMMA KeptByRollback ==
    ASSUME Inv, NEW p \in Procs, Rollback(p), UNCHANGED rec, NEW q \in Procs
    PROVE  Kept(q)
<1>. USE DEF Inv, TypeOK, DbTypeOK
<1>1. /\ disk' = image[p] /\ journal' = NoJournal
      /\ RowsOf(q)' = RowsOf(q) /\ Active(p)
  BY DEF Rollback, RowsOf, Active, Writing
<1>2. \A j \in Procs : ~Active(j)'
  BY <1>1, RecordAssumption DEF Rollback, SetLock, Active, Writing, LockInv, Others
<1>. QED  BY <1>1, <1>2 DEF Kept, Full, Empty

(* The cleanup handler. *)
LEMMA KeptByCleanup ==
    ASSUME Inv, NEW p \in Procs, RmJournalFile(p), NEW q \in Procs
    PROVE  Kept(q)
<1>. USE DEF Inv, TypeOK, DbTypeOK
<1>1. /\ UNCHANGED <<disk, image, lock>> /\ journal' = NoJournal
      /\ RowsOf(q)' = RowsOf(q)
      /\ robbed \subseteq robbed'
  BY DEF RmJournalFile, RowsOf
<1>2. \A j \in Procs : Active(j)' => Active(j)
  BY <1>1, RecordAssumption DEF Active
<1>3. journal = q => q \in robbed' \/ disk = image[q]
  <2>1. SUFFICES ASSUME journal = q, disk # image[q] PROVE q \in robbed'
    OBVIOUS
  <2>2. journal # NoJournal /\ disk # image[journal]
    BY <2>1, RecordAssumption
  <2>3. robbed' = robbed \cup {journal}
    BY <2>2 DEF RmJournalFile
  <2>. QED  BY <2>1, <2>3
<1>. QED  BY <1>1, <1>2, <1>3 DEF Kept, Full, Empty, Active

(* A step keeps the invariant of a command whose place it does not change, or
   changes without commit. *)
LEMMA RecordKept ==
    ASSUME NEW q \in Procs, RecordOK(q), Kept(q), robbed \subseteq robbed',
           \/ pc'[q] = pc[q]
           \/ pc[q] \in Committed /\ pc'[q] \in Committed \cup {"killed"}
           \/ pc[q] \notin Committed \cup {"killed"} /\ pc'[q] \notin Committed
    PROVE  RecordOK(q)'
BY DEF RecordOK, Kept, Committed

LEMMA StepRecord ==
    ASSUME Inv, [Next]_vars
    PROVE  RecordInv'
<1>. USE DEF Inv, TypeOK, DbTypeOK, RecordInv
<1>0. CASE UNCHANGED vars
  <2>1. \A q \in Procs : Kept(q)
    BY <1>0, KeptByOthers DEF vars, local, db
  <2>. QED  BY <1>0, <2>1, RecordKept DEF vars, local
<1>1. ASSUME NEW p \in Procs, Start(p) PROVE RecordInv'
  <2>1. /\ UNCHANGED <<disk, journal, image, lock, robbed>>
        /\ \A q \in Procs : q # p => pc'[q] = pc[q] /\ rec'[q] = rec[q]
        /\ pc[p] = "idle" /\ pc'[p] = "open"
    BY <1>1 DEF Start, Goto, db
  <2>2. ASSUME NEW q \in Procs, q # p PROVE RecordOK(q)'
    <3>1. RowsOf(q)' = RowsOf(q)
      BY <2>1, <2>2 DEF RowsOf
    <3>2. Kept(q)
      BY <2>1, <3>1 DEF Kept, Full, Empty, Active
    <3>. QED  BY <2>1, <2>2, <3>2, RecordKept
  <2>3. RecordOK(p)'
    <3>1. TypeOK'
      BY StepType
    <3>2. RowsOf(p)' \subseteq {p} \X Groups
      <4>1. rec'[p] \in Records \cup {<<"account">>}
        BY <3>1
      <4>. QED  BY <4>1, RecordShape, GroupsType DEF RowsOf
    <3>3. Empty(p)'
      BY <2>1, <3>2 DEF Empty, FreshInv
    <3>. QED  BY <2>1, <3>3 DEF RecordOK, Committed
  <2>. QED  BY <2>2, <2>3
<1>2. ASSUME NEW p \in Procs, \A q \in Procs : Kept(q), robbed \subseteq robbed',
             \A q \in Procs \ {p} : pc'[q] = pc[q],
             \/ pc'[p] = pc[p]
             \/ pc[p] \in Committed /\ pc'[p] \in Committed \cup {"killed"}
             \/ pc[p] \notin Committed \cup {"killed"} /\ pc'[p] \notin Committed
      PROVE RecordInv'
  BY <1>2, RecordKept
<1>3. ASSUME NEW p \in Procs,
             \/ Open(p) \/ BeginTransaction(p) \/ EndTransaction(p) \/ Close(p)
             \/ AvailBusy(p) \/ CommitBusy(p) \/ CallFails(p)
      PROVE RecordInv'
  <2>1. UNCHANGED <<db, rec, robbed>>
    BY <1>3 DEF Open, BeginTransaction, EndTransaction, Close, AvailBusy, CommitBusy,
                CallFails, local
  <2>2. \A q \in Procs : Kept(q)
    BY <2>1, KeptByOthers DEF db
  <2>3. \A q \in Procs \ {p} : pc'[q] = pc[q]
    BY <1>3 DEF Open, BeginTransaction, EndTransaction, Close, AvailBusy, CommitBusy,
                CallFails, Goto, ExitFailure
  <2>4. \/ pc[p] \in Committed /\ pc'[p] \in Committed
        \/ pc[p] \notin Committed \cup {"killed"} /\ pc'[p] \notin Committed
    BY <1>3 DEF Open, BeginTransaction, EndTransaction, Close, AvailBusy, CommitBusy,
                CallFails, Goto, ExitFailure, Committed, Working
  <2>. QED  BY <1>2, <2>1, <2>2, <2>3, <2>4
<1>4. ASSUME NEW p \in Procs, Avail(p) \/ InsertBusy(p) PROVE RecordInv'
  <2>1. \A q \in Procs : Kept(q)
    BY <1>4, KeptByReader, KeptByOthers DEF Avail, InsertBusy, local, db
  <2>. QED  BY <1>2, <1>4, <2>1 DEF Avail, InsertBusy, Goto, ExitFailure, Committed, local
<1>5. ASSUME NEW p \in Procs, RegisterCleanup(p) \/ StartCommit(p) PROVE RecordInv'
  <2>1. /\ UNCHANGED <<disk, image, journal, rec, robbed>>
        /\ lock' = [lock EXCEPT ![p] = "none"] \/ (lock' = [lock EXCEPT ![p] = "exclusive"]
                                                   /\ lock[p] = "reserved")
    BY <1>5 DEF RegisterCleanup, DropShared, StartCommit, TakeExclusive, SetLock, Goto,
                HoldInv, local
  <2>2. \A j \in Procs : lock'[j] \in Writing => lock[j] \in Writing
    BY <2>1 DEF Writing
  <2>3. \A q \in Procs : Kept(q)
    BY <2>1, <2>2, KeptByOthers
  <2>. QED  BY <1>2, <1>5, <2>1, <2>3 DEF RegisterCleanup, StartCommit, Goto, Committed
<1>6. ASSUME NEW p \in Procs, InsertRow(p) PROVE RecordInv'
  <2>1. UNCHANGED <<rec, robbed>> /\ pc[p] = "insert"
    BY <1>6 DEF InsertRow
  <2>2. CASE lock[p] = "reserved"
    <3>1. \A q \in Procs : Kept(q)
      BY <1>6, <2>1, <2>2, KeptByOthers DEF InsertRow, NextInsert
    <3>. QED  BY <1>2, <1>6, <2>1, <3>1 DEF InsertRow, Committed
  <2>3. CASE lock[p] # "reserved"
    <3>1. lock[p] = "none" /\ FirstInsert(p, <<p, Head(todo[p])>>)
      BY <1>6, <2>1, <2>3 DEF InsertRow, HoldInv
    <3>2. \A q \in Procs : Kept(q)
      BY <2>1, <3>1, KeptByFirstInsert
    <3>. QED  BY <1>2, <1>6, <2>1, <3>2 DEF InsertRow, Committed
  <2>. QED  BY <2>2, <2>3
<1>7. ASSUME NEW p \in Procs, WriteRow(p) PROVE RecordInv'
  <2>1. \A q \in Procs : Kept(q)
    BY <1>7, KeptByWrite
  <2>. QED  BY <1>2, <1>7, <2>1 DEF WriteRow, local
<1>8. ASSUME NEW p \in Procs, FinishCommit(p) PROVE RecordInv'
  <2>1. /\ UnlinkJournal(p) /\ UNCHANGED <<rec, robbed>>
        /\ pc[p] = "write" /\ lock[p] = "exclusive" /\ todo[p] = <<>>
    BY <1>8 DEF FinishCommit, HoldInv, TodoInv, TodoOK
  <2>2. ASSUME NEW q \in Procs, q # p PROVE RecordOK(q)'
    <3>1. Kept(q)
      BY <2>1, <2>2, KeptByCommit
    <3>2. pc'[q] = pc[q]
      BY <1>8, <2>2 DEF FinishCommit, ExitFailure
    <3>. QED  BY <2>1, <3>1, <3>2, RecordKept
  <2>3. CASE pc'[p] = "close"
    <3>1. RowsOf(p) \subseteq disk
      BY <2>1 DEF TodoInv, TodoOK, UnlinkJournal
    <3>2. \A j \in Procs : ~Active(j)'
      BY <2>1, RecordAssumption DEF UnlinkJournal, SetLock, Active, Writing, LockInv, Others
    <3>3. Full(p)'
      BY <2>1, <3>1, <3>2 DEF Full, RowsOf, UnlinkJournal
    <3>. QED  BY <2>2, <2>3, <3>3 DEF RecordOK, Committed
  <2>4. CASE pc'[p] = "exit1"
    <3>1. journal = NoJournal
      BY <1>8, <2>1, <2>4 DEF FinishCommit, ExitFailure
    <3>2. p \in robbed
      BY <2>1, <3>1, RecordAssumption DEF JournalInv
    <3>. QED  BY <2>1, <2>2, <2>4, <3>2 DEF RecordOK, Committed
  <2>5. pc'[p] \in {"close", "exit1"}
    BY <1>8, <2>1 DEF FinishCommit, ExitFailure
  <2>. QED  BY <2>3, <2>4, <2>5
<1>9. ASSUME NEW p \in Procs, CommitFails(p) PROVE RecordInv'
  <2>1. \A q \in Procs : Kept(q)
    BY <1>9, KeptByRollback, KeptByOthers DEF CommitFails, local, db
  <2>. QED  BY <1>2, <1>9, <2>1 DEF CommitFails, ExitFailure, Committed, local
<1>10. ASSUME NEW p \in Procs, Killed(p) \/ Exit(p) PROVE RecordInv'
  <2>1. /\ UNCHANGED <<disk, image, journal, rec, robbed>>
        /\ lock' = [lock EXCEPT ![p] = "none"]
    BY <1>10 DEF Killed, Exit, Vanish, SetLock, local
  <2>2. \A q \in Procs : Kept(q)
    BY <2>1, KeptByOthers DEF Writing
  <2>3. \A q \in Procs \ {p} : pc'[q] = pc[q]
    BY <1>10 DEF Killed, Exit
  <2>4. \/ pc[p] \in Committed /\ pc'[p] \in Committed \cup {"killed"}
        \/ pc[p] \notin Committed \cup {"killed"} /\ pc'[p] \notin Committed
    BY <1>10 DEF Killed, Exit, Committed, Exits, Running, Working
  <2>. QED  BY <1>2, <2>1, <2>2, <2>3, <2>4
<1>11. ASSUME NEW p \in Procs, RmJournalFile(p) PROVE RecordInv'
  <2>1. \A q \in Procs : Kept(q)
    BY <1>11, KeptByCleanup
  <2>. QED  BY <1>2, <1>11, <2>1 DEF RmJournalFile
<1>. QED
  BY <1>0, <1>1, <1>3, <1>4, <1>5, <1>6, <1>7, <1>8, <1>9, <1>10, <1>11 DEF Next, Run

-------------------------------------------------------------------------------
(***************************************************************************)
(* The theorems.                                                           *)
(***************************************************************************)
LEMMA InvAlways == Spec => []Inv
<1>1. Inv /\ [Next]_vars => Inv'
  BY StepType, StepLock, StepTodo, StepJournal, StepRecord, StepFresh DEF Inv
<1>. QED  BY InitInv, <1>1, PTL DEF Spec

(* What a reader finds of a record that is full or empty. *)
LEMMA Recovery ==
    ASSUME Inv, NEW p \in Procs
    PROVE  /\ Full(p) => RowsOf(p) \subseteq Recovered
           /\ Empty(p) => RowsOf(p) \cap Recovered = {}
BY RecordAssumption DEF Inv, TypeOK, DbTypeOK, Full, Empty, Active, Recovered

(* A record in the database is whole, or the handler of a failing command
   took its journal away: for any number of commands, whatever fails. *)
THEOREM TornOnlyByCleanup == Spec => []TornOnlyIfRobbed
<1>1. Inv => TornOnlyIfRobbed
  BY Recovery DEF Inv, RecordInv, RecordOK, TornOnlyIfRobbed, Whole
<1>. QED  BY <1>1, InvAlways, PTL

(* A record that a command reported stays in the database, also when other
   commands fail, are killed or remove each other's journals. *)
THEOREM ReportedIsDurable == Spec => []ReportedStays
<1>1. Inv => ReportedStays
  BY Recovery DEF Inv, RecordInv, RecordOK, Committed, ReportedStays
<1>. QED  BY <1>1, InvAlways, PTL

(* A command that reports a failure leaves nothing of its record, unless its
   journal was taken away. *)
THEOREM FailureIsClean == Spec => []FailureStoresNothing
<1>1. Inv => FailureStoresNothing
  BY Recovery DEF Inv, RecordInv, RecordOK, Committed, FailureStoresNothing
<1>. QED  BY <1>1, InvAlways, PTL

-------------------------------------------------------------------------------
(***************************************************************************)
(* The cleanup chain.                                                      *)
(***************************************************************************)

(* rm_journal_file() is on the chain from its registration to the close. *)
ChainInv ==
    \A p \in Procs :
        /\ pc[p] \in {"idle", "open", "avail", "push", "exit0"} => chain[p] = <<>>
        /\ pc[p] \in {"begin", "insert", "commit", "write", "close"} =>
              chain[p] = <<"rm_journal_file">>

(* What pushing and popping do to the two chains. *)
LEMMA ChainSteps ==
    /\ Push(<<>>, "rm_journal_file") = <<"rm_journal_file">>
    /\ Pop(<<"rm_journal_file">>) = <<>>
BY DEF Push, Pop

(* A handler that runs leaves the chain. *)
LEMMA TailDiffers ==
    ASSUME NEW S, NEW c \in Seq(S), c # <<>>
    PROVE  Tail(c) # c
<1>. DEFINE k == Len(c)  l == Len(Tail(c))
<1>1. l = k - 1 /\ k \in Nat
  OBVIOUS
<1>2. Tail(c) = c => l = k
  BY Zenon
<1>. HIDE DEF k, l
<1>3. l # k
  BY <1>1
<1>. QED  BY <1>2, <1>3, Zenon

LEMMA StepChain ==
    ASSUME TypeOK, ChainInv, [Next]_vars
    PROVE  ChainInv'
<1>. USE DEF TypeOK, ChainInv
<1>0. CASE UNCHANGED vars
  BY <1>0 DEF vars, local
<1>1. ASSUME NEW p \in Procs, RegisterCleanup(p) PROVE ChainInv'
  <2>1. Push(chain[p], "rm_journal_file") = <<"rm_journal_file">>
    <3>1. chain[p] = <<>>
      BY <1>1 DEF RegisterCleanup, Goto
    <3>. QED  BY ONLY <3>1, ChainSteps
  <2>. QED  BY <1>1, <2>1 DEF RegisterCleanup, Goto
<1>2. ASSUME NEW p \in Procs, Close(p) PROVE ChainInv'
  <2>1. Pop(chain[p]) = <<>>
    <3>1. chain[p] = <<"rm_journal_file">>
      BY <1>2 DEF Close, Goto
    <3>. QED  BY ONLY <3>1, ChainSteps
  <2>. QED  BY <1>2, <2>1 DEF Close, Goto
<1>3. ASSUME NEW p \in Procs, RmJournalFile(p) PROVE ChainInv'
  <2>1. pc[p] = "exit1"
    BY <1>3 DEF RmJournalFile, Exits
  <2>. QED  BY <1>3, <2>1 DEF RmJournalFile
<1>4. ASSUME NEW p \in Procs,
             \/ Start(p) \/ Open(p) \/ Avail(p) \/ AvailBusy(p) \/ BeginTransaction(p)
             \/ InsertRow(p) \/ InsertBusy(p) \/ EndTransaction(p) \/ StartCommit(p)
             \/ CommitBusy(p) \/ WriteRow(p)
      PROVE ChainInv'
  BY <1>4 DEF Start, Open, Avail, AvailBusy, BeginTransaction, InsertRow, InsertBusy,
              EndTransaction, StartCommit, CommitBusy, WriteRow, Goto, ExitFailure, local
<1>5. ASSUME NEW p \in Procs,
             FinishCommit(p) \/ Exit(p) \/ CallFails(p) \/ CommitFails(p) \/ Killed(p)
      PROVE ChainInv'
  BY <1>5 DEF FinishCommit, Exit, CallFails, CommitFails, Killed, ExitFailure, local
<1>. QED  BY <1>0, <1>1, <1>2, <1>3, <1>4, <1>5 DEF Next, Run

(* No command that succeeds removes a journal. *)
THEOREM SuccessRobsNobody == Spec => OnlyFailuresRob
<1>. DEFINE ByFailure ==
        robbed' # robbed => \E p \in Procs : pc[p] = "exit1" /\ chain'[p] # chain[p]
<1>1. Init => ChainInv
  BY DEF Init, ChainInv
<1>2. ASSUME TypeOK, ChainInv, [Next]_vars PROVE [ByFailure]_vars
  <2>1. ASSUME NEW p \in Procs, RmJournalFile(p) PROVE ByFailure
    <3>1. pc[p] = "exit1" /\ chain[p] \in Seq({"rm_journal_file"}) /\ chain[p] # <<>>
      BY <1>2, <2>1 DEF TypeOK, ChainInv, RmJournalFile, Exits
    <3>2. chain'[p] = Tail(chain[p])
      BY <1>2, <2>1, <3>1 DEF TypeOK, RmJournalFile, Pop
    <3>3. Tail(chain[p]) # chain[p]
      BY ONLY <3>1, TailDiffers
    <3>. QED  BY <3>1, <3>2, <3>3
  <2>2. CASE UNCHANGED robbed
    BY <2>2
  <2>3. (\E p \in Procs : RmJournalFile(p)) \/ UNCHANGED robbed
    BY <1>2 DEF Next, Run, vars, local, Start, Open, Avail, AvailBusy, RegisterCleanup,
                BeginTransaction, InsertRow, InsertBusy, EndTransaction, StartCommit,
                CommitBusy, WriteRow, FinishCommit, Close, Exit, CallFails, CommitFails,
                Killed
  <2>. QED  BY <2>1, <2>2, <2>3
<1>. QED
  BY <1>1, <1>2, InitType, StepType, StepChain, PTL DEF Spec, OnlyFailuresRob
-------------------------------------------------------------------------------
(***************************************************************************)
(* Creates that run one after the other implement CredStore: for any       *)
(* number of them, whatever fails and wherever one is killed.              *)
(***************************************************************************)

(* From the registration of its handler on, a command answers for the
   journal. *)
Guarded(p) == \/ pc[p] \in {"push", "begin", "insert", "commit", "write", "close"}
              \/ pc[p] \in Exits /\ chain[p] # <<>>

(* No journal but its own is at the path.  The file is what that journal
   restores, with rows of the command only while it writes them. *)
GuardOK(p) == Guarded(p) =>
    /\ journal \in {p, NoJournal}
    /\ journal = p /\ pc[p] # "write" => disk = image[p]
    /\ pc[p] = "write" => image[p] \subseteq disk /\ disk \subseteq image[p] \cup RowsOf(p)

(* One command at a time runs, and the others hold no lock. *)
AloneInv ==
    /\ \A p, q \in Procs : pc[p] \in Running /\ pc[q] \in Running => p = q
    /\ \A p \in Procs : pc[p] \in {"idle"} \cup Ended => lock[p] = "none"

SerialInv == AloneInv /\ robbed = {} /\ \A p \in Procs : GuardOK(p)

FullInv == Inv /\ ChainInv /\ SerialInv

LEMMA InitSerial == Init => SerialInv
BY DEF Init, DbInit, SerialInv, AloneInv, GuardOK, Guarded, Running, Working, Exits

(* Beside a running command nobody holds a lock: it always can read and
   write, and what is at the journal path is hot unless it is its own. *)
LEMMA Alone ==
    ASSUME FullInv, NEW p \in Procs, pc[p] \in Running
    PROVE  /\ \A q \in Procs : q # p => /\ lock[q] = "none"
                                        /\ pc[q] \notin Running
                                        /\ ~Guarded(q)
           /\ CanRead(p) /\ CanWrite(p)
           /\ IsHot <=> journal # NoJournal /\ lock[p] \notin Writing
<1>1. ASSUME NEW q \in Procs, q # p
      PROVE  lock[q] = "none" /\ pc[q] \notin Running /\ ~Guarded(q)
  <2>1. pc[q] \notin Running
    BY <1>1 DEF FullInv, SerialInv, AloneInv
  <2>2. pc[q] \in {"idle"} \cup Ended
    BY <2>1 DEF FullInv, Inv, TypeOK
  <2>. QED  BY <2>1, <2>2 DEF FullInv, SerialInv, AloneInv, Guarded, Running, Working
<1>2. CanRead(p) /\ CanWrite(p)
  BY <1>1 DEF CanRead, CanWrite, Others, Writing
<1>. QED  BY <1>1, <1>2 DEF IsHot, Writing

(* So the steps that meet another command's lock do not occur. *)
LEMMA NeverBusy ==
    ASSUME FullInv, NEW p \in Procs
    PROVE  ~AvailBusy(p) /\ ~InsertBusy(p) /\ ~CommitBusy(p)
BY Alone DEF AvailBusy, InsertBusy, CommitBusy, Others, Running, Working

-------------------------------------------------------------------------------
(***************************************************************************)
(* What a step of a running command does.                                  *)
(***************************************************************************)

(* It keeps SerialInv if it keeps the command's own part of it. *)
LEMMA SerialByOwn ==
    ASSUME FullInv, NEW p \in Procs, pc[p] \in Running,
           \A q \in Procs : q # p => /\ pc'[q] = pc[q] /\ chain'[q] = chain[q]
                                     /\ lock'[q] = lock[q],
           pc'[p] \in Running \/ (pc'[p] \in Ended /\ lock'[p] = "none"),
           robbed' = {}, GuardOK(p)'
    PROVE  SerialInv'
<1>1. ASSUME NEW q \in Procs, q # p
      PROVE  pc'[q] \notin Running /\ lock'[q] = "none" /\ ~Guarded(q)'
  BY <1>1, Alone DEF Guarded
<1>2. AloneInv'
  BY <1>1 DEF AloneInv, Running, Working, Exits, Ended
<1>. QED  BY <1>1, <1>2 DEF SerialInv, GuardOK

(* Steps that leave files and locks alone. *)
LEMMA SerialByPc ==
    ASSUME FullInv, NEW p \in Procs,
           \/ Open(p) \/ BeginTransaction(p) \/ EndTransaction(p) \/ Close(p)
           \/ CallFails(p)
    PROVE  SerialInv'
<1>. USE DEF FullInv, Inv, TypeOK, ChainInv, SerialInv
<1>1. /\ pc[p] \in Running /\ pc'[p] \in Running
      /\ UNCHANGED <<db, rec, robbed>>
      /\ \A q \in Procs : q # p => pc'[q] = pc[q] /\ chain'[q] = chain[q]
  BY DEF Open, BeginTransaction, EndTransaction, Close, CallFails, Goto, ExitFailure,
         local, Running, Working, Exits
<1>2. CASE Close(p)
  <2>1. pc'[p] = "exit0" /\ chain'[p] = Pop(chain[p]) /\ chain[p] = <<"rm_journal_file">>
    BY <1>2 DEF Close, Goto
  <2>2. chain'[p] = <<>>
    BY <2>1, ChainSteps
  <2>3. GuardOK(p)'
    BY <2>1, <2>2 DEF GuardOK, Guarded
  <2>. QED  BY <1>1, <2>3, SerialByOwn DEF db
<1>3. CASE Open(p) \/ BeginTransaction(p) \/ EndTransaction(p) \/ CallFails(p)
  <2>1. chain' = chain /\ RowsOf(p)' = RowsOf(p)
    BY <1>1, <1>3 DEF Open, BeginTransaction, EndTransaction, CallFails, local, RowsOf
  <2>2. (Guarded(p)' => Guarded(p)) /\ pc[p] # "write" /\ pc'[p] # "write"
    BY <1>3, <2>1 DEF Open, BeginTransaction, EndTransaction, CallFails, Goto,
                      ExitFailure, Guarded, Working, Exits
  <2>3. GuardOK(p)'
    BY <1>1, <2>1, <2>2 DEF GuardOK, db
  <2>. QED  BY <1>1, <2>1, <2>3, SerialByOwn DEF db
<1>. QED  BY <1>2, <1>3

(* Steps that read, insert and start the commit. *)
LEMMA SerialByInsert ==
    ASSUME FullInv, NEW p \in Procs,
           Avail(p) \/ RegisterCleanup(p) \/ InsertRow(p) \/ StartCommit(p)
    PROVE  SerialInv'
<1>. USE DEF FullInv, Inv, TypeOK, DbTypeOK, SerialInv
<1>1. /\ pc[p] \in Running /\ pc'[p] \in Running
      /\ UNCHANGED <<rec, robbed>>
      /\ \A q \in Procs : q # p => pc'[q] = pc[q] /\ chain'[q] = chain[q]
                                   /\ lock'[q] = lock[q]
  BY DEF Avail, RegisterCleanup, InsertRow, StartCommit, TakeShared, DropShared,
         FirstInsert, NextInsert, TakeExclusive, SetLock, Goto, local, Running, Working
<1>2. CASE Avail(p)
  <2>1. lock[p] = "none" /\ pc'[p] = "push"
    BY <1>2 DEF Avail, Goto, HoldInv
  <2>2. journal' = NoJournal
    BY <1>1, <1>2, <2>1, Alone DEF Avail, TakeShared, Writing
  <2>. QED  BY <1>1, <2>1, <2>2, RecordAssumption, SerialByOwn DEF GuardOK
<1>3. CASE RegisterCleanup(p)
  <2>1. UNCHANGED <<disk, image, journal>> /\ pc[p] = "push" /\ pc'[p] = "begin"
    BY <1>3 DEF RegisterCleanup, DropShared, Goto
  <2>. QED  BY <1>1, <2>1, SerialByOwn DEF GuardOK, Guarded
<1>4. CASE InsertRow(p)
  <2>1. pc[p] = "insert" /\ pc'[p] \in {"insert", "commit"}
    BY <1>4 DEF InsertRow
  <2>2. CASE lock[p] = "reserved"
    <3>1. UNCHANGED <<disk, image, journal>>
      BY <1>4, <2>2 DEF InsertRow, NextInsert
    <3>. QED  BY <1>1, <2>1, <3>1, SerialByOwn DEF GuardOK, Guarded
  <2>3. CASE lock[p] # "reserved"
    <3>1. journal' = p /\ image'[p] = disk'
      BY <1>4, <2>3 DEF InsertRow, FirstInsert
    <3>. QED  BY <1>1, <2>1, <3>1, SerialByOwn DEF GuardOK
  <2>. QED  BY <2>2, <2>3
<1>5. CASE StartCommit(p)
  <2>1. UNCHANGED <<disk, image, journal>> /\ pc[p] = "commit" /\ pc'[p] = "write"
    BY <1>5 DEF StartCommit, TakeExclusive, Goto
  <2>2. journal = p
    BY <2>1 DEF HoldInv, JournalInv
  <2>3. disk = image[p]
    BY <2>1, <2>2 DEF GuardOK, Guarded
  <2>. QED  BY <1>1, <2>1, <2>2, <2>3, SerialByOwn DEF GuardOK
<1>. QED  BY <1>2, <1>3, <1>4, <1>5

(* Where the pages are written, the journal is the command's own. *)
LEMMA OwnJournal ==
    ASSUME FullInv, NEW p \in Procs, pc[p] = "write"
    PROVE  /\ journal = p /\ lock[p] = "exclusive" /\ todo[p] = <<>>
           /\ image[p] \subseteq disk /\ disk \subseteq image[p] \cup RowsOf(p)
BY DEF FullInv, Inv, SerialInv, HoldInv, JournalInv, TodoInv, TodoOK, GuardOK, Guarded

(* Steps that write the pages and end the commit. *)
LEMMA SerialByCommit ==
    ASSUME FullInv, ~RollbackFails, NEW p \in Procs,
           WriteRow(p) \/ FinishCommit(p) \/ CommitFails(p)
    PROVE  SerialInv'
<1>. USE DEF FullInv, Inv, TypeOK, DbTypeOK, SerialInv
<1>1. pc[p] = "write" /\ pc[p] \in Running
  BY DEF WriteRow, FinishCommit, CommitFails, Running, Working
<1>2. UNCHANGED <<rec, chain, robbed>>
  BY DEF WriteRow, FinishCommit, CommitFails, local
<1>3. CASE WriteRow(p)
  <2>1. PICK row \in cache[p] : disk' = disk \cup {row}
    BY <1>3 DEF WriteRow, WritePage
  <2>2. row \in RowsOf(p) /\ RowsOf(p)' = RowsOf(p)
    BY <1>2, <2>1 DEF TodoInv, TodoOK, RowsOf
  <2>3. UNCHANGED <<pc, image, journal, lock>>
    BY <1>3 DEF WriteRow, WritePage
  <2>4. GuardOK(p)'
    BY <1>1, <2>1, <2>2, <2>3, OwnJournal DEF GuardOK
  <2>. QED  BY <1>1, <1>2, <2>3, <2>4, SerialByOwn
<1>4. CASE FinishCommit(p)
  <2>1. journal # NoJournal
    BY <1>1, OwnJournal, RecordAssumption
  <2>2. /\ journal' = NoJournal /\ lock' = [lock EXCEPT ![p] = "none"]
        /\ pc' = [pc EXCEPT ![p] = IF todo[p] = <<>> THEN "close" ELSE "insert"]
    BY <1>4, <2>1 DEF FinishCommit, UnlinkJournal, SetLock
  <2>3. pc'[p] = "close"
    BY <1>1, <2>2, OwnJournal
  <2>4. GuardOK(p)'
    BY <2>2, <2>3, RecordAssumption DEF GuardOK
  <2>5. pc'[p] \in Running
    BY <2>3 DEF Running, Working
  <2>. QED  BY <1>1, <1>2, <2>2, <2>4, <2>5, SerialByOwn
<1>5. CASE CommitFails(p)
  <2>1. /\ journal' = NoJournal /\ lock' = [lock EXCEPT ![p] = "none"]
        /\ pc' = [pc EXCEPT ![p] = "exit1"]
    BY <1>5 DEF CommitFails, ExitFailure, Rollback, SetLock
  <2>2. GuardOK(p)'
    BY <2>1, RecordAssumption DEF GuardOK
  <2>3. pc'[p] \in Running
    BY <2>1 DEF Running, Exits
  <2>. QED  BY <1>1, <1>2, <2>1, <2>2, <2>3, SerialByOwn
<1>. QED  BY <1>3, <1>4, <1>5

(* Ends, and the handler that exit() runs. *)
LEMMA SerialByEnd ==
    ASSUME FullInv, NEW p \in Procs, RmJournalFile(p) \/ Exit(p) \/ Killed(p)
    PROVE  SerialInv'
<1>. USE DEF FullInv, Inv, TypeOK, DbTypeOK, SerialInv
<1>1. CASE RmJournalFile(p)
  <2>1. Guarded(p) /\ pc[p] \in Running /\ pc[p] # "write"
    BY <1>1 DEF RmJournalFile, Guarded, Running, Exits
  <2>2. journal # NoJournal => journal = p /\ disk = image[journal]
    BY <2>1 DEF GuardOK
  <2>3. robbed' = {}
    BY <1>1, <2>2 DEF RmJournalFile
  <2>4. /\ journal' = NoJournal /\ UNCHANGED <<pc, lock>>
        /\ \A q \in Procs : q # p => chain'[q] = chain[q]
    BY <1>1 DEF RmJournalFile
  <2>5. GuardOK(p)'
    BY <2>1, <2>4, RecordAssumption DEF GuardOK
  <2>. QED  BY <2>1, <2>3, <2>4, <2>5, SerialByOwn
<1>2. CASE Exit(p) \/ Killed(p)
  <2>1. /\ pc[p] \in Running /\ pc'[p] \in Ended /\ lock'[p] = "none"
        /\ UNCHANGED <<chain, robbed>>
        /\ \A q \in Procs : q # p => pc'[q] = pc[q] /\ lock'[q] = lock[q]
    BY <1>2 DEF Exit, Killed, Vanish, SetLock, local, Running, Ended
  <2>2. GuardOK(p)'
    BY <2>1 DEF GuardOK, Guarded, Ended, Exits
  <2>. QED  BY <2>1, <2>2, SerialByOwn
<1>. QED  BY <1>1, <1>2

(* A command starts when no other runs. *)
LEMMA SerialByStart ==
    ASSUME FullInv, ~Overlap, NEW p \in Procs, Start(p)
    PROVE  SerialInv'
<1>. USE DEF FullInv, Inv, TypeOK, DbTypeOK, SerialInv
<1>1. \A q \in Procs : pc[q] \in Ended \cup {"idle"} /\ lock[q] = "none"
  BY DEF Start, AloneInv
<1>2. /\ UNCHANGED <<lock, robbed, chain>> /\ chain[p] = <<>>
      /\ pc' = [pc EXCEPT ![p] = "open"]
  BY DEF Start, Goto, ChainInv, db
<1>3. \A q \in Procs : ~Guarded(q)'
  BY <1>1, <1>2 DEF Guarded, Ended, Exits
<1>4. \A q \in Procs : lock'[q] = "none" /\ (q # p => pc'[q] \notin Running)
  BY <1>1, <1>2 DEF Running, Working, Exits, Ended
<1>5. AloneInv'
  BY <1>4 DEF AloneInv
<1>. QED  BY <1>2, <1>3, <1>5 DEF GuardOK

LEMMA StepSerial ==
    ASSUME ~Overlap, ~RollbackFails, FullInv, [Next]_vars
    PROVE  SerialInv'
<1>1. CASE UNCHANGED vars
  BY <1>1 DEF FullInv, SerialInv, AloneInv, GuardOK, Guarded, RowsOf, vars, local, db
<1>. QED
  BY <1>1, NeverBusy, SerialByPc, SerialByInsert, SerialByCommit, SerialByEnd,
     SerialByStart DEF Next, Run
-------------------------------------------------------------------------------
(***************************************************************************)
(* The refinement mapping, and the steps of CredStore.                     *)
(***************************************************************************)
record == [p \in Procs |-> IF pc[p] = "idle" THEN {} ELSE GroupsOf(rec[p])]

outcome == [p \in Procs |->
               CASE pc[p] = "done"   -> "created"
                 [] pc[p] = "failed" -> "failed"
                 [] pc[p] = "killed" -> "silent"
                 [] OTHER            -> "pending"]

LEMMA StoreInit == Init => Store!Init
BY DEF Init, DbInit, Recovered, Store!Init

(* A command that runs has a record, and has not told anything. *)
LEMMA RunningRecord ==
    ASSUME FullInv, NEW p \in Procs, pc[p] \in Running
    PROVE  /\ record[p] = GroupsOf(rec[p]) /\ record[p] # {}
           /\ Store!RecordRows(p) = RowsOf(p)
           /\ outcome[p] = "pending"
<1>1. pc[p] # "idle" /\ pc[p] \notin {"done", "failed", "killed"}
  BY DEF Running, Working, Exits
<1>2. GroupsOf(rec[p]) # {}
  <2>1. rec[p] \in Seq(Groups) /\ rec[p] # <<>>
    BY RecordShape DEF FullInv, Inv, TypeOK
  <2>2. 1 \in DOMAIN rec[p]
    BY <2>1
  <2>. QED  BY <2>2 DEF GroupsOf
<1>. QED  BY <1>1, <1>2 DEF record, outcome, RowsOf, Store!RecordRows

(* A step that leaves the recovered rows alone and ends no command is a
   stutter. *)
LEMMA Stutter ==
    ASSUME TypeOK, NEW p \in Procs, UNCHANGED <<rec, Recovered>>,
           pc[p] \in Running, pc'[p] \in Running,
           \A q \in Procs : q # p => pc'[q] = pc[q]
    PROVE  UNCHANGED Store!vars
<1>1. \A q \in Procs : /\ pc'[q] = "idle" <=> pc[q] = "idle"
                       /\ \A e \in Ended : pc'[q] = e <=> pc[q] = e
  BY DEF Running, Working, Exits, Ended
<1>2. record' = record
  BY <1>1 DEF record
<1>3. outcome' = outcome
  BY <1>1 DEF outcome, Ended
<1>. QED  BY <1>2, <1>3 DEF Store!vars, record, outcome

(* A command that ends tells how. *)
LEMMA Told ==
    ASSUME FullInv, NEW p \in Procs, NEW e \in Ended, UNCHANGED <<rec, Recovered>>,
           pc[p] \in Running, pc' = [pc EXCEPT ![p] = e]
    PROVE  /\ e = "done"   => Store!Tell(p, "created")
           /\ e = "failed" => Store!Tell(p, "failed")
           /\ e = "killed" => Store!Tell(p, "silent")
<1>. DEFINE what == CASE e = "done" -> "created" [] e = "failed" -> "failed" [] OTHER -> "silent"
<1>1. pc \in [Procs -> {"idle"} \cup Running \cup Ended]
  BY DEF FullInv, Inv, TypeOK
<1>2. record' = record
  BY <1>1 DEF record, Running, Working, Exits, Ended
<1>3. outcome' = [outcome EXCEPT ![p] = what]
  BY <1>1 DEF outcome, Ended
<1>4. outcome[p] = "pending"
  BY RunningRecord
<1>. QED  BY <1>2, <1>3, <1>4 DEF Store!Tell, record, outcome, Ended

(* The rows of a killed command's journal are played back, a command's own
   journal is opened and removed: a reader would find the same before and
   after. *)
LEMMA QuietSteps ==
    ASSUME FullInv, ~RollbackFails, NEW p \in Procs,
           \/ Open(p) \/ BeginTransaction(p) \/ EndTransaction(p) \/ Close(p)
           \/ CallFails(p) \/ Avail(p) \/ RegisterCleanup(p) \/ InsertRow(p)
           \/ StartCommit(p) \/ WriteRow(p) \/ CommitFails(p) \/ RmJournalFile(p)
    PROVE  UNCHANGED Store!vars
<1>. USE DEF FullInv, Inv, TypeOK, DbTypeOK
<1>1. /\ pc[p] \in Running /\ pc'[p] \in Running /\ UNCHANGED rec
      /\ \A q \in Procs : q # p => pc'[q] = pc[q]
  <2>1. CASE Open(p) \/ BeginTransaction(p) \/ EndTransaction(p) \/ Close(p) \/ CallFails(p)
    BY <2>1 DEF Open, BeginTransaction, EndTransaction, Close, CallFails, Goto,
                ExitFailure, local, Running, Working, Exits
  <2>2. CASE Avail(p) \/ RegisterCleanup(p) \/ InsertRow(p) \/ StartCommit(p)
    BY <2>2 DEF Avail, RegisterCleanup, InsertRow, StartCommit, Goto, local, Running,
                Working
  <2>3. CASE WriteRow(p) \/ CommitFails(p) \/ RmJournalFile(p)
    BY <2>3 DEF WriteRow, CommitFails, RmJournalFile, ExitFailure, local, Running,
                Working, Exits
  <2>. QED  BY <2>1, <2>2, <2>3
<1>2. UNCHANGED Recovered
  <2>1. CASE Open(p) \/ BeginTransaction(p) \/ EndTransaction(p) \/ Close(p) \/ CallFails(p)
    BY <2>1 DEF Open, BeginTransaction, EndTransaction, Close, CallFails, local, db,
                Recovered
  <2>2. CASE RegisterCleanup(p) \/ StartCommit(p)
    BY <2>2 DEF RegisterCleanup, StartCommit, DropShared, TakeExclusive, Recovered
  <2>3. CASE Avail(p)
    BY <2>3, RecordAssumption DEF Avail, TakeShared, RolledBack, IsHot, Recovered
  <2>4. CASE InsertRow(p)
    <3>1. CASE lock[p] = "reserved"
      BY <2>4, <3>1 DEF InsertRow, NextInsert, Recovered
    <3>2. CASE lock[p] # "reserved"
      <4>1. lock[p] = "none"
        BY <2>4, <3>2 DEF InsertRow, HoldInv
      <4>2. RolledBack = Recovered
        BY <1>1, <4>1, Alone DEF RolledBack, Recovered, Writing
      <4>3. journal' = p /\ image'[p] = RolledBack
        BY <2>4, <3>2 DEF InsertRow, FirstInsert
      <4>. QED  BY <4>2, <4>3, RecordAssumption DEF Recovered
    <3>. QED  BY <3>1, <3>2
  <2>5. CASE WriteRow(p)
    BY <2>5, OwnJournal, RecordAssumption DEF WriteRow, WritePage, Recovered
  <2>6. CASE CommitFails(p)
    BY <2>6, OwnJournal, RecordAssumption DEF CommitFails, Rollback, Recovered
  <2>7. CASE RmJournalFile(p)
    <3>1. journal # NoJournal => journal = p /\ disk = image[p]
      BY <2>7 DEF RmJournalFile, SerialInv, GuardOK, Guarded, Exits
    <3>. QED  BY <2>7, <3>1 DEF RmJournalFile, Recovered
  <2>. QED  BY <2>1, <2>2, <2>3, <2>4, <2>5, <2>6, <2>7
<1>. QED  BY <1>1, <1>2, Stutter

LEMMA StartSubmits ==
    ASSUME FullInv, NEW p \in Procs, Start(p)
    PROVE  Store!Submit(p)
<1>. USE DEF FullInv, Inv, TypeOK
<1>1. PICK r \in Records : rec' = [rec EXCEPT ![p] = r]
  BY DEF Start
<1>2. pc[p] = "idle" /\ pc' = [pc EXCEPT ![p] = "open"] /\ UNCHANGED db
  BY DEF Start, Goto
<1>3. r \in Seq(Groups) /\ r # <<>>
  BY RecordShape
<1>4. 1 \in DOMAIN r
  BY <1>3
<1>5. GroupsOf(r) \in (SUBSET Groups) \ {{}}
  BY <1>3, <1>4, GroupsType DEF GroupsOf
<1>6. record' = [record EXCEPT ![p] = GroupsOf(r)]
  BY <1>1, <1>2 DEF record
<1>7. record[p] = {} /\ outcome[p] = "pending"
  BY <1>2 DEF record, outcome
<1>8. outcome' = outcome
  BY <1>2 DEF outcome
<1>9. UNCHANGED Recovered
  BY <1>2 DEF db, Recovered
<1>. QED  BY <1>5, <1>6, <1>7, <1>8, <1>9 DEF Store!Submit, record, outcome

(* All rows of the record, which nobody could read before, are in the store
   once the journal is unlinked. *)
LEMMA UnlinkCommits ==
    ASSUME FullInv, NEW p \in Procs, FinishCommit(p)
    PROVE  Store!Commit(p)
<1>. USE DEF FullInv, Inv, TypeOK, DbTypeOK
<1>1. pc[p] = "write" /\ pc[p] \in Running
  BY DEF FinishCommit, Running, Working
<1>2. /\ journal' = NoJournal /\ UNCHANGED <<disk, image, rec>> /\ cache[p] = {}
      /\ pc' = [pc EXCEPT ![p] = "close"]
  BY <1>1, OwnJournal, RecordAssumption DEF FinishCommit, UnlinkJournal
<1>3. Recovered = image[p] /\ Recovered' = disk
  BY <1>1, <1>2, OwnJournal, RecordAssumption DEF Recovered
<1>4. disk = image[p] \cup RowsOf(p)
  BY <1>1, <1>2, OwnJournal DEF TodoInv, TodoOK
<1>5. RowsOf(p) \cap Recovered = {}
  BY <1>1, Recovery DEF RecordInv, RecordOK, Committed, SerialInv
<1>6. outcome' = outcome /\ record' = record
  BY <1>1, <1>2 DEF record, outcome
<1>. QED
  BY <1>1, <1>3, <1>4, <1>5, <1>6, RunningRecord
     DEF Store!Commit, Store!Absent, Store!RecordRows, record, outcome

LEMMA EndTells ==
    ASSUME FullInv, NEW p \in Procs, Exit(p) \/ Killed(p)
    PROVE  Store!Succeed(p) \/ Store!Fail(p) \/ Store!Die(p)
<1>. USE DEF FullInv, Inv
<1>1. pc[p] \in Running /\ UNCHANGED <<rec, Recovered>>
  BY DEF Exit, Killed, Vanish, local, Running, Recovered
<1>2. CASE Killed(p)
  <2>1. pc' = [pc EXCEPT ![p] = "killed"] /\ "killed" \in Ended
    BY <1>2 DEF Killed, Ended
  <2>. QED  BY <1>1, <2>1, Told DEF Store!Die
<1>3. CASE Exit(p) /\ pc[p] = "exit0"
  <2>1. pc' = [pc EXCEPT ![p] = "done"] /\ "done" \in Ended
    BY <1>3 DEF Exit, Ended
  <2>2. Store!Tell(p, "created")
    BY <1>1, <2>1, Told
  <2>3. RowsOf(p) \subseteq Recovered
    BY <1>3, Recovery DEF RecordInv, RecordOK, Committed
  <2>4. Store!Stored(p)
    BY <1>1, <2>3, RunningRecord DEF Store!Stored, record
  <2>. QED  BY <2>2, <2>4 DEF Store!Succeed
<1>4. CASE Exit(p) /\ pc[p] = "exit1"
  <2>1. pc' = [pc EXCEPT ![p] = "failed"] /\ "failed" \in Ended
    BY <1>4 DEF Exit, Ended
  <2>2. Store!Tell(p, "failed")
    BY <1>1, <2>1, Told
  <2>3. RowsOf(p) \cap Recovered = {}
    BY <1>4, Recovery DEF RecordInv, RecordOK, Committed, SerialInv
  <2>4. Store!Absent(p)
    BY <1>1, <2>3, RunningRecord DEF Store!Absent
  <2>. QED  BY <2>2, <2>4 DEF Store!Fail
<1>. QED  BY <1>2, <1>3, <1>4 DEF Exit, Exits

-------------------------------------------------------------------------------
(***************************************************************************)
(* The theorem.                                                            *)
(***************************************************************************)
LEMMA StepStore ==
    ASSUME ~Overlap, ~RollbackFails, FullInv, [Next]_vars
    PROVE  [Store!Next]_(Store!vars)
<1>1. CASE UNCHANGED vars
  BY <1>1 DEF vars, local, db, Store!vars, Recovered
<1>. QED
  BY <1>1, NeverBusy, QuietSteps, StartSubmits, UnlinkCommits, EndTells
     DEF Next, Run, Store!Next

(* "pk create" stores a record with all its groups at one moment, reports a
   record only once it is stored and a failure only when nothing of it is:
   for any number of commands one after the other, whatever call fails and
   wherever a command is killed.  Without overlap the cleanup handler
   rm_journal_file() never meets another command's journal, and as long as
   SQLite can roll a failed commit back, never one that is still needed. *)
THEOREM ImplementsStore ==
    ASSUME ~Overlap, ~RollbackFails
    PROVE  Spec => StoreSpec
<1>1. Init => ChainInv
  BY DEF Init, ChainInv
<1>2. FullInv /\ [Next]_vars => ChainInv' /\ SerialInv'
  BY StepChain, StepSerial DEF FullInv, Inv
<1>3. FullInv /\ [Next]_vars => [Store!Next]_(Store!vars)
  BY StepStore
<1>. QED
  BY <1>1, <1>2, <1>3, InitSerial, InvAlways, StoreInit, PTL
     DEF Spec, FullInv, StoreSpec, Store!Spec
===============================================================================
