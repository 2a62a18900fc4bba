----------------------------- MODULE PkCreateProofs -----------------------------
(***************************************************************************)
(* Theorems about PkCreate, for any number of commands in one directory,   *)
(* any cipher config and database, with or without failing calls.          *)
(***************************************************************************)
EXTENDS PkCreate, TLAPS

(* Two commands that run, or whose editors do, know of each other. *)
BesideInv == \A p, q \in Procs : p # q /\ Present(p) /\ Present(q) => q \in beside[p]

(* A record is of its command's user until it is read back, and of somebody beside
   from then on; so is the text at the path while the command is to read it. *)
AuthorInv ==
    /\ \A p \in Procs : pc[p] \in {"idle", "setup", "push", "create", "fill"} => rec[p].by = p
    /\ \A p \in Procs : rec[p].by \in {p} \cup beside[p]
    /\ \A p \in Procs : file # None /\ pc[p] \in {"fill", "edit", "read"}
                         => file.by \in {p} \cup beside[p]
    /\ \A p \in Procs : pc[p] = "idle" => stored[p] = None
    /\ OwnRecord

(* Is the removal of the record file still to come, or can it no longer come? *)
Owes(p) ==
    \/ pc[p] \in Live /\ chain[p] # <<>>
    \/ pc[p] \in {"killed", "crashed"}
    \/ editor[p] \in {"orphan", "lost"}

RemovalInv ==
    /\ \A p \in Procs : pc[p] \in {"create", "fill", "edit", "read"} => chain[p] # <<>>
    /\ \A p \in Procs : editor[p] = "open" => pc[p] = "edit"
    /\ file # None => \E p \in Procs : Owes(p)

(* The key a command applies is the one that was entered, if one was, and behind
   sqlite3_avail() it is that of the database. *)
KeyInv ==
    /\ \A p \in Procs : pc[p] \in {"avail", "insert"} /\ cmdkey[p] # "none"
                         => cipher[p].key = cmdkey[p]
    /\ \A p \in Procs : pc[p] = "insert" => Opens(cipher[p])
    /\ \A p \in Procs : pc[p] = "idle" => stored[p] = None
    /\ WrongKeyStoresNothing

LEMMA Chains ==
    ASSUME NEW c \in Seq({"rm_tmp_rec"})
    PROVE  /\ Push(c, "rm_tmp_rec") \in Seq({"rm_tmp_rec"}) /\ Push(c, "rm_tmp_rec") # <<>>
           /\ Pop(c) \in Seq({"rm_tmp_rec"})
BY DEF Push, Pop

LEMMA WithKind ==
    ASSUME NEW t \in Texts, NEW kind \in Kinds
    PROVE  [t EXCEPT !.kind = kind] \in Texts
BY DEF Texts

LEMMA WithKey ==
    ASSUME NEW c \in Ciphers, NEW k \in Keys
    PROVE  [c EXCEPT !.key = k] \in Ciphers
BY DEF Ciphers

(* Only a text can be taken for a record. *)
LEMMA ReadOutcome ==
    ASSUME file \in Texts \cup {None}, NEW next \in AfterRead
    PROVE  next \in {"exit1", "crashed", "open"} /\ (next = "open" => file \in Texts)
<1>1. CASE file = None
      BY <1>1 DEF AfterRead
<1>2. CASE file # None
      BY <1>2 DEF AfterRead, Texts, Kinds
<1> QED BY <1>1, <1>2

LEMMA InitInv == Init => TypeOK /\ BesideInv /\ AuthorInv /\ RemovalInv /\ KeyInv
<1> SUFFICES ASSUME Init PROVE TypeOK /\ BesideInv /\ AuthorInv /\ RemovalInv /\ KeyInv
    OBVIOUS
<1> USE DEF Init
<1>1. TypeOK
      BY DEF TypeOK, Live, Working, Exits, Ended, Keys, Kinds, Texts, Ciphers
<1>2. BesideInv
      BY DEF BesideInv, Present, Live, Working, Exits
<1>3. AuthorInv
      BY DEF AuthorInv, OwnRecord
<1>4. RemovalInv
      BY DEF RemovalInv
<1>5. KeyInv
      BY DEF KeyInv, WrongKeyStoresNothing
<1> QED BY <1>1, <1>2, <1>3, <1>4, <1>5
-------------------------------------------------------------------------------
(***************************************************************************)
(* Each step keeps each part of the invariant.                             *)
(***************************************************************************)
LEMMA StepType == ASSUME TypeOK, [Next]_vars PROVE TypeOK'
<1> USE DEF TypeOK, Live, Working, Exits, Ended, Keys, Kinds, Texts, Ciphers
<1>0. CASE UNCHANGED vars
      BY <1>0 DEF vars, local, files, fixed
<1>1. ASSUME NEW p \in Procs, Start(p) PROVE TypeOK'
  <2>1. PICK k \in Keys, kind \in {"incomplete", "complete"} :
              /\ cmdkey' = [cmdkey EXCEPT ![p] = k]
              /\ rec' = [rec EXCEPT ![p].kind = kind]
        BY <1>1 DEF Start
  <2>2. rec' \in [Procs -> Texts]
    <3>1. rec \in [Procs -> Texts]
          OBVIOUS
    <3>2. [rec[p] EXCEPT !.kind = kind] \in Texts
          BY <3>1, WithKind
    <3>3. rec' = [rec EXCEPT ![p] = [rec[p] EXCEPT !.kind = kind]]
          BY <2>1
    <3> HIDE DEF TypeOK, Texts
    <3> QED BY <3>1, <3>2, <3>3
  <2>3. beside' \in [Procs -> SUBSET Procs]
        BY <1>1 DEF Start
  <2> QED BY <1>1, <2>1, <2>2, <2>3 DEF Start, Goto, files, fixed
<1>2. ASSUME NEW p \in Procs, SetupEditor(p) PROVE TypeOK'
      BY <1>2 DEF SetupEditor, Goto, local, files, fixed
<1>3. ASSUME NEW p \in Procs, SkipEditor(p) PROVE TypeOK'
      BY <1>3 DEF SkipEditor, Goto, local, files, fixed
<1>4. ASSUME NEW p \in Procs, MissingField(p) PROVE TypeOK'
      BY <1>4 DEF MissingField, ExitFailure, local, files, fixed
<1>5. ASSUME NEW p \in Procs, RegisterCleanup(p) PROVE TypeOK'
      BY <1>5, Chains DEF RegisterCleanup, Goto, local, files, fixed
<1>6. ASSUME NEW p \in Procs, CreateRec(p) PROVE TypeOK'
      BY <1>6 DEF CreateRec, Goto, local, files, fixed
<1>7. ASSUME NEW p \in Procs, FillRec(p) PROVE TypeOK'
      BY <1>7 DEF FillRec, Goto, local, files, fixed
<1>8. ASSUME NEW p \in Procs, EditFails(p) PROVE TypeOK'
      BY <1>8 DEF EditFails, ExitFailure, local, files, fixed
<1>9. ASSUME NEW p \in Procs, StartEditor(p) PROVE TypeOK'
      BY <1>9 DEF StartEditor, local, files, fixed
<1>10. ASSUME NEW p \in Procs, EditorSave(p) PROVE TypeOK'
  <2>1. file' \in Texts
        BY <1>10 DEF EditorSave
  <2>2. linked' \in [Procs -> BOOLEAN]
    <3>1. CASE linked' = linked
          BY <3>1
    <3>2. CASE linked' = [q \in Procs |-> FALSE]
          BY <3>2
    <3> QED BY <1>10, <3>1, <3>2 DEF EditorSave
  <2>3. UNCHANGED <<pc, local, editor, beside, fixed>>
        BY <1>10 DEF EditorSave
  <2> HIDE DEF Texts
  <2> QED BY <2>1, <2>2, <2>3 DEF local, fixed
<1>11. ASSUME NEW p \in Procs, EditorQuit(p) PROVE TypeOK'
      BY <1>11 DEF EditorQuit, local, files, fixed
<1>12. ASSUME NEW p \in Procs, FinishEdit(p) PROVE TypeOK'
      BY <1>12 DEF FinishEdit, Goto, local, files, fixed
<1>13. ASSUME NEW p \in Procs, ReadRec(p) PROVE TypeOK'
      BY <1>13 DEF ReadRec, AfterRead, local, files, fixed
<1>14. ASSUME NEW p \in Procs, OpenDb(p) PROVE TypeOK'
      BY <1>14 DEF OpenDb, Goto, local, files, fixed
<1>15. ASSUME NEW p \in Procs, AskKey(p) PROVE TypeOK'
  <2>1. [cipher[p] EXCEPT !.key = cmdkey[p]] \in Ciphers
        BY WithKey
  <2>2. cipher' = [cipher EXCEPT ![p] = [cipher[p] EXCEPT !.key = cmdkey[p]]]
        BY <1>15 DEF AskKey
  <2>3. cipher' \in [Procs -> Ciphers]
    <3> HIDE DEF Ciphers
    <3> QED BY <2>1, <2>2
  <2> QED BY <1>15, <2>3 DEF AskKey, Goto, files, fixed
<1>16. ASSUME NEW p \in Procs, NoKeyEntered(p) PROVE TypeOK'
      BY <1>16 DEF NoKeyEntered, ExitFailure, local, files, fixed
<1>17. ASSUME NEW p \in Procs, ReadConfig(p) PROVE TypeOK'
  <2>1. cc.cipher \in Ciphers
        BY <1>17, CreateAssumption DEF ReadConfig
  <2>2. EffectiveCipher(p) \in Ciphers
        BY <2>1 DEF EffectiveCipher
  <2> QED BY <1>17, <2>2 DEF ReadConfig, Goto, files, fixed
<1>18. ASSUME NEW p \in Procs, BrokenConfig(p) PROVE TypeOK'
      BY <1>18 DEF BrokenConfig, ExitFailure, local, files, fixed
<1>19. ASSUME NEW p \in Procs, Avail(p) PROVE TypeOK'
      BY <1>19 DEF Avail, local, files, fixed
<1>20. ASSUME NEW p \in Procs, Insert(p) PROVE TypeOK'
      BY <1>20 DEF Insert, Goto, local, files, fixed
<1>21. ASSUME NEW p \in Procs, CallFails(p) PROVE TypeOK'
      BY <1>21 DEF CallFails, ExitFailure, LeaveEditor, local, files, fixed
<1>22. ASSUME NEW p \in Procs, Killed(p) PROVE TypeOK'
      BY <1>22 DEF Killed, LeaveEditor, local, files, fixed
<1>23. ASSUME NEW p \in Procs, RmTmpRec(p) PROVE TypeOK'
      BY <1>23, Chains DEF RmTmpRec, local, files, fixed
<1>24. ASSUME NEW p \in Procs, Exit(p) PROVE TypeOK'
      BY <1>24 DEF Exit, local, files, fixed
<1> QED BY <1>0, <1>1, <1>2, <1>3, <1>4, <1>5, <1>6, <1>7, <1>8, <1>9, <1>10,
           <1>11, <1>12, <1>13, <1>14, <1>15, <1>16, <1>17, <1>18, <1>19, <1>20, <1>21,
           <1>22, <1>23, <1>24 DEF Next, Run, User

LEMMA StepBeside == ASSUME TypeOK, BesideInv, [Next]_vars PROVE BesideInv'
<1> USE DEF TypeOK, BesideInv, Present, Live, Working, Exits
<1>0. CASE UNCHANGED vars
      BY <1>0 DEF vars, local, files, fixed
<1>1. ASSUME NEW p \in Procs, Start(p) PROVE BesideInv'
      BY <1>1 DEF Start, Goto, local, files, fixed
<1>2. ASSUME NEW p \in Procs, SetupEditor(p) PROVE BesideInv'
      BY <1>2 DEF SetupEditor, Goto, local, files, fixed
<1>3. ASSUME NEW p \in Procs, SkipEditor(p) PROVE BesideInv'
      BY <1>3 DEF SkipEditor, Goto, local, files, fixed
<1>4. ASSUME NEW p \in Procs, MissingField(p) PROVE BesideInv'
      BY <1>4 DEF MissingField, ExitFailure, local, files, fixed
<1>5. ASSUME NEW p \in Procs, RegisterCleanup(p) PROVE BesideInv'
      BY <1>5 DEF RegisterCleanup, Goto, local, files, fixed
<1>6. ASSUME NEW p \in Procs, CreateRec(p) PROVE BesideInv'
      BY <1>6 DEF CreateRec, Goto, local, files, fixed
<1>7. ASSUME NEW p \in Procs, FillRec(p) PROVE BesideInv'
      BY <1>7 DEF FillRec, Goto, local, files, fixed
<1>8. ASSUME NEW p \in Procs, EditFails(p) PROVE BesideInv'
      BY <1>8 DEF EditFails, ExitFailure, local, files, fixed
<1>9. ASSUME NEW p \in Procs, StartEditor(p) PROVE BesideInv'
      BY <1>9 DEF StartEditor, local, files, fixed
<1>10. ASSUME NEW p \in Procs, EditorSave(p) PROVE BesideInv'
      BY <1>10 DEF EditorSave, local, files, fixed
<1>11. ASSUME NEW p \in Procs, EditorQuit(p) PROVE BesideInv'
      BY <1>11 DEF EditorQuit, local, files, fixed
<1>12. ASSUME NEW p \in Procs, FinishEdit(p) PROVE BesideInv'
      BY <1>12 DEF FinishEdit, Goto, local, files, fixed
<1>13. ASSUME NEW p \in Procs, ReadRec(p) PROVE BesideInv'
      BY <1>13 DEF ReadRec, AfterRead, local, files, fixed
<1>14. ASSUME NEW p \in Procs, OpenDb(p) PROVE BesideInv'
      BY <1>14 DEF OpenDb, Goto, local, files, fixed
<1>15. ASSUME NEW p \in Procs, AskKey(p) PROVE BesideInv'
      BY <1>15 DEF AskKey, Goto, local, files, fixed
<1>16. ASSUME NEW p \in Procs, NoKeyEntered(p) PROVE BesideInv'
      BY <1>16 DEF NoKeyEntered, ExitFailure, local, files, fixed
<1>17. ASSUME NEW p \in Procs, ReadConfig(p) PROVE BesideInv'
      BY <1>17 DEF ReadConfig, Goto, local, files, fixed
<1>18. ASSUME NEW p \in Procs, BrokenConfig(p) PROVE BesideInv'
      BY <1>18 DEF BrokenConfig, ExitFailure, local, files, fixed
<1>19. ASSUME NEW p \in Procs, Avail(p) PROVE BesideInv'
      BY <1>19 DEF Avail, local, files, fixed
<1>20. ASSUME NEW p \in Procs, Insert(p) PROVE BesideInv'
      BY <1>20 DEF Insert, Goto, local, files, fixed
<1>21. ASSUME NEW p \in Procs, CallFails(p) PROVE BesideInv'
      BY <1>21 DEF CallFails, ExitFailure, LeaveEditor, local, files, fixed
<1>22. ASSUME NEW p \in Procs, Killed(p) PROVE BesideInv'
      BY <1>22 DEF Killed, LeaveEditor, local, files, fixed
<1>23. ASSUME NEW p \in Procs, RmTmpRec(p) PROVE BesideInv'
      BY <1>23 DEF RmTmpRec, local, files, fixed
<1>24. ASSUME NEW p \in Procs, Exit(p) PROVE BesideInv'
      BY <1>24 DEF Exit, local, files, fixed
<1> QED BY <1>0, <1>1, <1>2, <1>3, <1>4, <1>5, <1>6, <1>7, <1>8, <1>9, <1>10,
           <1>11, <1>12, <1>13, <1>14, <1>15, <1>16, <1>17, <1>18, <1>19, <1>20, <1>21,
           <1>22, <1>23, <1>24 DEF Next, Run, User

LEMMA StepAuthor == ASSUME TypeOK, BesideInv, AuthorInv, [Next]_vars PROVE AuthorInv'
<1> USE DEF TypeOK, AuthorInv, OwnRecord, Texts
<1>0. CASE UNCHANGED vars
      BY <1>0 DEF vars, local, files, fixed
<1>1. ASSUME NEW p \in Procs, Start(p) PROVE AuthorInv'
      BY <1>1 DEF Start, Goto, local, files, fixed
<1>2. ASSUME NEW p \in Procs, SetupEditor(p) PROVE AuthorInv'
      BY <1>2 DEF SetupEditor, Goto, local, files, fixed
<1>3. ASSUME NEW p \in Procs, SkipEditor(p) PROVE AuthorInv'
      BY <1>3 DEF SkipEditor, Goto, local, files, fixed
<1>4. ASSUME NEW p \in Procs, MissingField(p) PROVE AuthorInv'
      BY <1>4 DEF MissingField, ExitFailure, local, files, fixed
<1>5. ASSUME NEW p \in Procs, RegisterCleanup(p) PROVE AuthorInv'
      BY <1>5 DEF RegisterCleanup, Goto, local, files, fixed
<1>6. ASSUME NEW p \in Procs, CreateRec(p) PROVE AuthorInv'
      BY <1>6 DEF CreateRec, Goto, BesideInv, Present, Live, Working, Exits, local, files, fixed
<1>7. ASSUME NEW p \in Procs, FillRec(p) PROVE AuthorInv'
      BY <1>7 DEF FillRec, Goto, BesideInv, Present, Live, Working, Exits, local, files, fixed
<1>8. ASSUME NEW p \in Procs, EditFails(p) PROVE AuthorInv'
      BY <1>8 DEF EditFails, ExitFailure, local, files, fixed
<1>9. ASSUME NEW p \in Procs, StartEditor(p) PROVE AuthorInv'
      BY <1>9 DEF StartEditor, local, files, fixed
<1>10. ASSUME NEW p \in Procs, EditorSave(p) PROVE AuthorInv'
      BY <1>10 DEF EditorSave, BesideInv, Present, Live, Working, Exits, local, files, fixed
<1>11. ASSUME NEW p \in Procs, EditorQuit(p) PROVE AuthorInv'
      BY <1>11 DEF EditorQuit, local, files, fixed
<1>12. ASSUME NEW p \in Procs, FinishEdit(p) PROVE AuthorInv'
      BY <1>12 DEF FinishEdit, Goto, local, files, fixed
<1>13. ASSUME NEW p \in Procs, ReadRec(p) PROVE AuthorInv'
  <2>1. PICK next \in AfterRead :
              /\ pc[p] = "read" /\ pc' = [pc EXCEPT ![p] = next]
              /\ rec' = [rec EXCEPT ![p] = IF next = "open" THEN file ELSE rec[p]]
              /\ UNCHANGED <<cmdkey, chain, cipher, stored, editor, files, beside, fixed>>
        BY <1>13 DEF ReadRec
  <2>2. next \in {"exit1", "crashed", "open"} /\ (next = "open" => file \in Texts)
        BY ReadOutcome
  <2>3. CASE next = "open"
        BY <2>1, <2>2, <2>3, CreateAssumption DEF local, files, fixed
  <2>4. CASE next # "open"
        BY <2>1, <2>2, <2>4 DEF local, files, fixed
  <2> QED BY <2>3, <2>4
<1>14. ASSUME NEW p \in Procs, OpenDb(p) PROVE AuthorInv'
      BY <1>14 DEF OpenDb, Goto, local, files, fixed
<1>15. ASSUME NEW p \in Procs, AskKey(p) PROVE AuthorInv'
      BY <1>15 DEF AskKey, Goto, local, files, fixed
<1>16. ASSUME NEW p \in Procs, NoKeyEntered(p) PROVE AuthorInv'
      BY <1>16 DEF NoKeyEntered, ExitFailure, local, files, fixed
<1>17. ASSUME NEW p \in Procs, ReadConfig(p) PROVE AuthorInv'
      BY <1>17 DEF ReadConfig, Goto, local, files, fixed
<1>18. ASSUME NEW p \in Procs, BrokenConfig(p) PROVE AuthorInv'
      BY <1>18 DEF BrokenConfig, ExitFailure, local, files, fixed
<1>19. ASSUME NEW p \in Procs, Avail(p) PROVE AuthorInv'
      BY <1>19 DEF Avail, local, files, fixed
<1>20. ASSUME NEW p \in Procs, Insert(p) PROVE AuthorInv'
      BY <1>20, CreateAssumption DEF Insert, Goto, local, files, fixed
<1>21. ASSUME NEW p \in Procs, CallFails(p) PROVE AuthorInv'
      BY <1>21 DEF CallFails, ExitFailure, LeaveEditor, local, files, fixed
<1>22. ASSUME NEW p \in Procs, Killed(p) PROVE AuthorInv'
      BY <1>22 DEF Killed, LeaveEditor, local, files, fixed
<1>23. ASSUME NEW p \in Procs, RmTmpRec(p) PROVE AuthorInv'
      BY <1>23 DEF RmTmpRec, local, files, fixed
<1>24. ASSUME NEW p \in Procs, Exit(p) PROVE AuthorInv'
      BY <1>24 DEF Exit, local, files, fixed
<1> QED BY <1>0, <1>1, <1>2, <1>3, <1>4, <1>5, <1>6, <1>7, <1>8, <1>9, <1>10,
           <1>11, <1>12, <1>13, <1>14, <1>15, <1>16, <1>17, <1>18, <1>19, <1>20, <1>21,
           <1>22, <1>23, <1>24 DEF Next, Run, User

LEMMA StepRemoval == ASSUME TypeOK, RemovalInv, [Next]_vars PROVE RemovalInv'
<1> USE DEF TypeOK, RemovalInv, Owes, Live, Working, Exits
<1>0. CASE UNCHANGED vars
      BY <1>0 DEF vars, local, files, fixed
<1>1. ASSUME NEW p \in Procs, Start(p) PROVE RemovalInv'
      BY <1>1 DEF Start, Goto, local, files, fixed
<1>2. ASSUME NEW p \in Procs, SetupEditor(p) PROVE RemovalInv'
      BY <1>2 DEF SetupEditor, Goto, local, files, fixed
<1>3. ASSUME NEW p \in Procs, SkipEditor(p) PROVE RemovalInv'
      BY <1>3 DEF SkipEditor, Goto, local, files, fixed
<1>4. ASSUME NEW p \in Procs, MissingField(p) PROVE RemovalInv'
      BY <1>4 DEF MissingField, ExitFailure, local, files, fixed
<1>5. ASSUME NEW p \in Procs, RegisterCleanup(p) PROVE RemovalInv'
      BY <1>5, Chains DEF RegisterCleanup, Goto, local, files, fixed
<1>6. ASSUME NEW p \in Procs, CreateRec(p) PROVE RemovalInv'
      BY <1>6 DEF CreateRec, Goto, local, files, fixed
<1>7. ASSUME NEW p \in Procs, FillRec(p) PROVE RemovalInv'
      BY <1>7 DEF FillRec, Goto, local, files, fixed
<1>8. ASSUME NEW p \in Procs, EditFails(p) PROVE RemovalInv'
      BY <1>8 DEF EditFails, ExitFailure, local, files, fixed
<1>9. ASSUME NEW p \in Procs, StartEditor(p) PROVE RemovalInv'
      BY <1>9 DEF StartEditor, local, files, fixed
<1>10. ASSUME NEW p \in Procs, EditorSave(p) PROVE RemovalInv'
      BY <1>10 DEF EditorSave, local, files, fixed
<1>11. ASSUME NEW p \in Procs, EditorQuit(p) PROVE RemovalInv'
      BY <1>11 DEF EditorQuit, local, files, fixed
<1>12. ASSUME NEW p \in Procs, FinishEdit(p) PROVE RemovalInv'
      BY <1>12 DEF FinishEdit, Goto, local, files, fixed
<1>13. ASSUME NEW p \in Procs, ReadRec(p) PROVE RemovalInv'
  <2>1. PICK next \in AfterRead :
              /\ pc[p] = "read" /\ pc' = [pc EXCEPT ![p] = next]
              /\ rec' = [rec EXCEPT ![p] = IF next = "open" THEN file ELSE rec[p]]
              /\ UNCHANGED <<cmdkey, chain, cipher, stored, editor, files, beside, fixed>>
        BY <1>13 DEF ReadRec
  <2>2. next \in {"exit1", "crashed", "open"} /\ (next = "open" => file \in Texts)
        BY ReadOutcome
  <2>3. CASE next = "open"
        BY <2>1, <2>2, <2>3, CreateAssumption DEF local, files, fixed
  <2>4. CASE next # "open"
        BY <2>1, <2>2, <2>4 DEF local, files, fixed
  <2> QED BY <2>3, <2>4
<1>14. ASSUME NEW p \in Procs, OpenDb(p) PROVE RemovalInv'
      BY <1>14 DEF OpenDb, Goto, local, files, fixed
<1>15. ASSUME NEW p \in Procs, AskKey(p) PROVE RemovalInv'
      BY <1>15 DEF AskKey, Goto, local, files, fixed
<1>16. ASSUME NEW p \in Procs, NoKeyEntered(p) PROVE RemovalInv'
      BY <1>16 DEF NoKeyEntered, ExitFailure, local, files, fixed
<1>17. ASSUME NEW p \in Procs, ReadConfig(p) PROVE RemovalInv'
      BY <1>17 DEF ReadConfig, Goto, local, files, fixed
<1>18. ASSUME NEW p \in Procs, BrokenConfig(p) PROVE RemovalInv'
      BY <1>18 DEF BrokenConfig, ExitFailure, local, files, fixed
<1>19. ASSUME NEW p \in Procs, Avail(p) PROVE RemovalInv'
      BY <1>19 DEF Avail, local, files, fixed
<1>20. ASSUME NEW p \in Procs, Insert(p) PROVE RemovalInv'
      BY <1>20 DEF Insert, Goto, local, files, fixed
<1>21. ASSUME NEW p \in Procs, CallFails(p) PROVE RemovalInv'
      BY <1>21 DEF CallFails, ExitFailure, LeaveEditor, local, files, fixed
<1>22. ASSUME NEW p \in Procs, Killed(p) PROVE RemovalInv'
      BY <1>22 DEF Killed, LeaveEditor, local, files, fixed
<1>23. ASSUME NEW p \in Procs, RmTmpRec(p) PROVE RemovalInv'
      BY <1>23 DEF RmTmpRec, local, files, fixed
<1>24. ASSUME NEW p \in Procs, Exit(p) PROVE RemovalInv'
      BY <1>24 DEF Exit, local, files, fixed
<1> QED BY <1>0, <1>1, <1>2, <1>3, <1>4, <1>5, <1>6, <1>7, <1>8, <1>9, <1>10,
           <1>11, <1>12, <1>13, <1>14, <1>15, <1>16, <1>17, <1>18, <1>19, <1>20, <1>21,
           <1>22, <1>23, <1>24 DEF Next, Run, User

LEMMA StepKey == ASSUME TypeOK, KeyInv, [Next]_vars PROVE KeyInv'
<1> USE DEF TypeOK, KeyInv, WrongKeyStoresNothing, Opens, Ciphers
<1>0. CASE UNCHANGED vars
      BY <1>0 DEF vars, local, files, fixed
<1>1. ASSUME NEW p \in Procs, Start(p) PROVE KeyInv'
      BY <1>1 DEF Start, Goto, local, files, fixed
<1>2. ASSUME NEW p \in Procs, SetupEditor(p) PROVE KeyInv'
      BY <1>2 DEF SetupEditor, Goto, local, files, fixed
<1>3. ASSUME NEW p \in Procs, SkipEditor(p) PROVE KeyInv'
      BY <1>3 DEF SkipEditor, Goto, local, files, fixed
<1>4. ASSUME NEW p \in Procs, MissingField(p) PROVE KeyInv'
      BY <1>4 DEF MissingField, ExitFailure, local, files, fixed
<1>5. ASSUME NEW p \in Procs, RegisterCleanup(p) PROVE KeyInv'
      BY <1>5 DEF RegisterCleanup, Goto, local, files, fixed
<1>6. ASSUME NEW p \in Procs, CreateRec(p) PROVE KeyInv'
      BY <1>6 DEF CreateRec, Goto, local, files, fixed
<1>7. ASSUME NEW p \in Procs, FillRec(p) PROVE KeyInv'
      BY <1>7 DEF FillRec, Goto, local, files, fixed
<1>8. ASSUME NEW p \in Procs, EditFails(p) PROVE KeyInv'
      BY <1>8 DEF EditFails, ExitFailure, local, files, fixed
<1>9. ASSUME NEW p \in Procs, StartEditor(p) PROVE KeyInv'
      BY <1>9 DEF StartEditor, local, files, fixed
<1>10. ASSUME NEW p \in Procs, EditorSave(p) PROVE KeyInv'
      BY <1>10 DEF EditorSave, local, files, fixed
<1>11. ASSUME NEW p \in Procs, EditorQuit(p) PROVE KeyInv'
      BY <1>11 DEF EditorQuit, local, files, fixed
<1>12. ASSUME NEW p \in Procs, FinishEdit(p) PROVE KeyInv'
      BY <1>12 DEF FinishEdit, Goto, local, files, fixed
<1>13. ASSUME NEW p \in Procs, ReadRec(p) PROVE KeyInv'
  <2>1. PICK next \in AfterRead :
              /\ pc[p] = "read" /\ pc' = [pc EXCEPT ![p] = next]
              /\ rec' = [rec EXCEPT ![p] = IF next = "open" THEN file ELSE rec[p]]
              /\ UNCHANGED <<cmdkey, chain, cipher, stored, editor, files, beside, fixed>>
        BY <1>13 DEF ReadRec
  <2>2. next \in {"exit1", "crashed", "open"} /\ (next = "open" => file \in Texts)
        BY ReadOutcome
  <2>3. CASE next = "open"
        BY <2>1, <2>2, <2>3, CreateAssumption DEF local, files, fixed
  <2>4. CASE next # "open"
        BY <2>1, <2>2, <2>4 DEF local, files, fixed
  <2> QED BY <2>3, <2>4
<1>14. ASSUME NEW p \in Procs, OpenDb(p) PROVE KeyInv'
      BY <1>14 DEF OpenDb, Goto, local, files, fixed
<1>15. ASSUME NEW p \in Procs, AskKey(p) PROVE KeyInv'
      BY <1>15 DEF AskKey, Goto, local, files, fixed
<1>16. ASSUME NEW p \in Procs, NoKeyEntered(p) PROVE KeyInv'
      BY <1>16 DEF NoKeyEntered, ExitFailure, local, files, fixed
<1>17. ASSUME NEW p \in Procs, ReadConfig(p) PROVE KeyInv'
      BY <1>17, CreateAssumption DEF ReadConfig, Goto, EffectiveCipher, local, files, fixed
<1>18. ASSUME NEW p \in Procs, BrokenConfig(p) PROVE KeyInv'
      BY <1>18 DEF BrokenConfig, ExitFailure, local, files, fixed
<1>19. ASSUME NEW p \in Procs, Avail(p) PROVE KeyInv'
      BY <1>19 DEF Avail, local, files, fixed
<1>20. ASSUME NEW p \in Procs, Insert(p) PROVE KeyInv'
      BY <1>20 DEF Insert, Goto, local, files, fixed
<1>21. ASSUME NEW p \in Procs, CallFails(p) PROVE KeyInv'
      BY <1>21 DEF CallFails, ExitFailure, LeaveEditor, local, files, fixed
<1>22. ASSUME NEW p \in Procs, Killed(p) PROVE KeyInv'
      BY <1>22 DEF Killed, LeaveEditor, local, files, fixed
<1>23. ASSUME NEW p \in Procs, RmTmpRec(p) PROVE KeyInv'
      BY <1>23 DEF RmTmpRec, local, files, fixed
<1>24. ASSUME NEW p \in Procs, Exit(p) PROVE KeyInv'
      BY <1>24 DEF Exit, local, files, fixed
<1> QED BY <1>0, <1>1, <1>2, <1>3, <1>4, <1>5, <1>6, <1>7, <1>8, <1>9, <1>10,
           <1>11, <1>12, <1>13, <1>14, <1>15, <1>16, <1>17, <1>18, <1>19, <1>20, <1>21,
           <1>22, <1>23, <1>24 DEF Next, Run, User
-------------------------------------------------------------------------------
Inv == TypeOK /\ BesideInv /\ AuthorInv /\ RemovalInv /\ KeyInv

LEMMA Always == Spec => []Inv
<1>1. Inv /\ [Next]_vars => Inv'
      BY StepType, StepBeside, StepAuthor, StepRemoval, StepKey DEF Inv
<1> QED BY <1>1, InitInv, PTL DEF Inv, Spec

(* What is stored is the record of the command's own user or of one whose pk or
   editor ran beside it (cmd_create(), read_record_file()). *)
THEOREM StoresOwnRecord == Spec => []OwnRecord
<1>1. Inv => OwnRecord
      BY DEF Inv, AuthorInv
<1> QED BY <1>1, Always, PTL

(* No record file is left unless a command was killed, fell over its list or left
   its editor behind (rm_tmp_rec()). *)
THEOREM RemovesRecFile == Spec => []RecFileRemoved
<1>1. Inv => RecFileRemoved
      BY DEF Inv, RemovalInv, RecFileRemoved, Owes, Live, Working, Exits
<1> QED BY <1>1, Always, PTL

(* A key that was entered is the only one that is tried, and nothing is stored
   unless it is right. *)
THEOREM StoresWithRightKey == Spec => []WrongKeyStoresNothing
<1>1. Inv => WrongKeyStoresNothing
      BY DEF Inv, KeyInv
<1> QED BY <1>1, Always, PTL

(* Every variable of PkCreate keeps its type. *)
THEOREM TypeCorrect == Spec => []TypeOK
<1>1. Inv => TypeOK
      BY DEF Inv
<1> QED BY <1>1, Always, PTL
===============================================================================
