----------------------------- MODULE PkInitProofs -----------------------------
(***************************************************************************)
(* Theorems about PkInit, for any number of processes, any keys and any    *)
(* set of command lines, with or without overlap, failures and kills.      *)
(***************************************************************************)
EXTENDS PkInit, SequenceTheorems, TLAPS

USE InitAssumption DEF Inodes, Keys

-------------------------------------------------------------------------------
(***************************************************************************)
(* The operators the steps are built from.                                 *)
(***************************************************************************)

(* Pushing a handler and popping one keep a chain a chain. *)
LEMMA ChainType ==
    ASSUME NEW c \in Seq(Handlers), NEW fn \in Handlers
    PROVE  Push(c, fn) \in Seq(Handlers) /\ Pop(c) \in Seq(Handlers)
BY DEF Push, Pop

(* The cipher of a database and the content of a config are well formed. *)
LEMMA CipherType ==
    ASSUME NEW o \in AllOptions, NEW k \in Keys \cup {NoKey}
    PROVE  CipherOf(o, k) \in Cipher /\ ConfigOf(o, k) \in Cipher
<1>1. CipherOf(o, k) \in Cipher
  BY DEF CipherOf, Cipher, Plain, Effective, Algorithms
<1>2. ConfigOf(o, k) \in Cipher
  BY <1>1 DEF ConfigOf, Cipher
<1>. QED  BY <1>1, <1>2

-------------------------------------------------------------------------------
(***************************************************************************)
(* Type correctness.                                                       *)
(***************************************************************************)
LEMMA InitType == Init => TypeOK
<1>. SUFFICES ASSUME Init PROVE TypeOK
  OBVIOUS
<1>1. NoOption \in AllOptions
  BY DEF NoOption, AllOptions, AlgOption
<1>2. Plain \in Cipher
  BY DEF Plain, Cipher, Algorithms
<1>3. \A p \in Procs : chain[p] \in Seq(Handlers)
  BY DEF Init
<1>. QED  BY <1>1, <1>2, <1>3 DEF Init, TypeOK, Statements

LEMMA StepType == TypeOK /\ [Next]_vars => TypeOK'
<1>. SUFFICES ASSUME TypeOK, [Next]_vars PROVE TypeOK'
  OBVIOUS
<1>. USE DEF TypeOK
<1>0. CASE UNCHANGED vars
  BY <1>0 DEF vars, files, local
<1>1. ASSUME NEW p \in Procs, Start(p) PROVE TypeOK'
  BY <1>1 DEF Start, Goto, files, Working
<1>2. ASSUME NEW p \in Procs, CheckDb(p) \/ RemoveOldDb(p) PROVE TypeOK'
  BY <1>2 DEF CheckDb, RemoveOldDb, files, local, Working, Exits
<1>3. ASSUME NEW p \in Procs, SkipEncryption(p) \/ AskKey(p) PROVE TypeOK'
  BY <1>3 DEF SkipEncryption, AskKey, Goto, files, local, Working, Prompts
<1>4. ASSUME NEW p \in Procs, RandomKey(p) PROVE TypeOK'
  BY <1>4, ChainType DEF RandomKey, TakeKey, Goto, files, Working, Handlers
<1>5. ASSUME NEW p \in Procs, EnterKey(p) \/ NoKeyEntered(p) PROVE TypeOK'
  <2>1. CASE EnterKey(p)
    BY <2>1 DEF EnterKey, Goto, files, Working, Prompts
  <2>2. CASE NoKeyEntered(p)
    BY <2>2 DEF NoKeyEntered, ExitFailure, files, local, Exits
  <2>. QED  BY <1>5, <2>1, <2>2
<1>6. ASSUME NEW p \in Procs, ConfirmKey(p) PROVE TypeOK'
  BY <1>6, ChainType DEF ConfirmKey, TakeKey, Goto, files, Working, Handlers
<1>7. ASSUME NEW p \in Procs, MismatchedKey(p) \/ UnconfirmedKey(p) PROVE TypeOK'
  BY <1>7 DEF MismatchedKey, UnconfirmedKey, Goto, files, Working, Prompts, Ended
<1>8. ASSUME NEW p \in Procs, RejectConfig(p) PROVE TypeOK'
  BY <1>8 DEF RejectConfig, ExitFailure, files, local, Exits
<1>9. ASSUME NEW p \in Procs, AcceptConfig(p) PROVE TypeOK'
  BY <1>9, ChainType DEF AcceptConfig, files, local, Working, Handlers
<1>10. ASSUME NEW p \in Procs, CheckCc(p) \/ RemoveOldCc(p) PROVE TypeOK'
  BY <1>10 DEF CheckCc, RemoveOldCc, files, local, Working, Exits
<1>11. ASSUME NEW p \in Procs, RememberKey(p) PROVE TypeOK'
  BY <1>11, ChainType DEF RememberKey, PrintsKey, Goto, files, Working, Handlers
<1>12. ASSUME NEW p \in Procs, OpenCc(p) PROVE TypeOK'
  BY <1>12 DEF OpenCc, Goto, Working
<1>13. ASSUME NEW p \in Procs, WriteCc(p) PROVE TypeOK'
  <2>1. CipherOf(opt[p], key[p]) \in Cipher /\ ConfigOf(opt[p], key[p]) \in Cipher
    BY CipherType
  <2>2. ccfile' \in [Inodes -> Cipher \cup {Truncated}]
    BY <1>13, <2>1 DEF WriteCc
  <2>. QED  BY <1>13, <2>2 DEF WriteCc, Goto, local, Working
<1>14. ASSUME NEW p \in Procs, SetupDatabase(p) PROVE TypeOK'
  BY <1>14, ChainType DEF SetupDatabase, Goto, files, local, Working, Handlers
<1>15. ASSUME NEW p \in Procs, OpenDb(p) PROVE TypeOK'
  BY <1>15 DEF OpenDb, Goto, Working
<1>16. ASSUME NEW p \in Procs, CreateTable(p) PROVE TypeOK'
  <2>1. CipherOf(opt[p], key[p]) \in Cipher
    BY CipherType
  <2>2. made[p] + 1 \in 0..Statements
    <3>1. made[p] \in 0..4 /\ made[p] < 4
      BY <1>16 DEF CreateTable, Statements
    <3>. QED  BY <3>1 DEF Statements
  <2>3. dbfile' \in [Inodes -> [cipher : Cipher, tables : 0..Statements]]
    BY <1>16, <2>1, <2>2 DEF CreateTable
  <2>4. made' \in [Procs -> 0..Statements]
    BY <1>16, <2>2 DEF CreateTable
  <2>. QED  BY <1>16, <2>3, <2>4 DEF CreateTable, Working
<1>17. ASSUME NEW p \in Procs, TableRefused(p) PROVE TypeOK'
  BY <1>17 DEF TableRefused, ExitFailure, files, local, Exits
<1>18. ASSUME NEW p \in Procs, Close(p) PROVE TypeOK'
  BY <1>18, ChainType DEF Close, Goto, files, local, Exits, Handlers
<1>19. ASSUME NEW p \in Procs, RunHandler(p) PROVE TypeOK'
  BY <1>19, ChainType DEF RunHandler, Handlers
<1>20. ASSUME NEW p \in Procs, Exit(p) PROVE TypeOK'
  BY <1>20 DEF Exit, files, local, Ended
<1>21. ASSUME NEW p \in Procs, SystemFailure(p) \/ Killed(p) PROVE TypeOK'
  BY <1>21 DEF SystemFailure, Killed, ExitFailure, files, local, Exits, Ended
<1>. QED
  BY <1>0, <1>1, <1>2, <1>3, <1>4, <1>5, <1>6, <1>7, <1>8, <1>9, <1>10, <1>11,
     <1>12, <1>13, <1>14, <1>15, <1>16, <1>17, <1>18, <1>19, <1>20, <1>21
  DEF Next, Run, Answer

(* The variables of every process and of both paths keep their types. *)
THEOREM TypeCorrect == Spec => []TypeOK
BY InitType, StepType, PTL DEF Spec

-------------------------------------------------------------------------------
(***************************************************************************)
(* The shape of the chain.  The handler registers at most one thing at a   *)
(* time to undo, so the chain is one of five sequences and the place the   *)
(* handler has reached says which.                                         *)
(***************************************************************************)
Empty == <<>>
OnKey == <<"destroy_key">>
OnCc  == <<"rm_cred_cc">>
OnDb  == <<"rm_cred_db">>
OnDbCc == <<"rm_cred_db", "rm_cred_cc">>

ShapesAt(where) ==
    CASE where = "config"                           -> {OnKey}
      [] where \in {"opencc", "writecc"}            -> {OnCc}
      [] where = "setup"                            -> {Empty, OnCc}
      [] where \in {"opendb", "tables", "close"}    -> {OnDb, OnDbCc}
      [] where \in {"exit1", "killed"}              -> {Empty, OnKey, OnCc, OnDb, OnDbCc}
      [] OTHER                                      -> {Empty}

(* The key buffer is there while destroy_key is; it is never freed before. *)
ChainInv ==
    \A p \in Procs :
        /\ chain[p] \in ShapesAt(pc[p])
        /\ chain[p] = OnKey => keybuf[p] = "live"

(* What pushing and popping do to the five shapes. *)
LEMMA ShapeSteps ==
    /\ Push(Empty, "destroy_key") = OnKey
    /\ Push(Empty, "rm_cred_cc") = OnCc
    /\ Push(Empty, "rm_cred_db") = OnDb
    /\ Push(OnCc, "rm_cred_db") = OnDbCc
    /\ Pop(OnKey) = Empty /\ Pop(OnCc) = Empty /\ Pop(OnDb) = Empty
    /\ Pop(OnDbCc) = OnCc /\ Pop(Empty) = Empty
<1>1. \A fn \in Handlers : Push(Empty, fn) = <<fn>>
  BY DEF Push, Empty
<1>2. \A fn \in Handlers : Pop(<<fn>>) = Empty
  BY DEF Pop, Empty
<1>3. \A f, g \in Handlers : Push(<<g>>, f) = <<f, g>>
  <2>. SUFFICES ASSUME NEW f \in Handlers, NEW g \in Handlers
                PROVE  Push(<<g>>, f) = <<f, g>>
    OBVIOUS
  <2>. DEFINE s == <<f>> \o <<g>>
              t == <<f, g>>
  <2>1. /\ s \in Seq(Handlers) /\ t \in Seq(Handlers)
        /\ Len(s) = 2 /\ Len(t) = 2
        /\ s[1] = t[1] /\ s[2] = t[2]
    OBVIOUS
  <2>. HIDE DEF s, t
  <2>2. s = t
    <3>1. \A i \in 1 .. Len(s) : s[i] = t[i]
      BY <2>1
    <3>. QED  BY <2>1, <3>1, SeqEqual
  <2>. USE DEF s, t
  <2>. QED  BY <2>2 DEF Push
<1>4. \A f, g \in Handlers : Pop(<<f, g>>) = <<g>>
  BY DEF Pop
<1>5. Pop(Empty) = Empty
  BY DEF Pop, Empty
<1>6. {"destroy_key", "rm_cred_cc", "rm_cred_db"} = Handlers
  BY DEF Handlers
<1>. QED  BY <1>1, <1>2, <1>3, <1>4, <1>5, <1>6 DEF OnKey, OnCc, OnDb, OnDbCc

(* The five shapes are different sequences. *)
LEMMA ShapesDiffer ==
    /\ Empty # OnKey /\ Empty # OnCc /\ Empty # OnDb /\ Empty # OnDbCc
    /\ OnKey # OnCc /\ OnKey # OnDb /\ OnKey # OnDbCc
    /\ OnCc # OnDb /\ OnCc # OnDbCc /\ OnDb # OnDbCc
BY DEF Empty, OnKey, OnCc, OnDb, OnDbCc

(* Which handler runs first, and where destroy_key is registered. *)
LEMMA ShapeHeads ==
    /\ Newest(OnKey) = "destroy_key" /\ Newest(OnCc) = "rm_cred_cc"
    /\ Newest(OnDb) = "rm_cred_db" /\ Newest(OnDbCc) = "rm_cred_db"
    /\ ~Registered(Empty, "destroy_key") /\ ~Registered(OnCc, "destroy_key")
    /\ ~Registered(OnDb, "destroy_key") /\ ~Registered(OnDbCc, "destroy_key")
BY DEF Newest, Registered, Empty, OnKey, OnCc, OnDb, OnDbCc

LEMMA InitChain == Init => ChainInv
BY ShapesDiffer DEF Init, ChainInv, ShapesAt, Empty

LEMMA StepChain == TypeOK /\ ChainInv /\ [Next]_vars => ChainInv'
<1>. SUFFICES ASSUME TypeOK, ChainInv, [Next]_vars PROVE ChainInv'
  OBVIOUS
<1>. USE ShapeSteps, ShapesDiffer DEF ChainInv
<1>types. pc \in [Procs -> {"idle"} \cup Working \cup Exits \cup Ended]
          /\ chain \in [Procs -> Seq(Handlers)]
          /\ keybuf \in [Procs -> {"none", "live", "freed"}]
  BY DEF TypeOK
<1>. USE <1>types
<1>0. CASE UNCHANGED vars
  BY <1>0 DEF vars, files, local
<1>1. ASSUME NEW p \in Procs, Start(p) PROVE ChainInv'
  BY <1>1 DEF Start, Goto, ShapesAt
<1>2. ASSUME NEW p \in Procs, CheckDb(p) PROVE ChainInv'
  BY <1>2 DEF CheckDb, local, ShapesAt
<1>3. ASSUME NEW p \in Procs, RemoveOldDb(p) PROVE ChainInv'
  BY <1>3 DEF RemoveOldDb, local, ShapesAt
<1>4. ASSUME NEW p \in Procs, SkipEncryption(p) PROVE ChainInv'
  BY <1>4 DEF SkipEncryption, Goto, local, ShapesAt
<1>5. ASSUME NEW p \in Procs, AskKey(p) PROVE ChainInv'
  BY <1>5 DEF AskKey, Goto, local, ShapesAt
<1>6. ASSUME NEW p \in Procs, RandomKey(p) PROVE ChainInv'
  BY <1>6 DEF RandomKey, TakeKey, Goto, ShapesAt
<1>7. ASSUME NEW p \in Procs, EnterKey(p) PROVE ChainInv'
  BY <1>7 DEF EnterKey, Goto, ShapesAt
<1>8. ASSUME NEW p \in Procs, NoKeyEntered(p) PROVE ChainInv'
  BY <1>8 DEF NoKeyEntered, ExitFailure, local, ShapesAt
<1>9. ASSUME NEW p \in Procs, ConfirmKey(p) PROVE ChainInv'
  BY <1>9 DEF ConfirmKey, TakeKey, Goto, ShapesAt
<1>10. ASSUME NEW p \in Procs, MismatchedKey(p) \/ UnconfirmedKey(p) PROVE ChainInv'
  <2>1. /\ pc[p] = "confirm"
        /\ pc' \in {[pc EXCEPT ![p] = "killed"], [pc EXCEPT ![p] = "prompt"]}
        /\ UNCHANGED <<chain, keybuf>>
    BY <1>10 DEF MismatchedKey, UnconfirmedKey, Goto
  <2>2. chain[p] = Empty
    BY <2>1 DEF ShapesAt
  <2>3. Empty \in ShapesAt(pc'[p]) /\ \A q \in Procs : q # p => pc'[q] = pc[q]
    BY <2>1 DEF ShapesAt
  <2>. QED  BY <2>1, <2>2, <2>3
<1>11. ASSUME NEW p \in Procs, RejectConfig(p) PROVE ChainInv'
  BY <1>11 DEF RejectConfig, ExitFailure, local, ShapesAt
<1>12. ASSUME NEW p \in Procs, AcceptConfig(p) PROVE ChainInv'
  BY <1>12 DEF AcceptConfig, local, ShapesAt
<1>13. ASSUME NEW p \in Procs, CheckCc(p) PROVE ChainInv'
  BY <1>13 DEF CheckCc, local, ShapesAt
<1>14. ASSUME NEW p \in Procs, RemoveOldCc(p) PROVE ChainInv'
  BY <1>14 DEF RemoveOldCc, local, ShapesAt
<1>15. ASSUME NEW p \in Procs, RememberKey(p) PROVE ChainInv'
  BY <1>15 DEF RememberKey, Goto, ShapesAt
<1>16. ASSUME NEW p \in Procs, OpenCc(p) PROVE ChainInv'
  BY <1>16 DEF OpenCc, Goto, ShapesAt
<1>17. ASSUME NEW p \in Procs, WriteCc(p) PROVE ChainInv'
  BY <1>17 DEF WriteCc, Goto, local, ShapesAt
<1>18. ASSUME NEW p \in Procs, SetupDatabase(p) PROVE ChainInv'
  BY <1>18 DEF SetupDatabase, Goto, local, ShapesAt
<1>19. ASSUME NEW p \in Procs, OpenDb(p) PROVE ChainInv'
  BY <1>19 DEF OpenDb, Goto, ShapesAt
<1>20. ASSUME NEW p \in Procs, CreateTable(p) PROVE ChainInv'
  BY <1>20 DEF CreateTable, ShapesAt
<1>21. ASSUME NEW p \in Procs, TableRefused(p) PROVE ChainInv'
  BY <1>21 DEF TableRefused, ExitFailure, local, ShapesAt
<1>22. ASSUME NEW p \in Procs, Close(p) PROVE ChainInv'
  BY <1>22 DEF Close, Goto, local, ShapesAt
<1>23. ASSUME NEW p \in Procs, RunHandler(p) PROVE ChainInv'
  <2>1. pc[p] = "exit1" /\ chain[p] \in {OnKey, OnCc, OnDb, OnDbCc}
    BY <1>23 DEF RunHandler, Exits, ShapesAt, Empty
  <2>2. Pop(chain[p]) \in {Empty, OnCc}
    BY <2>1
  <2>3. chain' = [chain EXCEPT ![p] = Pop(chain[p])] /\ pc' = pc
    BY <1>23 DEF RunHandler
  <2>4. \A q \in Procs \ {p} : keybuf'[q] = keybuf[q]
    BY <1>23 DEF RunHandler
  <2>. QED  BY <2>1, <2>2, <2>3, <2>4 DEF ShapesAt
<1>24. ASSUME NEW p \in Procs, Exit(p) PROVE ChainInv'
  BY <1>24 DEF Exit, local, ShapesAt, Empty
<1>25. ASSUME NEW p \in Procs, SystemFailure(p) PROVE ChainInv'
  BY <1>25 DEF SystemFailure, ExitFailure, local, ShapesAt, Working, Prompts
<1>26. ASSUME NEW p \in Procs, Killed(p) PROVE ChainInv'
  BY <1>26 DEF Killed, local, ShapesAt, Working, Prompts, Exits
<1>. QED
  BY <1>0, <1>1, <1>2, <1>3, <1>4, <1>5, <1>6, <1>7, <1>8, <1>9, <1>10, <1>11,
     <1>12, <1>13, <1>14, <1>15, <1>16, <1>17, <1>18, <1>19, <1>20, <1>21, <1>22,
     <1>23, <1>24, <1>25, <1>26
  DEF Next, Run, Answer

LEMMA ChainAlways == Spec => [](TypeOK /\ ChainInv)
BY InitType, StepType, InitChain, StepChain, PTL DEF Spec

(* No exit frees the key buffer a second time. *)
THEOREM KeyHandlerSafe == Spec => []HandlerSeesLiveKey
<1>1. TypeOK /\ ChainInv => HandlerSeesLiveKey
  <2>. SUFFICES ASSUME TypeOK, ChainInv, NEW p \in Procs,
                       Registered(chain[p], "destroy_key")
                PROVE  keybuf[p] = "live"
    BY DEF HandlerSeesLiveKey
  <2>1. chain[p] \in {Empty, OnKey, OnCc, OnDb, OnDbCc}
    BY DEF ChainInv, ShapesAt
  <2>. QED  BY <2>1, ShapeHeads DEF ChainInv
<1>. QED  BY <1>1, ChainAlways, PTL

(* An init that succeeds has nothing left on its chain. *)
THEOREM SuccessKeepsFiles == Spec => []SuccessCleansNothing
<1>1. ChainInv => SuccessCleansNothing
  BY DEF ChainInv, ShapesAt, SuccessCleansNothing, Empty
<1>. QED  BY <1>1, ChainAlways, PTL

-------------------------------------------------------------------------------
(***************************************************************************)
(* A failed init leaves nothing of its own.  NoLeftovers is about the end  *)
(* of the run; what makes it true is that from the moment a file of p is   *)
(* at a path until p can no longer fail, the handler that removes it is on *)
(* p's chain.                                                              *)
(***************************************************************************)
CleanupInv ==
    \A p \in Procs :
        /\ cred_db = p => \/ pc[p] \in {"tables", "close", "exit0", "done", "killed"}
                          \/ pc[p] = "exit1" /\ chain[p] \in {OnDb, OnDbCc}
        /\ cred_cc = p => \/ pc[p] \in {"writecc", "exit0", "done", "killed"}
                          \/ /\ pc[p] \in {"setup", "opendb", "tables", "close", "exit1"}
                             /\ chain[p] \in {OnCc, OnDbCc}

LEMMA InitCleanup == Init => CleanupInv
BY DEF Init, CleanupInv

LEMMA StepCleanup == TypeOK /\ ChainInv /\ CleanupInv /\ [Next]_vars => CleanupInv'
<1>. SUFFICES ASSUME TypeOK, ChainInv, CleanupInv, [Next]_vars PROVE CleanupInv'
  OBVIOUS
<1>. USE ShapeSteps, ShapesDiffer DEF CleanupInv
<1>types. /\ pc \in [Procs -> {"idle"} \cup Working \cup Exits \cup Ended]
          /\ chain \in [Procs -> Seq(Handlers)]
  BY DEF TypeOK
<1>shape. \A p \in Procs : chain[p] \in ShapesAt(pc[p])
  BY DEF ChainInv
<1>. USE <1>types
<1>0. CASE UNCHANGED vars
  BY <1>0 DEF vars, files, local
<1>1. ASSUME NEW p \in Procs, Start(p) PROVE CleanupInv'
  BY <1>1 DEF Start, Goto, files
<1>2. ASSUME NEW p \in Procs, CheckDb(p) \/ RemoveOldDb(p) PROVE CleanupInv'
  BY <1>2 DEF CheckDb, RemoveOldDb, files, local
<1>3. ASSUME NEW p \in Procs, SkipEncryption(p) \/ AskKey(p) \/ RandomKey(p)
      PROVE  CleanupInv'
  BY <1>3 DEF SkipEncryption, AskKey, RandomKey, TakeKey, Goto, files, local
<1>4. ASSUME NEW p \in Procs, Answer(p) PROVE CleanupInv'
  BY <1>4 DEF Answer, EnterKey, NoKeyEntered, ConfirmKey, MismatchedKey,
              UnconfirmedKey, TakeKey, ExitFailure, Goto, files, local
<1>5. ASSUME NEW p \in Procs, RejectConfig(p) \/ AcceptConfig(p) PROVE CleanupInv'
  BY <1>5 DEF RejectConfig, AcceptConfig, ExitFailure, files, local
<1>6. ASSUME NEW p \in Procs, CheckCc(p) \/ RemoveOldCc(p) PROVE CleanupInv'
  BY <1>6 DEF CheckCc, RemoveOldCc, files, local
<1>7. ASSUME NEW p \in Procs, RememberKey(p) PROVE CleanupInv'
  BY <1>7 DEF RememberKey, Goto, files
<1>8. ASSUME NEW p \in Procs, OpenCc(p) PROVE CleanupInv'
  BY <1>8 DEF OpenCc, Goto
<1>9. ASSUME NEW p \in Procs, WriteCc(p) PROVE CleanupInv'
  <2>1. chain[p] = OnCc
    BY <1>9, <1>shape DEF WriteCc, Goto, ShapesAt
  <2>. QED  BY <1>9, <2>1 DEF WriteCc, Goto
<1>10. ASSUME NEW p \in Procs, SetupDatabase(p) PROVE CleanupInv'
  <2>1. chain[p] \in {Empty, OnCc}
    BY <1>10, <1>shape DEF SetupDatabase, Goto, ShapesAt
  <2>. QED  BY <1>10, <2>1 DEF SetupDatabase, Goto, files
<1>11. ASSUME NEW p \in Procs, OpenDb(p) PROVE CleanupInv'
  BY <1>11 DEF OpenDb, Goto
<1>12. ASSUME NEW p \in Procs, CreateTable(p) PROVE CleanupInv'
  BY <1>12 DEF CreateTable
<1>13. ASSUME NEW p \in Procs, TableRefused(p) PROVE CleanupInv'
  <2>1. chain[p] \in {OnDb, OnDbCc}
    BY <1>13, <1>shape DEF TableRefused, ShapesAt
  <2>. QED  BY <1>13, <2>1 DEF TableRefused, ExitFailure, files
<1>14. ASSUME NEW p \in Procs, Close(p) PROVE CleanupInv'
  BY <1>14 DEF Close, Goto, files
<1>15. ASSUME NEW p \in Procs, RunHandler(p) PROVE CleanupInv'
  <2>1. pc[p] = "exit1" /\ chain[p] \in {OnKey, OnCc, OnDb, OnDbCc}
    BY <1>15, <1>shape DEF RunHandler, Exits, ShapesAt, Empty
  <2>2. /\ cred_db' = IF Newest(chain[p]) = "rm_cred_db" THEN NoFile ELSE cred_db
        /\ cred_cc' = IF Newest(chain[p]) = "rm_cred_cc" THEN NoFile ELSE cred_cc
        /\ chain' = [chain EXCEPT ![p] = Pop(chain[p])] /\ pc' = pc
    BY <1>15 DEF RunHandler
  <2>. QED  BY <2>1, <2>2, ShapeHeads
<1>16. ASSUME NEW p \in Procs, Exit(p) PROVE CleanupInv'
  BY <1>16 DEF Exit, Exits, Empty, files
<1>17. ASSUME NEW p \in Procs, SystemFailure(p) PROVE CleanupInv'
  <2>1. pc[p] \in Working \ {"config", "close"}
    BY <1>17 DEF SystemFailure
  <2>2. /\ pc[p] = "writecc" => chain[p] = OnCc
        /\ pc[p] = "tables" => chain[p] \in {OnDb, OnDbCc}
    BY <1>shape DEF ShapesAt
  <2>. QED
    BY <1>17, <2>1, <2>2 DEF SystemFailure, ExitFailure, files, Working, Prompts
<1>18. ASSUME NEW p \in Procs, Killed(p) PROVE CleanupInv'
  BY <1>18 DEF Killed, files
<1>. QED
  BY <1>0, <1>1, <1>2, <1>3, <1>4, <1>5, <1>6, <1>7, <1>8, <1>9, <1>10, <1>11,
     <1>12, <1>13, <1>14, <1>15, <1>16, <1>17, <1>18
  DEF Next, Run

(* Whatever fails, and whatever other processes do, an init that reports
   failure has removed the files it created. *)
THEOREM FailureLeavesNothing == Spec => []NoLeftovers
<1>1. CleanupInv => NoLeftovers
  BY DEF CleanupInv, NoLeftovers
<1>2. Spec => []CleanupInv
  BY ChainAlways, InitCleanup, StepCleanup, PTL DEF Spec
<1>. QED  BY <1>1, <1>2, PTL

-------------------------------------------------------------------------------
(***************************************************************************)
(* A finished init made a whole database.  The first CREATE TABLE decides  *)
(* which of several inits owns an inode: Owns says p does, an inode has at *)
(* most one owner, and its content is exactly what its owner executed.     *)
(***************************************************************************)
Owns(p) == made[p] > 0

Late == {"tables", "close", "exit0", "exit1", "done", "failed", "killed"}

SchemaInv ==
    /\ \A p \in Procs :
        /\ Owns(p) => pc[p] \in Late
        /\ pc[p] \in {"tables", "close"} => dbfd[p] \in Inodes
        /\ pc[p] = "tables" => made[p] < Statements
        /\ pc[p] \in {"close", "exit0", "done"} => made[p] = Statements
        /\ Owns(p) =>
              /\ dbfd[p] \in Inodes
              /\ dbfile[dbfd[p]] = [cipher |-> CipherOf(opt[p], key[p]),
                                    tables |-> made[p]]
    /\ \A p, q \in Procs :
        Owns(p) /\ Owns(q) /\ dbfd[p] = dbfd[q] => p = q

LEMMA InitSchema == Init => SchemaInv
BY DEF Init, SchemaInv, Owns, Statements

(* A process that has executed nothing and gets no further than its schema, or
   fails, disturbs nobody's database. *)
LEMMA SchemaKept ==
    ASSUME SchemaInv, NEW p \in Procs, pc[p] \notin Late,
           UNCHANGED <<dbfile, dbfd, made>>,
           \A q \in Procs \ {p} : pc'[q] = pc[q] /\ opt'[q] = opt[q] /\ key'[q] = key[q],
           pc'[p] \notin {"tables", "close", "exit0", "done"}
    PROVE  SchemaInv'
<1>1. ~Owns(p)
  BY DEF SchemaInv
<1>. QED  BY <1>1 DEF SchemaInv, Owns, CipherOf

LEMMA StepSchema == TypeOK /\ SchemaInv /\ [Next]_vars => SchemaInv'
<1>. SUFFICES ASSUME TypeOK, SchemaInv, [Next]_vars PROVE SchemaInv'
  OBVIOUS
<1>. USE DEF SchemaInv, Owns, Late
<1>types. /\ pc \in [Procs -> {"idle"} \cup Working \cup Exits \cup Ended]
          /\ dbfd \in [Procs -> Inodes \cup {NoFile}]
          /\ cred_db \in Inodes \cup {NoFile}
          /\ made \in [Procs -> 0..4]
          /\ key \in [Procs -> Keys \cup {NoKey}]
          /\ opt \in [Procs -> AllOptions]
          /\ DOMAIN dbfile = Inodes
  BY DEF TypeOK, Statements
<1>. USE <1>types
<1>0. CASE UNCHANGED vars
  BY <1>0 DEF vars, files, local
<1>1. ASSUME NEW p \in Procs, Start(p) PROVE SchemaInv'
  BY <1>1 DEF Start, Goto, files
<1>2. ASSUME NEW p \in Procs, CheckDb(p) \/ RemoveOldDb(p) PROVE SchemaInv'
  BY <1>2 DEF CheckDb, RemoveOldDb, files, local
<1>3. ASSUME NEW p \in Procs, SkipEncryption(p) \/ AskKey(p) PROVE SchemaInv'
  BY <1>3 DEF SkipEncryption, AskKey, Goto, files, local
<1>4. ASSUME NEW p \in Procs, RandomKey(p) PROVE SchemaInv'
  <2>1. /\ pc[p] = "key" /\ pc' = [pc EXCEPT ![p] = "config"]
        /\ \E k \in RawKeys : key' = [key EXCEPT ![p] = k]
        /\ UNCHANGED <<dbfile, dbfd, made, opt>>
    BY <1>4 DEF RandomKey, TakeKey, Goto, files
  <2>. QED  BY <2>1, SchemaKept DEF Late
<1>5. ASSUME NEW p \in Procs, EnterKey(p) \/ ConfirmKey(p) PROVE SchemaInv'
  <2>1. CASE EnterKey(p)
    BY <2>1 DEF EnterKey, Goto, files
  <2>2. CASE ConfirmKey(p)
    BY <2>2 DEF ConfirmKey, TakeKey, Goto, files
  <2>. QED  BY <1>5, <2>1, <2>2
<1>6. ASSUME NEW p \in Procs, NoKeyEntered(p) PROVE SchemaInv'
  BY <1>6 DEF NoKeyEntered, ExitFailure, files, local
<1>7. ASSUME NEW p \in Procs, MismatchedKey(p) \/ UnconfirmedKey(p) PROVE SchemaInv'
  <2>1. /\ pc[p] = "confirm"
        /\ pc' \in {[pc EXCEPT ![p] = "killed"], [pc EXCEPT ![p] = "prompt"]}
        /\ key' = [key EXCEPT ![p] = NoKey]
        /\ UNCHANGED <<dbfile, dbfd, made, opt>>
    BY <1>7 DEF MismatchedKey, UnconfirmedKey, Goto, files
  <2>. QED  BY <2>1, SchemaKept DEF Late
<1>8. ASSUME NEW p \in Procs, RejectConfig(p) \/ AcceptConfig(p) PROVE SchemaInv'
  BY <1>8 DEF RejectConfig, AcceptConfig, ExitFailure, files, local
<1>9. ASSUME NEW p \in Procs, CheckCc(p) \/ RemoveOldCc(p) PROVE SchemaInv'
  BY <1>9 DEF CheckCc, RemoveOldCc, files, local
<1>10. ASSUME NEW p \in Procs, RememberKey(p) \/ OpenCc(p) \/ WriteCc(p)
       PROVE  SchemaInv'
  BY <1>10 DEF RememberKey, OpenCc, WriteCc, Goto, files, local
<1>11. ASSUME NEW p \in Procs, SetupDatabase(p) PROVE SchemaInv'
  BY <1>11 DEF SetupDatabase, Goto, files, local
<1>12. ASSUME NEW p \in Procs, OpenDb(p) PROVE SchemaInv'
  <2>1. made[p] = 0 /\ made' = made /\ opt' = opt /\ key' = key /\ dbfile' = dbfile
    <3>1. pc[p] = "opendb" /\ UNCHANGED <<made, opt, key, dbfile>>
      BY <1>12 DEF OpenDb, Goto
    <3>2. ~(made[p] > 0)
      BY <3>1
    <3>. QED  BY <3>1, <3>2
  <2>2. dbfd'[p] \in Inodes /\ \A q \in Procs \ {p} : dbfd'[q] = dbfd[q]
    BY <1>12 DEF OpenDb
  <2>. QED  BY <1>12, <2>1, <2>2 DEF OpenDb, Goto, Statements
<1>13. ASSUME NEW p \in Procs, CreateTable(p) PROVE SchemaInv'
  <2>. DEFINE i == dbfd[p]
  <2>1. /\ pc[p] = "tables" /\ i \in Inodes
        /\ made[p] < 4 /\ dbfile[i].tables = made[p]
    BY <1>13 DEF CreateTable, CanCreate, Statements
  <2>2. /\ made' = [made EXCEPT ![p] = made[p] + 1]
        /\ dbfile' = [dbfile EXCEPT ![i] = [cipher |-> CipherOf(opt[p], key[p]),
                                            tables |-> made[p] + 1]]
        /\ pc' = [pc EXCEPT ![p] = IF made[p] + 1 = 4 THEN "close" ELSE pc[p]]
        /\ UNCHANGED <<opt, key, dbfd>>
    BY <1>13 DEF CreateTable, Statements
  <2>3. \A q \in Procs \ {p} : Owns(q) => dbfd[q] # i
    <3>. SUFFICES ASSUME NEW q \in Procs \ {p}, Owns(q), dbfd[q] = i PROVE FALSE
      OBVIOUS
    <3>1. dbfile[i] = [cipher |-> CipherOf(opt[q], key[q]), tables |-> made[q]]
      BY Zenon
    <3>2. dbfile[i].tables = made[q]
      BY <3>1
    <3>. QED  BY <2>1, <3>2
  <2>. HIDE DEF i
  <2>4. \A q \in Procs \ {p} : Owns(q) => dbfile'[dbfd[q]] = dbfile[dbfd[q]]
    BY <2>1, <2>2, <2>3
  <2>5. dbfile'[i] = [cipher |-> CipherOf(opt[p], key[p]), tables |-> made[p] + 1]
    BY <2>1, <2>2
  <2>. QED  BY <2>1, <2>2, <2>3, <2>4, <2>5 DEF i, Statements
<1>14. ASSUME NEW p \in Procs, TableRefused(p) PROVE SchemaInv'
  BY <1>14 DEF TableRefused, ExitFailure, files, local
<1>15. ASSUME NEW p \in Procs, Close(p) PROVE SchemaInv'
  BY <1>15 DEF Close, Goto, files, local
<1>16. ASSUME NEW p \in Procs, RunHandler(p) \/ Exit(p) PROVE SchemaInv'
  BY <1>16 DEF RunHandler, Exit, Exits, files, local
<1>17. ASSUME NEW p \in Procs, SystemFailure(p) \/ Killed(p) PROVE SchemaInv'
  BY <1>17 DEF SystemFailure, Killed, ExitFailure, files, local
<1>. QED
  BY <1>0, <1>1, <1>2, <1>3, <1>4, <1>5, <1>6, <1>7, <1>8, <1>9, <1>10, <1>11,
     <1>12, <1>13, <1>14, <1>15, <1>16, <1>17
  DEF Next, Run, Answer

(* An init that reports success has executed the whole schema in one file,
   encrypted with its own cipher, also when others opened the same file. *)
THEOREM FinishedInitIsComplete == Spec => []FinishedMeansComplete
<1>1. SchemaInv => FinishedMeansComplete
  <2>. SUFFICES ASSUME SchemaInv, NEW p \in Procs, pc[p] = "done"
                PROVE  dbfile[dbfd[p]] = [cipher |-> CipherOf(opt[p], key[p]),
                                          tables |-> Statements]
    BY DEF FinishedMeansComplete
  <2>1. made[p] = Statements
    BY DEF SchemaInv
  <2>2. Owns(p)
    BY <2>1 DEF Owns, Statements
  <2>3. dbfile[dbfd[p]] = [cipher |-> CipherOf(opt[p], key[p]), tables |-> made[p]]
    BY <2>2 DEF SchemaInv
  <2>. QED  BY <2>1, <2>3
<1>2. Spec => [](TypeOK /\ SchemaInv)
  BY InitType, StepType, InitSchema, StepSchema, PTL DEF Spec
<1>. QED  BY <1>1, <1>2, PTL

-------------------------------------------------------------------------------
(***************************************************************************)
(* How the database of a finished init is lost.  What an init has found in *)
(* its way when it checked the path does not come back to it: an inode is  *)
(* put there once, when it is created.                                     *)
(***************************************************************************)
Step(p) == Start(p) \/ Run(p) \/ Answer(p) \/ SystemFailure(p) \/ Killed(p)

(* From the check of the database path to its creation. *)
FreeDb == {"key", "prompt", "confirm", "config", "chkcc", "rmcc", "remember",
           "opencc", "writecc", "setup", "opendb"}

(* An init that has passed its check and may still remove what is there. *)
Passed(p) == \/ pc[p] \in FreeDb \cup {"tables", "close"}
             \/ pc[p] = "exit1" /\ chain[p] # Empty

LostInv ==
    \A p \in Procs :
        /\ pc[p] = "rmdb" => opt[p].force
        /\ Passed(p) => before[p].db = NoFile \/ cred_db # before[p].db
        /\ before[p].db \in Procs => pc[before[p].db] \in Late

LEMMA InitLost == Init => LostInv
BY DEF Init, LostInv, Passed, FreeDb

(* A step of one process leaves the others where they are. *)
LEMMA StepLocal ==
    ASSUME TypeOK, NEW p \in Procs, Step(p), NEW q \in Procs, q # p
    PROVE  /\ pc'[q] = pc[q] /\ chain'[q] = chain[q] /\ opt'[q] = opt[q]
           /\ key'[q] = key[q] /\ printed'[q] = printed[q]
           /\ before'[q] = before[q] /\ dbfd'[q] = dbfd[q] /\ ccfd'[q] = ccfd[q]
<1>. USE DEF TypeOK
<1>1. CASE Start(p) \/ SystemFailure(p) \/ Killed(p)
  BY <1>1 DEF Start, SystemFailure, Killed, Goto, ExitFailure, local
<1>2. CASE Answer(p)
  BY <1>2 DEF Answer, EnterKey, NoKeyEntered, ConfirmKey, MismatchedKey,
              UnconfirmedKey, TakeKey, Goto, ExitFailure, local
<1>3. CASE CheckDb(p) \/ RemoveOldDb(p) \/ SkipEncryption(p) \/ AskKey(p) \/ RandomKey(p)
  BY <1>3 DEF CheckDb, RemoveOldDb, SkipEncryption, AskKey, RandomKey, TakeKey, Goto, local
<1>4. CASE \/ RejectConfig(p) \/ AcceptConfig(p) \/ CheckCc(p) \/ RemoveOldCc(p)
           \/ RememberKey(p)
  BY <1>4 DEF RejectConfig, AcceptConfig, CheckCc, RemoveOldCc, RememberKey, Goto,
              ExitFailure, local
<1>5. CASE OpenCc(p) \/ WriteCc(p) \/ SetupDatabase(p) \/ OpenDb(p) \/ CreateTable(p)
  BY <1>5 DEF OpenCc, WriteCc, SetupDatabase, OpenDb, CreateTable, Goto, local
<1>6. CASE TableRefused(p) \/ Close(p) \/ RunHandler(p) \/ Exit(p)
  BY <1>6 DEF TableRefused, Close, RunHandler, Exit, Goto, ExitFailure, local
<1>. QED  BY <1>1, <1>2, <1>3, <1>4, <1>5, <1>6 DEF Step, Run

(* What a step does to the database path, and where it leads. *)
LEMMA StepPath ==
    ASSUME TypeOK, ChainInv, NEW p \in Procs, Step(p)
    PROVE  /\ cred_db' \in {cred_db, NoFile} \/ (cred_db' = p /\ pc[p] = "opendb")
           /\ pc[p] \in Late => pc'[p] \in Late
           /\ Passed(p)' => Passed(p) \/ cred_db' = NoFile
           /\ pc'[p] = "rmdb" => opt'[p].force \/ pc[p] = "rmdb"
           /\ Start(p) \/ (before'[p] = before[p] /\ opt'[p] = opt[p])
<1>. USE DEF Passed, FreeDb, Late
<1>types. /\ pc \in [Procs -> {"idle"} \cup Working \cup Exits \cup Ended]
          /\ chain \in [Procs -> Seq(Handlers)]
          /\ chain[p] \in ShapesAt(pc[p])
  BY DEF TypeOK, ChainInv
<1>. USE <1>types
<1>1. CASE Start(p)
  BY <1>1 DEF Start, Goto, files
<1>2. CASE CheckDb(p) \/ RemoveOldDb(p)
  BY <1>2 DEF CheckDb, RemoveOldDb, files, local, ShapesAt
<1>3. CASE SkipEncryption(p) \/ AskKey(p) \/ RandomKey(p)
  BY <1>3 DEF SkipEncryption, AskKey, RandomKey, TakeKey, Goto, files, local
<1>4. CASE EnterKey(p) \/ NoKeyEntered(p) \/ ConfirmKey(p)
  BY <1>4 DEF EnterKey, NoKeyEntered, ConfirmKey, TakeKey, Goto, ExitFailure, files, local
<1>5. CASE MismatchedKey(p) \/ UnconfirmedKey(p)
  BY <1>5 DEF MismatchedKey, UnconfirmedKey, Goto, files
<1>6. CASE RejectConfig(p) \/ AcceptConfig(p)
  BY <1>6 DEF RejectConfig, AcceptConfig, ExitFailure, files, local
<1>7. CASE CheckCc(p) \/ RemoveOldCc(p) \/ RememberKey(p)
  BY <1>7 DEF CheckCc, RemoveOldCc, RememberKey, Goto, files, local
<1>8. CASE OpenCc(p) \/ WriteCc(p) \/ SetupDatabase(p) \/ OpenDb(p)
  BY <1>8 DEF OpenCc, WriteCc, SetupDatabase, OpenDb, Goto, files, local
<1>9. CASE CreateTable(p) \/ TableRefused(p) \/ Close(p)
  BY <1>9 DEF CreateTable, TableRefused, Close, Goto, ExitFailure, files, local
<1>10. CASE RunHandler(p)
  <2>1. chain[p] # Empty /\ pc' = pc /\ pc[p] \in {"exit0", "exit1"}
    BY <1>10 DEF RunHandler, Exits, Empty
  <2>. QED  BY <1>10, <2>1, ShapesDiffer DEF RunHandler, ShapesAt
<1>11. CASE Exit(p)
  BY <1>11 DEF Exit, Exits, files, local
<1>12. CASE SystemFailure(p) \/ Killed(p)
  <2>1. /\ UNCHANGED <<files, local, chain>>
        /\ pc' \in {[pc EXCEPT ![p] = "exit1"], [pc EXCEPT ![p] = "killed"]}
        /\ pc'[p] = "exit1" => pc[p] \in Working
    BY <1>12 DEF SystemFailure, Killed, ExitFailure
  <2>2. pc[p] \in Working /\ chain[p] # Empty => Passed(p)
    BY ShapesDiffer DEF Working, Prompts, ShapesAt
  <2>. QED  BY <2>1, <2>2 DEF files, local
<1>. QED
  BY <1>1, <1>2, <1>3, <1>4, <1>5, <1>6, <1>7, <1>8, <1>9, <1>10, <1>11, <1>12
     DEF Step, Run, Answer

LEMMA StepLost ==
    ASSUME TypeOK, ChainInv, CleanupInv, LostInv, [Next]_vars
    PROVE  LostInv'
<1>0. CASE UNCHANGED vars
  BY <1>0 DEF vars, files, local, LostInv, Passed
<1>1. ASSUME NEW p \in Procs, Step(p) PROVE LostInv'
  <2>. SUFFICES ASSUME NEW q \in Procs
                PROVE  /\ pc'[q] = "rmdb" => opt'[q].force
                       /\ Passed(q)' => before'[q].db = NoFile \/ cred_db' # before'[q].db
                       /\ before'[q].db \in Procs => pc'[before'[q].db] \in Late
    BY DEF LostInv
  <2>late. \A r \in Procs : pc[r] \in Late => pc'[r] \in Late
    BY <1>1, StepLocal, StepPath
  <2>1. CASE Start(p) /\ q = p
    <3>1. before'[p].db = cred_db /\ pc'[p] = "chkdb" /\ pc[p] = "idle"
      BY <2>1 DEF Start, Goto, TypeOK
    <3>2. cred_db \in Procs => pc[cred_db] \in Late
      BY DEF CleanupInv, Late
    <3>. QED  BY <2>1, <2>late, <3>1, <3>2 DEF Passed, FreeDb
  <2>2. CASE ~(Start(p) /\ q = p)
    <3>1. before'[q] = before[q] /\ opt'[q] = opt[q]
      BY <1>1, <2>2, StepLocal, StepPath
    <3>2. Passed(q)' => Passed(q) \/ cred_db' = NoFile
      <4>1. CASE q = p
        BY <1>1, <4>1, StepPath
      <4>2. CASE q # p
        BY <1>1, <4>2, StepLocal DEF Passed
      <4>. QED  BY <4>1, <4>2
    <3>3. cred_db' = before[q].db => cred_db' \in {cred_db, NoFile}
      <4>1. CASE cred_db' = p /\ pc[p] = "opendb" /\ before[q].db = p
        BY <4>1 DEF LostInv, Late
      <4>. QED  BY <1>1, <4>1, StepPath
    <3>4. pc'[q] = "rmdb" => opt'[q].force
      BY <1>1, <3>1, StepLocal, StepPath DEF LostInv
    <3>5. Passed(q)' => before[q].db = NoFile \/ cred_db' # before[q].db
      BY <3>2, <3>3 DEF LostInv
    <3>. QED  BY <2>late, <3>1, <3>4, <3>5 DEF LostInv
  <2>. QED  BY <2>1, <2>2
<1>. QED  BY <1>0, <1>1 DEF Next, Step, vars

(* The database of a finished init leaves its path in two ways only: an init
   with --force removes it, or one that checked the path before it was there
   fails and runs rm_cred_db. *)
THEOREM FinishedDbIsSafe == Spec => FinishedDbLost
<1>. DEFINE Lost ==
        \A q \in Procs :
          pc[q] = "done" /\ cred_db = dbfd[q] /\ cred_db' # cred_db =>
              \E p \in Procs :
                  \/ opt[p].force /\ pc[p] = "rmdb" /\ pc'[p] # "rmdb"
                  \/ /\ pc[p] = "exit1" /\ chain'[p] # chain[p]
                     /\ before[p].db # dbfd[q]
<1>1. ASSUME TypeOK, ChainInv, SchemaInv, LostInv, [Next]_vars PROVE [Lost]_vars
  <2>. SUFFICES ASSUME NEW q \in Procs, pc[q] = "done", cred_db = dbfd[q],
                       cred_db' # cred_db
                PROVE  \E p \in Procs :
                          \/ opt[p].force /\ pc[p] = "rmdb" /\ pc'[p] # "rmdb"
                          \/ /\ pc[p] = "exit1" /\ chain'[p] # chain[p]
                             /\ before[p].db # dbfd[q]
    OBVIOUS
  <2>1. cred_db \in Inodes
    <3>1. made[q] = Statements
      BY <1>1 DEF SchemaInv
    <3>2. Owns(q)
      BY <3>1 DEF Owns, Statements
    <3>. QED  BY <1>1, <3>2 DEF SchemaInv
  <2>2. PICK p \in Procs : RemoveOldDb(p) \/ OpenDb(p) \/ RunHandler(p)
    BY <1>1 DEF Next, Run, Answer, Start, CheckDb, SkipEncryption, AskKey, RandomKey,
                EnterKey, NoKeyEntered, ConfirmKey, MismatchedKey, UnconfirmedKey,
                RejectConfig, AcceptConfig, CheckCc, RemoveOldCc, RememberKey, OpenCc,
                WriteCc, SetupDatabase, CreateTable, TableRefused, Close, Exit,
                SystemFailure, Killed, vars, files
  <2>3. CASE RemoveOldDb(p)
    <3>1. pc[p] = "rmdb" /\ pc'[p] # "rmdb"
      BY <1>1, <2>3 DEF RemoveOldDb, TypeOK
    <3>. QED  BY <1>1, <3>1 DEF LostInv
  <2>4. CASE OpenDb(p)
    BY <2>1, <2>4 DEF OpenDb
  <2>5. CASE RunHandler(p)
    <3>1. chain[p] # Empty /\ pc[p] \in {"exit0", "exit1"}
      BY <2>5 DEF RunHandler, Exits, Empty
    <3>2. pc[p] = "exit1" /\ chain[p] \in {OnKey, OnCc, OnDb, OnDbCc}
      BY <1>1, <3>1 DEF ChainInv, ShapesAt
    <3>3. chain'[p] = Pop(chain[p])
      BY <1>1, <2>5 DEF RunHandler, TypeOK
    <3>4. chain'[p] # chain[p]
      BY <3>2, <3>3, ShapeSteps, ShapesDiffer
    <3>5. before[p].db # cred_db
      BY <1>1, <2>1, <3>1, <3>2 DEF LostInv, Passed
    <3>. QED  BY <3>2, <3>4, <3>5
  <2>. QED  BY <2>2, <2>3, <2>4, <2>5
<1>2. TypeOK /\ ChainInv /\ CleanupInv /\ LostInv /\ [Next]_vars => LostInv'
  BY StepLost
<1>. QED
  BY <1>1, <1>2, ChainAlways, InitCleanup, StepCleanup, InitSchema, StepSchema, InitLost,
     PTL DEF Spec, FinishedDbLost

-------------------------------------------------------------------------------
(***************************************************************************)
(* Inits that run one after the other.                                     *)
(***************************************************************************)
Active(p) == pc[p] \in Working \cup Exits

AloneInv == \A p, q \in Procs : Active(p) /\ Active(q) => p = q

(* Before the cipher config is created, and from its end to success. *)
BeforeCc == {"idle", "chkdb", "rmdb", "key", "prompt", "confirm", "config",
             "chkcc", "rmcc", "remember", "opencc"}
Finishing == {"setup", "opendb", "tables", "close", "exit0", "done"}

(* What is at the paths of an init that may have created files there: nothing,
   or its own. *)
PathOK(p) ==
    /\ pc[p] \in {"rmdb", "rmcc"} => opt[p].force
    /\ pc[p] \in FreeDb => cred_db = NoFile
    /\ pc[p] \in {"remember", "opencc"} => cred_cc = NoFile
    /\ chain[p] # Empty /\ pc[p] # "killed" => cred_db \in {NoFile, p}
    /\ chain[p] \in {OnCc, OnDbCc} /\ pc[p] # "killed" => cred_cc \in {NoFile, p}
    /\ dbfd[p] \in {NoFile, p} /\ ccfd[p] \in {NoFile, p}

(* The config an init has written stays what it wrote, and at its path as long
   as the init's database is. *)
ConfigOK(p) ==
    /\ pc[p] \in BeforeCc => ccfd[p] = NoFile
    /\ pc[p] = "writecc" => cred_cc = p /\ ccfd[p] = p
    /\ ccfd[p] = p /\ pc[p] \in Finishing =>
          /\ ccfile[p] = ConfigOf(opt[p], key[p])
          /\ cred_cc = p \/ (pc[p] = "done" /\ cred_db # p)

(* What an init without --force finds is there to its end, and it creates
   files only where there were none. *)
BeforeOK(p) ==
    Active(p) /\ ~opt[p].force =>
        /\ cred_db = before[p].db \/ (before[p].db = NoFile /\ cred_db = p)
        /\ cred_cc = before[p].cc \/ (before[p].cc = NoFile /\ cred_cc = p)
        /\ chain[p] # Empty => before[p].db = NoFile
        /\ chain[p] \in {OnCc, OnDbCc} => before[p].cc = NoFile

(* Where the key came from, and where it has gone. *)
KeySafe(p) ==
    \/ opt[p].cmdkey \/ printed[p] \/ (ccfd[p] = p /\ ~PrintsKey(opt[p]))
    \/ opt[p].remember = 0 /\ opt[p].hmac \in {"unset", "default"}

KeyOK(p) ==
    /\ pc[p] \in {"idle", "chkdb", "rmdb", "key"} => key[p] = NoKey
    /\ pc[p] \in {"prompt", "confirm"} => opt[p].cmdkey
    /\ pc[p] \in {"config", "chkcc", "rmcc", "remember", "opencc", "writecc"} =>
          opt[p].cmdkey \/ key[p] \in RawKeys
    /\ pc[p] \in {"opencc", "writecc"} => printed[p] = PrintsKey(opt[p])
    /\ pc[p] \in Finishing /\ key[p] # NoKey => KeySafe(p)

OwnOK(p) == PathOK(p) /\ ConfigOK(p) /\ BeforeOK(p) /\ KeyOK(p)

SerialInv == AloneInv /\ \A p \in Procs : OwnOK(p)

LEMMA InitSerial == Init => SerialInv
<1>. SUFFICES ASSUME Init PROVE SerialInv
  OBVIOUS
<1>1. \A p \in Procs : ~Active(p)
  BY DEF Init, Active, Working, Prompts, Exits
<1>2. ASSUME NEW p \in Procs PROVE PathOK(p) /\ ConfigOK(p)
  BY ShapesDiffer DEF Init, PathOK, ConfigOK, FreeDb, BeforeCc, Finishing, Empty
<1>3. ASSUME NEW p \in Procs PROVE BeforeOK(p) /\ KeyOK(p)
  BY <1>1 DEF Init, BeforeOK, KeyOK, Finishing
<1>. QED  BY <1>1, <1>2, <1>3 DEF SerialInv, AloneInv, OwnOK

(* A running init is the only one, and another one starts when none runs. *)
LEMMA StepAlone ==
    ASSUME TypeOK, ~Overlap, AloneInv, NEW p \in Procs, Step(p)
    PROVE  /\ \A q \in Procs : q # p => ~Active(q)
           /\ AloneInv'
<1>1. ASSUME NEW q \in Procs, q # p PROVE ~Active(q)
  <2>1. CASE Start(p)
    BY <1>1, <2>1 DEF Start, Active, Working, Prompts, Exits, Ended
  <2>2. CASE ~Start(p)
    <3>1. Active(p)
      BY <2>2 DEF Step, Run, Answer, CheckDb, RemoveOldDb, SkipEncryption, AskKey, RandomKey,
                  EnterKey, NoKeyEntered, ConfirmKey, MismatchedKey, UnconfirmedKey,
                  RejectConfig, AcceptConfig, CheckCc, RemoveOldCc, RememberKey, OpenCc,
                  WriteCc, SetupDatabase, OpenDb, CreateTable, TableRefused, Close,
                  RunHandler, Exit, SystemFailure, Killed, Goto, Active, Working, Prompts
    <3>. QED  BY <1>1, <3>1 DEF AloneInv
  <2>. QED  BY <2>1, <2>2
<1>2. \A q \in Procs : q # p => ~Active(q)'
  BY <1>1, StepLocal DEF Active
<1>. QED  BY <1>1, <1>2 DEF AloneInv

(* What a running init does to the files, as far as the others are
   concerned. *)
LEMMA StepFiles ==
    ASSUME TypeOK, ChainInv, NEW p \in Procs, PathOK(p), ConfigOK(p), Step(p),
           NEW q \in Procs, q # p
    PROVE  /\ ccfile'[q] = ccfile[q]
           /\ cred_db' = q => cred_db = q /\ cred_cc' = cred_cc
<1>. USE DEF TypeOK, PathOK, FreeDb
<1>1. CASE RemoveOldDb(p) \/ RemoveOldCc(p)
  BY <1>1 DEF RemoveOldDb, RemoveOldCc
<1>2. CASE OpenCc(p) \/ WriteCc(p)
  BY <1>2 DEF OpenCc, WriteCc, Goto, ConfigOK
<1>3. CASE OpenDb(p) \/ CreateTable(p)
  BY <1>3 DEF OpenDb, CreateTable, Goto
<1>4. CASE RunHandler(p)
  <2>1. chain[p] # Empty /\ pc[p] # "killed"
    BY <1>4 DEF RunHandler, Exits, Empty
  <2>2. cred_db \in {NoFile, p} /\ cred_db' \in {cred_db, NoFile} /\ ccfile' = ccfile
    BY <1>4, <2>1 DEF RunHandler
  <2>. QED  BY <2>2
<1>5. CASE UNCHANGED files
  BY <1>5 DEF files
<1>6. \/ RemoveOldDb(p) \/ RemoveOldCc(p) \/ OpenCc(p) \/ WriteCc(p)
      \/ OpenDb(p) \/ CreateTable(p) \/ RunHandler(p) \/ UNCHANGED files
  BY DEF Step, Run, Answer, Start, CheckDb, SkipEncryption, AskKey, RandomKey,
         EnterKey, NoKeyEntered, ConfirmKey, MismatchedKey, UnconfirmedKey,
         RejectConfig, AcceptConfig, CheckCc, RememberKey, SetupDatabase,
         TableRefused, Close, Exit, SystemFailure, Killed
<1>. QED  BY <1>1, <1>2, <1>3, <1>4, <1>5, <1>6

(* An init that is not running is as it was. *)
LEMMA OthersOwn ==
    ASSUME TypeOK, ChainInv, NEW p \in Procs, OwnOK(p), Step(p),
           NEW q \in Procs, q # p, OwnOK(q), ~Active(q)
    PROVE  OwnOK(q)'
<1>1. /\ pc'[q] = pc[q] /\ chain'[q] = chain[q] /\ opt'[q] = opt[q]
      /\ key'[q] = key[q] /\ printed'[q] = printed[q]
      /\ before'[q] = before[q] /\ dbfd'[q] = dbfd[q] /\ ccfd'[q] = ccfd[q]
  BY StepLocal
<1>2. /\ ccfile'[q] = ccfile[q]
      /\ cred_db' = q => cred_db = q /\ cred_cc' = cred_cc
  BY StepFiles DEF OwnOK
<1>3. pc[q] \in {"idle"} \cup Ended /\ (pc[q] # "killed" => chain[q] = Empty)
  <2>1. pc[q] \in {"idle"} \cup Ended
    BY DEF TypeOK, Active
  <2>. QED  BY <2>1 DEF ChainInv, ShapesAt, Ended
<1>4. PathOK(q)'
  BY <1>1, <1>3, ShapesDiffer DEF OwnOK, PathOK, FreeDb, Ended
<1>5. ConfigOK(q)'
  BY <1>1, <1>2, <1>3 DEF OwnOK, ConfigOK, Finishing, BeforeCc, Ended, ConfigOf, CipherOf
<1>6. BeforeOK(q)' /\ KeyOK(q)'
  BY <1>1 DEF OwnOK, BeforeOK, KeyOK, KeySafe, Active
<1>. QED  BY <1>4, <1>5, <1>6 DEF OwnOK

(* The step itself, part by part. *)
LEMMA StepOwnPath ==
    ASSUME TypeOK, ChainInv, NEW p \in Procs, PathOK(p), ConfigOK(p), Step(p)
    PROVE  PathOK(p)'
<1>. USE ShapeSteps, ShapesDiffer DEF PathOK, FreeDb
<1>types. /\ pc \in [Procs -> {"idle"} \cup Working \cup Exits \cup Ended]
          /\ chain \in [Procs -> Seq(Handlers)]
          /\ dbfd \in [Procs -> Inodes \cup {NoFile}]
          /\ ccfd \in [Procs -> Inodes \cup {NoFile}]
          /\ opt \in [Procs -> AllOptions]
  BY DEF TypeOK
<1>shape. chain[p] \in ShapesAt(pc[p])
  BY DEF ChainInv
<1>. USE <1>types, <1>shape
<1>1. CASE Start(p)
  BY <1>1 DEF Start, Goto, ShapesAt
<1>2. CASE CheckDb(p) \/ RemoveOldDb(p)
  BY <1>2 DEF CheckDb, RemoveOldDb, files, local, ShapesAt
<1>3. CASE SkipEncryption(p) \/ AskKey(p)
  BY <1>3 DEF SkipEncryption, AskKey, Goto, files, local, ShapesAt
<1>4. CASE RandomKey(p)
  BY <1>4 DEF RandomKey, TakeKey, Goto, files, ShapesAt
<1>5. CASE EnterKey(p) \/ NoKeyEntered(p)
  BY <1>5 DEF EnterKey, NoKeyEntered, Goto, ExitFailure, files, local, ShapesAt
<1>6. CASE ConfirmKey(p)
  BY <1>6 DEF ConfirmKey, TakeKey, Goto, files, ShapesAt
<1>7. CASE MismatchedKey(p) \/ UnconfirmedKey(p)
  BY <1>7 DEF MismatchedKey, UnconfirmedKey, Goto, files
<1>8. CASE RejectConfig(p) \/ AcceptConfig(p)
  BY <1>8 DEF RejectConfig, AcceptConfig, ExitFailure, files, local, ShapesAt
<1>9. CASE CheckCc(p) \/ RemoveOldCc(p)
  BY <1>9 DEF CheckCc, RemoveOldCc, files, local, ShapesAt
<1>10. CASE RememberKey(p)
  BY <1>10 DEF RememberKey, Goto, files, ShapesAt
<1>11. CASE OpenCc(p)
  BY <1>11 DEF OpenCc, Goto
<1>12. CASE WriteCc(p) \/ SetupDatabase(p)
  BY <1>12 DEF WriteCc, SetupDatabase, Goto, files, local, ShapesAt
<1>13. CASE OpenDb(p)
  BY <1>13 DEF OpenDb, Goto
<1>14. CASE CreateTable(p) \/ TableRefused(p) \/ Close(p)
  BY <1>14 DEF CreateTable, TableRefused, Close, Goto, ExitFailure, files, local, ShapesAt
<1>15. CASE RunHandler(p)
  <2>1. pc[p] = "exit1" /\ chain[p] \in {OnKey, OnCc, OnDb, OnDbCc}
    BY <1>15 DEF RunHandler, Exits, ShapesAt, Empty
  <2>2. /\ cred_db' = IF Newest(chain[p]) = "rm_cred_db" THEN NoFile ELSE cred_db
        /\ cred_cc' = IF Newest(chain[p]) = "rm_cred_cc" THEN NoFile ELSE cred_cc
        /\ chain'[p] = Pop(chain[p]) /\ UNCHANGED <<pc, dbfd, ccfd>>
    BY <1>15 DEF RunHandler
  <2>. QED  BY <2>1, <2>2
<1>16. CASE Exit(p)
  BY <1>16 DEF Exit, Exits, files, local, Empty
<1>17. CASE SystemFailure(p) \/ Killed(p)
  <2>1. /\ UNCHANGED <<cred_db, cred_cc, chain, dbfd, ccfd>>
        /\ pc'[p] \in {"exit1", "killed"} /\ pc[p] # "killed"
    BY <1>17 DEF SystemFailure, Killed, ExitFailure, files, local, Working, Prompts, Exits
  <2>. QED  BY <2>1
<1>. QED
  BY <1>1, <1>2, <1>3, <1>4, <1>5, <1>6, <1>7, <1>8, <1>9, <1>10, <1>11, <1>12, <1>13,
     <1>14, <1>15, <1>16, <1>17 DEF Step, Run, Answer

LEMMA StepOwnConfig ==
    ASSUME TypeOK, ChainInv, NEW p \in Procs, PathOK(p), ConfigOK(p), Step(p)
    PROVE  ConfigOK(p)'
<1>. USE DEF ConfigOK, BeforeCc, Finishing
<1>types. /\ pc \in [Procs -> {"idle"} \cup Working \cup Exits \cup Ended]
          /\ ccfd \in [Procs -> Inodes \cup {NoFile}]
          /\ DOMAIN ccfile = Inodes
  BY DEF TypeOK
<1>shape. chain[p] \in ShapesAt(pc[p])
  BY DEF ChainInv
<1>. USE <1>types
<1>1. ASSUME pc'[p] \in BeforeCc \cup {"exit1", "killed", "failed"},
             pc[p] \in BeforeCc \/ pc'[p] \notin BeforeCc, ccfd' = ccfd
      PROVE  ConfigOK(p)'
  BY <1>1
<1>2. CASE \/ Start(p) \/ CheckDb(p) \/ RemoveOldDb(p) \/ AskKey(p) \/ RandomKey(p)
           \/ Answer(p)
  <2>1. CASE Start(p) \/ CheckDb(p) \/ RemoveOldDb(p)
    BY <1>1, <2>1 DEF Start, CheckDb, RemoveOldDb, Goto, local
  <2>2. CASE AskKey(p) \/ RandomKey(p)
    BY <1>1, <2>2 DEF AskKey, RandomKey, TakeKey, Goto, local
  <2>3. CASE Answer(p)
    BY <1>1, <2>3 DEF Answer, EnterKey, NoKeyEntered, ConfirmKey, MismatchedKey,
                      UnconfirmedKey, TakeKey, Goto, ExitFailure, local
  <2>. QED  BY <1>2, <2>1, <2>2, <2>3
<1>3. CASE \/ RejectConfig(p) \/ CheckCc(p) \/ RemoveOldCc(p) \/ RememberKey(p)
           \/ TableRefused(p) \/ SystemFailure(p) \/ Killed(p)
  <2>1. CASE RejectConfig(p) \/ CheckCc(p) \/ RemoveOldCc(p) \/ RememberKey(p)
    BY <1>1, <2>1 DEF RejectConfig, CheckCc, RemoveOldCc, RememberKey, Goto, ExitFailure,
                      local
  <2>2. CASE TableRefused(p) \/ SystemFailure(p) \/ Killed(p)
    BY <1>1, <2>2 DEF TableRefused, SystemFailure, Killed, ExitFailure, local
  <2>. QED  BY <1>3, <2>1, <2>2
<1>4. CASE SkipEncryption(p) \/ AcceptConfig(p)
  <2>1. ccfd'[p] = NoFile /\ pc'[p] # "writecc" /\ (pc'[p] \in BeforeCc => ccfd'[p] = NoFile)
    BY <1>4 DEF SkipEncryption, AcceptConfig, Goto, local
  <2>. QED  BY <2>1
<1>5. CASE OpenCc(p)
  BY <1>5 DEF OpenCc, Goto, PathOK
<1>6. CASE WriteCc(p)
  <2>1. /\ pc[p] = "writecc" /\ cred_cc = p /\ ccfd[p] = p /\ pc'[p] = "setup"
        /\ ccfile' = [ccfile EXCEPT ![p] = ConfigOf(opt[p], key[p])]
        /\ UNCHANGED <<cred_cc, ccfd, opt, key>>
    BY <1>6 DEF WriteCc, Goto, local
  <2>. QED  BY <2>1 DEF ConfigOf, CipherOf
<1>7. CASE SetupDatabase(p) \/ OpenDb(p) \/ CreateTable(p) \/ Close(p)
  <2>1. /\ pc[p] \in Finishing \ {"done"} /\ pc'[p] \in Finishing
        /\ UNCHANGED <<ccfile, cred_cc, ccfd, opt, key>>
    BY <1>7 DEF SetupDatabase, OpenDb, CreateTable, Close, Goto, files, local
  <2>. QED  BY <2>1 DEF ConfigOf, CipherOf
<1>8. CASE RunHandler(p)
  <2>1. pc[p] = "exit1" /\ pc' = pc
    BY <1>8, <1>shape DEF RunHandler, Exits, ShapesAt, Empty
  <2>. QED  BY <2>1
<1>9. CASE Exit(p)
  <2>1. CASE pc[p] = "exit0"
    <3>1. pc'[p] = "done" /\ UNCHANGED <<ccfile, cred_cc, ccfd, opt, key>>
      BY <1>9, <2>1 DEF Exit, files, local
    <3>. QED  BY <2>1, <3>1 DEF ConfigOf, CipherOf
  <2>2. CASE pc[p] = "exit1"
    BY <1>1, <1>9, <2>2 DEF Exit, local
  <2>. QED  BY <1>9, <2>1, <2>2 DEF Exit, Exits
<1>. QED
  BY <1>2, <1>3, <1>4, <1>5, <1>6, <1>7, <1>8, <1>9 DEF Step, Run

LEMMA StepOwnBefore ==
    ASSUME TypeOK, ChainInv, NEW p \in Procs, PathOK(p), ConfigOK(p), BeforeOK(p), Step(p)
    PROVE  BeforeOK(p)'
<1>. USE ShapeSteps, ShapesDiffer DEF BeforeOK
<1>types. /\ pc \in [Procs -> {"idle"} \cup Working \cup Exits \cup Ended]
          /\ chain \in [Procs -> Seq(Handlers)]
          /\ before \in [Procs -> [db : Inodes \cup {NoFile}, cc : Inodes \cup {NoFile}]]
          /\ opt \in [Procs -> AllOptions]
  BY DEF TypeOK
<1>shape. chain[p] \in ShapesAt(pc[p])
  BY DEF ChainInv
<1>. USE <1>types, <1>shape
<1>0. ~Start(p) => Active(p) /\ before'[p] = before[p] /\ opt'[p] = opt[p]
  <2>1. ~Start(p) => Active(p)
    BY DEF Step, Run, Answer, CheckDb, RemoveOldDb, SkipEncryption, AskKey, RandomKey,
           EnterKey, NoKeyEntered, ConfirmKey, MismatchedKey, UnconfirmedKey,
           RejectConfig, AcceptConfig, CheckCc, RemoveOldCc, RememberKey, OpenCc,
           WriteCc, SetupDatabase, OpenDb, CreateTable, TableRefused, Close,
           RunHandler, Exit, SystemFailure, Killed, Goto, Active, Working, Prompts
  <2>. QED  BY <2>1, StepPath
<1>1. CASE Start(p)
  BY <1>1 DEF Start, Goto, ShapesAt, files
<1>. SUFFICES ASSUME ~Start(p), ~opt[p].force PROVE BeforeOK(p)'
  BY <1>0, <1>1
<1>2. ASSUME UNCHANGED <<cred_db, cred_cc>>,
             \/ chain' = chain
             \/ chain'[p] = OnKey /\ pc[p] \in FreeDb
             \/ chain'[p] = Empty
      PROVE  BeforeOK(p)'
  BY <1>0, <1>2 DEF PathOK
<1>3. CASE \/ CheckDb(p) \/ SkipEncryption(p) \/ AskKey(p) \/ EnterKey(p) \/ NoKeyEntered(p)
           \/ MismatchedKey(p) \/ UnconfirmedKey(p) \/ RejectConfig(p) \/ CheckCc(p)
  <2>1. UNCHANGED <<cred_db, cred_cc, chain>>
    BY <1>3 DEF CheckDb, SkipEncryption, AskKey, EnterKey, NoKeyEntered, MismatchedKey,
                UnconfirmedKey, RejectConfig, CheckCc, files
  <2>. QED  BY <1>2, <2>1
<1>4. CASE \/ WriteCc(p) \/ CreateTable(p) \/ TableRefused(p) \/ Exit(p)
           \/ SystemFailure(p) \/ Killed(p)
  <2>1. UNCHANGED <<cred_db, cred_cc, chain>>
    BY <1>4 DEF WriteCc, CreateTable, TableRefused, Exit, SystemFailure, Killed, files
  <2>. QED  BY <1>2, <2>1
<1>5. CASE RandomKey(p) \/ ConfirmKey(p)
  <2>1. pc[p] \in FreeDb /\ chain[p] = Empty /\ UNCHANGED <<cred_db, cred_cc>>
    BY <1>5 DEF RandomKey, ConfirmKey, Goto, FreeDb, files, ShapesAt
  <2>2. chain'[p] = OnKey
    BY <1>5, <2>1 DEF RandomKey, ConfirmKey, TakeKey
  <2>. QED  BY <1>2, <2>1, <2>2
<1>6. CASE AcceptConfig(p)
  <2>1. UNCHANGED <<cred_db, cred_cc>> /\ chain'[p] = Empty
    BY <1>6 DEF AcceptConfig, files, ShapesAt
  <2>. QED  BY <1>2, <2>1
<1>7. CASE RemoveOldDb(p) \/ RemoveOldCc(p)
  BY <1>7 DEF RemoveOldDb, RemoveOldCc, PathOK
<1>8. CASE RememberKey(p)
  <2>1. pc[p] = "remember" /\ chain'[p] = OnCc /\ UNCHANGED <<cred_db, cred_cc>>
    BY <1>8 DEF RememberKey, Goto, files, ShapesAt
  <2>. QED  BY <1>0, <2>1 DEF PathOK, FreeDb
<1>9. CASE OpenCc(p)
  <2>1. /\ pc[p] = "opencc" /\ chain[p] = OnCc /\ cred_cc' = p
        /\ UNCHANGED <<cred_db, chain>>
    BY <1>9 DEF OpenCc, Goto, PathOK, ShapesAt
  <2>. QED  BY <1>0, <2>1
<1>10. CASE SetupDatabase(p)
  <2>1. pc[p] = "setup" /\ UNCHANGED <<cred_db, cred_cc>> /\ cred_db = NoFile
    BY <1>10 DEF SetupDatabase, Goto, PathOK, FreeDb, files
  <2>2. \/ chain[p] = Empty /\ chain'[p] = OnDb
        \/ chain[p] = OnCc /\ chain'[p] = OnDbCc
    BY <1>10, <2>1 DEF SetupDatabase, ShapesAt
  <2>. QED  BY <1>0, <2>1, <2>2
<1>11. CASE OpenDb(p)
  <2>1. /\ pc[p] = "opendb" /\ chain[p] \in {OnDb, OnDbCc} /\ cred_db' = p
        /\ UNCHANGED <<cred_cc, chain>>
    BY <1>11 DEF OpenDb, Goto, PathOK, FreeDb, ShapesAt
  <2>. QED  BY <1>0, <2>1
<1>12. CASE Close(p)
  <2>1. chain[p] \in {OnDb, OnDbCc} /\ UNCHANGED <<cred_db, cred_cc>>
    BY <1>12 DEF Close, Goto, ShapesAt, files
  <2>2. chain'[p] = Empty
    BY <1>12, <2>1 DEF Close
  <2>. QED  BY <1>2, <2>1, <2>2
<1>13. CASE RunHandler(p)
  <2>1. pc[p] = "exit1" /\ chain[p] \in {OnKey, OnCc, OnDb, OnDbCc}
    BY <1>13 DEF RunHandler, Exits, ShapesAt, Empty
  <2>2. /\ cred_db' = IF Newest(chain[p]) = "rm_cred_db" THEN NoFile ELSE cred_db
        /\ cred_cc' = IF Newest(chain[p]) = "rm_cred_cc" THEN NoFile ELSE cred_cc
        /\ chain'[p] = Pop(chain[p])
    BY <1>13 DEF RunHandler
  <2>. QED  BY <1>0, <2>1, <2>2, ShapeHeads
<1>. QED
  BY <1>3, <1>4, <1>5, <1>6, <1>7, <1>8, <1>9, <1>10, <1>11, <1>12, <1>13
     DEF Step, Run, Answer

(* A random key that is not stored has been printed, or the database has the
   default HMAC: use_cc is on otherwise. *)
LEMMA SkippedConfig ==
    ASSUME NEW o \in AllOptions, NEW k \in RawKeys, ~OptionRejected(o, k), ~UseCC(o, k)
    PROVE  o.remember = 0 /\ o.hmac \in {"unset", "default"}
<1>1. ~UsePassphrase(k) /\ k # NoKey
  BY DEF UsePassphrase
<1>2. o.remember = 0
  BY <1>1 DEF UseCC
<1>3. CipherOf(o, k).hmac = Effective(o.hmac)
  BY <1>1 DEF CipherOf
<1>4. o.hmac \in AlgOption /\ o.hmac # "invalid"
  BY DEF AllOptions, OptionRejected
<1>5. Effective(o.hmac) = "default"
  BY <1>3 DEF UseCC
<1>. QED  BY <1>2, <1>4, <1>5 DEF Effective, AlgOption

LEMMA StepOwnKey ==
    ASSUME TypeOK, ChainInv, NEW p \in Procs, PathOK(p), ConfigOK(p), KeyOK(p), Step(p)
    PROVE  KeyOK(p)'
<1>types. /\ pc \in [Procs -> {"idle"} \cup Working \cup Exits \cup Ended]
          /\ key \in [Procs -> Keys \cup {NoKey}]
          /\ printed \in [Procs -> BOOLEAN]
          /\ opt \in [Procs -> AllOptions]
  BY DEF TypeOK
<1>. USE <1>types DEF KeyOK, Finishing
<1>1. CASE Start(p) \/ CheckDb(p) \/ RemoveOldDb(p)
  BY <1>1 DEF Start, CheckDb, RemoveOldDb, Goto, local
<1>2. CASE SkipEncryption(p) \/ AskKey(p)
  BY <1>2 DEF SkipEncryption, AskKey, Goto, local
<1>3. CASE RandomKey(p)
  BY <1>3 DEF RandomKey, TakeKey, Goto
<1>4. CASE Answer(p)
  <2>1. CASE EnterKey(p) \/ NoKeyEntered(p)
    BY <2>1 DEF EnterKey, NoKeyEntered, Goto, ExitFailure, local
  <2>2. CASE ConfirmKey(p)
    BY <2>2 DEF ConfirmKey, TakeKey, Goto
  <2>3. CASE MismatchedKey(p) \/ UnconfirmedKey(p)
    BY <2>3 DEF MismatchedKey, UnconfirmedKey, Goto
  <2>. QED  BY <1>4, <2>1, <2>2, <2>3 DEF Answer
<1>5. CASE AcceptConfig(p)
  <2>1. /\ pc[p] = "config" /\ UNCHANGED local
        /\ pc'[p] = IF UseCC(opt[p], key[p]) THEN "chkcc" ELSE "setup"
        /\ ~OptionRejected(opt[p], key[p])
    BY <1>5 DEF AcceptConfig
  <2>2. pc'[p] = "setup" => KeySafe(p)
    BY <2>1, SkippedConfig DEF KeySafe
  <2>. QED  BY <2>1, <2>2 DEF local, KeySafe, PrintsKey
<1>6. CASE RejectConfig(p) \/ CheckCc(p) \/ RemoveOldCc(p)
  BY <1>6 DEF RejectConfig, CheckCc, RemoveOldCc, ExitFailure, local
<1>7. CASE RememberKey(p)
  BY <1>7 DEF RememberKey, Goto, PrintsKey
<1>8. CASE OpenCc(p)
  BY <1>8 DEF OpenCc, Goto, PrintsKey
<1>9. CASE WriteCc(p)
  <2>1. pc[p] = "writecc" /\ pc'[p] = "setup" /\ UNCHANGED local
    BY <1>9 DEF WriteCc, Goto
  <2>2. KeySafe(p)
    BY <2>1 DEF KeySafe, ConfigOK
  <2>. QED  BY <2>1, <2>2 DEF local, KeySafe, PrintsKey
<1>10. CASE SetupDatabase(p) \/ OpenDb(p) \/ CreateTable(p) \/ Close(p)
  <2>1. /\ pc[p] \in Finishing /\ pc'[p] \in Finishing
        /\ UNCHANGED <<key, opt, printed, ccfd>>
    BY <1>10 DEF SetupDatabase, OpenDb, CreateTable, Close, Goto, local
  <2>. QED  BY <2>1 DEF KeySafe, PrintsKey
<1>11. CASE Exit(p)
  <2>1. /\ pc[p] \in {"exit0", "exit1"}
        /\ pc'[p] = IF pc[p] = "exit0" THEN "done" ELSE "failed"
        /\ UNCHANGED <<key, opt, printed, ccfd>>
    BY <1>11 DEF Exit, Exits, local
  <2>. QED  BY <2>1 DEF KeySafe, PrintsKey
<1>12. CASE RunHandler(p)
  <2>1. UNCHANGED <<pc, key, opt, printed, ccfd>>
    BY <1>12 DEF RunHandler
  <2>. QED  BY <2>1 DEF KeySafe, PrintsKey
<1>13. CASE TableRefused(p) \/ SystemFailure(p) \/ Killed(p)
  BY <1>13 DEF TableRefused, SystemFailure, Killed, ExitFailure, local
<1>. QED
  BY <1>1, <1>2, <1>3, <1>4, <1>5, <1>6, <1>7, <1>8, <1>9, <1>10, <1>11, <1>12, <1>13
     DEF Step, Run

LEMMA StepSerial ==
    ASSUME ~Overlap, TypeOK, ChainInv, SerialInv, [Next]_vars
    PROVE  SerialInv'
<1>0. CASE UNCHANGED vars
  BY <1>0 DEF vars, files, local, SerialInv, AloneInv, Active, OwnOK, PathOK, ConfigOK,
              ConfigOf, CipherOf, BeforeOK, KeyOK, KeySafe, PrintsKey
<1>1. ASSUME NEW p \in Procs, Step(p) PROVE SerialInv'
  <2>1. AloneInv' /\ \A q \in Procs : q # p => ~Active(q)
    BY <1>1, StepAlone DEF SerialInv
  <2>2. OwnOK(p)'
    <3>1. PathOK(p) /\ ConfigOK(p) /\ BeforeOK(p) /\ KeyOK(p)
      BY DEF SerialInv, OwnOK
    <3>. QED
      BY <1>1, <3>1, StepOwnPath, StepOwnConfig, StepOwnBefore, StepOwnKey DEF OwnOK
  <2>3. \A q \in Procs : q # p => OwnOK(q)'
    BY <1>1, <2>1, OthersOwn DEF SerialInv
  <2>. QED  BY <2>1, <2>2, <2>3 DEF SerialInv
<1>. QED  BY <1>0, <1>1 DEF Next, Step, vars

LEMMA SerialAlways ==
    ASSUME ~Overlap
    PROVE  Spec => [](TypeOK /\ ChainInv /\ CleanupInv /\ SchemaInv /\ SerialInv)
<1>1. TypeOK /\ ChainInv /\ SerialInv /\ [Next]_vars => SerialInv'
  BY StepSerial
<1>. QED
  BY <1>1, ChainAlways, InitCleanup, StepCleanup, InitSchema, StepSchema, InitSerial,
     PTL DEF Spec

(* A finished init opened a database of its own. *)
LEMMA FinishedOwnDb ==
    ASSUME SchemaInv, SerialInv, NEW p \in Procs, pc[p] = "done"
    PROVE  /\ dbfd[p] = p
           /\ dbfile[p].cipher = CipherOf(opt[p], key[p])
<1>1. made[p] = Statements
  BY DEF SchemaInv
<1>2. Owns(p)
  BY <1>1 DEF Owns, Statements
<1>3. /\ dbfd[p] \in Inodes
      /\ dbfile[dbfd[p]] = [cipher |-> CipherOf(opt[p], key[p]), tables |-> made[p]]
  BY <1>2 DEF SchemaInv
<1>4. dbfd[p] = p
  BY <1>3 DEF SerialInv, OwnOK, PathOK
<1>. QED  BY <1>3, <1>4

(* What the config holds describes the database, but for a key that was shown
   in place of being stored. *)
LEMMA ConfigIsCipher ==
    ASSUME NEW o \in AllOptions, NEW k \in Keys \cup {NoKey}
    PROVE  /\ [ConfigOf(o, k) EXCEPT !.key = k] = CipherOf(o, k)
           /\ ConfigOf(o, k).key = IF PrintsKey(o) THEN NoKey ELSE k
<1>1. CipherOf(o, k) \in Cipher /\ CipherOf(o, k).key = k
  BY CipherType DEF CipherOf, Plain
<1>. QED  BY <1>1 DEF ConfigOf, Cipher

(* The key of a finished init's database was typed, shown or written, except
   for the random key under --no-remember that nobody sees. *)
THEOREM KeyNeverLost == ASSUME ~Overlap PROVE Spec => []KeyNotLost
<1>1. TypeOK /\ SchemaInv /\ SerialInv => KeyNotLost
  <2>. SUFFICES ASSUME TypeOK, SerialInv, NEW p \in Procs, pc[p] = "done", key[p] # NoKey
                PROVE  \/ opt[p].cmdkey \/ printed[p] \/ Stored(p)
                       \/ opt[p].remember = 0 /\ opt[p].hmac \in {"unset", "default"}
    BY DEF KeyNotLost
  <2>1. KeySafe(p)
    BY DEF SerialInv, OwnOK, KeyOK, Finishing
  <2>2. ccfd[p] = p /\ ~PrintsKey(opt[p]) => Stored(p)
    <3>1. SUFFICES ASSUME ccfd[p] = p, ~PrintsKey(opt[p]) PROVE Stored(p)
      OBVIOUS
    <3>2. ccfile[p] = ConfigOf(opt[p], key[p])
      BY <3>1 DEF SerialInv, OwnOK, ConfigOK, Finishing
    <3>3. ConfigOf(opt[p], key[p]).key = key[p]
      BY <3>1, ConfigIsCipher DEF TypeOK
    <3>. QED  BY <3>1, <3>2, <3>3 DEF Stored
  <2>. QED  BY <2>1, <2>2 DEF KeySafe
<1>. QED  BY <1>1, SerialAlways, PTL

(* The pair of files of a finished init belongs together as long as its
   database is at the path. *)
THEOREM ConfigIsOfDb == ASSUME ~Overlap PROVE Spec => []ConfigDescribesDb
<1>1. TypeOK /\ SchemaInv /\ SerialInv => ConfigDescribesDb
  <2>. SUFFICES ASSUME TypeOK, SchemaInv, SerialInv, NEW p \in Procs, pc[p] = "done",
                       cred_db = dbfd[p], ccfd[p] # NoFile
                PROVE  /\ cred_cc = ccfd[p]
                       /\ [ccfile[cred_cc] EXCEPT !.key = key[p]] = dbfile[cred_db].cipher
                       /\ ccfile[cred_cc].key \in {key[p], NoKey}
    BY DEF ConfigDescribesDb
  <2>1. cred_db = p /\ dbfile[p].cipher = CipherOf(opt[p], key[p])
    BY FinishedOwnDb
  <2>2. ccfd[p] = p
    BY DEF SerialInv, OwnOK, PathOK
  <2>3. cred_cc = p /\ ccfile[p] = ConfigOf(opt[p], key[p])
    BY <2>1, <2>2 DEF SerialInv, OwnOK, ConfigOK, Finishing
  <2>4. opt[p] \in AllOptions /\ key[p] \in Keys \cup {NoKey}
    BY DEF TypeOK
  <2>. QED  BY <2>1, <2>2, <2>3, <2>4, ConfigIsCipher
<1>. QED  BY <1>1, SerialAlways, PTL

(* A failed init without --force is as if it had not run. *)
THEOREM FailureIsUndone == ASSUME ~Overlap PROVE Spec => FailureKeepsFiles
<1>. DEFINE Kept ==
        \A p \in Procs :
          pc[p] # "failed" /\ pc'[p] = "failed" /\ ~opt[p].force =>
              [db |-> cred_db', cc |-> cred_cc'] = before[p]
<1>1. ASSUME TypeOK, ChainInv, CleanupInv, SerialInv, [Next]_vars PROVE [Kept]_vars
  <2>. SUFFICES ASSUME ~UNCHANGED vars, NEW p \in Procs, pc[p] # "failed",
                       pc'[p] = "failed", ~opt[p].force
                PROVE  [db |-> cred_db', cc |-> cred_cc'] = before[p]
    OBVIOUS
  <2>1. PICK r \in Procs : Step(r)
    BY <1>1 DEF Next, Step
  <2>2. r = p
    BY <1>1, <2>1, StepLocal
  <2>3. Exit(p) /\ pc[p] = "exit1"
    <3>1. pc \in [Procs -> {"idle"} \cup Working \cup Exits \cup Ended]
      BY <1>1 DEF TypeOK
    <3>2. ~Answer(p) /\ ~Start(p) /\ ~SystemFailure(p) /\ ~Killed(p)
      BY <3>1 DEF Answer, EnterKey, NoKeyEntered, ConfirmKey, MismatchedKey,
                  UnconfirmedKey, Start, SystemFailure, Killed, Goto, ExitFailure
    <3>3. /\ ~CheckDb(p) /\ ~RemoveOldDb(p) /\ ~SkipEncryption(p) /\ ~AskKey(p)
          /\ ~RandomKey(p) /\ ~RejectConfig(p) /\ ~AcceptConfig(p) /\ ~CheckCc(p)
          /\ ~RemoveOldCc(p) /\ ~RememberKey(p)
      BY <3>1 DEF CheckDb, RemoveOldDb, SkipEncryption, AskKey, RandomKey, RejectConfig,
                  AcceptConfig, CheckCc, RemoveOldCc, RememberKey, Goto, ExitFailure
    <3>4. /\ ~OpenCc(p) /\ ~WriteCc(p) /\ ~SetupDatabase(p) /\ ~OpenDb(p)
          /\ ~CreateTable(p) /\ ~TableRefused(p) /\ ~Close(p) /\ ~RunHandler(p)
      BY <3>1 DEF OpenCc, WriteCc, SetupDatabase, OpenDb, CreateTable, TableRefused,
                  Close, RunHandler, Goto, ExitFailure
    <3>5. Exit(p)
      BY <2>1, <2>2, <3>2, <3>3, <3>4 DEF Step, Run
    <3>. QED  BY <3>1, <3>5 DEF Exit, Exits
  <2>4. UNCHANGED <<cred_db, cred_cc>> /\ chain[p] = Empty
    BY <2>3 DEF Exit, files, Empty
  <2>5. cred_db # p /\ cred_cc # p
    BY <1>1, <2>3, <2>4, ShapesDiffer DEF CleanupInv
  <2>6. cred_db = before[p].db /\ cred_cc = before[p].cc
    BY <1>1, <2>3, <2>5 DEF SerialInv, OwnOK, BeforeOK, Active, Exits
  <2>7. before[p] \in [db : Inodes \cup {NoFile}, cc : Inodes \cup {NoFile}]
    BY <1>1 DEF TypeOK
  <2>. QED  BY <2>4, <2>6, <2>7
<1>. QED  BY <1>1, SerialAlways, PTL DEF Spec, FailureKeepsFiles

(* Only --force takes a file away from its path or writes to one that was
   there. *)
THEOREM OthersFilesAreSafe == ASSUME ~Overlap PROVE Spec => OnlyForceDestroys
<1>. DEFINE Kept(p) ==
              /\ cred_db \notin {NoFile, p} => cred_db' = cred_db
              /\ cred_cc \notin {NoFile, p} => cred_cc' = cred_cc
              /\ \A i \in Inodes \ {p} :
                    dbfile'[i] = dbfile[i] /\ ccfile'[i] = ccfile[i]
            Only == \A p \in Procs : pc[p] \in Working \cup Exits /\ ~opt[p].force => Kept(p)
<1>1. ASSUME ~Overlap, TypeOK, ChainInv, SchemaInv, SerialInv, [Next]_vars
      PROVE  [Only]_vars
  <2>. SUFFICES ASSUME ~UNCHANGED vars, NEW p \in Procs, Active(p), ~opt[p].force
                PROVE  Kept(p)
    BY DEF Active
  <2>1. PICK r \in Procs : Step(r)
    BY <1>1 DEF Next, Step
  <2>2. r = p
    BY <1>1, <2>1, StepAlone DEF SerialInv
  <2>3. PathOK(p) /\ ConfigOK(p)
    BY <1>1 DEF SerialInv, OwnOK
  <2>. USE <2>3 DEF PathOK, FreeDb
  <2>4. CASE RemoveOldDb(p) \/ RemoveOldCc(p)
    BY <2>4 DEF RemoveOldDb, RemoveOldCc
  <2>5. CASE OpenCc(p) \/ WriteCc(p)
    BY <1>1, <2>5 DEF OpenCc, WriteCc, Goto, ConfigOK, TypeOK
  <2>6. CASE OpenDb(p)
    BY <2>6 DEF OpenDb
  <2>7. CASE CreateTable(p)
    <3>1. dbfd[p] = p
      BY <1>1, <2>7 DEF CreateTable, SchemaInv
    <3>. QED  BY <1>1, <2>7, <3>1 DEF CreateTable, TypeOK
  <2>8. CASE RunHandler(p)
    <3>1. pc[p] = "exit1" /\ chain[p] \in {OnKey, OnCc, OnDb, OnDbCc}
      BY <1>1, <2>8 DEF ChainInv, RunHandler, Exits, ShapesAt, Empty
    <3>2. /\ cred_db' = IF Newest(chain[p]) = "rm_cred_db" THEN NoFile ELSE cred_db
          /\ cred_cc' = IF Newest(chain[p]) = "rm_cred_cc" THEN NoFile ELSE cred_cc
          /\ UNCHANGED <<dbfile, ccfile>>
      BY <2>8 DEF RunHandler
    <3>. QED  BY <3>1, <3>2, ShapeHeads, ShapesDiffer
  <2>9. CASE UNCHANGED files
    BY <2>9 DEF files
  <2>10. \/ RemoveOldDb(p) \/ RemoveOldCc(p) \/ OpenCc(p) \/ WriteCc(p)
         \/ OpenDb(p) \/ CreateTable(p) \/ RunHandler(p) \/ UNCHANGED files
    BY <2>1, <2>2
       DEF Step, Run, Answer, Start, CheckDb, SkipEncryption, AskKey, RandomKey,
           EnterKey, NoKeyEntered, ConfirmKey, MismatchedKey, UnconfirmedKey,
           RejectConfig, AcceptConfig, CheckCc, RememberKey, SetupDatabase,
           TableRefused, Close, Exit, SystemFailure, Killed
  <2>. QED  BY <2>4, <2>5, <2>6, <2>7, <2>8, <2>9, <2>10
<1>. QED  BY <1>1, SerialAlways, PTL DEF Spec, OnlyForceDestroys
===============================================================================
