------------------------------- MODULE PkCreate -------------------------------
(***************************************************************************)
(* "pk create" (src/command/create.c with src/handle-record.c): options,   *)
(* the record file and its editor, the key.  Commands that run in one      *)
(* directory share the record file, the cipher config and the database.    *)
(*                                                                         *)
(* A text is who wrote it and what read_record_file() makes of it.  The    *)
(* editor is the child of EditFile: it may run on when pk is gone.  The    *)
(* insertion is one step here; its steps are those of RecordInsert.        *)
(***************************************************************************)
EXTENDS AtexitChain

CONSTANTS
    Procs,     \* the commands
    None,      \* no record file at the path, no record in the database
    Configs,   \* the states the cipher config may be in
    Databases, \* the keys and settings the database may have been made with
    Faults     \* may calls fail and processes be killed?

(* What the text of a record file is: nothing at all, a record that lacks a
   required field, a complete one, or one that strlist_filter() damages. *)
Kinds   == {"zero", "incomplete", "complete", "damaged"}
Texts   == [by : Procs, kind : Kinds]
Keys    == {"none", "right", "wrong"}
Ciphers == [key : Keys, settings : {"default", "other"}]

ASSUME CreateAssumption ==
    /\ None \notin Texts
    /\ Configs \subseteq [state : {"absent", "broken", "read"}, cipher : Ciphers]
    /\ Databases \subseteq [key : {"none", "right"}, settings : {"default", "other"}]
    /\ Faults \in BOOLEAN

VARIABLES
    pc,       \* command -> where cmd_create() is
    cmdkey,   \* command -> the key its user enters, "none" without --cmdkey
    chain,    \* command -> its atexit chain
    rec,      \* command -> its record
    cipher,   \* command -> the key and settings it applies
    stored,   \* command -> the record it has inserted
    editor,   \* command -> its editor
    file,     \* the text at tmp_rec_path
    linked,   \* command -> is the file it has open the one at tmp_rec_path?
    beside,   \* history: command -> whose pk or editor ran while it did
    cc,       \* the cipher config as deserialize_cipher_config() finds it
    db        \* the key and settings the database was made with

local == <<cmdkey, chain, rec, cipher, stored>>
files == <<file, linked>>
fixed == <<cc, db>>
vars  == <<pc, local, editor, files, beside, fixed>>

Working == {"setup", "push", "create", "fill", "edit", "read", "open", "ask", "config",
            "avail", "insert"}
Exits   == {"exit0", "exit1"}
Live    == Working \cup Exits
Ended   == {"done", "failed", "killed", "crashed"}

Goto(p, from, to) == pc[p] = from /\ pc' = [pc EXCEPT ![p] = to]

(* EOE(), exit() or the return of an error. *)
ExitFailure(p) == pc' = [pc EXCEPT ![p] = "exit1"]

Init ==
    /\ pc = [p \in Procs |-> "idle"]
    /\ cmdkey = [p \in Procs |-> "none"]
    /\ chain = [p \in Procs |-> <<>>]
    /\ rec = [p \in Procs |-> [by |-> p, kind |-> "incomplete"]]
    /\ cipher = [p \in Procs |-> [key |-> "none", settings |-> "default"]]
    /\ stored = [p \in Procs |-> None]
    /\ editor = [p \in Procs |-> "none"]
    /\ file = None
    /\ linked = [p \in Procs |-> FALSE]
    /\ beside = [p \in Procs |-> {}]
    /\ cc \in Configs
    /\ db \in Databases
-------------------------------------------------------------------------------
(***************************************************************************)
(* Options and the record file.                                            *)
(***************************************************************************)
Present(p) == pc[p] \in Live \/ editor[p] \in {"open", "orphan"}

(* parse_options(): the fields, --cmdkey. *)
Start(p) ==
    /\ Goto(p, "idle", "setup")
    /\ \E k \in Keys, kind \in {"incomplete", "complete"} :
          /\ cmdkey' = [cmdkey EXCEPT ![p] = k]
          /\ rec' = [rec EXCEPT ![p].kind = kind]
    /\ beside' = [q \in Procs |->
                     IF q = p THEN {o \in Procs \ {p} : Present(o)}
                     ELSE beside[q] \cup (IF Present(q) THEN {p} ELSE {})]
    /\ UNCHANGED <<chain, cipher, stored, editor, files, fixed>>

(* --nano, or a required field is missing and nothing else is said. *)
SetupEditor(p) ==
    /\ Goto(p, "setup", "push")
    /\ UNCHANGED <<local, editor, files, beside, fixed>>

SkipEditor(p) ==
    /\ Goto(p, "setup", "open") /\ rec[p].kind = "complete"
    /\ UNCHANGED <<local, editor, files, beside, fixed>>

(* --no-nano, and a required field is missing. *)
MissingField(p) ==
    /\ pc[p] = "setup" /\ rec[p].kind = "incomplete"
    /\ ExitFailure(p)
    /\ UNCHANGED <<local, editor, files, beside, fixed>>

(* Mutant: the handler is forgotten. *)
RegisterCleanup_Forgotten(p) ==
    /\ Goto(p, "push", "create")
    /\ UNCHANGED <<local, editor, files, beside, fixed>>

RegisterCleanup(p) ==
    /\ Goto(p, "push", "create")
    /\ chain' = [chain EXCEPT ![p] = Push(@, "rm_tmp_rec")]
    /\ UNCHANGED <<cmdkey, rec, cipher, stored, editor, files, beside, fixed>>

(* Mutant: a file that is there already is edited as it is. *)
CreateRec_IfMissing(p) ==
    /\ Goto(p, "create", IF file = None THEN "fill" ELSE "edit")
    /\ file' = IF file = None THEN [by |-> p, kind |-> "zero"] ELSE file
    /\ linked' = [linked EXCEPT ![p] = TRUE]
    /\ UNCHANGED <<local, editor, beside, fixed>>

(* populate_file(): open() makes the file, or empties the one that is there. *)
CreateRec(p) ==
    /\ Goto(p, "create", "fill")
    /\ file' = [by |-> p, kind |-> "zero"]
    /\ linked' = [linked EXCEPT ![p] = TRUE]
    /\ UNCHANGED <<local, editor, beside, fixed>>

(* populate_file(): write() goes to the file that was opened. *)
FillRec(p) ==
    /\ Goto(p, "fill", "edit")
    /\ file' = IF linked[p] THEN rec[p] ELSE file
    /\ linked' = [linked EXCEPT ![p] = FALSE]
    /\ UNCHANGED <<local, editor, beside, fixed>>

(* edit_file(): the editor cannot be started. *)
EditFails(p) ==
    /\ pc[p] = "edit" /\ editor[p] = "none"
    /\ ExitFailure(p)
    /\ UNCHANGED <<local, editor, files, beside, fixed>>

StartEditor(p) ==
    /\ pc[p] = "edit" /\ editor[p] = "none"
    /\ editor' = [editor EXCEPT ![p] = "open"]
    /\ UNCHANGED <<pc, local, files, beside, fixed>>

(* The user saves: into the file at the path, or into a new one that takes its
   place. *)
EditorSave(p) ==
    /\ editor[p] \in {"open", "orphan"}
    /\ file' \in [by : {p}, kind : Kinds]
    /\ linked' \in {linked, [q \in Procs |-> FALSE]}
    /\ UNCHANGED <<pc, local, editor, beside, fixed>>

EditorQuit(p) ==
    /\ editor[p] \in {"open", "orphan"}
    /\ editor' = [editor EXCEPT ![p] = IF @ = "open" THEN "gone" ELSE "lost"]
    /\ UNCHANGED <<pc, local, files, beside, fixed>>

FinishEdit(p) ==
    /\ Goto(p, "edit", "read") /\ editor[p] = "gone"
    /\ UNCHANGED <<local, editor, files, beside, fixed>>

(* Where read_record_file() can lead.  With an empty file it frees a list that
   it has not made; strlist_filter() may leave freed lines in the list. *)
AfterRead ==
    IF file = None THEN {"exit1"}
    ELSE CASE file.kind = "zero"       -> {"exit1", "crashed"}
           [] file.kind = "incomplete" -> {"exit1"}
           [] file.kind = "complete"   -> {"open"}
           [] file.kind = "damaged"    -> {"open", "exit1", "crashed"}

ReadRec(p) ==
    /\ pc[p] = "read"
    /\ \E next \in AfterRead :
          /\ pc' = [pc EXCEPT ![p] = next]
          /\ rec' = [rec EXCEPT ![p] = IF next = "open" THEN file ELSE @]
    /\ UNCHANGED <<cmdkey, chain, cipher, stored, editor, files, beside, fixed>>
-------------------------------------------------------------------------------
(***************************************************************************)
(* The key and the insertion.                                              *)
(***************************************************************************)
OpenDb(p) ==
    /\ Goto(p, "open", IF cmdkey[p] # "none" THEN "ask"
                       ELSE IF cc.state # "absent" THEN "config" ELSE "avail")
    /\ UNCHANGED <<local, editor, files, beside, fixed>>

AskKey(p) ==
    /\ Goto(p, "ask", IF cc.state # "absent" THEN "config" ELSE "avail")
    /\ cipher' = [cipher EXCEPT ![p].key = cmdkey[p]]
    /\ UNCHANGED <<cmdkey, chain, rec, stored, editor, files, beside, fixed>>

(* "Empty keys are illegal." *)
NoKeyEntered(p) ==
    /\ pc[p] = "ask"
    /\ ExitFailure(p)
    /\ UNCHANGED <<local, editor, files, beside, fixed>>

(* Mutant: a key in the config takes the place of the one that was entered. *)
EffectiveCipher_ConfigFirst(p) ==
    IF cc.cipher.key = "none" THEN cipher[p] ELSE cc.cipher

(* The key that was entered goes before the one in the config; a config without
   a key affects nothing by itself. *)
EffectiveCipher(p) ==
    IF cmdkey[p] # "none" THEN [cc.cipher EXCEPT !.key = cmdkey[p]]
    ELSE IF cc.cipher.key = "none" THEN cipher[p] ELSE cc.cipher

ReadConfig(p) ==
    /\ Goto(p, "config", "avail") /\ cc.state = "read"
    /\ cipher' = [cipher EXCEPT ![p] = EffectiveCipher(p)]
    /\ UNCHANGED <<cmdkey, chain, rec, stored, editor, files, beside, fixed>>

BrokenConfig(p) ==
    /\ pc[p] = "config" /\ cc.state = "broken"
    /\ ExitFailure(p)
    /\ UNCHANGED <<local, editor, files, beside, fixed>>

(* A database without a key is read without one, any other as it was made. *)
Opens(c) == IF db.key = "none" THEN c.key = "none" ELSE c = db

Avail(p) ==
    /\ pc[p] = "avail"
    /\ pc' = [pc EXCEPT ![p] = IF Opens(cipher[p]) THEN "insert" ELSE "exit1"]
    /\ UNCHANGED <<local, editor, files, beside, fixed>>

Insert(p) ==
    /\ Goto(p, "insert", "exit0")
    /\ stored' = [stored EXCEPT ![p] = rec[p]]
    /\ UNCHANGED <<cmdkey, chain, rec, cipher, editor, files, beside, fixed>>
-------------------------------------------------------------------------------
(***************************************************************************)
(* Ends.                                                                   *)
(***************************************************************************)
LeaveEditor(p) == editor' = [editor EXCEPT ![p] = IF @ = "open" THEN "orphan" ELSE @]

(* A checked call fails; for the spinner's null device this happens while the
   editor is open. *)
CallFails(p) ==
    /\ Faults /\ pc[p] \in Working
    /\ ExitFailure(p)
    /\ LeaveEditor(p)
    /\ UNCHANGED <<local, files, beside, fixed>>

(* A signal: the keyboard's are ignored during the edit only. *)
Killed(p) ==
    /\ pc[p] \in Live /\ (pc[p] = "edit" => Faults)
    /\ pc' = [pc EXCEPT ![p] = "killed"]
    /\ LeaveEditor(p)
    /\ UNCHANGED <<local, files, beside, fixed>>

(* rm_tmp_rec(): unlinks the path, whoever's file it is. *)
RmTmpRec(p) ==
    /\ pc[p] \in Exits /\ chain[p] # <<>>
    /\ chain' = [chain EXCEPT ![p] = Pop(@)]
    /\ file' = None
    /\ linked' = [q \in Procs |-> FALSE]
    /\ UNCHANGED <<pc, cmdkey, rec, cipher, stored, editor, beside, fixed>>

Exit(p) ==
    /\ pc[p] \in Exits /\ chain[p] = <<>>
    /\ pc' = [pc EXCEPT ![p] = IF pc[p] = "exit0" THEN "done" ELSE "failed"]
    /\ UNCHANGED <<local, editor, files, beside, fixed>>

Run(p) ==
    \/ SetupEditor(p) \/ SkipEditor(p) \/ MissingField(p) \/ RegisterCleanup(p)
    \/ CreateRec(p) \/ FillRec(p) \/ EditFails(p) \/ StartEditor(p) \/ FinishEdit(p)
    \/ ReadRec(p) \/ OpenDb(p) \/ ReadConfig(p) \/ BrokenConfig(p) \/ Avail(p)
    \/ Insert(p) \/ RmTmpRec(p) \/ Exit(p)

User(p) == Start(p) \/ EditorSave(p) \/ EditorQuit(p) \/ AskKey(p) \/ NoKeyEntered(p)

Next ==
    \/ \E p \in Procs : Run(p) \/ User(p) \/ CallFails(p) \/ Killed(p)
    \/ (\A p \in Procs : pc[p] \in Ended) /\ UNCHANGED vars

Spec == Init /\ [][Next]_vars

-------------------------------------------------------------------------------
TypeOK ==
    /\ pc \in [Procs -> {"idle"} \cup Live \cup Ended]
    /\ cmdkey \in [Procs -> Keys]
    /\ chain \in [Procs -> Seq({"rm_tmp_rec"})]
    /\ rec \in [Procs -> Texts]
    /\ cipher \in [Procs -> Ciphers]
    /\ stored \in [Procs -> Texts \cup {None}]
    /\ editor \in [Procs -> {"none", "open", "gone", "orphan", "lost"}]
    /\ file \in Texts \cup {None}
    /\ linked \in [Procs -> BOOLEAN]
    /\ beside \in [Procs -> SUBSET Procs]
    /\ cc \in Configs /\ db \in Databases

(* A command stores the record of its own user, or of one whose pk or editor
   ran beside it on the same record file: never what an earlier command, also a
   killed one, has left there. *)
OwnRecord ==
    \A p \in Procs : stored[p] # None => stored[p].by \in {p} \cup beside[p]

(* "Program will remove this file automatically": when all commands have ended
   there is no record file, unless one was killed, crashed or left its editor
   running. *)
RecFileRemoved ==
    (\A p \in Procs : pc[p] \in {"idle", "done", "failed"} /\ editor[p] \in {"none", "gone"})
        => file = None

(* With a wrong key entered nothing is stored, whatever the cipher config
   knows. *)
WrongKeyStoresNothing ==
    \A p \in Procs : stored[p] # None /\ cmdkey[p] # "none" => cmdkey[p] = db.key
===============================================================================
