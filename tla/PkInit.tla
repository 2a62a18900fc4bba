-------------------------------- MODULE PkInit --------------------------------
(***************************************************************************)
(* "pk init" (src/command/init.c): several processes, each running         *)
(* cmd_init() once, share one database path and one cipher config path.    *)
(*                                                                         *)
(* A path names an inode or nothing.  An inode is named after the process  *)
(* that created it, because a run creates at most one file at each path;   *)
(* Old is the file that was there before.  Unlinking a path does not end   *)
(* an inode that a process still holds open.                               *)
(*                                                                         *)
(* SchemaValid says whether SQLite accepts INIT_TABLE_SQLSTR.  It does not *)
(* accept the text at this commit (typographic quotes make the default of  *)
(* sqltime a column reference), so the code as it is has SchemaValid =     *)
(* FALSE; since every call may fail when Faults holds, the behaviours with *)
(* TRUE include those with FALSE.                                          *)
(***************************************************************************)
EXTENDS Integers, AtexitChain

CONSTANTS
    Procs,        \* the processes
    Passphrases,  \* keys a user can type that are not blob literals
    RawKeys,      \* blob keys: typed as x'...' or made by random_bytes()
    Options,      \* the command lines considered
    NoFile,       \* an absent path
    Old,          \* the file found at a path by the first process
    NoKey,        \* no key at all
    SchemaValid,  \* does SQLite accept INIT_TABLE_SQLSTR?
    Faults,       \* may library calls fail and processes be killed?
    Overlap       \* may a process start while another one is running?

Keys       == Passphrases \cup RawKeys
Inodes     == Procs \cup {Old}
Algorithms == {"default", "other"}
AlgOption  == {"unset", "default", "other", "invalid"}
Statements == 4   \* three CREATE TABLE and one CREATE INDEX

AllOptions == [encrypt : BOOLEAN, cmdkey : BOOLEAN, remember : {-1, 0, 1},
               force : BOOLEAN, kdf : AlgOption, hmac : AlgOption]

(* The values cmd_init()'s variables have before parse_options(). *)
NoOption == [encrypt |-> FALSE, cmdkey |-> FALSE, remember |-> -1,
             force |-> FALSE, kdf |-> "unset", hmac |-> "unset"]

ASSUME InitAssumption ==
    /\ Options \subseteq AllOptions
    /\ Passphrases \cap RawKeys = {}
    /\ NoKey \notin Keys
    /\ Old \notin Procs
    /\ NoFile \notin Inodes
    /\ SchemaValid \in BOOLEAN /\ Faults \in BOOLEAN /\ Overlap \in BOOLEAN

VARIABLES
    cred_db,  \* what the database path names
    cred_cc,  \* what the cipher config path names
    dbfile,   \* inode -> the database in it
    ccfile,   \* inode -> the cipher config in it
    pc,       \* process -> where cmd_init() is
    opt,      \* process -> its command line
    key,      \* process -> keybuf, or NoKey
    keybuf,   \* process -> is keybuf allocated, has it been freed?
    printed,  \* process -> has the key been put on stdout?
    chain,    \* process -> its atexit chain
    dbfd,     \* process -> the inode sqlite3_open() got
    ccfd,     \* process -> the inode populate_file() opened
    made,     \* process -> how many statements of the schema it executed
    before    \* process -> what the two paths named when it started

files == <<cred_db, cred_cc, dbfile, ccfile>>
local == <<opt, key, keybuf, printed, dbfd, ccfd, made, before>>
vars  == <<files, local, pc, chain>>

Prompts == {"prompt", "confirm"}
Exits   == {"exit0", "exit1"}
Ended   == {"done", "failed", "killed"}
Working == Prompts \cup {"chkdb", "rmdb", "key", "config", "chkcc", "rmcc",
            "remember", "opencc", "writecc", "setup", "opendb", "tables",
            "close"}

Handlers == {"destroy_key", "rm_cred_cc", "rm_cred_db"}

Cipher  == [key : Keys \cup {NoKey}, kdf : Algorithms, hmac : Algorithms]
Plain   == [key |-> NoKey, kdf |-> "default", hmac |-> "default"]
Truncated == [key |-> NoKey, kdf |-> "truncated", hmac |-> "truncated"]

Effective(alg) == IF alg = "other" THEN "other" ELSE "default"

UseEncryption(o) == o.encrypt \/ o.cmdkey
UsePassphrase(k) == k \in Passphrases

(* The algorithms given to SQLCipher: the KDF is dropped for a blob key. *)
CipherOf(o, k) ==
    IF k = NoKey
    THEN Plain
    ELSE [key  |-> k,
          kdf  |-> IF UsePassphrase(k) THEN Effective(o.kdf) ELSE "default",
          hmac |-> Effective(o.hmac)]

(* The algorithm checks.  kdf_iter, page_size and compatibility are always
   the defaults here: get_arg_uint() rejects every number it can parse. *)
OptionRejected(o, k) ==
    \/ UsePassphrase(k) /\ o.kdf = "invalid"
    \/ o.hmac = "invalid"

(* Mutant: a blob key is not remembered by default. *)
UseCC_AskedOnly(o, k) ==
    \/ CipherOf(o, k).kdf # "default" \/ CipherOf(o, k).hmac # "default"
    \/ o.remember = 1

(* use_cc, as the last assignment leaves it. *)
UseCC(o, k) ==
    \/ CipherOf(o, k).kdf # "default"
    \/ CipherOf(o, k).hmac # "default"
    \/ ~UsePassphrase(k) /\ o.remember # 0
    \/ o.remember = 1

(* The key is put on stdout in place of being stored. *)
PrintsKey(o) == o.remember = 0 /\ ~o.cmdkey

(* Mutant: the HMAC algorithm is left out of the file. *)
ConfigOf_NoHmac(o, k) ==
    [CipherOf(o, k) EXCEPT !.key = IF PrintsKey(o) THEN NoKey ELSE k,
                           !.hmac = "default"]

(* What persist_cipher_config() writes. *)
ConfigOf(o, k) ==
    [CipherOf(o, k) EXCEPT !.key = IF PrintsKey(o) THEN NoKey ELSE k]

(***************************************************************************)
(* Steps.                                                                  *)
(***************************************************************************)
Goto(p, from, to) == pc[p] = from /\ pc' = [pc EXCEPT ![p] = to]

(* exit(EXIT_FAILURE): from here on only the chain runs. *)
ExitFailure(p) == pc' = [pc EXCEPT ![p] = "exit1"]

Start(p) ==
    /\ Goto(p, "idle", "chkdb")
    /\ Overlap \/ \A q \in Procs : pc[q] \in Ended \cup {"idle"}
    /\ \E o \in Options : opt' = [opt EXCEPT ![p] = o]
    /\ before' = [before EXCEPT ![p] = [db |-> cred_db, cc |-> cred_cc]]
    /\ UNCHANGED <<files, key, keybuf, printed, dbfd, ccfd, made, chain>>

(* Mutant: an existing database is removed without --force. *)
CheckDb_NoGuard(p) ==
    /\ pc[p] = "chkdb"
    /\ pc' = [pc EXCEPT ![p] = IF cred_db = NoFile THEN "key" ELSE "rmdb"]
    /\ UNCHANGED <<files, local, chain>>

(* avail_file_path_or_die("database", ...): access(), then unlink() under
   --force, two system calls another process can come between. *)
CheckDb(p) ==
    /\ pc[p] = "chkdb"
    /\ pc' = [pc EXCEPT ![p] = IF cred_db = NoFile THEN "key"
                               ELSE IF opt[p].force THEN "rmdb" ELSE "exit1"]
    /\ UNCHANGED <<files, local, chain>>

RemoveOldDb(p) ==
    /\ pc[p] = "rmdb"
    /\ cred_db' = NoFile
    /\ pc' = [pc EXCEPT ![p] = IF cred_db = NoFile THEN "exit1" ELSE "key"]
    /\ UNCHANGED <<cred_cc, dbfile, ccfile, local, chain>>

(* Without encryption the handler jumps to setup_database. *)
SkipEncryption(p) ==
    /\ Goto(p, "key", "setup")
    /\ ~UseEncryption(opt[p])
    /\ UNCHANGED <<files, local, chain>>

AskKey(p) ==
    /\ Goto(p, "key", "prompt")
    /\ opt[p].cmdkey
    /\ UNCHANGED <<files, local, chain>>

(* A key is at hand: keybuf_ref is set and destroy_key pushed. *)
TakeKey(p, k) ==
    /\ key' = [key EXCEPT ![p] = k]
    /\ keybuf' = [keybuf EXCEPT ![p] = "live"]
    /\ chain' = [chain EXCEPT ![p] = Push(@, "destroy_key")]

RandomKey(p) ==
    /\ Goto(p, "key", "config")
    /\ opt[p].encrypt /\ ~opt[p].cmdkey
    /\ \E k \in RawKeys : TakeKey(p, k)
    /\ UNCHANGED <<files, opt, printed, dbfd, ccfd, made, before>>

(* request_cmdkey(): end of file at the first prompt ends the command; a key
   goes to the second prompt, where the same key is taken, another one
   starts over, and end of file frees the uninitialised cmdkey_buf2. *)
EnterKey(p) ==
    /\ Goto(p, "prompt", "confirm")
    /\ \E k \in Keys : key' = [key EXCEPT ![p] = k]
    /\ UNCHANGED <<files, opt, keybuf, printed, dbfd, ccfd, made, before, chain>>

NoKeyEntered(p) ==
    /\ pc[p] = "prompt"
    /\ ExitFailure(p)
    /\ UNCHANGED <<files, local, chain>>

ConfirmKey(p) ==
    /\ Goto(p, "confirm", "config")
    /\ TakeKey(p, key[p])
    /\ UNCHANGED <<files, opt, printed, dbfd, ccfd, made, before>>

MismatchedKey(p) ==
    /\ Goto(p, "confirm", "prompt")
    /\ key' = [key EXCEPT ![p] = NoKey]
    /\ UNCHANGED <<files, opt, keybuf, printed, dbfd, ccfd, made, before, chain>>

(* free() of an indeterminate pointer: the process dies, or goes on and
   treats the empty second entry as a mismatch. *)
UnconfirmedKey(p) ==
    /\ pc[p] = "confirm"
    /\ pc' \in {[pc EXCEPT ![p] = "killed"], [pc EXCEPT ![p] = "prompt"]}
    /\ key' = [key EXCEPT ![p] = NoKey]
    /\ UNCHANGED <<files, opt, keybuf, printed, dbfd, ccfd, made, before, chain>>

(* The cipher options are checked and use_cc computed under destroy_key. *)
RejectConfig(p) ==
    /\ pc[p] = "config"
    /\ OptionRejected(opt[p], key[p])
    /\ ExitFailure(p)
    /\ UNCHANGED <<files, local, chain>>

(* Mutant: destroy_key stays on the chain. *)
AcceptConfig_NoPop(p) ==
    /\ pc[p] = "config"
    /\ ~OptionRejected(opt[p], key[p])
    /\ pc' = [pc EXCEPT ![p] =
                 IF UseCC(opt[p], key[p]) THEN "chkcc" ELSE "setup"]
    /\ UNCHANGED <<files, local, chain>>

AcceptConfig(p) ==
    /\ pc[p] = "config"
    /\ ~OptionRejected(opt[p], key[p])
    /\ pc' = [pc EXCEPT ![p] =
                 IF UseCC(opt[p], key[p]) THEN "chkcc" ELSE "setup"]
    /\ chain' = [chain EXCEPT ![p] = Pop(@)]
    /\ UNCHANGED <<files, local>>

(* Mutant: an existing cipher config is not looked for. *)
CheckCc_NoGuard(p) ==
    /\ Goto(p, "chkcc", "remember")
    /\ UNCHANGED <<files, local, chain>>

(* avail_file_path_or_die("cipher config", ...) *)
CheckCc(p) ==
    /\ pc[p] = "chkcc"
    /\ pc' = [pc EXCEPT ![p] = IF cred_cc = NoFile THEN "remember"
                               ELSE IF opt[p].force THEN "rmcc" ELSE "exit1"]
    /\ UNCHANGED <<files, local, chain>>

RemoveOldCc(p) ==
    /\ pc[p] = "rmcc"
    /\ cred_cc' = NoFile
    /\ pc' = [pc EXCEPT ![p] = IF cred_cc = NoFile THEN "exit1" ELSE "remember"]
    /\ UNCHANGED <<cred_db, dbfile, ccfile, local, chain>>

RememberKey(p) ==
    /\ Goto(p, "remember", "opencc")
    /\ printed' = [printed EXCEPT ![p] = PrintsKey(opt[p])]
    /\ chain' = [chain EXCEPT ![p] = Push(@, "rm_cred_cc")]
    /\ UNCHANGED <<files, opt, key, keybuf, dbfd, ccfd, made, before>>

(* populate_file(): open(O_CREAT | O_TRUNC), then write. *)
OpenCc(p) ==
    /\ Goto(p, "opencc", "writecc")
    /\ cred_cc' = IF cred_cc = NoFile THEN p ELSE cred_cc
    /\ ccfd' = [ccfd EXCEPT ![p] = cred_cc']
    /\ ccfile' = [ccfile EXCEPT ![cred_cc'] = Truncated]
    /\ UNCHANGED <<cred_db, dbfile, opt, key, keybuf, printed, dbfd, made,
                   before, chain>>

WriteCc(p) ==
    /\ Goto(p, "writecc", "setup")
    /\ ccfile' = [ccfile EXCEPT ![ccfd[p]] = ConfigOf(opt[p], key[p])]
    /\ UNCHANGED <<cred_db, cred_cc, dbfile, local, chain>>

(* Mutant: the database is created before its handler is registered. *)
SetupDatabase_NoPush(p) ==
    /\ Goto(p, "setup", "opendb")
    /\ UNCHANGED <<files, local, chain>>

SetupDatabase(p) ==
    /\ Goto(p, "setup", "opendb")
    /\ chain' = [chain EXCEPT ![p] = Push(@, "rm_cred_db")]
    /\ UNCHANGED <<files, local>>

(* sqlite3_open() creates the file, sqlite3_key() and the pragmas only set
   the connection up, and keybuf is freed. *)
OpenDb(p) ==
    /\ Goto(p, "opendb", "tables")
    /\ cred_db' = IF cred_db = NoFile THEN p ELSE cred_db
    /\ dbfd' = [dbfd EXCEPT ![p] = cred_db']
    /\ keybuf' = [keybuf EXCEPT ![p] = IF @ = "live" THEN "freed" ELSE @]
    /\ UNCHANGED <<cred_cc, dbfile, ccfile, opt, key, printed, ccfd, made,
                   before, chain>>

(* Mutant: CREATE TABLE IF NOT EXISTS. *)
CanCreate_IfNotExists(p) ==
    SchemaValid /\ dbfile[dbfd[p]].tables >= made[p]

(* One statement of INIT_TABLE_SQLSTR, a transaction of its own: SQLite runs
   it if the connection can read the file and the object is not there yet. *)
CanCreate(p) ==
    /\ SchemaValid
    /\ dbfile[dbfd[p]].tables = made[p]
    /\ made[p] > 0 => dbfile[dbfd[p]].cipher = CipherOf(opt[p], key[p])

(* Mutant: one statement too many. *)
CreateTable_OneMore(p) ==
    /\ pc[p] = "tables"
    /\ CanCreate(p)
    /\ dbfile' = [dbfile EXCEPT ![dbfd[p]] =
                     [cipher |-> CipherOf(opt[p], key[p]), tables |-> made[p] + 1]]
    /\ made' = [made EXCEPT ![p] = @ + 1]
    /\ pc' = [pc EXCEPT ![p] = IF made[p] = Statements THEN "close" ELSE @]
    /\ UNCHANGED <<cred_db, cred_cc, ccfile, opt, key, keybuf, printed, dbfd,
                   ccfd, before, chain>>

CreateTable(p) ==
    /\ pc[p] = "tables" /\ made[p] < Statements
    /\ CanCreate(p)
    /\ dbfile' = [dbfile EXCEPT ![dbfd[p]] =
                     [cipher |-> CipherOf(opt[p], key[p]), tables |-> made[p] + 1]]
    /\ made' = [made EXCEPT ![p] = @ + 1]
    /\ pc' = [pc EXCEPT ![p] = IF made[p] + 1 = Statements THEN "close" ELSE @]
    /\ UNCHANGED <<cred_db, cred_cc, ccfile, opt, key, keybuf, printed, dbfd,
                   ccfd, before, chain>>

TableRefused(p) ==
    /\ pc[p] = "tables"
    /\ ~CanCreate(p)
    /\ ExitFailure(p)
    /\ UNCHANGED <<files, local, chain>>

(* Mutant: one pop for two handlers. *)
Close_OnePop(p) ==
    /\ Goto(p, "close", "exit0")
    /\ chain' = [chain EXCEPT ![p] = Pop(@)]
    /\ UNCHANGED <<files, local>>

(* Both handlers are popped, the second of which may be missing. *)
Close(p) ==
    /\ Goto(p, "close", "exit0")
    /\ chain' = [chain EXCEPT ![p] = Pop(Pop(@))]
    /\ UNCHANGED <<files, local>>

(* apply_atexit_chain(), one handler per step. *)
RunHandler(p) ==
    /\ pc[p] \in Exits /\ chain[p] # <<>>
    /\ LET fn == Newest(chain[p]) IN
        /\ cred_db' = IF fn = "rm_cred_db" THEN NoFile ELSE cred_db
        /\ cred_cc' = IF fn = "rm_cred_cc" THEN NoFile ELSE cred_cc
        /\ keybuf' = [keybuf EXCEPT ![p] = IF fn = "destroy_key" THEN "freed" ELSE @]
    /\ chain' = [chain EXCEPT ![p] = Pop(@)]
    /\ UNCHANGED <<dbfile, ccfile, pc, opt, key, printed, dbfd, ccfd, made, before>>

Exit(p) ==
    /\ pc[p] \in Exits /\ chain[p] = <<>>
    /\ pc' = [pc EXCEPT ![p] = IF pc[p] = "exit0" THEN "done" ELSE "failed"]
    /\ UNCHANGED <<files, local, chain>>

(* A call the handler checks reports an error and the handler exits: mkdir,
   unlink, random_bytes, getline, open, write, sqlite3_*. *)
SystemFailure(p) ==
    /\ Faults
    /\ pc[p] \in Working \ {"config", "close"}
    /\ ExitFailure(p)
    /\ UNCHANGED <<files, local, chain>>

(* A signal ends the process without its chain. *)
Killed(p) ==
    /\ Faults
    /\ pc[p] \in Working \cup Exits
    /\ pc' = [pc EXCEPT ![p] = "killed"]
    /\ UNCHANGED <<files, local, chain>>

Init ==
    /\ cred_db \in {NoFile, Old} /\ cred_cc \in {NoFile, Old}
    /\ dbfile = [i \in Inodes |-> [cipher |-> Plain,
                                   tables |-> IF i = Old THEN Statements ELSE 0]]
    /\ ccfile = [i \in Inodes |-> Plain]
    /\ pc = [p \in Procs |-> "idle"]
    /\ opt = [p \in Procs |-> NoOption]
    /\ key = [p \in Procs |-> NoKey]
    /\ keybuf = [p \in Procs |-> "none"]
    /\ printed = [p \in Procs |-> FALSE]
    /\ chain = [p \in Procs |-> <<>>]
    /\ dbfd = [p \in Procs |-> NoFile] /\ ccfd = [p \in Procs |-> NoFile]
    /\ made = [p \in Procs |-> 0]
    /\ before = [p \in Procs |-> [db |-> NoFile, cc |-> NoFile]]

(* What the process does by itself, and what the user does at a prompt. *)
Run(p) ==
    \/ CheckDb(p) \/ RemoveOldDb(p)
    \/ SkipEncryption(p) \/ AskKey(p) \/ RandomKey(p)
    \/ RejectConfig(p) \/ AcceptConfig(p)
    \/ CheckCc(p) \/ RemoveOldCc(p) \/ RememberKey(p)
    \/ OpenCc(p) \/ WriteCc(p)
    \/ SetupDatabase(p) \/ OpenDb(p) \/ CreateTable(p) \/ TableRefused(p)
    \/ Close(p) \/ RunHandler(p) \/ Exit(p)

Answer(p) ==
    \/ EnterKey(p) \/ NoKeyEntered(p)
    \/ ConfirmKey(p) \/ MismatchedKey(p) \/ UnconfirmedKey(p)

AllEnded == \A p \in Procs : pc[p] \in Ended

Next ==
    \/ \E p \in Procs : Start(p) \/ Run(p) \/ Answer(p)
                        \/ SystemFailure(p) \/ Killed(p)
    \/ AllEnded /\ UNCHANGED vars

Spec == Init /\ [][Next]_vars

(* A started process keeps running: the kernel schedules it and its calls
   return.  Nothing is assumed of the user. *)
FairSpec == Spec /\ \A p \in Procs : WF_vars(Run(p))
-------------------------------------------------------------------------------
(***************************************************************************)
(* Properties that hold however the processes interleave.                  *)
(***************************************************************************)

(* Every variable has a value of its type. *)
TypeOK ==
    /\ cred_db \in Inodes \cup {NoFile} /\ cred_cc \in Inodes \cup {NoFile}
    /\ dbfile \in [Inodes -> [cipher : Cipher, tables : 0..Statements]]
    /\ ccfile \in [Inodes -> Cipher \cup {Truncated}]
    /\ pc \in [Procs -> {"idle"} \cup Working \cup Exits \cup Ended]
    /\ opt \in [Procs -> AllOptions]
    /\ key \in [Procs -> Keys \cup {NoKey}]
    /\ keybuf \in [Procs -> {"none", "live", "freed"}]
    /\ printed \in [Procs -> BOOLEAN]
    /\ chain \in [Procs -> Seq(Handlers)]
    /\ dbfd \in [Procs -> Inodes \cup {NoFile}]
    /\ ccfd \in [Procs -> Inodes \cup {NoFile}]
    /\ made \in [Procs -> 0..Statements]
    /\ before \in [Procs -> [db : Inodes \cup {NoFile}, cc : Inodes \cup {NoFile}]]

(* An init that reports failure leaves neither a database nor a cipher config
   of its own behind, whichever call failed and whatever other processes did
   to the paths meanwhile: each handler is registered before its file is
   created and popped only when nothing can fail any more. *)
NoLeftovers ==
    \A p \in Procs : pc[p] = "failed" => cred_db # p /\ cred_cc # p

(* While destroy_key is registered the buffer keybuf_ref points at is
   allocated, so no exit clears and frees a key a second time. *)
HandlerSeesLiveKey ==
    \A p \in Procs : Registered(chain[p], "destroy_key") => keybuf[p] = "live"

(* The two pops at the end balance the chain on every path through the
   handler: an init that succeeds runs no cleanup, so it cannot remove what
   it made. *)
SuccessCleansNothing ==
    \A p \in Procs : pc[p] \in {"exit0", "done"} => chain[p] = <<>>

(* An init that reports success executed the whole schema in one file, and
   that file is encrypted with its own key and algorithms, also when another
   init opened the same empty file: of two, the first CREATE TABLE wins. *)
FinishedMeansComplete ==
    \A p \in Procs : pc[p] = "done" =>
        dbfile[dbfd[p]] = [cipher |-> CipherOf(opt[p], key[p]),
                           tables |-> Statements]

(* The database of an init that succeeded leaves its path in two ways only: an
   init with --force removes it, or an init that passed its own check of the
   path before that file was there fails and cleans up "its" file. *)
FinishedDbLost ==
    [][\A q \in Procs :
          pc[q] = "done" /\ cred_db = dbfd[q] /\ cred_db' # cred_db =>
              \E p \in Procs :
                  \/ opt[p].force /\ pc[p] = "rmdb" /\ pc'[p] # "rmdb"
                  \/ /\ pc[p] = "exit1" /\ chain'[p] # chain[p]
                     /\ before[p].db # dbfd[q]]_vars

(***************************************************************************)
(* The key.                                                                *)
(***************************************************************************)
Stored(p) == ccfd[p] # NoFile /\ ccfile[ccfd[p]].key = key[p]

(* After an init that succeeds the key of the new database was typed by the
   user, shown to the user or written to the cipher config, except in one
   case: a random key under --no-remember with the default HMAC, for which the
   handler jumps to setup_database past the puts() that shows the key. *)
KeyNotLost ==
    \A p \in Procs : pc[p] = "done" /\ key[p] # NoKey =>
        \/ opt[p].cmdkey \/ printed[p] \/ Stored(p)
        \/ opt[p].remember = 0 /\ opt[p].hmac \in {"unset", "default"}

(* "passphrase keys are remembered only if the user specifies --remember"
   (src/command/init.c:304): no key the user typed as a passphrase is in a
   cipher config of an init without --remember. *)
PassphraseRememberedOnlyIfAsked ==
    \A p \in Procs :
        UsePassphrase(key[p]) /\ Stored(p) => opt[p].remember = 1

(* "This command will generate a db file" (docs/pk-init.adoc:14): an init that
   has come to its end leaves a database.  Meant for one process, with no file
   in the way and no failing call. *)
GeneratesDb ==
    \A p \in Procs : pc[p] \in {"done", "failed"} => cred_db # NoFile

(***************************************************************************)
(* Properties of inits that run one after the other (~Overlap), each after *)
(* the earlier ones succeeded, failed or were killed.                      *)
(***************************************************************************)

(* A successful init that wrote a cipher config leaves a pair that belongs
   together: as long as the database path names its file, the other path
   names its config, which holds the algorithms of the database and its key
   or none. *)
ConfigDescribesDb ==
    \A p \in Procs :
        pc[p] = "done" /\ cred_db = dbfd[p] /\ ccfd[p] # NoFile =>
            /\ cred_cc = ccfd[p]
            /\ [ccfile[cred_cc] EXCEPT !.key = key[p]] = dbfile[cred_db].cipher
            /\ ccfile[cred_cc].key \in {key[p], NoKey}

(* Without --force a failed init is as if it had not run: both paths name what
   they named when it started. *)
FailureKeepsFiles ==
    [][\A p \in Procs :
          pc[p] # "failed" /\ pc'[p] = "failed" /\ ~opt[p].force =>
              [db |-> cred_db', cc |-> cred_cc'] = before[p]]_vars

(* Without --force an init never removes, replaces or rewrites a file it did
   not create, also when it fails or is killed half way. *)
OnlyForceDestroys ==
    [][\A p \in Procs :
          pc[p] \in Working \cup Exits /\ ~opt[p].force =>
              /\ cred_db \notin {NoFile, p} => cred_db' = cred_db
              /\ cred_cc \notin {NoFile, p} => cred_cc' = cred_cc
              /\ \A i \in Inodes \ {p} :
                    dbfile'[i] = dbfile[i] /\ ccfile'[i] = ccfile[i]]_vars

(***************************************************************************)
(* Liveness, under FairSpec.                                               *)
(***************************************************************************)

(* A started init ends, its handlers run to the last, or it waits for the
   user at a prompt. *)
EndsOrAsks ==
    \A p \in Procs : pc[p] # "idle" ~> pc[p] \in Ended \cup Prompts
==============================================================================
