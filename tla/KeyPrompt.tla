-------------------------------- MODULE KeyPrompt --------------------------------
(***************************************************************************)
(* The prompt for a key: read_cmdkey() of src/security.c with              *)
(* src/compat/uni/security.c.  "pk create" comes to it with the terminal   *)
(* and the signals as edit_file() has left them, so its steps follow those *)
(* of EditFile; "pk init" (request_cmdkey() of src/command/init.c) asks    *)
(* twice, and again if the answers differ.                                 *)
(*                                                                         *)
(* An answer is a key, NoAnswer at end of file.  That im_print() tries     *)
(* again when the terminal does not take its text leaves errno set.        *)
(***************************************************************************)
EXTENDS EditFile

CONSTANTS
    Keys,    \* what the user may type
    NoAnswer \* end of file

ASSUME KeyAssumption == Keys \cap {NoAnswer, "unset", "freed"} = {}

VARIABLES
    who,    \* the command that asks
    ask,    \* where its prompt is
    round,  \* request_cmdkey(): the key, or its confirmation
    echo,   \* does the terminal show what is typed?
    term,   \* the setting that was saved
    noset,  \* no_setattr
    errno,  \* is errno set?
    answer, \* what getline() came back with
    key1, key2, \* cmdkey_buf1 and cmdkey_buf2: a key, "unset" or "freed"
    stuck   \* history: did the terminal refuse to have its setting restored?

termvars == <<echo, term, noset, stuck>>
keyvars  == <<key1, key2>>
askvars  == <<who, ask, round, termvars, errno, answer, keyvars>>
allvars  == <<vars, askvars>>

Asking  == {"disable", "print", "getline", "again", "restore"}
Over    == {"keyed", "nokey", "died", "killed", "undefined"}

PromptInit ==
    /\ Init
    /\ who \in {"create", "init"} /\ ask = "idle" /\ round = "key"
    /\ echo = TRUE /\ term = TRUE /\ noset = FALSE /\ stuck = FALSE
    /\ errno = FALSE /\ answer = NoAnswer
    /\ key1 = "unset" /\ key2 = "unset"

Pass(from, to) == ask = from /\ ask' = to

(* The file is edited before the key is asked for, unless pk is given the record
   on the command line. *)
Begin ==
    /\ pc = IF who = "create" THEN "returned" ELSE "start"
    /\ Pass("idle", "disable")
    /\ UNCHANGED <<who, round, termvars, errno, answer, keyvars>>
-------------------------------------------------------------------------------
(***************************************************************************)
(* read_cmdkey()                                                           *)
(***************************************************************************)
(* termios_disable_echo() *)
DisableEcho ==
    /\ Pass("disable", "print")
    /\ \/ echo' = FALSE /\ term' = echo /\ noset' = FALSE
       \/ Faults /\ noset' = TRUE /\ UNCHANGED <<echo, term>>
    /\ errno' = FALSE
    /\ UNCHANGED <<who, round, stuck, answer, keyvars>>

(* im_print() or im_fputs(): written, written at a later try, or not at all. *)
Prints(next) ==
    /\ \/ ask' = next /\ UNCHANGED errno
       \/ Faults /\ ask' = next /\ errno' = TRUE
       \/ Faults /\ ask' = "died" /\ errno' = TRUE
    /\ UNCHANGED <<who, round, termvars, answer, keyvars>>

PrintMessage == ask = "print" /\ Prints("getline")

(* getline() reads an empty line: pk says so and asks again. *)
EmptyLine ==
    /\ Pass("getline", "again")
    /\ UNCHANGED <<who, round, termvars, errno, answer, keyvars>>

PrintAgain == ask = "again" /\ Prints("print")

EnterKey ==
    /\ Pass("getline", "restore")
    /\ answer' \in Keys
    /\ IF round = "key" THEN key1' = answer' /\ UNCHANGED key2
                        ELSE key2' = answer' /\ UNCHANGED key1
    /\ UNCHANGED <<who, round, termvars, errno>>

(* End of file is told from an error by errno, which nobody has reset since the
   first message. *)
EndOfFile ==
    /\ Pass("getline", IF errno THEN "died" ELSE "restore")
    /\ answer' = NoAnswer
    /\ UNCHANGED <<who, round, termvars, errno, keyvars>>

GetlineFails ==
    /\ Faults /\ Pass("getline", "died")
    /\ UNCHANGED <<who, round, termvars, errno, answer, keyvars>>

(* Mutant: the echo comes back for a key only. *)
RestoreEcho_WithKey ==
    /\ Pass("restore", "back")
    /\ IF noset \/ answer = NoAnswer
       THEN UNCHANGED <<echo, stuck>>
       ELSE \/ echo' = term /\ UNCHANGED stuck
            \/ Faults /\ stuck' = TRUE /\ UNCHANGED echo
    /\ UNCHANGED <<who, round, term, noset, errno, answer, keyvars>>

(* termios_restore_config(): a failure is a warning. *)
RestoreEcho ==
    /\ Pass("restore", "back")
    /\ IF noset
       THEN UNCHANGED <<echo, stuck>>
       ELSE \/ echo' = term /\ UNCHANGED stuck
            \/ Faults /\ stuck' = TRUE /\ UNCHANGED echo
    /\ UNCHANGED <<who, round, term, noset, errno, answer, keyvars>>

(* The signals of the keyboard have their default effect again. *)
Interrupt ==
    /\ ask \in Asking /\ Signals \ ignored # {}
    /\ ask' = "killed"
    /\ UNCHANGED <<who, round, termvars, errno, answer, keyvars>>
-------------------------------------------------------------------------------
(***************************************************************************)
(* What the callers do with the answer.                                    *)
(***************************************************************************)
CreateTakesKey ==
    /\ who = "create"
    /\ Pass("back", IF answer = NoAnswer THEN "nokey" ELSE "keyed")
    /\ UNCHANGED <<who, round, termvars, errno, answer, keyvars>>

(* request_cmdkey(): no key ends pk. *)
InitNeedsKey ==
    /\ who = "init" /\ round = "key" /\ answer = NoAnswer
    /\ Pass("back", "nokey")
    /\ UNCHANGED <<who, round, termvars, errno, answer, keyvars>>

InitConfirms ==
    /\ who = "init" /\ round = "key" /\ answer # NoAnswer
    /\ Pass("back", "disable") /\ round' = "confirm"
    /\ UNCHANGED <<who, termvars, errno, answer, keyvars>>

(* Mutant: the lengths are compared, not the keys. *)
InitMatches_Length ==
    /\ who = "init" /\ round = "confirm" /\ answer # NoAnswer
    /\ Pass("back", "keyed") /\ key2' = "freed"
    /\ UNCHANGED <<who, round, termvars, errno, answer, key1>>

InitMatches ==
    /\ who = "init" /\ round = "confirm" /\ answer = key1
    /\ Pass("back", "keyed") /\ key2' = "freed"
    /\ UNCHANGED <<who, round, termvars, errno, answer, key1>>

(* Both buffers are freed and both keys asked for again.  At end of file there is
   no second buffer: what is freed is whatever the variable holds, which is what
   was freed before if this is not the first attempt. *)
InitMismatch ==
    /\ who = "init" /\ round = "confirm" /\ answer # key1
    /\ IF key2 \in {"unset", "freed"}
       THEN Pass("back", "undefined") /\ UNCHANGED <<round, keyvars>>
       ELSE /\ Pass("back", "disable") /\ round' = "key"
            /\ key1' = "freed" /\ key2' = "freed"
    /\ UNCHANGED <<who, termvars, errno, answer>>

-------------------------------------------------------------------------------
Ask ==
    \/ Begin \/ DisableEcho \/ PrintMessage \/ EmptyLine \/ PrintAgain \/ EnterKey
    \/ EndOfFile \/ GetlineFails \/ RestoreEcho \/ Interrupt
    \/ CreateTakesKey \/ InitNeedsKey \/ InitConfirms \/ InitMatches \/ InitMismatch

PromptNext ==
    \/ who = "create" /\ Next /\ UNCHANGED askvars
    \/ Ask /\ UNCHANGED vars
    \/ ask \in Over /\ UNCHANGED allvars

PromptSpec ==
    /\ PromptInit /\ [][PromptNext]_allvars
    /\ WF_allvars(who = "create" /\ Edit /\ UNCHANGED askvars)
    /\ WF_allvars(who = "create" /\ Launch /\ UNCHANGED askvars)

(* Whenever pk goes on, also at end of file, the terminal shows again what is
   typed, unless it has refused to.  Only where pk dies or is killed at the prompt
   it may stay mute. *)
EchoRestored == ask \notin Asking \cup {"died", "killed"} => echo \/ stuck

(* A key that is accepted was typed twice, with no key buffer left behind or freed
   twice; a buffer nobody has set is freed only after end of file at the
   confirmation. *)
KeyTypedTwice ==
    /\ who = "init" /\ ask = "keyed" => key1 \in Keys /\ answer = key1 /\ key2 = "freed"
    /\ ask = "undefined" => round = "confirm" /\ answer = NoAnswer
===============================================================================
