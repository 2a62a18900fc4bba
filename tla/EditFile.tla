------------------------------- MODULE EditFile -------------------------------
(***************************************************************************)
(* edit_file() of src/exteditor.c with src/compat/uni/pkproc.c and         *)
(* src/spinner.c: pk starts an editor, shows a spinner while the user is   *)
(* busy in it, and waits.  Three processes run: pk and its two children.   *)
(*                                                                         *)
(* A child reports through a pipe that it could not be started.  The read  *)
(* of that pipe ends when the report arrives or when every write end is    *)
(* closed: pk's by close(), the child's by its exec, its close() or its    *)
(* end.                                                                    *)
(*                                                                         *)
(* Not modelled: the redirection of stdio (no caller asks for it), and     *)
(* EINTR of waitpid(): pk installs no signal handler.                      *)
(***************************************************************************)
CONSTANT Faults     \* may system calls fail and processes be killed?

ASSUME EditAssumption == Faults \in BOOLEAN

Kids    == {"editor", "spinner"}
Signals == {"INT", "QUIT"}

VARIABLES
    pc,        \* where pk is
    kid,       \* the child pk is starting
    proc,      \* child -> its life
    status,    \* child -> how it ended
    inherited, \* child -> the signals ignored when it was forked
    ignored,   \* the keyboard signals pk ignores
    pipe,      \* child -> its errnot_pipe: was it made, who can write, is there a
               \* report in it?
    show,      \* show_spinner
    termed,    \* has SIGTERM been sent to the spinner?
    autoreap   \* did pk inherit SIGCHLD ignored?  Then no child leaves a zombie

pkvars   == <<pc, kid, ignored, show>>
kidvars  == <<proc, status, inherited>>
vars     == <<pkvars, kidvars, pipe, termed, autoreap>>

Alive == {"forked", "dying", "running"}
Ended == {"returned", "failed", "exited", "interrupted", "killed"}

NoPipe    == [ok |-> FALSE, writers |-> {}, report |-> FALSE]
FreshPipe == [ok |-> TRUE, writers |-> {"pk"}, report |-> FALSE]

Goto(from, to) == pc = from /\ pc' = to

Init ==
    /\ pc = "start" /\ kid = "editor" /\ ignored = {} /\ show = FALSE
    /\ proc = [k \in Kids |-> "none"]
    /\ status = [k \in Kids |-> "none"]
    /\ inherited = [k \in Kids |-> {}]
    /\ pipe = [k \in Kids |-> NoPipe]
    /\ termed = FALSE
    /\ autoreap \in BOOLEAN
-------------------------------------------------------------------------------
(***************************************************************************)
(* The children.                                                           *)
(***************************************************************************)

(* The end of a child closes its write end of the pipe. *)
Ends(k, how) ==
    /\ proc' = [proc EXCEPT ![k] = IF autoreap THEN "reaped" ELSE "zombie"]
    /\ status' = [status EXCEPT ![k] = how]
    /\ pipe' = [pipe EXCEPT ![k].writers = @ \ {k}]
    /\ UNCHANGED inherited

(* execvp() succeeds: the write end is close-on-exec. *)
Exec ==
    /\ proc["editor"] = "forked"
    /\ proc' = [proc EXCEPT !["editor"] = "running"]
    /\ pipe' = [pipe EXCEPT !["editor"].writers = @ \ {"editor"}]
    /\ UNCHANGED <<pkvars, status, inherited, termed, autoreap>>

(* Mutant: the child that cannot exec just ends. *)
ChildDie_Silent ==
    /\ proc["editor"] = "forked"
    /\ proc' = [proc EXCEPT !["editor"] = "dying"]
    /\ UNCHANGED <<pkvars, status, inherited, pipe, termed, autoreap>>

(* execvp() fails: there is no such program.  The report gets lost if there is
   no pipe. *)
ChildDie ==
    /\ proc["editor"] = "forked"
    /\ proc' = [proc EXCEPT !["editor"] = "dying"]
    /\ pipe' = [pipe EXCEPT !["editor"].report = pipe["editor"].ok]
    /\ UNCHANGED <<pkvars, status, inherited, termed, autoreap>>

ChildExit ==
    /\ proc["editor"] = "dying"
    /\ Ends("editor", "noexec")
    /\ UNCHANGED <<pkvars, termed, autoreap>>

(* The spinner closes its write end and turns for ever. *)
RunSpinner ==
    /\ proc["spinner"] = "forked"
    /\ proc' = [proc EXCEPT !["spinner"] = "running"]
    /\ pipe' = [pipe EXCEPT !["spinner"].writers = @ \ {"spinner"}]
    /\ UNCHANGED <<pkvars, status, inherited, termed, autoreap>>

SpinnerTerminated ==
    /\ termed /\ proc["spinner"] \in Alive
    /\ Ends("spinner", "signal")
    /\ UNCHANGED <<pkvars, termed, autoreap>>

(* The user leaves the editor, or it crashes. *)
EditorEnds ==
    /\ proc["editor"] = "running"
    /\ \E how \in {"exit", "signal"} : Ends("editor", how)
    /\ UNCHANGED <<pkvars, termed, autoreap>>

KidKilled(k) ==
    /\ Faults /\ proc[k] \in Alive
    /\ Ends(k, "signal")
    /\ UNCHANGED <<pkvars, termed, autoreap>>

(* A key that sends a signal to the whole foreground group: pk and every child
   that has not installed handlers of its own, as editors do. *)
Keyboard(sig) ==
    /\ pc \notin Ended
    /\ pc' = IF sig \in ignored THEN pc ELSE "interrupted"
    /\ LET hit == {k \in Kids : /\ proc[k] \in Alive /\ sig \notin inherited[k]
                                /\ k = "spinner" \/ proc[k] # "running"}
       IN  /\ proc' = [k \in Kids |-> IF k \notin hit THEN proc[k]
                                      ELSE IF autoreap THEN "reaped" ELSE "zombie"]
           /\ status' = [k \in Kids |-> IF k \in hit THEN "signal" ELSE status[k]]
           /\ pipe' = [k \in Kids |-> [pipe[k] EXCEPT !.writers = @ \ (hit \cap {k})]]
    /\ UNCHANGED <<kid, ignored, show, inherited, termed, autoreap>>
-------------------------------------------------------------------------------
(***************************************************************************)
(* pk: edit_file(), with mkprocl() and mkprocf() for the child kid.        *)
(***************************************************************************)
NoEditor ==
    /\ Goto("start", "failed")
    /\ UNCHANGED <<kid, ignored, show, kidvars, pipe, termed, autoreap>>

IgnoreInterrupt ==
    /\ Goto("start", "ignoring")
    /\ ignored' = ignored \cup {"INT"}
    /\ UNCHANGED <<kid, show, kidvars, pipe, termed, autoreap>>

(* Mutant: the wrong signal. *)
IgnoreQuit_WrongSignal ==
    /\ Goto("ignoring", "make")
    /\ ignored' = ignored \cup {"TERM"}
    /\ UNCHANGED <<kid, show, kidvars, pipe, termed, autoreap>>

(* Mutant: SIGQUIT is forgotten. *)
IgnoreQuit_Forgotten ==
    /\ Goto("ignoring", "make")
    /\ UNCHANGED <<kid, ignored, show, kidvars, pipe, termed, autoreap>>

IgnoreQuit ==
    /\ Goto("ignoring", "make")
    /\ ignored' = ignored \cup {"QUIT"}
    /\ UNCHANGED <<kid, show, kidvars, pipe, termed, autoreap>>

(* make_process_fildes(): without a pipe pk goes on. *)
MakeFildes ==
    /\ Goto("make", "fork")
    /\ \/ pipe' = [pipe EXCEPT ![kid] = FreshPipe]
       \/ Faults /\ UNCHANGED pipe
    /\ UNCHANGED <<kid, ignored, show, kidvars, termed, autoreap>>

(* xopen() of the null device ends pk, also while the editor is running. *)
NulFails ==
    /\ Faults /\ Goto("make", "exited")
    /\ UNCHANGED <<kid, ignored, show, kidvars, pipe, termed, autoreap>>

Fork ==
    /\ Goto("fork", "close")
    /\ proc' = [proc EXCEPT ![kid] = "forked"]
    /\ inherited' = [inherited EXCEPT ![kid] = ignored]
    /\ pipe' = [pipe EXCEPT ![kid].writers = IF pipe[kid].ok THEN @ \cup {kid} ELSE @]
    /\ UNCHANGED <<kid, ignored, show, status, termed, autoreap>>

ForkFails ==
    /\ Faults /\ Goto("fork", "close")
    /\ UNCHANGED <<kid, ignored, show, kidvars, pipe, termed, autoreap>>

(* Mutant: pk keeps its own write end. *)
CloseWriteEnd_Kept ==
    /\ Goto("close", "read")
    /\ UNCHANGED <<kid, ignored, show, kidvars, pipe, termed, autoreap>>

(* after_fork() *)
CloseWriteEnd ==
    /\ Goto("close", "read")
    /\ pipe' = [pipe EXCEPT ![kid].writers = @ \ {"pk"}]
    /\ UNCHANGED <<kid, ignored, show, kidvars, termed, autoreap>>

(* What edit_file() does with a child it could not start: it gives up without
   an editor, and goes on without a spinner. *)
NotStarted ==
    /\ pc' = IF kid = "editor" THEN "failed" ELSE "wait"
    /\ show' = FALSE

(* check_child_died(): the report is there. *)
ChildDied ==
    /\ Goto("read", "collect")
    /\ pipe[kid].report
    /\ UNCHANGED <<kid, ignored, show, kidvars, pipe, termed, autoreap>>

(* check_child_died(): nothing to read any more. *)
ChildStarted ==
    /\ pc = "read" /\ ~pipe[kid].report /\ pipe[kid].writers = {}
    /\ IF proc[kid] = "none"
       THEN NotStarted
       ELSE /\ pc' = IF kid = "editor" THEN "choose" ELSE "wait"
            /\ UNCHANGED show
    /\ UNCHANGED <<kid, ignored, kidvars, pipe, termed, autoreap>>

(* finish_process(): waitpid() collects the zombie. *)
Collects(k) ==
    /\ proc[k] = "zombie"
    /\ proc' = [proc EXCEPT ![k] = "reaped"]
    /\ UNCHANGED <<status, inherited>>

(* finish_process(): there is no child any more and waitpid() fails; the loop
   then looks at a status nobody has set, and may spin on it for ever. *)
WaitFails(k) ==
    /\ proc[k] = "reaped" /\ pc' = "spin"
    /\ UNCHANGED <<kid, ignored, show, kidvars, pipe, termed, autoreap>>

Finishes(k) ==
    \/ Collects(k)
    \/ proc[k] = "reaped" /\ UNCHANGED kidvars

CollectDead ==
    \/ /\ pc = "collect"
       /\ Finishes(kid)
       /\ NotStarted
       /\ UNCHANGED <<kid, ignored, pipe, termed, autoreap>>
    \/ pc = "collect" /\ WaitFails(kid)

(* A spinner is shown if the user wants one, and by default if the editor has a
   window of its own. *)
Choose ==
    /\ pc = "choose"
    /\ \E style \in {"none", "default", "named"}, graphical \in BOOLEAN :
          show' = (style # "none" /\ (graphical \/ style # "default"))
    /\ pc' = IF show' THEN "make" ELSE "wait"
    /\ kid' = "spinner"
    /\ UNCHANGED <<ignored, kidvars, pipe, termed, autoreap>>

(* How the editor ended is not looked at. *)
FinishEditor ==
    \/ /\ pc = "wait"
       /\ Finishes("editor")
       /\ pc' = IF show THEN "kill" ELSE "restore"
       /\ UNCHANGED <<kid, ignored, show, pipe, termed, autoreap>>
    \/ pc = "wait" /\ WaitFails("editor")

(* Mutant: the signal is not sent. *)
KillSpinner_NoSignal ==
    /\ Goto("kill", "gather")
    /\ UNCHANGED <<kid, ignored, show, kidvars, pipe, termed, autoreap>>

KillSpinner ==
    /\ Goto("kill", "gather")
    /\ termed' = TRUE
    /\ UNCHANGED <<kid, ignored, show, kidvars, pipe, autoreap>>

(* Mutant: the spinner is killed and not waited for. *)
FinishSpinner_NoWait ==
    /\ Goto("gather", "restore")
    /\ UNCHANGED <<kid, ignored, show, kidvars, pipe, termed, autoreap>>

FinishSpinner ==
    \/ /\ Goto("gather", "restore")
       /\ Finishes("spinner")
       /\ UNCHANGED <<kid, ignored, show, pipe, termed, autoreap>>
    \/ pc = "gather" /\ WaitFails("spinner")

RestoreInterrupt ==
    /\ Goto("restore", "restoring")
    /\ ignored' = ignored \ {"INT"}
    /\ UNCHANGED <<kid, show, kidvars, pipe, termed, autoreap>>

RestoreQuit ==
    /\ Goto("restoring", "returned")
    /\ ignored' = ignored \ {"QUIT"}
    /\ UNCHANGED <<kid, show, kidvars, pipe, termed, autoreap>>

Killed ==
    /\ Faults /\ pc \notin Ended
    /\ pc' = "killed"
    /\ UNCHANGED <<kid, ignored, show, kidvars, pipe, termed, autoreap>>
-------------------------------------------------------------------------------
Edit ==
    \/ NoEditor \/ IgnoreInterrupt \/ IgnoreQuit
    \/ MakeFildes \/ NulFails \/ Fork \/ ForkFails \/ CloseWriteEnd
    \/ ChildDied \/ ChildStarted \/ CollectDead \/ Choose
    \/ FinishEditor \/ KillSpinner \/ FinishSpinner
    \/ RestoreInterrupt \/ RestoreQuit

Launch == Exec \/ ChildDie \/ ChildExit \/ RunSpinner \/ SpinnerTerminated

Next ==
    \/ Edit \/ Launch \/ EditorEnds \/ Killed
    \/ \E k \in Kids : KidKilled(k)
    \/ \E sig \in Signals : Keyboard(sig)
    \/ pc \in Ended /\ UNCHANGED vars

Spec == Init /\ [][Next]_vars

(* pk and a child that is being started run; the user may never leave the
   editor. *)
FairSpec == Spec /\ WF_vars(Edit) /\ WF_vars(Launch)
-------------------------------------------------------------------------------
TypeOK ==
    /\ pc \in Ended \cup {"start", "ignoring", "make", "fork", "close", "read",
                          "collect", "choose", "wait", "kill", "gather", "restore",
                          "restoring", "spin"}
    /\ kid \in Kids
    /\ proc \in [Kids -> Alive \cup {"none", "zombie", "reaped"}]
    /\ status \in [Kids -> {"none", "noexec", "exit", "signal"}]
    /\ inherited \in [Kids -> SUBSET Signals]
    /\ ignored \subseteq Signals
    /\ pipe \in [Kids -> [ok : BOOLEAN, writers : SUBSET (Kids \cup {"pk"}), report : BOOLEAN]]
    /\ show \in BOOLEAN /\ termed \in BOOLEAN /\ autoreap \in BOOLEAN

(* A key pressed in the editor does not end pk: it dies of a signal from the
   keyboard only before the editor is forked or after it is collected. *)
InterruptSpares ==
    pc = "interrupted" => proc["editor"] \in {"none", "reaped"}

(* When edit_file() returns there is no child left, alive or unwaited, and the
   signals are as they were. *)
NothingLeftBehind ==
    pc = "returned" =>
        /\ \A k \in Kids : proc[k] \in {"none", "reaped"}
        /\ ignored = {}

(* An editor that cannot be executed is noticed; success means that a program
   ran on the file, unless the pipe could not be made or the child was killed
   before it could report. *)
FailureNoticed ==
    status["editor"] = "noexec" /\ pc \in {"choose", "wait", "returned"} => ~pipe["editor"].ok

(* Starting a child does not wait for the child's work. *)
LaunchReturns == pc = "read" ~> pc # "read"

(* Once the editor is gone, edit_file() comes to its end: the spinner does not
   keep it.  Not so if pk was started with SIGCHLD ignored. *)
EditReturns ==
    proc["editor"] \in {"zombie", "reaped"} /\ ~autoreap ~> pc \in Ended
===============================================================================
