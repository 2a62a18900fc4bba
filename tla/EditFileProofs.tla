---------------------------- MODULE EditFileProofs ----------------------------
(***************************************************************************)
(* Theorems about EditFile, with or without failing calls and kills, and   *)
(* about KeyPrompt, which composes it with the prompt for the key, for any *)
(* keys.                                                                   *)
(***************************************************************************)
EXTENDS KeyPrompt, TLAPS

(* The places of edit_file() while a child is being started. *)
Starting == {"make", "fork", "close", "read", "collect"}

(* The places where pk ignores the keyboard. *)
Deaf == Starting \cup {"choose", "wait", "kill", "gather", "restore", "spin"}

(* The signals pk ignores, and those every child was born with. *)
SignalInv ==
    /\ pc = "start" => ignored = {}
    /\ pc \in Deaf => ignored = Signals
    /\ pc = "returned" => ignored = {}
    /\ pc = "restoring" => ignored = {"QUIT"}
    /\ \A k \in Kids : proc[k] # "none" => inherited[k] = Signals
    /\ pc = "ignoring" => ignored = {"INT"}

(* The lives of the children where pk is. *)
LifeInv ==
    /\ pc \in {"start", "ignoring"} => kid = "editor"
    /\ kid = "editor" => proc["spinner"] = "none"
    /\ pc \in {"start", "ignoring", "make", "fork"} => proc[kid] = "none"
    /\ pc = "choose" => kid = "editor"
    /\ pc \in {"wait", "kill", "gather", "restore", "restoring", "returned"} => kid = "spinner"
    /\ pc \in Starting /\ kid = "spinner" => show
    /\ pc = "wait" /\ ~show => proc["spinner"] \in {"none", "reaped"}
    /\ pc \in {"kill", "gather", "restore", "restoring", "returned"} =>
          proc["editor"] = "reaped"
    /\ pc \in {"restore", "restoring", "returned"} =>
          proc["spinner"] \in {"none", "reaped"}
    /\ pc = "interrupted" => proc["editor"] \in {"none", "reaped"}

(* The editor's pipe, until it is known whether the editor runs. *)
PipeInv ==
    LET ok     == pipe["editor"].ok
        report == pipe["editor"].report
    IN  /\ status["editor"] = "noexec" => proc["editor"] \in {"zombie", "reaped"}
        /\ ok /\ proc["editor"] \in {"forked", "dying"} => "editor" \in pipe["editor"].writers
        /\ ok /\ (proc["editor"] = "dying" \/ status["editor"] = "noexec") => report
        /\ ok /\ (kid = "spinner" \/ pc = "choose") =>
              proc["editor"] \notin {"forked", "dying"} /\ status["editor"] # "noexec"

Inv == TypeOK /\ SignalInv /\ LifeInv /\ PipeInv

(* What a pipe is. *)
Pipes == [ok : BOOLEAN, writers : SUBSET (Kids \cup {"pk"}), report : BOOLEAN]

LEMMA PipeTypes == FreshPipe \in Pipes /\ NoPipe \in Pipes
BY DEF FreshPipe, NoPipe, Pipes

LEMMA InitInv == Init => Inv
<1>. SUFFICES ASSUME Init PROVE Inv
  OBVIOUS
<1>. USE DEF Init, Kids
<1>1. TypeOK
  <2>1. pipe \in [Kids -> Pipes]
    BY PipeTypes
  <2>. QED  BY <2>1 DEF TypeOK, Signals, Alive, Ended, Pipes
<1>2. SignalInv
  BY DEF SignalInv, Deaf, Starting
<1>3. LifeInv
  BY DEF LifeInv, Starting
<1>4. PipeInv
  BY DEF PipeInv
<1>. QED  BY <1>1, <1>2, <1>3, <1>4 DEF Inv

-------------------------------------------------------------------------------
(***************************************************************************)
(* Each step keeps each part of the invariant.                             *)
(***************************************************************************)

LEMMA StepType ==
    ASSUME TypeOK, [Next]_vars
    PROVE  TypeOK'
<1>. USE DEF TypeOK, Kids, Signals, Alive, Ended
<1>1. CASE NoEditor
  BY <1>1 DEF NoEditor, Goto, pkvars, kidvars
<1>2. CASE IgnoreInterrupt
  BY <1>2 DEF IgnoreInterrupt, Goto, pkvars, kidvars
<1>3. CASE IgnoreQuit
  BY <1>3 DEF IgnoreQuit, Goto, pkvars, kidvars
<1>4. CASE MakeFildes
  <2>1. pipe' \in [Kids -> Pipes]
    BY <1>4, PipeTypes DEF MakeFildes, Pipes
  <2>. QED  BY <1>4, <2>1 DEF MakeFildes, Goto, Pipes, kidvars
<1>5. CASE NulFails
  BY <1>5 DEF NulFails, Goto, pkvars, kidvars
<1>6. CASE Fork
  BY <1>6 DEF Fork, Goto, pkvars, kidvars
<1>7. CASE ForkFails
  BY <1>7 DEF ForkFails, Goto, pkvars, kidvars
<1>8. CASE CloseWriteEnd
  BY <1>8 DEF CloseWriteEnd, Goto, pkvars, kidvars
<1>9. CASE ChildDied
  BY <1>9 DEF ChildDied, Goto, pkvars, kidvars
<1>10. CASE ChildStarted
  BY <1>10 DEF ChildStarted, NotStarted, pkvars, kidvars
<1>11. CASE CollectDead
  BY <1>11 DEF CollectDead, NotStarted, Finishes, Collects, WaitFails, pkvars, kidvars
<1>12. CASE Choose
  BY <1>12 DEF Choose, pkvars, kidvars
<1>13. CASE FinishEditor
  BY <1>13 DEF FinishEditor, Finishes, Collects, WaitFails, pkvars, kidvars
<1>14. CASE KillSpinner
  BY <1>14 DEF KillSpinner, Goto, pkvars, kidvars
<1>15. CASE FinishSpinner
  BY <1>15 DEF FinishSpinner, Goto, Finishes, Collects, WaitFails, pkvars, kidvars
<1>16. CASE RestoreInterrupt
  BY <1>16 DEF RestoreInterrupt, Goto, pkvars, kidvars
<1>17. CASE RestoreQuit
  BY <1>17 DEF RestoreQuit, Goto, pkvars, kidvars
<1>18. CASE Exec
  BY <1>18 DEF Exec, pkvars, kidvars
<1>19. CASE ChildDie
  BY <1>19 DEF ChildDie, pkvars, kidvars
<1>20. CASE ChildExit
  BY <1>20 DEF ChildExit, Ends, pkvars, kidvars
<1>21. CASE RunSpinner
  BY <1>21 DEF RunSpinner, pkvars, kidvars
<1>22. CASE SpinnerTerminated
  BY <1>22 DEF SpinnerTerminated, Ends, pkvars, kidvars
<1>23. CASE EditorEnds
  BY <1>23 DEF EditorEnds, Ends, pkvars, kidvars
<1>24. ASSUME NEW k \in Kids, KidKilled(k) PROVE TypeOK'
  BY <1>24 DEF KidKilled, Ends, pkvars
<1>25. ASSUME NEW sig \in Signals, Keyboard(sig) PROVE TypeOK'
  BY <1>25 DEF Keyboard
<1>26. CASE Killed
  BY <1>26 DEF Killed, kidvars
<1>27. CASE UNCHANGED vars
  BY <1>27 DEF vars, pkvars, kidvars
<1>. QED
  BY <1>1, <1>2, <1>3, <1>4, <1>5, <1>6, <1>7, <1>8, <1>9, <1>10, <1>11, <1>12,
     <1>13, <1>14, <1>15, <1>16, <1>17, <1>18, <1>19, <1>20, <1>21, <1>22, <1>23, <1>24, <1>25, <1>26, <1>27
     DEF Next, Edit, Launch

LEMMA StepSignal ==
    ASSUME TypeOK, SignalInv, LifeInv, [Next]_vars
    PROVE  SignalInv'
<1>. USE DEF TypeOK, SignalInv, LifeInv, Kids, Signals, Alive, Ended, Starting, Deaf
<1>1. CASE NoEditor
  BY <1>1 DEF NoEditor, Goto, pkvars, kidvars
<1>2. CASE IgnoreInterrupt
  BY <1>2 DEF IgnoreInterrupt, Goto, pkvars, kidvars
<1>3. CASE IgnoreQuit
  BY <1>3 DEF IgnoreQuit, Goto, pkvars, kidvars
<1>4. CASE MakeFildes
  BY <1>4 DEF MakeFildes, Goto, FreshPipe, NoPipe, pkvars, kidvars
<1>5. CASE NulFails
  BY <1>5 DEF NulFails, Goto, pkvars, kidvars
<1>6. CASE Fork
  BY <1>6 DEF Fork, Goto, pkvars, kidvars
<1>7. CASE ForkFails
  BY <1>7 DEF ForkFails, Goto, pkvars, kidvars
<1>8. CASE CloseWriteEnd
  BY <1>8 DEF CloseWriteEnd, Goto, pkvars, kidvars
<1>9. CASE ChildDied
  BY <1>9 DEF ChildDied, Goto, pkvars, kidvars
<1>10. CASE ChildStarted
  BY <1>10 DEF ChildStarted, NotStarted, pkvars, kidvars
<1>11. CASE CollectDead
  BY <1>11 DEF CollectDead, NotStarted, Finishes, Collects, WaitFails, pkvars, kidvars
<1>12. CASE Choose
  BY <1>12 DEF Choose, pkvars, kidvars
<1>13. CASE FinishEditor
  BY <1>13 DEF FinishEditor, Finishes, Collects, WaitFails, pkvars, kidvars
<1>14. CASE KillSpinner
  BY <1>14 DEF KillSpinner, Goto, pkvars, kidvars
<1>15. CASE FinishSpinner
  BY <1>15 DEF FinishSpinner, Goto, Finishes, Collects, WaitFails, pkvars, kidvars
<1>16. CASE RestoreInterrupt
  BY <1>16 DEF RestoreInterrupt, Goto, pkvars, kidvars
<1>17. CASE RestoreQuit
  BY <1>17 DEF RestoreQuit, Goto, pkvars, kidvars
<1>18. CASE Exec
  BY <1>18 DEF Exec, pkvars, kidvars
<1>19. CASE ChildDie
  BY <1>19 DEF ChildDie, pkvars, kidvars
<1>20. CASE ChildExit
  BY <1>20 DEF ChildExit, Ends, pkvars, kidvars
<1>21. CASE RunSpinner
  BY <1>21 DEF RunSpinner, pkvars, kidvars
<1>22. CASE SpinnerTerminated
  BY <1>22 DEF SpinnerTerminated, Ends, pkvars, kidvars
<1>23. CASE EditorEnds
  BY <1>23 DEF EditorEnds, Ends, pkvars, kidvars
<1>24. ASSUME NEW k \in Kids, KidKilled(k) PROVE SignalInv'
  BY <1>24 DEF KidKilled, Ends, pkvars
<1>25. ASSUME NEW sig \in Signals, Keyboard(sig) PROVE SignalInv'
  BY <1>25 DEF Keyboard
<1>26. CASE Killed
  BY <1>26 DEF Killed, kidvars
<1>27. CASE UNCHANGED vars
  BY <1>27 DEF vars, pkvars, kidvars
<1>. QED
  BY <1>1, <1>2, <1>3, <1>4, <1>5, <1>6, <1>7, <1>8, <1>9, <1>10, <1>11, <1>12,
     <1>13, <1>14, <1>15, <1>16, <1>17, <1>18, <1>19, <1>20, <1>21, <1>22, <1>23, <1>24, <1>25, <1>26, <1>27
     DEF Next, Edit, Launch

LEMMA StepLife ==
    ASSUME TypeOK, SignalInv, LifeInv, [Next]_vars
    PROVE  LifeInv'
<1>. USE DEF TypeOK, SignalInv, LifeInv, Kids, Signals, Alive, Ended, Starting, Deaf
<1>1. CASE NoEditor
  BY <1>1 DEF NoEditor, Goto, pkvars, kidvars
<1>2. CASE IgnoreInterrupt
  BY <1>2 DEF IgnoreInterrupt, Goto, pkvars, kidvars
<1>3. CASE IgnoreQuit
  BY <1>3 DEF IgnoreQuit, Goto, pkvars, kidvars
<1>4. CASE MakeFildes
  BY <1>4 DEF MakeFildes, Goto, FreshPipe, NoPipe, pkvars, kidvars
<1>5. CASE NulFails
  BY <1>5 DEF NulFails, Goto, pkvars, kidvars
<1>6. CASE Fork
  BY <1>6 DEF Fork, Goto, pkvars, kidvars
<1>7. CASE ForkFails
  BY <1>7 DEF ForkFails, Goto, pkvars, kidvars
<1>8. CASE CloseWriteEnd
  BY <1>8 DEF CloseWriteEnd, Goto, pkvars, kidvars
<1>9. CASE ChildDied
  BY <1>9 DEF ChildDied, Goto, pkvars, kidvars
<1>10. CASE ChildStarted
  <2>1. CASE proc[kid] = "none"
    <3>1. /\ UNCHANGED <<kid, proc>>
          /\ pc' = IF kid = "editor" THEN "failed" ELSE "wait"
      BY <1>10, <2>1 DEF ChildStarted, NotStarted, kidvars
    <3>2. CASE kid = "editor"
      BY <3>1, <3>2
    <3>3. CASE kid = "spinner"
      BY <2>1, <3>1, <3>3
    <3>. QED  BY <3>2, <3>3
  <2>2. CASE proc[kid] # "none"
    BY <1>10, <2>2 DEF ChildStarted, kidvars
  <2>. QED  BY <2>1, <2>2
<1>11. CASE CollectDead
  BY <1>11 DEF CollectDead, NotStarted, Finishes, Collects, WaitFails, pkvars, kidvars
<1>12. CASE Choose
  BY <1>12 DEF Choose, pkvars, kidvars
<1>13. CASE FinishEditor
  BY <1>13 DEF FinishEditor, Finishes, Collects, WaitFails, pkvars, kidvars
<1>14. CASE KillSpinner
  BY <1>14 DEF KillSpinner, Goto, pkvars, kidvars
<1>15. CASE FinishSpinner
  BY <1>15 DEF FinishSpinner, Goto, Finishes, Collects, WaitFails, pkvars, kidvars
<1>16. CASE RestoreInterrupt
  BY <1>16 DEF RestoreInterrupt, Goto, pkvars, kidvars
<1>17. CASE RestoreQuit
  BY <1>17 DEF RestoreQuit, Goto, pkvars, kidvars
<1>18. CASE Exec
  BY <1>18 DEF Exec, pkvars, kidvars
<1>19. CASE ChildDie
  BY <1>19 DEF ChildDie, pkvars, kidvars
<1>20. CASE ChildExit
  BY <1>20 DEF ChildExit, Ends, pkvars, kidvars
<1>21. CASE RunSpinner
  BY <1>21 DEF RunSpinner, pkvars, kidvars
<1>22. CASE SpinnerTerminated
  BY <1>22 DEF SpinnerTerminated, Ends, pkvars, kidvars
<1>23. CASE EditorEnds
  BY <1>23 DEF EditorEnds, Ends, pkvars, kidvars
<1>24. ASSUME NEW k \in Kids, KidKilled(k) PROVE LifeInv'
  BY <1>24 DEF KidKilled, Ends, pkvars
<1>25. ASSUME NEW sig \in Signals, Keyboard(sig) PROVE LifeInv'
  BY <1>25 DEF Keyboard
<1>26. CASE Killed
  BY <1>26 DEF Killed, kidvars
<1>27. CASE UNCHANGED vars
  BY <1>27 DEF vars, pkvars, kidvars
<1>. QED
  BY <1>1, <1>2, <1>3, <1>4, <1>5, <1>6, <1>7, <1>8, <1>9, <1>10, <1>11, <1>12,
     <1>13, <1>14, <1>15, <1>16, <1>17, <1>18, <1>19, <1>20, <1>21, <1>22, <1>23, <1>24, <1>25, <1>26, <1>27
     DEF Next, Edit, Launch

LEMMA StepPipe ==
    ASSUME Inv, [Next]_vars
    PROVE  PipeInv'
<1>. USE DEF Inv, TypeOK, SignalInv, LifeInv, PipeInv, Kids, Signals, Alive, Ended, Starting, Deaf
<1>1. CASE NoEditor
  BY <1>1 DEF NoEditor, Goto, pkvars, kidvars
<1>2. CASE IgnoreInterrupt
  BY <1>2 DEF IgnoreInterrupt, Goto, pkvars, kidvars
<1>3. CASE IgnoreQuit
  BY <1>3 DEF IgnoreQuit, Goto, pkvars, kidvars
<1>4. CASE MakeFildes
  <2>1. CASE kid = "editor"
    <3>1. proc["editor"] = "none" /\ pc' = "fork"
      BY <1>4, <2>1 DEF MakeFildes, Goto
    <3>2. UNCHANGED <<proc, status, kid>>
      BY <1>4 DEF MakeFildes, kidvars
    <3>. QED  BY <2>1, <3>1, <3>2
  <2>2. CASE kid = "spinner"
    <3>1. pipe'["editor"] = pipe["editor"]
      BY <1>4, <2>2 DEF MakeFildes
    <3>. QED  BY <1>4, <2>2, <3>1 DEF MakeFildes, Goto, kidvars
  <2>. QED  BY <2>1, <2>2
<1>5. CASE NulFails
  BY <1>5 DEF NulFails, Goto, pkvars, kidvars
<1>6. CASE Fork
  BY <1>6 DEF Fork, Goto, pkvars, kidvars
<1>7. CASE ForkFails
  BY <1>7 DEF ForkFails, Goto, pkvars, kidvars
<1>8. CASE CloseWriteEnd
  BY <1>8 DEF CloseWriteEnd, Goto, pkvars, kidvars
<1>9. CASE ChildDied
  BY <1>9 DEF ChildDied, Goto, pkvars, kidvars
<1>10. CASE ChildStarted
  BY <1>10 DEF ChildStarted, NotStarted, pkvars, kidvars
<1>11. CASE CollectDead
  BY <1>11 DEF CollectDead, NotStarted, Finishes, Collects, WaitFails, pkvars, kidvars
<1>12. CASE Choose
  BY <1>12 DEF Choose, pkvars, kidvars
<1>13. CASE FinishEditor
  BY <1>13 DEF FinishEditor, Finishes, Collects, WaitFails, pkvars, kidvars
<1>14. CASE KillSpinner
  BY <1>14 DEF KillSpinner, Goto, pkvars, kidvars
<1>15. CASE FinishSpinner
  BY <1>15 DEF FinishSpinner, Goto, Finishes, Collects, WaitFails, pkvars, kidvars
<1>16. CASE RestoreInterrupt
  BY <1>16 DEF RestoreInterrupt, Goto, pkvars, kidvars
<1>17. CASE RestoreQuit
  BY <1>17 DEF RestoreQuit, Goto, pkvars, kidvars
<1>18. CASE Exec
  BY <1>18 DEF Exec, pkvars, kidvars
<1>19. CASE ChildDie
  BY <1>19 DEF ChildDie, pkvars, kidvars
<1>20. CASE ChildExit
  BY <1>20 DEF ChildExit, Ends, pkvars, kidvars
<1>21. CASE RunSpinner
  BY <1>21 DEF RunSpinner, pkvars, kidvars
<1>22. CASE SpinnerTerminated
  BY <1>22 DEF SpinnerTerminated, Ends, pkvars, kidvars
<1>23. CASE EditorEnds
  BY <1>23 DEF EditorEnds, Ends, pkvars, kidvars
<1>24. ASSUME NEW k \in Kids, KidKilled(k) PROVE PipeInv'
  BY <1>24 DEF KidKilled, Ends, pkvars
<1>25. ASSUME NEW sig \in Signals, Keyboard(sig) PROVE PipeInv'
  BY <1>25 DEF Keyboard
<1>26. CASE Killed
  BY <1>26 DEF Killed, kidvars
<1>27. CASE UNCHANGED vars
  BY <1>27 DEF vars, pkvars, kidvars
<1>. QED
  BY <1>1, <1>2, <1>3, <1>4, <1>5, <1>6, <1>7, <1>8, <1>9, <1>10, <1>11, <1>12,
     <1>13, <1>14, <1>15, <1>16, <1>17, <1>18, <1>19, <1>20, <1>21, <1>22, <1>23, <1>24, <1>25, <1>26, <1>27
     DEF Next, Edit, Launch

-------------------------------------------------------------------------------
(***************************************************************************)
(* The theorems.                                                           *)
(***************************************************************************)
LEMMA InvAlways == Spec => []Inv
<1>1. Inv /\ [Next]_vars => Inv'
  BY StepType, StepSignal, StepLife, StepPipe DEF Inv
<1>. QED  BY InitInv, <1>1, PTL DEF Spec

(* Every variable keeps its type. *)
THEOREM TypeCorrect == Spec => []TypeOK
<1>1. Inv => TypeOK
  BY DEF Inv
<1>. QED  BY <1>1, InvAlways, PTL

(* A key pressed while the editor runs does not end pk. *)
THEOREM KeyboardSparesPk == Spec => []InterruptSpares
<1>1. Inv => InterruptSpares
  BY DEF Inv, LifeInv, InterruptSpares
<1>. QED  BY <1>1, InvAlways, PTL

(* edit_file() returns without children and with its signals restored, however
   editor and spinner ended. *)
THEOREM ReturnsClean == Spec => []NothingLeftBehind
<1>1. Inv => NothingLeftBehind
  BY DEF Inv, LifeInv, SignalInv, NothingLeftBehind, Kids
<1>. QED  BY <1>1, InvAlways, PTL

(* With the pipe made, an editor that cannot be executed is always noticed. *)
THEOREM ExecFailureNoticed == Spec => []FailureNoticed
<1>1. Inv => FailureNoticed
  BY DEF Inv, LifeInv, PipeInv, FailureNoticed
<1>. QED  BY <1>1, InvAlways, PTL
-------------------------------------------------------------------------------
(***************************************************************************)
(* The prompt.  What the editor and its children do leaves it alone, so    *)
(* each invariant is carried by the steps of Ask.                          *)
(***************************************************************************)
Muted == {"print", "getline", "again", "restore"}

(* Without echo, the prompt is on its way to a key or was left there, and the
   setting to go back to has the echo in it. *)
EchoInv ==
    /\ echo \in BOOLEAN /\ term \in BOOLEAN /\ noset \in BOOLEAN /\ stuck \in BOOLEAN
    /\ echo \/ stuck \/ (ask \in Muted \cup {"died", "killed"} /\ ~noset)
    /\ ask \in Muted /\ ~noset => term \/ stuck

(* An answer is in the buffer it was asked for, and a confirmation follows a key. *)
KeyInv ==
    /\ answer \in Keys \cup {NoAnswer}
    /\ round \in {"key", "confirm"}
    /\ ask \in {"restore", "back"} /\ answer \in Keys /\ round = "key" => key1 = answer
    /\ ask \in {"restore", "back"} /\ answer \in Keys /\ round = "confirm" => key2 = answer
    /\ round = "confirm" => key1 \in Keys
    /\ KeyTypedTwice

(* With a prompt behind it edit_file() does what it does alone: every behaviour is
   one of EditFile, so what holds of that holds here. *)
THEOREM PromptKeepsEdit ==
    PromptSpec => Spec /\ [](TypeOK /\ InterruptSpares /\ NothingLeftBehind /\ FailureNoticed)
<1>1. PromptInit => Init
      BY DEF PromptInit
<1>2. [PromptNext]_allvars => [Next]_vars
  <2>1. allvars' = allvars => UNCHANGED vars
        BY DEF allvars
  <2>2. PromptNext => Next \/ UNCHANGED vars
        BY <2>1 DEF PromptNext
  <2> QED BY <2>1, <2>2
<1>3. PromptSpec => Spec
      BY <1>1, <1>2, PTL DEF PromptSpec, Spec
<1> QED BY <1>3, TypeCorrect, KeyboardSparesPk, ReturnsClean, ExecFailureNoticed, PTL

LEMMA EchoInit == PromptInit => EchoInv
BY DEF PromptInit, EchoInv, Muted

LEMMA EchoStep == EchoInv /\ [PromptNext]_allvars => EchoInv'
<1> SUFFICES ASSUME EchoInv, [PromptNext]_allvars
             PROVE  EchoInv'
    OBVIOUS
<1> USE DEF EchoInv, Muted, Pass, termvars
<1>1. CASE UNCHANGED askvars
      BY <1>1 DEF askvars
<1>2. CASE Begin
      BY <1>2 DEF Begin
<1>3. CASE DisableEcho
      BY <1>3 DEF DisableEcho
<1>4. CASE PrintMessage
      BY <1>4 DEF PrintMessage, Prints
<1>5. CASE EmptyLine
      BY <1>5 DEF EmptyLine
<1>6. CASE PrintAgain
      BY <1>6 DEF PrintAgain, Prints
<1>7. CASE EnterKey
      BY <1>7 DEF EnterKey
<1>8. CASE EndOfFile
      BY <1>8 DEF EndOfFile
<1>9. CASE GetlineFails
      BY <1>9 DEF GetlineFails
<1>10. CASE RestoreEcho
  <2>1. CASE noset
        BY <1>10, <2>1 DEF RestoreEcho
  <2>2. CASE ~noset
        BY <1>10, <2>2 DEF RestoreEcho
  <2> QED BY <2>1, <2>2
<1>11. CASE Interrupt
      BY <1>11 DEF Interrupt, Asking
<1>12. CASE CreateTakesKey
      BY <1>12 DEF CreateTakesKey
<1>13. CASE InitNeedsKey
      BY <1>13 DEF InitNeedsKey
<1>14. CASE InitConfirms
      BY <1>14 DEF InitConfirms
<1>15. CASE InitMatches
      BY <1>15 DEF InitMatches
<1>16. CASE InitMismatch
      BY <1>16 DEF InitMismatch
<1> QED BY <1>1, <1>2, <1>3, <1>4, <1>5, <1>6, <1>7, <1>8, <1>9, <1>10, <1>11,
           <1>12, <1>13, <1>14, <1>15, <1>16 DEF PromptNext, Ask, allvars

(* The terminal of a pk that goes on after the prompt echoes, unless it refused
   to have its setting restored. *)
THEOREM EchoAlwaysRestored == PromptSpec => []EchoRestored
<1>1. EchoInv => EchoRestored
      BY DEF EchoInv, EchoRestored, Asking, Muted
<1> QED BY <1>1, EchoInit, EchoStep, PTL DEF PromptSpec
-------------------------------------------------------------------------------
LEMMA KeyInit == PromptInit => KeyInv
BY KeyAssumption DEF PromptInit, KeyInv, KeyTypedTwice

LEMMA KeyStep == KeyInv /\ [PromptNext]_allvars => KeyInv'
<1> SUFFICES ASSUME KeyInv, [PromptNext]_allvars
             PROVE  KeyInv'
    OBVIOUS
<1> USE KeyAssumption DEF KeyInv, KeyTypedTwice, Pass, keyvars
<1>1. CASE UNCHANGED askvars
      BY <1>1 DEF askvars
<1>2. CASE Begin
      BY <1>2 DEF Begin
<1>3. CASE DisableEcho
      BY <1>3 DEF DisableEcho
<1>4. CASE PrintMessage
      BY <1>4 DEF PrintMessage, Prints
<1>5. CASE EmptyLine
      BY <1>5 DEF EmptyLine
<1>6. CASE PrintAgain
      BY <1>6 DEF PrintAgain, Prints
<1>7. CASE EnterKey
      BY <1>7 DEF EnterKey
<1>8. CASE EndOfFile
      BY <1>8 DEF EndOfFile
<1>9. CASE GetlineFails
      BY <1>9 DEF GetlineFails
<1>10. CASE RestoreEcho
      BY <1>10 DEF RestoreEcho
<1>11. CASE Interrupt
      BY <1>11 DEF Interrupt
<1>12. CASE CreateTakesKey
      BY <1>12 DEF CreateTakesKey
<1>13. CASE InitNeedsKey
      BY <1>13 DEF InitNeedsKey
<1>14. CASE InitConfirms
      BY <1>14 DEF InitConfirms
<1>15. CASE InitMatches
      BY <1>15 DEF InitMatches
<1>16. CASE InitMismatch
      BY <1>16 DEF InitMismatch
<1> QED BY <1>1, <1>2, <1>3, <1>4, <1>5, <1>6, <1>7, <1>8, <1>9, <1>10, <1>11,
           <1>12, <1>13, <1>14, <1>15, <1>16 DEF PromptNext, Ask, allvars

(* pk init takes a key only if it was typed twice, and frees a buffer nobody has
   set only at end of file. *)
THEOREM KeyAlwaysTypedTwice == PromptSpec => []KeyTypedTwice
<1>1. KeyInv => KeyTypedTwice
      BY DEF KeyInv
<1> QED BY <1>1, KeyInit, KeyStep, PTL DEF PromptSpec
===============================================================================
