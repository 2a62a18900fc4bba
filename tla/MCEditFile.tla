------------------------------ MODULE MCEditFile ------------------------------
(***************************************************************************)
(* EditFile and KeyPrompt have no sizes: two keys are enough to be equal   *)
(* or to differ.                                                           *)
(***************************************************************************)
EXTENDS KeyPrompt
===============================================================================
