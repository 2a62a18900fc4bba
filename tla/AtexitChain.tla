----------------------------- MODULE AtexitChain -----------------------------
(***************************************************************************)
(* The cleanup chain of src/atexit-chain.c: a linked list used as a stack. *)
(* A command pushes a handler before it creates what the handler removes,  *)
(* pops it when the work is committed, and main() registers                *)
(* apply_atexit_chain() with atexit(), so exit() pops and runs whatever is *)
(* left, newest first.  A process killed by a signal never gets there.     *)
(*                                                                         *)
(* A chain is a sequence whose head is the list's head.                    *)
(***************************************************************************)
EXTENDS Naturals, Sequences

(* atexit_chain_push(): the new node becomes the head. *)
Push(chain, fn) == <<fn>> \o chain

(* Mutant: the head is read and not unlinked. *)
Pop_Peek(chain) == chain

(* atexit_chain_pop(): drops the head; on an empty list it returns NULL and
   changes nothing, which cmd_init() relies on when it pops "rm_cred_cc or
   NULL". *)
Pop(chain) == IF chain = <<>> THEN chain ELSE Tail(chain)

(* The handler apply_atexit_chain() runs next. *)
Newest(chain) == Head(chain)

Registered(chain, fn) == \E i \in DOMAIN chain : chain[i] = fn
==============================================================================
