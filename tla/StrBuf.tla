--------------------------------- MODULE StrBuf ---------------------------------
(***************************************************************************)
(* struct strbuf of src/strbuf.c as far as memory is concerned: how many   *)
(* characters it holds and how many there is room for, the final NUL       *)
(* included.  Capacity 0 stands for strbuf_defbuf, the one NUL all fresh   *)
(* buffers share and none may write to.  Every operator gives the buffer   *)
(* after the call; n is the length of what is appended.                    *)
(*                                                                         *)
(* Sizes are naturals: that a size_t holds them is left to st_add() and    *)
(* st_mult(), which end pk if it does not.                                 *)
(***************************************************************************)
EXTENDS Naturals

Buffers == [length : Nat, capacity : Nat]

STRBUF_INIT == [length |-> 0, capacity |-> 0]

(* What is in the buffer, and its NUL, lie inside of it. *)
Fits(sb) == IF sb.capacity = 0 THEN sb.length = 0 ELSE sb.length + 1 <= sb.capacity

(* fixed_growth() *)
FixedGrowth(len) == ((len + 16) * 3) \div 2

Larger(m, n) == IF m < n THEN n ELSE m

(* strbuf_grow(), CAPACITY_GROW() *)
Grow(sb, request) ==
    LET size == sb.length + request + 1
    IN  IF size > sb.capacity
        THEN [sb EXCEPT !.capacity = Larger(FixedGrowth(@), size)]
        ELSE sb

(* Mutant: the NUL is forgotten. *)
SizeAvail_NoNul(sb) == IF sb.capacity = 0 THEN 0 ELSE sb.capacity - sb.length

(* strbuf_size_avail() *)
SizeAvail(sb) == IF sb.capacity = 0 THEN 0 ELSE sb.capacity - sb.length - 1

GrowFor(sb, n) == IF n > SizeAvail(sb) THEN Grow(sb, n) ELSE sb

AddLen(sb, n) == [sb EXCEPT !.length = @ + n]

(* strbuf_write() and strbuf_concat() *)
StrbufWrite(sb, n) == AddLen(GrowFor(sb, n), n)

(* strbuf_puts(): the newline comes on top. *)
StrbufPuts(sb, n) == StrbufWrite(sb, n + 1)

StrbufPutchar(sb) == AddLen(IF SizeAvail(sb) = 0 THEN Grow(sb, 1) ELSE sb, 1)

(* strbuf_vprintf(): a full buffer gets some room before the first try, and the
   second try gets what the first one asked for. *)
StrbufPrintf(sb, n) ==
    AddLen(GrowFor(IF SizeAvail(sb) = 0 THEN Grow(sb, 64) ELSE sb, n), n)

StrbufTrunc(sb) == [sb EXCEPT !.length = 0]

(* strbuf_trim_end() when the last n characters are blank. *)
StrbufTrimEnd(sb, n) == [sb EXCEPT !.length = @ - n]

(* strbuf_from_buf() with a string of length n. *)
StrbufFromBuf(n) == Grow([length |-> n, capacity |-> n + 1], 64)
===============================================================================
