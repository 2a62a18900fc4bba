---------------------------- MODULE RecordFileProofs ----------------------------
(***************************************************************************)
(* Theorems about RecordFile, for any records, any texts and any limit of  *)
(* a read(), and the lemmas about StrBuf, strlist_split() and              *)
(* strlist_filter() they rest on.                                          *)
(*                                                                         *)
(* That the file is read right rests on three layers: TextInv, what is in  *)
(* the list before it is filtered; ListInv, that the list shows the lines  *)
(* that are kept, or else has a string that is freed or there twice, just  *)
(* where the filters lose elements; and LoopInv, that the record is what   *)
(* the lines before i say, and the buffer what is said from i to ii. That  *)
(* what was given comes back rests on GivenInv besides: the template says  *)
(* the fields that are written so far, each once, and no other.            *)
(***************************************************************************)
EXTENDS RecordFile, SequenceTheorems, FiniteSetTheorems, TLAPS

-------------------------------------------------------------------------------
(***************************************************************************)
(* The string buffer, for any calls with any lengths.                      *)
(***************************************************************************)
BufInit == sb = STRBUF_INIT \/ \E n \in Nat : sb = StrbufFromBuf(n)

BufNext ==
    \/ \E n \in Nat : sb' \in {StrbufWrite(sb, n), StrbufPuts(sb, n), StrbufPrintf(sb, n)}
    \/ sb' \in {StrbufPutchar(sb), StrbufTrunc(sb)}
    \/ \E n \in 0 .. sb.length : sb' = StrbufTrimEnd(sb, n)

BufSpec == BufInit /\ [][BufNext]_sb

Sound(b) == b \in Buffers /\ Fits(b)

(* A buffer may grow by anything; it keeps what it holds. *)
LEMMA FixedGrowthType ==
    ASSUME NEW len \in Nat
    PROVE  FixedGrowth(len) \in Nat
BY DEF FixedGrowth

LEMMA GrowMakesRoom ==
    ASSUME NEW b, Sound(b), NEW n \in Nat
    PROVE  /\ Grow(b, n) \in Buffers /\ Grow(b, n).length = b.length
           /\ Grow(b, n).capacity >= b.length + n + 1
<1> DEFINE need == b.length + n + 1
           g    == FixedGrowth(b.capacity)
<1>1. b = [length |-> b.length, capacity |-> b.capacity] /\ b.length \in Nat /\ b.capacity \in Nat
      BY DEF Sound, Buffers
<1>2. g \in Nat
      BY <1>1, FixedGrowthType
<1>3. need \in Nat
      BY <1>1
<1>4. Larger(g, need) \in Nat /\ Larger(g, need) >= need
      BY <1>2, <1>3 DEF Larger
<1>5. CASE need > b.capacity
  <2>1. Grow(b, n) = [b EXCEPT !.capacity = Larger(g, need)]
        BY <1>5 DEF Grow
  <2>2. Grow(b, n) = [length |-> b.length, capacity |-> Larger(g, need)]
        BY <2>1, <1>1
  <2> QED BY <2>2, <1>1, <1>4 DEF Buffers
<1>6. CASE ~(need > b.capacity)
  <2>1. Grow(b, n) = b
        BY <1>6 DEF Grow
  <2> QED BY <2>1, <1>1, <1>3, <1>6 DEF Buffers
<1> QED BY <1>5, <1>6

LEMMA GrowForMakesRoom ==
    ASSUME NEW b, Sound(b), NEW n \in Nat
    PROVE  /\ GrowFor(b, n) \in Buffers /\ GrowFor(b, n).length = b.length
           /\ n # 0 => GrowFor(b, n).capacity >= b.length + n + 1
           /\ Sound(GrowFor(b, n))
<1>1. b.length \in Nat /\ b.capacity \in Nat
      BY DEF Sound, Buffers
<1>2. CASE n > SizeAvail(b)
  <2>1. GrowFor(b, n) = Grow(b, n)
        BY <1>2 DEF GrowFor
  <2>2. /\ Grow(b, n) \in Buffers /\ Grow(b, n).length = b.length
        /\ Grow(b, n).capacity >= b.length + n + 1
        BY GrowMakesRoom
  <2>3. Grow(b, n).capacity \in Nat
        BY <2>2 DEF Buffers
  <2>4. Fits(Grow(b, n))
        BY <1>1, <2>2, <2>3 DEF Fits
  <2> QED BY <2>1, <2>2, <2>4 DEF Sound
<1>3. CASE ~(n > SizeAvail(b))
  <2>1. GrowFor(b, n) = b
        BY <1>3 DEF GrowFor
  <2>2. n # 0 => b.capacity >= b.length + n + 1
        BY <1>1, <1>3 DEF SizeAvail, Sound, Fits
  <2> QED BY <2>1, <2>2 DEF Sound
<1> QED BY <1>2, <1>3

LEMMA AddLenFits ==
    ASSUME NEW b \in Buffers, Fits(b), NEW n \in Nat,
           n # 0 => b.capacity >= b.length + n + 1
    PROVE  Sound(AddLen(b, n))
<1>1. b = [length |-> b.length, capacity |-> b.capacity] /\ b.length \in Nat /\ b.capacity \in Nat
      BY DEF Buffers
<1>2. AddLen(b, n) = [length |-> b.length + n, capacity |-> b.capacity]
      BY <1>1 DEF AddLen
<1> QED BY <1>1, <1>2 DEF Sound, Fits, Buffers

LEMMA WriteFits ==
    ASSUME NEW b, Sound(b), NEW n \in Nat
    PROVE  Sound(StrbufWrite(b, n))
<1>1. /\ GrowFor(b, n) \in Buffers /\ GrowFor(b, n).length = b.length
      /\ n # 0 => GrowFor(b, n).capacity >= b.length + n + 1
      /\ Fits(GrowFor(b, n))
      BY GrowForMakesRoom DEF Sound
<1> QED BY <1>1, AddLenFits DEF StrbufWrite

LEMMA PrintfFits ==
    ASSUME NEW b, Sound(b), NEW n \in Nat
    PROVE  Sound(StrbufPrintf(b, n))
<1> DEFINE first == IF SizeAvail(b) = 0 THEN Grow(b, 64) ELSE b
<1>1. b.length \in Nat /\ b.capacity \in Nat
      BY DEF Sound, Buffers
<1>2. /\ Grow(b, 64) \in Buffers /\ Grow(b, 64).length = b.length
      /\ Grow(b, 64).capacity >= b.length + 64 + 1
      BY GrowMakesRoom
<1>3. Sound(Grow(b, 64))
  <2>1. Grow(b, 64).capacity \in Nat
        BY <1>2 DEF Buffers
  <2> QED BY <1>1, <1>2, <2>1 DEF Sound, Fits
<1>4. Sound(first)
      BY <1>3
<1>5. StrbufPrintf(b, n) = StrbufWrite(first, n)
      BY DEF StrbufPrintf, StrbufWrite
<1>6. Sound(StrbufWrite(first, n))
      BY <1>4, WriteFits
<1> QED BY <1>5, <1>6

LEMMA PutcharFits ==
    ASSUME NEW b, Sound(b)
    PROVE  Sound(StrbufPutchar(b))
<1>1. b.length \in Nat /\ b.capacity \in Nat
      BY DEF Sound, Buffers
<1>2. SizeAvail(b) \in Nat
      BY <1>1 DEF SizeAvail, Sound, Fits
<1>3. StrbufPutchar(b) = StrbufWrite(b, 1)
      BY <1>2 DEF StrbufPutchar, StrbufWrite, GrowFor
<1> QED BY <1>3, WriteFits

LEMMA TrimFits ==
    ASSUME NEW b, Sound(b), NEW n \in 0 .. b.length
    PROVE  Sound(StrbufTrimEnd(b, n))
<1>1. b = [length |-> b.length, capacity |-> b.capacity] /\ b.length \in Nat /\ b.capacity \in Nat
      BY DEF Sound, Buffers
<1>2. StrbufTrimEnd(b, n) = [length |-> b.length - n, capacity |-> b.capacity]
      BY <1>1 DEF StrbufTrimEnd
<1> QED BY <1>1, <1>2 DEF Sound, Fits, Buffers

LEMMA TruncFits ==
    ASSUME NEW b, Sound(b)
    PROVE  Sound(StrbufTrunc(b))
<1>1. b = [length |-> b.length, capacity |-> b.capacity] /\ b.length \in Nat /\ b.capacity \in Nat
      BY DEF Sound, Buffers
<1>2. StrbufTrunc(b) = [length |-> 0, capacity |-> b.capacity]
      BY <1>1 DEF StrbufTrunc
<1> QED BY <1>1, <1>2 DEF Sound, Fits, Buffers

LEMMA FromBufFits ==
    ASSUME NEW n \in Nat
    PROVE  Sound(StrbufFromBuf(n))
<1> DEFINE b == [length |-> n, capacity |-> n + 1]
<1>1. Sound(b)
      BY DEF Sound, Fits, Buffers
<1>2. /\ Grow(b, 64) \in Buffers /\ Grow(b, 64).length = n
      /\ Grow(b, 64).capacity >= n + 64 + 1
      BY <1>1, GrowMakesRoom
<1>3. Grow(b, 64).capacity \in Nat
      BY <1>2 DEF Buffers
<1>4. Fits(Grow(b, 64))
      BY <1>2, <1>3 DEF Fits
<1> QED BY <1>2, <1>4 DEF StrbufFromBuf, Sound

(* Whatever is appended to a string buffer, printed into it or cut off from it,
   its text and the final NUL stay inside the memory it has. *)
THEOREM BufferAlwaysFits == BufSpec => []Sound(sb)
<1>1. BufInit => Sound(sb)
  <2>1. Sound(STRBUF_INIT)
        BY DEF Sound, Fits, Buffers, STRBUF_INIT
  <2> QED BY <2>1, FromBufFits DEF BufInit
<1>2. Sound(sb) /\ [BufNext]_sb => Sound(sb)'
  <2> SUFFICES ASSUME Sound(sb), [BufNext]_sb
               PROVE  Sound(sb')
      BY DEF Sound, Fits, Buffers
  <2>1. ASSUME NEW n \in Nat, sb' \in {StrbufWrite(sb, n), StrbufPuts(sb, n), StrbufPrintf(sb, n)}
        PROVE  Sound(sb')
    <3>1. Sound(StrbufWrite(sb, n)) /\ Sound(StrbufPrintf(sb, n))
          BY WriteFits, PrintfFits
    <3>2. Sound(StrbufPuts(sb, n))
          BY WriteFits DEF StrbufPuts
    <3> QED BY <2>1, <3>1, <3>2
  <2>2. CASE sb' \in {StrbufPutchar(sb), StrbufTrunc(sb)}
        BY <2>2, PutcharFits, TruncFits
  <2>3. ASSUME NEW n \in 0 .. sb.length, sb' = StrbufTrimEnd(sb, n)
        PROVE  Sound(sb')
        BY <2>3, TrimFits
  <2>4. CASE UNCHANGED sb
        BY <2>4
  <2> QED BY <2>1, <2>2, <2>3, <2>4 DEF BufNext
<1> QED BY <1>1, <1>2, PTL DEF BufSpec
-------------------------------------------------------------------------------
(***************************************************************************)
(* Induction over numbers, and functions that are defined along them.      *)
(***************************************************************************)
LEMMA LeastNat ==
    ASSUME NEW T, T \subseteq Nat, T # {}
    PROVE  \E n \in T : \A m \in T : n <= m
<1> DEFINE R == OpToRel(<, Nat)
<1>1. IsWellFoundedOn(R, Nat)
      BY NatLessThanWellFounded
<1>2. \A m, n \in Nat : <<m, n>> \in R <=> m < n
      BY DEF OpToRel
<1> HIDE DEF R
<1>3. \E n \in T : \A m \in T : ~(<<m, n>> \in R)
      BY <1>1, WFMin
<1>4. \A m, n \in Nat : ~(m < n) => n <= m
      OBVIOUS
<1> QED BY <1>2, <1>3, <1>4

(* Induction, for a set of numbers. *)
LEMMA Induction ==
    ASSUME NEW S, 0 \in S, \A n \in Nat : n \in S => n + 1 \in S
    PROVE  Nat \subseteq S
<1> SUFFICES ASSUME Nat \ S # {} PROVE FALSE
    OBVIOUS
<1>1. PICK n \in Nat \ S : \A m \in Nat \ S : n <= m
      BY LeastNat
<1>2. n # 0
      OBVIOUS
<1>3. n - 1 \in Nat /\ ~(n <= n - 1) /\ n - 1 + 1 = n
      BY <1>2
<1>4. n - 1 \in S
      BY <1>1, <1>3
<1> QED BY <1>3, <1>4

(* f goes from base along the numbers up to n by steps. *)
Along(f, T, n, base, step) ==
    /\ f \in [0 .. n -> T] /\ f[0] = base
    /\ \A k \in 1 .. n : f[k] = step[<<f[k - 1], k>>]

IsStep(step, T, n) == step \in [T \X (1 .. n) -> T]

LEMMA Recursion ==
    ASSUME NEW T, NEW n \in Nat, NEW base \in T, NEW step, IsStep(step, T, n)
    PROVE  \E f : Along(f, T, n, base, step)
<1> USE DEF IsStep
<1> DEFINE Good(f, j) == f \in [0 .. j -> T] /\ f[0] = base
                         /\ \A k \in 1 .. j : f[k] = step[<<f[k - 1], k>>]
           S == {j \in Nat : j <= n => \E f : Good(f, j)}
<1>1. 0 \in S
  <2>1. Good([k \in 0 .. 0 |-> base], 0)
        OBVIOUS
  <2> QED BY <2>1
<1>2. ASSUME NEW j \in Nat, j \in S
      PROVE  j + 1 \in S
  <2> SUFFICES ASSUME j + 1 <= n PROVE \E f : Good(f, j + 1)
      OBVIOUS
  <2>1. PICK f : Good(f, j)
        BY <1>2
  <2> DEFINE g == [k \in 0 .. j + 1 |-> IF k = j + 1 THEN step[<<f[j], j + 1>>] ELSE f[k]]
  <2>2. step[<<f[j], j + 1>>] \in T
        BY <2>1
  <2>3. g \in [0 .. j + 1 -> T] /\ g[0] = base
        BY <2>1, <2>2
  <2>4. ASSUME NEW k \in 1 .. j + 1
        PROVE  g[k] = step[<<g[k - 1], k>>]
    <3>1. CASE k = j + 1
      <4>1. g[j + 1] = step[<<f[j], j + 1>>]
            OBVIOUS
      <4>2. g[j] = f[j]
            OBVIOUS
      <4>3. k - 1 = j
            BY <3>1
      <4> QED BY <3>1, <4>1, <4>2, <4>3
    <3>2. CASE k # j + 1
      <4>1. k \in 1 .. j /\ k - 1 \in 0 .. j
            BY <3>2
      <4> QED BY <2>1, <4>1
    <3> QED BY <3>1, <3>2
  <2>5. Good(g, j + 1)
        BY <2>3, <2>4
  <2> QED BY <2>5
<1>3. n \in S
  <2> HIDE DEF S
  <2> QED BY <1>1, <1>2, Induction
<1> QED BY <1>3 DEF Along

LEMMA RecursionType ==
    ASSUME NEW T, NEW n \in Nat, NEW F, F[0] \in T,
           \A k \in 1 .. n : F[k - 1] \in T => F[k] \in T
    PROVE  \A k \in 0 .. n : F[k] \in T
<1> DEFINE S == {j \in Nat : j <= n => F[j] \in T}
<1>1. 0 \in S
      OBVIOUS
<1>2. ASSUME NEW j \in Nat, j \in S
      PROVE  j + 1 \in S
  <2> SUFFICES ASSUME j + 1 <= n PROVE F[j + 1] \in T
      OBVIOUS
  <2>1. F[j] \in T /\ j + 1 \in 1 .. n /\ (j + 1) - 1 = j
        BY <1>2
  <2> QED BY <2>1
<1>3. \A j \in Nat : j \in S
  <2> HIDE DEF S
  <2> QED BY <1>1, <1>2, Induction
<1> QED BY <1>3

-------------------------------------------------------------------------------
(***************************************************************************)
(* strlist_split().                                                        *)
(***************************************************************************)
(* The lines of a text, as strlist_split() goes along it. *)
Put(strs, c) ==
    IF c = NL THEN Append(strs, <<>>) ELSE [strs EXCEPT ![Len(strs)] = Append(@, c)]

Texts == Seq(Seq(Char)) \ {<<>>}

LEMMA PutType ==
    ASSUME NEW strs \in Texts, NEW c \in Char
    PROVE  Put(strs, c) \in Texts
<1>1. strs \in Seq(Seq(Char)) /\ Len(strs) \in Nat \ {0}
      BY EmptySeq DEF Texts
<1>2. strs[Len(strs)] \in Seq(Char)
      BY <1>1, ElementOfSeq
<1>3. Append(strs[Len(strs)], c) \in Seq(Char)
      BY <1>2, AppendProperties
<1>4. /\ [strs EXCEPT ![Len(strs)] = Append(strs[Len(strs)], c)] \in Seq(Seq(Char))
      /\ Len([strs EXCEPT ![Len(strs)] = Append(strs[Len(strs)], c)]) = Len(strs)
  <2>1. Len(strs) \in 1 .. Len(strs)
        BY <1>1
  <2> DEFINE S == Seq(Char)
             e == Append(strs[Len(strs)], c)
  <2>2. strs \in Seq(S) /\ e \in S
        BY <1>1, <1>3
  <2> HIDE DEF S, e
  <2>3. [strs EXCEPT ![Len(strs)] = e] \in Seq(S) /\ Len([strs EXCEPT ![Len(strs)] = e]) = Len(strs)
        BY <2>1, <2>2, ExceptSeq
  <2> QED BY <2>3 DEF S, e
<1>5. <<>> \in Seq(Char)
      BY EmptySeq
<1>6. Append(strs, <<>>) \in Seq(Seq(Char)) /\ Append(strs, <<>>) # <<>>
      BY <1>1, <1>5, AppendProperties
<1>7. CASE c = NL
      BY <1>6, <1>7 DEF Put, Texts
<1>8. CASE c # NL
  <2>1. Put(strs, c) = [strs EXCEPT ![Len(strs)] = Append(strs[Len(strs)], c)]
        BY <1>8 DEF Put
  <2>2. Len(Put(strs, c)) # 0
        BY <1>1, <1>4, <2>1
  <2> QED BY <1>4, <2>1, <2>2, EmptySeq DEF Texts
<1> QED BY <1>7, <1>8

LEMMA SplitSteps ==
    ASSUME NEW str \in Seq(Char)
    PROVE  \E F : /\ Split(str) = F[Len(str)]
                  /\ F[0] = << <<>> >>
                  /\ \A k \in 1 .. Len(str) : F[k - 1] \in Texts /\ F[k] = Put(F[k - 1], str[k])
                  /\ \A k \in 0 .. Len(str) : F[k] \in Texts
<1> DEFINE n == Len(str)
           base == << <<>> >>
           step == [x \in Texts \X (1 .. n) |-> Put(x[1], str[x[2]])]
           F == CHOOSE split : split = [k \in 0 .. n |->
                    IF k = 0 THEN << <<>> >>
                    ELSE LET strs == split[k - 1]
                         IN  IF str[k] = NL THEN Append(strs, <<>>)
                             ELSE [strs EXCEPT ![Len(strs)] = Append(@, str[k])]]
<1>1. Split(str) = F[n]
      BY DEF Split
<1>2. n \in Nat /\ \A k \in 1 .. n : str[k] \in Char
      BY LenProperties, ElementOfSeq
<1>3. base \in Texts
      BY EmptySeq DEF Texts
<1>4. IsStep(step, Texts, n)
      BY <1>2, PutType DEF IsStep
<1> HIDE DEF step, base
<1>5. PICK f : Along(f, Texts, n, base, step)
      BY <1>2, <1>3, <1>4, Recursion
<1>6. \A k \in 1 .. n : f[k - 1] \in Texts /\ f[k] = Put(f[k - 1], str[k])
  <2> TAKE k \in 1 .. n
  <2>1. k - 1 \in 0 .. n
        BY <1>2
  <2>2. f[k - 1] \in Texts
        BY <1>5, <2>1 DEF Along
  <2>3. step[<<f[k - 1], k>>] = Put(f[k - 1], str[k])
        BY <2>2 DEF step
  <2> QED BY <1>5, <2>2, <2>3 DEF Along
<1>7. f = [k \in 0 .. n |-> IF k = 0 THEN << <<>> >>
                            ELSE LET strs == f[k - 1]
                                 IN  IF str[k] = NL THEN Append(strs, <<>>)
                                     ELSE [strs EXCEPT ![Len(strs)] = Append(@, str[k])]]
  <2>1. \A k \in 0 .. n : k # 0 => k \in 1 .. n
        BY <1>2
  <2> QED BY <1>5, <1>6, <2>1 DEF Put, base, Along
<1>8. F = [k \in 0 .. n |-> IF k = 0 THEN << <<>> >>
                            ELSE LET strs == F[k - 1]
                                 IN  IF str[k] = NL THEN Append(strs, <<>>)
                                     ELSE [strs EXCEPT ![Len(strs)] = Append(@, str[k])]]
      BY <1>7
<1> HIDE DEF F
<1>9. F[0] = << <<>> >> /\ \A k \in 1 .. n : F[k] = Put(F[k - 1], str[k])
  <2>1. 0 \in 0 .. n /\ \A k \in 1 .. n : k \in 0 .. n /\ k # 0
        BY <1>2
  <2>2. F[0] = << <<>> >>
        BY <1>8, <2>1
  <2>3. ASSUME NEW k \in 1 .. n PROVE F[k] = Put(F[k - 1], str[k])
    <3>1. F[k] = LET strs == F[k - 1]
                 IN  IF str[k] = NL THEN Append(strs, <<>>)
                     ELSE [strs EXCEPT ![Len(strs)] = Append(@, str[k])]
          BY <1>8, <2>1
    <3> QED BY <3>1 DEF Put
  <2> QED BY <2>2, <2>3
<1>10. \A k \in 0 .. n : F[k] \in Texts
  <2>1. F[0] \in Texts
        BY <1>3, <1>9 DEF base
  <2>2. \A k \in 1 .. n : F[k - 1] \in Texts => F[k] \in Texts
        BY <1>2, <1>9, PutType
  <2> QED BY <1>2, <2>1, <2>2, RecursionType
<1>11. \A k \in 1 .. n : F[k - 1] \in Texts
  <2>1. \A k \in 1 .. n : k - 1 \in 0 .. n
        BY <1>2
  <2> QED BY <1>10, <2>1
<1> QED BY <1>1, <1>9, <1>10, <1>11

LEMMA SplitType ==
    ASSUME NEW str \in Seq(Char)
    PROVE  Split(str) \in Texts
<1>1. Len(str) \in 0 .. Len(str)
      BY LenProperties
<1> QED BY <1>1, SplitSteps
-------------------------------------------------------------------------------
(***************************************************************************)
(* strlist_filter(): what is left are elements of the list, as many as     *)
(* were not dropped.                                                       *)
(***************************************************************************)
LEMMA IntervalSize ==
    ASSUME NEW n \in Nat
    PROVE  IsFiniteSet(1 .. n) /\ Cardinality(1 .. n) = n
<1>1. 1 \in Int /\ n \in Int
      OBVIOUS
<1>2. IsFiniteSet(1 .. n) /\ Cardinality(1 .. n) = IF 1 > n THEN 0 ELSE n - 1 + 1
      BY <1>1, FS_Interval
<1> QED BY <1>2

LEMMA TrackSize ==
    ASSUME NEW S, elvec \in Seq(S), NEW track \in SUBSET DOMAIN elvec
    PROVE  IsFiniteSet(track) /\ Cardinality(track) \in 0 .. Len(elvec)
<1>1. Len(elvec) \in Nat /\ DOMAIN elvec = 1 .. Len(elvec)
      BY LenProperties
<1>2. IsFiniteSet(1 .. Len(elvec)) /\ Cardinality(1 .. Len(elvec)) = Len(elvec)
      BY <1>1, IntervalSize
<1>3. IsFiniteSet(track) /\ Cardinality(track) <= Len(elvec)
      BY <1>1, <1>2, FS_Subset
<1>4. Cardinality(track) \in Nat
      BY <1>3, FS_CardinalityType
<1> QED BY <1>1, <1>3, <1>4

LEMMA FilteredType ==
    ASSUME NEW S, elvec \in Seq(S), NEW track \in SUBSET DOMAIN elvec
    PROVE  /\ Filtered(track) \in Seq(S)
           /\ Len(Filtered(track)) = Len(elvec) - Cardinality(track)
<1> DEFINE m == Cardinality(track)
           Dropped(k) == Cardinality({d \in track : d < k})
           Moves(to) == {k \in DOMAIN elvec \ track :
                            /\ k - Dropped(k) = to
                            /\ Dropped(k) = m => k <= Len(elvec) - (m - 1)}
           From(to) == IF Moves(to) = {} THEN to ELSE CHOOSE k \in Moves(to) : TRUE
<1>1. Len(elvec) \in Nat /\ DOMAIN elvec = 1 .. Len(elvec) /\ m \in 0 .. Len(elvec)
      BY LenProperties, TrackSize
<1>2. \A to : Moves(to) \subseteq DOMAIN elvec
      OBVIOUS
<1>3. Filtered(track) = [to \in 1 .. Len(elvec) - m |-> elvec[From(to)]]
      BY DEF Filtered
<1> HIDE DEF m, Moves
<1>4. ASSUME NEW to \in 1 .. Len(elvec) - m
      PROVE  elvec[From(to)] \in S
  <2>1. From(to) \in 1 .. Len(elvec)
        BY <1>1, <1>2
  <2> QED BY <2>1, ElementOfSeq
<1>5. Len(elvec) - m \in Nat
      BY <1>1
<1>6. Filtered(track) \in [1 .. Len(elvec) - m -> S]
      BY <1>3, <1>4
<1>7. Filtered(track) \in Seq(S)
      BY <1>5, <1>6, SeqDef
<1> QED BY <1>3, <1>5, <1>7, LenProperties DEF m
-------------------------------------------------------------------------------
(***************************************************************************)
(* Types, and the buffer beside what it holds.                             *)
(***************************************************************************)
TypeInv ==
    /\ text \in Strings /\ file \in Strings /\ size \in Nat
    /\ rec \in [Names -> {None} \cup Strings]
    /\ pc \in {"format", "create", "edit"} => rec \in Records
    /\ lines \in Seq(Strings) /\ elvec \in Seq(DOMAIN lines)
    /\ i \in Nat \ {0} /\ ii \in Nat \ {0}

(* b holds n characters, and there is room for them. *)
Holds(b, n) == n \in Nat /\ Sound(b) /\ b.length = n

BufferInv == Holds(sb, Len(text))

LEMMA BufLengths ==
    ASSUME NEW n, NEW b, Holds(b, n), NEW m \in Nat
    PROVE  /\ Holds(StrbufWrite(b, m), n + m) /\ Holds(StrbufPuts(b, m), n + m + 1)
           /\ Holds(StrbufPutchar(b), n + 1) /\ Holds(StrbufTrunc(b), 0)
<1> USE DEF Holds
<1>1. b = [length |-> b.length, capacity |-> b.capacity] /\ b.length \in Nat /\ b.capacity \in Nat
      BY DEF Sound, Buffers
<1>2. ASSUME NEW k \in Nat PROVE StrbufWrite(b, k).length = b.length + k
  <2>1. GrowFor(b, k) \in Buffers /\ GrowFor(b, k).length = b.length
        BY GrowForMakesRoom
  <2> QED BY <2>1 DEF StrbufWrite, AddLen, Buffers
<1>3. StrbufPutchar(b) = StrbufWrite(b, 1)
  <2>1. SizeAvail(b) \in Nat
        BY <1>1 DEF SizeAvail, Sound, Fits
  <2> QED BY <2>1 DEF StrbufPutchar, StrbufWrite, GrowFor
<1>4. StrbufTrunc(b).length = 0 /\ Sound(StrbufTrunc(b))
      BY <1>1, TruncFits DEF StrbufTrunc
<1>5. ASSUME NEW k \in Nat PROVE Holds(StrbufWrite(b, k), n + k)
      BY <1>2, WriteFits
<1>6. Holds(StrbufPuts(b, m), n + (m + 1))
      BY <1>5 DEF StrbufPuts
<1>7. n \in Nat /\ n + (m + 1) = n + m + 1
      OBVIOUS
<1>8. Holds(StrbufWrite(b, 1), n + 1)
      BY <1>5
<1> HIDE DEF Holds
<1>9. Holds(StrbufTrunc(b), 0)
      BY <1>4 DEF Holds
<1> QED BY <1>3, <1>5, <1>6, <1>7, <1>8, <1>9

LEMMA TupleTypes ==
    ASSUME NEW S, NEW a \in S, NEW b \in S, NEW c \in S
    PROVE  /\ <<a>> \in Seq(S) /\ Len(<<a>>) = 1
           /\ <<a, b>> \in Seq(S) /\ Len(<<a, b>>) = 2
           /\ <<a, b, c>> \in Seq(S) /\ Len(<<a, b, c>>) = 3
OBVIOUS

LEMMA FieldTypes ==
    /\ Len(Fields) = 8 /\ DOMAIN Fields = 1 .. 8
    /\ \A k \in 1 .. 8 : Fields[k] \in Names
    /\ \A f \in Names : Id(f) \in Strings /\ Len(Id(f)) = 3
<1>1. Len(Fields) = 8 /\ DOMAIN Fields = 1 .. 8
      BY DEF Fields
<1>2. \A k \in 1 .. 8 : Fields[k] \in Names
      BY <1>1 DEF Names
<1>3. ASSUME NEW f \in Names PROVE Id(f) \in Strings /\ Len(Id(f)) = 3
  <2> DEFINE colon == ":"
  <2>1. colon \in Char /\ f \in Char
        BY TextAssumption
  <2>2. Id(f) = <<colon, f, colon>>
        BY DEF Id
  <2> HIDE DEF colon
  <2> QED BY <2>1, <2>2, TupleTypes DEF Strings
<1> QED BY <1>1, <1>2, <1>3

LEMMA Joined ==
    ASSUME NEW s \in Strings, NEW t \in Strings
    PROVE  Len(s) \in Nat /\ s \o t \in Strings /\ Len(s \o t) = Len(s) + Len(t)
BY ConcatProperties, LenProperties DEF Strings

LEMMA JoinedThree ==
    ASSUME NEW s \in Strings, NEW t \in Strings, NEW u \in Strings
    PROVE  s \o t \o u \in Strings /\ Len(s \o t \o u) = Len(s) + Len(t) + Len(u)
<1>1. s \o t \in Strings /\ Len(s \o t) = Len(s) + Len(t)
      BY Joined
<1>2. (s \o t) \o u \in Strings /\ Len((s \o t) \o u) = Len(s \o t) + Len(u)
      BY <1>1, Joined
<1> QED BY <1>1, <1>2

LEMMA Newlines ==
    /\ <<NL>> \in Strings /\ Len(<<NL>>) = 1
    /\ <<NL, NL>> \in Strings /\ Len(<<NL, NL>>) = 2
    /\ <<NL, NL, NL>> \in Strings /\ Len(<<NL, NL, NL>>) = 3
<1>1. NL \in Char
      BY TextAssumption
<1> QED BY <1>1, TupleTypes DEF Strings

(* What is put into the file is put into the buffer. *)
LEMMA FormatStep ==
    ASSUME TypeInv, BufferInv, FormatField \/ FormatMessage
    PROVE  text' \in Strings /\ BufferInv'
<1> DEFINE n   == Len(text)
           nl1 == <<NL>>
           nl2 == <<NL, NL>>
           nl3 == <<NL, NL, NL>>
<1>1. text \in Strings /\ n \in Nat /\ Holds(sb, n) /\ i \in Nat \ {0}
      BY DEF TypeInv, BufferInv, Holds
<1>2. nl1 \in Strings /\ nl2 \in Strings /\ nl3 \in Strings
      /\ Len(nl1) = 1 /\ Len(nl2) = 2 /\ Len(nl3) = 3
      BY Newlines
<1>3. CASE FormatField
  <2> DEFINE id  == Id(Fields[i])
             val == rec[Fields[i]]
  <2>1. i \in 1 .. 8
    <3>1. i <= Len(Fields) /\ Len(Fields) = 8
          BY <1>3, FieldTypes DEF FormatField
    <3> QED BY <1>1, <3>1
  <2>2. Fields[i] \in Names /\ id \in Strings /\ Len(id) = 3 /\ val \in {None} \cup Strings
        BY <2>1, FieldTypes DEF TypeInv
  <2>3. CASE IsBlank(val)
    <3>1. text' = text \o id \o nl3 /\ sb' = StrbufPutchar(StrbufPutchar(StrbufPuts(sb, Len(id))))
          BY <1>3, <2>3 DEF FormatField
    <3>2. Holds(StrbufPuts(sb, 3), n + 3 + 1)
          BY <1>1, BufLengths
    <3>3. Holds(StrbufPutchar(StrbufPuts(sb, 3)), n + 3 + 1 + 1)
          BY <3>2, BufLengths
    <3>4. Holds(StrbufPutchar(StrbufPutchar(StrbufPuts(sb, 3))), n + 3 + 1 + 1 + 1)
          BY <3>3, BufLengths
    <3> HIDE DEF id, nl3, n
    <3>5. text' \in Strings /\ Len(text') = Len(text) + Len(id) + Len(nl3)
      <4>1. text \in Strings /\ id \in Strings /\ nl3 \in Strings
            BY <1>1, <1>2, <2>2
      <4> QED BY <3>1, <4>1, JoinedThree
    <3>6. Len(text') = n + 3 + 1 + 1 + 1
          BY <1>1, <1>2, <2>2, <3>5 DEF n
    <3> QED BY <2>2, <3>1, <3>4, <3>5, <3>6 DEF BufferInv
  <2>4. CASE ~IsBlank(val)
    <3>1. /\ text' = text \o id \o nl1 \o val \o nl2
          /\ sb' = StrbufPutchar(StrbufPuts(StrbufPuts(sb, Len(id)), Len(val)))
          BY <1>3, <2>4 DEF FormatField
    <3>2. val \in Strings
          BY <2>2, <2>4 DEF IsBlank
    <3> HIDE DEF id, val, nl1, nl2, n
    <3>3. Len(val) \in Nat
          BY <3>2, Joined
    <3>4. Holds(StrbufPuts(sb, 3), n + 3 + 1)
          BY <1>1, BufLengths
    <3>5. Holds(StrbufPuts(StrbufPuts(sb, 3), Len(val)), n + 3 + 1 + Len(val) + 1)
          BY <3>3, <3>4, BufLengths
    <3>6. Holds(StrbufPutchar(StrbufPuts(StrbufPuts(sb, 3), Len(val))),
                n + 3 + 1 + Len(val) + 1 + 1)
          BY <3>5, BufLengths
    <3>7. PICK top : top = text \o id \o nl1
          OBVIOUS
    <3>8. top \in Strings /\ Len(top) = Len(text) + Len(id) + Len(nl1)
      <4>1. text \in Strings /\ id \in Strings /\ nl1 \in Strings
            BY <1>1, <1>2, <2>2
      <4> QED BY <3>7, <4>1, JoinedThree
    <3>9. text' \in Strings /\ Len(text') = Len(top) + Len(val) + Len(nl2)
      <4>1. text' = top \o val \o nl2 /\ nl2 \in Strings
            BY <1>2, <3>1, <3>7
      <4> QED BY <3>2, <3>8, <4>1, JoinedThree
    <3>10. Len(text') = n + 3 + 1 + Len(val) + 1 + 1
          BY <1>1, <1>2, <2>2, <3>3, <3>8, <3>9 DEF n
    <3> QED BY <2>2, <3>1, <3>6, <3>9, <3>10 DEF BufferInv
  <2> QED BY <2>3, <2>4
<1>4. CASE FormatMessage
  <2>1. text' = text \o Message \o nl1 /\ sb' = StrbufPuts(sb, Len(Message))
        BY <1>4 DEF FormatMessage
  <2>2. Message \in Strings /\ Len(Message) \in Nat
        BY TextAssumption, Joined
  <2>3. Holds(StrbufPuts(sb, Len(Message)), n + Len(Message) + 1)
        BY <1>1, <2>2, BufLengths
  <2> HIDE DEF nl1
  <2>4. text' \in Strings /\ Len(text') = Len(text) + Len(Message) + Len(nl1)
        BY <1>1, <1>2, <2>1, <2>2, JoinedThree
  <2> QED BY <1>2, <2>1, <2>3, <2>4 DEF BufferInv
<1> QED BY <1>3, <1>4

(* What a filter leaves are strings of the list. *)
LEMMA FilterStep ==
    ASSUME TypeInv, NEW track \in SUBSET DOMAIN elvec
    PROVE  Filtered(track) \in Seq(DOMAIN lines)
BY FilteredType DEF TypeInv

LEMMA AppendStep ==
    ASSUME TypeInv, BufferInv, AppendLine
    PROVE  text' \in Strings /\ BufferInv'
<1> DEFINE n    == Len(text)
           line == Line(ii)
           nl1  == <<NL>>
           tail == Tail(line)
<1>1. text \in Strings /\ n \in Nat /\ Holds(sb, n)
      BY DEF TypeInv, BufferInv, Holds
<1>2. nl1 \in Strings /\ Len(nl1) = 1
      BY Newlines
<1>3. line \in Strings
  <2>1. ii \in 1 .. Len(elvec) /\ elvec \in Seq(DOMAIN lines) /\ lines \in Seq(Strings)
        BY DEF AppendLine, IsText, InList, TypeInv
  <2>2. elvec[ii] \in DOMAIN lines
        BY <2>1, ElementOfSeq
  <2>3. elvec[ii] \in 1 .. Len(lines)
        BY <2>1, <2>2, LenProperties
  <2> QED BY <2>1, <2>3, ElementOfSeq DEF Line
<1>4. CASE First(line) = "|"
  <2>1. text' = text \o tail \o nl1 /\ sb' = StrbufPuts(sb, Len(line) - 1)
        BY <1>4 DEF AppendLine
  <2>2. line # <<>>
        BY <1>4 DEF First
  <2>3. tail \in Strings /\ Len(tail) = Len(line) - 1 /\ Len(line) - 1 \in Nat
    <3> HIDE DEF line
    <3>1. line \in Seq(Char) /\ line # <<>>
          BY <1>3, <2>2 DEF Strings
    <3>2. Tail(line) \in Seq(Char) /\ Len(Tail(line)) = Len(line) - 1
          BY <3>1, HeadTailProperties
    <3> QED BY <3>1, <3>2, EmptySeq, LenProperties DEF Strings
  <2> HIDE DEF line, tail, nl1
  <2>4. Holds(StrbufPuts(sb, Len(line) - 1), n + (Len(line) - 1) + 1)
        BY <1>1, <2>3, BufLengths
  <2>5. text' \in Strings /\ Len(text') = Len(text) + Len(tail) + Len(nl1)
        BY <1>1, <1>2, <2>1, <2>3, JoinedThree
  <2> QED BY <1>2, <2>1, <2>3, <2>4, <2>5 DEF BufferInv
<1>5. CASE First(line) # "|"
  <2>1. text' = text \o line /\ sb' = StrbufWrite(sb, Len(line))
        BY <1>5 DEF AppendLine
  <2> HIDE DEF line, n
  <2>2. Len(line) \in Nat
        BY <1>3, Joined
  <2>3. Holds(StrbufWrite(sb, Len(line)), n + Len(line))
        BY <1>1, <2>2, BufLengths
  <2>4. text' \in Strings /\ Len(text') = Len(text) + Len(line)
        BY <1>1, <1>3, <2>1, Joined
  <2> QED BY <2>1, <2>3, <2>4 DEF BufferInv, n
<1> QED BY <1>4, <1>5

LEMMA TypeInit == Init => TypeInv /\ BufferInv
<1> SUFFICES ASSUME Init PROVE TypeInv /\ BufferInv
    OBVIOUS
<1>1. text = <<>> /\ file = <<>> /\ size = 0 /\ lines = <<>> /\ elvec = <<>> /\ i = 1 /\ ii = 1
      /\ rec \in Records /\ sb = STRBUF_INIT
      BY DEF Init
<1>2. Len(text) = 0 /\ text \in Strings /\ file \in Strings
      /\ lines \in Seq(Strings) /\ elvec \in Seq(DOMAIN lines)
      BY <1>1, EmptySeq DEF Strings
<1>3. Holds(STRBUF_INIT, 0)
      BY DEF Holds, STRBUF_INIT, Sound, Fits, Buffers
<1>4. rec \in Records /\ rec \in [Names -> {None} \cup Strings]
      BY <1>1, TextAssumption
<1>5. BufferInv
      BY <1>1, <1>2, <1>3 DEF BufferInv
<1> QED BY <1>1, <1>2, <1>4, <1>5 DEF TypeInv

LEMMA TypeStep ==
    ASSUME TypeInv, BufferInv, [Next]_vars
    PROVE  TypeInv' /\ BufferInv'
<1> USE DEF buffer, list, loops
<1>1. CASE FormatField
  <2>1. text' \in Strings /\ BufferInv'
        BY <1>1, FormatStep
  <2> QED BY <1>1, <2>1 DEF FormatField, TypeInv
<1>2. CASE FormatMessage
  <2>1. text' \in Strings /\ BufferInv'
        BY <1>2, FormatStep
  <2> QED BY <1>2, <2>1 DEF FormatMessage, TypeInv
<1>3. CASE WriteFails
  <2>1. PICK n \in {0, Len(text) - 1} : file' = SubSeq(text, 1, n)
        BY <1>3 DEF WriteFails
  <2>2. file' \in Strings
    <3>1. text \in Seq(Char) /\ Len(text) \in Nat
          BY LenProperties DEF TypeInv, Strings
    <3>2. n \in Int /\ \A k \in 1 .. n : k \in 1 .. Len(text)
          BY <3>1
    <3>3. SubSeq(text, 1, n) \in Seq(Char)
          BY <3>1, <3>2, SubSeqProperties
    <3> QED BY <2>1, <3>3 DEF Strings
  <2> QED BY <1>3, <2>2 DEF WriteFails, Die, TypeInv, BufferInv
<1>4. CASE WriteFile
      BY <1>4 DEF WriteFile, TypeInv, BufferInv
<1>5. CASE Save
  <2>1. rec \in Records /\ file' \in Edits(rec)
        BY <1>5 DEF Save, TypeInv
  <2>2. file' \in Strings
        BY <2>1, TextAssumption
  <2> QED BY <1>5, <2>2 DEF Save, TypeInv, BufferInv
<1>6. CASE LeaveAsIs \/ OpenFails \/ ReadFails \/ ReadFreed \/ CheckRecord \/ Destroy
      BY <1>6 DEF LeaveAsIs, OpenFails, ReadFails, ReadFreed, CheckRecord, Destroy, Die, TypeInv, BufferInv
<1>7. CASE SeekEnd
  <2>1. Len(file) \in Nat
        BY LenProperties DEF TypeInv, Strings
  <2> QED BY <1>7, <2>1 DEF SeekEnd, TypeInv, BufferInv
<1>8. CASE EmptiedMeanwhile
  <2>1. <<>> \in Strings
        BY EmptySeq DEF Strings
  <2> QED BY <1>8, <2>1 DEF EmptiedMeanwhile, TypeInv, BufferInv
<1>9. CASE ReadLines
  <2>1. CASE UNCHANGED list
        BY <1>9, <2>1 DEF ReadLines, TypeInv, BufferInv
  <2>2. CASE lines' = Split(file) /\ elvec' = [k \in DOMAIN lines' |-> k]
    <3>1. Split(file) \in Texts
          BY SplitType DEF TypeInv, Strings
    <3>2. lines' \in Seq(Strings) /\ Len(lines') \in Nat /\ DOMAIN lines' = 1 .. Len(lines')
          BY <2>2, <3>1, LenProperties DEF Texts, Strings
    <3>3. elvec' \in Seq(DOMAIN lines')
      <4> DEFINE D == DOMAIN lines'
      <4>1. elvec' \in [1 .. Len(lines') -> D]
            BY <2>2, <3>2
      <4> HIDE DEF D
      <4>2. elvec' \in Seq(D)
            BY <3>2, <4>1, SeqDef
      <4> QED BY <4>2 DEF D
    <3> QED BY <1>9, <3>2, <3>3 DEF ReadLines, TypeInv, BufferInv
  <2> QED BY <1>9, <2>1, <2>2 DEF ReadLines
<1>10. CASE FilterLines
  <2>1. lines' = lines /\ elvec' \in Seq(DOMAIN lines)
    <3>1. Filtered(Track(LineFilter)) \in Seq(DOMAIN lines)
          BY FilterStep DEF Track
    <3> QED BY <1>10, <3>1 DEF FilterLines, Filter, TypeInv
  <2>2. text' = <<>> /\ sb' = STRBUF_INIT /\ i' = 1 /\ ii' = 1 /\ rec' \in {rec, NoRecord}
        BY <1>10 DEF FilterLines
  <2>3. Holds(STRBUF_INIT, 0) /\ Len(<<>>) = 0 /\ <<>> \in Strings
        BY EmptySeq DEF Holds, STRBUF_INIT, Sound, Fits, Buffers, Strings
  <2>4. NoRecord \in [Names -> {None} \cup Strings]
        BY DEF NoRecord
  <2>5. pc' \notin {"format", "create", "edit"}
        BY <1>10 DEF FilterLines, Filter
  <2>6. file' = file /\ size' = size
        BY <1>10 DEF FilterLines
  <2> QED BY <2>1, <2>2, <2>3, <2>4, <2>5, <2>6 DEF TypeInv, BufferInv
<1>11. CASE SkipLine
      BY <1>11 DEF SkipLine, TypeInv, BufferInv
<1>12. CASE BeginField
      BY <1>12 DEF BeginField, TypeInv, BufferInv
<1>13. CASE AppendLine
  <2>1. text' \in Strings /\ BufferInv'
        BY <1>13, AppendStep
  <2> QED BY <1>13, <2>1 DEF AppendLine, TypeInv
<1>14. CASE EndField
  <2>1. CASE ii = i + 1
        BY <1>14, <2>1 DEF EndField, TypeInv, BufferInv
  <2>2. CASE ii # i + 1
    <3>1. rec' = [rec EXCEPT ![target] = text] /\ text' = <<>> /\ sb' = StrbufTrunc(sb)
          BY <1>14, <2>2 DEF EndField
    <3>2. rec' \in [Names -> {None} \cup Strings]
          BY <3>1 DEF TypeInv
    <3>3. Holds(sb', 0) /\ Len(text') = 0 /\ text' \in Strings
      <4>1. Holds(sb, Len(text)) /\ 0 \in Nat
            BY DEF BufferInv
      <4>2. Holds(StrbufTrunc(sb), 0)
            BY <4>1, BufLengths
      <4> QED BY <3>1, <4>2, EmptySeq DEF Strings
    <3> QED BY <1>14, <3>2, <3>3 DEF EndField, TypeInv, BufferInv
  <2> QED BY <2>1, <2>2
<1>15. CASE FilterAll
  <2>1. lines' = lines /\ elvec' \in Seq(DOMAIN lines)
    <3>1. Filtered(Track(LineFilterAll)) \in Seq(DOMAIN lines)
          BY FilterStep DEF Track
    <3> QED BY <1>15, <3>1 DEF FilterAll, Filter, TypeInv
  <2>2. pc' \notin {"format", "create", "edit"}
        BY <1>15 DEF FilterAll, Filter
  <2>3. UNCHANGED <<rec, buffer, file, size, loops>>
        BY <1>15 DEF FilterAll
  <2> QED BY <2>1, <2>2, <2>3 DEF TypeInv, BufferInv
<1>16. CASE UNCHANGED vars
      BY <1>16 DEF vars, TypeInv, BufferInv
<1> QED BY <1>1, <1>2, <1>3, <1>4, <1>5, <1>6, <1>7, <1>8, <1>9, <1>10, <1>11, <1>12, <1>13,
           <1>14, <1>15, <1>16 DEF Next

(* The template of a record file and each field that is read back from one stay
   within the memory of their buffer, whatever is given, saved and read. *)
THEOREM FieldsFitTheirBuffer == Spec => []BufferFits
<1>1. TypeInv /\ BufferInv => BufferFits
      BY DEF BufferInv, Holds, Sound, BufferFits
<1> QED BY <1>1, TypeInit, TypeStep, PTL DEF Spec
-------------------------------------------------------------------------------
(***************************************************************************)
(* strlist_filter(), with what it leaves where it loses elements.          *)
(***************************************************************************)
(* The place of k among the numbers of K, and the numbers by their place. *)
UpTo(K, k) == {l \in K : l <= k}
Rank(K, k) == Cardinality(UpTo(K, k))
Places(K)  == [to \in 1 .. Cardinality(K) |-> CHOOSE k \in K : Rank(K, k) = to]

LEMMA RankType ==
    ASSUME NEW n \in Nat, NEW K \in SUBSET (1 .. n), NEW k
    PROVE  /\ K \subseteq Nat /\ IsFiniteSet(K) /\ Cardinality(K) \in Nat
           /\ IsFiniteSet(UpTo(K, k)) /\ Rank(K, k) \in 0 .. Cardinality(K)
<1>1. IsFiniteSet(1 .. n)
      BY IntervalSize
<1>2. IsFiniteSet(K) /\ Cardinality(K) \in Nat
      BY <1>1, FS_Subset, FS_CardinalityType
<1>3. UpTo(K, k) \in SUBSET K
      BY DEF UpTo
<1>4. IsFiniteSet(UpTo(K, k)) /\ Cardinality(UpTo(K, k)) <= Cardinality(K)
      BY <1>2, <1>3, FS_Subset
<1>5. Cardinality(UpTo(K, k)) \in Nat
      BY <1>4, FS_CardinalityType
<1>6. K \subseteq Nat
      OBVIOUS
<1> QED BY <1>2, <1>4, <1>5, <1>6 DEF Rank

LEMMA RankStep ==
    ASSUME NEW n \in Nat, NEW K \in SUBSET (1 .. n), NEW k \in Nat \ {0}
    PROVE  Rank(K, k) = IF k \in K THEN Rank(K, k - 1) + 1 ELSE Rank(K, k - 1)
<1>1. K \subseteq Nat /\ IsFiniteSet(UpTo(K, k - 1))
      BY RankType
<1>2. k \notin UpTo(K, k - 1)
      BY DEF UpTo
<1>3. \A l \in K : l <= k <=> l <= k - 1 \/ l = k
      BY <1>1
<1>4. CASE k \in K
  <2>1. UpTo(K, k) = UpTo(K, k - 1) \cup {k}
        BY <1>3, <1>4 DEF UpTo
  <2>2. Cardinality(UpTo(K, k - 1) \cup {k}) = Cardinality(UpTo(K, k - 1)) + 1
        BY <1>1, <1>2, FS_AddElement
  <2> QED BY <1>4, <2>1, <2>2 DEF Rank
<1>5. CASE k \notin K
  <2>1. \A l \in K : l <= k <=> l <= k - 1
        BY <1>3, <1>5
  <2>2. UpTo(K, k) = UpTo(K, k - 1)
        BY <2>1 DEF UpTo
  <2> QED BY <1>5, <2>2 DEF Rank
<1> QED BY <1>4, <1>5

LEMMA RankOnto ==
    ASSUME NEW n \in Nat, NEW K \in SUBSET (1 .. n), NEW to \in 1 .. Cardinality(K)
    PROVE  \E k \in K : Rank(K, k) = to
<1> DEFINE T == {k \in Nat : to <= Rank(K, k)}
<1>1. Rank(K, 0) = 0
  <2>1. \A l \in K : ~(l <= 0)
        OBVIOUS
  <2>2. UpTo(K, 0) = {}
        BY <2>1 DEF UpTo
  <2> QED BY <2>2, FS_EmptySet DEF Rank
<1>2. Rank(K, n) = Cardinality(K)
  <2>1. \A l \in K : l <= n
        OBVIOUS
  <2>2. UpTo(K, n) = K
        BY <2>1 DEF UpTo
  <2> QED BY <2>2 DEF Rank
<1>3. to \in Nat /\ to # 0 /\ to <= Cardinality(K)
      BY RankType
<1>4. n \in T
      BY <1>2, <1>3
<1>5. PICK k \in T : \A l \in T : k <= l
  <2> HIDE DEF T
  <2>1. T \subseteq Nat
        BY DEF T
  <2> QED BY <1>4, <2>1, LeastNat
<1>6. k \in Nat \ {0}
      BY <1>1, <1>3
<1>7. k - 1 \in Nat /\ ~(k <= k - 1)
      BY <1>6
<1>8. k - 1 \notin T
      BY <1>5, <1>7
<1>9. Rank(K, k) \in Nat /\ Rank(K, k - 1) \in Nat
  <2>1. \A j : Rank(K, j) \in 0 .. Cardinality(K)
        BY RankType
  <2> QED BY <2>1
<1>10. ~(to <= Rank(K, k - 1)) /\ to <= Rank(K, k)
      BY <1>7, <1>8
<1>11. Rank(K, k) = IF k \in K THEN Rank(K, k - 1) + 1 ELSE Rank(K, k - 1)
      BY <1>6, RankStep
<1> QED BY <1>3, <1>9, <1>10, <1>11

LEMMA RankInjective ==
    ASSUME NEW n \in Nat, NEW K \in SUBSET (1 .. n), NEW k \in K, NEW j \in K,
           Rank(K, k) = Rank(K, j)
    PROVE  k = j
<1>1. K \subseteq Nat
      BY RankType
<1>2. ASSUME NEW a \in K, NEW b \in K, a < b, Rank(K, a) = Rank(K, b)
      PROVE  FALSE
  <2>1. \A l \in K : l <= a => l <= b
        BY <1>1, <1>2
  <2>2. UpTo(K, a) \in SUBSET UpTo(K, b) /\ IsFiniteSet(UpTo(K, b))
        BY <2>1, RankType DEF UpTo
  <2>3. UpTo(K, b) = UpTo(K, a)
        BY <1>2, <2>2, FS_Subset DEF Rank
  <2>4. b <= b /\ ~(b <= a)
        BY <1>1, <1>2
  <2> QED BY <2>3, <2>4 DEF UpTo
<1>3. k \in Nat /\ j \in Nat
      BY <1>1
<1> QED BY <1>2, <1>3

LEMMA PlacesOf ==
    ASSUME NEW n \in Nat, NEW K \in SUBSET (1 .. n)
    PROVE  /\ Places(K) \in [1 .. Cardinality(K) -> K]
           /\ \A to \in 1 .. Cardinality(K) : Rank(K, Places(K)[to]) = to
           /\ \A k \in K : Rank(K, k) \in 1 .. Cardinality(K) /\ Places(K)[Rank(K, k)] = k
<1>1. ASSUME NEW to \in 1 .. Cardinality(K)
      PROVE  Places(K)[to] \in K /\ Rank(K, Places(K)[to]) = to
      BY RankOnto DEF Places
<1>2. Places(K) \in [1 .. Cardinality(K) -> K]
      BY <1>1 DEF Places
<1>3. ASSUME NEW k \in K
      PROVE  Rank(K, k) \in 1 .. Cardinality(K) /\ Places(K)[Rank(K, k)] = k
  <2>1. Rank(K, k) \in 0 .. Cardinality(K) /\ Cardinality(K) \in Nat /\ IsFiniteSet(UpTo(K, k))
        BY RankType
  <2>2. k \in UpTo(K, k)
        BY DEF UpTo
  <2>3. Rank(K, k) # 0
        BY <2>1, <2>2, FS_EmptySet DEF Rank
  <2>4. Rank(K, k) \in 1 .. Cardinality(K)
        BY <2>1, <2>3
  <2>5. Places(K)[Rank(K, k)] \in K /\ Rank(K, Places(K)[Rank(K, k)]) = Rank(K, k)
        BY <1>1, <2>4
  <2>6. Places(K)[Rank(K, k)] = k
        BY <2>5, RankInjective
  <2> QED BY <2>4, <2>6
<1> QED BY <1>1, <1>2, <1>3

(* An element moves by as many as are dropped before it. *)
LEMMA DroppedBefore ==
    ASSUME NEW n \in Nat, NEW track \in SUBSET (1 .. n), NEW k \in (1 .. n) \ track
    PROVE  k - Cardinality({d \in track : d < k}) = Rank((1 .. n) \ track, k)
<1> DEFINE kept == (1 .. n) \ track
           below == UpTo(kept, k)
<1>1. kept \subseteq 1 .. n /\ k \in 1 .. n /\ \A l \in 1 .. n : l \in Nat
      OBVIOUS
<1>2. \A l : l \in below <=> l \in 1 .. k /\ l \notin track
      BY <1>1 DEF UpTo
<1>3. ASSUME NEW l \in track PROVE l < k <=> l \in 1 .. k
  <2>1. l \in 1 .. n /\ k \in 1 .. n /\ l # k
        OBVIOUS
  <2> QED BY <2>1
<1>4. (1 .. k) \ below = {d \in track : d < k}
      BY <1>2, <1>3
<1>5. (1 .. k) \cap below = below /\ below \in SUBSET (1 .. k)
      BY <1>2
<1>6. IsFiniteSet(1 .. k) /\ Cardinality(1 .. k) = k /\ k \in Nat
      BY <1>1, IntervalSize
<1>7. Cardinality((1 .. k) \ below) = k - Cardinality(below)
  <2> DEFINE I == 1 .. k
  <2>1. IsFiniteSet(I) /\ Cardinality(I) = k /\ I \cap below = below
        BY <1>5, <1>6
  <2> HIDE DEF I, below
  <2>2. Cardinality(I \ below) = k - Cardinality(below)
        BY <2>1, FS_Difference
  <2> QED BY <2>2 DEF I
<1>8. Cardinality(below) \in Nat
      BY <1>5, <1>6, FS_Subset, FS_CardinalityType
<1> DEFINE c == Cardinality(below)
<1>9. Rank(kept, k) = c
      BY DEF Rank
<1> HIDE DEF c
<1>10. k - (k - c) = c
      BY <1>6, <1>8 DEF c
<1> QED BY <1>4, <1>7, <1>9, <1>10 DEF c

LEMMA KeptSize ==
    ASSUME NEW n \in Nat, NEW track \in SUBSET (1 .. n)
    PROVE  /\ IsFiniteSet(track) /\ Cardinality(track) \in 0 .. n
           /\ Cardinality((1 .. n) \ track) = n - Cardinality(track)
<1> DEFINE I == 1 .. n
<1>1. IsFiniteSet(I) /\ Cardinality(I) = n
      BY IntervalSize
<1>2. track \in SUBSET I /\ I \cap track = track
      OBVIOUS
<1> HIDE DEF I
<1>3. IsFiniteSet(track) /\ Cardinality(track) <= n /\ Cardinality(track) \in Nat
      BY <1>1, <1>2, FS_Subset, FS_CardinalityType
<1>4. Cardinality(I \ track) = n - Cardinality(track)
  <2>1. Cardinality(I \ track) = Cardinality(I) - Cardinality(I \cap track)
        BY <1>1, FS_Difference, Zenon
  <2> QED BY <1>1, <1>2, <2>1
<1> QED BY <1>3, <1>4 DEF I

(* A filter that drops one element, or the last one too, keeps the others in their
   order. *)
LEMMA FilteredWhole ==
    ASSUME NEW n \in Nat, DOMAIN elvec = 1 .. n, Len(elvec) = n, NEW track \in SUBSET (1 .. n),
           Cardinality(track) < 2 \/ n \in track
    PROVE  Filtered(track) = [to \in 1 .. Cardinality((1 .. n) \ track) |->
                                 elvec[Places((1 .. n) \ track)[to]]]
<1> DEFINE m == Cardinality(track)
           kept == (1 .. n) \ track
           Dropped(k) == Cardinality({d \in track : d < k})
           Moves(to) == {k \in (1 .. n) \ track :
                            /\ k - Dropped(k) = to
                            /\ Dropped(k) = m => k <= n - (m - 1)}
           From(to) == IF Moves(to) = {} THEN to ELSE CHOOSE k \in Moves(to) : TRUE
<1>1. m \in 0 .. n /\ IsFiniteSet(track) /\ Cardinality(kept) = n - m
      BY KeptSize
<1>2. Filtered(track) = [to \in 1 .. n - m |-> elvec[From(to)]]
      BY DEF Filtered
<1>3. \A k \in kept : k - Dropped(k) = Rank(kept, k)
      BY DroppedBefore
<1>4. ASSUME NEW k \in kept, Dropped(k) = m
      PROVE  k <= n - (m - 1)
  <2>1. k \in 1 .. n
        OBVIOUS
  <2>2. CASE m < 2
        BY <1>1, <2>1, <2>2
  <2>3. CASE n \in track
    <3> DEFINE below == {d \in track : d < k}
    <3>1. below \in SUBSET track
          OBVIOUS
    <3>2. Cardinality(track) = Cardinality(below)
          BY <1>4
    <3> HIDE DEF below
    <3>3. track = below
          BY <1>1, <3>1, <3>2, FS_Subset
    <3>4. n < k
          BY <2>3, <3>3 DEF below
    <3> QED BY <2>1, <3>4
  <2> QED BY <2>2, <2>3
<1>5. kept \in SUBSET (1 .. n)
      OBVIOUS
<1> HIDE DEF m, kept
<1>6. ASSUME NEW to \in 1 .. n - m
      PROVE  From(to) = Places(kept)[to]
  <2>1. Places(kept)[to] \in kept /\ Rank(kept, Places(kept)[to]) = to
    <3>1. to \in 1 .. Cardinality(kept)
          BY <1>1
    <3>2. /\ Places(kept) \in [1 .. Cardinality(kept) -> kept]
          /\ \A t \in 1 .. Cardinality(kept) : Rank(kept, Places(kept)[t]) = t
      <4> HIDE DEF Moves, From
      <4> QED BY <1>5, PlacesOf
    <3> HIDE DEF Moves, From
    <3> QED BY <3>1, <3>2
  <2>2. \A k : k \in Moves(to) <=> k \in kept /\ Rank(kept, k) = to
        BY <1>3, <1>4 DEF kept
  <2> HIDE DEF Moves
  <2>3. From(to) \in kept /\ Rank(kept, From(to)) = to
        BY <2>1, <2>2
  <2> HIDE DEF From
  <2> QED BY <1>5, <2>1, <2>3, RankInjective
<1> HIDE DEF From
<1> QED BY <1>1, <1>2, <1>6 DEF kept

(* A filter that drops two elements and keeps the last one loses it, and keeps a
   string it has freed or one string twice. *)
LEMMA FilteredTorn ==
    ASSUME NEW n \in Nat, DOMAIN elvec = 1 .. n, Len(elvec) = n, NEW track \in SUBSET (1 .. n),
           Cardinality(track) >= 2, n \notin track
    PROVE  /\ DOMAIN Filtered(track) = 1 .. n - Cardinality(track)
           /\ \/ \E to \in DOMAIN Filtered(track) : Filtered(track)[to] \in {elvec[k] : k \in track}
              \/ \E a, b \in DOMAIN Filtered(track) :
                    a # b /\ Filtered(track)[a] = Filtered(track)[b]
<1> DEFINE m == Cardinality(track)
           kept == (1 .. n) \ track
           Dropped(k) == Cardinality({d \in track : d < k})
           Moves(to) == {k \in (1 .. n) \ track :
                            /\ k - Dropped(k) = to
                            /\ Dropped(k) = m => k <= n - (m - 1)}
           From(to) == IF Moves(to) = {} THEN to ELSE CHOOSE k \in Moves(to) : TRUE
<1>1. m \in 2 .. n /\ IsFiniteSet(track) /\ Cardinality(kept) = n - m
  <2>1. m \in 0 .. n /\ IsFiniteSet(track) /\ Cardinality(kept) = n - m
        BY KeptSize
  <2> QED BY <2>1
<1>2. Filtered(track) = [to \in 1 .. n - m |-> elvec[From(to)]]
      BY DEF Filtered
<1>3. Dropped(n) = m
  <2>1. \A d \in track : d < n
        OBVIOUS
  <2>2. {d \in track : d < n} = track
        BY <2>1
  <2> QED BY <2>2
<1>4. \A to : Moves(to) \subseteq kept /\ n \notin Moves(to)
  <2> TAKE to
  <2>1. ~(n <= n - (m - 1))
        BY <1>1
  <2> QED BY <1>3, <2>1
<1>5. \A to \in 1 .. n - m : From(to) \in (1 .. n) \ {n}
  <2> TAKE to \in 1 .. n - m
  <2>1. to \in 1 .. n /\ to # n
        BY <1>1
  <2>2. kept \subseteq 1 .. n
        OBVIOUS
  <2> HIDE DEF Moves, kept
  <2> QED BY <1>4, <2>1, <2>2
<1> HIDE DEF From, Moves
<1>6. DOMAIN Filtered(track) = 1 .. n - m
      BY <1>2
<1>7. CASE \E to \in 1 .. n - m : From(to) \in track
  <2>1. PICK to \in 1 .. n - m : From(to) \in track
        BY <1>7
  <2>2. Filtered(track)[to] = elvec[From(to)]
        BY <1>2
  <2> QED BY <1>6, <2>1, <2>2
<1>8. CASE \A to \in 1 .. n - m : From(to) \notin track
  <2> DEFINE f == [to \in 1 .. n - m |-> From(to)]
             T == kept \ {n}
             S == 1 .. n - m
  <2>1. f \in [S -> T]
        BY <1>5, <1>8
  <2>2. IsFiniteSet(S) /\ Cardinality(S) = n - m
        BY <1>1, IntervalSize
  <2>3. IsFiniteSet(kept) /\ n \in kept
    <3>1. kept \in SUBSET (1 .. n) /\ n \in kept
          BY <1>1
    <3> QED BY <3>1, RankType
  <2>4. IsFiniteSet(T) /\ Cardinality(T) = n - m - 1
    <3> HIDE DEF kept
    <3> QED BY <1>1, <2>3, FS_RemoveElement
  <2>5. Cardinality(T) < Cardinality(S)
        BY <1>1, <2>2, <2>4
  <2>6. \A to \in S : f[to] = From(to)
        OBVIOUS
  <2> HIDE DEF f, T, S
  <2>7. PICK a, b \in S : a # b /\ f[a] = f[b]
        BY <2>1, <2>2, <2>4, <2>5, FS_PigeonHole
  <2>8. Filtered(track)[a] = elvec[From(a)] /\ Filtered(track)[b] = elvec[From(b)]
        BY <1>2 DEF S
  <2> QED BY <1>6, <2>6, <2>7, <2>8 DEF S
<1> QED BY <1>6, <1>7, <1>8
-------------------------------------------------------------------------------
(* A list is bad if it has a freed string, or one string twice. *)
BadList(elems, gone) ==
    \/ \E k \in DOMAIN elems : elems[k] \in gone
    \/ \E k, l \in DOMAIN elems : k # l /\ elems[k] = elems[l]

Bad == BadList(elvec, freed)

(* The strings that are dropped are as many as the elements unless one is dropped
   twice. *)
LEMMA DroppedOnce ==
    ASSUME NEW n \in Nat, DOMAIN elvec = 1 .. n, NEW track \in SUBSET (1 .. n)
    PROVE  Cardinality({elvec[k] : k \in track}) = Cardinality(track)
           <=> \A k, l \in track : elvec[k] = elvec[l] => k = l
<1> DEFINE f == [k \in track |-> elvec[k]]
           T == {elvec[k] : k \in track}
<1>1. IsFiniteSet(track)
      BY RankType
<1>2. f \in Surjection(track, T)
      BY DEF Surjection
<1>3. f \in Injection(track, T) <=> \A k, l \in track : elvec[k] = elvec[l] => k = l
      BY DEF Injection, IsInjective
<1> HIDE DEF f, T
<1>4. Cardinality(track) = Cardinality(T) <=> f \in Injection(track, T)
      BY <1>1, <1>2, FS_Surjection
<1> QED BY <1>3, <1>4 DEF T

LEMMA FilteredGood ==
    ASSUME NEW n \in Nat, DOMAIN elvec = 1 .. n, Len(elvec) = n, NEW track \in SUBSET (1 .. n),
           Cardinality(track) < 2 \/ n \in track, ~Bad
    PROVE  ~BadList(Filtered(track), freed \cup {elvec[k] : k \in track})
<1> DEFINE kept == (1 .. n) \ track
           c == Cardinality(kept)
           P == Places(kept)
<1>1. Filtered(track) = [to \in 1 .. c |-> elvec[P[to]]]
      BY FilteredWhole
<1>2. kept \in SUBSET (1 .. n)
      OBVIOUS
<1>3. P \in [1 .. c -> kept] /\ \A to \in 1 .. c : Rank(kept, P[to]) = to
      BY <1>2, PlacesOf
<1>4. \A k \in kept : k \in 1 .. n /\ k \notin track
      OBVIOUS
<1>5. \A k, l \in 1 .. n : elvec[k] = elvec[l] => k = l
      BY DEF Bad, BadList
<1>6. \A k \in 1 .. n : elvec[k] \notin freed
      BY DEF Bad, BadList
<1> HIDE DEF P, c, kept
<1>7. ASSUME NEW a \in 1 .. c PROVE elvec[P[a]] \notin freed \cup {elvec[k] : k \in track}
  <2>1. P[a] \in 1 .. n /\ P[a] \notin track
        BY <1>3, <1>4
  <2> QED BY <1>5, <1>6, <2>1
<1>8. ASSUME NEW a \in 1 .. c, NEW b \in 1 .. c, elvec[P[a]] = elvec[P[b]] PROVE a = b
  <2>1. P[a] \in 1 .. n /\ P[b] \in 1 .. n
        BY <1>3, <1>4
  <2>2. P[a] = P[b]
        BY <1>5, <1>8, <2>1
  <2> QED BY <1>3, <2>2
<1> QED BY <1>1, <1>7, <1>8 DEF BadList

(* A bad list stays bad, or the filter drops a string twice. *)
LEMMA FilteredBad ==
    ASSUME NEW n \in Nat, DOMAIN elvec = 1 .. n, Len(elvec) = n, NEW track \in SUBSET (1 .. n),
           \A k \in 1 .. n : elvec[k] \notin freed,
           Cardinality({elvec[k] : k \in track}) = Cardinality(track),
           \A k, l \in 1 .. n : elvec[k] = elvec[l] => (k \in track <=> l \in track),
           Bad \/ (Cardinality(track) >= 2 /\ n \notin track)
    PROVE  BadList(Filtered(track), freed \cup {elvec[k] : k \in track})
<1>1. CASE Cardinality(track) >= 2 /\ n \notin track
      BY <1>1, FilteredTorn DEF BadList
<1>2. CASE ~(Cardinality(track) >= 2 /\ n \notin track)
  <2> DEFINE kept == (1 .. n) \ track
             c == Cardinality(kept)
             P == Places(kept)
  <2>1. Cardinality(track) < 2 \/ n \in track
    <3>1. Cardinality(track) \in Nat
          BY RankType
    <3> QED BY <1>2, <3>1
  <2>2. Filtered(track) = [to \in 1 .. c |-> elvec[P[to]]]
        BY <2>1, FilteredWhole
  <2>3. kept \in SUBSET (1 .. n)
        OBVIOUS
  <2>4. \A k \in kept : Rank(kept, k) \in 1 .. c /\ P[Rank(kept, k)] = k
    <3> HIDE DEF kept
    <3> QED BY <2>3, PlacesOf
  <2>5. PICK k, l \in 1 .. n : k # l /\ elvec[k] = elvec[l]
        BY <1>2 DEF Bad, BadList
  <2>6. k \in kept /\ l \in kept
    <3>1. \A a, b \in track : elvec[a] = elvec[b] => a = b
          BY DroppedOnce
    <3>2. ~(k \in track /\ l \in track)
          BY <2>5, <3>1
    <3> QED BY <2>5, <3>2
  <2> HIDE DEF P, c, kept
  <2>7. /\ Rank(kept, k) \in 1 .. c /\ Rank(kept, l) \in 1 .. c
        /\ P[Rank(kept, k)] = k /\ P[Rank(kept, l)] = l
        BY <2>4, <2>6
  <2>8. Rank(kept, k) # Rank(kept, l)
        BY <2>5, <2>7
  <2>9. Filtered(track)[Rank(kept, k)] = elvec[k] /\ Filtered(track)[Rank(kept, l)] = elvec[l]
        BY <2>2, <2>7
  <2>10. DOMAIN Filtered(track) = 1 .. c
        BY <2>2
  <2> QED BY <2>5, <2>7, <2>8, <2>9, <2>10 DEF BadList
<1> QED BY <1>1, <1>2
-------------------------------------------------------------------------------
(***************************************************************************)
(* The file as text, and the list as what it shows of the file.            *)
(***************************************************************************)
BadText == size = 0 \/ size > MaxIoSize \/ Len(file) < size

(* The first filter, or the second one, loses elements of what the file says. *)
Torn == Damages(LineFilter, Split(file))
TornAgain ==
    /\ IsIncompleteRecord(Meaning(file))
    /\ Kept(file) # <<>> /\ Damages(LineFilterAll, Kept(file))

Shown == [k \in DOMAIN elvec |-> Line(k)]

Reading == {"assign", "collect", "filterall", "complete"}
Read    == {"filter", "incomplete", "open", "missing", "aborted"} \cup Reading

TextInv ==
    /\ pc = "fetch" => size # 0
    /\ pc \in Read => ~BadText /\ lines = Split(file)
    /\ pc \in {"format", "create", "edit", "seek", "fetch", "filter"} => freed = {}
    /\ pc = "filter" => elvec = [k \in DOMAIN lines |-> k]

LEMMA SelectedPlaces ==
    ASSUME NEW strs, NEW kept
    PROVE  Selected(strs, kept) = [to \in 1 .. Cardinality(kept) |-> strs[Places(kept)[to]]]
BY DEF Selected, Places, Rank, UpTo

(* Every line that is kept passed the filter. *)
LEMMA KeptLines ==
    ASSUME NEW str \in Strings
    PROVE  /\ Kept(str) \in Seq(Strings)
           /\ \A k \in DOMAIN Kept(str) : LineFilter(Kept(str)[k])
<1> DEFINE strs == Split(str)
           n == Len(strs)
           kept == {k \in DOMAIN strs : LineFilter(strs[k])}
           c == Cardinality(kept)
           P == Places(kept)
<1>1. strs \in Seq(Strings)
      BY SplitType DEF Texts, Strings
<1>2. n \in Nat /\ DOMAIN strs = 1 .. n
      BY <1>1, LenProperties
<1>3. Kept(str) = Selected(strs, kept)
      BY DEF Kept
<1> HIDE DEF strs, n
<1>4. kept \in SUBSET (1 .. n) /\ \A k \in kept : k \in 1 .. n /\ LineFilter(strs[k])
      BY <1>2
<1> HIDE DEF kept
<1>5. P \in [1 .. c -> kept] /\ c \in Nat
      BY <1>2, <1>4, PlacesOf, RankType
<1> HIDE DEF P, c
<1>6. ASSUME NEW to \in 1 .. c
      PROVE  strs[P[to]] \in Strings /\ LineFilter(strs[P[to]])
  <2>1. P[to] \in 1 .. n /\ LineFilter(strs[P[to]])
        BY <1>4, <1>5
  <2> QED BY <1>1, <2>1, ElementOfSeq DEF n
<1>7. Kept(str) = [to \in 1 .. c |-> strs[P[to]]]
      BY <1>3, SelectedPlaces DEF P, c
<1>8. Kept(str) \in [1 .. c -> Strings]
      BY <1>6, <1>7
<1>9. Kept(str) \in Seq(Strings)
      BY <1>5, <1>8, SeqDef
<1> QED BY <1>6, <1>7, <1>9

(* recfile_line_filter() *)
LEMMA FirstFilter ==
    ASSUME TypeInv, TextInv, FilterLines
    PROVE  /\ lines' = lines /\ pc' \in {"assign", "aborted"}
           /\ pc' = "assign" => /\ elvec' # <<>>
                                /\ Torn => Bad'
                                /\ ~Torn => ~Bad' /\ Shown' = Kept(file)
           /\ pc' = "aborted" => ~Torn /\ Kept(file) = <<>>
<1> DEFINE n == Len(lines)
           track == {k \in 1 .. n : ~LineFilter(lines[k])}
           kept == (1 .. n) \ track
           c == Cardinality(kept)
<1>1. lines = Split(file) /\ elvec = [k \in DOMAIN lines |-> k] /\ freed = {} /\ pc = "filter"
      BY DEF FilterLines, TextInv, Read
<1>2. lines \in Seq(Strings) /\ lines # <<>>
      BY <1>1, SplitType DEF TypeInv, Texts, Strings
<1>3. n \in Nat \ {0} /\ DOMAIN lines = 1 .. n
      BY <1>2, LenProperties, EmptySeq
<1> HIDE DEF n
<1>4. DOMAIN elvec = 1 .. n /\ Len(elvec) = n /\ \A k \in 1 .. n : elvec[k] = k
      BY <1>1, <1>3
<1>5. ~Bad
      BY <1>1, <1>4 DEF Bad, BadList
<1>6. Track(LineFilter) = track
      BY <1>4 DEF Track
<1>7. track \in SUBSET (1 .. n)
      OBVIOUS
<1>8. {elvec[k] : k \in track} = track
      BY <1>4, <1>7
<1>9. Torn <=> Cardinality(track) >= 2 /\ n \notin track
  <2>1. {k \in DOMAIN lines : ~LineFilter(lines[k])} = track
        BY <1>3
  <2>2. Torn <=> /\ Cardinality({k \in DOMAIN lines : ~LineFilter(lines[k])}) >= 2
                 /\ LineFilter(lines[n])
        BY <1>1 DEF Torn, Damages, n
  <2>3. n \in 1 .. n
        BY <1>3
  <2> HIDE DEF track
  <2>4. n \notin track <=> LineFilter(lines[n])
        BY <2>3 DEF track
  <2> QED BY <2>1, <2>2, <2>4
<1>10. {k \in DOMAIN lines : LineFilter(lines[k])} = kept
      BY <1>3
<1>11. Kept(file) = [to \in 1 .. c |-> lines[Places(kept)[to]]]
  <2>1. Kept(file) = Selected(lines, kept)
        BY <1>1, <1>10 DEF Kept
  <2> HIDE DEF kept
  <2> QED BY <2>1, SelectedPlaces
<1>12. IsFiniteSet(track) /\ Cardinality(track) \in 0 .. n /\ c = n - Cardinality(track)
      BY <1>3, <1>7, KeptSize
<1> HIDE DEF track
<1>13. /\ freed' = freed \cup {elvec[k] : k \in track} /\ elvec' = Filtered(track) /\ lines' = lines
       /\ pc' = IF elvec' = <<>> THEN "aborted" ELSE "assign"
      BY <1>1, <1>4, <1>6, <1>8 DEF FilterLines, Filter, IsReadable
<1>14. CASE Torn
  <2>1. BadList(Filtered(track), freed \cup {elvec[k] : k \in track})
    <3>1. \A k \in 1 .. n : elvec[k] \notin freed
          BY <1>1
    <3>2. Cardinality({elvec[k] : k \in track}) = Cardinality(track)
          BY <1>8
    <3>3. \A k, l \in 1 .. n : elvec[k] = elvec[l] => (k \in track <=> l \in track)
          BY <1>4
    <3> QED BY <1>3, <1>4, <1>7, <1>9, <1>14, <3>1, <3>2, <3>3, FilteredBad
  <2>2. Bad'
        BY <1>13, <2>1 DEF Bad
  <2>3. elvec' # <<>>
    <3>1. DOMAIN elvec' = 1 .. n - Cardinality(track)
          BY <1>3, <1>4, <1>7, <1>9, <1>13, <1>14, FilteredTorn
    <3>2. track # 1 .. n
          BY <1>3, <1>9, <1>14
    <3>3. Cardinality(track) # n
      <4>1. kept \in SUBSET (1 .. n) /\ n \in kept
            BY <1>3, <1>9, <1>14
      <4> HIDE DEF kept
      <4>2. IsFiniteSet(kept)
            BY <1>3, <4>1, RankType
      <4>3. c # 0
            BY <4>1, <4>2, FS_EmptySet
      <4> QED BY <1>3, <1>12, <4>3
    <3>4. 1 \in DOMAIN elvec'
          BY <1>3, <1>12, <3>1, <3>3
    <3> QED BY <3>4
  <2> QED BY <1>13, <1>14, <2>2, <2>3
<1>15. CASE ~Torn
  <2>1. Cardinality(track) < 2 \/ n \in track
        BY <1>9, <1>12, <1>15
  <2>2. ~BadList(Filtered(track), freed \cup {elvec[k] : k \in track})
        BY <1>3, <1>4, <1>5, <1>7, <2>1, FilteredGood
  <2>3. ~Bad'
        BY <1>13, <2>2 DEF Bad
  <2>4. elvec' = [to \in 1 .. c |-> elvec[Places(kept)[to]]]
        BY <1>3, <1>4, <1>7, <1>13, <2>1, FilteredWhole
  <2>5. \A to \in 1 .. c : Places(kept)[to] \in 1 .. n
    <3>1. kept \in SUBSET (1 .. n)
          OBVIOUS
    <3> HIDE DEF kept
    <3>2. Places(kept) \in [1 .. c -> kept]
          BY <1>3, <3>1, PlacesOf
    <3> QED BY <3>1, <3>2
  <2> HIDE DEF c, kept
  <2>6. Shown' = Kept(file)
    <3>1. Shown' = [k \in DOMAIN elvec' |-> lines'[elvec'[k]]]
          BY DEF Shown, Line
    <3> QED BY <1>4, <1>11, <1>13, <2>4, <2>5, <3>1
  <2>7. elvec' = <<>> => Kept(file) = <<>>
    <3>1. elvec' = <<>> => DOMAIN elvec' = {}
          OBVIOUS
    <3>2. DOMAIN elvec' = 1 .. c /\ c \in Nat
          BY <1>3, <1>12, <2>4
    <3>3. elvec' = <<>> => c = 0
          BY <3>1, <3>2
    <3>4. c = 0 => Kept(file) = <<>>
          BY <1>11
    <3> QED BY <3>3, <3>4
  <2> QED BY <1>13, <1>15, <2>3, <2>6, <2>7
<1> QED BY <1>14, <1>15

(* The second filter, with what it drops: marks are dropped, texts are not. *)
LEMMA SecondFilter ==
    ASSUME TypeInv, NEW n \in Nat \ {0}, n = Len(elvec), FilterAll,
           NEW track, track = {k \in 1 .. n : ~LineFilterAll(lines[elvec[k]])}
    PROVE  /\ lines' = lines /\ pc' \in {"undefined", "aborted", "incomplete"}
           /\ pc' = "undefined" => Bad
           /\ pc' = "incomplete" =>
                  /\ track # 1 .. n
                  /\ Bad' <=> Bad \/ (Cardinality(track) >= 2 /\ n \notin track)
           /\ pc' = "aborted" => ~Bad /\ track = 1 .. n
<1>1. elvec \in Seq(DOMAIN lines) /\ DOMAIN elvec = 1 .. n /\ Len(elvec) = n /\ n \in Nat
      BY LenProperties DEF TypeInv
<1>2. Track(LineFilterAll) = track /\ track \in SUBSET (1 .. n)
      BY <1>1 DEF Track
<1>3. IsFiniteSet(track) /\ Cardinality(track) \in 0 .. n
      /\ Cardinality((1 .. n) \ track) = n - Cardinality(track)
      BY <1>1, <1>2, KeptSize
<1> DEFINE dropped == {elvec[k] : k \in track}
<1>4. \/ /\ pc' = "undefined" /\ lines' = lines
         /\ (\E k \in 1 .. n : elvec[k] \in freed) \/ Cardinality(dropped) # Cardinality(track)
      \/ /\ \A k \in 1 .. n : elvec[k] \notin freed
         /\ Cardinality(dropped) = Cardinality(track)
         /\ freed' = freed \cup dropped /\ elvec' = Filtered(track) /\ lines' = lines
         /\ pc' = IF elvec' = <<>> THEN "aborted" ELSE "incomplete"
      BY <1>1, <1>2 DEF FilterAll, Filter, IsReadable, list
<1>5. CASE /\ pc' = "undefined" /\ lines' = lines
           /\ (\E k \in 1 .. n : elvec[k] \in freed) \/ Cardinality(dropped) # Cardinality(track)
  <2>1. ASSUME ~Bad PROVE FALSE
    <3>1. \A k \in 1 .. n : elvec[k] \notin freed
          BY <1>1, <2>1 DEF Bad, BadList
    <3>2. \A k, l \in track : elvec[k] = elvec[l] => k = l
          BY <1>1, <1>2, <2>1 DEF Bad, BadList
    <3>3. Cardinality(dropped) = Cardinality(track)
          BY <1>1, <1>2, <3>2, DroppedOnce
    <3> QED BY <1>5, <3>1, <3>3
  <2> QED BY <1>5, <2>1
<1>6. CASE /\ \A k \in 1 .. n : elvec[k] \notin freed
           /\ Cardinality(dropped) = Cardinality(track)
           /\ freed' = freed \cup dropped /\ elvec' = Filtered(track) /\ lines' = lines
           /\ pc' = IF elvec' = <<>> THEN "aborted" ELSE "incomplete"
  <2>1. \A k, l \in 1 .. n : elvec[k] = elvec[l] => (k \in track <=> l \in track)
        OBVIOUS
  <2>2. \A k, l \in track : elvec[k] = elvec[l] => k = l
        BY <1>1, <1>2, <1>6, DroppedOnce
  <2>3. Len(elvec') = n - Cardinality(track) /\ elvec' \in Seq(DOMAIN lines)
        BY <1>1, <1>2, <1>6, FilteredType
  <2>4. ASSUME track = 1 .. n PROVE elvec' = <<>> /\ ~Bad
    <3>1. Cardinality(track) = n
          BY <1>1, <2>4, IntervalSize
    <3>2. Len(elvec') = 0
      <4>1. n - n = 0
            BY <1>1
      <4> QED BY <2>3, <3>1, <4>1
    <3>4. elvec' = <<>>
      <4> DEFINE D == DOMAIN lines
      <4> HIDE DEF D
      <4>1. elvec' \in Seq(D)
            BY <2>3 DEF D
      <4> QED BY <3>2, <4>1, EmptySeq
    <3>3. ~Bad
          BY <1>1, <1>6, <2>2, <2>4 DEF Bad, BadList
    <3> QED BY <3>3, <3>4
  <2>5. ASSUME elvec' = <<>> PROVE track = 1 .. n
    <3>1. Cardinality(track) = n
          BY <1>1, <1>3, <2>3, <2>5, EmptySeq
    <3>2. IsFiniteSet(1 .. n) /\ Cardinality(1 .. n) = n
          BY <1>1, IntervalSize
    <3> QED BY <1>2, <3>1, <3>2, FS_Subset
  <2>6. ASSUME Bad \/ (Cardinality(track) >= 2 /\ n \notin track) PROVE Bad'
    <3>1. BadList(Filtered(track), freed \cup {elvec[k] : k \in track})
          BY <1>1, <1>2, <1>6, <2>1, <2>6, FilteredBad
    <3> QED BY <1>6, <3>1 DEF Bad
  <2>7. ASSUME ~(Bad \/ (Cardinality(track) >= 2 /\ n \notin track)) PROVE ~Bad'
    <3>1. Cardinality(track) < 2 \/ n \in track
          BY <1>3, <2>7
    <3>2. ~Bad
          BY <2>7
    <3>3. ~BadList(Filtered(track), freed \cup {elvec[k] : k \in track})
      <4>1. n \in Nat /\ DOMAIN elvec = 1 .. n /\ Len(elvec) = n /\ track \in SUBSET (1 .. n)
            BY <1>1, <1>2
      <4> QED BY <3>1, <3>2, <4>1, FilteredGood
    <3> QED BY <1>6, <3>3 DEF Bad
  <2>8. CASE elvec' = <<>>
        BY <1>6, <2>4, <2>5, <2>8
  <2>9. CASE elvec' # <<>>
        BY <1>6, <2>4, <2>6, <2>7, <2>9
  <2> QED BY <2>8, <2>9
<1> QED BY <1>4, <1>5, <1>6
-------------------------------------------------------------------------------
(***************************************************************************)
(* The text below a mark, as it is collected line by line.                 *)
(***************************************************************************)
LEMMA FlattenAlong ==
    ASSUME NEW n \in Nat, NEW s \in [1 .. n -> Strings], NEW f, f[0] = <<>>,
           \A k \in 1 .. n : f[k - 1] \in Strings /\ f[k] = f[k - 1] \o s[k]
    PROVE  FlattenSeq(s) = f[n]
<1> DEFINE F == CHOOSE flatten : flatten =
                   [k \in 1 .. Len(s) |-> IF k = 1 THEN s[k] ELSE flatten[k - 1] \o s[k]]
<1>1. Len(s) = n
      BY LenProperties
<1>2. n # 0 => f[1] = s[1]
  <2> SUFFICES ASSUME n # 0 PROVE f[1] = s[1]
      OBVIOUS
  <2>1. 1 \in 1 .. n /\ 1 - 1 = 0
        OBVIOUS
  <2>2. f[1] = f[0] \o s[1] /\ s[1] \in Strings
        BY <2>1
  <2> DEFINE u == s[1]
  <2>3. u \in Seq(Char)
        BY <2>2 DEF Strings
  <2> HIDE DEF u
  <2>4. <<>> \o u = u
        BY <2>3, ConcatEmptySeq
  <2> QED BY <2>2, <2>4 DEF u
<1>3. CASE n = 0
  <2>1. s = <<>>
        BY <1>3
  <2>2. FlattenSeq(s) = s
        BY <1>1, <1>3 DEF FlattenSeq
  <2> QED BY <1>3, <2>1, <2>2
<1>4. CASE n # 0
  <2>1. FlattenSeq(s) = F[n]
        BY <1>1, <1>4 DEF FlattenSeq
  <2> DEFINE g == [k \in 1 .. n |-> f[k]]
  <2>2. g = [k \in 1 .. n |-> IF k = 1 THEN s[k] ELSE g[k - 1] \o s[k]]
    <3>1. ASSUME NEW k \in 1 .. n PROVE g[k] = IF k = 1 THEN s[k] ELSE g[k - 1] \o s[k]
      <4>1. CASE k = 1
        <5> QED BY <1>2, <4>1
      <4>2. CASE k # 1
        <5>1. k - 1 \in 1 .. n
              BY <4>2
        <5> QED BY <4>2, <5>1
      <4> QED BY <4>1, <4>2
    <3> QED BY <3>1
  <2> HIDE DEF g
  <2>3. F = [k \in 1 .. n |-> IF k = 1 THEN s[k] ELSE F[k - 1] \o s[k]]
        BY <1>1, <2>2
  <2> HIDE DEF F
  <2> DEFINE S == {k \in Nat : k + 1 <= n => F[k + 1] = f[k + 1]}
  <2>4. 0 \in S
    <3>1. 1 \in 1 .. n /\ 0 + 1 = 1
          BY <1>4
    <3>2. F[1] = s[1]
          BY <2>3, <3>1
    <3> QED BY <1>2, <3>1, <3>2
  <2>5. ASSUME NEW k \in Nat, k \in S
        PROVE  k + 1 \in S
    <3> SUFFICES ASSUME k + 1 + 1 <= n PROVE F[k + 1 + 1] = f[k + 1 + 1]
        OBVIOUS
    <3>1. k + 1 + 1 \in 1 .. n /\ k + 1 + 1 # 1 /\ (k + 1 + 1) - 1 = k + 1 /\ k + 1 <= n
          OBVIOUS
    <3>2. F[k + 1] = f[k + 1]
          BY <2>5, <3>1
    <3>3. F[k + 1 + 1] = F[k + 1] \o s[k + 1 + 1]
          BY <2>3, <3>1
    <3>4. f[k + 1 + 1] = f[k + 1] \o s[k + 1 + 1]
          BY <3>1
    <3> QED BY <3>2, <3>3, <3>4
  <2>6. n - 1 \in S
    <3> HIDE DEF S
    <3>1. n - 1 \in Nat
          BY <1>4
    <3> QED BY <2>4, <2>5, <3>1, Induction
  <2>7. (n - 1) + 1 = n
        OBVIOUS
  <2> QED BY <2>1, <2>6, <2>7
<1> QED BY <1>3, <1>4

LEMMA FlattenGrows ==
    ASSUME NEW n \in Nat, NEW s \in [1 .. n -> Strings], NEW t \in [1 .. n + 1 -> Strings],
           \A k \in 1 .. n : t[k] = s[k]
    PROVE  /\ FlattenSeq(s) \in Strings /\ FlattenSeq(t) \in Strings
           /\ FlattenSeq(t) = FlattenSeq(s) \o t[n + 1]
<1> DEFINE step == [x \in Strings \X (1 .. n + 1) |-> x[1] \o t[x[2]]]
           empty == <<>>
<1>1. empty \in Strings
      BY EmptySeq DEF Strings
<1>2. \A x, y \in Strings : x \o y \in Strings
      BY Joined
<1>3. IsStep(step, Strings, n + 1)
      BY <1>2 DEF IsStep
<1>4. n + 1 \in Nat
      OBVIOUS
<1> HIDE DEF step, empty
<1>5. PICK f : Along(f, Strings, n + 1, empty, step)
      BY <1>1, <1>3, <1>4, Recursion
<1>6. \A k \in 0 .. n + 1 : f[k] \in Strings
      BY <1>5 DEF Along
<1>7. ASSUME NEW k \in 1 .. n + 1
      PROVE  f[k - 1] \in Strings /\ f[k] = f[k - 1] \o t[k]
  <2>1. k - 1 \in 0 .. n + 1
        OBVIOUS
  <2>2. f[k - 1] \in Strings
        BY <1>6, <2>1
  <2>3. step[<<f[k - 1], k>>] = f[k - 1] \o t[k]
        BY <2>2 DEF step
  <2> QED BY <1>5, <2>2, <2>3 DEF Along
<1>8. f[0] = <<>>
      BY <1>5 DEF Along, empty
<1>9. FlattenSeq(t) = f[n + 1]
      BY <1>4, <1>7, <1>8, FlattenAlong
<1>10. FlattenSeq(s) = f[n]
  <2>1. \A k \in 1 .. n : k \in 1 .. n + 1
        OBVIOUS
  <2>2. \A k \in 1 .. n : f[k - 1] \in Strings /\ f[k] = f[k - 1] \o s[k]
        BY <1>7, <2>1
  <2> QED BY <1>8, <2>2, FlattenAlong
<1>11. f[n + 1] = f[n] \o t[n + 1] /\ f[n] \in Strings /\ f[n + 1] \in Strings
  <2>1. n + 1 \in 1 .. n + 1 /\ (n + 1) - 1 = n /\ n \in 0 .. n + 1 /\ n + 1 \in 0 .. n + 1
        OBVIOUS
  <2> QED BY <1>6, <1>7, <2>1
<1> QED BY <1>9, <1>10, <1>11

(* The text between a mark and the line n. *)
Collected(kept, k, n) == FlattenSeq([l \in 1 .. n - k - 1 |-> Said(kept[k + l])])

LEMMA SaidType ==
    ASSUME NEW line \in Strings
    PROVE  Said(line) \in Strings
<1>1. CASE First(line) = "|"
  <2>1. line \in Seq(Char) /\ line # <<>>
        BY <1>1 DEF Strings, First
  <2>2. Tail(line) \in Strings
        BY <2>1, HeadTailProperties DEF Strings
  <2> DEFINE nl1 == <<NL>>
  <2>3. nl1 \in Strings
        BY Newlines
  <2>4. Said(line) = Tail(line) \o nl1
        BY <1>1 DEF Said
  <2> HIDE DEF nl1
  <2> QED BY <2>2, <2>3, <2>4, Joined
<1>2. CASE First(line) # "|"
      BY <1>2 DEF Said
<1> QED BY <1>1, <1>2

LEMMA CollectedNone ==
    ASSUME NEW kept, NEW k \in Nat
    PROVE  Collected(kept, k, k + 1) = <<>>
<1>1. (k + 1) - k - 1 = 0
      OBVIOUS
<1> DEFINE s == [l \in 1 .. 0 |-> Said(kept[k + l])]
<1>2. s = <<>>
      OBVIOUS
<1>3. Collected(kept, k, k + 1) = FlattenSeq(s)
      BY <1>1 DEF Collected
<1> HIDE DEF s
<1> QED BY <1>2, <1>3 DEF FlattenSeq

LEMMA CollectedMore ==
    ASSUME NEW kept \in Seq(Strings), NEW k \in Nat, NEW n \in k + 1 .. Len(kept)
    PROVE  /\ Collected(kept, k, n) \in Strings
           /\ Collected(kept, k, n + 1) = Collected(kept, k, n) \o Said(kept[n])
<1> DEFINE m == n - k - 1
           s == [l \in 1 .. m |-> Said(kept[k + l])]
           t == [l \in 1 .. m + 1 |-> Said(kept[k + l])]
<1>1. Len(kept) \in Nat /\ \A l \in 1 .. Len(kept) : Said(kept[l]) \in Strings
      BY LenProperties, ElementOfSeq, SaidType
<1>2. m \in Nat /\ (n + 1) - k - 1 = m + 1 /\ k + (m + 1) = n
      BY <1>1
<1>3. \A l \in 1 .. m + 1 : k + l \in 1 .. Len(kept)
      BY <1>1
<1>4. Collected(kept, k, n) = FlattenSeq(s) /\ Collected(kept, k, n + 1) = FlattenSeq(t)
      BY <1>2 DEF Collected
<1> HIDE DEF m
<1>5. \A l \in 1 .. m : l \in 1 .. m + 1
      BY <1>2
<1>6. s \in [1 .. m -> Strings] /\ t \in [1 .. m + 1 -> Strings]
      BY <1>1, <1>3, <1>5
<1>7. \A l \in 1 .. m : t[l] = s[l]
      BY <1>5
<1>8. t[m + 1] = Said(kept[n])
  <2>1. m + 1 \in 1 .. m + 1
        BY <1>2
  <2>2. t[m + 1] = Said(kept[k + (m + 1)])
        BY <2>1
  <2> QED BY <1>2, <2>2
<1> HIDE DEF s, t
<1> QED BY <1>2, <1>4, <1>6, <1>7, <1>8, FlattenGrows

LEMMA SectionIs ==
    ASSUME NEW kept \in Seq(Strings), NEW k \in 1 .. Len(kept), NEW n \in k + 1 .. Len(kept) + 1,
           n > Len(kept) \/ IsMark(kept[n]),
           \A l \in k + 1 .. n - 1 : ~IsMark(kept[l])
    PROVE  Section(kept, k) = Collected(kept, k, n)
<1> DEFINE Ends(e) == /\ e > Len(kept) \/ IsMark(kept[e])
                      /\ \A l \in k + 1 .. e - 1 : ~IsMark(kept[l])
           end == CHOOSE e \in k + 1 .. Len(kept) + 1 : Ends(e)
<1>1. Len(kept) \in Nat
      BY LenProperties
<1>2. Ends(n)
      OBVIOUS
<1>3. ASSUME NEW a \in k + 1 .. Len(kept) + 1, NEW b \in k + 1 .. Len(kept) + 1,
             Ends(a), Ends(b), a < b
      PROVE  FALSE
  <2>1. a \in k + 1 .. b - 1 /\ ~(a > Len(kept))
        BY <1>1, <1>3
  <2> QED BY <1>3, <2>1
<1>4. \A a, b \in k + 1 .. Len(kept) + 1 : a < b \/ b < a \/ a = b
      BY <1>1
<1>5. Section(kept, k) = Collected(kept, k, end)
      BY DEF Section, Collected
<1> HIDE DEF Ends
<1>6. end \in k + 1 .. Len(kept) + 1 /\ Ends(end)
      BY <1>2
<1>7. end = n
      BY <1>2, <1>3, <1>4, <1>6
<1> QED BY <1>5, <1>7
-------------------------------------------------------------------------------
(***************************************************************************)
(* What the lines before n say, and how a line changes it.                 *)
(***************************************************************************)
Before(kept, f, n) == {k \in Says(kept, f) : k < n}

Upto(kept, n) == [f \in Names |-> LastSection(kept, Before(kept, f, n))]

LEMMA IdIsMark ==
    /\ \A f \in Names : IsMark(Id(f)) /\ First(Id(f)) = ":"
    /\ \A f, g \in Names : Id(f) = Id(g) => f = g
<1>1. ASSUME NEW f \in Names PROVE Id(f)[1] = ":" /\ Id(f)[2] = f /\ Id(f) # <<>>
      BY DEF Id
<1>2. \A f, g \in Names : Id(f) = Id(g) => f = g
      BY <1>1
<1>3. \A f \in Names : First(Id(f)) = ":"
      BY <1>1 DEF First
<1> QED BY <1>2, <1>3 DEF IsMark

LEMMA UptoFirst ==
    ASSUME NEW kept \in Seq(Strings)
    PROVE  Upto(kept, 1) = NoRecord
<1>1. \A f \in Names : Before(kept, f, 1) = {}
      BY LenProperties DEF Before, Says
<1> QED BY <1>1 DEF Upto, NoRecord, LastSection

LEMMA UptoAll ==
    ASSUME NEW kept \in Seq(Strings)
    PROVE  Upto(kept, Len(kept) + 1) = MeaningOf(kept)
<1>1. ASSUME NEW f \in Names PROVE Before(kept, f, Len(kept) + 1) = Says(kept, f)
      BY LenProperties DEF Before, Says
<1> QED BY <1>1 DEF Upto, MeaningOf

(* Lines that say nothing. *)
LEMMA UptoSkip ==
    ASSUME NEW kept, NEW n \in Nat, NEW m \in Nat, n <= m,
           \A f \in Names : \A k \in Says(kept, f) : ~(n <= k /\ k < m),
           \A f \in Names : Says(kept, f) \subseteq Nat
    PROVE  Upto(kept, m) = Upto(kept, n)
<1>1. ASSUME NEW f \in Names PROVE Before(kept, f, m) = Before(kept, f, n)
      BY DEF Before
<1> QED BY <1>1 DEF Upto

(* A field with its text. *)
LEMMA UptoField ==
    ASSUME NEW kept \in Seq(Strings), NEW f \in Names, NEW k \in Says(kept, f),
           NEW n \in k + 1 .. Len(kept) + 1, \A l \in k + 1 .. n - 1 : ~IsMark(kept[l])
    PROVE  Upto(kept, n) = [Upto(kept, k) EXCEPT ![f] = Section(kept, k)]
<1>1. Len(kept) \in Nat /\ DOMAIN kept = 1 .. Len(kept)
      BY LenProperties
<1>2. k \in 1 .. Len(kept) /\ kept[k] = Id(f)
      BY <1>1 DEF Says
<1>3. ASSUME NEW g \in Names, NEW l \in Says(kept, g), l < n
      PROVE  l < k \/ (l = k /\ g = f)
  <2>1. l \in 1 .. Len(kept) /\ kept[l] = Id(g)
        BY <1>1 DEF Says
  <2>2. IsMark(kept[l])
        BY <2>1, IdIsMark
  <2>3. ~(l \in k + 1 .. n - 1)
        BY <2>2
  <2>4. l <= k
        BY <1>1, <1>2, <1>3, <2>1, <2>3
  <2>5. l = k => g = f
        BY <1>2, <2>1, IdIsMark
  <2> QED BY <1>2, <2>1, <2>4, <2>5
<1>4. \A g \in Names : \A l \in Says(kept, g) : l < k => l < n
      BY <1>1, <1>2 DEF Says
<1>5. ASSUME NEW g \in Names, g # f PROVE Before(kept, g, n) = Before(kept, g, k)
      BY <1>3, <1>4, <1>5 DEF Before
<1>6. k \in Before(kept, f, n) /\ \A l \in Before(kept, f, n) : l <= k
      BY <1>2, <1>3 DEF Before
<1>7. \A l \in Before(kept, f, n) : l \in Nat
      BY <1>1 DEF Before, Says
<1>8. (CHOOSE j \in Before(kept, f, n) : \A l \in Before(kept, f, n) : l <= j) = k
  <2> DEFINE B == Before(kept, f, n)
  <2>1. ASSUME NEW j \in B, \A l \in B : l <= j PROVE j = k
    <3>1. k <= j /\ j <= k /\ j \in Nat /\ k \in Nat
          BY <1>6, <1>7, <2>1
    <3> QED BY <3>1
  <2> HIDE DEF B
  <2>2. k \in B /\ \A l \in B : l <= k
        BY <1>6 DEF B
  <2>3. (CHOOSE j \in B : \A l \in B : l <= j) = k
        BY <2>1, <2>2
  <2> QED BY <2>3 DEF B
<1>9. ASSUME NEW g \in Names
      PROVE  Upto(kept, n)[g] = [Upto(kept, k) EXCEPT ![f] = Section(kept, k)][g]
  <2>1. CASE g = f
    <3>1. LastSection(kept, Before(kept, f, n)) = Section(kept, k)
          BY <1>6, <1>8 DEF LastSection
    <3> QED BY <2>1, <3>1 DEF Upto
  <2>2. CASE g # f
        BY <1>5, <2>2 DEF Upto
  <2> QED BY <2>1, <2>2
<1> QED BY <1>9 DEF Upto
-------------------------------------------------------------------------------
(***************************************************************************)
(* The file is read.                                                       *)
(***************************************************************************)
ListInv ==
    /\ pc \in Reading => /\ elvec # <<>>
                         /\ Torn => Bad
                         /\ ~Torn => ~Bad /\ Shown = Kept(file)
    /\ pc = "incomplete" => /\ Torn \/ TornAgain => Bad
                            /\ ~(Torn \/ TornAgain) =>
                                   ~Bad /\ HasText(file) /\ IsIncompleteRecord(Meaning(file))

Assigning ==
    /\ i \in 1 .. Len(Kept(file)) + 1
    /\ text = <<>> /\ rec = Upto(Kept(file), i)

Collecting ==
    /\ i \in 1 .. Len(Kept(file)) /\ target \in Names /\ Kept(file)[i] = Id(target)
    /\ ii \in i + 1 .. Len(Kept(file)) + 1
    /\ \A l \in i + 1 .. ii - 1 : ~IsMark(Kept(file)[l])
    /\ text = Collected(Kept(file), i, ii) /\ rec = Upto(Kept(file), i)

LoopInv ==
    ~Torn => /\ pc = "assign" => Assigning
             /\ pc = "collect" => Collecting
             /\ pc \in {"filterall", "complete"} =>
                    rec = Meaning(file) /\ (pc = "filterall" <=> IsIncompleteRecord(rec))

EndInv == ReadsFile /\ UndefinedExactly

LEMMA ShownIs ==
    ASSUME TypeInv, Shown = Kept(file)
    PROVE  /\ Kept(file) \in Seq(Strings) /\ Len(Kept(file)) = Len(elvec)
           /\ Len(elvec) \in Nat /\ DOMAIN elvec = 1 .. Len(elvec)
           /\ DOMAIN Kept(file) = 1 .. Len(elvec)
           /\ \A k \in 1 .. Len(elvec) : Line(k) = Kept(file)[k] /\ LineFilter(Kept(file)[k])
<1>1. Len(elvec) \in Nat /\ DOMAIN elvec = 1 .. Len(elvec)
      BY LenProperties DEF TypeInv
<1>2. file \in Strings
      BY DEF TypeInv
<1>3. Kept(file) \in Seq(Strings) /\ \A k \in DOMAIN Kept(file) : LineFilter(Kept(file)[k])
      BY <1>2, KeptLines
<1> DEFINE kept == Kept(file)
<1>4. kept = [k \in 1 .. Len(elvec) |-> Line(k)]
      BY <1>1 DEF Shown
<1> HIDE DEF kept
<1>5. DOMAIN kept = 1 .. Len(elvec) /\ \A k \in 1 .. Len(elvec) : kept[k] = Line(k)
      BY <1>4
<1>6. kept \in Seq(Strings)
      BY <1>3 DEF kept
<1>7. Len(kept) = Len(elvec)
      BY <1>1, <1>5, <1>6, LenProperties
<1> QED BY <1>1, <1>3, <1>5, <1>6, <1>7 DEF kept

LEMMA SkipStep ==
    ASSUME TypeInv, Shown = Kept(file), LoopInv, ~Torn, SkipLine
    PROVE  Assigning'
<1> DEFINE kept == Kept(file)
           n == Len(elvec)
<1>1. /\ kept \in Seq(Strings) /\ Len(kept) = n /\ n \in Nat /\ DOMAIN kept = 1 .. n
      /\ \A k \in 1 .. n : Line(k) = kept[k]
      BY ShownIs
<1>2. i \in 1 .. n + 1 /\ text = <<>> /\ rec = Upto(kept, i) /\ i <= n
      /\ \A f \in Names : Line(i) # Id(f)
      BY <1>1 DEF SkipLine, LoopInv, Assigning, InList, IsId
<1>3. i' = i + 1 /\ text' = text /\ rec' = rec /\ file' = file
      BY DEF SkipLine, buffer
<1> HIDE DEF kept, n
<1>4. i \in 1 .. n /\ i \in Nat /\ i + 1 \in Nat /\ i <= i + 1 /\ i + 1 \in 1 .. n + 1
      BY <1>1, <1>2
<1>5. \A f \in Names : \A k \in Says(kept, f) : k \in Nat /\ k # i
      BY <1>1, <1>2, <1>4 DEF Says
<1>6. \A f \in Names : \A k \in Says(kept, f) : ~(i <= k /\ k < i + 1)
      BY <1>4, <1>5
<1>7. Upto(kept, i + 1) = Upto(kept, i)
      BY <1>4, <1>5, <1>6, UptoSkip
<1> QED BY <1>1, <1>2, <1>3, <1>4, <1>7 DEF Assigning, kept

LEMMA BeginStep ==
    ASSUME TypeInv, Shown = Kept(file), LoopInv, ~Torn, BeginField
    PROVE  Collecting'
<1> DEFINE kept == Kept(file)
           n == Len(elvec)
<1>1. /\ kept \in Seq(Strings) /\ Len(kept) = n /\ n \in Nat /\ DOMAIN kept = 1 .. n
      /\ \A k \in 1 .. n : Line(k) = kept[k]
      BY ShownIs
<1>2. i \in 1 .. n + 1 /\ text = <<>> /\ rec = Upto(kept, i) /\ i <= n
      /\ \E f \in Names : Line(i) = Id(f)
      BY <1>1 DEF BeginField, LoopInv, Assigning, InList, IsId
<1>3. i' = i /\ ii' = i + 1 /\ text' = text /\ rec' = rec /\ file' = file
      /\ target' = CHOOSE f \in Names : Line(i) = Id(f)
      BY DEF BeginField, buffer
<1> HIDE DEF kept, n
<1>4. i \in 1 .. n /\ i \in Nat /\ i + 1 \in i + 1 .. n + 1
      BY <1>1, <1>2
<1>5. target' \in Names /\ kept[i] = Id(target')
      BY <1>1, <1>2, <1>3, <1>4
<1>6. \A l \in i + 1 .. (i + 1) - 1 : FALSE
      BY <1>4
<1>7. Collected(kept, i, i + 1) = <<>>
      BY <1>4, CollectedNone
<1> QED BY <1>1, <1>2, <1>3, <1>4, <1>5, <1>6, <1>7 DEF Collecting, kept

LEMMA CollectStep ==
    ASSUME TypeInv, Shown = Kept(file), LoopInv, ~Torn, AppendLine
    PROVE  Collecting'
<1> DEFINE kept == Kept(file)
           n == Len(elvec)
<1>1. /\ kept \in Seq(Strings) /\ Len(kept) = n /\ n \in Nat /\ DOMAIN kept = 1 .. n
      /\ \A k \in 1 .. n : Line(k) = kept[k]
      BY ShownIs
<1>2. Collecting /\ ii <= n /\ First(Line(ii)) # ":"
      BY DEF AppendLine, IsText, InList, LoopInv
<1>3. i' = i /\ ii' = ii + 1 /\ rec' = rec /\ file' = file /\ target' = target
      BY DEF AppendLine
<1>4. /\ i \in 1 .. n /\ target \in Names /\ kept[i] = Id(target) /\ ii \in i + 1 .. n + 1
      /\ \A l \in i + 1 .. ii - 1 : ~IsMark(kept[l])
      /\ text = Collected(kept, i, ii) /\ rec = Upto(kept, i)
      BY <1>1, <1>2 DEF Collecting
<1> HIDE DEF kept, n
<1>5. i \in Nat /\ ii \in i + 1 .. n /\ ii \in 1 .. n /\ ii + 1 \in i + 1 .. n + 1
      BY <1>1, <1>2, <1>4
<1>6. Line(ii) = kept[ii] /\ kept[ii] \in Strings
      BY <1>1, <1>5, ElementOfSeq
<1>7. /\ Collected(kept, i, ii) \in Strings
      /\ Collected(kept, i, ii + 1) = Collected(kept, i, ii) \o Said(kept[ii])
      BY <1>1, <1>5, CollectedMore
<1>8. text' = text \o Said(kept[ii])
  <2>1. CASE First(kept[ii]) = "|"
    <3> DEFINE nl1 == <<NL>>
               tail == Tail(kept[ii])
    <3>1. text' = (text \o tail) \o nl1
          BY <1>6, <2>1 DEF AppendLine
    <3>2. kept[ii] \in Seq(Char) /\ kept[ii] # <<>>
          BY <1>6, <2>1 DEF First, Strings
    <3>3. tail \in Seq(Char) /\ nl1 \in Seq(Char) /\ text \in Seq(Char)
          BY <3>2, HeadTailProperties, Newlines DEF Strings, TypeInv
    <3>4. Said(kept[ii]) = tail \o nl1
          BY <2>1 DEF Said
    <3> HIDE DEF tail, nl1
    <3> QED BY <3>1, <3>3, <3>4, ConcatAssociative
  <2>2. CASE First(kept[ii]) # "|"
        BY <1>6, <2>2 DEF AppendLine, Said
  <2> QED BY <2>1, <2>2
<1>9. \A l \in i + 1 .. (ii + 1) - 1 : ~IsMark(kept[l])
  <2> TAKE l \in i + 1 .. (ii + 1) - 1
  <2>1. l \in i + 1 .. ii - 1 \/ l = ii
        BY <1>5
  <2>2. ~IsMark(kept[ii])
        BY <1>2, <1>6 DEF IsMark
  <2> QED BY <1>4, <2>1, <2>2
<1> QED BY <1>1, <1>3, <1>4, <1>5, <1>7, <1>8, <1>9 DEF Collecting, kept

LEMMA EndStep ==
    ASSUME TypeInv, Shown = Kept(file), LoopInv, ~Torn, EndField
    PROVE  Assigning'
<1> DEFINE kept == Kept(file)
           n == Len(elvec)
<1>1. /\ kept \in Seq(Strings) /\ Len(kept) = n /\ n \in Nat /\ DOMAIN kept = 1 .. n
      /\ \A k \in 1 .. n : Line(k) = kept[k]
      BY ShownIs
<1>2. Collecting /\ (ii <= n => First(Line(ii)) = ":")
      BY DEF EndField, IsText, InList, LoopInv
<1>3. /\ i' = ii /\ file' = file
      /\ IF ii = i + 1 THEN text' = text /\ rec' = rec
         ELSE text' = <<>> /\ rec' = [rec EXCEPT ![target] = text]
      BY DEF EndField, buffer
<1>4. /\ i \in 1 .. n /\ target \in Names /\ kept[i] = Id(target) /\ ii \in i + 1 .. n + 1
      /\ \A l \in i + 1 .. ii - 1 : ~IsMark(kept[l])
      /\ text = Collected(kept, i, ii) /\ rec = Upto(kept, i)
      BY <1>1, <1>2 DEF Collecting
<1> HIDE DEF kept, n
<1>5. i \in Nat /\ ii \in Nat /\ i <= ii /\ ii \in 1 .. n + 1
      BY <1>1, <1>4
<1>6. ii > n \/ IsMark(kept[ii])
  <2>1. ii <= n => ii \in 1 .. n
        BY <1>1, <1>5
  <2> QED BY <1>1, <1>2, <1>5, <2>1 DEF IsMark
<1>7. CASE ii = i + 1
  <2>1. text' = <<>>
        BY <1>3, <1>4, <1>5, <1>7, CollectedNone
  <2>2. ASSUME NEW f \in Names, NEW k \in Says(kept, f) PROVE k \in Nat /\ k # i
    <3>1. k \in 1 .. n /\ k < n /\ ~IsMark(kept[k + 1])
          BY <1>1 DEF Says
    <3> QED BY <1>1, <1>6, <1>7, <3>1
  <2>3. \A f \in Names : \A k \in Says(kept, f) : ~(i <= k /\ k < ii)
        BY <1>5, <1>7, <2>2
  <2>4. Upto(kept, ii) = Upto(kept, i)
        BY <1>5, <2>2, <2>3, UptoSkip
  <2> QED BY <1>1, <1>3, <1>4, <1>5, <1>7, <2>1, <2>4 DEF Assigning, kept
<1>8. CASE ii # i + 1
  <2>1. i + 1 \in i + 1 .. ii - 1 /\ i < n
        BY <1>1, <1>4, <1>5, <1>8
  <2>2. i \in Says(kept, target)
        BY <1>1, <1>4, <2>1 DEF Says
  <2>3. text = Section(kept, i)
        BY <1>1, <1>4, <1>6, SectionIs
  <2>4. Upto(kept, ii) = [Upto(kept, i) EXCEPT ![target] = Section(kept, i)]
        BY <1>1, <1>4, <2>2, UptoField
  <2> QED BY <1>1, <1>3, <1>4, <1>5, <1>8, <2>3, <2>4 DEF Assigning, kept
<1> QED BY <1>7, <1>8

-------------------------------------------------------------------------------
(***************************************************************************)
(* Each step preserves what is known of the file and of the list.          *)
(***************************************************************************)
Inv == TypeInv /\ BufferInv /\ TextInv /\ ListInv /\ LoopInv /\ EndInv

LEMMA SameFile ==
    ASSUME file' = file, size' = size
    PROVE  /\ BadText' <=> BadText
           /\ Torn' <=> Torn
           /\ TornAgain' <=> TornAgain
BY DEF BadText, Torn, TornAgain

LEMMA SameList ==
    ASSUME lines' = lines, elvec' = elvec, freed' = freed
    PROVE  Shown' = Shown /\ (Bad' <=> Bad)
BY DEF Shown, Line, Bad

(* What the second filter drops are the marks. *)
LEMMA TearIs ==
    ASSUME TypeInv, Shown = Kept(file), NEW n \in Nat \ {0}, n = Len(elvec),
           NEW track, track = {k \in 1 .. n : ~LineFilterAll(lines[elvec[k]])}
    PROVE  /\ Kept(file) # <<>>
           /\ Damages(LineFilterAll, Kept(file)) <=> Cardinality(track) >= 2 /\ n \notin track
           /\ HasText(file) <=> track # 1 .. n
<1> DEFINE kept == Kept(file)
<1>1. /\ Len(kept) = n /\ DOMAIN kept = 1 .. n
      /\ \A k \in 1 .. n : lines[elvec[k]] = kept[k] /\ LineFilter(kept[k])
      BY ShownIs DEF Line
<1> HIDE DEF kept
<1>2. n \in 1 .. n /\ kept # <<>>
  <2>1. n \in 1 .. n
        OBVIOUS
  <2> QED BY <1>1, <2>1
<1>3. {k \in DOMAIN kept : ~LineFilterAll(kept[k])} = track
      BY <1>1
<1>4. n \notin track <=> LineFilterAll(kept[Len(kept)])
      BY <1>1, <1>2
<1>5. Damages(LineFilterAll, kept) <=> Cardinality(track) >= 2 /\ n \notin track
  <2>1. Damages(LineFilterAll, kept) <=>
            /\ Cardinality({k \in DOMAIN kept : ~LineFilterAll(kept[k])}) >= 2
            /\ LineFilterAll(kept[Len(kept)])
        BY DEF Damages
  <2> QED BY <1>3, <1>4, <2>1
<1>6. \A k \in 1 .. n : IsMark(kept[k]) <=> k \in track
      BY <1>1 DEF IsMark, LineFilterAll
<1>7. (\E k \in DOMAIN kept : ~IsMark(kept[k])) <=> track # 1 .. n
      BY <1>1, <1>6
<1> QED BY <1>2, <1>5, <1>7 DEF kept, HasText

Early == {"format", "create", "edit", "seek", "fetch"}

LEMMA EarlyStep ==
    ASSUME TextInv,
           \/ FormatField \/ FormatMessage \/ WriteFails \/ WriteFile \/ Save \/ LeaveAsIs
           \/ OpenFails \/ EmptiedMeanwhile \/ ReadFails
    PROVE  TextInv' /\ ListInv' /\ LoopInv' /\ EndInv'
<1>1. /\ pc' \in {"format", "create", "edit", "seek", "fetch", "died"}
      /\ pc' = "fetch" => pc = "fetch" /\ size' = size
      /\ pc \in Early /\ freed' = freed
      BY DEF FormatField, FormatMessage, WriteFails, WriteFile, Save, LeaveAsIs, OpenFails,
             EmptiedMeanwhile, ReadFails, Die, list, Early
<1>2. TextInv'
      BY <1>1 DEF TextInv, Early, Read, Reading
<1>3. ListInv' /\ LoopInv' /\ EndInv'
      BY <1>1 DEF ListInv, LoopInv, EndInv, ReadsFile, UndefinedExactly, Reading
<1> QED BY <1>2, <1>3

(* EndInv in terms of what the filters do. *)
LEMMA EndIs ==
    ASSUME ReadsFile', pc' = "undefined" => BadText' \/ Torn' \/ TornAgain',
           pc' \in {"open", "missing", "aborted"} => ~BadText' /\ ~Torn' /\ ~TornAgain'
    PROVE  EndInv'
BY DEF EndInv, UndefinedExactly, BadText, Torn, TornAgain

(* A step that ends in undefined behaviour. *)
LEMMA UndefinedStep ==
    ASSUME pc' = "undefined", BadText' \/ Torn' \/ TornAgain'
    PROVE  TextInv' /\ ListInv' /\ LoopInv' /\ EndInv'
<1>1. TextInv' /\ ListInv' /\ LoopInv' /\ ReadsFile'
      BY DEF TextInv, ListInv, LoopInv, ReadsFile, Read, Reading
<1>2. EndInv'
      BY <1>1, EndIs
<1> QED BY <1>1, <1>2

LEMMA FetchStep ==
    ASSUME TypeInv, TextInv, SeekEnd \/ ReadLines
    PROVE  TextInv' /\ ListInv' /\ LoopInv' /\ EndInv'
<1>1. CASE pc' = "undefined"
  <2>1. CASE SeekEnd
    <3>1. size' = 0
          BY <1>1, <2>1 DEF SeekEnd
    <3>2. BadText'
          BY <3>1 DEF BadText
    <3> QED BY <1>1, <3>2, UndefinedStep
  <2>2. CASE ReadLines
    <3>1. (Len(file) < size \/ size > MaxIoSize) /\ file' = file /\ size' = size
          BY <1>1, <2>2 DEF ReadLines
    <3>2. BadText'
          BY <3>1 DEF BadText
    <3> QED BY <1>1, <3>2, UndefinedStep
  <2> QED BY <2>1, <2>2
<1>2. CASE SeekEnd /\ pc' # "undefined"
  <2>1. pc = "seek" /\ pc' = "fetch" /\ size' # 0 /\ freed' = freed
        BY <1>2 DEF SeekEnd, list
  <2> QED BY <2>1 DEF TextInv, ListInv, LoopInv, EndInv, ReadsFile, UndefinedExactly, Read, Reading
<1>3. CASE ReadLines /\ pc' # "undefined"
  <2>1. /\ pc = "fetch" /\ pc' = "filter" /\ ~(Len(file) < size \/ size > MaxIoSize)
        /\ lines' = Split(file) /\ elvec' = [k \in DOMAIN lines' |-> k] /\ freed' = freed
        /\ file' = file /\ size' = size
        BY <1>3 DEF ReadLines
  <2>2. size # 0 /\ freed = {}
        BY <2>1 DEF TextInv
  <2>3. ~BadText'
        BY <2>1, <2>2 DEF BadText
  <2>4. TextInv'
        BY <2>1, <2>2, <2>3 DEF TextInv
  <2>5. ListInv' /\ LoopInv' /\ EndInv'
        BY <2>1 DEF ListInv, LoopInv, EndInv, ReadsFile, UndefinedExactly, Reading
  <2> QED BY <2>4, <2>5
<1> QED BY <1>1, <1>2, <1>3

LEMMA FilterLinesStep ==
    ASSUME TypeInv, TextInv, FilterLines
    PROVE  TextInv' /\ ListInv' /\ LoopInv' /\ EndInv'
<1>1. /\ lines' = lines /\ pc' \in {"assign", "aborted"}
      /\ pc' = "assign" => /\ elvec' # <<>>
                           /\ Torn => Bad'
                           /\ ~Torn => ~Bad' /\ Shown' = Kept(file)
      /\ pc' = "aborted" => ~Torn /\ Kept(file) = <<>>
      BY FirstFilter
<1>2. file' = file /\ size' = size /\ i' = 1 /\ text' = <<>>
      /\ rec' = (IF pc' = "assign" THEN NoRecord ELSE rec)
      /\ pc = "filter"
      BY DEF FilterLines, Filter
<1>3. ~BadText /\ lines = Split(file)
      BY <1>2 DEF TextInv, Read
<1>4. (BadText' <=> BadText) /\ (Torn' <=> Torn) /\ (TornAgain' <=> TornAgain)
      BY <1>2, SameFile
<1>5. TextInv'
      BY <1>1, <1>2, <1>3, <1>4 DEF TextInv
<1>6. ListInv'
      BY <1>1, <1>2, <1>4 DEF ListInv, Reading
<1>7. LoopInv'
  <2>1. CASE pc' = "assign"
    <3>1. Kept(file) \in Seq(Strings)
          BY KeptLines DEF TypeInv
    <3>2. Len(Kept(file)) \in Nat
          BY <3>1, LenProperties
    <3>3. Upto(Kept(file), 1) = NoRecord
          BY <3>1, UptoFirst
    <3>4. Assigning'
          BY <1>2, <2>1, <3>2, <3>3 DEF Assigning
    <3> QED BY <2>1, <3>4 DEF LoopInv
  <2>2. CASE pc' = "aborted"
        BY <2>2 DEF LoopInv
  <2> QED BY <1>1, <2>1, <2>2
<1>8. EndInv'
  <2>1. CASE pc' = "assign"
        BY <2>1, EndIs DEF ReadsFile
  <2>2. CASE pc' = "aborted"
    <3>1. Kept(file) = <<>> /\ ~Torn
          BY <1>1, <2>2
    <3>2. ~HasText(file)
          BY <3>1 DEF HasText
    <3>3. ~TornAgain
          BY <3>1 DEF TornAgain
    <3>4. ReadsFile'
          BY <1>2, <2>2, <3>2 DEF ReadsFile
    <3> QED BY <1>3, <1>4, <2>2, <3>1, <3>3, <3>4, EndIs
  <2> QED BY <1>1, <2>1, <2>2
<1> QED BY <1>5, <1>6, <1>7, <1>8

(* The loops leave the file and the list alone. *)
LEMMA LoopStep ==
    ASSUME Inv, SkipLine \/ BeginField \/ AppendLine \/ EndField \/ CheckRecord
    PROVE  TextInv' /\ ListInv' /\ LoopInv' /\ EndInv'
<1>1. TypeInv /\ TextInv /\ ListInv /\ LoopInv
      BY DEF Inv
<1>2. /\ pc \in {"assign", "collect"} /\ pc' \in Reading
      /\ file' = file /\ size' = size /\ lines' = lines /\ elvec' = elvec /\ freed' = freed
      BY DEF SkipLine, BeginField, AppendLine, EndField, CheckRecord, IsText, list, Reading
<1>3. (BadText' <=> BadText) /\ (Torn' <=> Torn)
      BY <1>2, SameFile
<1>4. Shown' = Shown /\ (Bad' <=> Bad)
      BY <1>2, SameList
<1>5. TextInv'
      BY <1>1, <1>2, <1>3 DEF TextInv, Read, Reading
<1>6. ListInv'
      BY <1>1, <1>2, <1>3, <1>4 DEF ListInv, Reading
<1>7. EndInv'
      BY <1>2, EndIs DEF ReadsFile, Reading
<1>8. ASSUME ~Torn PROVE Shown = Kept(file)
      BY <1>1, <1>2, <1>8 DEF ListInv, Reading
<1>9. LoopInv'
  <2>1. CASE Torn
        BY <1>3, <2>1 DEF LoopInv
  <2>2. CASE ~Torn /\ (SkipLine \/ EndField)
    <3>1. Assigning' /\ pc' = "assign"
      <4>1. CASE SkipLine
        <5>1. Assigning'
              BY <1>1, <1>8, <2>2, <4>1, SkipStep
        <5> QED BY <4>1, <5>1 DEF SkipLine
      <4>2. CASE EndField
        <5>1. Assigning'
              BY <1>1, <1>8, <2>2, <4>2, EndStep
        <5> QED BY <4>2, <5>1 DEF EndField
      <4> QED BY <2>2, <4>1, <4>2
    <3> QED BY <3>1 DEF LoopInv
  <2>3. CASE ~Torn /\ (BeginField \/ AppendLine)
    <3>1. Collecting' /\ pc' = "collect"
      <4>1. CASE BeginField
        <5>1. Collecting'
              BY <1>1, <1>8, <2>3, <4>1, BeginStep
        <5> QED BY <4>1, <5>1 DEF BeginField
      <4>2. CASE AppendLine
        <5>1. Collecting'
              BY <1>1, <1>8, <2>3, <4>2, CollectStep
        <5> QED BY <4>2, <5>1 DEF AppendLine
      <4> QED BY <2>3, <4>1, <4>2
    <3> QED BY <3>1 DEF LoopInv
  <2>4. CASE ~Torn /\ CheckRecord
    <3>1. /\ pc = "assign" /\ ~(i <= Len(elvec)) /\ rec' = rec
          /\ pc' = IF IsIncompleteRecord(rec) THEN "filterall" ELSE "complete"
          BY <2>4 DEF CheckRecord, InList
    <3>2. Assigning
          BY <1>1, <2>4, <3>1 DEF LoopInv
    <3>3. Kept(file) \in Seq(Strings) /\ Len(Kept(file)) = Len(elvec) /\ Len(elvec) \in Nat
          BY <1>1, <1>8, <2>4, ShownIs
    <3>4. i = Len(Kept(file)) + 1
          BY <3>1, <3>2, <3>3 DEF Assigning
    <3>5. rec = MeaningOf(Kept(file))
          BY <3>2, <3>3, <3>4, UptoAll DEF Assigning
    <3>6. rec = Meaning(file)
          BY <3>5 DEF Meaning
    <3> QED BY <1>2, <3>1, <3>6 DEF LoopInv
  <2> QED BY <2>1, <2>2, <2>3, <2>4
<1> QED BY <1>5, <1>6, <1>7, <1>9

LEMMA FreedStep ==
    ASSUME Inv, ReadFreed
    PROVE  TextInv' /\ ListInv' /\ LoopInv' /\ EndInv'
<1>1. pc \in Reading /\ pc' = "undefined" /\ file' = file /\ size' = size
      BY DEF ReadFreed, Reading
<1>2. Bad
  <2>1. i \in Nat \ {0} /\ ii \in Nat \ {0} /\ DOMAIN elvec = 1 .. Len(elvec) /\ Len(elvec) \in Nat
        BY LenProperties DEF Inv, TypeInv
  <2>2. PICK k \in {i, ii} : k <= Len(elvec) /\ elvec[k] \in freed
        BY DEF ReadFreed, InList, IsReadable
  <2> QED BY <2>1, <2>2 DEF Bad, BadList
<1>3. Torn
      BY <1>1, <1>2 DEF Inv, ListInv
<1>4. Torn'
      BY <1>1, <1>3, SameFile
<1> QED BY <1>1, <1>4, UndefinedStep

LEMMA FilterAllStep ==
    ASSUME Inv, FilterAll
    PROVE  TextInv' /\ ListInv' /\ LoopInv' /\ EndInv'
<1> DEFINE n == Len(elvec)
           track == {k \in 1 .. n : ~LineFilterAll(lines[elvec[k]])}
           torn == Cardinality(track) >= 2 /\ n \notin track
<1>1. TypeInv /\ TextInv /\ ListInv /\ LoopInv
      BY DEF Inv
<1>2. pc = "filterall" /\ file' = file /\ size' = size
      BY DEF FilterAll
<1>3. n \in Nat \ {0}
  <2>1. elvec \in Seq(DOMAIN lines) /\ elvec # <<>>
        BY <1>1, <1>2 DEF TypeInv, ListInv, Reading
  <2> DEFINE D == DOMAIN lines
  <2>2. elvec \in Seq(D)
        BY <2>1
  <2> HIDE DEF D
  <2> QED BY <2>1, <2>2, EmptySeq, LenProperties
<1>4. /\ lines' = lines /\ pc' \in {"undefined", "aborted", "incomplete"}
      /\ pc' = "undefined" => Bad
      /\ pc' = "incomplete" => track # 1 .. n /\ (Bad' <=> Bad \/ torn)
      /\ pc' = "aborted" => ~Bad /\ track = 1 .. n
  <2> DEFINE m == n
  <2>1. m \in Nat \ {0} /\ m = Len(elvec) /\ track = {k \in 1 .. m : ~LineFilterAll(lines[elvec[k]])}
        BY <1>3
  <2> HIDE DEF n, track
  <2> QED BY <1>1, <2>1, SecondFilter DEF n
<1>5. (BadText' <=> BadText) /\ (Torn' <=> Torn) /\ (TornAgain' <=> TornAgain)
      BY <1>2, SameFile
<1>6. ~BadText /\ lines = Split(file) /\ (Torn => Bad) /\ (~Torn => ~Bad)
      BY <1>1, <1>2 DEF TextInv, ListInv, Read, Reading
<1>7. ASSUME ~Torn
      PROVE  /\ HasText(file) <=> track # 1 .. n
             /\ TornAgain <=> torn
             /\ IsIncompleteRecord(Meaning(file))
  <2>1. Shown = Kept(file) /\ IsIncompleteRecord(Meaning(file))
        BY <1>1, <1>2, <1>7 DEF ListInv, LoopInv, Reading
  <2>2. /\ Kept(file) # <<>>
        /\ HasText(file) <=> track # 1 .. n
        /\ Damages(LineFilterAll, Kept(file)) <=> torn
    <3>1. n = Len(elvec) /\ track = {k \in 1 .. n : ~LineFilterAll(lines[elvec[k]])}
          OBVIOUS
    <3> HIDE DEF n, track
    <3> QED BY <1>1, <1>3, <2>1, <3>1, TearIs
  <2> QED BY <2>1, <2>2 DEF TornAgain
<1>8. torn => n \notin track
      OBVIOUS
<1>9. track = 1 .. n => n \in track
      BY <1>3
<1> HIDE DEF n, track, torn
<1>10. CASE pc' = "undefined"
  <2>1. Torn'
        BY <1>4, <1>5, <1>6, <1>10
  <2> QED BY <1>10, <2>1, UndefinedStep
<1>11. CASE pc' = "incomplete"
  <2>1. TextInv'
        BY <1>2, <1>4, <1>5, <1>6, <1>11 DEF TextInv
  <2>2. ListInv'
    <3>1. CASE Torn
          BY <1>4, <1>5, <1>6, <1>11, <3>1 DEF ListInv, Reading
    <3>2. CASE ~Torn
          BY <1>2, <1>4, <1>5, <1>6, <1>7, <1>11, <3>2 DEF ListInv, Reading
    <3> QED BY <3>1, <3>2
  <2>3. LoopInv'
        BY <1>11 DEF LoopInv
  <2>4. EndInv'
        BY <1>11, EndIs DEF ReadsFile
  <2> QED BY <2>1, <2>2, <2>3, <2>4
<1>12. CASE pc' = "aborted"
  <2>1. ~Torn
        BY <1>4, <1>6, <1>12
  <2>2. ~HasText(file) /\ ~TornAgain
        BY <1>4, <1>7, <1>8, <1>9, <1>12, <2>1
  <2>3. TextInv'
        BY <1>2, <1>4, <1>5, <1>6, <1>12 DEF TextInv
  <2>4. ListInv' /\ LoopInv'
        BY <1>12 DEF ListInv, LoopInv, Reading
  <2>5. ReadsFile'
        BY <1>2, <1>12, <2>2 DEF ReadsFile
  <2>6. EndInv'
        BY <1>5, <1>6, <1>12, <2>1, <2>2, <2>5, EndIs
  <2> QED BY <2>3, <2>4, <2>6
<1> QED BY <1>4, <1>10, <1>11, <1>12

LEMMA DestroyStep ==
    ASSUME Inv, Destroy
    PROVE  TextInv' /\ ListInv' /\ LoopInv' /\ EndInv'
<1>1. TextInv /\ ListInv /\ LoopInv
      BY DEF Inv
<1>2. pc \in {"complete", "incomplete"} /\ file' = file /\ size' = size /\ rec' = rec
      /\ lines' = lines
      BY DEF Destroy, list
<1>3. pc' = IF Bad THEN "undefined" ELSE IF pc = "complete" THEN "open" ELSE "missing"
      BY DEF Destroy, IsReadable, Bad, BadList
<1>4. (BadText' <=> BadText) /\ (Torn' <=> Torn) /\ (TornAgain' <=> TornAgain)
      BY <1>2, SameFile
<1>5. ~BadText /\ lines = Split(file)
      BY <1>1, <1>2 DEF TextInv, Read, Reading
<1>6. CASE Bad
  <2>1. pc = "complete" => Torn
        BY <1>1, <1>6 DEF ListInv, Reading
  <2>2. pc = "incomplete" => Torn \/ TornAgain
        BY <1>1, <1>6 DEF ListInv
  <2>3. Torn' \/ TornAgain'
        BY <1>2, <1>4, <2>1, <2>2
  <2> QED BY <1>3, <1>6, <2>3, UndefinedStep
<1>7. CASE ~Bad
  <2>1. pc' \in {"open", "missing"}
        BY <1>3, <1>7
  <2>2. TextInv'
        BY <1>2, <1>4, <1>5, <2>1 DEF TextInv
  <2>3. ListInv' /\ LoopInv'
        BY <2>1 DEF ListInv, LoopInv, Reading
  <2>4. CASE pc = "complete"
    <3>1. ~Torn
          BY <1>1, <1>7, <2>4 DEF ListInv, Reading
    <3>2. rec = Meaning(file) /\ ~IsIncompleteRecord(rec)
          BY <1>1, <2>4, <3>1 DEF LoopInv
    <3>3. ~TornAgain
          BY <3>2 DEF TornAgain
    <3>4. pc' = "open"
          BY <1>3, <1>7, <2>4
    <3>5. ReadsFile'
          BY <1>2, <3>2, <3>4 DEF ReadsFile
    <3> QED BY <1>4, <1>5, <2>2, <2>3, <3>1, <3>3, <3>4, <3>5, EndIs
  <2>5. CASE pc = "incomplete"
    <3>1. ~Torn /\ ~TornAgain /\ HasText(file) /\ IsIncompleteRecord(Meaning(file))
          BY <1>1, <1>7, <2>5 DEF ListInv
    <3>2. pc' = "missing"
          BY <1>3, <1>7, <2>5
    <3>3. ReadsFile'
          BY <1>2, <3>1, <3>2 DEF ReadsFile
    <3> QED BY <1>4, <1>5, <2>2, <2>3, <3>1, <3>2, <3>3, EndIs
  <2> QED BY <1>2, <2>4, <2>5
<1> QED BY <1>6, <1>7

LEMMA InvInit == Init => Inv
<1> SUFFICES ASSUME Init PROVE Inv
    OBVIOUS
<1>1. pc = "format" /\ freed = {}
      BY DEF Init
<1>2. TypeInv /\ BufferInv
      BY TypeInit
<1>3. TextInv /\ ListInv /\ LoopInv /\ EndInv
      BY <1>1 DEF TextInv, ListInv, LoopInv, EndInv, ReadsFile, UndefinedExactly, Read, Reading
<1> QED BY <1>2, <1>3 DEF Inv

LEMMA InvStep == Inv /\ [Next]_vars => Inv'
<1> SUFFICES ASSUME Inv, [Next]_vars PROVE Inv'
    OBVIOUS
<1>1. TypeInv /\ BufferInv /\ TextInv /\ ListInv /\ LoopInv /\ EndInv
      BY DEF Inv
<1>2. TypeInv' /\ BufferInv'
      BY <1>1, TypeStep
<1>3. CASE \/ FormatField \/ FormatMessage \/ WriteFails \/ WriteFile \/ Save \/ LeaveAsIs
           \/ OpenFails \/ EmptiedMeanwhile \/ ReadFails
  <2>1. TextInv' /\ ListInv' /\ LoopInv' /\ EndInv'
        BY <1>1, <1>3, EarlyStep
  <2> QED BY <1>2, <2>1 DEF Inv
<1>4. CASE SeekEnd \/ ReadLines
  <2>1. TextInv' /\ ListInv' /\ LoopInv' /\ EndInv'
        BY <1>1, <1>4, FetchStep
  <2> QED BY <1>2, <2>1 DEF Inv
<1>5. CASE FilterLines
  <2>1. TextInv' /\ ListInv' /\ LoopInv' /\ EndInv'
        BY <1>1, <1>5, FilterLinesStep
  <2> QED BY <1>2, <2>1 DEF Inv
<1>6. CASE SkipLine \/ BeginField \/ AppendLine \/ EndField \/ CheckRecord
  <2>1. TextInv' /\ ListInv' /\ LoopInv' /\ EndInv'
        BY <1>6, LoopStep
  <2> QED BY <1>2, <2>1 DEF Inv
<1>7. CASE ReadFreed
  <2>1. TextInv' /\ ListInv' /\ LoopInv' /\ EndInv'
        BY <1>7, FreedStep
  <2> QED BY <1>2, <2>1 DEF Inv
<1>8. CASE FilterAll
  <2>1. TextInv' /\ ListInv' /\ LoopInv' /\ EndInv'
        BY <1>8, FilterAllStep
  <2> QED BY <1>2, <2>1 DEF Inv
<1>9. CASE Destroy
  <2>1. TextInv' /\ ListInv' /\ LoopInv' /\ EndInv'
        BY <1>9, DestroyStep
  <2> QED BY <1>2, <2>1 DEF Inv
<1>10. CASE UNCHANGED vars
  <2>1. /\ pc' = pc /\ rec' = rec /\ text' = text /\ file' = file /\ size' = size
        /\ lines' = lines /\ elvec' = elvec /\ freed' = freed
        /\ i' = i /\ ii' = ii /\ target' = target
        BY <1>10 DEF vars, buffer, list, loops
  <2>2. (BadText' <=> BadText) /\ (Torn' <=> Torn) /\ (TornAgain' <=> TornAgain)
        BY <2>1, SameFile
  <2>3. Shown' = Shown /\ (Bad' <=> Bad)
        BY <2>1, SameList
  <2>4. (Assigning' <=> Assigning) /\ (Collecting' <=> Collecting)
        BY <2>1 DEF Assigning, Collecting
  <2>5. TextInv'
        BY <1>1, <2>1, <2>2 DEF TextInv
  <2>6. ListInv'
        BY <1>1, <2>1, <2>2, <2>3 DEF ListInv
  <2>7. LoopInv'
        BY <1>1, <2>1, <2>2, <2>4 DEF LoopInv
  <2>8. ReadsFile'
        BY <1>1, <2>1 DEF EndInv, ReadsFile
  <2>9. UndefinedExactly
        BY <1>1 DEF EndInv
  <2>10. /\ pc = "undefined" => BadText \/ Torn \/ TornAgain
         /\ pc \in {"open", "missing", "aborted"} => ~BadText /\ ~Torn /\ ~TornAgain
        BY <2>9 DEF UndefinedExactly, BadText, Torn, TornAgain
  <2>11. EndInv'
        BY <2>1, <2>2, <2>8, <2>10, EndIs
  <2> QED BY <1>2, <2>5, <2>6, <2>7, <2>11 DEF Inv
<1> QED BY <1>3, <1>4, <1>5, <1>6, <1>7, <1>8, <1>9, <1>10 DEF Next

(* pk create takes a record from the record file only if it is complete and just
   as the text of the file says: the fields as they were typed in, whatever lines
   are filtered, skipped and joined on the way; it gives up as "aborted" only over
   a file without text, and as "missing" only over a text without a required
   field. *)
THEOREM FileIsReadRight == Spec => []ReadsFile
<1>1. Inv => ReadsFile
      BY DEF Inv, EndInv
<1> QED BY <1>1, InvInit, InvStep, PTL DEF Spec

(* The behaviour of read_record_file() is undefined over the texts that UndefinedExactly
   names and over no other one: no other text makes the filters keep a line that is
   freed or free one twice, and over those texts pk create never succeeds. *)
THEOREM UndefinedOnlyThere == Spec => []UndefinedExactly
<1>1. Inv => UndefinedExactly
      BY DEF Inv, EndInv
<1> QED BY <1>1, InvInit, InvStep, PTL DEF Spec
-------------------------------------------------------------------------------
(***************************************************************************)
(* How the lines of a text grow with it.                                   *)
(***************************************************************************)
LEMMA SeqInduction ==
    ASSUME NEW A, NEW S, <<>> \in S,
           \A u \in Seq(A) : \A c \in A : u \in S => Append(u, c) \in S
    PROVE  Seq(A) \subseteq S
<1> SUFFICES ASSUME Seq(A) \ S # {} PROVE FALSE
    OBVIOUS
<1> DEFINE T == {Len(u) : u \in Seq(A) \ S}
<1>1. T \subseteq Nat
      BY LenProperties
<1>2. PICK n \in T : \A m \in T : n <= m
  <2>1. T # {}
        OBVIOUS
  <2> HIDE DEF T
  <2> QED BY <1>1, <2>1, LeastNat
<1>3. PICK u \in Seq(A) \ S : n = Len(u)
      OBVIOUS
<1>4. u \in Seq(A) /\ u # <<>>
      OBVIOUS
<1>5. PICK s \in Seq(A), e \in A : u = Append(s, e)
      BY <1>4, SequenceEmptyOrAppend
<1>6. Len(u) = Len(s) + 1 /\ Len(s) \in Nat
      BY <1>5, AppendProperties, LenProperties
<1>7. Len(s) \notin T
  <2>1. n = Len(s) + 1 /\ ~(n <= Len(s))
        BY <1>3, <1>5, <1>6
  <2> HIDE DEF T
  <2> QED BY <1>2, <2>1
<1>8. s \in S
      BY <1>7
<1> QED BY <1>3, <1>5, <1>8

LEMMA SplitOne ==
    ASSUME NEW s \in Strings, NEW c \in Char
    PROVE  Split(Append(s, c)) = Put(Split(s), c)
<1> DEFINE n == Len(s)
           t == Append(s, c)
<1>1. /\ s \in Seq(Char) /\ t \in Seq(Char) /\ n \in Nat /\ Len(t) = n + 1 /\ t[n + 1] = c
      /\ \A k \in 1 .. n : t[k] = s[k]
      BY AppendProperties, LenProperties DEF Strings
<1> HIDE DEF t, n
<1>2. PICK G : Split(s) = G[n] /\ G[0] = << <<>> >> /\ \A k \in 1 .. n : G[k] = Put(G[k - 1], s[k])
      BY <1>1, SplitSteps DEF n
<1>3. PICK F : /\ Split(t) = F[Len(t)] /\ F[0] = << <<>> >>
               /\ \A k \in 1 .. Len(t) : F[k] = Put(F[k - 1], t[k])
      BY <1>1, SplitSteps
<1> DEFINE S == {k \in Nat : k <= n => F[k] = G[k]}
<1>4. 0 \in S
      BY <1>2, <1>3
<1>5. ASSUME NEW k \in Nat, k \in S
      PROVE  k + 1 \in S
  <2> SUFFICES ASSUME k + 1 <= n PROVE F[k + 1] = G[k + 1]
      OBVIOUS
  <2>1. k + 1 \in 1 .. n /\ k + 1 \in 1 .. Len(t) /\ (k + 1) - 1 = k /\ k <= n
        BY <1>1
  <2>2. F[k] = G[k] /\ t[k + 1] = s[k + 1]
        BY <1>1, <1>5, <2>1
  <2>3. F[k + 1] = Put(F[k], t[k + 1]) /\ G[k + 1] = Put(G[k], s[k + 1])
        BY <1>2, <1>3, <2>1
  <2> QED BY <2>2, <2>3
<1>6. n \in S
  <2> HIDE DEF S
  <2> QED BY <1>1, <1>4, <1>5, Induction
<1>7. F[n] = Split(s)
      BY <1>1, <1>2, <1>6
<1>8. n + 1 \in 1 .. Len(t) /\ (n + 1) - 1 = n
      BY <1>1
<1> QED BY <1>1, <1>3, <1>7, <1>8 DEF t

(* The lines of s are those of front, and last behind them. *)
SplitsInto(s, front, last) ==
    /\ front \in Seq(Strings) /\ last \in Strings
    /\ Split(s) = Append(front, last)

LEMMA SplitOfEmpty == SplitsInto(<<>>, <<>>, <<>>)
<1> DEFINE e == <<>>
<1>1. e \in Strings /\ e \in Seq(Strings) /\ e \in Seq(Char) /\ Len(e) = 0
      BY EmptySeq DEF Strings
<1>2. Split(e) = << e >>
      BY <1>1, SplitSteps
<1>3. Append(e, e) = << e >>
      OBVIOUS
<1> QED BY <1>1, <1>2, <1>3 DEF SplitsInto

LEMMA SplitPut ==
    ASSUME NEW s \in Strings, NEW front, NEW last, SplitsInto(s, front, last), NEW c \in Char
    PROVE  /\ c = NL => SplitsInto(Append(s, c), Append(front, last), <<>>)
           /\ c # NL => SplitsInto(Append(s, c), front, Append(last, c))
<1> DEFINE S == Strings
           strs == Append(front, last)
           n == Len(front)
           more == Append(last, c)
<1>1. front \in Seq(S) /\ last \in S /\ Split(s) = strs
      BY DEF SplitsInto
<1>2. more \in S /\ <<>> \in S
      BY <1>1, AppendProperties, EmptySeq DEF Strings
<1>3. Split(Append(s, c)) = Put(strs, c)
      BY <1>1, SplitOne
<1> HIDE DEF S
<1>4. /\ strs \in Seq(S) /\ Len(strs) = n + 1 /\ n \in Nat /\ strs[n + 1] = last
      /\ \A k \in 1 .. n : strs[k] = front[k]
      BY <1>1, AppendProperties, LenProperties
<1>5. CASE c = NL
      BY <1>2, <1>3, <1>4, <1>5 DEF Put, SplitsInto, S
<1>6. CASE c # NL
  <2> DEFINE new == [strs EXCEPT ![n + 1] = more]
             exp == Append(front, more)
  <2>1. Put(strs, c) = new
        BY <1>4, <1>6 DEF Put
  <2> HIDE DEF strs, more
  <2>2. /\ new \in Seq(S) /\ Len(new) = n + 1
        /\ \A j \in 1 .. n + 1 : new[j] = IF j = n + 1 THEN more ELSE strs[j]
    <3>1. n + 1 \in 1 .. Len(strs)
          BY <1>4
    <3> QED BY <1>2, <1>4, <3>1, ExceptSeq
  <2>3. /\ exp \in Seq(S) /\ Len(exp) = n + 1 /\ exp[n + 1] = more
        /\ \A k \in 1 .. n : exp[k] = front[k]
        BY <1>1, <1>2, AppendProperties
  <2>4. \A j \in 1 .. n + 1 : new[j] = exp[j]
    <3> TAKE j \in 1 .. n + 1
    <3>1. j = n + 1 \/ j \in 1 .. n
          BY <1>4
    <3>2. j \in 1 .. n => j # n + 1
          BY <1>4
    <3> HIDE DEF new, exp
    <3> QED BY <1>4, <2>2, <2>3, <3>1, <3>2
  <2>5. new = exp
    <3> HIDE DEF new, exp
    <3> QED BY <2>2, <2>3, <2>4, SeqEqual
  <2> QED BY <1>1, <1>2, <1>3, <1>6, <2>1, <2>5 DEF SplitsInto, more, S
<1> QED BY <1>5, <1>6

LEMMA Appended ==
    ASSUME NEW A, NEW s \in Seq(A), NEW t \in Seq(A), NEW c \in A
    PROVE  s \o Append(t, c) = Append(s \o t, c)
<1> DEFINE e == <<c>>
<1>1. e \in Seq(A)
      OBVIOUS
<1>2. Append(t, c) = t \o e /\ s \o t \in Seq(A)
      BY AppendIsConcat, ConcatProperties
<1>3. Append(s \o t, c) = (s \o t) \o e
      BY <1>2, AppendIsConcat
<1> HIDE DEF e
<1> QED BY <1>1, <1>2, <1>3, ConcatAssociative

LEMMA ConcatChars == \A s, t, u \in Seq(Char) : (s \o t) \o u = s \o (t \o u)
BY ConcatAssociative

LEMMA AppendedTexts ==
    \A s, t \in Seq(Strings), c \in Strings : s \o Append(t, c) = Append(s \o t, c)
BY Appended

(* A text behind a newline keeps its lines. *)
LEMMA SplitConcat ==
    ASSUME NEW s \in Strings, NEW front, SplitsInto(s, front, <<>>), NEW t \in Strings
    PROVE  \E more, last :
               /\ SplitsInto(t, more, last) /\ SplitsInto(s \o t, front \o more, last)
               /\ (\A k \in DOMAIN t : t[k] # NL) => more = <<>> /\ last = t
<1> DEFINE Grows(u) ==
               \E more, last :
                   /\ SplitsInto(u, more, last) /\ SplitsInto(s \o u, front \o more, last)
                   /\ (\A k \in DOMAIN u : u[k] # NL) => more = <<>> /\ last = u
           S == {u \in Strings : Grows(u)}
           e == <<>>
<1>1. s \in Seq(Char) /\ front \in Seq(Strings)
      BY DEF Strings, SplitsInto
<1>2. e \in S
  <2>1. s \o e = s /\ front \o e = front /\ e \in Strings
        BY <1>1, ConcatEmptySeq, EmptySeq DEF Strings
  <2>2. SplitsInto(e, e, e) /\ SplitsInto(s \o e, front \o e, e)
        BY <2>1, SplitOfEmpty
  <2> HIDE DEF e
  <2> QED BY <2>1, <2>2 DEF e
<1>3. ASSUME NEW u \in Seq(Char), NEW c \in Char, u \in S
      PROVE  Append(u, c) \in S
  <2>1. PICK more, last :
               /\ SplitsInto(u, more, last) /\ SplitsInto(s \o u, front \o more, last)
               /\ (\A k \in DOMAIN u : u[k] # NL) => more = <<>> /\ last = u
        BY <1>3
  <2>2. /\ u \in Strings /\ s \o u \in Strings /\ Append(u, c) \in Strings
        /\ s \o Append(u, c) = Append(s \o u, c)
        BY <1>1, Joined, Appended, AppendProperties DEF Strings
  <2>3. more \in Seq(Strings) /\ last \in Strings
        BY <2>1 DEF SplitsInto
  <2>4. /\ c = NL => SplitsInto(Append(u, c), Append(more, last), <<>>)
        /\ c # NL => SplitsInto(Append(u, c), more, Append(last, c))
        BY <2>1, <2>2, SplitPut
  <2>5. /\ c = NL => SplitsInto(Append(s \o u, c), Append(front \o more, last), <<>>)
        /\ c # NL => SplitsInto(Append(s \o u, c), front \o more, Append(last, c))
        BY <2>1, <2>2, SplitPut
  <2>6. front \o Append(more, last) = Append(front \o more, last)
        BY <1>1, <2>3, Appended
  <2>7. DOMAIN Append(u, c) = 1 .. Len(u) + 1 /\ DOMAIN u = 1 .. Len(u) /\ Len(u) \in Nat
        /\ Append(u, c)[Len(u) + 1] = c /\ \A k \in 1 .. Len(u) : Append(u, c)[k] = u[k]
        BY AppendProperties, LenProperties
  <2>8. ASSUME \A k \in DOMAIN Append(u, c) : Append(u, c)[k] # NL
        PROVE  c # NL /\ \A k \in DOMAIN u : u[k] # NL
    <3>1. Len(u) + 1 \in 1 .. Len(u) + 1 /\ \A k \in 1 .. Len(u) : k \in 1 .. Len(u) + 1
          BY <2>7
    <3> QED BY <2>7, <2>8, <3>1
  <2>9. Grows(Append(u, c))
    <3> HIDE DEF S
    <3>1. CASE c = NL
      <4>1. SplitsInto(Append(u, c), Append(more, last), <<>>)
            /\ SplitsInto(s \o Append(u, c), front \o Append(more, last), <<>>)
            BY <2>2, <2>4, <2>5, <2>6, <3>1
      <4> QED BY <2>8, <3>1, <4>1
    <3>2. CASE c # NL
      <4>1. SplitsInto(Append(u, c), more, Append(last, c))
            /\ SplitsInto(s \o Append(u, c), front \o more, Append(last, c))
            BY <2>2, <2>4, <2>5, <3>2
      <4>2. (\A k \in DOMAIN Append(u, c) : Append(u, c)[k] # NL)
                => more = <<>> /\ Append(last, c) = Append(u, c)
            BY <2>1, <2>8
      <4> QED BY <4>1, <4>2
    <3> QED BY <3>1, <3>2
  <2> QED BY <2>2, <2>9
<1>4. t \in S
  <2> HIDE DEF S
  <2>1. Seq(Char) \subseteq S
        BY <1>2, <1>3, SeqInduction
  <2> QED BY <2>1 DEF Strings
<1> QED BY <1>4

(* A line is added. *)
LEMMA SplitLine ==
    ASSUME NEW s \in Strings, NEW front, SplitsInto(s, front, <<>>),
           NEW line \in Strings, \A k \in DOMAIN line : line[k] # NL
    PROVE  SplitsInto(s \o line \o <<NL>>, Append(front, line), <<>>) /\ s \o line \o <<NL>> \in Strings
<1> DEFINE nl == NL
           nl1 == <<nl>>
<1>1. SplitsInto(s \o line, front, line)
  <2>1. PICK more, last :
            /\ SplitsInto(s \o line, front \o more, last)
            /\ more = <<>> /\ last = line
        BY SplitConcat
  <2>2. front \o <<>> = front
        BY ConcatEmptySeq DEF SplitsInto
  <2> QED BY <2>1, <2>2
<1>2. s \o line \in Strings /\ nl \in Char
      BY Joined, TextAssumption
<1>3. SplitsInto(Append(s \o line, nl), Append(front, line), <<>>)
      BY <1>1, <1>2, SplitPut
<1>4. Append(s \o line, nl) = s \o line \o nl1 /\ Append(s \o line, nl) \in Strings
  <2> HIDE DEF nl
  <2> QED BY <1>2, AppendIsConcat, AppendProperties DEF Strings
<1> QED BY <1>3, <1>4
-------------------------------------------------------------------------------
(***************************************************************************)
(* The lines that are kept, as lines are added.                            *)
(***************************************************************************)
KeptOf(strs) == Selected(strs, {k \in DOMAIN strs : LineFilter(strs[k])})

LEMMA KeptIs ==
    ASSUME NEW strs, NEW n \in Nat, DOMAIN strs = 1 .. n,
           NEW K, K = {k \in 1 .. n : LineFilter(strs[k])}
    PROVE  /\ K \in SUBSET (1 .. n)
           /\ KeptOf(strs) = [to \in 1 .. Cardinality(K) |-> strs[Places(K)[to]]]
<1>1. {k \in DOMAIN strs : LineFilter(strs[k])} = K
      OBVIOUS
<1>2. KeptOf(strs) = Selected(strs, K)
      BY <1>1 DEF KeptOf
<1> QED BY <1>2, SelectedPlaces

LEMMA KeptOfType ==
    ASSUME NEW strs \in Seq(Strings)
    PROVE  /\ KeptOf(strs) \in Seq(Strings)
           /\ \A k \in DOMAIN KeptOf(strs) : LineFilter(KeptOf(strs)[k])
<1> DEFINE n == Len(strs)
           K == {k \in 1 .. n : LineFilter(strs[k])}
           c == Cardinality(K)
           P == Places(K)
<1>1. n \in Nat /\ DOMAIN strs = 1 .. n
      BY LenProperties
<1>2. K \in SUBSET (1 .. n) /\ \A k \in K : k \in 1 .. n /\ LineFilter(strs[k])
      OBVIOUS
<1> HIDE DEF n
<1>3. KeptOf(strs) = [to \in 1 .. c |-> strs[P[to]]]
  <2>1. K = {k \in 1 .. n : LineFilter(strs[k])}
        OBVIOUS
  <2> HIDE DEF K
  <2> QED BY <1>1, <2>1, KeptIs
<1> HIDE DEF K
<1>4. P \in [1 .. c -> K] /\ c \in Nat
      BY <1>1, <1>2, PlacesOf, RankType
<1> HIDE DEF P, c
<1>5. ASSUME NEW to \in 1 .. c
      PROVE  strs[P[to]] \in Strings /\ LineFilter(strs[P[to]])
  <2>1. P[to] \in 1 .. n /\ LineFilter(strs[P[to]])
        BY <1>2, <1>4
  <2> QED BY <2>1, ElementOfSeq DEF n
<1>6. KeptOf(strs) \in [1 .. c -> Strings]
      BY <1>3, <1>5
<1>7. KeptOf(strs) \in Seq(Strings)
      BY <1>4, <1>6, SeqDef
<1> QED BY <1>3, <1>5, <1>7

LEMMA KeptOfMore ==
    ASSUME NEW strs \in Seq(Strings), NEW line \in Strings
    PROVE  KeptOf(Append(strs, line)) =
               IF LineFilter(line) THEN Append(KeptOf(strs), line) ELSE KeptOf(strs)
<1> DEFINE n == Len(strs)
           more == Append(strs, line)
           K == {k \in 1 .. n : LineFilter(strs[k])}
           L == {k \in 1 .. n + 1 : LineFilter(more[k])}
           c == Cardinality(K)
<1>1. /\ n \in Nat /\ DOMAIN strs = 1 .. n /\ DOMAIN more = 1 .. n + 1
      /\ more[n + 1] = line /\ \A k \in 1 .. n : more[k] = strs[k]
      /\ more \in Seq(Strings)
      BY AppendProperties, LenProperties
<1> HIDE DEF n, more
<1>2. K \in SUBSET (1 .. n) /\ KeptOf(strs) = [to \in 1 .. c |-> strs[Places(K)[to]]]
      BY <1>1, KeptIs
<1>3. n + 1 \in Nat /\ L \in SUBSET (1 .. n + 1)
      /\ KeptOf(more) = [to \in 1 .. Cardinality(L) |-> more[Places(L)[to]]]
  <2> DEFINE m == n + 1
  <2>1. m \in Nat /\ DOMAIN more = 1 .. m /\ L = {k \in 1 .. m : LineFilter(more[k])}
        BY <1>1
  <2> HIDE DEF L, m
  <2>2. L \in SUBSET (1 .. m)
        /\ KeptOf(more) = [to \in 1 .. Cardinality(L) |-> more[Places(L)[to]]]
        BY <2>1, KeptIs
  <2> QED BY <2>1, <2>2 DEF m
<1>4. \A k \in 1 .. n + 1 : k \in 1 .. n \/ k = n + 1
      BY <1>1
<1>5. \A k \in 1 .. n : k \in 1 .. n + 1
      BY <1>1
<1>6. /\ Places(K) \in [1 .. c -> K] /\ c \in Nat
      /\ \A to \in 1 .. c : Rank(K, Places(K)[to]) = to
      BY <1>1, <1>2, PlacesOf, RankType
<1>7. CASE ~LineFilter(line)
  <2>1. L = K
        BY <1>1, <1>4, <1>5, <1>7
  <2> HIDE DEF K, L, c
  <2>2. \A to \in 1 .. c : more[Places(K)[to]] = strs[Places(K)[to]]
        BY <1>1, <1>2, <1>6
  <2> QED BY <1>2, <1>3, <1>7, <2>1, <2>2 DEF c, more
<1>8. CASE LineFilter(line)
  <2>1. n + 1 \in 1 .. n + 1 /\ n + 1 \notin 1 .. n
        BY <1>1
  <2>2. L = K \cup {n + 1} /\ n + 1 \notin K
        BY <1>1, <1>4, <1>5, <1>8, <2>1
  <2> HIDE DEF K, L, c
  <2>3. Cardinality(L) = c + 1
    <3>1. IsFiniteSet(K)
          BY <1>1, <1>2, RankType
    <3> QED BY <2>2, <3>1, FS_AddElement DEF c
  <2>4. ASSUME NEW k \in K PROVE Rank(L, k) = Rank(K, k)
    <3>1. \A l \in L : l <= k => l # n + 1
          BY <1>1, <1>2
    <3>2. UpTo(L, k) = UpTo(K, k)
          BY <2>2, <3>1 DEF UpTo
    <3> QED BY <3>2 DEF Rank
  <2>5. /\ Places(L) \in [1 .. c + 1 -> L]
        /\ \A to \in 1 .. c + 1 : Rank(L, Places(L)[to]) = to
        /\ \A k \in L : Rank(L, k) \in 1 .. c + 1 /\ Places(L)[Rank(L, k)] = k
        BY <1>3, <2>3, PlacesOf
  <2>6. ASSUME NEW to \in 1 .. c PROVE Places(L)[to] = Places(K)[to]
    <3>1. Places(K)[to] \in K /\ Rank(K, Places(K)[to]) = to
          BY <1>6
    <3>2. Places(K)[to] \in L /\ Rank(L, Places(K)[to]) = to
          BY <2>2, <2>4, <3>1
    <3> QED BY <2>5, <3>2
  <2>7. Places(L)[c + 1] = n + 1
    <3>1. \A l \in L : l <= n + 1
          BY <1>1, <1>3
    <3>2. UpTo(L, n + 1) = L
          BY <3>1 DEF UpTo
    <3>3. Rank(L, n + 1) = c + 1
          BY <2>3, <3>2 DEF Rank
    <3> QED BY <2>2, <2>5, <3>3
  <2> DEFINE S == Strings
             kept == KeptOf(strs)
             all == Append(kept, line)
  <2>8. kept \in Seq(S) /\ KeptOf(more) \in Seq(S)
        BY <1>1, KeptOfType
  <2>9. Len(kept) = c /\ Len(KeptOf(more)) = c + 1
    <3>1. DOMAIN kept = 1 .. c /\ DOMAIN KeptOf(more) = 1 .. c + 1
          BY <1>2, <1>3, <2>3
    <3>2. c + 1 \in Nat
          BY <1>6
    <3> HIDE DEF kept
    <3> QED BY <1>6, <2>8, <3>1, <3>2, LenProperties
  <2>10. /\ all \in Seq(S) /\ Len(all) = c + 1 /\ all[c + 1] = line
         /\ \A to \in 1 .. c : all[to] = kept[to]
    <3> HIDE DEF kept
    <3> QED BY <2>8, <2>9, AppendProperties
  <2>11. \A to \in 1 .. c : kept[to] = strs[Places(K)[to]] /\ Places(K)[to] \in 1 .. n
         BY <1>2, <1>6
  <2>12. \A to \in 1 .. c + 1 : KeptOf(more)[to] = more[Places(L)[to]]
         BY <1>3, <2>3
  <2> HIDE DEF all, kept, S
  <2>13. \A to \in 1 .. c + 1 : KeptOf(more)[to] = all[to]
    <3> TAKE to \in 1 .. c + 1
    <3>1. to \in 1 .. c \/ to = c + 1
          BY <1>6
    <3> QED BY <1>1, <2>6, <2>7, <2>10, <2>11, <2>12, <3>1
  <2>14. KeptOf(more) = all
         BY <2>8, <2>9, <2>10, <2>13, SeqEqual
  <2> QED BY <1>8, <2>14 DEF all, kept, more
<1> QED BY <1>7, <1>8

LEMMA KeptOfSame ==
    ASSUME NEW strs \in Seq(Strings), NEW more \in Seq(Strings),
           \A k \in DOMAIN more : ~LineFilter(more[k])
    PROVE  KeptOf(strs \o more) = KeptOf(strs)
<1> DEFINE A == Strings
           S == {u \in Seq(A) : (\A k \in DOMAIN u : ~LineFilter(u[k]))
                                    => KeptOf(strs \o u) = KeptOf(strs)}
           e == <<>>
<1>1. e \in S
  <2>1. strs \o e = strs /\ e \in Seq(A)
        BY ConcatEmptySeq, EmptySeq
  <2> HIDE DEF A, e
  <2> QED BY <2>1
<1>2. ASSUME NEW u \in Seq(A), NEW c \in A, u \in S
      PROVE  Append(u, c) \in S
  <2>1. /\ Append(u, c) \in Seq(A) /\ strs \o Append(u, c) = Append(strs \o u, c)
        /\ strs \o u \in Seq(A)
        BY AppendProperties, Appended, ConcatProperties
  <2>2. DOMAIN Append(u, c) = 1 .. Len(u) + 1 /\ DOMAIN u = 1 .. Len(u) /\ Len(u) \in Nat
        /\ Append(u, c)[Len(u) + 1] = c /\ \A k \in 1 .. Len(u) : Append(u, c)[k] = u[k]
        BY AppendProperties, LenProperties
  <2>3. ASSUME \A k \in DOMAIN Append(u, c) : ~LineFilter(Append(u, c)[k])
        PROVE  KeptOf(strs \o Append(u, c)) = KeptOf(strs)
    <3>1. Len(u) + 1 \in 1 .. Len(u) + 1 /\ \A k \in 1 .. Len(u) : k \in 1 .. Len(u) + 1
          BY <2>2
    <3>2. ~LineFilter(c) /\ \A k \in DOMAIN u : ~LineFilter(u[k])
      <4> HIDE DEF S, A
      <4> QED BY <2>2, <2>3, <3>1
    <3>3. KeptOf(strs \o u) = KeptOf(strs)
          BY <1>2, <3>2
    <3>4. KeptOf(Append(strs \o u, c)) = KeptOf(strs \o u)
          BY <2>1, <3>2, KeptOfMore
    <3> QED BY <2>1, <3>3, <3>4
  <2> QED BY <2>1, <2>3
<1>3. more \in S
  <2> HIDE DEF S
  <2>1. Seq(A) \subseteq S
        BY <1>1, <1>2, SeqInduction
  <2> QED BY <2>1
<1> QED BY <1>3
-------------------------------------------------------------------------------
(***************************************************************************)
(* The template.                                                           *)
(***************************************************************************)
Plain == \A f \in Names : IsBlank(given[f]) \/ IsPlain(given[f])

(* Below a mark in kept is the value that was given, or nothing. *)
AsGiven(kept) ==
    \A f \in Names : \A k \in Says(kept, f) :
        /\ ~IsBlank(given[f]) /\ kept[k + 1] = given[f]
        /\ k + 2 > Len(kept) \/ IsMark(kept[k + 2])

(* kept has the first n fields. *)
Filled(kept, n) ==
    /\ AsGiven(kept)
    /\ \A j \in 1 .. n : ~IsBlank(given[Fields[j]]) => Says(kept, Fields[j]) # {}

LEMMA SaysMark ==
    ASSUME NEW kept \in Seq(Strings), NEW f \in Names, NEW g \in Names
    PROVE  Says(Append(kept, Id(f)), g) = Says(kept, g)
<1> DEFINE n == Len(kept)
           more == Append(kept, Id(f))
<1>1. Id(f) \in Strings
      BY FieldTypes
<1>2. /\ n \in Nat /\ DOMAIN kept = 1 .. n /\ DOMAIN more = 1 .. n + 1 /\ Len(more) = n + 1
      /\ more[n + 1] = Id(f) /\ \A k \in 1 .. n : more[k] = kept[k]
      BY <1>1, AppendProperties, LenProperties
<1> HIDE DEF more, n
<1>3. IsMark(more[n + 1])
      BY <1>2, IdIsMark
<1>4. ASSUME NEW k \in Says(more, g) PROVE k \in Says(kept, g)
  <2>1. k \in 1 .. n + 1 /\ k < n + 1 /\ more[k] = Id(g) /\ ~IsMark(more[k + 1])
        BY <1>2 DEF Says
  <2>2. k \in 1 .. n /\ k # n
        BY <1>2, <1>3, <2>1
  <2>3. k + 1 \in 1 .. n /\ k < n
        BY <1>2, <2>2
  <2> QED BY <1>2, <2>1, <2>2, <2>3 DEF Says, n
<1>5. ASSUME NEW k \in Says(kept, g) PROVE k \in Says(more, g)
  <2>1. k \in 1 .. n /\ k < n /\ kept[k] = Id(g) /\ ~IsMark(kept[k + 1])
        BY <1>2 DEF Says, n
  <2>2. k + 1 \in 1 .. n /\ k \in 1 .. n + 1 /\ k < n + 1
        BY <1>2, <2>1
  <2> QED BY <1>2, <2>1, <2>2 DEF Says
<1> QED BY <1>4, <1>5 DEF more

LEMMA SaysText ==
    ASSUME NEW kept \in Seq(Strings), NEW f \in Names, NEW line \in Strings, ~IsMark(line),
           NEW g \in Names
    PROVE  Says(Append(Append(kept, Id(f)), line), g) =
               Says(kept, g) \cup (IF g = f THEN {Len(kept) + 1} ELSE {})
<1> DEFINE n == Len(kept)
           mark == Append(kept, Id(f))
           more == Append(mark, line)
<1>1. Id(f) \in Strings
      BY FieldTypes
<1>2. /\ n \in Nat /\ DOMAIN mark = 1 .. n + 1 /\ Len(mark) = n + 1
      /\ mark[n + 1] = Id(f) /\ mark \in Seq(Strings)
      BY <1>1, AppendProperties, LenProperties
<1> HIDE DEF mark, n
<1>3. /\ DOMAIN more = 1 .. n + 2 /\ Len(more) = n + 2 /\ more[n + 2] = line
      /\ \A k \in 1 .. n + 1 : more[k] = mark[k]
  <2>1. /\ DOMAIN more = 1 .. Len(more) /\ Len(more) = (n + 1) + 1 /\ more[(n + 1) + 1] = line
        /\ \A k \in 1 .. n + 1 : more[k] = mark[k]
        BY <1>2, AppendProperties, LenProperties
  <2>2. (n + 1) + 1 = n + 2
        BY <1>2
  <2> QED BY <2>1, <2>2
<1> HIDE DEF more
<1>4. ASSUME NEW k \in Says(more, g) PROVE k \in Says(mark, g) \/ (k = n + 1 /\ g = f)
  <2>1. k \in 1 .. n + 2 /\ k < n + 2 /\ more[k] = Id(g) /\ ~IsMark(more[k + 1])
        BY <1>3 DEF Says
  <2>2. k \in 1 .. n + 1
        BY <1>2, <2>1
  <2>3. mark[k] = Id(g)
        BY <1>3, <2>1, <2>2
  <2>4. CASE k = n + 1
        BY <1>2, <2>3, <2>4, IdIsMark
  <2>5. CASE k # n + 1
    <3>1. k + 1 \in 1 .. n + 1 /\ k < n + 1
          BY <1>2, <2>2, <2>5
    <3> QED BY <1>2, <1>3, <2>1, <2>2, <2>3, <3>1 DEF Says
  <2> QED BY <2>4, <2>5
<1>5. ASSUME NEW k \in Says(mark, g) PROVE k \in Says(more, g)
  <2>1. k \in 1 .. n + 1 /\ k < n + 1 /\ mark[k] = Id(g) /\ ~IsMark(mark[k + 1])
        BY <1>2 DEF Says
  <2>2. k + 1 \in 1 .. n + 1 /\ k \in 1 .. n + 2 /\ k < n + 2
        BY <1>2, <2>1
  <2> QED BY <1>3, <2>1, <2>2 DEF Says
<1>6. ASSUME g = f PROVE n + 1 \in Says(more, g)
  <2>1. n + 1 \in 1 .. n + 1 /\ n + 1 \in 1 .. n + 2 /\ n + 1 < n + 2 /\ (n + 1) + 1 = n + 2
        BY <1>2
  <2> QED BY <1>2, <1>3, <1>6, <2>1 DEF Says
<1>7. Says(mark, g) = Says(kept, g)
      BY SaysMark DEF mark
<1>8. Says(more, g) = Says(mark, g) \cup (IF g = f THEN {n + 1} ELSE {})
      BY <1>4, <1>5, <1>6
<1> QED BY <1>7, <1>8 DEF more, mark, n

(* A field without a value. *)
LEMMA FilledMark ==
    ASSUME NEW kept \in Seq(Strings), NEW n \in 0 .. 7, Filled(kept, n),
           NEW f, f = Fields[n + 1], IsBlank(given[f])
    PROVE  Filled(Append(kept, Id(f)), n + 1)
<1> DEFINE m == Len(kept)
           more == Append(kept, Id(f))
<1>1. n + 1 \in 1 .. 8 /\ f \in Names
      BY FieldTypes
<1>2. Id(f) \in Strings
      BY <1>1, FieldTypes
<1>3. /\ m \in Nat /\ DOMAIN kept = 1 .. m /\ Len(more) = m + 1
      /\ more[m + 1] = Id(f) /\ \A k \in 1 .. m : more[k] = kept[k]
      BY <1>2, AppendProperties, LenProperties
<1>4. \A g \in Names : Says(more, g) = Says(kept, g)
      BY <1>1, SaysMark
<1> HIDE DEF more, m
<1>5. IsMark(more[m + 1])
      BY <1>1, <1>3, IdIsMark
<1>6. AsGiven(more)
  <2> SUFFICES ASSUME NEW g \in Names, NEW k \in Says(more, g)
               PROVE  /\ ~IsBlank(given[g]) /\ more[k + 1] = given[g]
                      /\ k + 2 > Len(more) \/ IsMark(more[k + 2])
      BY DEF AsGiven
  <2>1. k \in Says(kept, g)
        BY <1>4
  <2>2. k \in 1 .. m /\ k < m
        BY <1>3, <2>1 DEF Says, m
  <2>3. /\ ~IsBlank(given[g]) /\ kept[k + 1] = given[g]
        /\ k + 2 > m \/ IsMark(kept[k + 2])
        BY <2>1 DEF Filled, AsGiven, m
  <2>4. k + 1 \in 1 .. m /\ (k + 2 \in 1 .. m \/ k + 2 = m + 1)
        BY <1>3, <2>2
  <2>5. k + 2 \in 1 .. m => ~(k + 2 > m)
        BY <1>3
  <2> QED BY <1>3, <1>5, <2>3, <2>4, <2>5
<1>7. ASSUME NEW j \in 1 .. n + 1, ~IsBlank(given[Fields[j]])
      PROVE  Says(more, Fields[j]) # {}
  <2>1. j \in 1 .. n /\ j \in 1 .. 8
        BY <1>7
  <2>2. Fields[j] \in Names
        BY <2>1, FieldTypes
  <2> QED BY <1>4, <1>7, <2>1, <2>2 DEF Filled
<1> QED BY <1>6, <1>7 DEF Filled, more

(* A field with one. *)
LEMMA FilledText ==
    ASSUME NEW kept \in Seq(Strings), NEW n \in 0 .. 7, Filled(kept, n),
           NEW f, f = Fields[n + 1], NEW line, line = given[f],
           line \in Strings, ~IsBlank(line), ~IsMark(line)
    PROVE  Filled(Append(Append(kept, Id(f)), line), n + 1)
<1> DEFINE m == Len(kept)
           mark == Append(kept, Id(f))
           more == Append(mark, line)
<1>1. n + 1 \in 1 .. 8 /\ f \in Names
      BY FieldTypes
<1>2. Id(f) \in Strings
      BY <1>1, FieldTypes
<1>3. /\ m \in Nat /\ DOMAIN kept = 1 .. m /\ Len(mark) = m + 1 /\ mark \in Seq(Strings)
      /\ mark[m + 1] = Id(f) /\ \A k \in 1 .. m : mark[k] = kept[k]
      BY <1>2, AppendProperties, LenProperties
<1>4. \A g \in Names : Says(more, g) = Says(kept, g) \cup (IF g = f THEN {m + 1} ELSE {})
      BY <1>1, SaysText
<1> HIDE DEF mark, m
<1>5. Len(more) = m + 2 /\ more[m + 2] = line /\ \A k \in 1 .. m + 1 : more[k] = mark[k]
  <2>1. Len(more) = (m + 1) + 1 /\ more[(m + 1) + 1] = line /\ \A k \in 1 .. m + 1 : more[k] = mark[k]
        BY <1>3, AppendProperties
  <2>2. (m + 1) + 1 = m + 2
        BY <1>3
  <2> QED BY <2>1, <2>2
<1> HIDE DEF more
<1>6. IsMark(more[m + 1])
  <2>1. m + 1 \in 1 .. m + 1
        BY <1>3
  <2> QED BY <1>1, <1>3, <1>5, <2>1, IdIsMark
<1>7. AsGiven(more)
  <2> SUFFICES ASSUME NEW g \in Names, NEW k \in Says(more, g)
               PROVE  /\ ~IsBlank(given[g]) /\ more[k + 1] = given[g]
                      /\ k + 2 > Len(more) \/ IsMark(more[k + 2])
      BY DEF AsGiven
  <2>1. CASE k \in Says(kept, g)
    <3>1. k \in 1 .. m /\ k < m
          BY <1>3, <2>1 DEF Says, m
    <3>2. /\ ~IsBlank(given[g]) /\ kept[k + 1] = given[g]
          /\ k + 2 > m \/ IsMark(kept[k + 2])
          BY <2>1 DEF Filled, AsGiven, m
    <3>3. k + 1 \in 1 .. m /\ (k + 2 \in 1 .. m \/ k + 2 = m + 1) /\ \A l \in 1 .. m : l \in 1 .. m + 1
          BY <1>3, <3>1
    <3>4. k + 2 \in 1 .. m => ~(k + 2 > m)
          BY <1>3
    <3>5. more[k + 1] = kept[k + 1] /\ (k + 2 \in 1 .. m => more[k + 2] = kept[k + 2])
          BY <1>3, <1>5, <3>3
    <3> QED BY <1>6, <3>2, <3>3, <3>4, <3>5
  <2>2. CASE k \notin Says(kept, g)
    <3>1. g = f /\ k = m + 1
          BY <1>4, <2>2
    <3>2. k + 1 = m + 2 /\ k + 2 > m + 2
          BY <1>3, <3>1
    <3> QED BY <1>5, <3>1, <3>2
  <2> QED BY <2>1, <2>2
<1>8. ASSUME NEW j \in 1 .. n + 1, ~IsBlank(given[Fields[j]])
      PROVE  Says(more, Fields[j]) # {}
  <2>1. CASE j = n + 1
        BY <1>1, <1>4, <2>1
  <2>2. CASE j # n + 1
    <3>1. j \in 1 .. n /\ j \in 1 .. 8
          BY <2>2
    <3>2. Fields[j] \in Names
          BY <3>1, FieldTypes
    <3> QED BY <1>4, <1>8, <3>1, <3>2 DEF Filled
  <2> QED BY <2>1, <2>2
<1> QED BY <1>7, <1>8 DEF Filled, more, mark

(* What a whole template says. *)
LEMMA FilledMeaning ==
    ASSUME NEW kept \in Seq(Strings), Filled(kept, 8), Plain, NEW f \in Names
    PROVE  LastSection(kept, Says(kept, f)) = IF IsBlank(given[f]) THEN None ELSE given[f]
<1>1. CASE IsBlank(given[f])
  <2>1. Says(kept, f) = {}
        BY <1>1 DEF Filled, AsGiven
  <2> QED BY <1>1, <2>1 DEF LastSection
<1>2. CASE ~IsBlank(given[f])
  <2> DEFINE B == Says(kept, f)
             last == CHOOSE k \in B : \A l \in B : l <= k
             n == Len(kept)
  <2>1. n \in Nat /\ B \subseteq 1 .. n
        BY LenProperties DEF Says
  <2>2. B # {}
    <3>1. PICK j \in 1 .. 8 : f = Fields[j]
          BY FieldTypes DEF Names
    <3> QED BY <1>2, <3>1 DEF Filled
  <2>3. last \in B
    <3> HIDE DEF B, n
    <3>1. \E k \in B : \A l \in B : l <= k
      <4> DEFINE T == {m \in Nat : \A l \in B : l <= m}
      <4>1. n \in T
            BY <2>1
      <4>2. PICK m \in T : \A j \in T : m <= j
        <5> HIDE DEF T
        <5>1. T \subseteq Nat
              BY DEF T
        <5> QED BY <4>1, <5>1, LeastNat
      <4>3. m \in B
        <5>1. SUFFICES ASSUME m \notin B PROVE FALSE
              OBVIOUS
        <5>2. \A l \in B : l <= m - 1 /\ l \in 1 .. n
              BY <2>1, <5>1
        <5>3. m - 1 \in Nat /\ ~(m <= m - 1)
              BY <2>2, <5>2
        <5> QED BY <4>2, <5>2, <5>3
      <4> QED BY <4>3
    <3> QED BY <3>1
  <2>4. LastSection(kept, B) = Section(kept, last)
        BY <2>2 DEF LastSection
  <2>5. last \in 1 .. n /\ last < n /\ ~IsMark(kept[last + 1])
        BY <2>1, <2>3 DEF Says
  <2>6. kept[last + 1] = given[f] /\ (last + 2 > n \/ IsMark(kept[last + 2]))
    <3> HIDE DEF last
    <3> QED BY <2>3 DEF Filled, AsGiven
  <2> HIDE DEF last, n, B
  <2>7. /\ last \in Nat /\ last + 1 \in last + 1 .. n /\ last + 2 \in last + 1 .. n + 1
        /\ (last + 1) + 1 = last + 2 /\ last + 1 \in 1 .. n
        /\ \A l \in last + 1 .. (last + 2) - 1 : l = last + 1
        BY <2>1, <2>5
  <2>8. Section(kept, last) = Collected(kept, last, last + 2)
    <3>1. \A l \in last + 1 .. (last + 2) - 1 : ~IsMark(kept[l])
          BY <2>5, <2>7
    <3> QED BY <2>5, <2>6, <2>7, <3>1, SectionIs DEF n
  <2>9. Collected(kept, last, last + 2) = Collected(kept, last, last + 1) \o Said(kept[last + 1])
        BY <2>7, CollectedMore DEF n
  <2>10. Collected(kept, last, last + 1) = <<>>
        BY <2>7, CollectedNone
  <2>11. Said(kept[last + 1]) = given[f]
        BY <1>2, <2>6 DEF Said, Plain, IsPlain
  <2>12. given[f] \in Seq(Char)
    <3>1. kept[last + 1] \in Strings
          BY <2>7, ElementOfSeq DEF n
    <3> QED BY <2>6, <3>1 DEF Strings
  <2>13. <<>> \o given[f] = given[f]
        BY <2>12, ConcatEmptySeq
  <2> QED BY <1>2, <2>4, <2>8, <2>9, <2>10, <2>11, <2>13 DEF B
<1> QED BY <1>1, <1>2
-------------------------------------------------------------------------------
(***************************************************************************)
(* The values that were given, in the template and in the file.            *)
(***************************************************************************)
GivenInv ==
    /\ pc = "format" =>
           /\ rec = given /\ i \in 1 .. 9
           /\ Plain => \E front : SplitsInto(text, front, <<>>) /\ Filled(KeptOf(front), i - 1)
    /\ pc = "create" /\ Plain => Filled(Kept(text), 8)
    /\ pc \notin {"format", "create", "died"} /\ Plain /\ ~edited => Filled(Kept(file), 8)

LEMMA IdType ==
    ASSUME NEW f \in Names
    PROVE  /\ Id(f) \in Strings /\ \A k \in DOMAIN Id(f) : Id(f)[k] # NL
           /\ LineFilter(Id(f))
<1>1. Id(f) \in Strings
      BY FieldTypes
<1>2. DOMAIN Id(f) = 1 .. 3 /\ Id(f)[1] = ":" /\ Id(f)[2] = f /\ Id(f)[3] = ":"
      BY DEF Id
<1>3. f # NL
      BY DEF Names, Fields, NL
<1>4. \A k \in DOMAIN Id(f) : Id(f)[k] # NL
      BY <1>2, <1>3 DEF NL
<1>5. LineFilter(Id(f))
      BY IdIsMark DEF LineFilter
<1> QED BY <1>1, <1>4, <1>5

LEMMA EmptyLine ==
    /\ <<>> \in Strings /\ (\A k \in DOMAIN <<>> : <<>>[k] # NL) /\ ~LineFilter(<<>>)
    /\ \A s \in Strings : s \o <<>> = s
<1>1. <<>> \in Strings /\ DOMAIN <<>> = {}
      BY EmptySeq DEF Strings
<1>2. ~LineFilter(<<>>)
      BY DEF LineFilter, First
<1>3. \A s \in Strings : s \o <<>> = s
      BY ConcatEmptySeq DEF Strings
<1> QED BY <1>1, <1>2, <1>3

(* A line without anything. *)
LEMMA SplitBlank ==
    ASSUME NEW s \in Strings, NEW front, SplitsInto(s, front, <<>>)
    PROVE  /\ s \o <<NL>> \in Strings /\ SplitsInto(s \o <<NL>>, Append(front, <<>>), <<>>)
           /\ KeptOf(Append(front, <<>>)) = KeptOf(front)
<1> DEFINE e == <<>>
           nl1 == <<NL>>
<1>1. e \in Strings /\ (\A k \in DOMAIN e : e[k] # NL) /\ ~LineFilter(e) /\ s \o e = s
      BY EmptyLine
<1>2. SplitsInto(s, front, e) /\ front \in Seq(Strings)
      BY DEF SplitsInto
<1>3. KeptOf(Append(front, e)) = KeptOf(front)
      BY <1>1, <1>2, KeptOfMore
<1>4. SplitsInto(s \o e \o nl1, Append(front, e), <<>>) /\ s \o e \o nl1 \in Strings
      BY <1>1, SplitLine
<1> HIDE DEF nl1, e
<1>5. SplitsInto(s \o nl1, Append(front, e), <<>>) /\ s \o nl1 \in Strings
      BY <1>1, <1>4
<1> QED BY <1>3, <1>5 DEF nl1, e

(* format_recfile_content() *)
LEMMA TemplateStep ==
    ASSUME TypeInv, GivenInv, FormatField
    PROVE  GivenInv'
<1> DEFINE f == Fields[i]
           id == Id(f)
           val == given[f]
           nl1 == <<NL>>
           nl2 == <<NL, NL>>
           nl3 == <<NL, NL, NL>>
           n == i - 1
<1>1. pc = "format" /\ pc' = "format" /\ rec' = rec /\ given' = given /\ i' = i + 1 /\ i <= Len(Fields)
      BY DEF FormatField
<1>2. rec = given /\ i \in 1 .. 9
      BY <1>1 DEF GivenInv
<1>3. i \in 1 .. 8 /\ n \in 0 .. 7 /\ f = Fields[n + 1] /\ n + 1 = i' - 1 /\ i' \in 1 .. 9
      BY <1>1, <1>2, FieldTypes
<1>4. f \in Names
      BY <1>3, FieldTypes
<1>5. /\ IsBlank(val) => text' = text \o id \o nl3
      /\ ~IsBlank(val) => text' = text \o id \o nl1 \o val \o nl2
      BY <1>2 DEF FormatField
<1>6. val \in {None} \cup Strings /\ text \in Strings
      BY <1>2, <1>4 DEF TypeInv
<1>7. id \in Strings /\ (\A k \in DOMAIN id : id[k] # NL) /\ LineFilter(id)
      BY <1>4, IdType
<1>8. nl1 \in Strings /\ nl2 = nl1 \o nl1 /\ nl3 = (nl1 \o nl1) \o nl1 /\ nl1 \o nl1 \in Strings
      /\ nl1 \in Seq(Char) /\ nl1 \o nl1 \in Seq(Char)
      BY Newlines, Joined DEF Strings
<1>9. Plain' <=> Plain
      BY <1>1 DEF Plain
<1>10. ASSUME Plain
       PROVE  \E front : SplitsInto(text', front, <<>>) /\ Filled(KeptOf(front), n + 1)
  <2>1. PICK front : SplitsInto(text, front, <<>>) /\ Filled(KeptOf(front), n)
        BY <1>1, <1>10 DEF GivenInv
  <2>2. front \in Seq(Strings)
        BY <2>1 DEF SplitsInto
  <2> DEFINE u == text \o id \o nl1
             up == Append(front, id)
  <2>3. SplitsInto(u, up, <<>>) /\ u \in Strings
        BY <1>6, <1>7, <2>1, SplitLine
  <2>4. KeptOf(up) = Append(KeptOf(front), id) /\ KeptOf(front) \in Seq(Strings) /\ up \in Seq(Strings)
        BY <1>7, <2>2, KeptOfMore, KeptOfType, AppendProperties
  <2> HIDE DEF id, nl1, nl2, nl3, n, f, val
  <2>5. CASE IsBlank(val)
    <3> DEFINE v == u \o nl1
    <3>1. text' = v \o nl1
      <4> DEFINE t == text \o id
      <4>1. t \in Seq(Char) /\ u = t \o nl1
            BY <1>6, <1>7, Joined DEF Strings
      <4>2. text' = t \o ((nl1 \o nl1) \o nl1)
            BY <1>5, <1>8, <2>5
      <4> DEFINE nl11 == nl1 \o nl1
      <4>3. text' = (t \o nl11) \o nl1
        <5> HIDE DEF nl11, t, u
        <5>1. nl11 \in Seq(Char) /\ text' = t \o (nl11 \o nl1)
              BY <1>8, <4>2 DEF nl11
        <5>2. t \in Seq(Char) /\ nl1 \in Seq(Char) /\ nl11 \in Seq(Char)
              BY <1>8, <4>1, <5>1
        <5>3. (t \o nl11) \o nl1 = t \o (nl11 \o nl1)
              BY <5>2, ConcatChars
        <5> QED BY <5>1, <5>3
      <4> HIDE DEF t, u
      <4>4. t \o (nl1 \o nl1) = (t \o nl1) \o nl1
            BY <1>8, <4>1, ConcatChars
      <4> QED BY <4>1, <4>3, <4>4
    <3> HIDE DEF u, up
    <3>2. /\ v \in Strings /\ SplitsInto(v, Append(up, <<>>), <<>>)
          /\ KeptOf(Append(up, <<>>)) = KeptOf(up)
          BY <2>3, SplitBlank DEF nl1
    <3> HIDE DEF v
    <3>3. /\ SplitsInto(v \o nl1, Append(Append(up, <<>>), <<>>), <<>>)
          /\ KeptOf(Append(Append(up, <<>>), <<>>)) = KeptOf(Append(up, <<>>))
          BY <3>2, SplitBlank DEF nl1
    <3>4. Filled(Append(KeptOf(front), Id(f)), n + 1)
          BY <1>3, <2>1, <2>4, <2>5, FilledMark DEF val
    <3> QED BY <2>4, <3>1, <3>2, <3>3, <3>4 DEF id
  <2>6. CASE ~IsBlank(val)
    <3> DEFINE v == u \o val \o nl1
               vp == Append(up, val)
    <3>1. val \in Strings /\ (\A k \in DOMAIN val : val[k] # NL) /\ ~IsMark(val)
          /\ First(val) # "" /\ LineFilter(val)
      <4>1. IsPlain(val) /\ val # None
            BY <1>4, <1>10, <2>6 DEF Plain, val, IsBlank
      <4>2. val \in Strings /\ val # <<>>
        <5>1. DOMAIN <<>> = {}
              OBVIOUS
        <5> QED BY <1>6, <2>6, <4>1, <5>1 DEF IsBlank
      <4>3. val[1] \in Char
        <5>1. val \in Seq(Char)
              BY <4>2 DEF Strings
        <5>2. Len(val) \in Nat \ {0}
              BY <4>2, <5>1, EmptySeq
        <5>3. 1 \in 1 .. Len(val)
              BY <5>2
        <5> QED BY <5>1, <5>3, ElementOfSeq
      <4>4. First(val) # ""
            BY <4>2, <4>3, TextAssumption DEF First
      <4> QED BY <4>1, <4>2, <4>4 DEF IsPlain, IsMark, LineFilter
    <3>2. text' = v \o nl1
      <4>1. text' = (u \o val) \o (nl1 \o nl1)
            BY <1>5, <1>8, <2>6
      <4> HIDE DEF u
      <4>2. u \o val \in Seq(Char)
            BY <2>3, <3>1, Joined DEF Strings
      <4> DEFINE t == u \o val
      <4> HIDE DEF t
      <4>3. t \in Seq(Char) /\ text' = t \o (nl1 \o nl1) /\ v = t \o nl1
            BY <4>1, <4>2 DEF t
      <4>4. nl1 \in Seq(Char)
            BY <1>8
      <4>5. (t \o nl1) \o nl1 = t \o (nl1 \o nl1)
            BY <4>3, <4>4, ConcatChars
      <4> QED BY <4>3, <4>5
    <3> HIDE DEF u, up
    <3>3. v \in Strings /\ SplitsInto(v, vp, <<>>)
          BY <2>3, <3>1, SplitLine DEF nl1
    <3>4. KeptOf(vp) = Append(KeptOf(up), val)
          BY <2>4, <3>1, KeptOfMore
    <3> HIDE DEF v, vp
    <3>5. /\ SplitsInto(v \o nl1, Append(vp, <<>>), <<>>)
          /\ KeptOf(Append(vp, <<>>)) = KeptOf(vp)
          BY <3>3, SplitBlank DEF nl1
    <3>6. Filled(Append(Append(KeptOf(front), Id(f)), val), n + 1)
          BY <1>3, <2>1, <2>4, <2>6, <3>1, FilledText DEF val
    <3> QED BY <2>4, <3>2, <3>4, <3>5, <3>6 DEF id
  <2> QED BY <2>5, <2>6
<1> HIDE DEF n
<1>11. Plain => (\E front : SplitsInto(text, front, <<>>) /\ Filled(KeptOf(front), i - 1))'
  <2>1. ASSUME NEW front, Filled(KeptOf(front), i' - 1)
        PROVE  Filled(KeptOf(front), i - 1)'
        BY <1>1, <2>1 DEF Filled, AsGiven
  <2> QED BY <1>3, <1>10, <2>1
<1> QED BY <1>1, <1>2, <1>3, <1>9, <1>11 DEF GivenInv

LEMMA MessageStep ==
    ASSUME TypeInv, GivenInv, FormatMessage
    PROVE  GivenInv'
<1>1. pc = "format" /\ pc' = "create" /\ given' = given /\ i = 9
      BY FieldTypes DEF FormatMessage
<1>2. text' = text \o Message \o <<NL>>
      BY DEF FormatMessage
<1>3. text \in Strings /\ Message \in Strings /\ NL \in Char
      BY TextAssumption DEF TypeInv
<1>4. ASSUME Plain PROVE Filled(Kept(text'), 8)
  <2>1. PICK front : SplitsInto(text, front, <<>>) /\ Filled(KeptOf(front), 8)
        BY <1>1, <1>4 DEF GivenInv
  <2>2. PICK more, last : /\ SplitsInto(Message, more, last)
                          /\ SplitsInto(text \o Message, front \o more, last)
        BY <1>3, <2>1, SplitConcat
  <2> DEFINE all == text \o Message
             lines0 == Append(more, last)
             e == <<>>
             nl == NL
             nl1 == <<nl>>
  <2>3. all \in Strings /\ all \in Seq(Char) /\ nl \in Char
        BY <1>3, Joined DEF Strings
  <2>4. more \in Seq(Strings) /\ last \in Strings /\ Split(Message) = lines0 /\ front \in Seq(Strings)
        BY <2>1, <2>2 DEF SplitsInto
  <2>5. SplitsInto(Append(all, nl), Append(front \o more, last), e)
        BY <2>2, <2>3, SplitPut
  <2>6. Append(front \o more, last) = front \o lines0 /\ lines0 \in Seq(Strings)
    <3> DEFINE S == Strings
    <3> HIDE DEF S
    <3>1. front \in Seq(S) /\ more \in Seq(S) /\ last \in S
          BY <2>4 DEF S
    <3>2. Append(front \o more, last) = front \o Append(more, last)
          BY <3>1, AppendedTexts DEF S
    <3>3. Append(more, last) \in Seq(S)
          BY <3>1, AppendProperties
    <3> QED BY <3>2, <3>3 DEF S
  <2>7. text' = Append(all, nl)
    <3>1. text' = all \o nl1
          BY <1>2
    <3> HIDE DEF all, nl
    <3> QED BY <2>3, <3>1, AppendIsConcat
  <2>8. KeptOf(front \o lines0) = KeptOf(front)
    <3>1. \A k \in DOMAIN lines0 : ~LineFilter(lines0[k])
          BY <2>4, MessageAssumption
    <3> HIDE DEF lines0
    <3> QED BY <2>4, <2>6, <3>1, KeptOfSame
  <2>9. Split(text') = Append(front \o lines0, e) /\ front \o lines0 \in Seq(Strings)
    <3> HIDE DEF lines0, all, e
    <3> QED BY <2>4, <2>5, <2>6, <2>7, ConcatProperties DEF SplitsInto
  <2>10. e \in Strings /\ ~LineFilter(e)
         BY EmptyLine
  <2>11. Kept(text') = KeptOf(Split(text'))
         BY DEF Kept, KeptOf
  <2> HIDE DEF lines0, e
  <2>12. KeptOf(Append(front \o lines0, e)) = KeptOf(front \o lines0)
         BY <2>9, <2>10, KeptOfMore
  <2> QED BY <2>1, <2>8, <2>9, <2>11, <2>12
<1>5. (Plain' <=> Plain) /\ (Filled(Kept(text), 8)' <=> Filled(Kept(text'), 8))
      BY <1>1 DEF Plain, Filled, AsGiven
<1> QED BY <1>1, <1>4, <1>5 DEF GivenInv

LEMMA GivenInit == Init => GivenInv
<1> SUFFICES ASSUME Init PROVE GivenInv
    OBVIOUS
<1> DEFINE e == <<>>
<1>1. pc = "format" /\ rec = given /\ i = 1 /\ text = e
      BY DEF Init
<1>2. SplitsInto(e, e, e) /\ e \in Seq(Strings)
      BY SplitOfEmpty, EmptySeq
<1>3. DOMAIN e = 1 .. 0 /\ Len(e) = 0
      OBVIOUS
<1> HIDE DEF e
<1>4. KeptOf(e) = e
  <2>1. \A k \in {} : k \in 1 .. 0
        OBVIOUS
  <2>2. {} = {k \in 1 .. 0 : LineFilter(e[k])}
        OBVIOUS
  <2>3. KeptOf(e) = [to \in 1 .. Cardinality({}) |-> e[Places({})[to]]]
        BY <1>3, <2>2, KeptIs
  <2>4. Cardinality({}) = 0
        BY FS_EmptySet
  <2> QED BY <2>3, <2>4 DEF e
<1>5. \A f \in Names : Says(e, f) = {}
      BY <1>3 DEF Says
<1>6. Filled(e, 0)
      BY <1>5 DEF Filled, AsGiven
<1> QED BY <1>1, <1>2, <1>4, <1>6 DEF GivenInv, e

LEMMA GivenStep ==
    ASSUME TypeInv, GivenInv, [Next]_vars
    PROVE  GivenInv'
<1>1. CASE FormatField
      BY <1>1, TemplateStep
<1>2. CASE FormatMessage
      BY <1>2, MessageStep
<1>3. CASE WriteFile
  <2>1. pc = "create" /\ pc' = "edit" /\ file' = text /\ given' = given /\ edited' = edited
        BY <1>3 DEF WriteFile
  <2>2. (Plain' <=> Plain) /\ (Filled(Kept(file), 8)' <=> Filled(Kept(text), 8))
        BY <2>1 DEF Plain, Filled, AsGiven
  <2> QED BY <2>1, <2>2 DEF GivenInv
<1>4. CASE WriteFails \/ OpenFails \/ ReadFails
  <2>1. pc' = "died"
        BY <1>4 DEF WriteFails, OpenFails, ReadFails, Die
  <2> QED BY <2>1 DEF GivenInv
<1>5. CASE Save \/ EmptiedMeanwhile
  <2>1. edited' /\ pc' \notin {"format", "create"}
        BY <1>5 DEF Save, EmptiedMeanwhile
  <2> QED BY <2>1 DEF GivenInv
<1>6. CASE \/ LeaveAsIs \/ SeekEnd \/ ReadLines \/ FilterLines \/ ReadFreed \/ SkipLine \/ BeginField
           \/ AppendLine \/ EndField \/ CheckRecord \/ FilterAll \/ Destroy
  <2>1. /\ pc \notin {"format", "create", "died"} /\ pc' \notin {"format", "create", "died"}
        /\ file' = file /\ given' = given /\ edited' = edited
        BY <1>6 DEF LeaveAsIs, SeekEnd, ReadLines, FilterLines, ReadFreed, SkipLine, BeginField,
                    AppendLine, EndField, CheckRecord, FilterAll, Destroy, Filter
  <2>2. (Plain' <=> Plain) /\ (Filled(Kept(file), 8)' <=> Filled(Kept(file), 8))
        BY <2>1 DEF Plain, Filled, AsGiven
  <2> QED BY <2>1, <2>2 DEF GivenInv
<1>7. CASE UNCHANGED vars
      BY <1>7 DEF vars, buffer, list, loops, GivenInv, Plain, Filled, AsGiven
<1> QED BY <1>1, <1>2, <1>3, <1>4, <1>5, <1>6, <1>7 DEF Next

(* What is given on the command line and left alone in the editor is what is stored: the
   template, the split, the filter and the assignment give back each plain value as it
   was, and nothing for a blank one. *)
THEOREM UneditedValuesKept == Spec => []UneditedKept
<1>1. ASSUME Inv, GivenInv PROVE UneditedKept
  <2> SUFFICES ASSUME pc = "open", ~edited, Plain, NEW f \in Names
               PROVE  rec[f] = IF IsBlank(given[f]) THEN None ELSE given[f]
      BY DEF UneditedKept, Plain
  <2>1. Filled(Kept(file), 8)
        BY <1>1 DEF GivenInv
  <2>2. rec = Meaning(file) /\ file \in Strings
        BY <1>1 DEF Inv, EndInv, ReadsFile, TypeInv
  <2>3. rec[f] = LastSection(Kept(file), Says(Kept(file), f))
        BY <2>2 DEF Meaning, MeaningOf
  <2>4. Kept(file) \in Seq(Strings)
        BY <2>2, KeptLines
  <2> QED BY <2>1, <2>3, <2>4, FilledMeaning
<1>2. Init => Inv /\ GivenInv
      BY InvInit, GivenInit
<1>3. Inv /\ GivenInv /\ [Next]_vars => (Inv /\ GivenInv)'
      BY InvStep, GivenStep DEF Inv
<1> QED BY <1>1, <1>2, <1>3, PTL DEF Spec
===============================================================================
