-------------------------------- MODULE Similar --------------------------------
(***************************************************************************)
(* get_approximate_command() of src/command.c: the commands a word may     *)
(* have been meant for, by the weighted distance of src/levenshtein.c and  *)
(* the merge sort of src/sort.c.  A spelling is a sequence of letters, and *)
(* an element of the string list is a record of its str and its ext.       *)
(***************************************************************************)
EXTENDS Naturals, Sequences, SequencesExt

LeastOf(S) == CHOOSE x \in S : \A y \in S : x <= y

(* starts_with() *)
StartsWith(str, prefix) == IsPrefix(prefix, str)

Insertion     == 1
Deletion      == 3
Substitution  == 2
Transposition == 0

(* Mutant: a deletion is as cheap as an insertion. *)
NextRow_CheapDeletion(s, t, i, v9, v0) ==
    LET v1[j \in 0 .. Len(t)] ==
          IF j = 0 THEN i * Deletion
          ELSE LeastOf({v0[j - 1] + (IF s[i] = t[j] THEN 0 ELSE Substitution),
                        v0[j] + Insertion, v1[j - 1] + Insertion})
    IN  v1

(* The row of the first i letters of s, from the two rows above it. *)
NextRow(s, t, i, v9, v0) ==
    LET Swapped(j) == i > 1 /\ j > 1 /\ s[i - 1] = t[j] /\ s[i] = t[j - 1]
        v1[j \in 0 .. Len(t)] ==
          IF j = 0 THEN i * Deletion
          ELSE LeastOf({v0[j - 1] + (IF s[i] = t[j] THEN 0 ELSE Substitution),
                        v0[j] + Deletion, v1[j - 1] + Insertion}
                       \cup (IF Swapped(j) THEN {v9[j - 2] + Transposition} ELSE {}))
    IN  v1

(* levenshtein_w() *)
Levenshtein(s, t) ==
    LET first == [j \in 0 .. Len(t) |-> j * Insertion]
        rows[i \in 0 .. Len(s)] ==
          IF i = 0 THEN [v9 |-> first, v0 |-> first]
          ELSE LET above == rows[i - 1]
               IN  [v9 |-> above.v0, v0 |-> NextRow(s, t, i, above.v9, above.v0)]
    IN  rows[Len(s)].v0[Len(t)]
-------------------------------------------------------------------------------
(* What is merged of al from its element at[1] on and of ar from its at[2] on. *)
Merge(al, ar) ==
    LET merged[at \in (1 .. Len(al) + 1) \X (1 .. Len(ar) + 1)] ==
          LET l == at[1]
              r == at[2]
          IN  IF l > Len(al) THEN SubSeq(ar, r, Len(ar))
              ELSE IF r > Len(ar) THEN SubSeq(al, l, Len(al))
              ELSE IF al[l].ext > ar[r].ext THEN <<ar[r]>> \o merged[<<l, r + 1>>]
              ELSE <<al[l]>> \o merged[<<l + 1, r>>]
    IN  merged[<<1, 1>>]

(* merge_sort() with command_distance_compar(), of the run[2] elements from run[1] on *)
MergeSort(array) ==
    LET runs == {run \in (1 .. Len(array) + 1) \X (0 .. Len(array)) :
                    run[1] + run[2] <= Len(array) + 1}
        sorted[run \in runs] ==
          LET first == run[1]
              n     == run[2]
              nl    == n \div 2
          IN  IF n <= 1 THEN SubSeq(array, first, first + n - 1)
              ELSE Merge(sorted[<<first, nl>>], sorted[<<first + nl, n - nl>>])
    IN  sorted[<<1, Len(array)>>]

MostListed == 7
TooFar     == 5

(* How many elements there are before the first one that has another ext. *)
CountAlike(sl, ext) ==
    CHOOSE i \in 0 .. Len(sl) : /\ \A k \in 1 .. i : sl[k].ext = ext
                                /\ i = Len(sl) \/ sl[i + 1].ext # ext

Distance(cmd, str) == IF StartsWith(str, cmd) THEN 0 ELSE Levenshtein(cmd, str)

(* The commands, with their spellings, that are closest to cmd; none if none is close. *)
Approximate(cmd, commands, spellings) ==
    LET sl == MergeSort([i \in DOMAIN commands |->
                            [str |-> commands[i], ext |-> Distance(cmd, spellings[i])]])
        size == IF CountAlike(sl, 0) = Len(sl) /\ Len(sl) > MostListed THEN MostListed ELSE Len(sl)
        listed == SubSeq(sl, 1, size)
    IN  IF sl[1].ext > TooFar THEN <<>>
        ELSE [i \in 1 .. CountAlike(listed, sl[1].ext) |-> listed[i].str]
-------------------------------------------------------------------------------
(* The cheapest way to turn the word s into the word t, letter by letter. *)
Cost(s, t) ==
    LET cost[at \in (1 .. Len(s) + 1) \X (1 .. Len(t) + 1)] ==
          LET i == at[1]
              j == at[2]
          IN  IF i > Len(s) THEN (Len(t) + 1 - j) * Insertion
              ELSE IF j > Len(t) THEN (Len(s) + 1 - i) * Deletion
              ELSE LET ways == {cost[<<i + 1, j>>] + Deletion, cost[<<i, j + 1>>] + Insertion,
                                cost[<<i + 1, j + 1>>] + IF s[i] = t[j] THEN 0 ELSE Substitution}
                               \cup (IF /\ i < Len(s) /\ j < Len(t)
                                        /\ s[i] = t[j + 1] /\ s[i + 1] = t[j]
                                     THEN {cost[<<i + 2, j + 2>>] + Transposition} ELSE {})
                   IN  LeastOf(ways)
    IN  cost[<<1, 1>>]
===============================================================================
