----------------------------- MODULE SimilarProofs -----------------------------
(***************************************************************************)
(* Theorems about Similar, for words of any length and any list of         *)
(* commands.                                                               *)
(***************************************************************************)
EXTENDS Similar, SequenceTheorems, WellFoundedInduction, TLAPS

-------------------------------------------------------------------------------
(***************************************************************************)
(* Induction and recursion along a measure, over sets.                     *)
(***************************************************************************)
LEMMA LeastNat ==
    ASSUME NEW T, T \subseteq Nat, T # {}
    PROVE  \E n \in T : \A m \in T : n <= m
<1> DEFINE R == OpToRel(<, Nat)
<1>1. IsWellFoundedOn(R, Nat)
      BY NatLessThanWellFounded
<1>2. \A m, n \in Nat : <<m, n>> \in R <=> m < n
      BY DEF OpToRel
<1> HIDE DEF R
<1>3. \E n \in T : \A m \in T : ~(<<m, n>> \in R)
      BY <1>1, WFMin
<1>4. \A m, n \in Nat : ~(m < n) => n <= m
      OBVIOUS
<1> QED BY <1>2, <1>3, <1>4

LEMMA Before ==
    \A n \in Nat : n # 0 => n - 1 \in Nat /\ n - 1 < n
OBVIOUS

(* Whatever is in S as soon as all that measures less is, is in S. *)
IsInductive(D, mu, S) == \A d \in D : (\A e \in D : mu[e] < mu[d] => e \in S) => d \in S

LEMMA Induction ==
    ASSUME NEW D, NEW mu, NEW S, mu \in [D -> Nat], IsInductive(D, mu, S)
    PROVE  D \subseteq S
<1> SUFFICES ASSUME NEW c \in D, c \notin S PROVE FALSE
    OBVIOUS
<1> DEFINE T == {mu[d] : d \in D \ S}
<1>1. T \subseteq Nat /\ T # {}
      OBVIOUS
<1>2. PICK n \in T : \A m \in T : n <= m
  <2> HIDE DEF T
  <2> QED BY <1>1, LeastNat
<1>3. PICK d \in D \ S : n = mu[d]
      OBVIOUS
<1>4. \A e \in D : mu[e] < mu[d] => e \in S
  <2> SUFFICES ASSUME NEW e \in D, mu[e] < mu[d], e \notin S PROVE FALSE
      OBVIOUS
  <2>1. mu[e] \in T
        OBVIOUS
  <2> HIDE DEF T
  <2>2. mu[e] \in Nat /\ mu[d] \in Nat /\ mu[d] <= mu[e]
        BY <1>2, <1>3, <2>1
  <2> QED BY <2>2
<1> QED BY <1>3, <1>4 DEF IsInductive

(* Two functions are the same if both are computed from what measures less. *)
AreAlike(D, mu, f, g) ==
    \A d \in D : (\A e \in D : mu[e] < mu[d] => f[e] = g[e]) => f[d] = g[d]

Agree(D, f, g) == \A d \in D : f[d] = g[d]

LEMMA Same ==
    ASSUME NEW D, NEW mu, NEW f, NEW g, mu \in [D -> Nat], AreAlike(D, mu, f, g)
    PROVE  Agree(D, f, g)
<1> DEFINE S == {d \in D : f[d] = g[d]}
<1>1. IsInductive(D, mu, S)
      BY DEF AreAlike, IsInductive
<1>2. D \subseteq S
  <2> HIDE DEF S
  <2> QED BY <1>1, Induction
<1> QED BY <1>2 DEF Agree

(* The value that is computed for d needs those of what measures less only. *)
IsLocal(D, T, mu, step) ==
    \A d \in D : \A f, g \in [D -> T] :
        (\A e \in D : mu[e] < mu[d] => f[e] = g[e]) => step[<<f, d>>] = step[<<g, d>>]

IsComputed(D, T, step) == \E f \in [D -> T] : \A d \in D : f[d] = step[<<f, d>>]

IsBounded(D, mu) == \E bound \in Nat : \A d \in D : mu[d] <= bound

LEMMA Recursion ==
    ASSUME NEW D, NEW T, NEW mu, NEW step, T # {}, mu \in [D -> Nat], IsBounded(D, mu),
           step \in [[D -> T] \X D -> T], IsLocal(D, T, mu, step)
    PROVE  IsComputed(D, T, step)
<1> DEFINE Upto(f, n) == \A d \in D : mu[d] < n => f[d] = step[<<f, d>>]
           S == {n \in Nat : \E f \in [D -> T] : Upto(f, n)}
           id == [n \in Nat |-> n]
<1>0. PICK bound \in Nat : \A d \in D : mu[d] <= bound
      BY DEF IsBounded
<1>1. ASSUME NEW n \in Nat, \A m \in Nat : id[m] < id[n] => m \in S
      PROVE  n \in S
  <2>1. CASE n = 0
    <3>0. PICK base \in T : TRUE
          OBVIOUS
    <3>1. [d \in D |-> base] \in [D -> T]
          OBVIOUS
    <3>2. \A d \in D : ~(mu[d] < 0)
          OBVIOUS
    <3> QED BY <2>1, <3>1, <3>2
  <2>2. CASE n # 0
    <3>1. n - 1 \in Nat /\ n - 1 < n
          BY <2>2, Before, Zenon
    <3>2. PICK f \in [D -> T] : Upto(f, n - 1)
          BY <1>1, <3>1
    <3> DEFINE g == [d \in D |-> step[<<f, d>>]]
    <3>3. g \in [D -> T]
          OBVIOUS
    <3>4. ASSUME NEW d \in D, mu[d] < n
          PROVE  g[d] = step[<<g, d>>]
      <4>1. \A e \in D : mu[e] < mu[d] => f[e] = g[e]
        <5> TAKE e \in D
        <5> HAVE mu[e] < mu[d]
        <5>1. mu[e] < n - 1
              BY <3>4, <2>2
        <5> QED BY <3>2, <5>1
      <4>2. step[<<f, d>>] = step[<<g, d>>]
        <5> HIDE DEF g
        <5> QED BY <3>3, <4>1 DEF IsLocal
      <4> QED BY <4>2
    <3> HIDE DEF g
    <3>5. Upto(g, n)
          BY <3>4
    <3> QED BY <3>3, <3>5
  <2> QED BY <2>1, <2>2
<1>2. bound + 1 \in S
  <2> HIDE DEF S
  <2>1. id \in [Nat -> Nat]
        OBVIOUS
  <2>2. IsInductive(Nat, id, S)
        BY <1>1 DEF IsInductive
  <2> HIDE DEF id
  <2>3. Nat \subseteq S
        BY <2>1, <2>2, Induction
  <2> QED BY <2>3
<1>3. PICK f \in [D -> T] : Upto(f, bound + 1)
      BY <1>2
<1>4. \A d \in D : mu[d] < bound + 1
      BY <1>0
<1> QED BY <1>3, <1>4 DEF IsComputed
-------------------------------------------------------------------------------
(***************************************************************************)
(* The reference: the cheapest way from the letters i, j on.               *)
(***************************************************************************)
LEMMA LeastIs ==
    ASSUME NEW S, S \subseteq Nat, S # {}
    PROVE  LeastOf(S) \in S /\ \A y \in S : LeastOf(S) <= y
<1>1. \E x \in S : \A y \in S : x <= y
      BY LeastNat
<1> QED BY <1>1 DEF LeastOf

Replaced(x, y) == IF x = y THEN 0 ELSE Substitution

LEMMA ReplacedNat == \A x, y : Replaced(x, y) \in Nat
BY DEF Replaced, Substitution

Cells(m, n) == (1 .. m + 1) \X (1 .. n + 1)

Swapping(s, t, i, j) ==
    i < Len(s) /\ j < Len(t) /\ s[i] = t[j + 1] /\ s[i + 1] = t[j]

Ways(s, t, cost, i, j) ==
    {cost[<<i + 1, j>>] + Deletion, cost[<<i, j + 1>>] + Insertion,
     cost[<<i + 1, j + 1>>] + Replaced(s[i], t[j])}
    \cup (IF Swapping(s, t, i, j) THEN {cost[<<i + 2, j + 2>>] + Transposition} ELSE {})

CostAt(s, t, cost, i, j) ==
    IF i > Len(s) THEN (Len(t) + 1 - j) * Insertion
    ELSE IF j > Len(t) THEN (Len(s) + 1 - i) * Deletion
    ELSE LeastOf(Ways(s, t, cost, i, j))

(* The cells that are looked at from a cell in the middle. *)
LEMMA Neighbours ==
    ASSUME NEW m \in Nat, NEW n \in Nat, NEW i \in 1 .. m, NEW j \in 1 .. n
    PROVE  /\ <<i + 1, j>> \in Cells(m, n) /\ <<i, j + 1>> \in Cells(m, n)
           /\ <<i + 1, j + 1>> \in Cells(m, n)
           /\ i < m /\ j < n => <<i + 2, j + 2>> \in Cells(m, n)
<1>1. /\ i \in 1 .. m + 1 /\ i + 1 \in 1 .. m + 1 /\ (i < m => i + 2 \in 1 .. m + 1)
      /\ j \in 1 .. n + 1 /\ j + 1 \in 1 .. n + 1 /\ (j < n => j + 2 \in 1 .. n + 1)
  <2>1. ASSUME NEW b \in Nat, NEW a \in 1 .. b
        PROVE  a \in 1 .. b + 1 /\ a + 1 \in 1 .. b + 1 /\ (a < b => a + 2 \in 1 .. b + 1)
        OBVIOUS
  <2> QED BY <2>1
<1>2. \A a, b : a \in 1 .. m + 1 /\ b \in 1 .. n + 1 => <<a, b>> \in Cells(m, n)
      BY DEF Cells
<1> HIDE DEF Cells
<1> QED BY <1>1, <1>2

LEMMA WaysType ==
    ASSUME NEW s, NEW t, NEW m \in Nat, NEW n \in Nat, Len(s) = m, Len(t) = n,
           NEW cost \in [Cells(m, n) -> Nat],
           NEW i \in 1 .. m, NEW j \in 1 .. n
    PROVE  Ways(s, t, cost, i, j) \subseteq Nat /\ Ways(s, t, cost, i, j) # {}
<1>1. Replaced(s[i], t[j]) \in Nat
      BY ReplacedNat
<1>2. /\ cost[<<i + 1, j>>] \in Nat /\ cost[<<i, j + 1>>] \in Nat
      /\ cost[<<i + 1, j + 1>>] \in Nat
      /\ i < m /\ j < n => cost[<<i + 2, j + 2>>] \in Nat
      BY Neighbours
<1>3. Ways(s, t, cost, i, j) \subseteq Nat
  <2>1. ASSUME NEW x \in Ways(s, t, cost, i, j) PROVE x \in Nat
    <3>1. \/ x = cost[<<i + 1, j>>] + Deletion \/ x = cost[<<i, j + 1>>] + Insertion
          \/ x = cost[<<i + 1, j + 1>>] + Replaced(s[i], t[j])
          \/ i < m /\ j < n /\ x = cost[<<i + 2, j + 2>>] + Transposition
          BY <2>1 DEF Ways, Swapping
    <3>2. \A a, b \in Nat : a + b \in Nat
          OBVIOUS
    <3>3. Deletion \in Nat /\ Insertion \in Nat /\ Transposition \in Nat
          BY DEF Deletion, Insertion, Transposition
    <3>4. /\ cost[<<i + 1, j>>] + Deletion \in Nat /\ cost[<<i, j + 1>>] + Insertion \in Nat
          /\ cost[<<i + 1, j + 1>>] + Replaced(s[i], t[j]) \in Nat
          BY <1>1, <1>2, <3>2, <3>3, Zenon
    <3>5. i < m /\ j < n => cost[<<i + 2, j + 2>>] + Transposition \in Nat
          BY <1>2, <3>2, <3>3, Zenon
    <3> QED BY <3>1, <3>4, <3>5, Zenon
  <2> QED BY <2>1
<1>4. cost[<<i + 1, j>>] + Deletion \in Ways(s, t, cost, i, j)
      BY DEF Ways
<1> QED BY <1>3, <1>4

LEMMA CostAtType ==
    ASSUME NEW s, NEW t, NEW m \in Nat, NEW n \in Nat, Len(s) = m, Len(t) = n,
           NEW cost \in [Cells(m, n) -> Nat],
           NEW i \in 1 .. m + 1, NEW j \in 1 .. n + 1
    PROVE  CostAt(s, t, cost, i, j) \in Nat
<1>1. CASE i > m \/ j > n
      BY <1>1 DEF CostAt, Insertion, Deletion
<1>2. CASE i \in 1 .. m /\ j \in 1 .. n
  <2>1. LeastOf(Ways(s, t, cost, i, j)) \in Nat
        BY <1>2, WaysType, LeastIs
  <2> QED BY <1>2, <2>1 DEF CostAt
<1> QED BY <1>1, <1>2

(* The fewer cells are left, the less. *)
Left(m, n) == [at \in Cells(m, n) |-> (m + 1 - at[1]) + (n + 1 - at[2])]

LEMMA LeftType ==
    ASSUME NEW m \in Nat, NEW n \in Nat
    PROVE  /\ Left(m, n) \in [Cells(m, n) -> Nat]
           /\ IsBounded(Cells(m, n), Left(m, n))
           /\ \A i, j : <<i, j>> \in Cells(m, n) => Left(m, n)[<<i, j>>] = (m + 1 - i) + (n + 1 - j)
<1>1. \A at \in Cells(m, n) : at[1] \in 1 .. m + 1 /\ at[2] \in 1 .. n + 1
      BY DEF Cells
<1>2. ASSUME NEW at \in Cells(m, n)
      PROVE  (m + 1 - at[1]) + (n + 1 - at[2]) \in 0 .. m + n
      BY <1>1
<1>3. m + n \in Nat /\ \A x \in 0 .. m + n : x \in Nat /\ x <= m + n
      OBVIOUS
<1>4. Left(m, n) \in [Cells(m, n) -> 0 .. m + n]
      BY <1>2 DEF Left
<1>5. \A at \in Cells(m, n) : Left(m, n)[at] \in Nat /\ Left(m, n)[at] <= m + n
      BY <1>3, <1>4
<1>6. Left(m, n) \in [Cells(m, n) -> Nat]
      BY <1>4, <1>5
<1>7. \A i, j : <<i, j>> \in Cells(m, n) => Left(m, n)[<<i, j>>] = (m + 1 - i) + (n + 1 - j)
      BY DEF Left
<1>8. IsBounded(Cells(m, n), Left(m, n))
      BY <1>3, <1>5 DEF IsBounded
<1> QED BY <1>6, <1>7, <1>8

LEMMA CostLocal ==
    ASSUME NEW s, NEW t, NEW m \in Nat, NEW n \in Nat, Len(s) = m, Len(t) = n,
           NEW i \in 1 .. m + 1, NEW j \in 1 .. n + 1, NEW f, NEW g,
           \A e \in Cells(m, n) : Left(m, n)[e] < Left(m, n)[<<i, j>>] => f[e] = g[e]
    PROVE  CostAt(s, t, f, i, j) = CostAt(s, t, g, i, j)
<1>1. CASE i > m \/ j > n
      BY <1>1 DEF CostAt
<1>2. CASE i \in 1 .. m /\ j \in 1 .. n
  <2>1. /\ <<i + 1, j>> \in Cells(m, n) /\ <<i, j + 1>> \in Cells(m, n)
        /\ <<i + 1, j + 1>> \in Cells(m, n)
        /\ i < m /\ j < n => <<i + 2, j + 2>> \in Cells(m, n)
        BY <1>2, Neighbours
  <2>2. <<i, j>> \in Cells(m, n)
        BY DEF Cells
  <2>3. \A a, b : <<a, b>> \in Cells(m, n) => Left(m, n)[<<a, b>>] = (m + 1 - a) + (n + 1 - b)
        BY LeftType
  <2>4. /\ Left(m, n)[<<i, j>>] = (m + 1 - i) + (n + 1 - j)
        /\ Left(m, n)[<<i + 1, j>>] = (m + 1 - (i + 1)) + (n + 1 - j)
        /\ Left(m, n)[<<i, j + 1>>] = (m + 1 - i) + (n + 1 - (j + 1))
        /\ Left(m, n)[<<i + 1, j + 1>>] = (m + 1 - (i + 1)) + (n + 1 - (j + 1))
        /\ i < m /\ j < n =>
              Left(m, n)[<<i + 2, j + 2>>] = (m + 1 - (i + 2)) + (n + 1 - (j + 2))
        BY <2>1, <2>2, <2>3
  <2>5. /\ Left(m, n)[<<i + 1, j>>] < Left(m, n)[<<i, j>>]
        /\ Left(m, n)[<<i, j + 1>>] < Left(m, n)[<<i, j>>]
        /\ Left(m, n)[<<i + 1, j + 1>>] < Left(m, n)[<<i, j>>]
        /\ i < m /\ j < n => Left(m, n)[<<i + 2, j + 2>>] < Left(m, n)[<<i, j>>]
        BY <2>4
  <2>6. /\ f[<<i + 1, j>>] = g[<<i + 1, j>>] /\ f[<<i, j + 1>>] = g[<<i, j + 1>>]
        /\ f[<<i + 1, j + 1>>] = g[<<i + 1, j + 1>>]
        /\ i < m /\ j < n => f[<<i + 2, j + 2>>] = g[<<i + 2, j + 2>>]
        BY <2>1, <2>5
  <2>7. Ways(s, t, f, i, j) = Ways(s, t, g, i, j)
        BY <2>6 DEF Ways, Swapping
  <2> QED BY <2>7 DEF CostAt
<1> QED BY <1>1, <1>2

LEMMA CostEquations ==
    ASSUME NEW s, NEW t, NEW m \in Nat, NEW n \in Nat, Len(s) = m, Len(t) = n
    PROVE  \E C \in [Cells(m, n) -> Nat] :
               /\ Cost(s, t) = C[<<1, 1>>]
               /\ \A i \in 1 .. m + 1, j \in 1 .. n + 1 : C[<<i, j>>] = CostAt(s, t, C, i, j)
<1> DEFINE G == Cells(m, n)
           mu == Left(m, n)
           F == CHOOSE cost : cost = [at \in G |-> CostAt(s, t, cost, at[1], at[2])]
           step == [x \in [G -> Nat] \X G |-> CostAt(s, t, x[1], x[2][1], x[2][2])]
<1>1. Cost(s, t) = F[<<1, 1>>]
      BY DEF Cost, CostAt, Cells, Ways, Swapping, Replaced
<1>2. \A at \in G : at[1] \in 1 .. m + 1 /\ at[2] \in 1 .. n + 1 /\ at = <<at[1], at[2]>>
      BY DEF Cells
<1>3. mu \in [G -> Nat] /\ IsBounded(G, mu)
      BY LeftType
<1>4. step \in [[G -> Nat] \X G -> Nat]
  <2> SUFFICES ASSUME NEW C \in [G -> Nat], NEW at \in G
               PROVE  CostAt(s, t, C, at[1], at[2]) \in Nat
      OBVIOUS
  <2> QED BY <1>2, CostAtType
<1>5. \A C \in [G -> Nat], at \in G : step[<<C, at>>] = CostAt(s, t, C, at[1], at[2])
      OBVIOUS
<1> HIDE DEF step, mu
<1>6. ASSUME NEW at \in G, NEW f, NEW g, \A e \in G : mu[e] < mu[at] => f[e] = g[e]
      PROVE  CostAt(s, t, f, at[1], at[2]) = CostAt(s, t, g, at[1], at[2])
  <2>1. PICK i \in 1 .. m + 1, j \in 1 .. n + 1 : at = <<i, j>> /\ at[1] = i /\ at[2] = j
        BY <1>2
  <2>2. \A e \in Cells(m, n) : Left(m, n)[e] < Left(m, n)[<<i, j>>] => f[e] = g[e]
        BY <1>6, <2>1 DEF mu
  <2>3. CostAt(s, t, f, i, j) = CostAt(s, t, g, i, j)
        BY <2>2, CostLocal
  <2> QED BY <2>1, <2>3
<1>7. IsLocal(G, Nat, mu, step)
  <2> SUFFICES ASSUME NEW at \in G, NEW f \in [G -> Nat], NEW g \in [G -> Nat],
                      \A e \in G : mu[e] < mu[at] => f[e] = g[e]
               PROVE  step[<<f, at>>] = step[<<g, at>>]
      BY DEF IsLocal
  <2>1. CostAt(s, t, f, at[1], at[2]) = CostAt(s, t, g, at[1], at[2])
        BY <1>6
  <2>2. /\ step[<<f, at>>] = CostAt(s, t, f, at[1], at[2])
        /\ step[<<g, at>>] = CostAt(s, t, g, at[1], at[2])
        BY <1>5
  <2> QED BY <2>1, <2>2
<1>8. Nat # {}
      OBVIOUS
<1>9. PICK c \in [G -> Nat] : \A at \in G : c[at] = step[<<c, at>>]
  <2>1. IsComputed(G, Nat, step)
    <3> HIDE DEF G, F
    <3> QED BY <1>3, <1>4, <1>7, <1>8, Recursion
  <2> QED BY <2>1 DEF IsComputed
<1>10. c = [at \in G |-> CostAt(s, t, c, at[1], at[2])]
      BY <1>5, <1>9
<1>11. F = [at \in G |-> CostAt(s, t, F, at[1], at[2])]
      BY <1>10
<1> HIDE DEF F
<1>12. \A at \in G : F[at] = CostAt(s, t, F, at[1], at[2])
      BY <1>11
<1>13. AreAlike(G, mu, F, c)
  <2> SUFFICES ASSUME NEW at \in G, \A e \in G : mu[e] < mu[at] => F[e] = c[e]
               PROVE  F[at] = c[at]
      BY DEF AreAlike
  <2>1. CostAt(s, t, F, at[1], at[2]) = CostAt(s, t, c, at[1], at[2])
        BY <1>6
  <2> QED BY <1>5, <1>9, <1>12, <2>1
<1>14. Agree(G, F, c)
  <2> HIDE DEF G
  <2> QED BY <1>3, <1>13, Same
<1>15. F = c
      BY <1>10, <1>11, <1>14 DEF Agree
<1> QED BY <1>1, <1>12, <1>15 DEF Cells
-------------------------------------------------------------------------------
(***************************************************************************)
(* A way that costs least costs the same from either end: P tells what it  *)
(* takes to get to a cell, S what it takes to get on from it.              *)
(***************************************************************************)
(* An edge u, v, w leads from u to v for w. *)
Forward(G, E, P, source) ==
    /\ P \in [G -> Nat] /\ source \in G /\ P[source] = 0
    /\ \A u, v, w : <<u, v, w>> \in E => P[v] <= P[u] + w
    /\ \A v \in G \ {source} : \E u, w : <<u, v, w>> \in E /\ P[v] = P[u] + w

Backward(G, E, S, sink) ==
    /\ S \in [G -> Nat] /\ sink \in G /\ S[sink] = 0
    /\ \A u, v, w : <<u, v, w>> \in E => S[u] <= w + S[v]
    /\ \A u \in G \ {sink} : \E v, w : <<u, v, w>> \in E /\ S[u] = w + S[v]

(* Every edge leads to where less is left. *)
LeadsOn(G, E, mu, nu) ==
    /\ mu \in [G -> Nat] /\ nu \in [G -> Nat]
    /\ \A u, v, w : <<u, v, w>> \in E =>
           u \in G /\ v \in G /\ w \in Nat /\ mu[v] < mu[u] /\ nu[u] < nu[v]

LEMMA EitherWay ==
    ASSUME NEW G, NEW E, NEW P, NEW S, NEW mu, NEW nu, NEW source, NEW sink,
           Forward(G, E, P, source), Backward(G, E, S, sink), LeadsOn(G, E, mu, nu)
    PROVE  P[sink] = S[source]
<1>1. /\ P \in [G -> Nat] /\ S \in [G -> Nat] /\ source \in G /\ sink \in G
      /\ mu \in [G -> Nat] /\ nu \in [G -> Nat] /\ P[source] = 0 /\ S[sink] = 0
      BY DEF Forward, Backward, LeadsOn
<1>2. P[sink] <= S[source]
  <2> DEFINE T == {u \in G : P[sink] <= P[u] + S[u]}
  <2>1. IsInductive(G, mu, T)
    <3> SUFFICES ASSUME NEW u \in G, \A e \in G : mu[e] < mu[u] => e \in T
                 PROVE  P[sink] <= P[u] + S[u]
        BY DEF IsInductive
    <3>1. CASE u = sink
          BY <1>1, <3>1
    <3>2. CASE u # sink
      <4>1. PICK v, w : <<u, v, w>> \in E /\ S[u] = w + S[v]
            BY <3>2 DEF Backward
      <4>2. v \in G /\ w \in Nat /\ mu[v] < mu[u] /\ P[v] <= P[u] + w
            BY <4>1 DEF LeadsOn, Forward
      <4>3. P[sink] <= P[v] + S[v]
            BY <4>2
      <4>4. /\ P[sink] \in Nat /\ P[u] \in Nat /\ P[v] \in Nat /\ S[v] \in Nat /\ S[u] \in Nat
            BY <1>1, <4>2
      <4> QED BY <4>1, <4>2, <4>3, <4>4
    <3> QED BY <3>1, <3>2
  <2>2. G \subseteq T
    <3> HIDE DEF T
    <3> QED BY <1>1, <2>1, Induction
  <2>3. P[sink] <= P[source] + S[source]
        BY <1>1, <2>2
  <2> QED BY <1>1, <2>3
<1>3. S[source] <= P[sink]
  <2> DEFINE T == {v \in G : S[source] <= P[v] + S[v]}
  <2>1. IsInductive(G, nu, T)
    <3> SUFFICES ASSUME NEW v \in G, \A e \in G : nu[e] < nu[v] => e \in T
                 PROVE  S[source] <= P[v] + S[v]
        BY DEF IsInductive
    <3>1. CASE v = source
          BY <1>1, <3>1
    <3>2. CASE v # source
      <4>1. PICK u, w : <<u, v, w>> \in E /\ P[v] = P[u] + w
            BY <3>2 DEF Forward
      <4>2. u \in G /\ w \in Nat /\ nu[u] < nu[v] /\ S[u] <= w + S[v]
            BY <4>1 DEF LeadsOn, Backward
      <4>3. S[source] <= P[u] + S[u]
            BY <4>2
      <4>4. /\ S[source] \in Nat /\ P[u] \in Nat /\ P[v] \in Nat /\ S[v] \in Nat /\ S[u] \in Nat
            BY <1>1, <4>2
      <4> QED BY <4>1, <4>2, <4>3, <4>4
    <3> QED BY <3>1, <3>2
  <2>2. G \subseteq T
    <3> HIDE DEF T
    <3> QED BY <1>1, <2>1, Induction
  <2>3. S[source] <= P[sink] + S[sink]
        BY <1>1, <2>2
  <2> QED BY <1>1, <2>3
<1>4. P[sink] \in Nat /\ S[source] \in Nat
      BY <1>1
<1> QED BY <1>2, <1>3, <1>4

(* The steps of an edit: one letter deleted, inserted or replaced, or two swapped. *)
IsEdit(s, t, i, j, k, l, w) ==
    \/ k = i + 1 /\ l = j /\ w = Deletion
    \/ k = i /\ l = j + 1 /\ w = Insertion
    \/ k = i + 1 /\ l = j + 1 /\ w = Replaced(s[i], t[j])
    \/ k = i + 2 /\ l = j + 2 /\ w = Transposition /\ Swapping(s, t, i, j)

Edits(s, t, m, n) ==
    {e \in Cells(m, n) \X Cells(m, n) \X Nat :
        IsEdit(s, t, e[1][1], e[1][2], e[2][1], e[2][2], e[3])}

LEMMA InEdits ==
    ASSUME NEW s, NEW t, NEW m \in Nat, NEW n \in Nat,
           NEW i, NEW j, NEW k, NEW l, NEW w
    PROVE  <<<<i, j>>, <<k, l>>, w>> \in Edits(s, t, m, n) <=>
               /\ i \in 1 .. m + 1 /\ j \in 1 .. n + 1 /\ k \in 1 .. m + 1 /\ l \in 1 .. n + 1
               /\ w \in Nat /\ IsEdit(s, t, i, j, k, l, w)
BY DEF Edits, Cells

LEMMA AnEdit ==
    ASSUME NEW s, NEW t, NEW m \in Nat, NEW n \in Nat,
           NEW u, NEW v, NEW w, <<u, v, w>> \in Edits(s, t, m, n)
    PROVE  \E i, k \in 1 .. m + 1, j, l \in 1 .. n + 1 :
               /\ u = <<i, j>> /\ v = <<k, l>> /\ w \in Nat
               /\ IsEdit(s, t, i, j, k, l, w)
BY DEF Edits, Cells

(* How many letters have been dealt with. *)
Done(m, n) == [at \in Cells(m, n) |-> at[1] + at[2]]

LEMMA EditsLeadOn ==
    ASSUME NEW s, NEW t, NEW m \in Nat, NEW n \in Nat
    PROVE  LeadsOn(Cells(m, n), Edits(s, t, m, n), Left(m, n), Done(m, n))
<1>1. Left(m, n) \in [Cells(m, n) -> Nat]
      BY LeftType
<1>2. Done(m, n) \in [Cells(m, n) -> Nat]
      BY DEF Done, Cells
<1>3. ASSUME NEW u, NEW v, NEW w, <<u, v, w>> \in Edits(s, t, m, n)
      PROVE  /\ u \in Cells(m, n) /\ v \in Cells(m, n) /\ w \in Nat
             /\ Left(m, n)[v] < Left(m, n)[u] /\ Done(m, n)[u] < Done(m, n)[v]
  <2>1. PICK i \in 1 .. m + 1, k \in 1 .. m + 1, j \in 1 .. n + 1, l \in 1 .. n + 1 :
              /\ u = <<i, j>> /\ v = <<k, l>> /\ w \in Nat
              /\ IsEdit(s, t, i, j, k, l, w)
        BY <1>3, AnEdit
  <2>2. u \in Cells(m, n) /\ v \in Cells(m, n)
        BY <2>1 DEF Cells
  <2>3. i <= k /\ j <= l /\ i + j < k + l
        BY <2>1 DEF IsEdit
  <2>4. /\ Left(m, n)[u] = (m + 1 - i) + (n + 1 - j) /\ Left(m, n)[v] = (m + 1 - k) + (n + 1 - l)
        BY <2>1, <2>2, LeftType
  <2>5. Done(m, n)[u] = i + j /\ Done(m, n)[v] = k + l
        BY <2>1, <2>2 DEF Done
  <2>6. Left(m, n)[v] < Left(m, n)[u]
        BY <2>3, <2>4
  <2> QED BY <2>1, <2>2, <2>3, <2>5, <2>6
<1> QED BY <1>1, <1>2, <1>3 DEF LeadsOn

LEMMA CostBackward ==
    ASSUME NEW s, NEW t, NEW m \in Nat, NEW n \in Nat, Len(s) = m, Len(t) = n,
           NEW C \in [Cells(m, n) -> Nat],
           \A i \in 1 .. m + 1, j \in 1 .. n + 1 : C[<<i, j>>] = CostAt(s, t, C, i, j)
    PROVE  Backward(Cells(m, n), Edits(s, t, m, n), C, <<m + 1, n + 1>>)
<1>1. <<m + 1, n + 1>> \in Cells(m, n) /\ C[<<m + 1, n + 1>>] = 0
  <2>1. m + 1 \in 1 .. m + 1 /\ n + 1 \in 1 .. n + 1 /\ m + 1 > m
        OBVIOUS
  <2>2. C[<<m + 1, n + 1>>] = (n + 1 - (n + 1)) * Insertion
        BY <2>1 DEF CostAt
  <2> QED BY <2>1, <2>2 DEF Cells, Insertion
<1>2. /\ \A j \in 1 .. n + 1 : C[<<m + 1, j>>] = n + 1 - j
      /\ \A i \in 1 .. m + 1 : C[<<i, n + 1>>] = (m + 1 - i) * 3
  <2>1. ASSUME NEW j \in 1 .. n + 1 PROVE C[<<m + 1, j>>] = n + 1 - j
    <3>1. m + 1 \in 1 .. m + 1 /\ m + 1 > m
          OBVIOUS
    <3>2. C[<<m + 1, j>>] = CostAt(s, t, C, m + 1, j)
          BY <3>1
    <3>3. CostAt(s, t, C, m + 1, j) = (n + 1 - j) * 1
          BY <3>1 DEF CostAt, Insertion
    <3> QED BY <3>2, <3>3
  <2>2. ASSUME NEW i \in 1 .. m PROVE C[<<i, n + 1>>] = (m + 1 - i) * 3
    <3>1. i \in 1 .. m + 1 /\ n + 1 \in 1 .. n + 1 /\ n + 1 > n /\ ~(i > m)
          OBVIOUS
    <3>2. C[<<i, n + 1>>] = CostAt(s, t, C, i, n + 1)
          BY <3>1
    <3>3. CostAt(s, t, C, i, n + 1) = (m + 1 - i) * 3
          BY <3>1 DEF CostAt, Deletion
    <3> QED BY <3>2, <3>3
  <2>3. C[<<m + 1, n + 1>>] = (m + 1 - (m + 1)) * 3
        BY <1>1
  <2> QED BY <2>1, <2>2, <2>3
<1>3. ASSUME NEW i \in 1 .. m, NEW j \in 1 .. n
      PROVE  /\ C[<<i, j>>] \in Ways(s, t, C, i, j)
             /\ \A y \in Ways(s, t, C, i, j) : C[<<i, j>>] <= y
  <2>1. i \in 1 .. m + 1 /\ j \in 1 .. n + 1 /\ ~(i > m) /\ ~(j > n)
        OBVIOUS
  <2>2. C[<<i, j>>] = CostAt(s, t, C, i, j)
        BY <2>1
  <2>3. C[<<i, j>>] = LeastOf(Ways(s, t, C, i, j))
        BY <2>1, <2>2 DEF CostAt
  <2>4. Ways(s, t, C, i, j) \subseteq Nat /\ Ways(s, t, C, i, j) # {}
        BY WaysType
  <2> QED BY <2>3, <2>4, LeastIs
<1>4. ASSUME NEW u, NEW v, NEW w, <<u, v, w>> \in Edits(s, t, m, n)
      PROVE  C[u] <= w + C[v]
  <2>1. PICK i \in 1 .. m + 1, k \in 1 .. m + 1, j \in 1 .. n + 1, l \in 1 .. n + 1 :
              /\ u = <<i, j>> /\ v = <<k, l>> /\ w \in Nat
              /\ IsEdit(s, t, i, j, k, l, w)
        BY <1>4, AnEdit
  <2>2. CASE i = m + 1
    <3>1. k = i /\ l = j + 1 /\ w = 1
          BY <2>1, <2>2 DEF IsEdit, Insertion
    <3> QED BY <1>2, <2>1, <2>2, <3>1
  <2>3. CASE j = n + 1
    <3>1. l = j /\ k = i + 1 /\ w = 3
          BY <2>1, <2>3 DEF IsEdit, Deletion
    <3>2. C[u] = (m + 1 - i) * 3 /\ C[v] = (m + 1 - (i + 1)) * 3
          BY <1>2, <2>1, <2>3, <3>1
    <3> QED BY <3>1, <3>2
  <2>4. CASE i \in 1 .. m /\ j \in 1 .. n
    <3>1. C[v] + w \in Ways(s, t, C, i, j)
          BY <2>1 DEF IsEdit, Ways
    <3>2. C[v] \in Nat
          BY <2>1 DEF Cells
    <3>3. C[u] <= C[v] + w
          BY <1>3, <2>1, <2>4, <3>1
    <3>4. C[v] + w = w + C[v]
          BY <2>1, <3>2
    <3> QED BY <3>3, <3>4
  <2> QED BY <2>2, <2>3, <2>4
<1>5. ASSUME NEW u \in Cells(m, n), u # <<m + 1, n + 1>>
      PROVE  \E v, w : <<u, v, w>> \in Edits(s, t, m, n) /\ C[u] = w + C[v]
  <2>1. PICK i \in 1 .. m + 1, j \in 1 .. n + 1 : u = <<i, j>>
        BY DEF Cells
  <2>2. CASE i = m + 1
    <3>1. j \in 1 .. n
          BY <1>5, <2>1, <2>2
    <3>2. IsEdit(s, t, i, j, i, j + 1, 1)
          BY DEF IsEdit, Insertion
    <3>3. <<u, <<i, j + 1>>, 1>> \in Edits(s, t, m, n)
      <4>1. j + 1 \in 1 .. n + 1 /\ 1 \in Nat
            BY <3>1
      <4>2. <<<<i, j>>, <<i, j + 1>>, 1>> \in Edits(s, t, m, n)
            BY <3>2, <4>1, InEdits
      <4> QED BY <2>1, <4>2
    <3>4. /\ j + 1 \in 1 .. n + 1 /\ u = <<m + 1, j>>
          /\ n + 1 - j = 1 + (n + 1 - (j + 1))
          BY <2>1, <2>2, <3>1
    <3>5. C[u] = n + 1 - j /\ C[<<i, j + 1>>] = n + 1 - (j + 1)
          BY <1>2, <2>2, <3>4
    <3>6. C[u] = 1 + C[<<i, j + 1>>]
          BY <3>4, <3>5
    <3> QED BY <3>3, <3>6
  <2>3. CASE j = n + 1
    <3>1. i \in 1 .. m
          BY <1>5, <2>1, <2>3
    <3>2. IsEdit(s, t, i, j, i + 1, j, 3)
          BY DEF IsEdit, Deletion
    <3>3. <<u, <<i + 1, j>>, 3>> \in Edits(s, t, m, n)
      <4>1. i + 1 \in 1 .. m + 1 /\ 3 \in Nat
            BY <3>1
      <4>2. <<<<i, j>>, <<i + 1, j>>, 3>> \in Edits(s, t, m, n)
            BY <3>2, <4>1, InEdits
      <4> QED BY <2>1, <4>2
    <3>4. C[u] = (m + 1 - i) * 3 /\ C[<<i + 1, j>>] = (m + 1 - (i + 1)) * 3
          BY <1>2, <2>1, <2>3, <3>1
    <3>5. C[u] = 3 + C[<<i + 1, j>>]
          BY <3>4
    <3> QED BY <3>3, <3>5
  <2>4. CASE i \in 1 .. m /\ j \in 1 .. n
    <3>1. C[u] \in Ways(s, t, C, i, j)
          BY <1>3, <2>1, <2>4
    <3>2. PICK k, l, w : /\ k \in 1 .. m + 1 /\ l \in 1 .. n + 1 /\ w \in Nat
                         /\ C[u] = C[<<k, l>>] + w
                         /\ IsEdit(s, t, i, j, k, l, w)
      <4>0. Deletion \in Nat /\ Insertion \in Nat /\ Transposition \in Nat
            BY DEF Deletion, Insertion, Transposition
      <4>5. i + 1 \in 1 .. m + 1 /\ j + 1 \in 1 .. n + 1
            BY <2>4
      <4>1. CASE C[u] = C[<<i + 1, j>>] + Deletion
        <5>1. IsEdit(s, t, i, j, i + 1, j, Deletion)
              BY DEF IsEdit
        <5> QED BY <4>0, <4>1, <4>5, <5>1
      <4>2. CASE C[u] = C[<<i, j + 1>>] + Insertion
        <5>1. IsEdit(s, t, i, j, i, j + 1, Insertion)
              BY DEF IsEdit
        <5> QED BY <4>0, <4>2, <4>5, <5>1
      <4>3. CASE C[u] = C[<<i + 1, j + 1>>] + Replaced(s[i], t[j])
        <5>1. IsEdit(s, t, i, j, i + 1, j + 1, Replaced(s[i], t[j])) /\ Replaced(s[i], t[j]) \in Nat
              BY ReplacedNat DEF IsEdit
        <5> QED BY <4>3, <4>5, <5>1
      <4>4. CASE Swapping(s, t, i, j) /\ C[u] = C[<<i + 2, j + 2>>] + Transposition
        <5>1. i + 2 \in 1 .. m + 1 /\ j + 2 \in 1 .. n + 1
              BY <2>4, <4>4 DEF Swapping
        <5> QED BY <4>0, <4>4, <5>1 DEF IsEdit
      <4> QED BY <3>1, <4>1, <4>2, <4>3, <4>4 DEF Ways
    <3>3. <<u, <<k, l>>, w>> \in Edits(s, t, m, n)
          BY <2>1, <3>2, InEdits
    <3>4. C[<<k, l>>] \in Nat
          BY <3>2 DEF Cells
    <3>5. C[u] = w + C[<<k, l>>]
          BY <3>2, <3>4
    <3> QED BY <3>3, <3>5
  <2> QED BY <2>2, <2>3, <2>4
<1> QED BY <1>1, <1>4, <1>5 DEF Backward
-------------------------------------------------------------------------------
(***************************************************************************)
(* levenshtein_w(), row by row.                                            *)
(***************************************************************************)
RowWays(s, t, i, v9, v0, v1, j) ==
    {v0[j - 1] + Replaced(s[i], t[j]), v0[j] + Deletion, v1[j - 1] + Insertion}
    \cup (IF i > 1 /\ j > 1 /\ s[i - 1] = t[j] /\ s[i] = t[j - 1]
          THEN {v9[j - 2] + Transposition} ELSE {})

RowAt(s, t, i, v9, v0, v1, j) ==
    IF j = 0 THEN i * Deletion ELSE LeastOf(RowWays(s, t, i, v9, v0, v1, j))

LEMMA RowWaysType ==
    ASSUME NEW s, NEW t, NEW n \in Nat, NEW i \in Nat, NEW j \in 1 .. n,
           NEW v9 \in [0 .. n -> Nat], NEW v0 \in [0 .. n -> Nat], NEW v1 \in [0 .. n -> Nat]
    PROVE  RowWays(s, t, i, v9, v0, v1, j) \subseteq Nat /\ RowWays(s, t, i, v9, v0, v1, j) # {}
<1>1. Replaced(s[i], t[j]) \in Nat
      BY ReplacedNat
<1>2. /\ v0[j - 1] \in Nat /\ v0[j] \in Nat /\ v1[j - 1] \in Nat
      /\ j > 1 => v9[j - 2] \in Nat
      OBVIOUS
<1>3. ASSUME NEW x \in RowWays(s, t, i, v9, v0, v1, j) PROVE x \in Nat
  <2>1. \/ x = v0[j - 1] + Replaced(s[i], t[j]) \/ x = v0[j] + Deletion
        \/ x = v1[j - 1] + Insertion
        \/ j > 1 /\ x = v9[j - 2] + Transposition
        BY <1>3 DEF RowWays
  <2>2. \A a, b \in Nat : a + b \in Nat
        OBVIOUS
  <2>3. Deletion \in Nat /\ Insertion \in Nat /\ Transposition \in Nat
        BY DEF Deletion, Insertion, Transposition
  <2> QED BY <1>1, <1>2, <2>1, <2>2, <2>3, Zenon
<1>4. v0[j] + Deletion \in RowWays(s, t, i, v9, v0, v1, j)
      BY DEF RowWays
<1> QED BY <1>3, <1>4

Index(n) == [j \in 0 .. n |-> j]

LEMMA IndexType ==
    ASSUME NEW n \in Nat
    PROVE  /\ Index(n) \in [0 .. n -> Nat] /\ IsBounded(0 .. n, Index(n))
           /\ \A j \in 0 .. n : Index(n)[j] = j
<1>1. \A j \in 0 .. n : Index(n)[j] = j /\ j \in Nat /\ j <= n
      BY DEF Index
<1>2. Index(n) \in [0 .. n -> Nat]
      BY DEF Index
<1>3. IsBounded(0 .. n, Index(n))
      BY <1>1 DEF IsBounded
<1> QED BY <1>1, <1>2, <1>3

IsNextRow(s, t, n, i, v9, v0, v1) ==
    /\ v1 \in [0 .. n -> Nat]
    /\ \A j \in 0 .. n : v1[j] = RowAt(s, t, i, v9, v0, v1, j)

LEMMA NextRowEquations ==
    ASSUME NEW s, NEW t, NEW n \in Nat, Len(t) = n, NEW i \in Nat,
           NEW v9 \in [0 .. n -> Nat], NEW v0 \in [0 .. n -> Nat]
    PROVE  IsNextRow(s, t, n, i, v9, v0, NextRow(s, t, i, v9, v0))
<1> DEFINE D == 0 .. n
           F == CHOOSE v1 : v1 = [j \in D |-> RowAt(s, t, i, v9, v0, v1, j)]
           mu == Index(n)
           step == [x \in [D -> Nat] \X D |-> RowAt(s, t, i, v9, v0, x[1], x[2])]
<1>1. NextRow(s, t, i, v9, v0) = F
      BY DEF NextRow, RowAt, RowWays, Replaced
<1>2. mu \in [D -> Nat] /\ IsBounded(D, mu)
      BY IndexType
<1>3. \A j \in D : mu[j] = j
      BY IndexType
<1>4. step \in [[D -> Nat] \X D -> Nat]
  <2> SUFFICES ASSUME NEW v1 \in [D -> Nat], NEW j \in D
               PROVE  RowAt(s, t, i, v9, v0, v1, j) \in Nat
      OBVIOUS
  <2>1. CASE j = 0
        BY <2>1 DEF RowAt, Deletion
  <2>2. CASE j \in 1 .. n
    <3>1. LeastOf(RowWays(s, t, i, v9, v0, v1, j)) \in Nat
          BY <2>2, RowWaysType, LeastIs
    <3> QED BY <2>2, <3>1 DEF RowAt
  <2> QED BY <2>1, <2>2
<1>5. \A v1 \in [D -> Nat], j \in D : step[<<v1, j>>] = RowAt(s, t, i, v9, v0, v1, j)
      OBVIOUS
<1> HIDE DEF step, mu, F
<1>6. ASSUME NEW j \in D, NEW f, NEW g, \A e \in D : mu[e] < mu[j] => f[e] = g[e]
      PROVE  RowAt(s, t, i, v9, v0, f, j) = RowAt(s, t, i, v9, v0, g, j)
  <2>1. CASE j = 0
        BY <2>1 DEF RowAt
  <2>2. CASE j \in 1 .. n
    <3>1. f[j - 1] = g[j - 1]
          BY <1>3, <1>6, <2>2
    <3>2. RowWays(s, t, i, v9, v0, f, j) = RowWays(s, t, i, v9, v0, g, j)
          BY <3>1 DEF RowWays
    <3> QED BY <3>2 DEF RowAt
  <2> QED BY <2>1, <2>2
<1>7. IsLocal(D, Nat, mu, step)
  <2> SUFFICES ASSUME NEW j \in D, NEW f \in [D -> Nat], NEW g \in [D -> Nat],
                      \A e \in D : mu[e] < mu[j] => f[e] = g[e]
               PROVE  step[<<f, j>>] = step[<<g, j>>]
      BY DEF IsLocal
  <2>1. RowAt(s, t, i, v9, v0, f, j) = RowAt(s, t, i, v9, v0, g, j)
        BY <1>6
  <2> QED BY <1>5, <2>1
<1>8. Nat # {}
      OBVIOUS
<1>9. PICK c \in [D -> Nat] : \A j \in D : c[j] = step[<<c, j>>]
  <2>1. IsComputed(D, Nat, step)
    <3> HIDE DEF D
    <3> QED BY <1>2, <1>4, <1>7, <1>8, Recursion
  <2> QED BY <2>1 DEF IsComputed
<1>10. c = [j \in D |-> RowAt(s, t, i, v9, v0, c, j)]
      BY <1>5, <1>9
<1>11. F = [j \in D |-> RowAt(s, t, i, v9, v0, F, j)]
      BY <1>10 DEF F
<1>12. \A j \in D : F[j] = RowAt(s, t, i, v9, v0, F, j)
      BY <1>11
<1>13. AreAlike(D, mu, F, c)
  <2> SUFFICES ASSUME NEW j \in D, \A e \in D : mu[e] < mu[j] => F[e] = c[e]
               PROVE  F[j] = c[j]
      BY DEF AreAlike
  <2>1. RowAt(s, t, i, v9, v0, F, j) = RowAt(s, t, i, v9, v0, c, j)
        BY <1>6
  <2> QED BY <1>5, <1>9, <1>12, <2>1
<1>14. Agree(D, F, c)
  <2>1. mu \in [D -> Nat]
        BY <1>2
  <2> HIDE DEF D
  <2> QED BY <1>13, <2>1, Same
<1>15. F = c
      BY <1>10, <1>11, <1>14 DEF Agree
<1> QED BY <1>1, <1>12, <1>15 DEF IsNextRow

Rows(n) == [v9 : [0 .. n -> Nat], v0 : [0 .. n -> Nat]]

TopRow(n) == [j \in 0 .. n |-> j * Insertion]

RowsAt(s, t, rows, i) ==
    IF i = 0 THEN [v9 |-> TopRow(Len(t)), v0 |-> TopRow(Len(t))]
    ELSE [v9 |-> rows[i - 1].v0, v0 |-> NextRow(s, t, i, rows[i - 1].v9, rows[i - 1].v0)]

LEMMA RowsAtType ==
    ASSUME NEW s, NEW t, NEW m \in Nat, NEW n \in Nat, Len(t) = n,
           NEW rows \in [0 .. m -> Rows(n)], NEW i \in 0 .. m
    PROVE  RowsAt(s, t, rows, i) \in Rows(n)
<1>1. CASE i = 0
  <2>1. TopRow(n) \in [0 .. n -> Nat]
        BY DEF TopRow, Insertion
  <2> QED BY <1>1, <2>1 DEF RowsAt, Rows
<1>2. CASE i \in 1 .. m
  <2>1. i - 1 \in 0 .. m
        BY <1>2
  <2>2. rows[i - 1].v9 \in [0 .. n -> Nat] /\ rows[i - 1].v0 \in [0 .. n -> Nat]
        BY <2>1 DEF Rows
  <2>3. NextRow(s, t, i, rows[i - 1].v9, rows[i - 1].v0) \in [0 .. n -> Nat]
    <3> DEFINE v9 == rows[i - 1].v9
               v0 == rows[i - 1].v0
    <3>0. i \in Nat
          BY <1>2
    <3>1. v9 \in [0 .. n -> Nat] /\ v0 \in [0 .. n -> Nat]
          BY <2>2
    <3> HIDE DEF v9, v0
    <3>2. NextRow(s, t, i, v9, v0) \in [0 .. n -> Nat]
          BY <3>0, <3>1, NextRowEquations DEF IsNextRow
    <3> QED BY <3>2 DEF v9, v0
  <2>4. RowsAt(s, t, rows, i) =
            [v9 |-> rows[i - 1].v0, v0 |-> NextRow(s, t, i, rows[i - 1].v9, rows[i - 1].v0)]
        BY <1>2 DEF RowsAt
  <2>5. \A a, b \in [0 .. n -> Nat] : [v9 |-> a, v0 |-> b] \in Rows(n)
        BY DEF Rows
  <2> HIDE DEF Rows
  <2> QED BY <2>2, <2>3, <2>4, <2>5
<1> QED BY <1>1, <1>2

AreRows(s, t, m, n, rows) ==
    /\ rows \in [0 .. m -> Rows(n)] /\ Levenshtein(s, t) = rows[m].v0[n]
    /\ \A i \in 0 .. m : rows[i] = RowsAt(s, t, rows, i)

LEMMA RowsEquations ==
    ASSUME NEW s, NEW t, NEW m \in Nat, NEW n \in Nat, Len(s) = m, Len(t) = n
    PROVE  \E rows : AreRows(s, t, m, n, rows)
<1> DEFINE D == 0 .. m
           T == Rows(n)
           F == CHOOSE rows : rows = [i \in D |-> RowsAt(s, t, rows, i)]
           mu == Index(m)
           step == [x \in [D -> T] \X D |-> RowsAt(s, t, x[1], x[2])]
<1>1. Levenshtein(s, t) = F[m].v0[n]
      BY DEF Levenshtein, RowsAt, TopRow
<1>2. mu \in [D -> Nat] /\ IsBounded(D, mu)
      BY IndexType
<1>3. \A i \in D : mu[i] = i
      BY IndexType
<1>4. step \in [[D -> T] \X D -> T]
  <2> SUFFICES ASSUME NEW rows \in [D -> T], NEW i \in D
               PROVE  RowsAt(s, t, rows, i) \in T
      OBVIOUS
  <2> QED BY RowsAtType
<1>5. \A rows \in [D -> T], i \in D : step[<<rows, i>>] = RowsAt(s, t, rows, i)
      OBVIOUS
<1> HIDE DEF step, mu, F
<1>6. ASSUME NEW i \in D, NEW f, NEW g, \A e \in D : mu[e] < mu[i] => f[e] = g[e]
      PROVE  RowsAt(s, t, f, i) = RowsAt(s, t, g, i)
  <2>1. CASE i = 0
        BY <2>1 DEF RowsAt
  <2>2. CASE i \in 1 .. m
    <3>1. f[i - 1] = g[i - 1]
          BY <1>3, <1>6, <2>2
    <3> QED BY <3>1 DEF RowsAt
  <2> QED BY <2>1, <2>2
<1>7. IsLocal(D, T, mu, step)
  <2> SUFFICES ASSUME NEW i \in D, NEW f \in [D -> T], NEW g \in [D -> T],
                      \A e \in D : mu[e] < mu[i] => f[e] = g[e]
               PROVE  step[<<f, i>>] = step[<<g, i>>]
      BY DEF IsLocal
  <2>1. RowsAt(s, t, f, i) = RowsAt(s, t, g, i)
        BY <1>6
  <2> QED BY <1>5, <2>1
<1>8. T # {}
  <2>1. [v9 |-> TopRow(n), v0 |-> TopRow(n)] \in T
        BY DEF TopRow, Insertion, Rows
  <2> QED BY <2>1
<1>9. PICK c \in [D -> T] : \A i \in D : c[i] = step[<<c, i>>]
  <2>1. IsComputed(D, T, step)
    <3> HIDE DEF D, T
    <3> QED BY <1>2, <1>4, <1>7, <1>8, Recursion
  <2> QED BY <2>1 DEF IsComputed
<1>10. c = [i \in D |-> RowsAt(s, t, c, i)]
      BY <1>5, <1>9
<1>11. F = [i \in D |-> RowsAt(s, t, F, i)]
      BY <1>10 DEF F
<1>12. \A i \in D : F[i] = RowsAt(s, t, F, i)
      BY <1>11
<1>13. AreAlike(D, mu, F, c)
  <2> SUFFICES ASSUME NEW i \in D, \A e \in D : mu[e] < mu[i] => F[e] = c[e]
               PROVE  F[i] = c[i]
      BY DEF AreAlike
  <2>1. RowsAt(s, t, F, i) = RowsAt(s, t, c, i)
        BY <1>6
  <2> QED BY <1>5, <1>9, <1>12, <2>1
<1>14. Agree(D, F, c)
  <2>1. mu \in [D -> Nat]
        BY <1>2
  <2> HIDE DEF D
  <2> QED BY <1>13, <2>1, Same
<1>15. F = c
      BY <1>10, <1>11, <1>14 DEF Agree
<1>16. AreRows(s, t, m, n, c)
      BY <1>1, <1>12, <1>15 DEF AreRows
<1> QED BY <1>16

WaysTo(s, t, P, i, j) ==
    {P[<<i, j>>] + Replaced(s[i], t[j]), P[<<i, j + 1>>] + Deletion, P[<<i + 1, j>>] + Insertion}
    \cup (IF i > 1 /\ j > 1 /\ s[i - 1] = t[j] /\ s[i] = t[j - 1]
          THEN {P[<<i - 1, j - 1>>] + Transposition} ELSE {})

(* P[<<i, j>>] stands for the element j - 1 of the row i - 1. *)
IsPriced(s, t, m, n, P) ==
    /\ P \in [Cells(m, n) -> Nat]
    /\ \A j \in 1 .. n + 1 : P[<<1, j>>] = j - 1
    /\ \A i \in 1 .. m + 1 : P[<<i, 1>>] = (i - 1) * 3
    /\ \A i \in 1 .. m, j \in 1 .. n : P[<<i + 1, j + 1>>] = LeastOf(WaysTo(s, t, P, i, j))

LEMMA LevenshteinEquations ==
    ASSUME NEW s, NEW t, NEW m \in Nat, NEW n \in Nat, Len(s) = m, Len(t) = n
    PROVE  \E P : IsPriced(s, t, m, n, P) /\ Levenshtein(s, t) = P[<<m + 1, n + 1>>]
<1>0. PICK rows : AreRows(s, t, m, n, rows)
      BY RowsEquations
<1>1. /\ rows \in [0 .. m -> Rows(n)] /\ Levenshtein(s, t) = rows[m].v0[n]
      /\ \A i \in 0 .. m : rows[i] = RowsAt(s, t, rows, i)
      BY <1>0 DEF AreRows
<1> DEFINE P == [at \in Cells(m, n) |-> rows[at[1] - 1].v0[at[2] - 1]]
<1>2. \A i \in 1 .. m + 1, j \in 1 .. n + 1 :
          <<i, j>> \in Cells(m, n) /\ P[<<i, j>>] = rows[i - 1].v0[j - 1]
      BY DEF Cells
<1>3. \A i \in 0 .. m : rows[i].v0 \in [0 .. n -> Nat] /\ rows[i].v9 \in [0 .. n -> Nat]
      BY <1>1 DEF Rows
<1>4. P \in [Cells(m, n) -> Nat]
  <2>1. ASSUME NEW at \in Cells(m, n) PROVE rows[at[1] - 1].v0[at[2] - 1] \in Nat
    <3>1. at[1] - 1 \in 0 .. m /\ at[2] - 1 \in 0 .. n
          BY DEF Cells
    <3> QED BY <1>3, <3>1
  <2> QED BY <2>1
<1> HIDE DEF P
<1>5. /\ rows[0].v9 = TopRow(n) /\ rows[0].v0 = TopRow(n)
  <2>1. 0 \in 0 .. m /\ rows[0] = RowsAt(s, t, rows, 0)
        BY <1>1
  <2>2. RowsAt(s, t, rows, 0) = [v9 |-> TopRow(n), v0 |-> TopRow(n)]
        BY DEF RowsAt
  <2> QED BY <2>1, <2>2
<1>6. ASSUME NEW i \in 1 .. m
      PROVE  /\ rows[i].v9 = rows[i - 1].v0
             /\ \A j \in 0 .. n : rows[i].v0[j] =
                    RowAt(s, t, i, rows[i - 1].v9, rows[i - 1].v0, rows[i].v0, j)
  <2> DEFINE v9 == rows[i - 1].v9
             v0 == rows[i - 1].v0
             v1 == rows[i].v0
  <2>1. i \in 0 .. m /\ i # 0 /\ i - 1 \in 0 .. m /\ i \in Nat
        OBVIOUS
  <2>2. rows[i] = [v9 |-> v0, v0 |-> NextRow(s, t, i, v9, v0)]
        BY <1>1, <2>1 DEF RowsAt
  <2>3. v9 \in [0 .. n -> Nat] /\ v0 \in [0 .. n -> Nat] /\ v1 = NextRow(s, t, i, v9, v0)
        BY <1>3, <2>1, <2>2
  <2>4. rows[i].v9 = v0
        BY <2>2
  <2> HIDE DEF v9, v0, v1
  <2>5. IsNextRow(s, t, n, i, v9, v0, NextRow(s, t, i, v9, v0))
        BY <2>1, <2>3, NextRowEquations
  <2>6. \A j \in 0 .. n : v1[j] = RowAt(s, t, i, v9, v0, v1, j)
        BY <2>3, <2>5 DEF IsNextRow
  <2> QED BY <2>4, <2>6 DEF v9, v0, v1
<1>7. ASSUME NEW j \in 1 .. n + 1 PROVE P[<<1, j>>] = j - 1
  <2>1. 1 \in 1 .. m + 1 /\ j - 1 \in 0 .. n /\ 1 - 1 = 0
        OBVIOUS
  <2>2. P[<<1, j>>] = rows[0].v0[j - 1]
        BY <1>2, <2>1
  <2>3. TopRow(n)[j - 1] = j - 1
        BY <2>1 DEF TopRow, Insertion
  <2> QED BY <1>5, <2>2, <2>3
<1>8. ASSUME NEW i \in 1 .. m + 1 PROVE P[<<i, 1>>] = (i - 1) * 3
  <2>1. 1 \in 1 .. n + 1 /\ 1 - 1 = 0 /\ 0 \in 0 .. n
        OBVIOUS
  <2>2. P[<<i, 1>>] = rows[i - 1].v0[0]
        BY <1>2, <2>1
  <2>3. CASE i = 1
    <3>1. rows[0].v0[0] = 0
          BY <1>5, <2>1 DEF TopRow, Insertion
    <3> QED BY <2>2, <2>3, <3>1
  <2>4. CASE i # 1
    <3>1. i - 1 \in 1 .. m
          BY <2>4
    <3>2. rows[i - 1].v0[0] = (i - 1) * Deletion
          BY <1>6, <2>1, <3>1 DEF RowAt
    <3> QED BY <2>2, <3>2 DEF Deletion
  <2> QED BY <2>3, <2>4
<1>9. ASSUME NEW i \in 1 .. m, NEW j \in 1 .. n
      PROVE  P[<<i + 1, j + 1>>] = LeastOf(WaysTo(s, t, P, i, j))
  <2>1. /\ P[<<i + 1, j + 1>>] = rows[i].v0[j] /\ P[<<i, j>>] = rows[i - 1].v0[j - 1]
        /\ P[<<i, j + 1>>] = rows[i - 1].v0[j] /\ P[<<i + 1, j>>] = rows[i].v0[j - 1]
    <3>1. /\ i \in 1 .. m + 1 /\ i + 1 \in 1 .. m + 1 /\ (i + 1) - 1 = i
          /\ j \in 1 .. n + 1 /\ j + 1 \in 1 .. n + 1 /\ (j + 1) - 1 = j
          OBVIOUS
    <3> QED BY <1>2, <3>1
  <2>2. i > 1 /\ j > 1 => P[<<i - 1, j - 1>>] = rows[i - 1].v9[j - 2]
    <3> HAVE i > 1 /\ j > 1
    <3>1. i - 1 \in 1 .. m /\ i - 1 \in 1 .. m + 1 /\ j - 1 \in 1 .. n + 1 /\ (j - 1) - 1 = j - 2
          OBVIOUS
    <3>2. P[<<i - 1, j - 1>>] = rows[(i - 1) - 1].v0[j - 2]
          BY <1>2, <3>1
    <3>3. rows[i - 1].v9 = rows[(i - 1) - 1].v0
          BY <1>6, <3>1
    <3> QED BY <3>2, <3>3
  <2>3. rows[i].v0[j] = LeastOf(RowWays(s, t, i, rows[i - 1].v9, rows[i - 1].v0, rows[i].v0, j))
        BY <1>6 DEF RowAt
  <2>4. RowWays(s, t, i, rows[i - 1].v9, rows[i - 1].v0, rows[i].v0, j) = WaysTo(s, t, P, i, j)
        BY <2>1, <2>2 DEF RowWays, WaysTo
  <2> QED BY <2>1, <2>3, <2>4
<1>10. Levenshtein(s, t) = P[<<m + 1, n + 1>>]
  <2>1. m + 1 \in 1 .. m + 1 /\ n + 1 \in 1 .. n + 1 /\ (m + 1) - 1 = m /\ (n + 1) - 1 = n
        OBVIOUS
  <2> QED BY <1>1, <1>2, <2>1
<1> QED BY <1>4, <1>7, <1>8, <1>9, <1>10 DEF IsPriced

LEMMA WaysToType ==
    ASSUME NEW s, NEW t, NEW m \in Nat, NEW n \in Nat, NEW P \in [Cells(m, n) -> Nat],
           NEW i \in 1 .. m, NEW j \in 1 .. n
    PROVE  WaysTo(s, t, P, i, j) \subseteq Nat /\ WaysTo(s, t, P, i, j) # {}
<1>1. Replaced(s[i], t[j]) \in Nat
      BY ReplacedNat
<1>2. /\ P[<<i, j>>] \in Nat /\ P[<<i, j + 1>>] \in Nat /\ P[<<i + 1, j>>] \in Nat
      /\ i > 1 /\ j > 1 => P[<<i - 1, j - 1>>] \in Nat
  <2>1. /\ i \in 1 .. m + 1 /\ i + 1 \in 1 .. m + 1 /\ (i > 1 => i - 1 \in 1 .. m + 1)
        /\ j \in 1 .. n + 1 /\ j + 1 \in 1 .. n + 1 /\ (j > 1 => j - 1 \in 1 .. n + 1)
        OBVIOUS
  <2> QED BY <2>1 DEF Cells
<1>3. ASSUME NEW x \in WaysTo(s, t, P, i, j) PROVE x \in Nat
  <2>1. \/ x = P[<<i, j>>] + Replaced(s[i], t[j]) \/ x = P[<<i, j + 1>>] + Deletion
        \/ x = P[<<i + 1, j>>] + Insertion
        \/ i > 1 /\ j > 1 /\ x = P[<<i - 1, j - 1>>] + Transposition
        BY <1>3 DEF WaysTo
  <2>2. \A a, b \in Nat : a + b \in Nat
        OBVIOUS
  <2>3. Deletion \in Nat /\ Insertion \in Nat /\ Transposition \in Nat
        BY DEF Deletion, Insertion, Transposition
  <2> QED BY <1>1, <1>2, <2>1, <2>2, <2>3, Zenon
<1>4. P[<<i, j + 1>>] + Deletion \in WaysTo(s, t, P, i, j)
      BY DEF WaysTo
<1> QED BY <1>3, <1>4

LEMMA PricedForward ==
    ASSUME NEW s, NEW t, NEW m \in Nat, NEW n \in Nat, Len(s) = m, Len(t) = n,
           NEW P, IsPriced(s, t, m, n, P)
    PROVE  Forward(Cells(m, n), Edits(s, t, m, n), P, <<1, 1>>)
<1>1. /\ P \in [Cells(m, n) -> Nat]
      /\ \A j \in 1 .. n + 1 : P[<<1, j>>] = j - 1
      /\ \A i \in 1 .. m + 1 : P[<<i, 1>>] = (i - 1) * 3
      BY DEF IsPriced
<1>2. <<1, 1>> \in Cells(m, n) /\ P[<<1, 1>>] = 0
  <2>1. 1 \in 1 .. m + 1 /\ 1 \in 1 .. n + 1
        OBVIOUS
  <2> QED BY <1>1, <2>1 DEF Cells
<1>3. ASSUME NEW k \in 1 .. m + 1, NEW l \in 1 .. n + 1, k # 1, l # 1
      PROVE  /\ P[<<k, l>>] \in WaysTo(s, t, P, k - 1, l - 1)
             /\ \A y \in WaysTo(s, t, P, k - 1, l - 1) : P[<<k, l>>] <= y
  <2>1. k - 1 \in 1 .. m /\ l - 1 \in 1 .. n /\ (k - 1) + 1 = k /\ (l - 1) + 1 = l
        BY <1>3
  <2>2. P[<<k, l>>] = LeastOf(WaysTo(s, t, P, k - 1, l - 1))
        BY <2>1 DEF IsPriced
  <2>3. WaysTo(s, t, P, k - 1, l - 1) \subseteq Nat /\ WaysTo(s, t, P, k - 1, l - 1) # {}
        BY <1>1, <2>1, WaysToType
  <2> QED BY <2>2, <2>3, LeastIs
<1>4. ASSUME NEW u, NEW v, NEW w, <<u, v, w>> \in Edits(s, t, m, n)
      PROVE  P[v] <= P[u] + w
  <2>1. PICK i \in 1 .. m + 1, k \in 1 .. m + 1, j \in 1 .. n + 1, l \in 1 .. n + 1 :
              /\ u = <<i, j>> /\ v = <<k, l>> /\ w \in Nat
              /\ IsEdit(s, t, i, j, k, l, w)
        BY <1>4, AnEdit
  <2>2. CASE k = 1
    <3>1. i = 1 /\ l = j + 1 /\ w = 1
          BY <2>1, <2>2 DEF IsEdit, Insertion
    <3>2. P[u] = j - 1 /\ P[v] = l - 1
          BY <1>1, <2>1, <2>2, <3>1
    <3> QED BY <3>1, <3>2
  <2>3. CASE l = 1
    <3>1. j = 1 /\ k = i + 1 /\ w = 3
          BY <2>1, <2>3 DEF IsEdit, Deletion
    <3>2. P[u] = (i - 1) * 3 /\ P[v] = ((i + 1) - 1) * 3
          BY <1>1, <2>1, <2>3, <3>1
    <3> QED BY <3>1, <3>2
  <2>4. CASE k # 1 /\ l # 1
    <3>1. P[u] + w \in WaysTo(s, t, P, k - 1, l - 1)
      <4>1. CASE k = i + 1 /\ l = j /\ w = Deletion
        <5>1. k - 1 = i /\ (l - 1) + 1 = j
              BY <4>1
        <5> QED BY <2>1, <4>1, <5>1 DEF WaysTo
      <4>2. CASE k = i /\ l = j + 1 /\ w = Insertion
        <5>1. (k - 1) + 1 = i /\ l - 1 = j
              BY <4>2
        <5> QED BY <2>1, <4>2, <5>1 DEF WaysTo
      <4>3. CASE k = i + 1 /\ l = j + 1 /\ w = Replaced(s[i], t[j])
        <5>1. k - 1 = i /\ l - 1 = j
              BY <4>3
        <5> QED BY <2>1, <4>3, <5>1 DEF WaysTo
      <4>4. CASE k = i + 2 /\ l = j + 2 /\ w = Transposition /\ Swapping(s, t, i, j)
        <5>1. k - 1 = i + 1 /\ l - 1 = j + 1 /\ (k - 1) - 1 = i /\ (l - 1) - 1 = j
              /\ k - 1 > 1 /\ l - 1 > 1
              BY <4>4
        <5> QED BY <2>1, <4>4, <5>1 DEF WaysTo, Swapping
      <4> QED BY <2>1, <4>1, <4>2, <4>3, <4>4 DEF IsEdit
    <3> QED BY <1>3, <2>1, <2>4, <3>1
  <2> QED BY <2>2, <2>3, <2>4
<1>5. ASSUME NEW v \in Cells(m, n), v # <<1, 1>>
      PROVE  \E u, w : <<u, v, w>> \in Edits(s, t, m, n) /\ P[v] = P[u] + w
  <2>1. PICK k \in 1 .. m + 1, l \in 1 .. n + 1 : v = <<k, l>>
        BY DEF Cells
  <2>2. CASE k = 1
    <3>1. l - 1 \in 1 .. n + 1 /\ (l - 1) + 1 = l
          BY <1>5, <2>1, <2>2
    <3>2. IsEdit(s, t, k, l - 1, k, l, 1)
          BY <3>1 DEF IsEdit, Insertion
    <3>3. <<<<k, l - 1>>, v, 1>> \in Edits(s, t, m, n)
          BY <2>1, <3>1, <3>2, InEdits
    <3>4. P[v] = l - 1 /\ P[<<k, l - 1>>] = (l - 1) - 1
          BY <1>1, <2>1, <2>2, <3>1
    <3>5. P[v] = P[<<k, l - 1>>] + 1
          BY <3>4
    <3> QED BY <3>3, <3>5
  <2>3. CASE l = 1
    <3>1. k - 1 \in 1 .. m + 1 /\ (k - 1) + 1 = k
          BY <1>5, <2>1, <2>3
    <3>2. IsEdit(s, t, k - 1, l, k, l, 3)
          BY <3>1 DEF IsEdit, Deletion
    <3>3. <<<<k - 1, l>>, v, 3>> \in Edits(s, t, m, n)
          BY <2>1, <3>1, <3>2, InEdits
    <3>4. P[v] = (k - 1) * 3 /\ P[<<k - 1, l>>] = ((k - 1) - 1) * 3
          BY <1>1, <2>1, <2>3, <3>1
    <3>5. P[v] = P[<<k - 1, l>>] + 3
          BY <3>4
    <3> QED BY <3>3, <3>5
  <2>4. CASE k # 1 /\ l # 1
    <3> DEFINE i == k - 1
               j == l - 1
    <3>1. /\ i \in 1 .. m + 1 /\ j \in 1 .. n + 1 /\ i + 1 = k /\ j + 1 = l
          /\ i - 1 \in Int /\ j - 1 \in Int /\ i <= m /\ j <= n
          BY <2>4
    <3>2. P[v] \in WaysTo(s, t, P, i, j)
          BY <1>3, <2>1, <2>4
    <3> HIDE DEF i, j
    <3>3. PICK a, b, w : /\ a \in 1 .. m + 1 /\ b \in 1 .. n + 1 /\ w \in Nat
                         /\ P[v] = P[<<a, b>>] + w
                         /\ IsEdit(s, t, a, b, k, l, w)
      <4>0. Deletion \in Nat /\ Insertion \in Nat /\ Transposition \in Nat
            BY DEF Deletion, Insertion, Transposition
      <4>1. CASE P[v] = P[<<i, j + 1>>] + Deletion
        <5>1. IsEdit(s, t, i, j + 1, k, l, Deletion)
              BY <3>1 DEF IsEdit
        <5>2. j + 1 \in 1 .. n + 1
              BY <3>1
        <5> QED BY <3>1, <4>0, <4>1, <5>1, <5>2
      <4>2. CASE P[v] = P[<<i + 1, j>>] + Insertion
        <5>1. IsEdit(s, t, i + 1, j, k, l, Insertion)
              BY <3>1 DEF IsEdit
        <5>2. i + 1 \in 1 .. m + 1
              BY <3>1
        <5> QED BY <3>1, <4>0, <4>2, <5>1, <5>2
      <4>3. CASE P[v] = P[<<i, j>>] + Replaced(s[i], t[j])
        <5>1. IsEdit(s, t, i, j, k, l, Replaced(s[i], t[j])) /\ Replaced(s[i], t[j]) \in Nat
              BY <3>1, ReplacedNat DEF IsEdit
        <5> QED BY <3>1, <4>3, <5>1
      <4>4. CASE /\ i > 1 /\ j > 1 /\ s[i - 1] = t[j] /\ s[i] = t[j - 1]
                 /\ P[v] = P[<<i - 1, j - 1>>] + Transposition
        <5>1. /\ i - 1 \in 1 .. m + 1 /\ j - 1 \in 1 .. n + 1 /\ (i - 1) + 1 = i /\ (j - 1) + 1 = j
              /\ k = (i - 1) + 2 /\ l = (j - 1) + 2 /\ i - 1 < m /\ j - 1 < n
              BY <3>1, <4>4
        <5>2. Swapping(s, t, i - 1, j - 1)
              BY <4>4, <5>1 DEF Swapping
        <5>3. IsEdit(s, t, i - 1, j - 1, k, l, Transposition)
              BY <5>1, <5>2 DEF IsEdit
        <5> QED BY <4>0, <4>4, <5>1, <5>3
      <4> QED BY <3>2, <4>1, <4>2, <4>3, <4>4 DEF WaysTo
    <3>4. <<<<a, b>>, v, w>> \in Edits(s, t, m, n)
          BY <2>1, <3>3, InEdits
    <3> QED BY <3>3, <3>4
  <2> QED BY <2>2, <2>3, <2>4
<1> QED BY <1>1, <1>2, <1>4, <1>5 DEF Forward

(* levenshtein_w(): what the last row ends with is the cost of the cheapest way to
   turn the one word into the other, for words of any length. *)
THEOREM LevenshteinIsCost ==
    ASSUME NEW s \in Seq(STRING), NEW t \in Seq(STRING)
    PROVE  Levenshtein(s, t) = Cost(s, t) /\ Cost(s, t) \in Nat
<1> DEFINE m == Len(s)
           n == Len(t)
<1>1. m \in Nat /\ n \in Nat /\ Len(s) = m /\ Len(t) = n
      OBVIOUS
<1> HIDE DEF m, n
<1>2. PICK C \in [Cells(m, n) -> Nat] :
          /\ Cost(s, t) = C[<<1, 1>>]
          /\ \A i \in 1 .. m + 1, j \in 1 .. n + 1 : C[<<i, j>>] = CostAt(s, t, C, i, j)
      BY <1>1, CostEquations
<1>3. PICK P : IsPriced(s, t, m, n, P) /\ Levenshtein(s, t) = P[<<m + 1, n + 1>>]
      BY <1>1, LevenshteinEquations
<1>4. Backward(Cells(m, n), Edits(s, t, m, n), C, <<m + 1, n + 1>>)
      BY <1>1, <1>2, CostBackward
<1>5. Forward(Cells(m, n), Edits(s, t, m, n), P, <<1, 1>>)
      BY <1>1, <1>3, PricedForward
<1>6. LeadsOn(Cells(m, n), Edits(s, t, m, n), Left(m, n), Done(m, n))
      BY <1>1, EditsLeadOn
<1>7. P[<<m + 1, n + 1>>] = C[<<1, 1>>]
      BY <1>4, <1>5, <1>6, EitherWay
<1>8. C[<<1, 1>>] \in Nat
  <2>1. <<1, 1>> \in Cells(m, n)
        BY <1>1 DEF Cells
  <2> QED BY <2>1
<1> QED BY <1>2, <1>3, <1>7, <1>8
-------------------------------------------------------------------------------
(***************************************************************************)
(* merge_sort(): whatever order R the comparison goes by, the elements end *)
(* up in that order, and all of them.                                      *)
(***************************************************************************)
Elems(w) == {w[i] : i \in 1 .. Len(w)}

Increasing(w, R) == \A i, j \in 1 .. Len(w) : i < j => <<w[i], w[j]>> \in R

IsTransitive(E, R) == \A x, y, z \in E : <<x, y>> \in R /\ <<y, z>> \in R => <<x, z>> \in R

LEMMA Prepended ==
    ASSUME NEW E, NEW x \in E, NEW w \in Seq(E)
    PROVE  /\ <<x>> \o w \in Seq(E) /\ Len(<<x>> \o w) = Len(w) + 1 /\ (<<x>> \o w)[1] = x
           /\ \A i \in 2 .. Len(w) + 1 : (<<x>> \o w)[i] = w[i - 1]
           /\ Elems(<<x>> \o w) = {x} \cup Elems(w)
<1> DEFINE v == <<x>> \o w
<1>1. v \in Seq(E) /\ Len(v) = Len(w) + 1 /\ v[1] = x
      OBVIOUS
<1>2. \A i \in 2 .. Len(w) + 1 : v[i] = w[i - 1]
      OBVIOUS
<1> HIDE DEF v
<1>3. Elems(v) = {x} \cup Elems(w)
  <2>1. ASSUME NEW y \in Elems(v) PROVE y \in {x} \cup Elems(w)
    <3>1. PICK i \in 1 .. Len(w) + 1 : y = v[i]
          BY <1>1, <2>1 DEF Elems
    <3>2. CASE i = 1
          BY <1>1, <3>1, <3>2
    <3>3. CASE i # 1
      <4>1. i \in 2 .. Len(w) + 1 /\ i - 1 \in 1 .. Len(w)
            BY <3>3
      <4> QED BY <1>2, <3>1, <4>1 DEF Elems
    <3> QED BY <3>2, <3>3
  <2>2. x \in Elems(v)
        BY <1>1 DEF Elems
  <2>3. ASSUME NEW y \in Elems(w) PROVE y \in Elems(v)
    <3>1. PICK i \in 1 .. Len(w) : y = w[i]
          BY <2>3 DEF Elems
    <3>2. i + 1 \in 2 .. Len(w) + 1 /\ i + 1 \in 1 .. Len(w) + 1 /\ (i + 1) - 1 = i
          OBVIOUS
    <3>3. v[i + 1] = y
          BY <1>2, <3>1, <3>2
    <3> QED BY <1>1, <3>2, <3>3 DEF Elems
  <2> QED BY <2>1, <2>2, <2>3
<1> QED BY <1>1, <1>2, <1>3 DEF v

LEMMA PrependedIncreasing ==
    ASSUME NEW E, NEW R, NEW x \in E, NEW w \in Seq(E), Increasing(w, R),
           \A y \in Elems(w) : <<x, y>> \in R
    PROVE  Increasing(<<x>> \o w, R)
<1> DEFINE v == <<x>> \o w
<1>1. /\ Len(v) = Len(w) + 1 /\ v[1] = x /\ Len(w) \in Nat
      /\ \A i \in 2 .. Len(w) + 1 : v[i] = w[i - 1]
      BY Prepended
<1> HIDE DEF v
<1>2. ASSUME NEW i \in 1 .. Len(w) + 1, NEW j \in 1 .. Len(w) + 1, i < j
      PROVE  <<v[i], v[j]>> \in R
  <2>1. j \in 2 .. Len(w) + 1 /\ j - 1 \in 1 .. Len(w)
        BY <1>1, <1>2
  <2>2. v[j] = w[j - 1]
        BY <1>1, <2>1
  <2>3. CASE i = 1
    <3>1. w[j - 1] \in Elems(w)
          BY <2>1 DEF Elems
    <3> QED BY <1>1, <2>2, <2>3, <3>1
  <2>4. CASE i # 1
    <3>1. i \in 2 .. Len(w) + 1 /\ i - 1 \in 1 .. Len(w) /\ i - 1 < j - 1
          BY <1>1, <1>2, <2>4
    <3>2. v[i] = w[i - 1]
          BY <1>1, <3>1
    <3> QED BY <2>1, <2>2, <3>1, <3>2 DEF Increasing
  <2> QED BY <2>3, <2>4
<1> QED BY <1>1, <1>2 DEF Increasing, v

(* The rest of w from its element k on. *)
LEMMA RestFrom ==
    ASSUME NEW E, NEW w \in Seq(E), NEW k \in 1 .. Len(w) + 1
    PROVE  /\ SubSeq(w, k, Len(w)) \in Seq(E) /\ Len(SubSeq(w, k, Len(w))) = Len(w) + 1 - k
           /\ \A i \in 1 .. Len(w) + 1 - k : SubSeq(w, k, Len(w))[i] = w[i + k - 1]
           /\ Elems(SubSeq(w, k, Len(w))) = {w[i] : i \in k .. Len(w)}
<1> DEFINE v == SubSeq(w, k, Len(w))
<1>1. /\ v \in Seq(E) /\ Len(v) = Len(w) + 1 - k
      /\ \A i \in 1 .. Len(w) + 1 - k : v[i] = w[i + k - 1]
  <2>1. Len(w) \in Nat /\ k \in Nat
        OBVIOUS
  <2>2. \A i \in k .. Len(w) : w[i] \in E
        OBVIOUS
  <2>3. v = [i \in 1 .. (IF k <= Len(w) THEN Len(w) - k + 1 ELSE 0) |-> w[i + k - 1]]
        BY <2>1, SubSeqProperties
  <2> QED BY <2>1, <2>2, <2>3, SubSeqProperties
<1> HIDE DEF v
<1>2. Elems(v) = {w[i] : i \in k .. Len(w)}
  <2>1. ASSUME NEW y \in Elems(v) PROVE y \in {w[i] : i \in k .. Len(w)}
    <3>1. PICK i \in 1 .. Len(w) + 1 - k : y = v[i]
          BY <1>1, <2>1 DEF Elems
    <3>2. i + k - 1 \in k .. Len(w) /\ y = w[i + k - 1]
          BY <1>1, <3>1
    <3> QED BY <3>2
  <2>2. ASSUME NEW i \in k .. Len(w) PROVE w[i] \in Elems(v)
    <3>1. i - k + 1 \in 1 .. Len(w) + 1 - k /\ (i - k + 1) + k - 1 = i
          OBVIOUS
    <3>2. v[i - k + 1] = w[i]
          BY <1>1, <3>1
    <3> QED BY <1>1, <3>1, <3>2 DEF Elems
  <2> QED BY <2>1, <2>2
<1> QED BY <1>1, <1>2 DEF v

Above(x, y) == x.ext > y.ext

MergeAt(al, ar, M, l, r) ==
    IF l > Len(al) THEN SubSeq(ar, r, Len(ar))
    ELSE IF r > Len(ar) THEN SubSeq(al, l, Len(al))
    ELSE IF Above(al[l], ar[r]) THEN <<ar[r]>> \o M[<<l, r + 1>>]
    ELSE <<al[l]>> \o M[<<l + 1, r>>]

LEMMA MergeAtType ==
    ASSUME NEW E, NEW al \in Seq(E), NEW ar \in Seq(E), NEW m \in Nat, NEW n \in Nat,
           Len(al) = m, Len(ar) = n, NEW M \in [Cells(m, n) -> Seq(E)],
           NEW l \in 1 .. m + 1, NEW r \in 1 .. n + 1
    PROVE  MergeAt(al, ar, M, l, r) \in Seq(E)
<1>1. CASE l > m
      BY <1>1, RestFrom DEF MergeAt
<1>2. CASE ~(l > m) /\ r > n
      BY <1>2, RestFrom DEF MergeAt
<1>3. CASE l \in 1 .. m /\ r \in 1 .. n
  <2>1. <<l, r + 1>> \in Cells(m, n) /\ <<l + 1, r>> \in Cells(m, n)
        BY <1>3, Neighbours
  <2>2. M[<<l, r + 1>>] \in Seq(E) /\ M[<<l + 1, r>>] \in Seq(E)
        BY <2>1
  <2>3. al[l] \in E /\ ar[r] \in E
        BY <1>3
  <2>4. <<ar[r]>> \o M[<<l, r + 1>>] \in Seq(E) /\ <<al[l]>> \o M[<<l + 1, r>>] \in Seq(E)
        BY <2>2, <2>3, Prepended
  <2> QED BY <1>3, <2>4 DEF MergeAt
<1> QED BY <1>1, <1>2, <1>3

IsMerge(E, al, ar, m, n, M) ==
    /\ M \in [Cells(m, n) -> Seq(E)] /\ Merge(al, ar) = M[<<1, 1>>]
    /\ \A l \in 1 .. m + 1, r \in 1 .. n + 1 : M[<<l, r>>] = MergeAt(al, ar, M, l, r)

LEMMA MergeEquations ==
    ASSUME NEW E, NEW al \in Seq(E), NEW ar \in Seq(E), NEW m \in Nat, NEW n \in Nat,
           Len(al) = m, Len(ar) = n
    PROVE  \E M : IsMerge(E, al, ar, m, n, M)
<1> DEFINE G == Cells(m, n)
           T == Seq(E)
           mu == Left(m, n)
           F == CHOOSE M : M = [at \in G |-> MergeAt(al, ar, M, at[1], at[2])]
           step == [x \in [G -> T] \X G |-> MergeAt(al, ar, x[1], x[2][1], x[2][2])]
<1>1. Merge(al, ar) = F[<<1, 1>>]
      BY DEF Merge, MergeAt, Cells, Above
<1>2. \A at \in G : at[1] \in 1 .. m + 1 /\ at[2] \in 1 .. n + 1 /\ at = <<at[1], at[2]>>
      BY DEF Cells
<1>3. mu \in [G -> Nat] /\ IsBounded(G, mu)
      BY LeftType
<1>4. step \in [[G -> T] \X G -> T]
  <2> SUFFICES ASSUME NEW M \in [G -> T], NEW at \in G
               PROVE  MergeAt(al, ar, M, at[1], at[2]) \in T
      OBVIOUS
  <2> QED BY <1>2, MergeAtType
<1>5. \A M \in [G -> T], at \in G : step[<<M, at>>] = MergeAt(al, ar, M, at[1], at[2])
      OBVIOUS
<1> HIDE DEF step, mu, F
<1>6. ASSUME NEW at \in G, NEW f, NEW g, \A e \in G : mu[e] < mu[at] => f[e] = g[e]
      PROVE  MergeAt(al, ar, f, at[1], at[2]) = MergeAt(al, ar, g, at[1], at[2])
  <2>1. PICK l \in 1 .. m + 1, r \in 1 .. n + 1 : at = <<l, r>> /\ at[1] = l /\ at[2] = r
        BY <1>2
  <2>2. CASE l > m \/ r > n
        BY <2>1, <2>2 DEF MergeAt
  <2>3. CASE l \in 1 .. m /\ r \in 1 .. n
    <3>1. <<l, r>> \in G /\ <<l, r + 1>> \in G /\ <<l + 1, r>> \in G
          BY <2>1, <2>3, Neighbours
    <3>2. /\ mu[<<l, r>>] = (m + 1 - l) + (n + 1 - r)
          /\ mu[<<l, r + 1>>] = (m + 1 - l) + (n + 1 - (r + 1))
          /\ mu[<<l + 1, r>>] = (m + 1 - (l + 1)) + (n + 1 - r)
      <4>1. \A a, b : <<a, b>> \in G => mu[<<a, b>>] = (m + 1 - a) + (n + 1 - b)
            BY LeftType DEF mu
      <4> HIDE DEF G
      <4> QED BY <3>1, <4>1
    <3>3. mu[<<l, r + 1>>] < mu[<<l, r>>] /\ mu[<<l + 1, r>>] < mu[<<l, r>>]
          BY <3>2
    <3>4. f[<<l, r + 1>>] = g[<<l, r + 1>>] /\ f[<<l + 1, r>>] = g[<<l + 1, r>>]
          BY <1>6, <2>1, <3>1, <3>3
    <3> QED BY <2>1, <3>4 DEF MergeAt
  <2> QED BY <2>2, <2>3
<1>7. IsLocal(G, T, mu, step)
  <2> SUFFICES ASSUME NEW at \in G, NEW f \in [G -> T], NEW g \in [G -> T],
                      \A e \in G : mu[e] < mu[at] => f[e] = g[e]
               PROVE  step[<<f, at>>] = step[<<g, at>>]
      BY DEF IsLocal
  <2>1. MergeAt(al, ar, f, at[1], at[2]) = MergeAt(al, ar, g, at[1], at[2])
        BY <1>6
  <2> HIDE DEF G, T
  <2> QED BY <1>5, <2>1
<1>8. T # {}
      OBVIOUS
<1>9. PICK c \in [G -> T] : \A at \in G : c[at] = step[<<c, at>>]
  <2>1. IsComputed(G, T, step)
    <3> HIDE DEF G, T
    <3> QED BY <1>3, <1>4, <1>7, <1>8, Recursion
  <2> QED BY <2>1 DEF IsComputed
<1>10. c = [at \in G |-> MergeAt(al, ar, c, at[1], at[2])]
      BY <1>5, <1>9
<1>11. F = [at \in G |-> MergeAt(al, ar, F, at[1], at[2])]
      BY <1>10 DEF F
<1>12. \A at \in G : F[at] = MergeAt(al, ar, F, at[1], at[2])
      BY <1>11
<1>13. AreAlike(G, mu, F, c)
  <2> SUFFICES ASSUME NEW at \in G, \A e \in G : mu[e] < mu[at] => F[e] = c[e]
               PROVE  F[at] = c[at]
      BY DEF AreAlike
  <2>1. MergeAt(al, ar, F, at[1], at[2]) = MergeAt(al, ar, c, at[1], at[2])
        BY <1>6
  <2> QED BY <1>5, <1>9, <1>12, <2>1
<1>14. Agree(G, F, c)
  <2>1. mu \in [G -> Nat]
        BY <1>3
  <2> HIDE DEF G
  <2> QED BY <1>13, <2>1, Same
<1>15. F = c
      BY <1>10, <1>11, <1>14 DEF Agree
<1>16. IsMerge(E, al, ar, m, n, c)
      BY <1>1, <1>12, <1>15 DEF IsMerge, Cells
<1> QED BY <1>16

(* The comparison of merge_sort() takes from the left what is not above the right. *)
Compares(E, R, al, ar) ==
    \A x \in Elems(al), y \in Elems(ar) :
        IF Above(x, y) THEN <<y, x>> \in R ELSE <<x, y>> \in R

(* What is merged of both from l and r on. *)
IsMerged(E, R, al, ar, l, r, w) ==
    /\ w \in Seq(E) /\ Increasing(w, R)
    /\ Len(w) = (Len(al) + 1 - l) + (Len(ar) + 1 - r)
    /\ Elems(w) = {al[i] : i \in l .. Len(al)} \cup {ar[i] : i \in r .. Len(ar)}

LEMMA RestIncreasing ==
    ASSUME NEW E, NEW R, NEW w \in Seq(E), NEW k \in 1 .. Len(w) + 1, Increasing(w, R)
    PROVE  Increasing(SubSeq(w, k, Len(w)), R)
<1> DEFINE v == SubSeq(w, k, Len(w))
<1>1. /\ Len(v) = Len(w) + 1 - k /\ Len(w) \in Nat
      /\ \A i \in 1 .. Len(w) + 1 - k : v[i] = w[i + k - 1]
      BY RestFrom
<1> HIDE DEF v
<1>2. ASSUME NEW i \in 1 .. Len(w) + 1 - k, NEW j \in 1 .. Len(w) + 1 - k, i < j
      PROVE  <<v[i], v[j]>> \in R
  <2>1. i + k - 1 \in 1 .. Len(w) /\ j + k - 1 \in 1 .. Len(w) /\ i + k - 1 < j + k - 1
        BY <1>1, <1>2
  <2> QED BY <1>1, <2>1 DEF Increasing
<1> QED BY <1>1, <1>2 DEF Increasing, v

IsBelow(x, S, R) == \A y \in S : <<x, y>> \in R

IsPrepended(E, R, x, w, v) ==
    /\ v \in Seq(E) /\ Increasing(v, R) /\ Len(v) = Len(w) + 1 /\ Elems(v) = {x} \cup Elems(w)

LEMMA TakeFirst ==
    ASSUME NEW E, NEW R, NEW x, NEW w, x \in E, w \in Seq(E), Increasing(w, R),
           IsBelow(x, Elems(w), R)
    PROVE  IsPrepended(E, R, x, w, <<x>> \o w)
BY Prepended, PrependedIncreasing DEF IsBelow, IsPrepended

IsRest(E, R, w, k, v) ==
    /\ v \in Seq(E) /\ Increasing(v, R) /\ Len(v) = Len(w) + 1 - k
    /\ Elems(v) = {w[i] : i \in k .. Len(w)}

LEMMA RestIs ==
    ASSUME NEW E, NEW R, NEW w, NEW k, w \in Seq(E), k \in 1 .. Len(w) + 1, Increasing(w, R)
    PROVE  IsRest(E, R, w, k, SubSeq(w, k, Len(w)))
BY RestFrom, RestIncreasing DEF IsRest

LEMMA MergeStep ==
    ASSUME NEW E, NEW R, IsTransitive(E, R), NEW al \in Seq(E), NEW ar \in Seq(E),
           NEW m \in Nat, NEW n \in Nat, Len(al) = m, Len(ar) = n,
           Increasing(al, R), Increasing(ar, R), Compares(E, R, al, ar),
           NEW M, NEW l \in 1 .. m + 1, NEW r \in 1 .. n + 1,
           l \in 1 .. m /\ r \in 1 .. n =>
               /\ IsMerged(E, R, al, ar, l + 1, r, M[<<l + 1, r>>])
               /\ IsMerged(E, R, al, ar, l, r + 1, M[<<l, r + 1>>])
    PROVE  IsMerged(E, R, al, ar, l, r, MergeAt(al, ar, M, l, r))
<1>1. CASE l > m
  <2>1. {al[i] : i \in l .. m} = {} /\ m + 1 - l = 0
        BY <1>1
  <2>2. MergeAt(al, ar, M, l, r) = SubSeq(ar, r, n)
        BY <1>1 DEF MergeAt
  <2>6. IsRest(E, R, ar, r, SubSeq(ar, r, Len(ar)))
        BY RestIs
  <2>3. /\ SubSeq(ar, r, n) \in Seq(E) /\ Len(SubSeq(ar, r, n)) = n + 1 - r
        /\ Elems(SubSeq(ar, r, n)) = {ar[i] : i \in r .. n}
        BY <2>6 DEF IsRest
  <2>4. Increasing(SubSeq(ar, r, n), R)
        BY <2>6 DEF IsRest
  <2>5. (m + 1 - l) + (n + 1 - r) = n + 1 - r
        BY <2>1
  <2> QED BY <2>1, <2>2, <2>3, <2>4, <2>5 DEF IsMerged
<1>2. CASE ~(l > m) /\ r > n
  <2>1. {ar[i] : i \in r .. n} = {} /\ n + 1 - r = 0
        BY <1>2
  <2>2. MergeAt(al, ar, M, l, r) = SubSeq(al, l, m)
        BY <1>2 DEF MergeAt
  <2>6. IsRest(E, R, al, l, SubSeq(al, l, Len(al)))
        BY RestIs
  <2>3. /\ SubSeq(al, l, m) \in Seq(E) /\ Len(SubSeq(al, l, m)) = m + 1 - l
        /\ Elems(SubSeq(al, l, m)) = {al[i] : i \in l .. m}
        BY <2>6 DEF IsRest
  <2>4. Increasing(SubSeq(al, l, m), R)
        BY <2>6 DEF IsRest
  <2>5. (m + 1 - l) + (n + 1 - r) = m + 1 - l
        BY <2>1
  <2> QED BY <2>1, <2>2, <2>3, <2>4, <2>5 DEF IsMerged
<1>3. CASE l \in 1 .. m /\ r \in 1 .. n
  <2>0. /\ al[l] \in E /\ ar[r] \in E /\ al[l] \in Elems(al) /\ ar[r] \in Elems(ar)
        /\ \A i \in l .. m : al[i] \in E /\ al[i] \in Elems(al)
        /\ \A i \in r .. n : ar[i] \in E /\ ar[i] \in Elems(ar)
        BY <1>3 DEF Elems
  <2>1. /\ \A i \in l + 1 .. m : <<al[l], al[i]>> \in R
        /\ \A i \in r + 1 .. n : <<ar[r], ar[i]>> \in R
        BY <1>3 DEF Increasing
  <2>2. CASE Above(al[l], ar[r])
    <3> DEFINE w == M[<<l, r + 1>>]
    <3>1. /\ w \in Seq(E) /\ Increasing(w, R) /\ Len(w) = (m + 1 - l) + (n + 1 - (r + 1))
          /\ Elems(w) = {al[i] : i \in l .. m} \cup {ar[i] : i \in r + 1 .. n}
          BY <1>3 DEF IsMerged
    <3> HIDE DEF w
    <3>2. <<ar[r], al[l]>> \in R
          BY <2>0, <2>2 DEF Compares
    <3>3. ASSUME NEW y \in Elems(w) PROVE <<ar[r], y>> \in R
      <4>1. CASE \E i \in l .. m : y = al[i]
        <5>1. PICK i \in l .. m : y = al[i]
              BY <4>1
        <5>2. CASE i = l
              BY <3>2, <5>1, <5>2
        <5>3. CASE i # l
          <6>1. <<al[l], y>> \in R /\ y \in E
                BY <2>0, <2>1, <5>1, <5>3
          <6> QED BY <2>0, <3>2, <6>1 DEF IsTransitive
        <5> QED BY <5>2, <5>3
      <4>2. CASE \E i \in r + 1 .. n : y = ar[i]
            BY <2>1, <4>2
      <4> QED BY <3>1, <3>3, <4>1, <4>2
    <3>4. /\ <<ar[r]>> \o w \in Seq(E) /\ Increasing(<<ar[r]>> \o w, R)
          /\ Len(<<ar[r]>> \o w) = Len(w) + 1
          /\ Elems(<<ar[r]>> \o w) = {ar[r]} \cup Elems(w)
      <4> DEFINE x == ar[r]
      <4>1. x \in E /\ IsBelow(x, Elems(w), R) /\ w \in Seq(E) /\ Increasing(w, R)
            BY <2>0, <3>1, <3>3 DEF IsBelow
      <4> HIDE DEF x
      <4>2. IsPrepended(E, R, x, w, <<x>> \o w)
            BY <4>1, TakeFirst
      <4> QED BY <4>2 DEF x, IsPrepended
    <3>5. Elems(<<ar[r]>> \o w) = {ar[r]} \cup ({al[i] : i \in l .. m} \cup {ar[i] : i \in r + 1 .. n})
          BY <3>1, <3>4
    <3>6. {ar[i] : i \in r .. n} = {ar[r]} \cup {ar[i] : i \in r + 1 .. n}
      <4>1. \A i \in r .. n : i = r \/ i \in r + 1 .. n
            OBVIOUS
      <4>2. r \in r .. n /\ \A i \in r + 1 .. n : i \in r .. n
            BY <1>3
      <4> QED BY <4>1, <4>2
    <3>7. MergeAt(al, ar, M, l, r) = <<ar[r]>> \o w
          BY <1>3, <2>2 DEF MergeAt, w
    <3>8. Len(<<ar[r]>> \o w) = (m + 1 - l) + (n + 1 - r)
      <4> DEFINE before == Len(w)
                 after  == Len(<<ar[r]>> \o w)
      <4>1. before = (m + 1 - l) + (n + 1 - (r + 1)) /\ after = before + 1
            BY <3>1, <3>4
      <4> HIDE DEF before, after
      <4>2. after = (m + 1 - l) + (n + 1 - r)
            BY <4>1
      <4> QED BY <4>2 DEF after
    <3> QED BY <3>4, <3>5, <3>6, <3>7, <3>8 DEF IsMerged
  <2>3. CASE ~Above(al[l], ar[r])
    <3> DEFINE w == M[<<l + 1, r>>]
    <3>1. /\ w \in Seq(E) /\ Increasing(w, R) /\ Len(w) = (m + 1 - (l + 1)) + (n + 1 - r)
          /\ Elems(w) = {al[i] : i \in l + 1 .. m} \cup {ar[i] : i \in r .. n}
          BY <1>3 DEF IsMerged
    <3> HIDE DEF w
    <3>2. <<al[l], ar[r]>> \in R
          BY <2>0, <2>3 DEF Compares
    <3>3. ASSUME NEW y \in Elems(w) PROVE <<al[l], y>> \in R
      <4>1. CASE \E i \in r .. n : y = ar[i]
        <5>1. PICK i \in r .. n : y = ar[i]
              BY <4>1
        <5>2. CASE i = r
              BY <3>2, <5>1, <5>2
        <5>3. CASE i # r
          <6>1. <<ar[r], y>> \in R /\ y \in E
                BY <2>0, <2>1, <5>1, <5>3
          <6> QED BY <2>0, <3>2, <6>1 DEF IsTransitive
        <5> QED BY <5>2, <5>3
      <4>2. CASE \E i \in l + 1 .. m : y = al[i]
            BY <2>1, <4>2
      <4> QED BY <3>1, <3>3, <4>1, <4>2
    <3>4. /\ <<al[l]>> \o w \in Seq(E) /\ Increasing(<<al[l]>> \o w, R)
          /\ Len(<<al[l]>> \o w) = Len(w) + 1
          /\ Elems(<<al[l]>> \o w) = {al[l]} \cup Elems(w)
      <4> DEFINE x == al[l]
      <4>1. x \in E /\ IsBelow(x, Elems(w), R) /\ w \in Seq(E) /\ Increasing(w, R)
            BY <2>0, <3>1, <3>3 DEF IsBelow
      <4> HIDE DEF x
      <4>2. IsPrepended(E, R, x, w, <<x>> \o w)
            BY <4>1, TakeFirst
      <4> QED BY <4>2 DEF x, IsPrepended
    <3>5. Elems(<<al[l]>> \o w) = {al[l]} \cup ({al[i] : i \in l + 1 .. m} \cup {ar[i] : i \in r .. n})
          BY <3>1, <3>4
    <3>6. {al[i] : i \in l .. m} = {al[l]} \cup {al[i] : i \in l + 1 .. m}
      <4>1. \A i \in l .. m : i = l \/ i \in l + 1 .. m
            OBVIOUS
      <4>2. l \in l .. m /\ \A i \in l + 1 .. m : i \in l .. m
            BY <1>3
      <4> QED BY <4>1, <4>2
    <3>7. MergeAt(al, ar, M, l, r) = <<al[l]>> \o w
          BY <1>3, <2>3 DEF MergeAt, w
    <3>8. Len(<<al[l]>> \o w) = (m + 1 - l) + (n + 1 - r)
      <4> DEFINE before == Len(w)
                 after  == Len(<<al[l]>> \o w)
      <4>1. before = (m + 1 - (l + 1)) + (n + 1 - r) /\ after = before + 1
            BY <3>1, <3>4
      <4> HIDE DEF before, after
      <4>2. after = (m + 1 - l) + (n + 1 - r)
            BY <4>1
      <4> QED BY <4>2 DEF after
    <3> QED BY <3>4, <3>5, <3>6, <3>7, <3>8 DEF IsMerged
  <2> QED BY <2>2, <2>3
<1> QED BY <1>1, <1>2, <1>3

LEMMA MergeIs ==
    ASSUME NEW E, NEW R, NEW al, NEW ar, IsTransitive(E, R), al \in Seq(E), ar \in Seq(E),
           Increasing(al, R), Increasing(ar, R), Compares(E, R, al, ar)
    PROVE  IsMerged(E, R, al, ar, 1, 1, Merge(al, ar))
<1> DEFINE m == Len(al)
           n == Len(ar)
<1>1. m \in Nat /\ n \in Nat /\ Len(al) = m /\ Len(ar) = n
      OBVIOUS
<1> HIDE DEF m, n
<1>2. PICK M : IsMerge(E, al, ar, m, n, M)
      BY <1>1, MergeEquations
<1>3. \A l \in 1 .. m + 1, r \in 1 .. n + 1 : M[<<l, r>>] = MergeAt(al, ar, M, l, r)
      BY <1>2 DEF IsMerge
<1> DEFINE G == Cells(m, n)
           mu == Left(m, n)
           T == {at \in G : IsMerged(E, R, al, ar, at[1], at[2], M[at])}
<1>4. mu \in [G -> Nat]
      BY <1>1, LeftType
<1>5. IsInductive(G, mu, T)
  <2> SUFFICES ASSUME NEW at \in G, \A e \in G : mu[e] < mu[at] => e \in T
               PROVE  IsMerged(E, R, al, ar, at[1], at[2], M[at])
      BY DEF IsInductive
  <2>1. PICK l \in 1 .. m + 1, r \in 1 .. n + 1 : at = <<l, r>> /\ at[1] = l /\ at[2] = r
        BY DEF Cells
  <2>2. ASSUME l \in 1 .. m /\ r \in 1 .. n
        PROVE  /\ IsMerged(E, R, al, ar, l + 1, r, M[<<l + 1, r>>])
               /\ IsMerged(E, R, al, ar, l, r + 1, M[<<l, r + 1>>])
    <3>1. <<l, r>> \in G /\ <<l, r + 1>> \in G /\ <<l + 1, r>> \in G
          BY <1>1, <2>1, <2>2, Neighbours
    <3>2. \A a, b : <<a, b>> \in G => mu[<<a, b>>] = (m + 1 - a) + (n + 1 - b)
          BY <1>1, LeftType
    <3> HIDE DEF G, mu
    <3>3. /\ mu[<<l, r>>] = (m + 1 - l) + (n + 1 - r)
          /\ mu[<<l, r + 1>>] = (m + 1 - l) + (n + 1 - (r + 1))
          /\ mu[<<l + 1, r>>] = (m + 1 - (l + 1)) + (n + 1 - r)
          BY <3>1, <3>2
    <3>4. mu[<<l, r + 1>>] < mu[<<l, r>>] /\ mu[<<l + 1, r>>] < mu[<<l, r>>]
      <4>1. /\ m + 1 - (l + 1) \in Nat /\ n + 1 - (r + 1) \in Nat
            /\ m + 1 - l = (m + 1 - (l + 1)) + 1 /\ n + 1 - r = (n + 1 - (r + 1)) + 1
            BY <1>1, <2>2
      <4>2. \A a, b \in Nat : (a + 1) + b < (a + 1) + (b + 1) /\ a + (b + 1) < (a + 1) + (b + 1)
            OBVIOUS
      <4> QED BY <3>3, <4>1, <4>2
    <3>5. <<l, r + 1>> \in T /\ <<l + 1, r>> \in T
      <4> HIDE DEF T
      <4> QED BY <2>1, <3>1, <3>4
    <3> QED BY <3>5
  <2>3. IsMerged(E, R, al, ar, l, r, MergeAt(al, ar, M, l, r))
        BY <1>1, <2>2, MergeStep
  <2> QED BY <1>3, <2>1, <2>3
<1>6. G \subseteq T
  <2> HIDE DEF T, G, mu
  <2> QED BY <1>4, <1>5, Induction
<1>7. <<1, 1>> \in G
      BY <1>1 DEF Cells
<1>8. IsMerged(E, R, al, ar, 1, 1, M[<<1, 1>>])
      BY <1>6, <1>7
<1> QED BY <1>2, <1>8 DEF IsMerge
-------------------------------------------------------------------------------
Runs(N) == {run \in (1 .. N + 1) \X (0 .. N) : run[1] + run[2] <= N + 1}

SortAt(array, f, first, n) ==
    IF n <= 1 THEN SubSeq(array, first, first + n - 1)
    ELSE Merge(f[<<first, n \div 2>>], f[<<first + n \div 2, n - n \div 2>>])

(* The elements of the run are in order. *)
IsOrdered(E, R, array, first, n, w) ==
    /\ w \in Seq(E) /\ Increasing(w, R) /\ Len(w) = n
    /\ Elems(w) = {array[i] : i \in first .. first + n - 1}

(* Two elements that compare alike are in order where they are. *)
Orders(E, R, array) ==
    /\ IsTransitive(E, R)
    /\ \A i, j \in 1 .. Len(array) :
           i < j => IF Above(array[i], array[j]) THEN <<array[j], array[i]>> \in R
                    ELSE <<array[i], array[j]>> \in R

LEMMA Halves ==
    ASSUME NEW N \in Nat, NEW first \in 1 .. N + 1, NEW n \in 0 .. N, first + n <= N + 1, ~(n <= 1)
    PROVE  /\ n \div 2 \in 1 .. n - 1 /\ n - n \div 2 \in 1 .. n - 1
           /\ <<first, n \div 2>> \in Runs(N)
           /\ <<first + n \div 2, n - n \div 2>> \in Runs(N)
<1>1. n \div 2 \in Int /\ n \div 2 >= 1 /\ n \div 2 < n
      OBVIOUS
<1> DEFINE h == n \div 2
<1>2. h \in Int /\ h >= 1 /\ h < n
      BY <1>1
<1> HIDE DEF h
<1>3. /\ h \in 1 .. n - 1 /\ n - h \in 1 .. n - 1 /\ h \in 0 .. N /\ n - h \in 0 .. N
      /\ first + h \in 1 .. N + 1 /\ first + h <= N + 1 /\ (first + h) + (n - h) <= N + 1
      BY <1>2
<1>4. <<first, h>> \in Runs(N) /\ <<first + h, n - h>> \in Runs(N)
      BY <1>3 DEF Runs
<1> QED BY <1>3, <1>4 DEF h

LEMMA SortStep ==
    ASSUME NEW E, NEW R, NEW array \in Seq(E), NEW N \in Nat, Len(array) = N, Orders(E, R, array),
           NEW first \in 1 .. N + 1, NEW n \in 0 .. N, first + n <= N + 1, NEW f,
           ~(n <= 1) =>
               /\ IsOrdered(E, R, array, first, n \div 2, f[<<first, n \div 2>>])
               /\ IsOrdered(E, R, array, first + n \div 2, n - n \div 2,
                           f[<<first + n \div 2, n - n \div 2>>])
    PROVE  IsOrdered(E, R, array, first, n, SortAt(array, f, first, n))
<1>1. CASE n <= 1
  <2> DEFINE w == SubSeq(array, first, first + n - 1)
  <2>1. /\ w \in Seq(E) /\ Len(w) = n
        /\ \A i \in 1 .. n : w[i] = array[first + i - 1]
    <3> DEFINE last == first + n - 1
    <3>1. \A i \in first .. last : array[i] \in E
          OBVIOUS
    <3>2. /\ first \in Int /\ last \in Int /\ last - first + 1 = n
          /\ first <= last => n = last - first + 1
          /\ ~(first <= last) => n = 0
          OBVIOUS
    <3> HIDE DEF last
    <3>3. /\ SubSeq(array, first, last) \in Seq(E)
          /\ Len(SubSeq(array, first, last)) = IF first <= last THEN last - first + 1 ELSE 0
          /\ \A i \in 1 .. last - first + 1 : SubSeq(array, first, last)[i] = array[first + i - 1]
          BY <3>1, <3>2, SubSeqProperties
    <3> QED BY <3>2, <3>3 DEF last
  <2> HIDE DEF w
  <2>2. Increasing(w, R)
        BY <1>1, <2>1 DEF Increasing
  <2>3. Elems(w) = {array[i] : i \in first .. first + n - 1}
    <3>1. CASE n = 0
          BY <2>1, <3>1 DEF Elems
    <3>2. CASE n = 1
      <4>1. Elems(w) = {w[1]} /\ w[1] = array[first]
            BY <2>1, <3>2 DEF Elems
      <4>2. first .. first + n - 1 = {first}
            BY <3>2
      <4> QED BY <4>1, <4>2
    <3> QED BY <1>1, <3>1, <3>2
  <2>4. SortAt(array, f, first, n) = w
        BY <1>1 DEF SortAt, w
  <2> QED BY <2>1, <2>2, <2>3, <2>4 DEF IsOrdered
<1>2. CASE ~(n <= 1)
  <2> DEFINE h == n \div 2
             al == f[<<first, h>>]
             ar == f[<<first + h, n - h>>]
  <2>1. h \in 1 .. n - 1 /\ n - h \in 1 .. n - 1
        BY <1>2, Halves
  <2>2. IsOrdered(E, R, array, first, h, al) /\ IsOrdered(E, R, array, first + h, n - h, ar)
        BY <1>2
  <2>3. SortAt(array, f, first, n) = Merge(al, ar)
        BY <1>2 DEF SortAt
  <2> HIDE DEF h, al, ar
  <2>4. /\ al \in Seq(E) /\ Increasing(al, R) /\ Len(al) = h
        /\ Elems(al) = {array[i] : i \in first .. first + h - 1}
        BY <2>2 DEF IsOrdered
  <2>5. /\ ar \in Seq(E) /\ Increasing(ar, R) /\ Len(ar) = n - h
        /\ Elems(ar) = {array[i] : i \in first + h .. (first + h) + (n - h) - 1}
        BY <2>2 DEF IsOrdered
  <2>6. Compares(E, R, al, ar)
    <3> SUFFICES ASSUME NEW x \in Elems(al), NEW y \in Elems(ar)
                 PROVE  IF Above(x, y) THEN <<y, x>> \in R ELSE <<x, y>> \in R
        BY DEF Compares
    <3>1. PICK i \in first .. first + h - 1 : x = array[i]
          BY <2>4
    <3>2. PICK j \in first + h .. (first + h) + (n - h) - 1 : y = array[j]
          BY <2>5
    <3>3. i \in 1 .. N /\ j \in 1 .. N /\ i < j
          BY <2>1, <3>1, <3>2
    <3> QED BY <3>1, <3>2, <3>3 DEF Orders
  <2>7. IsMerged(E, R, al, ar, 1, 1, Merge(al, ar))
        BY <2>4, <2>5, <2>6, MergeIs DEF Orders
  <2>8. Elems(Merge(al, ar)) = Elems(al) \cup Elems(ar)
        BY <2>7 DEF IsMerged, Elems
  <2>9. {array[i] : i \in first .. first + n - 1} = Elems(al) \cup Elems(ar)
    <3>1. \A i \in first .. first + n - 1 :
              i \in first .. first + h - 1 \/ i \in first + h .. (first + h) + (n - h) - 1
          BY <2>1
    <3>2. /\ \A i \in first .. first + h - 1 : i \in first .. first + n - 1
          /\ \A i \in first + h .. (first + h) + (n - h) - 1 : i \in first .. first + n - 1
          BY <2>1
    <3> QED BY <2>4, <2>5, <3>1, <3>2
  <2>10. Len(Merge(al, ar)) = n
    <3>1. Len(Merge(al, ar)) = (h + 1 - 1) + ((n - h) + 1 - 1)
          BY <2>4, <2>5, <2>7 DEF IsMerged
    <3> QED BY <2>1, <3>1
  <2>11. Merge(al, ar) \in Seq(E) /\ Increasing(Merge(al, ar), R)
        BY <2>7 DEF IsMerged
  <2> QED BY <2>3, <2>8, <2>9, <2>10, <2>11 DEF IsOrdered
<1> QED BY <1>1, <1>2

LEMMA MergeType ==
    ASSUME NEW E, NEW al, NEW ar, al \in Seq(E), ar \in Seq(E)
    PROVE  Merge(al, ar) \in Seq(E)
<1>1. Len(al) \in Nat /\ Len(ar) \in Nat
      OBVIOUS
<1>2. PICK M : IsMerge(E, al, ar, Len(al), Len(ar), M)
      BY <1>1, MergeEquations
<1>3. <<1, 1>> \in Cells(Len(al), Len(ar))
      BY <1>1 DEF Cells
<1> QED BY <1>2, <1>3 DEF IsMerge

LEMMA SortAtType ==
    ASSUME NEW E, NEW array \in Seq(E), NEW N \in Nat, Len(array) = N,
           NEW f, f \in [Runs(N) -> Seq(E)],
           NEW first \in 1 .. N + 1, NEW n \in 0 .. N, first + n <= N + 1
    PROVE  SortAt(array, f, first, n) \in Seq(E)
<1>1. CASE n <= 1
  <2> DEFINE last == first + n - 1
  <2>1. first \in Int /\ last \in Int /\ \A i \in first .. last : array[i] \in E
        OBVIOUS
  <2> HIDE DEF last
  <2>2. SubSeq(array, first, last) \in Seq(E)
        BY <2>1, SubSeqProperties
  <2> QED BY <1>1, <2>2 DEF SortAt, last
<1>2. CASE ~(n <= 1)
  <2>1. <<first, n \div 2>> \in Runs(N) /\ <<first + n \div 2, n - n \div 2>> \in Runs(N)
        BY <1>2, Halves
  <2>2. f[<<first, n \div 2>>] \in Seq(E) /\ f[<<first + n \div 2, n - n \div 2>>] \in Seq(E)
        BY <2>1
  <2>3. Merge(f[<<first, n \div 2>>], f[<<first + n \div 2, n - n \div 2>>]) \in Seq(E)
        BY <2>2, MergeType
  <2> QED BY <1>2, <2>3 DEF SortAt
<1> QED BY <1>1, <1>2

Length(N) == [run \in Runs(N) |-> run[2]]

LEMMA LengthType ==
    ASSUME NEW N \in Nat
    PROVE  /\ Length(N) \in [Runs(N) -> Nat] /\ IsBounded(Runs(N), Length(N))
           /\ \A first, n : <<first, n>> \in Runs(N) => Length(N)[<<first, n>>] = n
<1>1. \A run \in Runs(N) : Length(N)[run] = run[2] /\ run[2] \in 0 .. N
      BY DEF Length, Runs
<1>2. Length(N) \in [Runs(N) -> Nat]
      BY DEF Length, Runs
<1>3. \A run \in Runs(N) : Length(N)[run] <= N
      BY <1>1
<1>4. IsBounded(Runs(N), Length(N))
      BY <1>3 DEF IsBounded
<1>5. \A first, n : <<first, n>> \in Runs(N) => Length(N)[<<first, n>>] = n
      BY DEF Length
<1> QED BY <1>2, <1>4, <1>5

AreRuns(E, array, N, f) ==
    /\ f \in [Runs(N) -> Seq(E)] /\ MergeSort(array) = f[<<1, N>>]
    /\ \A run \in Runs(N) : f[run] = SortAt(array, f, run[1], run[2])

LEMMA SortEquations ==
    ASSUME NEW E, NEW array \in Seq(E), NEW N \in Nat, Len(array) = N
    PROVE  \E f : AreRuns(E, array, N, f)
<1> DEFINE G == Runs(N)
           T == Seq(E)
           mu == Length(N)
           F == CHOOSE f : f = [run \in G |-> SortAt(array, f, run[1], run[2])]
           step == [x \in [G -> T] \X G |-> SortAt(array, x[1], x[2][1], x[2][2])]
<1>1. MergeSort(array) = F[<<1, N>>]
      BY DEF MergeSort, SortAt, Runs
<1>2. \A run \in G : /\ run[1] \in 1 .. N + 1 /\ run[2] \in 0 .. N /\ run[1] + run[2] <= N + 1
                     /\ run = <<run[1], run[2]>>
      BY DEF Runs
<1>3. mu \in [G -> Nat] /\ IsBounded(G, mu)
      BY LengthType
<1>4. step \in [[G -> T] \X G -> T]
  <2> SUFFICES ASSUME NEW f \in [G -> T], NEW run \in G
               PROVE  SortAt(array, f, run[1], run[2]) \in T
      OBVIOUS
  <2> QED BY <1>2, SortAtType
<1>5. \A f \in [G -> T], run \in G : step[<<f, run>>] = SortAt(array, f, run[1], run[2])
      OBVIOUS
<1> HIDE DEF step, mu, F
<1>6. ASSUME NEW run \in G, NEW f, NEW g, \A e \in G : mu[e] < mu[run] => f[e] = g[e]
      PROVE  SortAt(array, f, run[1], run[2]) = SortAt(array, g, run[1], run[2])
  <2>1. PICK first \in 1 .. N + 1, n \in 0 .. N :
              /\ first + n <= N + 1 /\ run = <<first, n>> /\ run[1] = first /\ run[2] = n
        BY <1>2
  <2>2. CASE n <= 1
        BY <2>1, <2>2 DEF SortAt
  <2>3. CASE ~(n <= 1)
    <3> DEFINE h == n \div 2
    <3>1. <<first, h>> \in G /\ <<first + h, n - h>> \in G /\ h \in 1 .. n - 1 /\ n - h \in 1 .. n - 1
          BY <2>1, <2>3, Halves
    <3> HIDE DEF h
    <3>2. \A a, b : <<a, b>> \in G => mu[<<a, b>>] = b
          BY LengthType DEF mu
    <3> HIDE DEF G
    <3>3. mu[run] = n /\ mu[<<first, h>>] = h /\ mu[<<first + h, n - h>>] = n - h
          BY <2>1, <3>1, <3>2
    <3>4. mu[<<first, h>>] < mu[run] /\ mu[<<first + h, n - h>>] < mu[run]
          BY <3>1, <3>3
    <3>5. f[<<first, h>>] = g[<<first, h>>] /\ f[<<first + h, n - h>>] = g[<<first + h, n - h>>]
          BY <1>6, <3>1, <3>4
    <3> QED BY <2>1, <3>5 DEF SortAt, h
  <2> QED BY <2>2, <2>3
<1>7. IsLocal(G, T, mu, step)
  <2> SUFFICES ASSUME NEW run \in G, NEW f \in [G -> T], NEW g \in [G -> T],
                      \A e \in G : mu[e] < mu[run] => f[e] = g[e]
               PROVE  step[<<f, run>>] = step[<<g, run>>]
      BY DEF IsLocal
  <2>1. SortAt(array, f, run[1], run[2]) = SortAt(array, g, run[1], run[2])
        BY <1>6
  <2> HIDE DEF G, T
  <2> QED BY <1>5, <2>1
<1>8. T # {}
      OBVIOUS
<1>9. PICK c \in [G -> T] : \A run \in G : c[run] = step[<<c, run>>]
  <2>1. IsComputed(G, T, step)
    <3> HIDE DEF G, T
    <3> QED BY <1>3, <1>4, <1>7, <1>8, Recursion
  <2> QED BY <2>1 DEF IsComputed
<1>10. c = [run \in G |-> SortAt(array, c, run[1], run[2])]
      BY <1>5, <1>9
<1>11. F = [run \in G |-> SortAt(array, F, run[1], run[2])]
      BY <1>10 DEF F
<1>12. \A run \in G : F[run] = SortAt(array, F, run[1], run[2])
      BY <1>11
<1>13. AreAlike(G, mu, F, c)
  <2> SUFFICES ASSUME NEW run \in G, \A e \in G : mu[e] < mu[run] => F[e] = c[e]
               PROVE  F[run] = c[run]
      BY DEF AreAlike
  <2>1. SortAt(array, F, run[1], run[2]) = SortAt(array, c, run[1], run[2])
        BY <1>6
  <2> QED BY <1>5, <1>9, <1>12, <2>1
<1>14. Agree(G, F, c)
  <2>1. mu \in [G -> Nat]
        BY <1>3
  <2> HIDE DEF G
  <2> QED BY <1>13, <2>1, Same
<1>15. F = c
      BY <1>10, <1>11, <1>14 DEF Agree
<1>16. AreRuns(E, array, N, c)
      BY <1>1, <1>12, <1>15 DEF AreRuns
<1> QED BY <1>16

(* merge_sort(): all the elements, in their order, and no element moved past one it
   compares alike to. *)
THEOREM MergeSortSorts ==
    ASSUME NEW E, NEW R, NEW array \in Seq(E), Orders(E, R, array)
    PROVE  IsOrdered(E, R, array, 1, Len(array), MergeSort(array))
<1> DEFINE N == Len(array)
<1>1. N \in Nat /\ Len(array) = N
      OBVIOUS
<1> HIDE DEF N
<1>2. PICK f : AreRuns(E, array, N, f)
      BY <1>1, SortEquations
<1>3. \A run \in Runs(N) : f[run] = SortAt(array, f, run[1], run[2])
      BY <1>2 DEF AreRuns
<1> DEFINE G == Runs(N)
           mu == Length(N)
           T == {run \in G : IsOrdered(E, R, array, run[1], run[2], f[run])}
<1>4. mu \in [G -> Nat]
      BY <1>1, LengthType
<1>5. IsInductive(G, mu, T)
  <2> SUFFICES ASSUME NEW run \in G, \A e \in G : mu[e] < mu[run] => e \in T
               PROVE  IsOrdered(E, R, array, run[1], run[2], f[run])
      BY DEF IsInductive
  <2>1. PICK first \in 1 .. N + 1, n \in 0 .. N :
              /\ first + n <= N + 1 /\ run = <<first, n>> /\ run[1] = first /\ run[2] = n
        BY DEF Runs
  <2>2. ASSUME ~(n <= 1)
        PROVE  /\ IsOrdered(E, R, array, first, n \div 2, f[<<first, n \div 2>>])
               /\ IsOrdered(E, R, array, first + n \div 2, n - n \div 2,
                            f[<<first + n \div 2, n - n \div 2>>])
    <3> DEFINE h == n \div 2
    <3>1. <<first, h>> \in G /\ <<first + h, n - h>> \in G /\ h \in 1 .. n - 1 /\ n - h \in 1 .. n - 1
          BY <1>1, <2>1, <2>2, Halves
    <3> HIDE DEF h
    <3>2. \A a, b : <<a, b>> \in G => mu[<<a, b>>] = b
          BY <1>1, LengthType
    <3> HIDE DEF G, mu
    <3>3. mu[run] = n /\ mu[<<first, h>>] = h /\ mu[<<first + h, n - h>>] = n - h
          BY <2>1, <3>1, <3>2
    <3>4. mu[<<first, h>>] < mu[run] /\ mu[<<first + h, n - h>>] < mu[run]
          BY <3>1, <3>3
    <3>5. <<first, h>> \in T /\ <<first + h, n - h>> \in T
      <4> HIDE DEF T
      <4> QED BY <3>1, <3>4
    <3> QED BY <3>5 DEF h
  <2>3. IsOrdered(E, R, array, first, n, SortAt(array, f, first, n))
        BY <1>1, <2>1, <2>2, SortStep
  <2> QED BY <1>3, <2>1, <2>3
<1>6. G \subseteq T
  <2> HIDE DEF T, G, mu
  <2> QED BY <1>4, <1>5, Induction
<1>7. <<1, N>> \in G
      BY <1>1 DEF Runs
<1>8. IsOrdered(E, R, array, 1, N, f[<<1, N>>])
      BY <1>6, <1>7
<1> QED BY <1>2, <1>8 DEF AreRuns, N
-------------------------------------------------------------------------------
(***************************************************************************)
(* get_approximate_command().                                              *)
(***************************************************************************)
LEMMA CountAlikeIs ==
    ASSUME NEW w, NEW e, NEW n \in Nat, Len(w) = n
    PROVE  /\ CountAlike(w, e) \in 0 .. n
           /\ \A k \in 1 .. CountAlike(w, e) : w[k].ext = e
           /\ CountAlike(w, e) = n \/ w[CountAlike(w, e) + 1].ext # e
<1> DEFINE T == {i \in 0 .. n : i = n \/ w[i + 1].ext # e}
<1>1. T \subseteq Nat /\ n \in T
      OBVIOUS
<1>2. PICK i \in T : \A j \in T : i <= j
  <2> HIDE DEF T
  <2>1. T # {}
        BY <1>1
  <2> QED BY <1>1, <2>1, LeastNat
<1>3. ASSUME NEW k \in 1 .. i PROVE w[k].ext = e
  <2>1. k - 1 \in 0 .. n /\ ~(i <= k - 1) /\ k - 1 # n /\ (k - 1) + 1 = k
        OBVIOUS
  <2>2. ~(k - 1 \in T)
    <3> HIDE DEF T
    <3> QED BY <1>2, <2>1
  <2> QED BY <2>1, <2>2
<1>4. i \in 0 .. Len(w) /\ (\A k \in 1 .. i : w[k].ext = e) /\ (i = Len(w) \/ w[i + 1].ext # e)
      BY <1>3
<1> HIDE DEF T
<1> QED BY <1>4 DEF CountAlike

(* The list in its order: what stands at k was at p[k]. *)
IsArranged(N, far, p) ==
    /\ p \in [1 .. N -> 1 .. N]
    /\ \A k, l \in 1 .. N : k < l => \/ far[p[k]] < far[p[l]]
                                     \/ far[p[k]] = far[p[l]] /\ p[k] < p[l]
    /\ \A i \in 1 .. N : \E k \in 1 .. N : p[k] = i

IsListed(N, commands, far, p, w) ==
    /\ Len(w) = N
    /\ \A k \in 1 .. N : w[k] = [str |-> commands[p[k]], ext |-> far[p[k]]]

(* The order by a, and by b where a is the same. *)
Lexicographic(E, a, b) ==
    {at \in E \X E : \/ a[at[1]] < a[at[2]]
                     \/ a[at[1]] = a[at[2]] /\ b[at[1]] < b[at[2]]}

LEMMA LexicographicIs ==
    ASSUME NEW E, NEW a \in [E -> Nat], NEW b \in [E -> Nat]
    PROVE  /\ \A x, y \in E : <<x, y>> \in Lexicographic(E, a, b) <=>
                  (a[x] < a[y] \/ (a[x] = a[y] /\ b[x] < b[y]))
           /\ IsTransitive(E, Lexicographic(E, a, b))
<1>1. \A x, y \in E : <<x, y>> \in Lexicographic(E, a, b) <=>
          (a[x] < a[y] \/ (a[x] = a[y] /\ b[x] < b[y]))
      BY DEF Lexicographic
<1>2. ASSUME NEW x \in E, NEW y \in E, NEW z \in E,
             <<x, y>> \in Lexicographic(E, a, b), <<y, z>> \in Lexicographic(E, a, b)
      PROVE  <<x, z>> \in Lexicographic(E, a, b)
  <2>1. /\ a[x] < a[y] \/ (a[x] = a[y] /\ b[x] < b[y])
        /\ a[y] < a[z] \/ (a[y] = a[z] /\ b[y] < b[z])
        BY <1>1, <1>2
  <2>2. /\ a[x] \in Nat /\ a[y] \in Nat /\ a[z] \in Nat
        /\ b[x] \in Nat /\ b[y] \in Nat /\ b[z] \in Nat
        OBVIOUS
  <2>3. a[x] < a[z] \/ (a[x] = a[z] /\ b[x] < b[z])
        BY <2>1, <2>2
  <2> QED BY <1>1, <2>3
<1>3. IsTransitive(E, Lexicographic(E, a, b))
      BY <1>2 DEF IsTransitive
<1> QED BY <1>1, <1>3

LEMMA Arranged ==
    ASSUME NEW N \in Nat, NEW commands,
           \A i, j \in 1 .. N : commands[i] = commands[j] => i = j,
           NEW far \in [1 .. N -> Nat], NEW array,
           array = [i \in 1 .. N |-> [str |-> commands[i], ext |-> far[i]]]
    PROVE  \E p : IsArranged(N, far, p) /\ IsListed(N, commands, far, p, MergeSort(array))
<1> DEFINE Names == {commands[i] : i \in 1 .. N}
           place == [c \in Names |-> CHOOSE i \in 1 .. N : commands[i] = c]
           E == [str : Names, ext : Nat]
           ext == [x \in E |-> x.ext]
           at == [x \in E |-> place[x.str]]
           R == Lexicographic(E, ext, at)
           sl == MergeSort(array)
<1>1. \A i \in 1 .. N : commands[i] \in Names /\ place[commands[i]] = i
      OBVIOUS
<1>2. place \in [Names -> 1 .. N]
      OBVIOUS
<1>3. \A x \in E : ext[x] = x.ext /\ at[x] = place[x.str]
      OBVIOUS
<1>4. /\ array \in Seq(E) /\ Len(array) = N
      /\ \A i \in 1 .. N : /\ array[i] \in E /\ array[i].str = commands[i] /\ array[i].ext = far[i]
                           /\ array[i] = [str |-> commands[i], ext |-> far[i]]
  <2>1. \A i \in 1 .. N : [str |-> commands[i], ext |-> far[i]] \in E
        BY <1>1
  <2>2. array \in [1 .. N -> E]
        BY <2>1
  <2> HIDE DEF E
  <2>3. array \in Seq(E) /\ Len(array) = N
        BY <2>2
  <2> QED BY <2>1, <2>3
<1>5. ext \in [E -> Nat] /\ at \in [E -> Nat]
  <2>1. \A x \in E : x.ext \in Nat /\ x.str \in Names
        OBVIOUS
  <2> HIDE DEF E, Names, place
  <2>2. \A x \in E : place[x.str] \in Nat
        BY <1>2, <2>1
  <2> QED BY <2>1, <2>2
<1> HIDE DEF Names, place, E, R, sl, ext, at
<1>6. \A x, y \in E : <<x, y>> \in R <=> (ext[x] < ext[y] \/ (ext[x] = ext[y] /\ at[x] < at[y]))
      BY <1>5, LexicographicIs DEF R
<1>7. IsTransitive(E, R)
      BY <1>5, LexicographicIs DEF R
<1>8. ASSUME NEW i \in 1 .. N, NEW j \in 1 .. N, i < j
      PROVE  IF Above(array[i], array[j]) THEN <<array[j], array[i]>> \in R
             ELSE <<array[i], array[j]>> \in R
  <2>1. /\ array[i] \in E /\ array[j] \in E /\ ext[array[i]] = far[i] /\ ext[array[j]] = far[j]
        /\ at[array[i]] = i /\ at[array[j]] = j
        /\ array[i].ext = far[i] /\ array[j].ext = far[j]
        BY <1>1, <1>3, <1>4
  <2>2. far[i] \in Nat /\ far[j] \in Nat
        OBVIOUS
  <2>3. CASE far[i] > far[j]
        BY <1>6, <2>1, <2>2, <2>3 DEF Above
  <2>4. CASE ~(far[i] > far[j])
    <3>1. far[i] < far[j] \/ far[i] = far[j]
          BY <2>2, <2>4
    <3>2. <<array[i], array[j]>> \in R
          BY <1>6, <1>8, <2>1, <3>1
    <3> QED BY <2>1, <2>4, <3>2 DEF Above
  <2> QED BY <2>3, <2>4
<1>9. Orders(E, R, array)
      BY <1>4, <1>7, <1>8 DEF Orders
<1>10. IsOrdered(E, R, array, 1, N, sl)
      BY <1>4, <1>9, MergeSortSorts DEF sl
<1>11. /\ sl \in Seq(E) /\ Len(sl) = N /\ Increasing(sl, R)
       /\ Elems(sl) = {array[i] : i \in 1 .. 1 + N - 1}
      BY <1>10 DEF IsOrdered
<1> DEFINE p == [k \in 1 .. N |-> at[sl[k]]]
<1>12. ASSUME NEW k \in 1 .. N
       PROVE  /\ p[k] \in 1 .. N /\ sl[k] = array[p[k]] /\ sl[k] \in E
              /\ at[sl[k]] = p[k] /\ ext[sl[k]] = far[p[k]]
  <2>1. sl[k] \in Elems(sl) /\ sl[k] \in E
        BY <1>11 DEF Elems
  <2>2. PICK i \in 1 .. 1 + N - 1 : sl[k] = array[i]
        BY <1>11, <2>1
  <2>3. i \in 1 .. N
        OBVIOUS
  <2>4. at[array[i]] = i /\ ext[array[i]] = far[i]
        BY <1>1, <1>3, <1>4, <2>3
  <2>5. p[k] = i
        BY <2>2, <2>4
  <2> QED BY <2>1, <2>2, <2>3, <2>4, <2>5
<1>13. p \in [1 .. N -> 1 .. N]
  <2>1. p = [k \in 1 .. N |-> p[k]]
        OBVIOUS
  <2> HIDE DEF p
  <2> QED BY <1>12, <2>1
<1> HIDE DEF p
<1>14. ASSUME NEW k \in 1 .. N, NEW l \in 1 .. N, k < l
       PROVE  far[p[k]] < far[p[l]] \/ (far[p[k]] = far[p[l]] /\ p[k] < p[l])
  <2>1. <<sl[k], sl[l]>> \in R
        BY <1>11, <1>14 DEF Increasing
  <2>2. /\ sl[k] \in E /\ ext[sl[k]] = far[p[k]] /\ at[sl[k]] = p[k]
        /\ sl[l] \in E /\ ext[sl[l]] = far[p[l]] /\ at[sl[l]] = p[l]
        BY <1>12
  <2>3. ext[sl[k]] < ext[sl[l]] \/ (ext[sl[k]] = ext[sl[l]] /\ at[sl[k]] < at[sl[l]])
        BY <1>6, <2>1, <2>2
  <2> HIDE DEF p
  <2> QED BY <2>2, <2>3
<1>15. ASSUME NEW i \in 1 .. N PROVE \E k \in 1 .. N : p[k] = i
  <2>1. array[i] \in Elems(sl)
    <3>1. i \in 1 .. 1 + N - 1
          OBVIOUS
    <3> QED BY <1>11, <3>1
  <2>2. PICK k \in 1 .. N : sl[k] = array[i]
        BY <1>11, <2>1 DEF Elems
  <2>3. p[k] = i
    <3>1. at[array[i]] = i
          BY <1>1, <1>3, <1>4
    <3> QED BY <1>12, <2>2, <3>1
  <2> QED BY <2>3
<1>16. IsArranged(N, far, p)
      BY <1>13, <1>14, <1>15 DEF IsArranged
<1>17. \A k \in 1 .. N : sl[k] = [str |-> commands[p[k]], ext |-> far[p[k]]]
      BY <1>4, <1>12
<1>18. IsListed(N, commands, far, p, sl)
      BY <1>11, <1>17 DEF IsListed
<1> QED BY <1>16, <1>18 DEF sl

(* If all are alike, they stand where they stood. *)
LEMMA AllAlike ==
    ASSUME NEW N \in Nat, NEW far, NEW p, IsArranged(N, far, p),
           \A i \in 1 .. N : far[i] = 0
    PROVE  \A k \in 1 .. N : p[k] = k
<1>1. p \in [1 .. N -> 1 .. N] /\ \A i \in 1 .. N : \E k \in 1 .. N : p[k] = i
      BY DEF IsArranged
<1>2. ASSUME NEW k \in 1 .. N, NEW l \in 1 .. N, k < l PROVE p[k] < p[l]
  <2>1. p[k] \in 1 .. N /\ p[l] \in 1 .. N
        BY <1>1
  <2>2. far[p[k]] = 0 /\ far[p[l]] = 0
        BY <2>1
  <2>3. far[p[k]] < far[p[l]] \/ (far[p[k]] = far[p[l]] /\ p[k] < p[l])
        BY <1>2 DEF IsArranged
  <2> QED BY <2>2, <2>3
<1> DEFINE D == 1 .. N
           id == [k \in D |-> k]
           T == {k \in D : p[k] = k}
<1>3. id \in [D -> Nat] /\ \A k \in D : id[k] = k
      OBVIOUS
<1>4. IsInductive(D, id, T)
  <2> SUFFICES ASSUME NEW k \in D, \A e \in D : id[e] < id[k] => e \in T
               PROVE  p[k] = k
      BY DEF IsInductive
  <2>1. \A e \in D : e < k => p[e] = e
        BY <1>3
  <2>2. PICK l \in D : p[l] = k
        BY <1>1
  <2>3. p[k] \in D /\ p[l] \in D
        BY <1>1
  <2>4. CASE l = k
        BY <2>2, <2>4
  <2>5. CASE l < k
        BY <2>1, <2>2, <2>5
  <2>6. CASE k < l
    <3>1. p[k] < k
          BY <1>2, <2>2, <2>6
    <3>2. p[p[k]] = p[k] /\ p[p[k]] < p[k]
          BY <1>2, <2>1, <2>3, <3>1
    <3> QED BY <2>3, <3>2
  <2> QED BY <2>4, <2>5, <2>6
<1>5. D \subseteq T
  <2> HIDE DEF T, id, D
  <2> QED BY <1>3, <1>4, Induction
<1> QED BY <1>5

NeedsNothing(N, far) == N > MostListed /\ \A j \in 1 .. N : far[j] = 0

(* The indices of what is nearest; if all are at 0, of the first that are listed. *)
NearestOf(N, far) ==
    {i \in 1 .. N : /\ far[i] <= TooFar /\ \A j \in 1 .. N : far[i] <= far[j]
                    /\ NeedsNothing(N, far) => i <= MostListed}

(* w names the commands with these indices, in their order. *)
InOrder(commands, N, w) ==
    \A k, l \in DOMAIN w : k < l =>
        \E i, j \in 1 .. N : i < j /\ w[k] = commands[i] /\ w[l] = commands[j]

Names(commands, N, I, w) ==
    /\ \E c \in Nat : DOMAIN w = 1 .. c
    /\ {w[k] : k \in DOMAIN w} = {commands[i] : i \in I}
    /\ InOrder(commands, N, w)

(* What is left of the arranged list when it is cut after the run of the nearest. *)
(* After c elements the run of the nearest ends, or the list is long enough. *)
IsCut(N, far, p, c) ==
    /\ c \in 0 .. N /\ \A k \in 1 .. c : far[p[k]] = far[p[1]]
    /\ IF NeedsNothing(N, far) THEN c = MostListed
       ELSE c = N \/ far[p[c + 1]] # far[p[1]]

LEMMA NearestRun ==
    ASSUME NEW N \in Nat, N >= 1, NEW commands, NEW far \in [1 .. N -> Nat],
           NEW p, IsArranged(N, far, p), far[p[1]] <= TooFar, NEW c, IsCut(N, far, p, c)
    PROVE  Names(commands, N, NearestOf(N, far), [k \in 1 .. c |-> commands[p[k]]])
<1> DEFINE w == [k \in 1 .. c |-> commands[p[k]]]
<1>0. c \in 0 .. N /\ \A k \in 1 .. c : far[p[k]] = far[p[1]]
      BY DEF IsCut
<1> HIDE DEF w
<1>1. /\ p \in [1 .. N -> 1 .. N] /\ \A i \in 1 .. N : \E k \in 1 .. N : p[k] = i
      /\ \A k, l \in 1 .. N : k < l => far[p[k]] < far[p[l]] \/ (far[p[k]] = far[p[l]] /\ p[k] < p[l])
      BY DEF IsArranged
<1>2. \A k \in 1 .. N : p[k] \in 1 .. N /\ far[p[k]] \in Nat
      BY <1>1
<1>3. ASSUME NEW k \in 1 .. N, NEW l \in 1 .. N, k <= l PROVE far[p[k]] <= far[p[l]]
  <2>1. CASE k = l
        BY <1>2, <2>1
  <2>2. CASE k < l
    <3>1. far[p[k]] < far[p[l]] \/ (far[p[k]] = far[p[l]] /\ p[k] < p[l])
          BY <1>1, <2>2
    <3>2. far[p[k]] \in Nat /\ far[p[l]] \in Nat
          BY <1>2
    <3> QED BY <3>1, <3>2
  <2> QED BY <1>3, <2>1, <2>2
<1>4. 1 \in 1 .. N /\ \A j \in 1 .. N : far[p[1]] <= far[j]
  <2>1. ASSUME NEW j \in 1 .. N PROVE far[p[1]] <= far[j]
    <3>1. PICK k \in 1 .. N : p[k] = j
          BY <1>1
    <3>2. 1 \in 1 .. N /\ 1 <= k
          OBVIOUS
    <3> QED BY <1>3, <3>1, <3>2
  <2> QED BY <2>1
<1>5. NeedsNothing(N, far) => \A k \in 1 .. N : p[k] = k
      BY AllAlike DEF NeedsNothing
<1>6. ASSUME NEW k \in 1 .. c PROVE p[k] \in NearestOf(N, far)
  <2>1. k \in 1 .. N /\ far[p[k]] = far[p[1]] /\ p[k] \in 1 .. N
        BY <1>0, <1>2
  <2>2. NeedsNothing(N, far) => p[k] <= MostListed
    <3> HAVE NeedsNothing(N, far)
    <3>1. c = MostListed /\ p[k] = k
          BY <1>5, <2>1 DEF IsCut
    <3> QED BY <3>1 DEF MostListed
  <2> QED BY <1>4, <2>1, <2>2 DEF NearestOf
<1>7. ASSUME NEW i \in NearestOf(N, far) PROVE \E k \in 1 .. c : p[k] = i
  <2>1. /\ i \in 1 .. N /\ \A j \in 1 .. N : far[i] <= far[j]
        /\ NeedsNothing(N, far) => i <= MostListed
        BY <1>7 DEF NearestOf
  <2>2. PICK k \in 1 .. N : p[k] = i
        BY <1>1, <2>1
  <2>3. far[p[k]] = far[p[1]]
    <3>1. far[p[k]] <= far[p[1]] /\ far[p[1]] <= far[p[k]]
          BY <1>2, <1>4, <2>1, <2>2
    <3> QED BY <1>2, <1>4, <3>1
  <2>4. CASE NeedsNothing(N, far)
    <3>1. c = MostListed /\ i = k /\ i <= MostListed
          BY <1>5, <2>1, <2>2, <2>4 DEF IsCut
    <3>2. k \in 1 .. c
          BY <3>1
    <3> QED BY <2>2, <3>2
  <2>5. CASE ~NeedsNothing(N, far)
    <3>1. c = N \/ far[p[c + 1]] # far[p[1]]
          BY <2>5 DEF IsCut
    <3>2. CASE k <= c
      <4>1. k \in 1 .. c
            BY <3>2
      <4> QED BY <2>2, <4>1
    <3>3. CASE c < k
      <4>1. c + 1 \in 1 .. N /\ c + 1 <= k /\ c # N /\ 1 <= c + 1
            BY <1>0, <3>3
      <4>2. far[p[c + 1]] <= far[p[k]] /\ far[p[1]] <= far[p[c + 1]]
            BY <1>3, <1>4, <4>1
      <4>3. far[p[c + 1]] = far[p[1]]
            BY <1>2, <1>4, <2>3, <4>1, <4>2
      <4> QED BY <3>1, <4>1, <4>3
    <3>4. k <= c \/ c < k
          BY <1>0
    <3> QED BY <3>2, <3>3, <3>4
  <2> QED BY <2>4, <2>5
<1>8. DOMAIN w = 1 .. c /\ \A k \in 1 .. c : w[k] = commands[p[k]]
      BY DEF w
<1>9. {w[k] : k \in DOMAIN w} = {commands[i] : i \in NearestOf(N, far)}
  <2>1. ASSUME NEW k \in 1 .. c PROVE w[k] \in {commands[i] : i \in NearestOf(N, far)}
        BY <1>6, <1>8
  <2>2. ASSUME NEW i \in NearestOf(N, far) PROVE commands[i] \in {w[k] : k \in 1 .. c}
    <3>1. PICK k \in 1 .. c : p[k] = i
          BY <1>7
    <3> QED BY <1>8, <3>1
  <2> QED BY <1>8, <2>1, <2>2
<1>10. ASSUME NEW k \in 1 .. c, NEW l \in 1 .. c, k < l
       PROVE  \E i, j \in 1 .. N : i < j /\ w[k] = commands[i] /\ w[l] = commands[j]
  <2>1. k \in 1 .. N /\ l \in 1 .. N /\ far[p[k]] = far[p[1]] /\ far[p[l]] = far[p[1]]
        BY <1>0
  <2>2. p[k] < p[l]
    <3>1. far[p[k]] < far[p[l]] \/ (far[p[k]] = far[p[l]] /\ p[k] < p[l])
          BY <1>1, <1>10, <2>1
    <3>2. far[p[k]] \in Nat /\ far[p[l]] = far[p[k]]
          BY <1>2, <2>1
    <3>3. ~(far[p[k]] < far[p[l]])
          BY <3>2
    <3> QED BY <3>1, <3>3
  <2> QED BY <1>2, <1>8, <2>1, <2>2
<1>11. c \in Nat
      BY <1>0
<1>12. Names(commands, N, NearestOf(N, far), w)
  <2>1. InOrder(commands, N, w)
        BY <1>8, <1>10 DEF InOrder
  <2>2. \E k \in Nat : DOMAIN w = 1 .. k
        BY <1>8, <1>11
  <2> QED BY <1>9, <2>1, <2>2, Zenon DEF Names
<1> QED BY <1>12 DEF w

(* get_approximate_command(): what is suggested for a word is what is nearest to it, in
   the order of the list, and of a list to which nothing has to be added the first
   seven; for every list of commands and every word. *)
THEOREM ApproximateIsNearest ==
    ASSUME NEW cmd, NEW C, NEW commands \in Seq(C), NEW spellings, NEW N \in Nat,
           Len(commands) = N, N >= 1,
           \A i, j \in 1 .. N : commands[i] = commands[j] => i = j,
           NEW far \in [1 .. N -> Nat],
           \A i \in 1 .. N : far[i] = Distance(cmd, spellings[i])
    PROVE  Names(commands, N, NearestOf(N, far), Approximate(cmd, commands, spellings))
<1> DEFINE array == [i \in DOMAIN commands |->
                        [str |-> commands[i], ext |-> Distance(cmd, spellings[i])]]
           sl == MergeSort(array)
           size == IF CountAlike(sl, 0) = Len(sl) /\ Len(sl) > MostListed
                   THEN MostListed ELSE Len(sl)
           listed == SubSeq(sl, 1, size)
           c == CountAlike(listed, sl[1].ext)
<1>1. array = [i \in 1 .. N |-> [str |-> commands[i], ext |-> far[i]]]
      OBVIOUS
<1>2. Approximate(cmd, commands, spellings) =
          IF sl[1].ext > TooFar THEN <<>> ELSE [i \in 1 .. c |-> listed[i].str]
      BY DEF Approximate
<1> HIDE DEF array
<1>3. PICK p : IsArranged(N, far, p) /\ IsListed(N, commands, far, p, sl)
      BY <1>1, Arranged
<1> HIDE DEF sl
<1>4. /\ Len(sl) = N
      /\ \A k \in 1 .. N : sl[k].str = commands[p[k]] /\ sl[k].ext = far[p[k]]
      BY <1>3 DEF IsListed
<1>5. /\ p \in [1 .. N -> 1 .. N]
      /\ \A i \in 1 .. N : \E k \in 1 .. N : p[k] = i
      BY <1>3 DEF IsArranged
<1>6. 1 \in 1 .. N /\ sl[1].ext = far[p[1]] /\ far[p[1]] \in Nat
      BY <1>4, <1>5
<1>7. CountAlike(sl, 0) = N <=> \A j \in 1 .. N : far[j] = 0
  <2>1. /\ CountAlike(sl, 0) \in 0 .. N
        /\ \A k \in 1 .. CountAlike(sl, 0) : sl[k].ext = 0
        /\ CountAlike(sl, 0) = N \/ sl[CountAlike(sl, 0) + 1].ext # 0
        BY <1>4, CountAlikeIs
  <2> DEFINE a == CountAlike(sl, 0)
  <2> HIDE DEF a
  <2>2. ASSUME a = N, NEW j \in 1 .. N PROVE far[j] = 0
    <3>1. PICK k \in 1 .. N : p[k] = j
          BY <1>5
    <3> QED BY <1>4, <2>1, <2>2, <3>1 DEF a
  <2>3. ASSUME \A j \in 1 .. N : far[j] = 0, a # N PROVE FALSE
    <3>1. a + 1 \in 1 .. N /\ sl[a + 1].ext # 0
          BY <2>1, <2>3 DEF a
    <3>2. sl[a + 1].ext = far[p[a + 1]] /\ p[a + 1] \in 1 .. N
          BY <1>4, <1>5, <3>1
    <3> QED BY <2>3, <3>1, <3>2
  <2> QED BY <2>2, <2>3 DEF a
<1>8. size = IF NeedsNothing(N, far) THEN MostListed ELSE N
      BY <1>4, <1>7 DEF NeedsNothing
<1>9. size \in 1 .. N
      BY <1>8 DEF NeedsNothing, MostListed
<1> HIDE DEF size
<1>10. /\ Len(listed) = size
       /\ \A k \in 1 .. size : listed[k] = sl[k]
  <2>1. \A i \in 1 .. size : sl[i] \in {sl[k] : k \in 1 .. size}
        OBVIOUS
  <2>2. 1 \in Int /\ size \in Int /\ 1 <= size
        BY <1>9
  <2>3. /\ Len(listed) = IF 1 <= size THEN size - 1 + 1 ELSE 0
        /\ \A i \in 1 .. size - 1 + 1 : listed[i] = sl[1 + i - 1]
    <3> DEFINE S == {sl[k] : k \in 1 .. size}
    <3>1. \A i \in 1 .. size : sl[i] \in S
          OBVIOUS
    <3> HIDE DEF S
    <3> QED BY <2>2, <3>1, SubSeqProperties
  <2>4. size - 1 + 1 = size /\ \A i \in 1 .. size : 1 + i - 1 = i
        BY <2>2
  <2> QED BY <2>2, <2>3, <2>4
<1> HIDE DEF listed
<1>11. /\ c \in 0 .. size /\ \A k \in 1 .. c : listed[k].ext = sl[1].ext
       /\ c = size \/ listed[c + 1].ext # sl[1].ext
  <2>1. size \in Nat
        BY <1>9
  <2> QED BY <1>10, <2>1, CountAlikeIs
<1> HIDE DEF c
<1>12. IsCut(N, far, p, c)
  <2>1. c \in 0 .. N /\ \A k \in 1 .. c : far[p[k]] = far[p[1]]
    <3>1. c \in 0 .. N /\ \A k \in 1 .. c : k \in 1 .. size /\ k \in 1 .. N
          BY <1>9, <1>11
    <3>2. ASSUME NEW k \in 1 .. c PROVE far[p[k]] = far[p[1]]
      <4>1. listed[k].ext = sl[1].ext /\ listed[k] = sl[k] /\ sl[k].ext = far[p[k]]
            BY <1>4, <1>10, <1>11, <3>1
      <4> QED BY <1>6, <4>1
    <3> QED BY <3>1, <3>2
  <2>2. CASE NeedsNothing(N, far)
    <3>1. size = MostListed
          BY <1>8, <2>2
    <3>2. ASSUME c # size PROVE FALSE
      <4>1. c + 1 \in 1 .. size /\ c + 1 \in 1 .. N /\ listed[c + 1].ext # sl[1].ext
            BY <1>9, <1>11, <3>2
      <4>2. listed[c + 1].ext = far[p[c + 1]] /\ p[c + 1] \in 1 .. N /\ p[1] \in 1 .. N
            BY <1>4, <1>5, <1>6, <1>10, <4>1
      <4>3. far[p[c + 1]] = 0 /\ far[p[1]] = 0
            BY <2>2, <4>2 DEF NeedsNothing
      <4> QED BY <1>6, <4>1, <4>2, <4>3
    <3> QED BY <2>1, <2>2, <3>1, <3>2 DEF IsCut
  <2>3. CASE ~NeedsNothing(N, far)
    <3>1. size = N
          BY <1>8, <2>3
    <3>2. ASSUME c # N PROVE far[p[c + 1]] # far[p[1]]
      <4>1. c + 1 \in 1 .. size /\ c + 1 \in 1 .. N /\ listed[c + 1].ext # sl[1].ext
            BY <1>9, <1>11, <3>1, <3>2
      <4> QED BY <1>4, <1>6, <1>10, <4>1
    <3> QED BY <2>1, <2>3, <3>2 DEF IsCut
  <2> QED BY <2>2, <2>3
<1>13. CASE sl[1].ext > TooFar
  <2>1. NearestOf(N, far) = {}
    <3> SUFFICES ASSUME NEW i \in NearestOf(N, far) PROVE FALSE
        OBVIOUS
    <3>1. far[i] <= TooFar /\ far[i] <= far[p[1]] /\ i \in 1 .. N /\ p[1] \in 1 .. N
          BY <1>5, <1>6 DEF NearestOf
    <3>2. far[p[1]] <= far[i]
      <4>1. PICK k \in 1 .. N : p[k] = i
            BY <1>5, <3>1
      <4>2. CASE k = 1
            BY <1>6, <4>1, <4>2
      <4>3. CASE 1 < k
        <5>1. far[p[1]] < far[p[k]] \/ (far[p[1]] = far[p[k]] /\ p[1] < p[k])
              BY <1>3, <1>6, <4>3 DEF IsArranged
        <5> QED BY <1>6, <3>1, <4>1, <5>1
      <4> QED BY <4>2, <4>3
    <3>3. far[i] \in Nat
          BY <3>1
    <3> QED BY <1>6, <1>13, <3>1, <3>2, <3>3 DEF TooFar
  <2>2. Approximate(cmd, commands, spellings) = <<>>
        BY <1>2, <1>13
  <2>3. DOMAIN <<>> = 1 .. 0 /\ 1 .. 0 = {} /\ 0 \in Nat
        OBVIOUS
  <2>4. Names(commands, N, {}, <<>>)
        BY <2>3 DEF Names, InOrder
  <2> QED BY <2>1, <2>2, <2>4
<1>14. CASE ~(sl[1].ext > TooFar)
  <2>1. Approximate(cmd, commands, spellings) = [i \in 1 .. c |-> listed[i].str]
        BY <1>2, <1>14
  <2>2. \A i \in 1 .. c : listed[i].str = commands[p[i]]
    <3>1. \A i \in 1 .. c : i \in 1 .. size /\ i \in 1 .. N
          BY <1>9, <1>11
    <3> QED BY <1>4, <1>10, <3>1
  <2>3. [i \in 1 .. c |-> listed[i].str] = [k \in 1 .. c |-> commands[p[k]]]
        BY <2>2
  <2>4. far[p[1]] <= TooFar
        BY <1>6, <1>14 DEF TooFar
  <2>5. Names(commands, N, NearestOf(N, far), [k \in 1 .. c |-> commands[p[k]]])
        BY <1>3, <1>12, <2>4, NearestRun
  <2> QED BY <2>1, <2>3, <2>5
<1> QED BY <1>13, <1>14
===============================================================================
