------------------------------ MODULE Induction ------------------------------
(***************************************************************************)
(* Induction and recursion without operator parameters: a statement about  *)
(* numbers is given as the set of those it holds of, and a recursive       *)
(* definition by the function that makes a value of the one before.        *)
(***************************************************************************)
EXTENDS Integers, WellFoundedInduction, TLAPS

\* Every set of natural numbers that is not empty has a least.
LEMMA LeastNatural ==
  ASSUME NEW T \in SUBSET Nat, T # {}
  PROVE  \E n \in T : \A m \in T : n =< m
<1> DEFINE R == OpToRel(<, Nat)
<1>1. IsWellFoundedOn(R, Nat)
  BY NatLessThanWellFounded
<1>2. R = {ss \in Nat \X Nat : ss[1] < ss[2]}
  BY DEF OpToRel
<1> HIDE DEF R
<1>3. \E x \in T : \A y \in T : <<y, x>> \notin R
  BY <1>1, WFMin
<1>4. \A x, y \in T : <<y, x>> \notin R => x =< y
  BY <1>2
<1> QED
  BY <1>3, <1>4

\* Induction: the set of the numbers a statement holds of.
LEMMA Induction ==
  ASSUME NEW T, 0 \in T, \A n \in Nat : n \in T => n + 1 \in T
  PROVE  Nat \subseteq T
<1> DEFINE S == Nat \ T
<1>1. ASSUME S # {} PROVE FALSE
  <2>1. PICK n \in S : \A m \in S : n =< m
    BY <1>1, LeastNatural
  <2>2. n # 0 /\ n - 1 \in Nat
    BY <2>1
  <2>3. n - 1 \in T
    BY <2>1, <2>2
  <2> QED
    BY <2>1, <2>2, <2>3
<1> QED
  BY <1>1

\* What makes every value of the one before makes a function on the numbers.
LEMMA Iteration ==
  ASSUME NEW V, NEW c \in V, NEW step \in [Nat -> [V -> V]]
  PROVE  \E f \in [Nat -> V] :
           f[0] = c /\ \A n \in Nat : f[n + 1] = step[n][f[n]]
<1> DEFINE Upto(n, f) == /\ f \in [0..n -> V]
                         /\ f[0] = c
                         /\ \A k \in 0..(n - 1) : f[k + 1] = step[k][f[k]]
           T == {n \in Nat : \E f \in [0..n -> V] : Upto(n, f)}
<1>1. 0 \in T
  <2>1. Upto(0, [k \in 0..0 |-> c])
    OBVIOUS
  <2> QED
    BY <2>1
<1>2. ASSUME NEW n \in Nat, n \in T PROVE n + 1 \in T
  <2>1. PICK f \in [0..n -> V] : Upto(n, f)
    BY <1>2
  <2> DEFINE g == [k \in 0..(n + 1) |-> IF k =< n THEN f[k] ELSE step[n][f[n]]]
  <2>2. step[n][f[n]] \in V /\ n \in 0..n
    BY <2>1
  <2>3. g \in [0..(n + 1) -> V]
    BY <2>1, <2>2
  <2>4. \A k \in 0..n : g[k] = f[k]
    OBVIOUS
  <2>5. g[n + 1] = step[n][f[n]]
    OBVIOUS
  <2>6. ASSUME NEW k \in 0..n PROVE g[k + 1] = step[k][g[k]]
    <3>1. CASE k = n
      BY <3>1, <2>4, <2>5
    <3>2. CASE k # n
      <4>1. k \in 0..(n - 1) /\ k + 1 \in 0..n
        BY <3>2
      <4> QED
        BY <4>1, <2>1, <2>4
    <3> QED
      BY <3>1, <3>2
  <2> HIDE DEF g
  <2>7. g[0] = c
    BY <2>1, <2>4
  <2>8. (n + 1) - 1 = n
    OBVIOUS
  <2>9. Upto(n + 1, g)
    BY <2>3, <2>6, <2>7, <2>8
  <2> HIDE DEF Upto
  <2> QED
    BY <2>3, <2>9
<1>3. Nat \subseteq T
  <2> HIDE DEF T
  <2> QED
    BY <1>1, <1>2, Induction
\* Two of them agree where both are defined.
<1>4. ASSUME NEW n \in Nat, NEW m \in Nat, NEW f, NEW g, Upto(n, f), Upto(m, g)
      PROVE  \A k \in Nat : k =< n /\ k =< m => f[k] = g[k]
  <2> DEFINE A == {k \in Nat : k =< n /\ k =< m => f[k] = g[k]}
  <2>1. 0 \in A
    BY <1>4
  <2>2. ASSUME NEW k \in Nat, k \in A PROVE k + 1 \in A
    <3>1. SUFFICES ASSUME k + 1 =< n, k + 1 =< m PROVE f[k + 1] = g[k + 1]
      OBVIOUS
    <3>2. k \in 0..(n - 1) /\ k \in 0..(m - 1) /\ f[k] = g[k]
      BY <2>2, <3>1
    <3> QED
      BY <3>2, <1>4
  <2>3. Nat \subseteq A
    <3> HIDE DEF A
    <3> QED
      BY <2>1, <2>2, Induction
  <2> QED
    BY <2>3
<1> DEFINE F == [n \in Nat |-> CHOOSE f \in [0..n -> V] : Upto(n, f)]
           h == [n \in Nat |-> F[n][n]]
<1>5. ASSUME NEW n \in Nat PROVE F[n] \in [0..n -> V] /\ Upto(n, F[n])
  <2>1. \E f \in [0..n -> V] : Upto(n, f)
    BY <1>3
  <2> QED
    BY <2>1
<1> HIDE DEF F, Upto
<1>6. h \in [Nat -> V]
  BY <1>5
<1>7. h[0] = c
  BY <1>5 DEF Upto
<1>8. ASSUME NEW n \in Nat PROVE h[n + 1] = step[n][h[n]]
  <2>1. F[n + 1][n] = F[n][n]
    BY <1>4, <1>5
  <2>2. F[n + 1][n + 1] = step[n][F[n + 1][n]]
    BY <1>5 DEF Upto
  <2> QED
    BY <2>1, <2>2
<1> QED
  BY <1>6, <1>7, <1>8
\* A value for every x in S is made of the values of smaller measure.
Descends(S, V, measure, body) ==
  /\ V # {}
  /\ measure \in [S -> Nat]
  /\ body \in [S -> [[S -> V] -> V]]
  /\ \A x \in S, g, h \in [S -> V] :
       (\A y \in S : measure[y] < measure[x] => g[y] = h[y]) => body[x][g] = body[x][h]

\* f is what the definition says, everywhere.
Solves(S, V, body, f) == f \in [S -> V] /\ \A x \in S : f[x] = body[x][f]

\* A definition by recursion that looks only at values of smaller measure
\* has a solution.
LEMMA Recursion ==
  ASSUME NEW S, NEW V, NEW measure, NEW body, Descends(S, V, measure, body)
  PROVE  \E f : Solves(S, V, body, f)
<1>0. /\ measure \in [S -> Nat]
      /\ body \in [S -> [[S -> V] -> V]]
      /\ \A x \in S, g, h \in [S -> V] :
           (\A y \in S : measure[y] < measure[x] => g[y] = h[y]) => body[x][g] = body[x][h]
  BY DEF Descends
<1> PICK c \in V : TRUE
  BY DEF Descends
<1> USE <1>0
<1> DEFINE W == [S -> V]
           start == [x \in S |-> c]
           step == [n \in Nat |-> [g \in W |-> [x \in S |-> body[x][g]]]]
<1>1. start \in W /\ step \in [Nat -> [W -> W]]
  OBVIOUS
<1> HIDE DEF start, step
<1>2. PICK chain \in [Nat -> W] :
        chain[0] = start /\ \A n \in Nat : chain[n + 1] = step[n][chain[n]]
  <2> HIDE <1>0 DEF W
  <2> QED
    BY <1>1, Iteration
<1>3. ASSUME NEW n \in Nat, NEW x \in S
      PROVE  chain[n] \in W /\ chain[n + 1][x] = body[x][chain[n]]
  <2>1. step[n] = [g \in W |-> [y \in S |-> body[y][g]]]
    BY DEF step
  <2>2. chain[n] \in W /\ chain[n + 1] = step[n][chain[n]]
    BY <1>2
  <2>3. step[n][chain[n]] = [y \in S |-> body[y][chain[n]]]
    <3> HIDE DEF W
    <3> QED
      BY <2>1, <2>2
  <2> QED
    BY <2>2, <2>3
<1> DEFINE Settled(n) == \A x \in S : measure[x] < n => chain[n + 1][x] = chain[n][x]
           A == {n \in Nat : Settled(n)}
<1>4. ASSUME NEW n \in Nat PROVE Settled(n)
  <2>1. 0 \in A
    OBVIOUS
  <2>2. ASSUME NEW m \in Nat, m \in A PROVE m + 1 \in A
    <3>1. SUFFICES ASSUME NEW x \in S, measure[x] < m + 1
                   PROVE  chain[(m + 1) + 1][x] = chain[m + 1][x]
      OBVIOUS
    <3>2. \A y \in S : measure[y] < measure[x] => chain[m + 1][y] = chain[m][y]
      BY <2>2, <3>1
    <3>3. body[x][chain[m + 1]] = body[x][chain[m]]
      <4>1. chain[m] \in [S -> V] /\ chain[m + 1] \in [S -> V]
        BY <1>3
      <4> HIDE DEF W
      <4> QED
        BY <3>2, <4>1
    <3>4. chain[(m + 1) + 1][x] = body[x][chain[m + 1]] /\ chain[m + 1][x] = body[x][chain[m]]
      BY <1>3
    <3> QED
      BY <3>3, <3>4
  <2>3. Nat \subseteq A
    <3> HIDE DEF A
    <3> QED
      BY <2>1, <2>2, Induction
  <2> QED
    BY <2>3
<1>5. ASSUME NEW x \in S, NEW n \in Nat, measure[x] < n
      PROVE  chain[n][x] = chain[measure[x] + 1][x]
  <2> DEFINE B == {k \in Nat : measure[x] < k => chain[k][x] = chain[measure[x] + 1][x]}
  <2>1. 0 \in B
    OBVIOUS
  <2>2. ASSUME NEW k \in Nat, k \in B PROVE k + 1 \in B
    <3>1. CASE measure[x] < k
      BY <3>1, <2>2, <1>4
    <3>2. CASE ~(measure[x] < k)
      <4>1. PICK m \in Nat : m = measure[x]
        OBVIOUS
      <4>2. m < k + 1 => k + 1 = m + 1
        BY <3>2, <4>1
      <4> QED
        BY <4>1, <4>2
    <3> QED
      BY <3>1, <3>2
  <2>3. Nat \subseteq B
    <3> HIDE DEF B
    <3> QED
      BY <2>1, <2>2, Induction
  <2> QED
    BY <2>3, <1>5
<1> DEFINE f == [x \in S |-> chain[measure[x] + 1][x]]
<1>6. f \in W
  BY <1>3
<1>7. ASSUME NEW x \in S PROVE f[x] = body[x][f]
  <2>1. \A y \in S : measure[y] < measure[x] => chain[measure[x]][y] = f[y]
    BY <1>5
  <2> HIDE DEF f
  <2>2. body[x][chain[measure[x]]] = body[x][f]
    BY <2>1, <1>3, <1>6
  <2>3. f[x] = chain[measure[x] + 1][x]
    BY DEF f
  <2> QED
    BY <2>2, <2>3, <1>3
<1> QED
  BY <1>6, <1>7 DEF Solves
=============================================================================
