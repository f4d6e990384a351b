---------------------------- MODULE FormulaProofs ----------------------------
(***************************************************************************)
(* The formula engine computes what the grammar says, for every set of     *)
(* formulas, every value of the variables and all limits.                  *)
(*                                                                         *)
(* The grammar: the recursive function of Meaning exists (Recursion), so   *)
(* its values can be read part by part (Reads); what can be read is        *)
(* written in one way (Formed), so it has one value.  The text: every      *)
(* symbol prints its value, sign included, in its place, and the checks    *)
(* refuse no expression.  The engine: its stack of operators is sorted and *)
(* holds the parentheses that are open; the notation written so far leaves *)
(* on a stack the values of the parts that have been read, one for every   *)
(* operator that waits (Converting), so that the whole of it leaves the    *)
(* value of the formula; and evaluating it goes the same way.  Each step   *)
(* takes from a number that bounds those left (StepsLeft).                 *)
(***************************************************************************)
EXTENDS FormulaEngine, Induction, FiniteSetTheorems, SequenceTheorems, TLAPS

-----------------------------------------------------------------------------
(* Arithmetic. *)

Values == Fractions \cup {Undefined}

\* A product of positive numbers is positive.
LEMMA PositiveProduct ==
  ASSUME NEW m \in Nat \ {0}, NEW n \in Nat \ {0}
  PROVE  m * n \in Nat \ {0}
OBVIOUS

\* What is not a fraction can be told from one.
LEMMA UndefinedIsNoFraction == Undefined \notin Fractions
BY DEF Undefined, Fractions

\* A fraction has two numbers.
LEMMA FractionParts ==
  ASSUME NEW q \in Fractions
  PROVE  q[1] \in Int /\ q[2] \in Nat \ {0} /\ q = <<q[1], q[2]>>
BY DEF Fractions

\* Converted to an integer it is one.
LEMMA TruncatedIsInteger ==
  ASSUME NEW q \in Fractions
  PROVE  Truncated(q) \in Int
<1>1. q[1] \in Int /\ q[2] \in Nat \ {0}
  BY FractionParts
<1> QED
  BY <1>1 DEF Truncated

\* The remainder is an integer.
LEMMA RemainderIsInteger ==
  ASSUME NEW m \in Int, NEW n \in Int, n # 0
  PROVE  Remainder(m, n) \in Int
BY DEF Remainder

\* The sign of a fraction can be changed, and changed back.
LEMMA NegatedIsFraction ==
  /\ \A q \in Fractions : Negated(q) \in Fractions /\ Negated(Negated(q)) = q
  /\ Negated(Undefined) = Undefined
  /\ \A q \in Values : Negated(q) \in Values
<1>1. ASSUME NEW q \in Fractions
      PROVE Negated(q) \in Fractions /\ Negated(Negated(q)) = q
  <2>1. q[1] \in Int /\ q[2] \in Nat \ {0} /\ q = <<q[1], q[2]>>
    BY FractionParts
  <2>2. Negated(q) = <<0 - q[1], q[2]>> /\ 0 - q[1] \in Int /\ 0 - (0 - q[1]) = q[1]
    BY <2>1 DEF Negated
  <2> QED
    BY <2>1, <2>2 DEF Negated, Fractions
<1>2. Negated(Undefined) = Undefined
  BY DEF Negated, Undefined
<1> QED
  BY <1>1, <1>2 DEF Values

\* What the engine computes of two fractions is a fraction, unless it
\* refuses the divisor.
LEMMA ApplyIsFraction ==
  ASSUME NEW op \in BinaryOps, NEW a \in Fractions, NEW b \in Fractions, ~ByZero(op, b)
  PROVE  Apply(op, a, b) \in Fractions
<1>1. a[1] \in Int /\ a[2] \in Nat \ {0} /\ b[1] \in Int /\ b[2] \in Nat \ {0}
  BY FractionParts
<1>2. a[2] * b[2] \in Nat \ {0}
  BY <1>1, PositiveProduct
<1>3. CASE op \in {"+", "-", "*"}
  BY <1>1, <1>2, <1>3 DEF Apply, Fractions
<1>4. CASE op = "/" /\ b[1] < 0
  <2>1. a[2] * (0 - b[1]) \in Nat \ {0}
    BY <1>1, <1>4, PositiveProduct
  <2> QED
    BY <1>1, <1>4, <2>1 DEF Apply, Fractions
<1>5. CASE op = "/" /\ b[1] > 0
  <2>1. a[2] * b[1] \in Nat \ {0}
    BY <1>1, <1>5, PositiveProduct
  <2> QED
    BY <1>1, <1>5, <2>1 DEF Apply, Fractions
<1>6. CASE op = "%"
  <2>1. Truncated(a) \in Int /\ Truncated(b) \in Int /\ Truncated(b) # 0
    BY <1>6, TruncatedIsInteger DEF ByZero
  <2>2. Remainder(Truncated(a), Truncated(b)) \in Int
    BY <2>1, RemainderIsInteger
  <2> QED
    BY <1>6, <2>2 DEF Apply, Fractions
<1>7. op = "/" => b[1] # 0
  BY DEF ByZero
<1> QED
  BY <1>1, <1>3, <1>4, <1>5, <1>6, <1>7 DEF BinaryOps

\* An operation has a value or fails, and fails when a part of it did.
LEMMA ApplyOrFailTyped ==
  ASSUME NEW op \in BinaryOps, NEW a \in Values, NEW b \in Values
  PROVE  /\ ApplyOrFail(op, a, b) \in Values
         /\ Undefined \in {a, b} => ApplyOrFail(op, a, b) = Undefined
<1>1. CASE Undefined \in {a, b} \/ ByZero(op, b)
  BY <1>1 DEF ApplyOrFail, Values
<1>2. CASE ~(Undefined \in {a, b} \/ ByZero(op, b))
  <2>1. a \in Fractions /\ b \in Fractions
    BY <1>2 DEF Values
  <2> QED
    BY <1>2, <2>1, ApplyIsFraction DEF ApplyOrFail, Values
<1> QED
  BY <1>1, <1>2

\* Numerals and variables are worth fractions.
LEMMA LeavesAreFractions ==
  /\ \A x \in Literals : Number[x] \in Fractions
  /\ \A x \in Variables : Data[x] \in Fractions
BY FormulaAssumption DEF Fractions

-----------------------------------------------------------------------------
(* The grammar. *)

Firsts(s) == 1..(Len(s) + 1)
Lasts(s)  == 0..Len(s)

\* Two parts of a formula with an operator of a level between them.
Binary(s, W, l, i, j, q) ==
  \E k \in (i + 1)..(j - 1) :
    /\ s[k] \in Level[l]
    /\ \E a \in W[l][i][k - 1], b \in W[l + 1][k + 1][j] : q = ApplyOrFail(s[k], a, b)

\* W has the values of every part of a formula at every level.
Reads(s, W) ==
  /\ W \in [1..3 -> [Firsts(s) -> [Lasts(s) -> SUBSET Values]]]
  /\ \A i \in Firsts(s), j \in Lasts(s) : i > j => \A l \in 1..3 : W[l][i][j] = {}
  /\ \A i \in Firsts(s), j \in Lasts(s) : i =< j =>
       /\ \A l \in 1..2 : \A q :
            q \in W[l][i][j] <=> q \in W[l + 1][i][j] \/ Binary(s, W, l, i, j, q)
       /\ \A q : q \in W[3][i][j] <=>
            \/ i = j /\ s[i] \in Literals /\ q = Number[s[i]]
            \/ i = j /\ s[i] \in Variables /\ q = Data[s[i]]
            \/ s[i] = "-" /\ \E a \in W[3][i + 1][j] : q = Negated(a)
            \/ s[i] = "(" /\ s[j] = ")" /\ q \in W[1][i + 1][j - 1]

\* The meaning of a formula is read off such a table.
LEMMA MeaningIsRead ==
  ASSUME NEW Chars, NEW s \in Seq(Chars)
  PROVE  \E W : Reads(s, W) /\ Meaning(s) = W[1][1][Len(s)]
<1> DEFINE I == 1..(Len(s) + 1)
           J == 0..Len(s)
           S == (1..3) \X I \X J
           V == SUBSET Values
           measure == [p \in S |-> IF p[2] > p[3] THEN 0
                                   ELSE 3 * (p[3] - p[2]) + (3 - p[1]) + 1]
           at(l, i, j, g) == g[<<l, i, j>>]
           split(k, l, i, j, g) ==
             {ApplyOrFail(s[k], a, b) : a \in at(l, i, k - 1, g), b \in at(l + 1, k + 1, j, g)}
           sums(l, i, j, g) ==
             UNION {split(k, l, i, j, g) : k \in {m \in (i + 1)..(j - 1) : s[m] \in Level[l]}}
           factors(i, j, g) == UNION {
              IF i = j /\ s[i] \in Literals THEN {Number[s[i]]} ELSE {},
              IF i = j /\ s[i] \in Variables THEN {Data[s[i]]} ELSE {},
              IF s[i] = "-" THEN {Negated(a) : a \in at(3, i + 1, j, g)} ELSE {},
              IF s[i] = "(" /\ s[j] = ")" THEN at(1, i + 1, j - 1, g) ELSE {}}
           value(p, g) == IF p[2] > p[3] THEN {}
                          ELSE IF p[1] < 3 THEN at(p[1] + 1, p[2], p[3], g)
                                                \cup sums(p[1], p[2], p[3], g)
                          ELSE factors(p[2], p[3], g)
           body == [p \in S |-> [g \in [S -> V] |-> value(p, g)]]
<1>0. Len(s) \in Nat
  OBVIOUS
<1>1. measure \in [S -> Nat]
  BY <1>0
<1>2. \A l \in 1..3, i \in I, j \in J :
        /\ <<l, i, j>> \in S
        /\ measure[<<l, i, j>>] = IF i > j THEN 0 ELSE 3 * (j - i) + (3 - l) + 1
  OBVIOUS
<1> HIDE DEF measure
\* Every part is smaller.
<1>3. ASSUME NEW l \in 1..2, NEW i \in I, NEW j \in J, i =< j
      PROVE  <<l + 1, i, j>> \in S /\ measure[<<l + 1, i, j>>] < measure[<<l, i, j>>]
  <2> l + 1 \in 1..3 /\ l \in 1..3
    OBVIOUS
  <2> QED
    BY <1>0, <1>2, <1>3
<1>4. ASSUME NEW l \in 1..2, NEW i \in I, NEW j \in J, i =< j, NEW k \in (i + 1)..(j - 1)
      PROVE  /\ <<l, i, k - 1>> \in S
             /\ measure[<<l, i, k - 1>>] < measure[<<l, i, j>>]
             /\ <<l + 1, k + 1, j>> \in S
             /\ measure[<<l + 1, k + 1, j>>] < measure[<<l, i, j>>]
  <2>1. l + 1 \in 1..3 /\ l \in 1..3 /\ k + 1 \in I /\ k - 1 \in J
    BY <1>0
  <2>2. /\ <<l, i, k - 1>> \in S
        /\ measure[<<l, i, k - 1>>] = IF i > k - 1 THEN 0
                                      ELSE 3 * ((k - 1) - i) + (3 - l) + 1
    BY <1>2, <2>1
  <2>3. /\ <<l + 1, k + 1, j>> \in S
        /\ measure[<<l + 1, k + 1, j>>] = IF k + 1 > j THEN 0
                                          ELSE 3 * (j - (k + 1)) + (3 - (l + 1)) + 1
    BY <1>2, <2>1
  <2>4. measure[<<l, i, j>>] = 3 * (j - i) + (3 - l) + 1
    BY <1>0, <1>2, <1>4, <2>1
  <2> QED
    BY <1>0, <1>4, <2>2, <2>3, <2>4
<1>5. ASSUME NEW i \in I, NEW j \in J, i =< j
      PROVE  /\ <<3, i + 1, j>> \in S
             /\ measure[<<3, i + 1, j>>] < measure[<<3, i, j>>]
             /\ i < j => /\ <<1, i + 1, j - 1>> \in S
                         /\ measure[<<1, i + 1, j - 1>>] < measure[<<3, i, j>>]
  <2>1. i + 1 \in I /\ (i < j => j - 1 \in J)
    BY <1>0, <1>5
  <2> QED
    BY <1>0, <1>2, <1>5, <2>1
<1>6. \A i \in I, j \in J : i =< j => i \in 1..Len(s) /\ j \in 1..Len(s)
  BY <1>0
<1> HIDE DEF I, J, S, V
<1>7. ASSUME NEW l, NEW i, NEW j, <<l, i, j>> \in S, NEW g \in [S -> V]
      PROVE  at(l, i, j, g) \subseteq Values
  BY <1>7 DEF V
<1>8. ASSUME NEW l \in 1..3, NEW i \in I, NEW j \in J, i =< j, NEW g, NEW h,
             \A y \in S : measure[y] < measure[<<l, i, j>>] => g[y] = h[y]
      PROVE  /\ l < 3 => at(l + 1, i, j, g) = at(l + 1, i, j, h)
             /\ l < 3 => \A k \in (i + 1)..(j - 1) :
                  /\ at(l, i, k - 1, g) = at(l, i, k - 1, h)
                  /\ at(l + 1, k + 1, j, g) = at(l + 1, k + 1, j, h)
             /\ l = 3 => at(3, i + 1, j, g) = at(3, i + 1, j, h)
             /\ l = 3 /\ i < j => at(1, i + 1, j - 1, g) = at(1, i + 1, j - 1, h)
  <2>1. ASSUME l < 3 PROVE at(l + 1, i, j, g) = at(l + 1, i, j, h)
    BY <1>3, <1>8, <2>1
  <2>2. ASSUME l < 3, NEW k \in (i + 1)..(j - 1)
        PROVE  /\ at(l, i, k - 1, g) = at(l, i, k - 1, h)
               /\ at(l + 1, k + 1, j, g) = at(l + 1, k + 1, j, h)
    <3>1. /\ <<l, i, k - 1>> \in S
          /\ measure[<<l, i, k - 1>>] < measure[<<l, i, j>>]
          /\ <<l + 1, k + 1, j>> \in S
          /\ measure[<<l + 1, k + 1, j>>] < measure[<<l, i, j>>]
      BY <1>4, <1>8, <2>2
    <3> QED
      BY <3>1, <1>8
  <2>3. ASSUME l = 3 PROVE /\ at(3, i + 1, j, g) = at(3, i + 1, j, h)
                           /\ i < j => at(1, i + 1, j - 1, g) = at(1, i + 1, j - 1, h)
    BY <1>5, <1>8, <2>3
  <2> QED
    BY <2>1, <2>2, <2>3
<1> HIDE DEF at
<1> DEFINE has(l, i, j, g, q) ==
             \E k \in (i + 1)..(j - 1) :
               /\ s[k] \in Level[l]
               /\ \E a \in at(l, i, k - 1, g), b \in at(l + 1, k + 1, j, g) :
                    q = ApplyOrFail(s[k], a, b)
\* What the table holds.
<1>9. ASSUME NEW l, NEW i, NEW j, NEW g, NEW q
      PROVE q \in sums(l, i, j, g) <=> has(l, i, j, g, q)
  <2>1. \A k : q \in split(k, l, i, j, g) <=>
          \E a \in at(l, i, k - 1, g), b \in at(l + 1, k + 1, j, g) :
            q = ApplyOrFail(s[k], a, b)
    OBVIOUS
  <2> HIDE DEF split
  <2>2. q \in sums(l, i, j, g) <=>
         \E k \in {m \in (i + 1)..(j - 1) : s[m] \in Level[l]} : q \in split(k, l, i, j, g)
    OBVIOUS
  <2> QED
    BY <2>1, <2>2
<1>10. ASSUME NEW i, NEW j, NEW g, NEW q
       PROVE  q \in factors(i, j, g) <=>
            \/ i = j /\ s[i] \in Literals /\ q = Number[s[i]]
            \/ i = j /\ s[i] \in Variables /\ q = Data[s[i]]
            \/ s[i] = "-" /\ \E a \in at(3, i + 1, j, g) : q = Negated(a)
            \/ s[i] = "(" /\ s[j] = ")" /\ q \in at(1, i + 1, j - 1, g)
  OBVIOUS
<1> HIDE DEF sums, factors, has
<1>11. \A i \in I, j \in J : s[i] = "(" /\ s[j] = ")" => i # j
  OBVIOUS
\* The values are typed,
<1>12. ASSUME NEW i \in I, NEW j \in J, i =< j, NEW l \in 1..2, NEW g \in [S -> V]
       PROVE  sums(l, i, j, g) \in V
  <2>1. SUFFICES ASSUME NEW q \in sums(l, i, j, g) PROVE q \in Values
    BY DEF V
  <2>2. PICK k \in {m \in (i + 1)..(j - 1) : s[m] \in Level[l]} :
          \E a \in at(l, i, k - 1, g), b \in at(l + 1, k + 1, j, g) :
            q = ApplyOrFail(s[k], a, b)
    BY <1>9 DEF has
  <2>3. <<l, i, k - 1>> \in S /\ <<l + 1, k + 1, j>> \in S
    BY <1>4, <1>12
  <2>4. at(l, i, k - 1, g) \subseteq Values /\ at(l + 1, k + 1, j, g) \subseteq Values
    BY <1>7, <2>3
  <2>5. s[k] \in BinaryOps
    BY DEF Level, BinaryOps
  <2> QED
    BY <2>2, <2>4, <2>5, ApplyOrFailTyped
<1>13. ASSUME NEW i \in I, NEW j \in J, i =< j, NEW g \in [S -> V]
       PROVE  factors(i, j, g) \in V
  <2>1. <<3, i + 1, j>> \in S /\ (i < j => <<1, i + 1, j - 1>> \in S)
    BY <1>5, <1>13
  <2>2. at(3, i + 1, j, g) \subseteq Values /\ (i < j => at(1, i + 1, j - 1, g) \subseteq Values)
    BY <1>7, <2>1
  <2>3. i # j => i < j
    BY <1>0, <1>13 DEF I, J
  <2>4. ASSUME NEW q \in factors(i, j, g) PROVE q \in Values
    <3>1. \/ i = j /\ s[i] \in Literals /\ q = Number[s[i]]
          \/ i = j /\ s[i] \in Variables /\ q = Data[s[i]]
          \/ s[i] = "-" /\ \E a \in at(3, i + 1, j, g) : q = Negated(a)
          \/ s[i] = "(" /\ s[j] = ")" /\ q \in at(1, i + 1, j - 1, g)
      BY <1>10
    <3> QED
      BY <1>11, <2>2, <2>3, <3>1, LeavesAreFractions, NegatedIsFraction DEF Values
  <2> QED
    BY <2>4 DEF V
<1>14. ASSUME NEW p \in S
       PROVE  \E l \in 1..3, i \in I, j \in J : p = <<l, i, j>>
  BY DEF S
<1>15. ASSUME NEW l \in 1..3, NEW i \in I, NEW j \in J, NEW g
       PROVE  /\ i > j => value(<<l, i, j>>, g) = {}
              /\ i =< j /\ l < 3 =>
                   value(<<l, i, j>>, g) = at(l + 1, i, j, g) \cup sums(l, i, j, g)
              /\ i =< j /\ l = 3 => value(<<l, i, j>>, g) = factors(i, j, g)
  BY <1>0 DEF I, J
<1> HIDE DEF value
<1>16. ASSUME NEW p \in S, NEW g \in [S -> V]
       PROVE  value(p, g) \in V
  <2>1. PICK l \in 1..3, i \in I, j \in J : p = <<l, i, j>>
    BY <1>14
  <2>2. i > j \/ (i =< j /\ l \in 1..2) \/ (i =< j /\ l = 3)
    BY <1>0 DEF I, J
  <2>3. i =< j /\ l \in 1..2 => at(l + 1, i, j, g) \subseteq Values
    BY <1>3, <1>7
  <2> QED
    BY <1>12, <1>13, <1>15, <2>1, <2>2, <2>3 DEF V
<1>17. ASSUME NEW p \in S, NEW g, NEW h,
              \A y \in S : measure[y] < measure[p] => g[y] = h[y]
       PROVE  value(p, g) = value(p, h)
  <2>1. PICK l \in 1..3, i \in I, j \in J : p = <<l, i, j>>
    BY <1>14
  <2>2. CASE i > j
    <3>1. value(<<l, i, j>>, g) = {} /\ value(<<l, i, j>>, h) = {}
      BY <1>15, <2>2
    <3> QED
      BY <2>1, <3>1
  <2>3. CASE i =< j /\ l < 3
    <3>1. /\ at(l + 1, i, j, g) = at(l + 1, i, j, h)
          /\ \A k \in (i + 1)..(j - 1) :
                  /\ at(l, i, k - 1, g) = at(l, i, k - 1, h)
                  /\ at(l + 1, k + 1, j, g) = at(l + 1, k + 1, j, h)
      BY <1>8, <1>17, <2>1, <2>3
    <3>2. \A q : q \in sums(l, i, j, g) <=> q \in sums(l, i, j, h)
      <4>1. \A q : has(l, i, j, g, q) <=> has(l, i, j, h, q)
        BY <3>1 DEF has
      <4> QED
        BY <1>9, <4>1
    <3>3. sums(l, i, j, g) = sums(l, i, j, h)
      BY <3>2
    <3>4. /\ value(<<l, i, j>>, g) = at(l + 1, i, j, g) \cup sums(l, i, j, g)
          /\ value(<<l, i, j>>, h) = at(l + 1, i, j, h) \cup sums(l, i, j, h)
      BY <1>15, <2>3
    <3>5. value(<<l, i, j>>, g) = value(<<l, i, j>>, h)
      BY <3>1, <3>3, <3>4
    <3> QED
      BY <2>1, <3>5
  <2>4. CASE i =< j /\ l = 3
    <3>1. /\ at(3, i + 1, j, g) = at(3, i + 1, j, h)
          /\ i < j => at(1, i + 1, j - 1, g) = at(1, i + 1, j - 1, h)
      BY <1>8, <1>17, <2>1, <2>4
    <3>2. i # j => i < j
      BY <1>0, <2>4 DEF I, J
    <3>3. \A q : q \in factors(i, j, g) <=> q \in factors(i, j, h)
      BY <1>10, <1>11, <3>1, <3>2
    <3>4. factors(i, j, g) = factors(i, j, h)
      BY <3>3
    <3>5. value(<<l, i, j>>, g) = value(<<l, i, j>>, h)
      BY <1>15, <2>4, <3>4
    <3> QED
      BY <2>1, <3>5
  <2> QED
    BY <1>0, <2>2, <2>3, <2>4 DEF I, J
<1>18. body \in [S -> [[S -> V] -> V]]
  BY <1>16
<1>19. PICK f : Solves(S, V, body, f)
  <2>1. V # {}
    BY DEF V
  <2>2. \A p \in S, g, h \in [S -> V] :
          (\A y \in S : measure[y] < measure[p] => g[y] = h[y]) => body[p][g] = body[p][h]
    BY <1>17
  <2> HIDE DEF body
  <2>3. Descends(S, V, measure, body)
    BY <1>1, <1>18, <2>1, <2>2 DEF Descends
  <2> QED
    BY <2>3, Recursion
<1>20. f = [p \in S |-> value(p, f)]
  BY <1>19 DEF Solves
<1> DEFINE Worth == CHOOSE g : g = [p \in S |-> value(p, g)]
<1>21. Worth = [p \in S |-> value(p, Worth)]
  BY <1>20
<1>22. Meaning(s) = Worth[<<1, 1, Len(s)>>]
  BY DEF Meaning, I, J, S, value, at, sums, split, factors
<1> HIDE DEF Worth, body
\* There is only one.
<1>23. Worth \in [S -> V]
  <2> DEFINE T == {n \in Nat : \A p \in S : measure[p] < n => Worth[p] = f[p]}
  <2>1. 0 \in T
    BY <1>1
  <2>2. ASSUME NEW n \in Nat, n \in T PROVE n + 1 \in T
    <3>1. SUFFICES ASSUME NEW p \in S, measure[p] < n + 1 PROVE Worth[p] = f[p]
      OBVIOUS
    <3>2. \A y \in S : measure[y] < measure[p] => Worth[y] = f[y]
      BY <1>1, <2>2, <3>1
    <3>3. value(p, Worth) = value(p, f)
      BY <1>17, <3>2
    <3>4. Worth[p] = value(p, Worth) /\ f[p] = value(p, f)
      BY <1>20, <1>21
    <3> QED
      BY <3>3, <3>4
  <2>3. Nat \subseteq T
    <3> HIDE DEF T
    <3> QED
      BY <2>1, <2>2, Induction
  <2>4. ASSUME NEW p \in S PROVE Worth[p] = f[p]
    <3>1. measure[p] + 1 \in T
      BY <1>1, <2>3
    <3> QED
      BY <1>1, <3>1
  <2>5. \A p \in S : f[p] \in V
    BY <1>19 DEF Solves
  <2> QED
    BY <1>21, <2>4, <2>5
<1>24. ASSUME NEW l \in 1..3, NEW i \in I, NEW j \in J
       PROVE  /\ <<l, i, j>> \in S
              /\ Worth[<<l, i, j>>] = value(<<l, i, j>>, Worth)
              /\ Worth[<<l, i, j>>] \in V
              /\ at(l, i, j, Worth) = Worth[<<l, i, j>>]
  <2>1. <<l, i, j>> \in S
    BY <1>2
  <2> QED
    BY <2>1, <1>21, <1>23 DEF at
<1> DEFINE W == [l \in 1..3 |-> [i \in I |-> [j \in J |-> Worth[<<l, i, j>>]]]]
<1>25. W \in [1..3 -> [I -> [J -> V]]]
  BY <1>24
<1>26. \A l \in 1..3, i \in I, j \in J : W[l][i][j] = at(l, i, j, Worth)
  BY <1>24
<1>27. Meaning(s) = W[1][1][Len(s)]
  <2>1. 1 \in 1..3 /\ 1 \in I /\ Len(s) \in J
    BY <1>0 DEF I, J
  <2> QED
    BY <1>22, <2>1
<1> HIDE DEF W
<1>28. ASSUME NEW i \in I, NEW j \in J, NEW l \in 1..3, i > j PROVE W[l][i][j] = {}
  <2>1. W[l][i][j] = value(<<l, i, j>>, Worth)
    BY <1>24, <1>26
  <2> QED
    BY <1>15, <1>28, <2>1
<1>29. ASSUME NEW i \in I, NEW j \in J, NEW l \in 1..2, NEW q, i =< j
       PROVE  q \in W[l][i][j] <=> q \in W[l + 1][i][j] \/ Binary(s, W, l, i, j, q)
  <2>1. l \in 1..3 /\ l + 1 \in 1..3
    OBVIOUS
  <2>2. W[l][i][j] = at(l + 1, i, j, Worth) \cup sums(l, i, j, Worth)
    <3>1. W[l][i][j] = value(<<l, i, j>>, Worth)
      BY <1>24, <1>26, <2>1
    <3>2. l < 3
      OBVIOUS
    <3> QED
      BY <1>15, <1>29, <2>1, <3>1, <3>2
  <2>3. ASSUME NEW k \in (i + 1)..(j - 1)
        PROVE  /\ at(l, i, k - 1, Worth) = W[l][i][k - 1]
               /\ at(l + 1, k + 1, j, Worth) = W[l + 1][k + 1][j]
    <3>1. k - 1 \in J /\ k + 1 \in I
      BY <1>0, <1>29 DEF I, J
    <3> QED
      BY <1>26, <2>1, <3>1
  <2>4. q \in sums(l, i, j, Worth) <=> Binary(s, W, l, i, j, q)
    <3>1. q \in sums(l, i, j, Worth) <=> has(l, i, j, Worth, q)
      BY <1>9
    <3> QED
      BY <2>3, <3>1 DEF Binary, has
  <2> QED
    BY <1>26, <2>1, <2>2, <2>4
<1>30. ASSUME NEW i \in I, NEW j \in J, NEW q, i =< j
       PROVE  q \in W[3][i][j] <=>
                \/ i = j /\ s[i] \in Literals /\ q = Number[s[i]]
                \/ i = j /\ s[i] \in Variables /\ q = Data[s[i]]
                \/ s[i] = "-" /\ \E a \in W[3][i + 1][j] : q = Negated(a)
                \/ s[i] = "(" /\ s[j] = ")" /\ q \in W[1][i + 1][j - 1]
  <2>1. W[3][i][j] = factors(i, j, Worth)
    <3>1. W[3][i][j] = value(<<3, i, j>>, Worth)
      BY <1>24, <1>26
    <3> QED
      BY <1>15, <1>30, <3>1
  <2>2. i + 1 \in I /\ (i # j => j - 1 \in J)
    BY <1>0, <1>30 DEF I, J
  <2>3. /\ at(3, i + 1, j, Worth) = W[3][i + 1][j]
        /\ i # j => at(1, i + 1, j - 1, Worth) = W[1][i + 1][j - 1]
    BY <1>26, <2>2
  <2> QED
    BY <1>10, <1>11, <2>1, <2>3
<1>31. Reads(s, W)
  BY <1>25, <1>28, <1>29, <1>30 DEF Reads, Firsts, Lasts, I, J, V
<1> QED
  BY <1>27, <1>31

\* The depth rises and falls with the parentheses.
LEMMA DepthStep ==
  ASSUME NEW t
  PROVE  /\ Depth(t, 0) = 0
         /\ \A i \in Nat : Depth(t, i) \in Int
         /\ \A i \in Nat : Depth(t, i + 1) = CASE t[i + 1] = "(" -> Depth(t, i) + 1
                                              [] t[i + 1] = ")" -> Depth(t, i) - 1
                                              [] OTHER -> Depth(t, i)
<1> DEFINE A(x, i) == {k \in 1..i : t[k] = x}
<1>1. ASSUME NEW x, NEW i \in Nat
      PROVE  /\ IsFiniteSet(A(x, i)) /\ Cardinality(A(x, i)) \in Nat
             /\ t[i + 1] = x => Cardinality(A(x, i + 1)) = Cardinality(A(x, i)) + 1
             /\ t[i + 1] # x => Cardinality(A(x, i + 1)) = Cardinality(A(x, i))
  <2>1. IsFiniteSet(A(x, i)) /\ Cardinality(A(x, i)) \in Nat
    <3>1. IsFiniteSet(1..i)
      BY FS_Interval
    <3> QED
      BY <3>1, FS_Subset, FS_CardinalityType
  <2>2. ASSUME t[i + 1] = x PROVE Cardinality(A(x, i + 1)) = Cardinality(A(x, i)) + 1
    <3>1. A(x, i + 1) = A(x, i) \cup {i + 1} /\ i + 1 \notin A(x, i)
      BY <2>2
    <3> HIDE DEF A
    <3> QED
      BY <2>1, <3>1, FS_AddElement
  <2>3. ASSUME t[i + 1] # x PROVE Cardinality(A(x, i + 1)) = Cardinality(A(x, i))
    <3>1. A(x, i + 1) = A(x, i)
      BY <2>3
    <3> QED
      BY <3>1
  <2> QED
    BY <2>1, <2>2, <2>3
<1>2. A("(", 0) = {} /\ A(")", 0) = {}
  OBVIOUS
<1>3. \A i : Depth(t, i) = Cardinality(A("(", i)) - Cardinality(A(")", i))
  BY DEF Depth
<1> HIDE DEF A
<1>4. Depth(t, 0) = 0
  BY <1>2, <1>3, FS_EmptySet
<1>5. ASSUME NEW i \in Nat
      PROVE  /\ Depth(t, i) \in Int
             /\ Depth(t, i + 1) = CASE t[i + 1] = "(" -> Depth(t, i) + 1
                                    [] t[i + 1] = ")" -> Depth(t, i) - 1
                                    [] OTHER -> Depth(t, i)
  <2>1. /\ Depth(t, i) = Cardinality(A("(", i)) - Cardinality(A(")", i))
        /\ Depth(t, i + 1) = Cardinality(A("(", i + 1)) - Cardinality(A(")", i + 1))
    BY <1>3
  <2>2. CASE t[i + 1] = "("
    BY <1>1, <2>1, <2>2
  <2>3. CASE t[i + 1] = ")"
    BY <1>1, <2>1, <2>3
  <2>4. CASE t[i + 1] \notin {"(", ")"}
    BY <1>1, <2>1, <2>4
  <2> QED
    BY <2>2, <2>3, <2>4
<1> QED
  BY <1>4, <1>5

\* The symbols an expression begins and ends with.
Starts == Literals \cup Variables \cup {"(", "-"}
Ends   == Literals \cup Variables \cup {")"}

\* No symbol is of two kinds.
LEMMA SymbolKinds ==
  /\ \A x \in Literals \cup Variables : x \notin BinaryOps \cup {"u-", "(", ")"}
  /\ Literals \cap Variables = {}
  /\ Level[1] \cup Level[2] = BinaryOps /\ Level[1] \cap Level[2] = {}
  /\ BinaryOps \cap Ends = {} /\ "(" \notin BinaryOps \cup Ends
  /\ ")" \notin BinaryOps \cup Starts
  /\ BinaryOps \cap Starts = {"-"}
<1>1. /\ (Literals \cup Variables) \cap (BinaryOps \cup {"u-", "(", ")"}) = {}
      /\ Literals \cap Variables = {}
  BY FormulaAssumption
<1>2. \A x \in Literals \cup Variables : x \notin BinaryOps \cup {"u-", "(", ")"}
  BY <1>1
<1> QED
  BY <1>1, <1>2 DEF Level, BinaryOps, Starts, Ends

\* How the part of a formula from i to j is written when it is an expression
\* of level l: an operand and an operator take turns, the parentheses in it
\* close in it, and outside of them no operator is of a lower level.
Formed(s, l, i, j) ==
  /\ s[i] \in Starts /\ s[j] \in Ends
  /\ \A k \in i..(j - 1) : /\ s[k] \in Ends => s[k + 1] \in BinaryOps \cup {")"}
                           /\ s[k] \notin Ends => s[k + 1] \in Starts
  /\ \A k \in i..j : s[k] \in Symbols /\ Depth(s, k) >= Depth(s, i - 1)
  /\ Depth(s, j) = Depth(s, i - 1)
  /\ \A k \in (i + 1)..j : s[k - 1] \in Ends /\ Depth(s, k - 1) = Depth(s, i - 1) =>
       /\ l >= 2 => s[k] \notin Level[1]
       /\ l = 3 => s[k] \notin Level[2]

\* It is so for a numeral or a variable,
LEMMA FormedLeaf ==
  ASSUME NEW s, NEW i \in Nat \ {0}, s[i] \in Literals \cup Variables
  PROVE  Formed(s, 3, i, i)
<1>1. (i - 1) \in Nat /\ (i - 1) + 1 = i
  OBVIOUS
<1>2. Depth(s, i) = Depth(s, i - 1) /\ Depth(s, i) \in Int
  BY <1>1, DepthStep, SymbolKinds
<1> QED
  BY <1>2 DEF Formed, Starts, Ends, Symbols

\* when an operator of the level joins two expressions,
LEMMA FormedBinary ==
  ASSUME NEW s, NEW l \in 1..2, NEW i \in Nat \ {0}, NEW j \in Nat, NEW k \in (i + 1)..(j - 1),
         Formed(s, l, i, k - 1), Formed(s, l + 1, k + 1, j), s[k] \in Level[l]
  PROVE  Formed(s, l, i, j)
<1>1. k \in Nat /\ (k - 1) + 1 = k /\ (k + 1) - 1 = k /\ i - 1 \in Nat /\ k - 1 \in Nat
  OBVIOUS
<1>2. /\ s[i] \in Starts /\ s[j] \in Ends /\ s[k - 1] \in Ends /\ s[k + 1] \in Starts
      /\ s[k] \in BinaryOps /\ s[k] \notin Ends /\ s[k] \in Symbols
  BY <1>1, SymbolKinds DEF Formed, Symbols
<1>3. Depth(s, k) = Depth(s, k - 1) /\ Depth(s, k - 1) = Depth(s, i - 1) /\ Depth(s, k) \in Int
  <2>1. s[k] # "(" /\ s[k] # ")"
    BY <1>2, SymbolKinds DEF BinaryOps
  <2> QED
    BY <1>1, <2>1, DepthStep DEF Formed
<1>4. ASSUME NEW m \in i..(j - 1)
      PROVE  /\ s[m] \in Ends => s[m + 1] \in BinaryOps \cup {")"}
             /\ s[m] \notin Ends => s[m + 1] \in Starts
  <2>1. CASE m \in i..((k - 1) - 1)
    BY <2>1 DEF Formed
  <2>2. CASE m = k - 1
    BY <1>1, <1>2, <2>2
  <2>3. CASE m = k
    BY <1>1, <1>2, <2>3
  <2>4. CASE m \in (k + 1)..(j - 1)
    BY <2>4 DEF Formed
  <2> QED
    BY <2>1, <2>2, <2>3, <2>4
<1>5. ASSUME NEW m \in i..j
      PROVE  s[m] \in Symbols /\ Depth(s, m) >= Depth(s, i - 1)
  <2>1. CASE m \in i..(k - 1)
    BY <2>1 DEF Formed
  <2>2. CASE m = k
    BY <1>2, <1>3, <2>2
  <2>3. CASE m \in (k + 1)..j
    BY <1>1, <1>3, <2>3 DEF Formed
  <2> QED
    BY <2>1, <2>2, <2>3
<1>6. Depth(s, j) = Depth(s, i - 1)
  BY <1>1, <1>3 DEF Formed
<1>7. ASSUME NEW m \in (i + 1)..j, s[m - 1] \in Ends, Depth(s, m - 1) = Depth(s, i - 1)
      PROVE  /\ l >= 2 => s[m] \notin Level[1]
             /\ l = 3 => s[m] \notin Level[2]
  <2>1. CASE m \in (i + 1)..(k - 1)
    BY <1>7, <2>1 DEF Formed
  <2>2. CASE m = k
    BY <2>2, SymbolKinds
  <2>3. m # k + 1
    BY <1>1, <1>2, <1>7
  <2>4. CASE m \in ((k + 1) + 1)..j
    BY <1>1, <1>3, <1>7, <2>4 DEF Formed
  <2> QED
    BY <2>1, <2>2, <2>3, <2>4
<1> QED
  BY <1>2, <1>4, <1>5, <1>6, <1>7 DEF Formed

\* behind a minus sign,
LEMMA FormedMinus ==
  ASSUME NEW s, NEW i \in Nat \ {0}, NEW j \in Nat, i + 1 =< j,
         Formed(s, 3, i + 1, j), s[i] = "-"
  PROVE  Formed(s, 3, i, j)
<1>1. (i - 1) + 1 = i /\ (i + 1) - 1 = i /\ i - 1 \in Nat
  OBVIOUS
<1>2. /\ s[i] \in Starts /\ s[i] \notin Ends /\ s[i + 1] \in Starts /\ s[i] \in Symbols
      /\ s[j] \in Ends
  BY SymbolKinds DEF Formed, Symbols, Starts, BinaryOps
<1>3. Depth(s, i) = Depth(s, i - 1) /\ Depth(s, i) \in Int
  BY <1>1, DepthStep
<1>4. ASSUME NEW m \in i..(j - 1)
      PROVE  /\ s[m] \in Ends => s[m + 1] \in BinaryOps \cup {")"}
             /\ s[m] \notin Ends => s[m + 1] \in Starts
  <2>1. m = i \/ m \in (i + 1)..(j - 1)
    OBVIOUS
  <2> QED
    BY <1>2, <2>1 DEF Formed
<1>5. ASSUME NEW m \in i..j
      PROVE  s[m] \in Symbols /\ Depth(s, m) >= Depth(s, i - 1)
  <2>1. m = i \/ m \in (i + 1)..j
    OBVIOUS
  <2> QED
    BY <1>1, <1>2, <1>3, <2>1 DEF Formed
<1>6. Depth(s, j) = Depth(s, i - 1)
  BY <1>1, <1>3 DEF Formed
<1>7. ASSUME NEW m \in (i + 1)..j, s[m - 1] \in Ends, Depth(s, m - 1) = Depth(s, i - 1)
      PROVE  s[m] \notin Level[1] /\ s[m] \notin Level[2]
  <2>1. m # i + 1
    BY <1>1, <1>2, <1>7
  <2>2. m \in ((i + 1) + 1)..j
    BY <2>1
  <2> QED
    BY <1>1, <1>3, <1>7, <2>2 DEF Formed
<1> QED
  BY <1>2, <1>4, <1>5, <1>6, <1>7 DEF Formed

\* in parentheses,
LEMMA FormedParentheses ==
  ASSUME NEW s, NEW i \in Nat \ {0}, NEW j \in Nat, i + 1 =< j - 1,
         Formed(s, 1, i + 1, j - 1), s[i] = "(", s[j] = ")"
  PROVE  Formed(s, 3, i, j)
<1>1. /\ (i - 1) + 1 = i /\ (i + 1) - 1 = i /\ i - 1 \in Nat
      /\ (j - 1) + 1 = j /\ j - 1 \in Nat
  OBVIOUS
<1>2. /\ s[i] \in Starts /\ s[i] \notin Ends /\ s[i + 1] \in Starts /\ s[i] \in Symbols
      /\ s[j] \in Ends /\ s[j] \in Symbols /\ s[j - 1] \in Ends
  BY SymbolKinds DEF Formed, Symbols, Starts, Ends
<1>3. /\ Depth(s, i) = Depth(s, i - 1) + 1 /\ Depth(s, i) \in Int /\ Depth(s, i - 1) \in Int
      /\ Depth(s, j) = Depth(s, j - 1) - 1 /\ Depth(s, j - 1) = Depth(s, i)
  BY <1>1, DepthStep DEF Formed
<1>4. ASSUME NEW m \in i..(j - 1)
      PROVE  /\ s[m] \in Ends => s[m + 1] \in BinaryOps \cup {")"}
             /\ s[m] \notin Ends => s[m + 1] \in Starts
  <2>1. m = i \/ m = j - 1 \/ m \in (i + 1)..((j - 1) - 1)
    OBVIOUS
  <2> QED
    BY <1>1, <1>2, <2>1 DEF Formed
<1>5. ASSUME NEW m \in (i + 1)..(j - 1)
      PROVE  s[m] \in Symbols /\ Depth(s, m) > Depth(s, i - 1)
  <2>1. s[m] \in Symbols /\ Depth(s, m) >= Depth(s, i)
    BY <1>1 DEF Formed
  <2>2. Depth(s, m) \in Int
    BY DepthStep
  <2> QED
    BY <1>3, <2>1, <2>2
<1>6. ASSUME NEW m \in i..j
      PROVE  s[m] \in Symbols /\ Depth(s, m) >= Depth(s, i - 1)
  <2>1. m = i \/ m = j \/ m \in (i + 1)..(j - 1)
    OBVIOUS
  <2>2. Depth(s, m) \in Int
    BY DepthStep
  <2> QED
    BY <1>2, <1>3, <1>5, <2>1, <2>2
<1>7. ASSUME NEW m \in (i + 1)..j, s[m - 1] \in Ends PROVE Depth(s, m - 1) # Depth(s, i - 1)
  <2>1. m # i + 1
    BY <1>1, <1>2, <1>7
  <2>2. m - 1 \in (i + 1)..(j - 1)
    BY <2>1
  <2> QED
    BY <1>3, <1>5, <2>2, DepthStep
<1> QED
  BY <1>2, <1>3, <1>4, <1>6, <1>7 DEF Formed

\* and when it is read at a lower level.
LEMMA FormedLower ==
  ASSUME NEW s, NEW l \in 1..2, NEW i, NEW j, Formed(s, l + 1, i, j)
  PROVE  Formed(s, l, i, j)
BY DEF Formed

\* So every expression is written like that.
LEMMA ReadIsFormed ==
  ASSUME NEW Chars, NEW s \in Seq(Chars), NEW W, Reads(s, W)
  PROVE  \A l \in 1..3, i \in Firsts(s), j \in Lasts(s) : W[l][i][j] # {} => Formed(s, l, i, j)
<1> DEFINE size(l, i, j) == 4 * (j - i) + (3 - l)
           T == {n \in Nat : \A l \in 1..3, i \in Firsts(s), j \in Lasts(s) :
                               i =< j /\ size(l, i, j) < n /\ W[l][i][j] # {}
                                 => Formed(s, l, i, j)}
<1>0. Len(s) \in Nat /\ Firsts(s) \subseteq Nat \ {0} /\ Lasts(s) \subseteq Nat
  BY DEF Firsts, Lasts
<1>1. 0 \in T
  BY <1>0
<1>2. ASSUME NEW n \in Nat, n \in T PROVE n + 1 \in T
  <2>1. SUFFICES ASSUME NEW l \in 1..3, NEW i \in Firsts(s), NEW j \in Lasts(s),
                        i =< j, size(l, i, j) < n + 1, NEW q \in W[l][i][j]
                 PROVE  Formed(s, l, i, j)
    BY <1>2
  <2>2. ASSUME NEW m \in 1..3, NEW a \in Firsts(s), NEW b \in Lasts(s), NEW r \in W[m][a][b],
               size(m, a, b) < size(l, i, j)
        PROVE  a =< b /\ Formed(s, m, a, b)
    <3>1. a =< b
      <4>1. \A x \in Firsts(s), y \in Lasts(s) : x > y => \A z \in 1..3 : W[z][x][y] = {}
        BY DEF Reads
      <4>2. a > b => W[m][a][b] = {}
        BY <4>1
      <4> QED
        BY <1>0, <4>2
    <3>2. size(m, a, b) < n
      BY <1>0, <2>1, <2>2
    <3> QED
      BY <1>2, <2>2, <3>1, <3>2
  <2>3. CASE l \in 1..2
    <3>1. q \in W[l + 1][i][j] \/ Binary(s, W, l, i, j, q)
      BY <2>1, <2>3 DEF Reads
    <3>2. CASE q \in W[l + 1][i][j]
      <4>1. l + 1 \in 1..3 /\ size(l + 1, i, j) < size(l, i, j)
        BY <1>0, <2>3
      <4> QED
        BY <2>2, <2>3, <3>2, <4>1, FormedLower
    <3>3. CASE Binary(s, W, l, i, j, q)
      <4>1. PICK k \in (i + 1)..(j - 1) : /\ s[k] \in Level[l]
                                          /\ W[l][i][k - 1] # {} /\ W[l + 1][k + 1][j] # {}
        BY <3>3 DEF Binary
      <4>2. /\ k - 1 \in Lasts(s) /\ k + 1 \in Firsts(s) /\ l + 1 \in 1..3
            /\ size(l, i, k - 1) < size(l, i, j) /\ size(l + 1, k + 1, j) < size(l, i, j)
        BY <1>0, <2>3 DEF Firsts, Lasts
      <4>3. Formed(s, l, i, k - 1) /\ Formed(s, l + 1, k + 1, j)
        BY <2>2, <4>1, <4>2
      <4> QED
        BY <1>0, <2>3, <4>1, <4>3, FormedBinary
    <3> QED
      BY <3>1, <3>2, <3>3
  <2>4. CASE l = 3
    <3>1. \/ i = j /\ s[i] \in Literals \cup Variables
          \/ s[i] = "-" /\ W[3][i + 1][j] # {}
          \/ s[i] = "(" /\ s[j] = ")" /\ W[1][i + 1][j - 1] # {}
      BY <2>1, <2>4 DEF Reads
    <3>2. CASE i = j /\ s[i] \in Literals \cup Variables
      BY <1>0, <2>4, <3>2, FormedLeaf
    <3>3. CASE s[i] = "-" /\ W[3][i + 1][j] # {}
      <4>1. i + 1 \in Firsts(s) /\ size(3, i + 1, j) < size(3, i, j)
        BY <1>0, <2>1 DEF Firsts, Lasts
      <4>2. i + 1 =< j /\ Formed(s, 3, i + 1, j)
        BY <2>2, <2>4, <3>3, <4>1
      <4> QED
        BY <1>0, <2>4, <3>3, <4>2, FormedMinus
    <3>4. CASE s[i] = "(" /\ s[j] = ")" /\ W[1][i + 1][j - 1] # {}
      <4>1. i # j
        BY <3>4
      <4>2. /\ i + 1 \in Firsts(s) /\ j - 1 \in Lasts(s)
            /\ size(1, i + 1, j - 1) < size(3, i, j)
        BY <1>0, <2>1, <4>1 DEF Firsts, Lasts
      <4>3. i + 1 =< j - 1 /\ Formed(s, 1, i + 1, j - 1)
        BY <2>2, <2>4, <3>4, <4>2
      <4> QED
        BY <1>0, <2>4, <3>4, <4>3, FormedParentheses
    <3> QED
      BY <3>1, <3>2, <3>3, <3>4
  <2> QED
    BY <2>3, <2>4
<1>3. Nat \subseteq T
  <2> HIDE DEF T
  <2> QED
    BY <1>1, <1>2, Induction
<1>4. ASSUME NEW l \in 1..3, NEW i \in Firsts(s), NEW j \in Lasts(s), W[l][i][j] # {}
      PROVE  Formed(s, l, i, j)
  <2>1. i =< j
    BY <1>0, <1>4 DEF Reads
  <2>2. size(l, i, j) + 1 \in Nat /\ size(l, i, j) < size(l, i, j) + 1
    BY <1>0, <2>1
  <2>3. size(l, i, j) + 1 \in T
    BY <1>3, <2>2
  <2> QED
    BY <1>4, <2>1, <2>2, <2>3
<1> QED
  BY <1>4

\* An expression of the next level has no operator of this level outside its
\* parentheses,
LEMMA NotLower ==
  ASSUME NEW s, NEW l \in 1..2, NEW i \in Nat \ {0}, NEW j \in Nat, NEW k \in (i + 1)..j,
         Formed(s, l + 1, i, j), s[k] \in Level[l], s[k - 1] \in Ends
  PROVE  Depth(s, k - 1) # Depth(s, i - 1)
<1>1. l = 1 \/ l = 2
  OBVIOUS
<1> QED
  BY <1>1 DEF Formed

\* so that the operator read last is the only one it can be.
LEMMA OneLastOperator ==
  ASSUME NEW s, NEW l \in 1..2, NEW i \in Nat \ {0}, NEW j \in Nat,
         NEW k \in (i + 1)..(j - 1), NEW m \in (i + 1)..(j - 1),
         Formed(s, l, i, k - 1), Formed(s, l + 1, k + 1, j), s[k] \in Level[l],
         Formed(s, l, i, m - 1), s[m] \in Level[l]
  PROVE  m =< k
<1> SUFFICES ASSUME k < m PROVE FALSE
  OBVIOUS
<1>1. s[k] \in BinaryOps /\ s[k] \notin Ends /\ s[m - 1] \in Ends
  BY SymbolKinds DEF Formed
<1>2. m # k + 1
  BY <1>1
<1>3. m \in ((k + 1) + 1)..j /\ k + 1 \in Nat \ {0}
  BY <1>2
<1>4. Depth(s, k) = Depth(s, i - 1) /\ Depth(s, m - 1) = Depth(s, i - 1)
  <2>1. (k - 1) + 1 = k /\ k - 1 \in Nat
    OBVIOUS
  <2>2. s[k] # "(" /\ s[k] # ")"
    BY <1>1, SymbolKinds DEF BinaryOps
  <2> QED
    BY <2>1, <2>2, DepthStep DEF Formed
<1>5. (k + 1) - 1 = k
  OBVIOUS
<1> QED
  BY <1>1, <1>3, <1>4, <1>5, NotLower

\* What stands beside an operator is smaller than what it joins, an expression
\* of one level smaller than it is at the level below.
LEMMA PartsAreSmaller ==
  ASSUME NEW i \in Int, NEW j \in Int, NEW l \in Int, NEW k \in Int, i + 1 =< k, k =< j - 1
  PROVE  /\ 4 * ((k - 1) - i) + (3 - l) < 4 * (j - i) + (3 - l)
         /\ 4 * (j - (k + 1)) + (3 - (l + 1)) < 4 * (j - i) + (3 - l)
OBVIOUS

\* What can be read has one value.
LEMMA Unambiguous ==
  ASSUME NEW Chars, NEW s \in Seq(Chars), NEW W, Reads(s, W)
  PROVE  \A l \in 1..3, i \in Firsts(s), j \in Lasts(s) : \A q, r \in W[l][i][j] : q = r
<1> DEFINE size(l, i, j) == 4 * (j - i) + (3 - l)
           T == {n \in Nat : \A l \in 1..3, i \in Firsts(s), j \in Lasts(s) :
                               i =< j /\ size(l, i, j) < n =>
                                 \A q, r \in W[l][i][j] : q = r}
<1>0. Len(s) \in Nat /\ Firsts(s) \subseteq Nat \ {0} /\ Lasts(s) \subseteq Nat
  BY DEF Firsts, Lasts
<1>1. 0 \in T
  BY <1>0
<1>2. \A i \in Firsts(s), j \in Lasts(s) : i > j => \A l \in 1..3 : W[l][i][j] = {}
  BY DEF Reads
<1>3. ASSUME NEW n \in Nat, n \in T PROVE n + 1 \in T
  <2>1. SUFFICES ASSUME NEW l \in 1..3, NEW i \in Firsts(s), NEW j \in Lasts(s),
                        i =< j, size(l, i, j) < n + 1,
                        NEW q \in W[l][i][j], NEW r \in W[l][i][j]
                 PROVE  q = r
    BY <1>3
  <2>2. ASSUME NEW m \in 1..3, NEW a \in Firsts(s), NEW b \in Lasts(s),
               size(m, a, b) < size(l, i, j), NEW x \in W[m][a][b], NEW y \in W[m][a][b]
        PROVE  x = y
    <3>1. a =< b
      <4>1. a > b => W[m][a][b] = {}
        BY <1>2
      <4> QED
        BY <1>0, <2>2, <4>1
    <3>2. size(m, a, b) < n
      BY <1>0, <2>1, <2>2
    <3> QED
      BY <1>3, <2>2, <3>1, <3>2
  <2>3. CASE l \in 1..2
    <3> DEFINE Split(k, x) ==
                 /\ s[k] \in Level[l]
                 /\ \E a \in W[l][i][k - 1], b \in W[l + 1][k + 1][j] : x = ApplyOrFail(s[k], a, b)
    <3>1. ASSUME NEW x \in W[l][i][j]
          PROVE  x \in W[l + 1][i][j] \/ \E k \in (i + 1)..(j - 1) : Split(k, x)
      <4>1. x \in W[l + 1][i][j] \/ Binary(s, W, l, i, j, x)
        BY <2>1, <2>3 DEF Reads
      <4> QED
        BY <4>1 DEF Binary
    <3>2. ASSUME NEW k \in (i + 1)..(j - 1), NEW x, Split(k, x)
          PROVE  /\ k - 1 \in Lasts(s) /\ k + 1 \in Firsts(s)
                 /\ s[k] \in Level[l] /\ Formed(s, l, i, k - 1) /\ Formed(s, l + 1, k + 1, j)
      <4>1. k - 1 \in Lasts(s) /\ k + 1 \in Firsts(s) /\ l + 1 \in 1..3
        BY <1>0, <2>3 DEF Firsts, Lasts
      <4> QED
        BY <3>2, <4>1, ReadIsFormed
    <3>3. l + 1 \in 1..3 /\ size(l + 1, i, j) < size(l, i, j)
      BY <1>0, <2>3
    <3>4. ASSUME NEW k \in (i + 1)..(j - 1), NEW x, Split(k, x), W[l + 1][i][j] # {} PROVE FALSE
      <4>1. Formed(s, l + 1, i, j) /\ Formed(s, l, i, k - 1) /\ s[k] \in Level[l]
        BY <3>2, <3>3, <3>4, ReadIsFormed
      <4>2. s[k - 1] \in Ends /\ Depth(s, k - 1) = Depth(s, i - 1) /\ k \in (i + 1)..j
        BY <1>0, <4>1 DEF Formed
      <4> QED
        BY <1>0, <2>3, <4>1, <4>2, NotLower
    <3>5. ASSUME NEW k \in (i + 1)..(j - 1), NEW m \in (i + 1)..(j - 1), Split(k, q), Split(m, r)
          PROVE  q = r
      <4>1. k = m
        <5>1. m =< k
          BY <1>0, <2>3, <3>2, <3>5, OneLastOperator
        <5>2. k =< m
          BY <1>0, <2>3, <3>2, <3>5, OneLastOperator
        <5> QED
          BY <1>0, <5>1, <5>2
      <4>2. /\ k - 1 \in Lasts(s) /\ k + 1 \in Firsts(s)
            /\ size(l, i, k - 1) < size(l, i, j) /\ size(l + 1, k + 1, j) < size(l, i, j)
        <5>1. k - 1 \in Lasts(s) /\ k + 1 \in Firsts(s)
          BY <3>2, <3>5
        <5>2. i \in Int /\ j \in Int /\ l \in Int /\ k \in Int /\ i + 1 =< k /\ k =< j - 1
          BY <1>0, <2>3
        <5>3. /\ 4 * ((k - 1) - i) + (3 - l) < 4 * (j - i) + (3 - l)
              /\ 4 * (j - (k + 1)) + (3 - (l + 1)) < 4 * (j - i) + (3 - l)
          BY <5>2, PartsAreSmaller
        <5> QED
          BY <5>1, <5>3
      <4>3. PICK a \in W[l][i][k - 1], b \in W[l + 1][k + 1][j] : q = ApplyOrFail(s[k], a, b)
        BY <3>5
      <4>4. PICK c \in W[l][i][k - 1], d \in W[l + 1][k + 1][j] : r = ApplyOrFail(s[k], c, d)
        BY <3>5, <4>1
      <4>5. a = c /\ b = d
        BY <2>2, <3>3, <4>2, <4>3, <4>4
      <4> QED
        BY <4>3, <4>4, <4>5
    <3> HIDE DEF Split
    <3>6. q \in W[l + 1][i][j] /\ r \in W[l + 1][i][j] => q = r
      BY <2>2, <3>3
    <3> QED
      BY <2>1, <3>1, <3>4, <3>5, <3>6
  <2>4. CASE l = 3
    <3>1. ASSUME NEW x \in W[3][i][j]
          PROVE  \/ i = j /\ s[i] \in Literals /\ x = Number[s[i]]
                 \/ i = j /\ s[i] \in Variables /\ x = Data[s[i]]
                 \/ s[i] = "-" /\ \E a \in W[3][i + 1][j] : x = Negated(a)
                 \/ s[i] = "(" /\ s[j] = ")" /\ x \in W[1][i + 1][j - 1]
      BY <2>1, <2>4 DEF Reads
    <3>2. /\ s[i] \in Literals => s[i] \notin Variables
          /\ s[i] \in Literals \cup Variables => s[i] # "-" /\ s[i] # "("
      BY SymbolKinds DEF BinaryOps
    <3>3. CASE s[i] \in Literals \cup Variables
      BY <2>1, <2>4, <3>1, <3>2, <3>3
    <3>4. CASE s[i] = "-"
      <4>1. i + 1 \in Firsts(s) /\ size(3, i + 1, j) < size(3, i, j)
        BY <1>0, <2>1 DEF Firsts, Lasts
      <4>2. PICK a \in W[3][i + 1][j] : q = Negated(a)
        BY <2>1, <2>4, <3>1, <3>2, <3>4
      <4>3. PICK b \in W[3][i + 1][j] : r = Negated(b)
        BY <2>1, <2>4, <3>1, <3>2, <3>4
      <4>4. a = b
        BY <2>2, <2>4, <4>1
      <4> QED
        BY <4>2, <4>3, <4>4
    <3>5. CASE s[i] = "("
      <4>1. s[j] = ")" /\ q \in W[1][i + 1][j - 1] /\ r \in W[1][i + 1][j - 1]
        BY <2>1, <2>4, <3>1, <3>2, <3>5
      <4>2. i # j
        BY <3>5, <4>1
      <4>3. /\ i + 1 \in Firsts(s) /\ j - 1 \in Lasts(s)
            /\ size(1, i + 1, j - 1) < size(3, i, j)
        BY <1>0, <2>1, <4>2 DEF Firsts, Lasts
      <4> QED
        BY <2>2, <2>4, <4>1, <4>3
    <3> QED
      BY <2>1, <2>4, <3>1, <3>3, <3>4, <3>5
  <2> QED
    BY <2>3, <2>4
<1>4. Nat \subseteq T
  <2> HIDE DEF T
  <2> QED
    BY <1>1, <1>3, Induction
<1>5. ASSUME NEW l \in 1..3, NEW i \in Firsts(s), NEW j \in Lasts(s),
             NEW q \in W[l][i][j], NEW r \in W[l][i][j]
      PROVE  q = r
  <2>1. i =< j
    BY <1>0, <1>2, <1>5
  <2>2. size(l, i, j) + 1 \in Nat /\ size(l, i, j) < size(l, i, j) + 1
    BY <1>0, <2>1
  <2>3. size(l, i, j) + 1 \in T
    BY <1>4, <2>2
  <2> QED
    BY <1>5, <2>1, <2>2, <2>3
<1> QED
  BY <1>5

\* An expression has one value.
THEOREM MeaningIsUnique ==
  ASSUME NEW Chars, NEW s \in Seq(Chars)
  PROVE  \A q, r \in Meaning(s) : q = r
<1>1. PICK W : Reads(s, W) /\ Meaning(s) = W[1][1][Len(s)]
  BY MeaningIsRead
<1>2. 1 \in Firsts(s) /\ Len(s) \in Lasts(s)
  BY DEF Firsts, Lasts
<1> QED
  BY <1>1, <1>2, Unambiguous

-----------------------------------------------------------------------------
(* The text. *)

\* Where a symbol of the formula ends in the text, and what is there: the
\* symbol, or for a variable its value, with its sign before it.
Printing(s, t, last) ==
  /\ last \in [0..Len(s) -> Nat]
  /\ last[0] = 0 /\ last[Len(s)] = Len(t)
  /\ \A i \in 1..Len(s) :
       \/ /\ s[i] \notin Variables
          /\ last[i] = last[i - 1] + 1
          /\ t[last[i]] = s[i]
       \/ /\ s[i] \in Variables
          /\ last[i] = last[i - 1] + 1
          /\ t[last[i]] \in Literals /\ Number[t[last[i]]] = Data[s[i]]
       \/ /\ s[i] \in Variables
          /\ last[i] = last[i - 1] + 2
          /\ t[last[i] - 1] = "-"
          /\ t[last[i]] \in Literals /\ Negated(Number[t[last[i]]]) = Data[s[i]]

\* The value of a variable is printed so.
LEMMA PrintedValue ==
  ASSUME NEW v \in Variables
  PROVE  \E l \in Literals :
           \/ Printed(Data[v]) = <<l>> /\ Number[l] = Data[v]
           \/ Printed(Data[v]) = <<"-", l>> /\ Negated(Number[l]) = Data[v]
<1> DEFINE q == Data[v]
           x == CHOOSE l \in Literals : Number[l] = Absolute(q)
<1>1. x \in Literals /\ Number[x] = Absolute(q)
  BY FormulaAssumption
<1>2. q \in Fractions
  BY LeavesAreFractions
<1>3. Printed(q) = IF q[1] < 0 THEN <<"-", x>> ELSE <<x>>
  BY DEF Printed
<1> HIDE DEF x, q
<1>4. CASE q[1] < 0
  <2>1. Negated(Number[x]) = q
    BY <1>1, <1>2, <1>4, NegatedIsFraction DEF Absolute
  <2> QED
    BY <1>1, <1>3, <1>4, <2>1 DEF q
<1>5. CASE ~(q[1] < 0)
  <2>1. Number[x] = q
    BY <1>1, <1>5 DEF Absolute
  <2> QED
    BY <1>1, <1>3, <1>5, <2>1 DEF q
<1> QED
  BY <1>4, <1>5

\* The substitution prints every symbol in turn.
LEMMA SubstitutedPrints ==
  ASSUME NEW Chars, NEW s \in Seq(Chars)
  PROVE  /\ Substituted(s) \in Seq((Chars \ Variables) \cup Literals \cup {"-"})
         /\ \E last : Printing(s, Substituted(s), last)
<1> DEFINE S == 0..Len(s)
           V == Seq((Chars \ Variables) \cup Literals \cup {"-"})
           measure == [i \in S |-> i]
           piece(i) == IF s[i] \in Variables THEN Printed(Data[s[i]]) ELSE <<s[i]>>
           value(i, g) == IF i = 0 THEN <<>> ELSE g[i - 1] \o piece(i)
           body == [i \in S |-> [g \in [S -> V] |-> value(i, g)]]
<1>0. Len(s) \in Nat
  OBVIOUS
<1>1. measure \in [S -> Nat] /\ \A i \in S : i # 0 => i - 1 \in S /\ measure[i - 1] < measure[i]
  BY <1>0
<1>2. ASSUME NEW i \in 1..Len(s) PROVE piece(i) \in V
  <2>1. CASE s[i] \in Variables
    <3>1. PICK l \in Literals : Printed(Data[s[i]]) \in {<<l>>, <<"-", l>>}
      BY <2>1, PrintedValue
    <3>2. <<l>> \in V /\ <<"-", l>> \in V
      OBVIOUS
    <3> QED
      BY <2>1, <3>1, <3>2
  <2>2. CASE s[i] \notin Variables
    BY <2>2
  <2> QED
    BY <2>1, <2>2
<1> HIDE DEF piece
<1>3. ASSUME NEW i \in S, NEW g, i # 0 => g[i - 1] \in V PROVE value(i, g) \in V
  BY <1>0, <1>2, <1>3
<1>4. body \in [S -> [[S -> V] -> V]]
  <2>1. ASSUME NEW i \in S, NEW g \in [S -> V] PROVE value(i, g) \in V
    <3>1. i # 0 => g[i - 1] \in V
      BY <1>1
    <3> QED
      BY <1>3, <3>1
  <2> HIDE DEF V, value
  <2> QED
    BY <2>1
<1>5. \A i \in S, g, h \in [S -> V] :
        (\A y \in S : measure[y] < measure[i] => g[y] = h[y]) => body[i][g] = body[i][h]
  <2> SUFFICES ASSUME NEW i \in S, NEW g \in [S -> V], NEW h \in [S -> V],
                      \A y \in S : measure[y] < measure[i] => g[y] = h[y]
               PROVE  value(i, g) = value(i, h)
    OBVIOUS
  <2>1. i # 0 => g[i - 1] = h[i - 1]
    BY <1>1
  <2> QED
    BY <2>1
<1>6. PICK f : Solves(S, V, body, f)
  <2>0. <<>> \in V
    OBVIOUS
  <2>1. V # {}
    BY <2>0
  <2> HIDE DEF S, V, measure, body
  <2>2. Descends(S, V, measure, body)
    BY <1>1, <1>4, <1>5, <2>1 DEF Descends
  <2> QED
    BY <2>2, Recursion
<1>7. f = [i \in S |-> value(i, f)]
  BY <1>6 DEF Solves
<1> DEFINE text == CHOOSE g : g = [i \in S |-> value(i, g)]
<1>8. text = [i \in S |-> value(i, text)]
  BY <1>7
<1>9. Substituted(s) = text[Len(s)]
  BY DEF Substituted, piece
<1> HIDE DEF text
<1>10. \A i \in S : text[i] = value(i, text)
  BY <1>8
<1> DEFINE T == {n \in Nat : n \in S => text[n] \in V}
<1>11. 0 \in T
  <2>1. 0 \in S /\ text[0] = <<>> /\ <<>> \in V
    BY <1>0, <1>10
  <2> QED
    BY <2>1
<1>12. ASSUME NEW n \in Nat, n \in T PROVE n + 1 \in T
  <2>1. SUFFICES ASSUME n + 1 \in S PROVE text[n + 1] \in V
    OBVIOUS
  <2>2. n \in S /\ (n + 1) - 1 = n
    BY <2>1, <1>0
  <2>3. text[n] \in V
    BY <1>12, <2>2
  <2>4. value(n + 1, text) \in V
    BY <1>3, <2>1, <2>2, <2>3
  <2> QED
    BY <1>10, <2>1, <2>4
<1>13. Nat \subseteq T
  <2> HIDE DEF T
  <2> QED
    BY <1>11, <1>12, Induction
<1>14. \A i \in S : text[i] \in V
  BY <1>13
<1>15. ASSUME NEW i \in 1..Len(s)
       PROVE  /\ i \in S /\ i - 1 \in S
              /\ text[i - 1] \in V /\ text[i] \in V /\ piece(i) \in V
              /\ text[i] = text[i - 1] \o piece(i)
  <2>1. i \in S /\ i - 1 \in S /\ i # 0
    BY <1>0
  <2>2. text[i] = value(i, text)
    BY <1>10, <2>1
  <2> HIDE DEF V, S
  <2> QED
    BY <1>2, <1>14, <2>1, <2>2
<1>16. text[0] = <<>> /\ 0 \in S
  BY <1>0, <1>10
\* What was printed stays in its place.
<1> DEFINE Kept(n, i) == /\ Len(text[i]) =< Len(text[n])
                         /\ \A k \in 1..Len(text[i]) : text[n][k] = text[i][k]
           U == {n \in Nat : \A i \in S : n \in S /\ i =< n => Kept(n, i)}
<1>17. 0 \in U
  <2>1. \A i \in S : i =< 0 => i = 0
    BY <1>0
  <2> QED
    BY <1>16, <2>1
<1>18. ASSUME NEW n \in Nat, n \in U PROVE n + 1 \in U
  <2>1. SUFFICES ASSUME NEW i \in S, n + 1 \in S, i =< n + 1 PROVE Kept(n + 1, i)
    OBVIOUS
  <2>2. n + 1 \in 1..Len(s) /\ (n + 1) - 1 = n /\ n \in S
    BY <1>0, <2>1
  <2>3. /\ text[n] \in V /\ piece(n + 1) \in V /\ text[n + 1] = text[n] \o piece(n + 1)
    BY <1>15, <2>2
  <2>4. CASE i = n + 1
    <3>1. Len(text[n + 1]) \in Nat
      BY <1>14, <2>1
    <3> QED
      BY <2>4, <3>1
  <2>5. CASE i # n + 1
    <3>1. i =< n
      BY <1>0, <2>1, <2>5
    <3>2. Kept(n, i)
      BY <1>18, <2>2, <3>1
    <3>3. Kept(n + 1, n)
      <4>1. PICK a \in V, p \in V : a = text[n] /\ text[n + 1] = a \o p
        BY <2>3
      <4>2. Len(a) =< Len(a \o p) /\ \A k \in 1..Len(a) : (a \o p)[k] = a[k]
        OBVIOUS
      <4> QED
        BY <4>1, <4>2
    <3>4. Len(text[i]) \in Nat /\ Len(text[n]) \in Nat /\ Len(text[n + 1]) \in Nat
      BY <1>14, <2>1, <2>2
    <3> QED
      BY <3>2, <3>3, <3>4
  <2> QED
    BY <2>4, <2>5
<1>19. Nat \subseteq U
  <2> HIDE DEF U
  <2> QED
    BY <1>17, <1>18, Induction
<1> DEFINE t == text[Len(s)]
           last == [i \in S |-> Len(text[i])]
<1>20. ASSUME NEW i \in S PROVE Kept(Len(s), i)
  <2>1. Len(s) \in U /\ Len(s) \in S /\ i =< Len(s)
    BY <1>0, <1>19
  <2> QED
    BY <2>1
<1>21. ASSUME NEW i \in 1..Len(s)
       PROVE  \/ /\ s[i] \notin Variables
                 /\ last[i] = last[i - 1] + 1
                 /\ t[last[i]] = s[i]
              \/ /\ s[i] \in Variables
                 /\ last[i] = last[i - 1] + 1
                 /\ t[last[i]] \in Literals /\ Number[t[last[i]]] = Data[s[i]]
              \/ /\ s[i] \in Variables
                 /\ last[i] = last[i - 1] + 2
                 /\ t[last[i] - 1] = "-"
                 /\ t[last[i]] \in Literals /\ Negated(Number[t[last[i]]]) = Data[s[i]]
  <2>1. PICK a \in V, b \in V, p \in V : /\ a = text[i - 1] /\ b = text[i] /\ p = piece(i)
                                         /\ b = a \o p
    BY <1>15
  <2>2. last[i - 1] = Len(a) /\ last[i] = Len(b)
    BY <1>15, <2>1
  <2>3. \A k \in 1..Len(b) : t[k] = b[k]
    BY <1>15, <1>20, <2>1
  <2> HIDE DEF t, last
  <2>4. CASE s[i] \notin Variables
    <3>1. p = <<s[i]>>
      BY <2>1, <2>4 DEF piece
    <3>2. Len(b) = Len(a) + 1 /\ b[Len(a) + 1] = s[i] /\ Len(b) \in 1..Len(b)
      BY <2>1, <3>1
    <3> QED
      BY <2>2, <2>3, <2>4, <3>2
  <2>5. CASE s[i] \in Variables
    <3>1. p = Printed(Data[s[i]])
      BY <2>1, <2>5 DEF piece
    <3>2. PICK l \in Literals : \/ p = <<l>> /\ Number[l] = Data[s[i]]
                                \/ p = <<"-", l>> /\ Negated(Number[l]) = Data[s[i]]
      BY <2>5, <3>1, PrintedValue
    <3>3. CASE p = <<l>> /\ Number[l] = Data[s[i]]
      <4>1. Len(b) = Len(a) + 1 /\ b[Len(a) + 1] = l /\ Len(b) \in 1..Len(b)
        BY <2>1, <3>3
      <4> QED
        BY <2>2, <2>3, <2>5, <3>3, <4>1
    <3>4. CASE p = <<"-", l>> /\ Negated(Number[l]) = Data[s[i]]
      <4>1. /\ Len(b) = Len(a) + 2 /\ b[Len(a) + 1] = "-" /\ b[Len(a) + 2] = l
            /\ Len(b) \in 1..Len(b) /\ Len(b) - 1 \in 1..Len(b) /\ Len(b) - 1 = Len(a) + 1
        BY <2>1, <3>4
      <4> QED
        BY <2>2, <2>3, <2>5, <3>4, <4>1
    <3> QED
      BY <3>2, <3>3, <3>4
  <2> QED
    BY <2>4, <2>5
<1>22. last \in [S -> Nat] /\ last[0] = 0 /\ last[Len(s)] = Len(t)
  BY <1>0, <1>14, <1>16
<1>23. Printing(s, t, last)
  <2> HIDE DEF last, t
  <2> QED
    BY <1>21, <1>22 DEF Printing
<1>24. t \in V
  BY <1>0, <1>14
<1> QED
  BY <1>9, <1>23, <1>24

\* Every symbol prints something.
LEMMA PrintingAdvances ==
  ASSUME NEW Chars, NEW s \in Seq(Chars), NEW t, NEW last, Printing(s, t, last)
  PROVE  \A i, j \in 0..Len(s) : i < j => last[i] < last[j]
<1>0. Len(s) \in Nat /\ last \in [0..Len(s) -> Nat]
  BY DEF Printing
<1>1. ASSUME NEW i \in 1..Len(s) PROVE last[i - 1] < last[i]
  <2>1. last[i] = last[i - 1] + 1 \/ last[i] = last[i - 1] + 2
    BY DEF Printing
  <2>2. i - 1 \in 0..Len(s)
    BY <1>0
  <2> QED
    BY <1>0, <2>1, <2>2
<1> DEFINE T == {n \in Nat : \A i \in 0..Len(s) : n \in 0..Len(s) /\ i < n => last[i] < last[n]}
<1>2. 0 \in T
  BY <1>0
<1>3. ASSUME NEW n \in Nat, n \in T PROVE n + 1 \in T
  <2>1. SUFFICES ASSUME NEW i \in 0..Len(s), n + 1 \in 0..Len(s), i < n + 1
                 PROVE  last[i] < last[n + 1]
    OBVIOUS
  <2>2. n + 1 \in 1..Len(s) /\ (n + 1) - 1 = n /\ n \in 0..Len(s)
    BY <1>0, <2>1
  <2>3. last[n] < last[n + 1]
    BY <1>1, <2>2
  <2>4. i = n \/ last[i] < last[n]
    BY <1>0, <1>3, <2>1, <2>2
  <2>5. last[i] \in Nat /\ last[n] \in Nat /\ last[n + 1] \in Nat
    BY <1>0, <2>1, <2>2
  <2> QED
    BY <2>3, <2>4, <2>5
<1>4. Nat \subseteq T
  <2> HIDE DEF T
  <2> QED
    BY <1>2, <1>3, Induction
<1> QED
  BY <1>0, <1>4

\* Operators print themselves.
LEMMA OperatorIsNoVariable ==
  \A l \in 1..2 : \A x \in Level[l] : x \in BinaryOps /\ x \notin Variables
<1>1. \A x \in BinaryOps : x \notin Variables
  BY SymbolKinds
<1>2. \A l \in 1..2 : l = 1 \/ l = 2
  OBVIOUS
<1> QED
  BY <1>1, <1>2, SymbolKinds

\* A part of a formula and what it prints are worth the same.
LEMMA PrintedIsRead ==
  ASSUME NEW Chars, NEW s \in Seq(Chars), NEW W, Reads(s, W),
         NEW Signs, NEW t \in Seq(Signs), NEW X, Reads(t, X),
         NEW last, Printing(s, t, last)
  PROVE  \A l \in 1..3, i \in 1..Len(s), j \in 1..Len(s) :
           i =< j => W[l][i][j] \subseteq X[l][last[i - 1] + 1][last[j]]
<1> DEFINE size(l, i, j) == 4 * (j - i) + (3 - l)
           P == 1..Len(s)
           T == {n \in Nat : \A l \in 1..3, i \in P, j \in P :
                               i =< j /\ size(l, i, j) < n =>
                                 W[l][i][j] \subseteq X[l][last[i - 1] + 1][last[j]]}
<1>0. /\ Len(s) \in Nat /\ Len(t) \in Nat /\ P \subseteq Nat \ {0}
      /\ P \subseteq Firsts(s) /\ P \subseteq Lasts(s)
      /\ last \in [0..Len(s) -> Nat] /\ last[0] = 0 /\ last[Len(s)] = Len(t)
  BY DEF Firsts, Lasts, Printing
<1>1. 0 \in T
  BY <1>0
<1>2. ASSUME NEW i \in P, NEW j \in P, i =< j
      PROVE  /\ last[i - 1] \in Nat /\ last[j] \in Nat
             /\ last[i - 1] + 1 \in Firsts(t) /\ last[j] \in Lasts(t)
             /\ last[i - 1] + 1 =< last[j]
  <2>1. i - 1 \in 0..Len(s) /\ j \in 0..Len(s) /\ i - 1 < j
    BY <1>0, <1>2
  <2>2. last[i - 1] < last[j]
    BY <2>1, PrintingAdvances
  <2>3. j = Len(s) \/ last[j] < last[Len(s)]
    BY <1>0, <1>2, <2>1, PrintingAdvances
  <2>4. last[i - 1] \in Nat /\ last[j] \in Nat
    BY <1>0, <2>1
  <2> QED
    BY <1>0, <2>2, <2>3, <2>4 DEF Firsts, Lasts
<1>3. \A i \in Firsts(s), j \in Lasts(s) : i > j => \A l \in 1..3 : W[l][i][j] = {}
  BY DEF Reads
<1>4. ASSUME NEW n \in Nat, n \in T PROVE n + 1 \in T
  <2>1. SUFFICES ASSUME NEW l \in 1..3, NEW i \in P, NEW j \in P,
                        i =< j, size(l, i, j) < n + 1, NEW q \in W[l][i][j]
                 PROVE  q \in X[l][last[i - 1] + 1][last[j]]
    BY <1>4
  <2> DEFINE x == last[i - 1] + 1
             y == last[j]
  <2>2. x \in Firsts(t) /\ y \in Lasts(t) /\ x =< y /\ x \in Nat /\ y \in Nat
    BY <1>2, <2>1
  <2>3. ASSUME NEW m \in 1..3, NEW a \in P, NEW b \in P, a =< b, size(m, a, b) < size(l, i, j)
        PROVE  W[m][a][b] \subseteq X[m][last[a - 1] + 1][last[b]]
    <3>1. size(m, a, b) < n
      BY <1>0, <2>1, <2>3
    <3> QED
      BY <1>4, <2>3, <3>1
  <2>4. CASE l \in 1..2
    <3>1. q \in W[l + 1][i][j] \/ Binary(s, W, l, i, j, q)
      BY <1>0, <2>1, <2>4 DEF Reads
    <3>2. q \in X[l + 1][x][y] \/ Binary(t, X, l, x, y, q) => q \in X[l][x][y]
      BY <2>2, <2>4 DEF Reads
    <3>3. CASE q \in W[l + 1][i][j]
      <4>1. l + 1 \in 1..3 /\ size(l + 1, i, j) < size(l, i, j)
        BY <1>0, <2>4
      <4> QED
        BY <2>1, <2>3, <3>2, <3>3, <4>1
    <3>4. CASE Binary(s, W, l, i, j, q)
      <4>1. PICK k \in (i + 1)..(j - 1) :
              /\ s[k] \in Level[l]
              /\ \E a \in W[l][i][k - 1], b \in W[l + 1][k + 1][j] : q = ApplyOrFail(s[k], a, b)
        BY <3>4 DEF Binary
      <4>2. PICK a \in W[l][i][k - 1], b \in W[l + 1][k + 1][j] : q = ApplyOrFail(s[k], a, b)
        BY <4>1
      <4>3. /\ k - 1 \in P /\ k + 1 \in P /\ k \in P /\ l + 1 \in 1..3
            /\ i =< k - 1 /\ k + 1 =< j /\ (k + 1) - 1 = k
        BY <1>0, <2>4
      <4>4. size(l, i, k - 1) < size(l, i, j) /\ size(l + 1, k + 1, j) < size(l, i, j)
        BY <1>0, <2>4
      <4>5. a \in X[l][x][last[k - 1]] /\ b \in X[l + 1][last[k] + 1][y]
        BY <2>3, <2>4, <4>2, <4>3, <4>4
      <4>6. last[k] = last[k - 1] + 1 /\ t[last[k]] = s[k]
        <5>1. s[k] \notin Variables
          BY <2>4, <4>1, OperatorIsNoVariable
        <5> QED
          BY <4>3, <5>1 DEF Printing
      <4>7. last[k] \in (x + 1)..(y - 1) /\ last[k] - 1 = last[k - 1]
        <5>1. x =< last[k - 1] /\ last[k - 1] \in Nat
          BY <1>2, <4>3
        <5>2. last[k] + 1 =< y
          BY <1>2, <4>3
        <5> HIDE DEF x, y
        <5>3. PICK f, g, d, e \in Nat : f = x /\ g = y /\ d = last[k - 1] /\ e = last[k]
          <6>1. last[k] \in Nat
            BY <4>6, <5>1
          <6>2. x \in Nat /\ y \in Nat
            BY <2>2
          <6> QED
            BY <5>1, <6>1, <6>2
        <5>4. f =< d /\ e = d + 1 /\ e + 1 =< g
          BY <4>6, <5>1, <5>2, <5>3
        <5>5. e \in (f + 1)..(g - 1) /\ e - 1 = d
          BY <5>4
        <5> QED
          BY <5>3, <5>5
      <4>8. Binary(t, X, l, x, y, q)
        <5> HIDE DEF x, y
        <5> QED
          BY <4>1, <4>2, <4>5, <4>6, <4>7 DEF Binary
      <4> QED
        BY <3>2, <4>8
    <3> QED
      BY <3>1, <3>3, <3>4
  <2>5. CASE l = 3
    <3>1. \/ i = j /\ s[i] \in Literals /\ q = Number[s[i]]
          \/ i = j /\ s[i] \in Variables /\ q = Data[s[i]]
          \/ s[i] = "-" /\ \E a \in W[3][i + 1][j] : q = Negated(a)
          \/ s[i] = "(" /\ s[j] = ")" /\ q \in W[1][i + 1][j - 1]
      BY <1>0, <2>1, <2>5 DEF Reads
    <3>2. ASSUME NEW u \in Firsts(t), NEW v \in Lasts(t), u =< v, NEW p,
                 \/ u = v /\ t[u] \in Literals /\ p = Number[t[u]]
                 \/ t[u] = "-" /\ \E a \in X[3][u + 1][v] : p = Negated(a)
                 \/ t[u] = "(" /\ t[v] = ")" /\ p \in X[1][u + 1][v - 1]
          PROVE  p \in X[3][u][v]
      BY <3>2 DEF Reads
    <3>3. (i - 1) + 1 = i /\ (j - 1) + 1 = j /\ last[i] \in Nat
      BY <1>0, <2>1
    <3> HIDE DEF x, y
    <3>4. CASE i = j /\ s[i] \in Literals /\ q = Number[s[i]]
      <4>1. y = x /\ t[x] = s[i]
        BY <3>4, SymbolKinds DEF Printing, x, y
      <4> QED
        BY <2>2, <2>5, <3>2, <3>4, <4>1 DEF x, y
    <3>5. CASE i = j /\ s[i] \in Variables /\ q = Data[s[i]]
      <4>1. CASE /\ last[i] = last[i - 1] + 1
                 /\ t[last[i]] \in Literals /\ Number[t[last[i]]] = Data[s[i]]
        <5>1. y = x /\ t[x] \in Literals /\ Number[t[x]] = q
          BY <3>5, <4>1 DEF x, y
        <5> QED
          BY <2>2, <2>5, <3>2, <5>1 DEF x, y
      <4>2. CASE /\ last[i] = last[i - 1] + 2
                 /\ t[last[i] - 1] = "-"
                 /\ t[last[i]] \in Literals /\ Negated(Number[t[last[i]]]) = Data[s[i]]
        <5>1. last[i - 1] \in Nat
          BY <1>2, <2>1
        <5>2. y = x + 1 /\ last[i] - 1 = x
          BY <3>5, <4>2, <5>1 DEF x, y
        <5>3. t[x] = "-" /\ t[y] \in Literals /\ Negated(Number[t[y]]) = q
          BY <3>5, <4>2, <5>2 DEF y
        <5>4. y \in Firsts(t)
          BY <1>0, <2>2, <5>2 DEF Firsts, Lasts
        <5>5. Number[t[y]] \in X[3][y][y]
          BY <2>2, <3>2, <5>3, <5>4
        <5>6. q \in X[3][x][y]
          BY <2>2, <3>2, <5>2, <5>3, <5>5
        <5> QED
          BY <2>5, <5>6 DEF x, y
      <4> QED
        BY <3>5, <4>1, <4>2 DEF Printing
    <3>6. CASE s[i] = "-" /\ \E a \in W[3][i + 1][j] : q = Negated(a)
      <4>1. PICK a \in W[3][i + 1][j] : q = Negated(a)
        BY <3>6
      <4>2. i + 1 \in P /\ i + 1 =< j /\ (i + 1) - 1 = i
        <5>1. i + 1 \in Firsts(s) /\ j \in Lasts(s)
          BY <1>0 DEF Firsts
        <5>2. i + 1 > j => W[3][i + 1][j] = {}
          BY <1>3, <5>1
        <5> QED
          BY <1>0, <4>1, <5>2
      <4>3. size(3, i + 1, j) < size(3, i, j)
        BY <1>0
      <4>4. a \in X[3][last[i] + 1][y]
        BY <2>3, <2>5, <4>1, <4>2, <4>3 DEF y
      <4>5. last[i] = x /\ t[x] = s[i]
        <5>1. s[i] \notin Variables
          BY <3>6, SymbolKinds DEF BinaryOps
        <5> QED
          BY <5>1 DEF Printing, x
      <4>6. q \in X[3][x][y]
        BY <2>2, <3>2, <3>6, <4>1, <4>4, <4>5
      <4> QED
        BY <2>5, <4>6 DEF x, y
    <3>7. CASE s[i] = "(" /\ s[j] = ")" /\ q \in W[1][i + 1][j - 1]
      <4>1. i # j
        BY <3>7
      <4>2. i + 1 \in P /\ j - 1 \in P /\ i + 1 =< j - 1 /\ (i + 1) - 1 = i
        <5>1. i + 1 \in Firsts(s) /\ j - 1 \in Lasts(s)
          BY <1>0 DEF Firsts, Lasts
        <5>2. i + 1 > j - 1 => W[1][i + 1][j - 1] = {}
          BY <1>3, <5>1
        <5> QED
          BY <1>0, <3>7, <5>2
      <4>3. size(1, i + 1, j - 1) < size(3, i, j)
        BY <1>0
      <4>4. q \in X[1][last[i] + 1][last[j - 1]]
        BY <2>3, <2>5, <3>7, <4>2, <4>3
      <4>5. last[i] = x /\ t[x] = s[i] /\ y = last[j - 1] + 1 /\ t[y] = s[j]
        <5>1. s[i] \notin Variables /\ s[j] \notin Variables
          BY <3>7, SymbolKinds
        <5> QED
          BY <5>1 DEF Printing, x, y
      <4>6. last[j - 1] = y - 1
        <5>1. j - 1 \in 0..Len(s)
          BY <4>2
        <5>2. last[j - 1] \in Nat
          BY <1>0, <5>1
        <5> QED
          BY <4>5, <5>2
      <4>7. q \in X[3][x][y]
        BY <2>2, <3>2, <3>7, <4>4, <4>5, <4>6
      <4> QED
        BY <2>5, <4>7 DEF x, y
    <3> QED
      BY <3>1, <3>4, <3>5, <3>6, <3>7
  <2> QED
    BY <2>4, <2>5
<1>5. Nat \subseteq T
  <2> HIDE DEF T
  <2> QED
    BY <1>1, <1>4, Induction
<1>6. ASSUME NEW l \in 1..3, NEW i \in P, NEW j \in P, i =< j
      PROVE  W[l][i][j] \subseteq X[l][last[i - 1] + 1][last[j]]
  <2>1. size(l, i, j) + 1 \in Nat /\ size(l, i, j) < size(l, i, j) + 1
    BY <1>0, <1>6
  <2>2. size(l, i, j) + 1 \in T
    BY <1>5, <2>1
  <2> QED
    BY <1>6, <2>1, <2>2
<1> QED
  BY <1>6

\* The text has every value that the formula has.
LEMMA MeaningPrinted ==
  ASSUME NEW Chars, NEW s \in Seq(Chars)
  PROVE  Meaning(s) \subseteq Meaning(Substituted(s))
<1> DEFINE t == Substituted(s)
<1>1. PICK W : Reads(s, W) /\ Meaning(s) = W[1][1][Len(s)]
  BY MeaningIsRead
<1>2. PICK last : Printing(s, t, last)
  BY SubstitutedPrints
<1>3. t \in Seq((Chars \ Variables) \cup Literals \cup {"-"})
  BY SubstitutedPrints
<1> HIDE DEF t
<1>4. PICK X : Reads(t, X) /\ Meaning(t) = X[1][1][Len(t)]
  BY <1>3, MeaningIsRead
<1>5. CASE s = <<>>
  <2>1. Meaning(s) = {}
    <3>1. Len(s) = 0 /\ 1 \in Firsts(s) /\ 0 \in Lasts(s)
      BY <1>5 DEF Firsts, Lasts
    <3> QED
      BY <1>1, <3>1 DEF Reads
  <2> QED
    BY <2>1
<1>6. CASE s # <<>>
  <2>1. 1 \in 1..Len(s) /\ Len(s) \in 1..Len(s) /\ 1 =< Len(s)
    BY <1>6
  <2>2. W[1][1][Len(s)] \subseteq X[1][last[1 - 1] + 1][last[Len(s)]]
    BY <1>1, <1>2, <1>3, <1>4, <2>1, PrintedIsRead
  <2>3. last[1 - 1] + 1 = 1 /\ last[Len(s)] = Len(t)
    BY <1>2 DEF Printing
  <2> QED
    BY <1>1, <1>4, <2>2, <2>3 DEF t
<1> QED
  BY <1>5, <1>6

-----------------------------------------------------------------------------
(* The checks of the text. *)

Tokenized(t) == [i \in 1..Len(t) |-> Token(t, i)]

\* A text that can be converted: its parentheses close, within the limit.
Passed(t) ==
  /\ t # <<>>
  /\ \A i \in 1..Len(t) : t[i] \in Symbols \ Variables
  /\ \A i \in 0..Len(t) : Depth(t, i) \in 0..MaxNesting
  /\ Depth(t, Len(t)) = 0

\* What is wrong with a text when it is refused.
LEMMA FaultFound ==
  ASSUME NEW t
  PROVE  /\ Fault(t) \in {"none", "too long", "illegal", "empty", "too deep", "unbalanced"}
         /\ Fault(t) = "illegal" => \E i \in 1..Len(t) : t[i] \notin Symbols \ Variables
         /\ Fault(t) = "empty" => t = <<>>
         /\ Fault(t) = "unbalanced" => Open(t)
         /\ Fault(t) = "none" => /\ \A i \in 1..Len(t) : t[i] \in Symbols \ Variables
                                 /\ t # <<>> /\ ~Deep(t) /\ ~Open(t)
<1> DEFINE long == Len(source) > MaxLength
           illegal == \E i \in 1..Len(t) : t[i] \notin Symbols \ Variables
<1>1. Fault(t) = CASE long -> "too long" [] illegal -> "illegal" [] t = <<>> -> "empty"
                   [] Deep(t) -> "too deep" [] Open(t) -> "unbalanced" [] OTHER -> "none"
  BY DEF Fault
<1>2. illegal <=> \E i \in 1..Len(t) : t[i] \notin Symbols \ Variables
  OBVIOUS
<1> HIDE DEF long, illegal
<1> QED
  BY <1>1, <1>2

\* Depths that are never negative nor, when the first is not, too great.
LEMMA FaultlessPassed ==
  ASSUME NEW C, NEW t \in Seq(C), Fault(t) = "none"
  PROVE  Passed(t)
<1>1. /\ \A i \in 1..Len(t) : t[i] \in Symbols \ Variables
      /\ t # <<>> /\ ~Deep(t) /\ ~Open(t)
  BY FaultFound
<1>2. Len(t) \in Nat /\ \A i \in 0..Len(t) : Depth(t, i) \in Int
  BY DepthStep
<1>3. ASSUME NEW i \in 0..Len(t) PROVE Depth(t, i) \in 0..MaxNesting
  <2>1. CASE i = 0
    BY <2>1, DepthStep, FormulaAssumption
  <2>2. CASE i # 0
    <3>1. i \in 1..Len(t)
      BY <2>2
    <3>2. \A k \in 1..i : Depth(t, k) >= 0
      BY <1>1, <1>2, <3>1 DEF Open
    <3>3. ~(Depth(t, i) > MaxNesting) /\ Depth(t, i) >= 0
      BY <1>1, <3>1, <3>2 DEF Deep
    <3> QED
      BY <1>2, <3>3, FormulaAssumption
  <2> QED
    BY <2>1, <2>2
<1> QED
  BY <1>1, <1>3 DEF Passed, Open

\* An expression is never refused for its writing.
LEMMA ExpressionPasses ==
  ASSUME NEW Chars, NEW s \in Seq(Chars), Meaning(s) # {}
  PROVE  Fault(Substituted(s)) \notin {"illegal", "empty", "unbalanced"}
<1> DEFINE t == Substituted(s)
           C == (Chars \ Variables) \cup Literals \cup {"-"}
<1>1. t \in Seq(C) /\ Meaning(t) # {}
  BY SubstitutedPrints, MeaningPrinted
<1>2. \A x \in C : x \notin Variables
  BY SymbolKinds DEF BinaryOps
<1> HIDE DEF t, C
<1>3. PICK W : Reads(t, W) /\ Meaning(t) = W[1][1][Len(t)]
  BY <1>1, MeaningIsRead
<1>4. 1 \in Firsts(t) /\ Len(t) \in Lasts(t) /\ Len(t) \in Nat
  BY <1>1 DEF Firsts, Lasts
<1>5. Formed(t, 1, 1, Len(t))
  BY <1>1, <1>3, <1>4, ReadIsFormed
<1>6. t # <<>>
  <2>1. 1 > Len(t) => W[1][1][Len(t)] = {}
    BY <1>3, <1>4 DEF Reads
  <2> QED
    BY <1>1, <1>3, <2>1
<1>7. \A i \in 1..Len(t) : t[i] \in Symbols \ Variables
  BY <1>1, <1>2, <1>5 DEF Formed
<1>8. ~Open(t)
  <2>1. Depth(t, 1 - 1) = 0
    BY DepthStep
  <2>2. Depth(t, Len(t)) = 0 /\ \A k \in 1..Len(t) : Depth(t, k) >= 0
    BY <1>5, <2>1 DEF Formed
  <2>3. \A k \in Nat : Depth(t, k) \in Int
    BY DepthStep
  <2>4. \A k \in 1..Len(t) : k \in Nat
    BY <1>4
  <2> QED
    BY <2>2, <2>3, <2>4 DEF Open
<1> QED
  BY <1>6, <1>7, <1>8, FaultFound DEF t

\* The tokens of a text are its symbols, but for the minus signs.
LEMMA TokenizedTyped ==
  ASSUME NEW C, NEW t \in Seq(C), \A i \in 1..Len(t) : t[i] \in Symbols \ Variables
  PROVE  /\ Tokenized(t) \in Seq(Tokens) /\ Len(Tokenized(t)) = Len(t)
         /\ \A i \in 1..Len(t) : /\ Tokenized(t)[i] = Token(t, i)
                                 /\ Token(t, i) = t[i] \/ (t[i] = "-" /\ Token(t, i) = "u-")
<1>1. ASSUME NEW i \in 1..Len(t)
      PROVE  /\ Token(t, i) = t[i] \/ (t[i] = "-" /\ Token(t, i) = "u-")
             /\ Token(t, i) \in Tokens
  BY DEF Token, Tokens, Symbols, Operators
<1> QED
  BY <1>1 DEF Tokenized

\* So they have its parentheses.
LEMMA TokenDepth ==
  ASSUME NEW C, NEW t \in Seq(C), \A i \in 1..Len(t) : t[i] \in Symbols \ Variables,
         NEW i \in 0..Len(t)
  PROVE  Depth(Tokenized(t), i) = Depth(t, i)
<1>1. \A k \in 1..i : /\ Tokenized(t)[k] = "(" <=> t[k] = "("
                      /\ Tokenized(t)[k] = ")" <=> t[k] = ")"
  BY TokenizedTyped
<1>2. /\ {k \in 1..i : Tokenized(t)[k] = "("} = {k \in 1..i : t[k] = "("}
      /\ {k \in 1..i : Tokenized(t)[k] = ")"} = {k \in 1..i : t[k] = ")"}
  BY <1>1
<1> QED
  BY <1>2 DEF Depth

-----------------------------------------------------------------------------
(* The types, and how far the engine is. *)

\* What a stack has when its top is gone, and what a longer one has.
LEMMA PoppedFacts ==
  ASSUME NEW V, NEW o \in Seq(V), o # <<>>
  PROVE  /\ Popped(o) \in Seq(V) /\ Len(Popped(o)) = Len(o) - 1 /\ Len(o) \in Nat \ {0}
         /\ \A i \in 1..(Len(o) - 1) : Popped(o)[i] = o[i]
         /\ Top(o) = o[Len(o)] /\ Top(o) \in V
<1>1. Len(o) \in Nat \ {0}
  OBVIOUS
<1>2. Top(o) = o[Len(o)] /\ Top(o) \in V
  BY <1>1 DEF Top
<1> DEFINE p == SubSeq(o, 1, Len(o) - 1)
<1>3. \A i \in 1..(Len(o) - 1) : o[i] \in V
  BY <1>1
<1>4. /\ p \in Seq(V)
      /\ Len(p) = IF 1 =< Len(o) - 1 THEN (Len(o) - 1) - 1 + 1 ELSE 0
      /\ \A i \in 1..((Len(o) - 1) - 1 + 1) : p[i] = o[1 + i - 1]
  <2>1. 1 \in Int /\ Len(o) - 1 \in Int
    BY <1>1
  <2> QED
    BY <1>3, <2>1, SubSeqProperties
<1> HIDE DEF p
<1>5. (IF 1 =< Len(o) - 1 THEN (Len(o) - 1) - 1 + 1 ELSE 0) = Len(o) - 1
  <2>1. \A n \in Nat \ {0} : (IF 1 =< n - 1 THEN (n - 1) - 1 + 1 ELSE 0) = n - 1
    OBVIOUS
  <2> QED
    BY <1>1, <2>1
<1>6. p \in Seq(V) /\ Len(p) = Len(o) - 1
  BY <1>4, <1>5
<1>7. \A i \in 1..(Len(o) - 1) : p[i] = o[i]
  <2>1. \A i \in 1..(Len(o) - 1) : 1 + i - 1 = i
    BY <1>1
  <2>2. (Len(o) - 1) - 1 + 1 = Len(o) - 1
    BY <1>1
  <2> QED
    BY <1>4, <2>1, <2>2
<1> QED
  BY <1>1, <1>2, <1>6, <1>7 DEF Popped, p

\* What a stack has when something is put on it.
LEMMA AppendFacts ==
  ASSUME NEW V, NEW o \in Seq(V), NEW x \in V
  PROVE  /\ Append(o, x) \in Seq(V) /\ Len(Append(o, x)) = Len(o) + 1
         /\ \A i \in 1..Len(o) : Append(o, x)[i] = o[i]
         /\ Append(o, x)[Len(o) + 1] = x
         /\ Append(o, x) # <<>>
OBVIOUS

\* The result is an integer.
LEMMA RoundedIsInteger ==
  ASSUME NEW q \in Fractions
  PROVE  Rounded(q) \in Int
<1> DEFINE a == Absolute(q)
<1>1. a \in Fractions
  BY NegatedIsFraction DEF Absolute
<1>2. a[1] \in Int /\ q[2] \in Nat \ {0} /\ Scale \in Nat \ {0}
  BY <1>1, FractionParts, FormulaAssumption
<1> HIDE DEF a
<1>3. PICK n \in Int, d \in Nat \ {0} : n = 2 * a[1] * Scale + q[2] /\ d = 2 * q[2]
  <2>1. a[1] * Scale \in Int
    BY <1>2
  <2>2. 2 * a[1] * Scale + q[2] \in Int /\ 2 * q[2] \in Nat \ {0}
    BY <1>2, <2>1
  <2> QED
    BY <2>2
<1>4. n \div d \in Int
  OBVIOUS
<1>5. Rounded(q) = IF q[1] < 0 THEN 0 - (n \div d) ELSE n \div d
  BY <1>3 DEF Rounded, a
<1> QED
  BY <1>4, <1>5

Text == Substituted(source)

\* What is settled when the engine is at each stage.
Shape ==
  /\ stage = "read" =>
       tokens = <<>> /\ pos = 1 /\ opStack = <<>> /\ output = <<>> /\ stack = <<>> /\ reason = "none"
  /\ stage \in {"convert", "evaluate", "done"} => reason = "none"
  /\ stage \in {"convert", "evaluate", "done"} \/ tokens # <<>> =>
       tokens = Tokenized(Text) /\ Passed(Text)
  /\ stage = "convert" => stack = <<>> /\ pos =< Len(tokens) + 1
  /\ stage = "evaluate" => pos =< Len(output) + 1
  /\ stage = "failed" /\ tokens = <<>> => reason = Fault(Text)

\* The formula is a sequence of symbols, and so is the text.
LEMMA TextTyped ==
  ASSUME TypeOK
  PROVE  /\ source \in Seq(STRING)
         /\ Text \in Seq((STRING \ Variables) \cup Literals \cup {"-"})
<1>1. source \in Seq(STRING)
  BY FormulaAssumption DEF TypeOK
<1> QED
  BY <1>1, SubstitutedPrints DEF Text

\* A token that is not of the others is of the kinds left.
LEMMA TokenKinds ==
  /\ \A x \in Tokens : x \in Literals \/ x \in Operators \/ x = "(" \/ x = ")"
  /\ "(" \notin Operators /\ ")" \notin Operators /\ "(" \notin Literals /\ ")" \notin Literals
  /\ Operators \cap Literals = {}
<1>1. \A x \in Literals : x \notin BinaryOps \cup {"u-", "(", ")"}
  BY SymbolKinds
<1> QED
  BY <1>1 DEF Tokens, Operators, BinaryOps

\* It reads its text or refuses it.
LEMMA ReadTyped ==
  ASSUME TypeOK, Shape, Read
  PROVE  TypeOK' /\ Shape'
<1> DEFINE t == Text
<1>1. /\ stage = "read"
      /\ reason' = Fault(t)
      /\ stage' = IF reason' = "none" THEN "convert" ELSE "failed"
      /\ tokens' = IF reason' = "none" THEN Tokenized(t) ELSE <<>>
      /\ UNCHANGED <<source, pos, opStack, output, stack, result>>
  BY DEF Read, Text, Tokenized
<1>2. t \in Seq((STRING \ Variables) \cup Literals \cup {"-"}) /\ Text' = t
  BY <1>1, TextTyped DEF Text
<1> HIDE DEF t
<1>3. Fault(t) \in Reasons \cup {"none"}
  BY FaultFound DEF Reasons
<1>4. CASE reason' = "none"
  <2>1. Passed(t)
    BY <1>1, <1>2, <1>4, FaultlessPassed
  <2>2. Tokenized(t) \in Seq(Tokens)
    BY <1>2, <2>1, TokenizedTyped DEF Passed
  <2>3. TypeOK'
    BY <1>1, <1>3, <1>4, <2>2 DEF TypeOK
  <2>4. Shape'
    BY <1>1, <1>2, <1>4, <2>1, <2>2 DEF Shape
  <2> QED
    BY <2>3, <2>4
<1>5. CASE reason' # "none"
  <2>1. TypeOK'
    BY <1>1, <1>3, <1>5 DEF TypeOK
  <2>2. Fault(t)' = Fault(t)
    BY <1>1, <1>2 DEF Fault, t
  <2>3. Shape'
    BY <1>1, <1>2, <1>5, <2>2 DEF Shape, t
  <2> QED
    BY <2>1, <2>3
<1> QED
  BY <1>4, <1>5

\* A token is written or put on the stack of operators,
LEMMA ConvertTyped ==
  ASSUME TypeOK, Shape,
         \/ ConvertNumber \/ PopOperator \/ PushOperator \/ OpenParen
         \/ PopToParen \/ CloseParen \/ Drain \/ Converted
  PROVE  TypeOK' /\ Shape'
<1>1. /\ stage = "convert" /\ reason = "none" /\ stack = <<>> /\ pos =< Len(tokens) + 1
      /\ tokens = Tokenized(Text) /\ Passed(Text)
  <2>1. stage = "convert"
    BY DEF ConvertNumber, PopOperator, PushOperator, OpenParen, PopToParen, CloseParen, Drain,
           Converted, Reading, AtEnd
  <2> QED
    BY <2>1 DEF Shape
<1>2. /\ tokens \in Seq(Tokens) /\ pos \in Nat \ {0} /\ Len(tokens) \in Nat
      /\ opStack \in Seq(Operators \cup {"("}) /\ output \in Seq(Operators \cup Literals)
  BY DEF TypeOK
<1>3. tokens # <<>>
  BY <1>1, TextTyped, TokenizedTyped DEF Passed
<1> DEFINE Same == UNCHANGED <<source, tokens, stack, result>>
\* A step within the conversion
<1>4. ASSUME Same, UNCHANGED <<stage, reason>>,
             pos' \in Nat \ {0}, pos' =< Len(tokens) + 1,
             opStack' \in Seq(Operators \cup {"("}), output' \in Seq(Operators \cup Literals)
      PROVE  TypeOK' /\ Shape'
  <2>1. TypeOK'
    BY <1>4 DEF TypeOK
  <2>2. Shape'
    BY <1>1, <1>3, <1>4 DEF Shape, Text
  <2> QED
    BY <2>1, <2>2
\* or its end in an exception.
<1>5. ASSUME Fail("unbalanced") PROVE TypeOK' /\ Shape'
  <2>1. TypeOK'
    BY <1>5 DEF TypeOK, Fail, Reasons
  <2>2. Shape'
    BY <1>1, <1>3, <1>5 DEF Shape, Text, Fail
  <2> QED
    BY <2>1, <2>2
<1>6. ASSUME Topped(Operators), PopToOutput PROVE TypeOK' /\ Shape'
  <2>1. opStack # <<>> /\ Top(opStack) \in Operators
    BY <1>6 DEF Topped
  <2>2. Popped(opStack) \in Seq(Operators \cup {"("})
    BY <1>2, <2>1, PoppedFacts
  <2>3. Append(output, Top(opStack)) \in Seq(Operators \cup Literals)
    BY <1>2, <2>1, AppendFacts
  <2> QED
    BY <1>1, <1>2, <1>4, <1>6, <2>2, <2>3 DEF PopToOutput
<1>7. ASSUME pos =< Len(tokens), tokens[pos] \in Operators \cup {"("}, PushToken
      PROVE  TypeOK' /\ Shape'
  <2>1. Append(opStack, tokens[pos]) \in Seq(Operators \cup {"("})
    BY <1>2, <1>7, AppendFacts
  <2> QED
    BY <1>1, <1>2, <1>4, <1>7, <2>1 DEF PushToken
<1>8. CASE ConvertNumber
  <2>1. Append(output, tokens[pos]) \in Seq(Operators \cup Literals)
    BY <1>2, <1>8, AppendFacts DEF ConvertNumber, Reading
  <2> QED
    BY <1>1, <1>2, <1>4, <1>8, <2>1 DEF ConvertNumber, Reading
<1>9. CASE PopOperator
  BY <1>6, <1>9 DEF PopOperator, Yields
<1>10. CASE PushOperator
  BY <1>7, <1>10 DEF PushOperator, Reading
<1>11. CASE OpenParen
  BY <1>7, <1>11 DEF OpenParen, Reading
<1>12. CASE PopToParen
  BY <1>6, <1>12 DEF PopToParen
<1>13. CASE CloseParen
  <2>1. CASE opStack = <<>>
    BY <1>5, <1>13, <2>1 DEF CloseParen
  <2>2. CASE opStack # <<>>
    <3>1. Popped(opStack) \in Seq(Operators \cup {"("})
      BY <1>2, <2>2, PoppedFacts
    <3> QED
      BY <1>1, <1>2, <1>4, <1>13, <2>2, <3>1 DEF CloseParen, Reading
  <2> QED
    BY <2>1, <2>2
<1>14. CASE Drain
  BY <1>6, <1>14 DEF Drain
<1>15. CASE Converted
  <2>1. CASE opStack # <<>>
    BY <1>5, <1>15, <2>1 DEF Converted
  <2>2. CASE opStack = <<>>
    <3>1. /\ stage' = "evaluate" /\ pos' = 1
          /\ UNCHANGED <<source, reason, tokens, opStack, output, stack, result>>
      BY <1>15, <2>2 DEF Converted
    <3>2. TypeOK'
      BY <3>1 DEF TypeOK
    <3>3. Len(output) \in Nat
      BY <1>2
    <3>4. Shape'
      BY <1>1, <3>1, <3>3 DEF Shape, Text
    <3> QED
      BY <3>2, <3>4
  <2> QED
    BY <2>1, <2>2
<1> QED
  BY <1>8, <1>9, <1>10, <1>11, <1>12, <1>13, <1>14, <1>15

\* and the numbers are computed with.
LEMMA EvaluateTyped ==
  ASSUME TypeOK, Shape, PushNumber \/ Negate \/ Combine \/ Return
  PROVE  TypeOK' /\ Shape'
<1>1. /\ stage = "evaluate" /\ reason = "none" /\ pos =< Len(output) + 1
      /\ tokens = Tokenized(Text) /\ Passed(Text)
  <2>1. stage = "evaluate"
    BY DEF PushNumber, Negate, Combine, Return, Evaluating
  <2> QED
    BY <2>1 DEF Shape
<1>2. /\ pos \in Nat \ {0} /\ output \in Seq(Operators \cup Literals) /\ stack \in Seq(Fractions)
      /\ Len(output) \in Nat /\ Len(stack) \in Nat
  BY DEF TypeOK
<1>3. tokens # <<>>
  BY <1>1, TextTyped, TokenizedTyped DEF Passed
<1>4. ASSUME pos =< Len(output), pos' = pos + 1, stack' \in Seq(Fractions),
             UNCHANGED <<source, stage, reason, tokens, opStack, output, result>>
      PROVE  TypeOK' /\ Shape'
  <2>1. TypeOK'
    BY <1>2, <1>4 DEF TypeOK
  <2>2. Shape'
    BY <1>1, <1>2, <1>3, <1>4 DEF Shape, Text
  <2> QED
    BY <2>1, <2>2
<1>5. ASSUME NEW why \in Reasons, Fail(why) PROVE TypeOK' /\ Shape'
  <2>1. TypeOK'
    BY <1>5 DEF TypeOK, Fail
  <2>2. Shape'
    BY <1>1, <1>3, <1>5 DEF Shape, Text, Fail
  <2> QED
    BY <2>1, <2>2
<1>6. CASE PushNumber
  <2>1. /\ pos =< Len(output) /\ output[pos] \in Literals /\ pos' = pos + 1
        /\ stack' = Append(stack, Number[output[pos]])
        /\ UNCHANGED <<source, stage, reason, tokens, opStack, output, result>>
    BY <1>6 DEF PushNumber, Evaluating
  <2>2. stack' \in Seq(Fractions)
    BY <1>2, <2>1, LeavesAreFractions, AppendFacts
  <2> QED
    BY <1>4, <2>1, <2>2
<1>7. CASE Negate
  <2>1. CASE stack = <<>>
    BY <1>5, <1>7, <2>1 DEF Negate, Reasons
  <2>2. CASE stack # <<>>
    <3>1. /\ pos =< Len(output) /\ pos' = pos + 1
          /\ stack' = Append(Popped(stack), Negated(Top(stack)))
          /\ UNCHANGED <<source, stage, reason, tokens, opStack, output, result>>
      BY <1>7, <2>2 DEF Negate, Evaluating
    <3>2. Popped(stack) \in Seq(Fractions) /\ Negated(Top(stack)) \in Fractions
      BY <1>2, <2>2, PoppedFacts, NegatedIsFraction
    <3>3. stack' \in Seq(Fractions)
      BY <3>1, <3>2, AppendFacts
    <3> QED
      BY <1>4, <3>1, <3>3
  <2> QED
    BY <2>1, <2>2
<1>8. CASE Combine
  <2>1. CASE Len(stack) < 2
    BY <1>5, <1>8, <2>1 DEF Combine, Reasons
  <2>2. CASE Len(stack) >= 2 /\ ByZero(output[pos], Top(stack))
    BY <1>2, <1>5, <1>8, <2>2 DEF Combine, Reasons
  <2>3. CASE Len(stack) >= 2 /\ ~ByZero(output[pos], Top(stack))
    <3>1. /\ pos =< Len(output) /\ pos' = pos + 1 /\ output[pos] \in BinaryOps
          /\ stack' = Append(Popped(Popped(stack)),
                             Apply(output[pos], Top(Popped(stack)), Top(stack)))
          /\ UNCHANGED <<source, stage, reason, tokens, opStack, output, result>>
      BY <1>2, <1>8, <2>3 DEF Combine, Evaluating
    <3>2. stack # <<>>
      BY <1>2, <2>3
    <3>3. Popped(stack) \in Seq(Fractions) /\ Len(Popped(stack)) = Len(stack) - 1 /\ Top(stack) \in Fractions
      BY <1>2, <3>2, PoppedFacts
    <3>4. Popped(stack) # <<>>
      BY <1>2, <2>3, <3>3
    <3>5. Popped(Popped(stack)) \in Seq(Fractions) /\ Top(Popped(stack)) \in Fractions
      BY <3>3, <3>4, PoppedFacts
    <3>6. Apply(output[pos], Top(Popped(stack)), Top(stack)) \in Fractions
      BY <2>3, <3>1, <3>3, <3>5, ApplyIsFraction
    <3>7. stack' \in Seq(Fractions)
      BY <3>1, <3>5, <3>6, AppendFacts
    <3> QED
      BY <1>4, <3>1, <3>7
  <2> QED
    BY <1>2, <2>1, <2>2, <2>3
<1>9. CASE Return
  <2>1. CASE Len(stack) # 1
    BY <1>5, <1>9, <2>1 DEF Return, Reasons
  <2>2. CASE Len(stack) = 1
    <3>1. /\ result' = Rounded(stack[1]) /\ stage' = "done"
          /\ UNCHANGED <<source, reason, tokens, pos, opStack, output, stack>>
      BY <1>9, <2>2 DEF Return
    <3>2. stack[1] \in Fractions
      <4>1. 1 \in 1..Len(stack)
        BY <2>2
      <4> QED
        BY <1>2, <4>1
    <3>3. Rounded(stack[1]) \in Int
      BY <3>2, RoundedIsInteger
    <3>4. TypeOK'
      BY <3>1, <3>3 DEF TypeOK
    <3>5. Shape'
      BY <1>1, <3>1 DEF Shape, Text
    <3> QED
      BY <3>4, <3>5
  <2> QED
    BY <2>1, <2>2
<1> QED
  BY <1>6, <1>7, <1>8, <1>9

\* Every step keeps the types.
LEMMA TypesStep ==
  ASSUME TypeOK, Shape, [Next]_vars
  PROVE  TypeOK' /\ Shape'
<1>1. CASE Read
  BY <1>1, ReadTyped
<1>2. CASE \/ ConvertNumber \/ PopOperator \/ PushOperator \/ OpenParen
           \/ PopToParen \/ CloseParen \/ Drain \/ Converted
  BY <1>2, ConvertTyped
<1>3. CASE PushNumber \/ Negate \/ Combine \/ Return
  BY <1>3, EvaluateTyped
<1>4. CASE UNCHANGED vars
  <2>1. TypeOK'
    BY <1>4 DEF TypeOK, vars
  <2>2. Shape'
    BY <1>4 DEF Shape, Text, vars, Fault
  <2> QED
    BY <2>1, <2>2
<1> QED
  BY <1>1, <1>2, <1>3, <1>4 DEF Next

\* Every formula, well formed or not, leaves the engine in a typed state.
THEOREM FormulasTyped == Spec => []TypeOK
<1>1. Init => TypeOK /\ Shape
  <2> SUFFICES ASSUME Init PROVE TypeOK /\ Shape
    OBVIOUS
  <2>1. TypeOK
    BY DEF Init, TypeOK
  <2>2. Shape
    BY DEF Init, Shape
  <2> QED
    BY <2>1, <2>2
<1>2. TypeOK /\ Shape /\ [Next]_vars => TypeOK' /\ Shape'
  BY TypesStep
<1> QED
  BY <1>1, <1>2, PTL DEF Spec

-----------------------------------------------------------------------------
(* The stack of operators. *)

\* The precedence of an operator.
LEMMA PrecedenceIs ==
  /\ \A op \in Level[1] : Precedence(op) = 1
  /\ \A op \in Level[2] : Precedence(op) = 2
  /\ Precedence("u-") = 3
  /\ \A op \in Operators : /\ Precedence(op) \in 1..3
                           /\ Precedence(op) = 3 => op = "u-"
                           /\ op \in BinaryOps => Precedence(op) \in 1..2
                                                  /\ op \in Level[Precedence(op)]
<1>1. /\ \A op \in {"+", "-"} : Precedence(op) = 1
      /\ \A op \in {"*", "/", "%"} : Precedence(op) = 2
      /\ Precedence("u-") = 3
  BY DEF Precedence
<1>2. Level[1] = {"+", "-"} /\ Level[2] = {"*", "/", "%"}
  BY DEF Level
<1>3. \A op \in Operators : op \in Level[1] \/ op \in Level[2] \/ op = "u-"
  BY <1>2 DEF Operators, BinaryOps
<1>4. "u-" \notin BinaryOps
  BY DEF BinaryOps
<1> QED
  BY <1>1, <1>2, <1>3, <1>4

\* What an action does to the stack of operators.
LEMMA StackMoves ==
  ASSUME TypeOK, [Next]_vars
  PROVE  \/ opStack' = opStack
         \/ opStack # <<>> /\ opStack' = Popped(opStack)
         \/ /\ stage = "convert" /\ pos =< Len(tokens) /\ tokens[pos] \in Operators
            /\ ~Yields(tokens[pos]) /\ opStack' = Append(opStack, tokens[pos])
         \/ /\ stage = "convert" /\ pos =< Len(tokens) /\ tokens[pos] = "("
            /\ opStack' = Append(opStack, "(")
<1>1. CASE Read \/ ConvertNumber \/ PushNumber
  BY <1>1 DEF Read, ConvertNumber, PushNumber
<1>2. CASE Negate
  BY <1>2 DEF Negate, Fail
<1>3. CASE Combine
  BY <1>3 DEF Combine, Fail
<1>4. CASE Return
  BY <1>4 DEF Return, Fail
<1>5. CASE PopOperator
  BY <1>5 DEF PopOperator, PopToOutput, Yields, Topped
<1>6. CASE PopToParen
  BY <1>6 DEF PopToParen, PopToOutput, Topped
<1>7. CASE Drain
  BY <1>7 DEF Drain, PopToOutput, Topped
<1>8. CASE CloseParen
  BY <1>8 DEF CloseParen, Fail
<1>9. CASE Converted
  BY <1>9 DEF Converted, Fail
<1>10. CASE PushOperator
  BY <1>10 DEF PushOperator, PushToken, Reading
<1>11. CASE OpenParen
  BY <1>11 DEF OpenParen, PushToken, Reading
<1>12. CASE UNCHANGED vars
  BY <1>12 DEF vars
<1> QED
  BY <1>1, <1>2, <1>3, <1>4, <1>5, <1>6, <1>7, <1>8, <1>9, <1>10, <1>11, <1>12 DEF Next

\* It stays sorted: an operator is put on a lower one, or a minus sign on another.
LEMMA SortedStep ==
  ASSUME TypeOK, StackSorted, [Next]_vars
  PROVE  StackSorted'
<1>0. opStack \in Seq(Operators \cup {"("}) /\ Len(opStack) \in Nat
  BY DEF TypeOK
<1>1. CASE opStack' = opStack
  BY <1>1 DEF StackSorted
<1>2. CASE opStack # <<>> /\ opStack' = Popped(opStack)
  <2>1. /\ Len(opStack') = Len(opStack) - 1
        /\ \A i \in 1..(Len(opStack) - 1) : opStack'[i] = opStack[i]
    BY <1>0, <1>2, PoppedFacts
  <2>2. \A i \in 1..(Len(opStack') - 1) :
          i \in 1..(Len(opStack) - 1) /\ i + 1 \in 1..(Len(opStack) - 1)
    BY <1>0, <2>1
  <2> QED
    BY <2>1, <2>2 DEF StackSorted
<1>3. ASSUME NEW x \in Operators \cup {"("}, opStack' = Append(opStack, x),
             x = "(" \/ (x \in Operators /\ ~Yields(x))
      PROVE  StackSorted'
  <2>1. /\ Len(opStack') = Len(opStack) + 1
        /\ \A i \in 1..Len(opStack) : opStack'[i] = opStack[i]
        /\ opStack'[Len(opStack) + 1] = x
    BY <1>0, <1>3, AppendFacts
  <2>2. SUFFICES ASSUME NEW i \in 1..(Len(opStack') - 1),
                        opStack'[i] # "(", opStack'[i + 1] # "("
                 PROVE  \/ Precedence(opStack'[i]) < Precedence(opStack'[i + 1])
                        \/ opStack'[i] = "u-" /\ opStack'[i + 1] = "u-"
    BY DEF StackSorted
  <2>3. i \in 1..Len(opStack) /\ i + 1 \in Nat
    BY <1>0, <2>1
  <2>4. CASE i = Len(opStack)
    <3>1. opStack # <<>> /\ Top(opStack) = opStack[i] /\ opStack[i] \in Operators
      BY <1>0, <2>1, <2>2, <2>3, <2>4 DEF Top
    <3>2. x \in Operators /\ (Precedence(opStack[i]) < Precedence(x) \/ x = "u-")
      <4>1. x \in Operators /\ ~Yields(x)
        BY <1>3, <2>1, <2>2, <2>4
      <4>2. Precedence(opStack[i]) \in 1..3 /\ Precedence(x) \in 1..3
        BY <3>1, <4>1, PrecedenceIs
      <4> QED
        BY <3>1, <4>1, <4>2 DEF Yields, Topped
    <3>3. opStack[i] # "u-" => Precedence(opStack[i]) < 3
      BY <3>1, PrecedenceIs
    <3> QED
      BY <2>1, <2>3, <2>4, <3>2, <3>3, PrecedenceIs
  <2>5. CASE i # Len(opStack)
    <3>1. i \in 1..(Len(opStack) - 1) /\ i + 1 \in 1..Len(opStack)
      BY <1>0, <2>3, <2>5
    <3> QED
      BY <2>1, <2>2, <2>3, <3>1 DEF StackSorted
  <2> QED
    BY <2>4, <2>5
<1> QED
  BY <1>1, <1>2, <1>3, StackMoves

\* Between two parentheses the stack rises strictly, but for minus signs.
THEOREM OperatorsSorted == Spec => []StackSorted
<1>1. Init => TypeOK /\ Shape /\ StackSorted
  <2> SUFFICES ASSUME Init PROVE TypeOK /\ Shape /\ StackSorted
    OBVIOUS
  <2>1. TypeOK
    BY DEF Init, TypeOK
  <2>2. Shape
    BY DEF Init, Shape
  <2>3. StackSorted
    BY DEF Init, StackSorted
  <2> QED
    BY <2>1, <2>2, <2>3
<1>2. TypeOK /\ Shape /\ StackSorted /\ [Next]_vars => TypeOK' /\ Shape' /\ StackSorted'
  BY TypesStep, SortedStep
<1> QED
  BY <1>1, <1>2, PTL DEF Spec

-----------------------------------------------------------------------------
(* The parentheses. *)

Opened(o) == Cardinality({i \in 1..Len(o) : o[i] = "("})

\* How a stack's open parentheses are counted.
LEMMA OpenedCounts ==
  ASSUME NEW V, NEW o \in Seq(V)
  PROVE  /\ Opened(o) \in Nat
         /\ o = <<>> => Opened(o) = 0
         /\ \A x \in V : Opened(Append(o, x)) = IF x = "(" THEN Opened(o) + 1 ELSE Opened(o)
         /\ o # <<>> => Opened(Popped(o)) = IF Top(o) = "(" THEN Opened(o) - 1 ELSE Opened(o)
<1> DEFINE A(p) == {i \in 1..Len(p) : p[i] = "("}
<1>1. Len(o) \in Nat
  OBVIOUS
<1>2. ASSUME NEW p \in Seq(V) PROVE IsFiniteSet(A(p)) /\ Cardinality(A(p)) \in Nat
  <2>1. Len(p) \in Nat
    OBVIOUS
  <2>2. IsFiniteSet(1..Len(p))
    BY <2>1, FS_Interval
  <2> QED
    BY <2>2, FS_Subset, FS_CardinalityType
<1>3. ASSUME o = <<>> PROVE Cardinality(A(o)) = 0
  <2>1. A(o) = {}
    BY <1>3
  <2> QED
    BY <2>1, FS_EmptySet
<1>4. ASSUME NEW p \in Seq(V), NEW r \in Seq(V), NEW x, Len(r) = Len(p) + 1,
             \A i \in 1..Len(p) : r[i] = p[i], r[Len(p) + 1] = x
      PROVE  Cardinality(A(r)) = IF x = "(" THEN Cardinality(A(p)) + 1 ELSE Cardinality(A(p))
  <2>0. Len(p) \in Nat
    OBVIOUS
  <2>1. CASE x = "("
    <3>1. A(r) = A(p) \cup {Len(p) + 1} /\ Len(p) + 1 \notin A(p)
      BY <1>4, <2>0, <2>1
    <3> HIDE DEF A
    <3>2. Cardinality(A(p) \cup {Len(p) + 1}) = Cardinality(A(p)) + 1
      BY <1>2, <3>1, FS_AddElement
    <3> QED
      BY <2>1, <3>1, <3>2
  <2>2. CASE x # "("
    <3>1. A(r) = A(p)
      BY <1>4, <2>0, <2>2
    <3> QED
      BY <2>2, <3>1
  <2> QED
    BY <2>1, <2>2
<1>5. ASSUME NEW x \in V
      PROVE  Cardinality(A(Append(o, x))) = IF x = "(" THEN Cardinality(A(o)) + 1
                                                      ELSE Cardinality(A(o))
  <2>1. PICK r \in Seq(V) : r = Append(o, x)
    BY AppendFacts
  <2>2. Len(r) = Len(o) + 1 /\ (\A i \in 1..Len(o) : r[i] = o[i]) /\ r[Len(o) + 1] = x
    BY <2>1, AppendFacts
  <2> HIDE DEF A
  <2>3. Cardinality(A(r)) = IF x = "(" THEN Cardinality(A(o)) + 1 ELSE Cardinality(A(o))
    BY <1>4, <2>2
  <2> QED
    BY <2>1, <2>3
<1>6. ASSUME o # <<>>
      PROVE  Cardinality(A(Popped(o))) = IF Top(o) = "(" THEN Cardinality(A(o)) - 1
                                                        ELSE Cardinality(A(o))
  <2>1. PICK p \in Seq(V) : p = Popped(o)
    BY <1>6, PoppedFacts
  <2>2. /\ Len(p) = Len(o) - 1 /\ \A i \in 1..(Len(o) - 1) : p[i] = o[i]
        /\ Top(o) = o[Len(o)]
    BY <1>6, <2>1, PoppedFacts
  <2>3. /\ Len(o) = Len(p) + 1 /\ \A i \in 1..Len(p) : o[i] = p[i]
        /\ o[Len(p) + 1] = Top(o)
    BY <1>1, <2>2
  <2> HIDE DEF A
  <2>4. Cardinality(A(o)) = IF Top(o) = "(" THEN Cardinality(A(p)) + 1 ELSE Cardinality(A(p))
    BY <1>4, <2>3
  <2>5. Cardinality(A(p)) \in Nat
    BY <1>2
  <2> QED
    BY <2>1, <2>4, <2>5
<1> HIDE DEF A
<1>7. \A p : Opened(p) = Cardinality(A(p))
  BY DEF Opened, A
<1> QED
  BY <1>2, <1>3, <1>5, <1>6, <1>7

\* Every step of the conversion moves the depth and the stack alike, and a
\* text that passed leaves nothing to refuse.
LEMMA ParenthesesStep ==
  ASSUME TypeOK, Shape, ParenthesesSettled, [Next]_vars
  PROVE  ParenthesesSettled'
<1> DEFINE n == Len(tokens)
<1>1. ASSUME stage \in {"convert", "evaluate", "done"}
      PROVE  /\ \A i \in 0..n : Depth(tokens, i) \in 0..MaxNesting
             /\ Depth(tokens, n) = 0
             /\ tokens # <<>> /\ n \in Nat
  <2>1. tokens = Tokenized(Text) /\ Passed(Text)
    BY <1>1 DEF Shape
  <2>2. Text \in Seq((STRING \ Variables) \cup Literals \cup {"-"})
    BY TextTyped
  <2>3. n = Len(Text) /\ n \in Nat /\ \A i \in 0..n : Depth(tokens, i) = Depth(Text, i)
    BY <2>1, <2>2, TokenizedTyped, TokenDepth DEF Passed
  <2>4. n # 0
    BY <2>1, <2>2, <2>3 DEF Passed
  <2>5. n \in 0..n
    BY <2>3
  <2>6. tokens # <<>>
    BY <2>4
  <2> QED
    BY <2>1, <2>3, <2>5, <2>6 DEF Passed
<1>2. /\ opStack \in Seq(Operators \cup {"("}) /\ pos \in Nat \ {0}
  BY DEF TypeOK
<1>3. \A o : Opened(o) = Cardinality({i \in 1..Len(o) : o[i] = "("})
  BY DEF Opened
\* A step that keeps the tokens
<1>4. ASSUME stage = "convert", stage' = "convert", UNCHANGED <<tokens, reason>>,
             Opened(opStack') = Depth(tokens, pos' - 1), pos' - 1 \in 0..n
      PROVE  ParenthesesSettled'
  <2>1. Depth(tokens, pos' - 1) =< MaxNesting
    BY <1>1, <1>4, FormulaAssumption
  <2> QED
    BY <1>3, <1>4, <2>1 DEF ParenthesesSettled
\* or leaves the conversion
<1>5. ASSUME stage' # "convert", UNCHANGED tokens,
             stage' = "failed" /\ reason' = "unbalanced" => tokens = <<>>
      PROVE  ParenthesesSettled'
  BY <1>5 DEF ParenthesesSettled
<1>6. ASSUME stage = "convert"
      PROVE  /\ Opened(opStack) = Depth(tokens, pos - 1)
             /\ pos - 1 \in 0..n /\ Depth(tokens, pos - 1) \in Nat /\ n \in Nat
  <2>1. pos =< n + 1 /\ n \in Nat
    BY <1>1, <1>6 DEF Shape
  <2>2. pos - 1 \in 0..n
    BY <1>2, <2>1
  <2> QED
    BY <1>1, <1>3, <1>6, <2>1, <2>2, FormulaAssumption DEF ParenthesesSettled
<1>7. ASSUME stage = "convert", pos =< n
      PROVE  /\ pos \in 0..n /\ (pos + 1) - 1 = pos
             /\ tokens[pos] = "(" => Depth(tokens, pos) = Depth(tokens, pos - 1) + 1
             /\ tokens[pos] = ")" => Depth(tokens, pos) = Depth(tokens, pos - 1) - 1
             /\ tokens[pos] \notin {"(", ")"} => Depth(tokens, pos) = Depth(tokens, pos - 1)
  <2>1. pos - 1 \in Nat /\ (pos - 1) + 1 = pos /\ pos \in 0..n /\ (pos + 1) - 1 = pos
    BY <1>2, <1>6, <1>7
  <2> QED
    BY <2>1, DepthStep
<1>8. ASSUME Topped(Operators), PopToOutput, stage = "convert" PROVE ParenthesesSettled'
  <2>1. opStack # <<>> /\ Top(opStack) # "("
    BY <1>8, TokenKinds DEF Topped
  <2>2. Opened(Popped(opStack)) = Opened(opStack)
    BY <1>2, <2>1, OpenedCounts
  <2> QED
    BY <1>4, <1>6, <1>8, <2>2 DEF PopToOutput
<1>9. ASSUME PushToken, stage = "convert", pos =< n, tokens[pos] \in Operators \cup {"("}
      PROVE  ParenthesesSettled'
  <2>1. Opened(Append(opStack, tokens[pos])) = IF tokens[pos] = "(" THEN Opened(opStack) + 1
                                                                    ELSE Opened(opStack)
    BY <1>2, <1>9, OpenedCounts
  <2>2. tokens[pos] # ")"
    BY <1>9, TokenKinds
  <2>3. Opened(opStack') = Depth(tokens, pos)
    BY <1>6, <1>7, <1>9, <2>1, <2>2 DEF PushToken
  <2> QED
    BY <1>4, <1>7, <1>9, <2>3 DEF PushToken
<1>10. CASE Read
  <2>1. Depth(tokens', 0) = 0 /\ Opened(<<>>) = 0
    <3>1. <<>> \in Seq(Operators \cup {"("})
      OBVIOUS
    <3>2. Opened(<<>>) = 0
      BY <3>1, OpenedCounts
    <3>3. \A t : Depth(t, 0) = 0
      BY DepthStep
    <3> QED
      BY <3>2, <3>3
  <2>2. CASE reason' = "none"
    <3>1. stage' = "convert" /\ opStack' = <<>> /\ pos' - 1 = 0
      BY <1>10, <2>2 DEF Read, Shape
    <3> QED
      BY <1>3, <2>1, <2>2, <3>1, FormulaAssumption DEF ParenthesesSettled
  <2>3. CASE reason' # "none"
    BY <1>10, <2>3 DEF Read, ParenthesesSettled
  <2> QED
    BY <2>2, <2>3
<1>11. CASE ConvertNumber
  <2>1. tokens[pos] \notin {"(", ")"}
    BY <1>11, TokenKinds DEF ConvertNumber, Reading
  <2> QED
    BY <1>4, <1>6, <1>7, <1>11, <2>1 DEF ConvertNumber, Reading
<1>12. CASE PopOperator
  BY <1>8, <1>12 DEF PopOperator, Yields, Reading
<1>13. CASE PushOperator
  BY <1>9, <1>13 DEF PushOperator, Reading
<1>14. CASE OpenParen
  BY <1>9, <1>14 DEF OpenParen, Reading
<1>15. CASE PopToParen
  BY <1>8, <1>15 DEF PopToParen, Reading
<1>16. CASE CloseParen
  <2>1. stage = "convert" /\ pos =< n /\ tokens[pos] = ")" /\ ~Topped(Operators)
    BY <1>16 DEF CloseParen, Reading
  <2>2. Depth(tokens, pos) = Depth(tokens, pos - 1) - 1 /\ Depth(tokens, pos) \in 0..MaxNesting
    BY <1>1, <1>7, <2>1
  <2>3. opStack # <<>>
    <3>1. opStack = <<>> => Opened(opStack) = 0
      BY <1>2, OpenedCounts
    <3> QED
      BY <1>6, <2>1, <2>2, <3>1, FormulaAssumption
  <2>4. Top(opStack) = "("
    BY <1>2, <2>1, <2>3, PoppedFacts DEF Topped
  <2>5. Opened(Popped(opStack)) = Opened(opStack) - 1
    BY <1>2, <2>3, <2>4, OpenedCounts
  <2> QED
    BY <1>4, <1>6, <1>7, <1>16, <2>1, <2>2, <2>3, <2>5 DEF CloseParen
<1>17. CASE Drain
  BY <1>8, <1>17 DEF Drain, AtEnd
<1>18. CASE Converted
  <2>1. stage = "convert" /\ pos > n /\ ~Topped(Operators)
    BY <1>18 DEF Converted, AtEnd
  <2>2. opStack = <<>>
    <3>1. pos - 1 = n
      BY <1>2, <1>6, <2>1
    <3>2. Opened(opStack) = 0
      BY <1>1, <1>6, <2>1, <3>1
    <3>3. opStack # <<>> => Top(opStack) = "("
      BY <1>2, <2>1, PoppedFacts DEF Topped
    <3>4. opStack # <<>> => Opened(Popped(opStack)) = Opened(opStack) - 1
                            /\ Opened(Popped(opStack)) \in Nat
      BY <1>2, <3>3, OpenedCounts, PoppedFacts
    <3> QED
      BY <3>2, <3>4
  <2> QED
    BY <1>5, <1>18, <2>2 DEF Converted
<1>19. CASE PushNumber
  BY <1>19 DEF PushNumber, Evaluating, ParenthesesSettled
<1>20. CASE Negate
  BY <1>20 DEF Negate, Evaluating, Fail, ParenthesesSettled
<1>21. CASE Combine
  BY <1>21 DEF Combine, Evaluating, Fail, ParenthesesSettled
<1>22. CASE Return
  BY <1>22 DEF Return, Fail, ParenthesesSettled
<1>23. CASE UNCHANGED vars
  BY <1>23 DEF vars, ParenthesesSettled, Depth
<1> QED
  BY <1>10, <1>11, <1>12, <1>13, <1>14, <1>15, <1>16, <1>17, <1>18, <1>19, <1>20, <1>21,
     <1>22, <1>23 DEF Next

\* The check of the text and the conversion agree on the parentheses.
THEOREM ParenthesesAgree == Spec => []ParenthesesSettled
<1>1. Init => TypeOK /\ Shape /\ ParenthesesSettled
  <2> SUFFICES ASSUME Init PROVE TypeOK /\ Shape /\ ParenthesesSettled
    OBVIOUS
  <2>1. TypeOK
    BY DEF Init, TypeOK
  <2>2. Shape
    BY DEF Init, Shape
  <2>3. ParenthesesSettled
    BY DEF Init, ParenthesesSettled
  <2> QED
    BY <2>1, <2>2, <2>3
<1>2. TypeOK /\ Shape /\ ParenthesesSettled /\ [Next]_vars
        => TypeOK' /\ Shape' /\ ParenthesesSettled'
  BY TypesStep, ParenthesesStep
<1> QED
  BY <1>1, <1>2, PTL DEF Spec

-----------------------------------------------------------------------------
(* The value. *)

\* What a token of the notation makes of a stack of numbers, where a division
\* by zero leaves Undefined on it.
Computes(x, v, w) ==
  \/ x \in Literals /\ w = Append(v, Number[x])
  \/ x = "u-" /\ v # <<>> /\ w = Append(Popped(v), Negated(Top(v)))
  \/ /\ x \in BinaryOps /\ Len(v) >= 2
     /\ w = Append(Popped(Popped(v)), ApplyOrFail(x, Top(Popped(v)), Top(v)))

\* The stack before the first token and after every one.
Evaluates(out, E) ==
  /\ E \in [0..Len(out) -> Seq(Values)]
  /\ E[0] = <<>>
  /\ \A k \in 1..Len(out) : Computes(out[k], E[k - 1], E[k])

Leaves(out, v) == \E E : Evaluates(out, E) /\ E[Len(out)] = v

\* It pushes a number,
LEMMA NumberComputed ==
  ASSUME NEW v \in Seq(Values), NEW x \in Literals
  PROVE  \E w \in Seq(Values) :
           /\ Computes(x, v, w)
           /\ Len(w) = Len(v) + 1 /\ Top(w) = Number[x]
           /\ \A i \in 1..Len(v) : w[i] = v[i]
<1>1. Number[x] \in Values
  BY LeavesAreFractions DEF Values
<1>2. PICK w \in Seq(Values) : w = Append(v, Number[x])
  BY <1>1, AppendFacts
<1>3. Len(w) = Len(v) + 1 /\ w[Len(v) + 1] = Number[x] /\ \A i \in 1..Len(v) : w[i] = v[i]
  BY <1>1, <1>2, AppendFacts
<1> QED
  BY <1>2, <1>3 DEF Computes, Top

\* changes the sign of the last,
LEMMA MinusComputed ==
  ASSUME NEW v \in Seq(Values), v # <<>>
  PROVE  \E w \in Seq(Values) :
           /\ Computes("u-", v, w)
           /\ Len(w) = Len(v) /\ Top(w) = Negated(Top(v))
           /\ \A i \in 1..(Len(v) - 1) : w[i] = v[i]
<1>1. Top(v) \in Values /\ Negated(Top(v)) \in Values
  BY PoppedFacts, NegatedIsFraction
<1>2. PICK r \in Seq(Values) : r = Popped(v)
  BY PoppedFacts
<1>3. /\ Len(r) = Len(v) - 1 /\ Len(v) \in Nat \ {0}
      /\ \A i \in 1..(Len(v) - 1) : r[i] = v[i]
  BY <1>2, PoppedFacts
<1>4. PICK w \in Seq(Values) : w = Append(r, Negated(Top(v)))
  BY <1>1, AppendFacts
<1>5. /\ Len(w) = Len(r) + 1 /\ w[Len(r) + 1] = Negated(Top(v))
      /\ \A i \in 1..Len(r) : w[i] = r[i]
  BY <1>1, <1>4, AppendFacts
<1>6. Len(w) = Len(v) /\ w[Len(w)] = Negated(Top(v)) /\ \A i \in 1..(Len(v) - 1) : w[i] = v[i]
  BY <1>3, <1>5
<1> QED
  BY <1>2, <1>4, <1>6 DEF Computes, Top

\* or joins the last two.
LEMMA OperationComputed ==
  ASSUME NEW v \in Seq(Values), NEW x \in BinaryOps, Len(v) >= 2
  PROVE  \E w \in Seq(Values) :
           /\ Computes(x, v, w)
           /\ Len(w) = Len(v) - 1 /\ Top(w) = ApplyOrFail(x, v[Len(v) - 1], v[Len(v)])
           /\ \A i \in 1..(Len(v) - 2) : w[i] = v[i]
<1>1. PICK n \in Nat \ {0, 1} : n = Len(v)
  OBVIOUS
<1>2. v # <<>>
  BY <1>1
<1>3. Top(v) = v[n] /\ Top(v) \in Values
  BY <1>1, <1>2, PoppedFacts
<1>4. PICK r \in Seq(Values) : r = Popped(v)
  BY <1>2, PoppedFacts
<1>5. Len(r) = n - 1 /\ \A i \in 1..(n - 1) : r[i] = v[i]
  BY <1>1, <1>2, <1>4, PoppedFacts
<1>6. r # <<>>
  BY <1>5
<1>7. Top(r) = v[n - 1] /\ Top(r) \in Values
  BY <1>5, <1>6, PoppedFacts
<1>8. PICK p \in Seq(Values) : p = Popped(r)
  BY <1>6, PoppedFacts
<1>9. Len(p) = n - 2 /\ \A i \in 1..(n - 2) : p[i] = v[i]
  <2>1. Len(p) = Len(r) - 1 /\ \A i \in 1..(Len(r) - 1) : p[i] = r[i]
    BY <1>6, <1>8, PoppedFacts
  <2> QED
    BY <1>5, <2>1
<1>10. PICK y \in Values : y = ApplyOrFail(x, v[n - 1], v[n])
  BY <1>3, <1>7, ApplyOrFailTyped
<1>11. PICK w \in Seq(Values) : w = Append(p, y)
  BY AppendFacts
<1>12. Len(w) = Len(p) + 1 /\ w[Len(p) + 1] = y /\ \A i \in 1..Len(p) : w[i] = p[i]
  BY <1>11, AppendFacts
<1>13. Len(w) = n - 1 /\ w[Len(w)] = y /\ \A i \in 1..(n - 2) : w[i] = v[i]
  BY <1>9, <1>12
<1>14. Computes(x, v, w)
  BY <1>1, <1>3, <1>4, <1>7, <1>8, <1>10, <1>11 DEF Computes
<1> QED
  BY <1>1, <1>10, <1>13, <1>14 DEF Top

\* A token that is written computes with what those before it left.
LEMMA LeavesMore ==
  ASSUME NEW V, NEW out \in Seq(V), NEW x \in V, NEW v, Leaves(out, v),
         NEW w \in Seq(Values), Computes(x, v, w)
  PROVE  Leaves(Append(out, x), w)
<1>1. PICK E : Evaluates(out, E) /\ E[Len(out)] = v
  BY DEF Leaves
<1>2. PICK n \in Nat : n = Len(out)
  OBVIOUS
<1>3. PICK more \in Seq(V) : more = Append(out, x)
  BY AppendFacts
<1>4. Len(more) = n + 1 /\ more[n + 1] = x /\ \A i \in 1..n : more[i] = out[i]
  BY <1>2, <1>3, AppendFacts
<1> DEFINE F == [k \in 0..(n + 1) |-> IF k = n + 1 THEN w ELSE E[k]]
<1>5. E \in [0..n -> Seq(Values)] /\ E[0] = <<>> /\ E[n] = v
  BY <1>1, <1>2 DEF Evaluates
<1>6. F \in [0..(n + 1) -> Seq(Values)] /\ F[0] = <<>> /\ F[n + 1] = w
  BY <1>5
<1>7. ASSUME NEW k \in 1..(n + 1) PROVE Computes(more[k], F[k - 1], F[k])
  <2>1. CASE k = n + 1
    <3>1. F[k - 1] = v /\ F[k] = w
      BY <1>5, <2>1
    <3> HIDE DEF F
    <3> QED
      BY <1>4, <2>1, <3>1
  <2>2. CASE k # n + 1
    <3>1. k \in 1..n /\ F[k - 1] = E[k - 1] /\ F[k] = E[k]
      BY <2>2
    <3>2. Computes(out[k], E[k - 1], E[k])
      BY <1>1, <1>2, <3>1 DEF Evaluates
    <3> HIDE DEF F
    <3> QED
      BY <1>4, <3>1, <3>2
  <2> QED
    BY <2>1, <2>2
<1> HIDE DEF F
<1>8. Evaluates(more, F)
  BY <1>4, <1>6, <1>7 DEF Evaluates
<1> QED
  BY <1>3, <1>4, <1>6, <1>8 DEF Leaves

\* A division by zero is never forgotten.
LEMMA UndefinedStays ==
  ASSUME NEW V, NEW out \in Seq(V), NEW E, Evaluates(out, E),
         NEW k \in 0..Len(out), NEW i \in 1..Len(E[k]), E[k][i] = Undefined
  PROVE  \E j \in 1..Len(E[Len(out)]) : E[Len(out)][j] = Undefined
<1> DEFINE Spoilt(v) == \E j \in 1..Len(v) : v[j] = Undefined
           T == {m \in Nat : k + m \in 0..Len(out) => Spoilt(E[k + m])}
<1>0. Len(out) \in Nat /\ \A m \in 0..Len(out) : E[m] \in Seq(Values)
  <2>1. Len(out) \in Nat
    OBVIOUS
  <2>2. E \in [0..Len(out) -> Seq(Values)]
    BY DEF Evaluates
  <2> QED
    BY <2>1, <2>2
<1>1. 0 \in T
  BY <1>0
<1>2. ASSUME NEW v \in Seq(Values), NEW w, NEW x, Computes(x, v, w), Spoilt(v)
      PROVE  Spoilt(w)
  <2>1. PICK j \in 1..Len(v) : v[j] = Undefined
    BY <1>2
  <2>2. Len(v) \in Nat
    OBVIOUS
  <2> HIDE DEF Spoilt
  <2>3. ASSUME NEW u \in Seq(Values), NEW p \in 1..Len(u), u[p] = Undefined PROVE Spoilt(u)
    BY <2>3 DEF Spoilt
  <2>4. CASE x \in Literals /\ w = Append(v, Number[x])
    <3>1. PICK u \in Seq(Values) : u = w /\ Len(u) = Len(v) + 1 /\ \A p \in 1..Len(v) : u[p] = v[p]
      <4>1. Number[x] \in Values
        BY <2>4, LeavesAreFractions DEF Values
      <4>2. /\ Append(v, Number[x]) \in Seq(Values) /\ Len(Append(v, Number[x])) = Len(v) + 1
            /\ \A p \in 1..Len(v) : Append(v, Number[x])[p] = v[p]
        BY <4>1, AppendFacts
      <4> QED
        BY <2>4, <4>2
    <3> QED
      BY <2>1, <2>2, <2>3, <3>1
  <2>5. CASE x = "u-" /\ v # <<>> /\ w = Append(Popped(v), Negated(Top(v)))
    <3>1. PICK u \in Seq(Values) : /\ Computes("u-", v, u)
                                   /\ Len(u) = Len(v) /\ Top(u) = Negated(Top(v))
                                   /\ \A p \in 1..(Len(v) - 1) : u[p] = v[p]
      BY <2>5, MinusComputed
    <3>2. u = w
      BY <2>5, <3>1, TokenKinds DEF Computes, Operators, BinaryOps
    <3>3. CASE j = Len(v)
      BY <2>1, <2>2, <2>3, <3>1, <3>2, <3>3, NegatedIsFraction DEF Top
    <3>4. CASE j # Len(v)
      BY <2>1, <2>2, <2>3, <3>1, <3>2, <3>4
    <3> QED
      BY <3>3, <3>4
  <2>6. CASE /\ x \in BinaryOps /\ Len(v) >= 2
             /\ w = Append(Popped(Popped(v)), ApplyOrFail(x, Top(Popped(v)), Top(v)))
    <3>1. PICK u \in Seq(Values) : /\ Computes(x, v, u) /\ Len(u) = Len(v) - 1
                                   /\ Top(u) = ApplyOrFail(x, v[Len(v) - 1], v[Len(v)])
                                   /\ \A p \in 1..(Len(v) - 2) : u[p] = v[p]
      BY <2>6, OperationComputed
    <3>2. u = w
      BY <2>6, <3>1, TokenKinds DEF Computes, Operators, BinaryOps
    <3>3. CASE j \in 1..(Len(v) - 2)
      BY <2>1, <2>2, <2>3, <3>1, <3>2, <3>3
    <3>4. CASE j \notin 1..(Len(v) - 2)
      <4>1. j = Len(v) - 1 \/ j = Len(v)
        BY <2>2, <2>6, <3>4
      <4>2. v[Len(v) - 1] \in Values /\ v[Len(v)] \in Values
        BY <2>2, <2>6
      <4>3. Undefined \in {v[Len(v) - 1], v[Len(v)]}
        BY <2>1, <4>1
      <4>4. Top(u) = Undefined
        BY <2>6, <3>1, <4>2, <4>3, ApplyOrFailTyped
      <4>5. Len(u) \in 1..Len(u)
        BY <2>2, <2>6, <3>1
      <4>6. u[Len(u)] = Undefined
        BY <4>4 DEF Top
      <4> QED
        BY <2>3, <3>2, <4>5, <4>6
    <3> QED
      BY <3>3, <3>4
  <2> QED
    BY <1>2, <2>4, <2>5, <2>6 DEF Computes
<1> HIDE DEF Spoilt
<1>3. ASSUME NEW m \in Nat, m \in T PROVE m + 1 \in T
  <2>1. SUFFICES ASSUME k + (m + 1) \in 0..Len(out) PROVE Spoilt(E[k + (m + 1)])
    OBVIOUS
  <2>2. /\ k + (m + 1) \in 1..Len(out) /\ (k + (m + 1)) - 1 = k + m /\ k + m \in 0..Len(out)
    BY <1>0, <2>1
  <2>3. Computes(out[k + (m + 1)], E[k + m], E[k + (m + 1)])
    BY <2>2 DEF Evaluates
  <2> QED
    BY <1>0, <1>2, <1>3, <2>2, <2>3
<1>4. Nat \subseteq T
  <2> HIDE DEF T
  <2> QED
    BY <1>1, <1>3, Induction
<1>5. Len(out) - k \in Nat /\ k + (Len(out) - k) = Len(out) /\ Len(out) \in 0..Len(out)
  BY <1>0
<1>6. Spoilt(E[Len(out)])
  BY <1>4, <1>5
<1> QED
  BY <1>6 DEF Spoilt

\* Where the text wants an operand and where an operator.
LEMMA TokenExpected ==
  ASSUME NEW t \in Seq(Symbols), Passed(t), Formed(t, 1, 1, Len(t)), NEW i \in 1..(Len(t) + 1)
  PROVE  /\ i = 1 \/ t[i - 1] \notin Ends =>
              i \in 1..Len(t) /\ Token(t, i) \in Literals \cup {"(", "u-"}
         /\ i # 1 /\ t[i - 1] \in Ends /\ i \in 1..Len(t) =>
              Token(t, i) = t[i] /\ t[i] \in BinaryOps \cup {")"}
<1>0. Len(t) \in Nat \ {0} /\ \A k \in 1..Len(t) : t[k] \in Symbols \ Variables
  BY DEF Passed
<1>1. ASSUME NEW k \in 1..Len(t), t[k] \in Starts, k = 1 \/ t[k - 1] \in BinaryOps \cup {"("}
      PROVE  Token(t, k) \in Literals \cup {"(", "u-"}
  BY <1>0, <1>1 DEF Starts, Token
<1>2. CASE i = 1
  <2>1. 1 \in 1..Len(t) /\ t[1] \in Starts
    BY <1>0 DEF Formed
  <2> QED
    BY <1>1, <1>2, <2>1
<1>3. CASE i # 1 /\ t[i - 1] \notin Ends
  <2>1. i - 1 \in 1..Len(t) /\ t[Len(t)] \in Ends
    BY <1>0, <1>3 DEF Formed
  <2>2. i - 1 \in 1..(Len(t) - 1) /\ (i - 1) + 1 = i /\ i \in 1..Len(t)
    BY <1>0, <1>3, <2>1
  <2>3. t[i] \in Starts
    BY <1>3, <2>2 DEF Formed
  <2>4. t[i - 1] \in BinaryOps \cup {"("}
    BY <1>0, <1>3, <2>1 DEF Symbols, Ends
  <2> QED
    BY <1>1, <1>3, <2>2, <2>3, <2>4
<1>4. CASE i # 1 /\ t[i - 1] \in Ends /\ i \in 1..Len(t)
  <2>1. i - 1 \in 1..(Len(t) - 1) /\ (i - 1) + 1 = i
    BY <1>0, <1>4
  <2>2. t[i] \in BinaryOps \cup {")"}
    BY <1>4, <2>1 DEF Formed
  <2>3. Token(t, i) = t[i]
    BY <1>4, SymbolKinds DEF Token
  <2> QED
    BY <1>4, <2>2, <2>3
<1> QED
  BY <1>2, <1>3, <1>4

\* A token is the symbol of the text, but for a minus sign.
LEMMA TokenIs ==
  ASSUME NEW t, NEW i
  PROVE  /\ Token(t, i) = "u-" => t[i] \in {"-", "u-"}
         /\ Token(t, i) # "u-" => t[i] = Token(t, i)
BY DEF Token

\* How the values of a text are put together.
LEMMA ReadAgain ==
  ASSUME NEW t \in Seq(Symbols), NEW W, Reads(t, W),
         NEW i \in 1..Len(t), NEW j \in 1..Len(t), i =< j
  PROVE  /\ i = j /\ t[i] \in Literals => Number[t[i]] \in W[3][i][j]
         /\ t[i] = "-" => \A a \in W[3][i + 1][j] : Negated(a) \in W[3][i][j]
         /\ t[i] = "(" /\ t[j] = ")" => W[1][i + 1][j - 1] \subseteq W[3][i][j]
         /\ W[3][i][j] \subseteq W[2][i][j] /\ W[2][i][j] \subseteq W[1][i][j]
         /\ \A l \in 1..2 : \A k \in (i + 1)..(j - 1) : t[k] \in Level[l] =>
              \A a \in W[l][i][k - 1], b \in W[l + 1][k + 1][j] :
                ApplyOrFail(t[k], a, b) \in W[l][i][j]
<1>1. i \in Firsts(t) /\ j \in Lasts(t)
  BY DEF Firsts, Lasts
<1>2. /\ \A l \in 1..2 : \A q :
            q \in W[l][i][j] <=> q \in W[l + 1][i][j] \/ Binary(t, W, l, i, j, q)
      /\ \A q : q \in W[3][i][j] <=>
            \/ i = j /\ t[i] \in Literals /\ q = Number[t[i]]
            \/ i = j /\ t[i] \in Variables /\ q = Data[t[i]]
            \/ t[i] = "-" /\ \E a \in W[3][i + 1][j] : q = Negated(a)
            \/ t[i] = "(" /\ t[j] = ")" /\ q \in W[1][i + 1][j - 1]
  BY <1>1 DEF Reads
<1>3. W[3][i][j] \subseteq W[2][i][j] /\ W[2][i][j] \subseteq W[1][i][j]
  <2>1. 1 \in 1..2 /\ 2 \in 1..2 /\ 1 + 1 = 2 /\ 2 + 1 = 3
    OBVIOUS
  <2> QED
    BY <1>2, <2>1
<1>4. ASSUME NEW l \in 1..2, NEW k \in (i + 1)..(j - 1), t[k] \in Level[l],
             NEW a \in W[l][i][k - 1], NEW b \in W[l + 1][k + 1][j]
      PROVE  ApplyOrFail(t[k], a, b) \in W[l][i][j]
  <2>1. Binary(t, W, l, i, j, ApplyOrFail(t[k], a, b))
    BY <1>4 DEF Binary
  <2> QED
    BY <1>2, <2>1
<1> QED
  BY <1>2, <1>3, <1>4

\* What the stack of operators has read: operator x stands at P[x], the c[x]
\* numbers below it are waiting, and the operand that a binary operator has
\* got lies between it and the one before.
Rung(t, W, v, P, c, o, x) ==
  /\ P[x] \in 1..Len(t) /\ Token(t, P[x]) = o[x]
  /\ \/ /\ o[x] \in BinaryOps
        /\ c[x] = c[x - 1] + 1 /\ P[x - 1] + 1 < P[x]
        /\ v[c[x]] \in W[Precedence(o[x])][P[x - 1] + 1][P[x] - 1]
     \/ /\ o[x] \notin BinaryOps
        /\ c[x] = c[x - 1] /\ P[x] = P[x - 1] + 1

Laid(t, W, v, P, c, o) ==
  /\ P \in [Nat -> Nat] /\ c \in [Nat -> Nat] /\ P[0] = 0 /\ c[0] = 0
  /\ \A x, y \in 0..Len(o) : x =< y => c[x] =< c[y]
  /\ \A x \in 1..Len(o) : Rung(t, W, v, P, c, o, x)

\* The level of what the operator on top takes for its operand.
Need(o) == IF o = <<>> \/ Top(o) = "(" THEN 1
           ELSE IF Top(o) \in BinaryOps THEN Precedence(Top(o)) + 1 ELSE 3

\* At i the next operand begins, or the last one has ended, which any operator
\* that follows may take.
Awaited(t, v, P, c, o, i) ==
  /\ i = P[Len(o)] + 1 /\ Len(v) = c[Len(o)]
  /\ i = 1 \/ t[i - 1] \notin Ends

Held(t, W, v, P, c, o, i) ==
  /\ i > P[Len(o)] + 1 /\ Len(v) = c[Len(o)] + 1
  /\ t[i - 1] \in Ends
  /\ \E m \in Need(o)..3 :
       /\ v[Len(v)] \in W[m][P[Len(o)] + 1][i - 1]
       /\ i =< Len(t) /\ Token(t, i) \in BinaryOps => Precedence(Token(t, i)) =< m

Converting(t, W, o, i, v) ==
  /\ t \in Seq(Symbols) /\ Passed(t) /\ Formed(t, 1, 1, Len(t)) /\ Reads(t, W)
  /\ o \in Seq(Operators \cup {"("}) /\ i \in 1..(Len(t) + 1) /\ v \in Seq(Values)
  /\ \E P, c : Laid(t, W, v, P, c, o) /\ (Awaited(t, v, P, c, o, i) \/ Held(t, W, v, P, c, o, i))

\* A stack stays laid when only the numbers above those it waits with change,
LEMMA LaidKept ==
  ASSUME NEW t, NEW W, NEW v, NEW P, NEW c, NEW V, NEW o \in Seq(V), Laid(t, W, v, P, c, o),
         NEW w, \A y \in 1..c[Len(o)] : w[y] = v[y]
  PROVE  Laid(t, W, w, P, c, o)
<1>0. Len(o) \in Nat
  OBVIOUS
<1>1. ASSUME NEW x \in 1..Len(o) PROVE Rung(t, W, w, P, c, o, x)
  <2>1. Rung(t, W, v, P, c, o, x)
    BY DEF Laid
  <2>2. CASE o[x] \in BinaryOps
    <3>1. x - 1 \in Nat /\ x \in 0..Len(o) /\ Len(o) \in 0..Len(o)
      BY <1>0
    <3>2. c[x] = c[x - 1] + 1
      BY <2>1, <2>2 DEF Rung
    <3>3. /\ c \in [Nat -> Nat]
          /\ \A y, z \in 0..Len(o) : y =< z => c[y] =< c[z]
      BY DEF Laid
    <3>4. c[x - 1] \in Nat /\ c[Len(o)] \in Nat /\ c[x] =< c[Len(o)]
      BY <1>0, <3>1, <3>3
    <3>5. c[x] \in 1..c[Len(o)]
      BY <3>2, <3>4
    <3>6. w[c[x]] = v[c[x]]
      BY <3>5
    <3> QED
      BY <2>1, <2>2, <3>6 DEF Rung
  <2>3. CASE o[x] \notin BinaryOps
    BY <2>1, <2>3 DEF Rung
  <2> QED
    BY <2>2, <2>3
<1> QED
  BY <1>1 DEF Laid

\* when its top goes,
LEMMA LaidPopped ==
  ASSUME NEW t, NEW W, NEW v, NEW P, NEW c, NEW V, NEW o \in Seq(V), Laid(t, W, v, P, c, o),
         o # <<>>
  PROVE  Laid(t, W, v, P, c, Popped(o))
<1>1. PICK r \in Seq(V) : r = Popped(o)
  BY PoppedFacts
<1>2. Len(r) = Len(o) - 1 /\ Len(o) \in Nat \ {0} /\ \A x \in 1..Len(r) : r[x] = o[x]
  BY <1>1, PoppedFacts
<1>3. \A x \in 1..Len(r) : x \in 1..Len(o)
  BY <1>2
<1>4. \A x \in 0..Len(r) : x \in 0..Len(o)
  BY <1>2
<1>5. \A x \in 1..Len(r) : Rung(t, W, v, P, c, r, x)
  BY <1>2, <1>3 DEF Laid, Rung
<1> QED
  BY <1>1, <1>4, <1>5 DEF Laid

\* and when one is put on it.
LEMMA LaidPushed ==
  ASSUME NEW t, NEW W, NEW v, NEW P, NEW c, NEW V, NEW o \in Seq(V), Laid(t, W, v, P, c, o),
         NEW i \in 1..Len(t), NEW x \in V, x = Token(t, i),
         \/ x \notin BinaryOps /\ i = P[Len(o)] + 1
         \/ /\ x \in BinaryOps /\ P[Len(o)] + 1 < i
            /\ v[c[Len(o)] + 1] \in W[Precedence(x)][P[Len(o)] + 1][i - 1]
  PROVE  \E Q, d : /\ Laid(t, W, v, Q, d, Append(o, x))
                   /\ Q[Len(o) + 1] = i
                   /\ d[Len(o) + 1] = IF x \in BinaryOps THEN c[Len(o)] + 1 ELSE c[Len(o)]
<1>1. PICK n \in Nat : n = Len(o)
  OBVIOUS
<1>2. PICK r \in Seq(V) : r = Append(o, x)
  BY AppendFacts
<1>3. Len(r) = n + 1 /\ r[n + 1] = x /\ \A y \in 1..n : r[y] = o[y]
  BY <1>1, <1>2, AppendFacts
<1> DEFINE last == IF x \in BinaryOps THEN c[n] + 1 ELSE c[n]
           Q == [P EXCEPT ![n + 1] = i]
           d == [c EXCEPT ![n + 1] = last]
<1>4. P \in [Nat -> Nat] /\ c \in [Nat -> Nat] /\ P[0] = 0 /\ c[0] = 0
  BY DEF Laid
<1>5. \A y, z \in 0..n : y =< z => c[y] =< c[z]
  BY <1>1 DEF Laid
<1>6. \A y \in 1..n : Rung(t, W, v, P, c, o, y)
  BY <1>1 DEF Laid
<1>7. last \in Nat /\ c[n] =< last /\ i \in Nat
  <2>1. c[n] \in Nat
    BY <1>4
  <2>2. i \in Nat
    OBVIOUS
  <2> QED
    BY <2>1, <2>2
<1> HIDE DEF last
<1>8. /\ Q \in [Nat -> Nat] /\ d \in [Nat -> Nat] /\ Q[n + 1] = i /\ d[n + 1] = last
      /\ \A y \in 0..n : Q[y] = P[y] /\ d[y] = c[y]
  <2>1. n + 1 \in Nat /\ \A y \in 0..n : y \in Nat /\ y # n + 1
    OBVIOUS
  <2> QED
    BY <1>4, <1>7, <2>1
<1> HIDE DEF Q, d
<1>9. \A y, z \in 0..(n + 1) : y =< z => d[y] =< d[z]
  <2> SUFFICES ASSUME NEW y \in 0..(n + 1), NEW z \in 0..(n + 1), y =< z PROVE d[y] =< d[z]
    OBVIOUS
  <2>1. CASE z \in 0..n
    <3>1. y \in 0..n
      BY <2>1
    <3>2. c[y] =< c[z]
      BY <1>5, <2>1, <3>1
    <3> QED
      BY <1>8, <2>1, <3>1, <3>2
  <2>2. CASE z = n + 1 /\ y = n + 1
    BY <1>7, <1>8, <2>2
  <2>3. CASE z = n + 1 /\ y \in 0..n
    <3>1. n \in 0..n /\ y =< n /\ y \in Nat
      BY <2>3
    <3>2. c[y] =< c[n]
      BY <1>5, <2>3, <3>1
    <3>3. c[y] \in Nat /\ c[n] \in Nat
      BY <1>4, <3>1
    <3>4. c[y] =< last
      BY <1>7, <3>2, <3>3
    <3> QED
      BY <1>8, <2>3, <3>4
  <2> QED
    BY <2>1, <2>2, <2>3
<1>10. ASSUME NEW y \in 1..(n + 1) PROVE Rung(t, W, v, Q, d, r, y)
  <2>1. CASE y \in 1..n
    <3>1. /\ y - 1 \in 0..n /\ y \in 0..n
      BY <2>1
    <3>2. Q[y] = P[y] /\ Q[y - 1] = P[y - 1] /\ d[y] = c[y] /\ d[y - 1] = c[y - 1] /\ r[y] = o[y]
      BY <1>3, <1>8, <2>1, <3>1
    <3> QED
      BY <1>6, <2>1, <3>2 DEF Rung
  <2>2. CASE y = n + 1
    <3>1. y - 1 = n /\ n \in 0..n
      BY <2>2
    <3>2. /\ Q[y] = i /\ Q[y - 1] = P[n] /\ d[y] = last /\ d[y - 1] = c[n] /\ r[y] = x
      BY <1>3, <1>8, <2>2, <3>1
    <3> QED
      BY <1>1, <3>2 DEF Rung, last
  <2> QED
    BY <2>1, <2>2
<1>11. Laid(t, W, v, Q, d, r)
  <2>1. Q[0] = 0 /\ d[0] = 0
    BY <1>4, <1>8
  <2> QED
    BY <1>3, <1>8, <1>9, <1>10, <2>1 DEF Laid
<1> QED
  BY <1>1, <1>2, <1>8, <1>11 DEF last

\* What comes next tells whether an operand is awaited.
LEMMA Standing ==
  ASSUME NEW t, NEW W, NEW o, NEW i, NEW v, Converting(t, W, o, i, v)
  PROVE  \E P, c :
           /\ Laid(t, W, v, P, c, o) /\ P[Len(o)] \in Nat /\ c[Len(o)] \in Nat
           /\ i \in 1..Len(t) /\ Token(t, i) \in Literals \cup {"(", "u-"} => Awaited(t, v, P, c, o, i)
           /\ i \in 1..Len(t) /\ Token(t, i) \in BinaryOps \cup {")"} => Held(t, W, v, P, c, o, i)
           /\ i = Len(t) + 1 => Held(t, W, v, P, c, o, i)
<1>1. PICK P, c : /\ Laid(t, W, v, P, c, o)
                  /\ Awaited(t, v, P, c, o, i) \/ Held(t, W, v, P, c, o, i)
  BY DEF Converting
<1>2. /\ t \in Seq(Symbols) /\ Passed(t) /\ Formed(t, 1, 1, Len(t))
      /\ i \in 1..(Len(t) + 1) /\ Len(t) \in Nat /\ Len(o) \in Nat
  BY DEF Converting
<1>3. P[Len(o)] \in Nat /\ c[Len(o)] \in Nat
  BY <1>1, <1>2 DEF Laid
<1>4. \A x \in Literals \cup {"(", "u-"} : x \notin BinaryOps \cup {")"}
  BY SymbolKinds DEF BinaryOps
<1>5. CASE Awaited(t, v, P, c, o, i)
  <2>1. i \in 1..Len(t) /\ Token(t, i) \in Literals \cup {"(", "u-"}
    BY <1>2, <1>5, TokenExpected DEF Awaited
  <2> QED
    BY <1>1, <1>2, <1>3, <1>4, <1>5, <2>1
<1>6. CASE Held(t, W, v, P, c, o, i)
  <2>1. i # 1 /\ t[i - 1] \in Ends
    BY <1>2, <1>3, <1>6 DEF Held
  <2>2. i \in 1..Len(t) => Token(t, i) \in BinaryOps \cup {")"}
    BY <1>2, <2>1, TokenExpected
  <2> QED
    BY <1>1, <1>2, <1>3, <1>4, <1>6, <2>2
<1> QED
  BY <1>1, <1>5, <1>6

\* The levels nest.
LEMMA LevelsNest ==
  ASSUME NEW t \in Seq(Symbols), NEW W, Reads(t, W),
         NEW i \in 1..Len(t), NEW j \in 1..Len(t), i =< j,
         NEW l \in 1..3, NEW m \in 1..3, l =< m
  PROVE  W[m][i][j] \subseteq W[l][i][j]
<1>1. W[3][i][j] \subseteq W[2][i][j] /\ W[2][i][j] \subseteq W[1][i][j]
  BY ReadAgain
<1>2. \/ l = m \/ (l = 1 /\ m = 2) \/ (l = 1 /\ m = 3) \/ (l = 2 /\ m = 3)
  OBVIOUS
<1> QED
  BY <1>1, <1>2

\* What an operator needs is a level.
LEMMA NeedTyped ==
  ASSUME NEW o \in Seq(Operators \cup {"("})
  PROVE  Need(o) \in 1..3
<1>1. CASE o = <<>> \/ Top(o) = "("
  BY <1>1 DEF Need
<1>2. CASE o # <<>> /\ Top(o) # "("
  <2>1. Top(o) \in Operators
    <3>1. Top(o) \in Operators \cup {"("}
      BY <1>2, PoppedFacts
    <3> QED
      BY <1>2, <3>1
  <2>2. Top(o) \in BinaryOps => Precedence(Top(o)) \in 1..2
    BY <2>1, PrecedenceIs
  <2>3. Top(o) \in BinaryOps => Precedence(Top(o)) + 1 \in 1..3
    BY <2>2
  <2> QED
    BY <1>2, <2>3 DEF Need
<1> QED
  BY <1>1, <1>2

\* A number is an operand.
LEMMA NumberRead ==
  ASSUME NEW t, NEW W, NEW o, NEW i, NEW v, Converting(t, W, o, i, v),
         i =< Len(t), Token(t, i) \in Literals
  PROVE  \E w \in Seq(Values) : Computes(Token(t, i), v, w) /\ Converting(t, W, o, i + 1, w)
<1>1. /\ t \in Seq(Symbols) /\ Passed(t) /\ Formed(t, 1, 1, Len(t)) /\ Reads(t, W)
      /\ o \in Seq(Operators \cup {"("}) /\ i \in 1..Len(t) /\ v \in Seq(Values)
      /\ Len(t) \in Nat /\ Len(v) \in Nat
  BY DEF Converting
<1>2. PICK P, c : /\ Laid(t, W, v, P, c, o) /\ P[Len(o)] \in Nat /\ c[Len(o)] \in Nat
                  /\ Awaited(t, v, P, c, o, i)
  BY <1>1, Standing
<1>3. PICK w \in Seq(Values) : /\ Computes(Token(t, i), v, w)
                               /\ Len(w) = Len(v) + 1 /\ Top(w) = Number[Token(t, i)]
                               /\ \A y \in 1..Len(v) : w[y] = v[y]
  BY <1>1, NumberComputed
<1>4. t[i] = Token(t, i) /\ t[i] \in Ends
  <2>1. Token(t, i) # "u-"
    BY SymbolKinds
  <2> QED
    BY <2>1, TokenIs DEF Ends
<1>5. Laid(t, W, w, P, c, o)
  <2>1. \A y \in 1..c[Len(o)] : w[y] = v[y]
    BY <1>2, <1>3 DEF Awaited
  <2> QED
    BY <1>1, <1>2, <2>1, LaidKept
<1>6. w[Len(w)] \in W[3][P[Len(o)] + 1][(i + 1) - 1]
  <2>1. Number[t[i]] \in W[3][i][i]
    BY <1>1, <1>4, ReadAgain
  <2>2. P[Len(o)] + 1 = i /\ (i + 1) - 1 = i
    BY <1>1, <1>2 DEF Awaited
  <2>3. w[Len(w)] = Number[t[i]]
    BY <1>3, <1>4 DEF Top
  <2> QED
    BY <2>1, <2>2, <2>3
<1>7. 3 \in Need(o)..3 /\ (i + 1 =< Len(t) /\ Token(t, i + 1) \in BinaryOps
                             => Precedence(Token(t, i + 1)) =< 3)
  <2>1. Token(t, i + 1) \in BinaryOps => Precedence(Token(t, i + 1)) \in 1..3
    BY PrecedenceIs DEF Operators
  <2> QED
    BY <1>1, <2>1, NeedTyped
<1>8. Held(t, W, w, P, c, o, i + 1)
  <2>1. i + 1 > P[Len(o)] + 1 /\ Len(w) = c[Len(o)] + 1 /\ (i + 1) - 1 = i
    BY <1>1, <1>2, <1>3 DEF Awaited
  <2> QED
    BY <1>4, <1>6, <1>7, <2>1 DEF Held
<1>9. i + 1 \in 1..(Len(t) + 1)
  BY <1>1
<1>10. Converting(t, W, o, i + 1, w)
  BY <1>1, <1>5, <1>8, <1>9 DEF Converting
<1> QED
  BY <1>3, <1>10

\* A sign or a parenthesis is put where an operand begins,
LEMMA PrefixRead ==
  ASSUME NEW t, NEW W, NEW o, NEW i, NEW v, Converting(t, W, o, i, v),
         i =< Len(t), Token(t, i) \in {"(", "u-"}
  PROVE  Converting(t, W, Append(o, Token(t, i)), i + 1, v)
<1>1. /\ t \in Seq(Symbols) /\ Passed(t) /\ Formed(t, 1, 1, Len(t)) /\ Reads(t, W)
      /\ o \in Seq(Operators \cup {"("}) /\ i \in 1..Len(t) /\ v \in Seq(Values)
      /\ Len(t) \in Nat /\ Len(v) \in Nat /\ Len(o) \in Nat
  BY DEF Converting
<1>2. PICK P, c : /\ Laid(t, W, v, P, c, o) /\ P[Len(o)] \in Nat /\ c[Len(o)] \in Nat
                  /\ Awaited(t, v, P, c, o, i)
  BY <1>1, Standing
<1>3. PICK x \in Operators \cup {"("} : x = Token(t, i)
  BY DEF Operators
<1>4. x \notin BinaryOps /\ i = P[Len(o)] + 1
  BY <1>2, <1>3 DEF BinaryOps, Awaited
<1>5. PICK Q, d : /\ Laid(t, W, v, Q, d, Append(o, x))
                  /\ Q[Len(o) + 1] = i /\ d[Len(o) + 1] = c[Len(o)]
  BY <1>1, <1>2, <1>3, <1>4, LaidPushed
<1>6. PICK r \in Seq(Operators \cup {"("}) : r = Append(o, x) /\ Len(r) = Len(o) + 1
  BY <1>1, AppendFacts
<1>7. t[i] \notin Ends
  <2>1. t[i] \in {"(", "-", "u-"}
    BY <1>3, TokenIs
  <2>2. "u-" \notin Ends
    BY SymbolKinds DEF Ends
  <2> QED
    BY <2>1, <2>2, SymbolKinds DEF BinaryOps
<1>8. Awaited(t, v, Q, d, r, i + 1)
  <2>1. (i + 1) - 1 = i
    BY <1>1
  <2> QED
    BY <1>2, <1>5, <1>6, <1>7, <2>1 DEF Awaited
<1>9. i + 1 \in 1..(Len(t) + 1)
  BY <1>1
<1> QED
  BY <1>1, <1>3, <1>5, <1>6, <1>8, <1>9 DEF Converting

\* and an operator is put behind an operand of a level that it takes.
LEMMA OperatorRead ==
  ASSUME NEW t, NEW W, NEW o, NEW i, NEW v, Converting(t, W, o, i, v),
         i =< Len(t), Token(t, i) \in BinaryOps
  PROVE  Converting(t, W, Append(o, Token(t, i)), i + 1, v)
<1>1. /\ t \in Seq(Symbols) /\ Passed(t) /\ Formed(t, 1, 1, Len(t)) /\ Reads(t, W)
      /\ o \in Seq(Operators \cup {"("}) /\ i \in 1..Len(t) /\ v \in Seq(Values)
      /\ Len(t) \in Nat /\ Len(v) \in Nat /\ Len(o) \in Nat
  BY DEF Converting
<1>2. PICK P, c : /\ Laid(t, W, v, P, c, o) /\ P[Len(o)] \in Nat /\ c[Len(o)] \in Nat
                  /\ Held(t, W, v, P, c, o, i)
  BY <1>1, Standing
<1>3. PICK x \in Operators \cup {"("} : x = Token(t, i) /\ x \in BinaryOps
  BY DEF Operators
<1>4. Precedence(x) \in 1..2
  BY <1>3, PrecedenceIs DEF Operators
<1>5. P[Len(o)] + 1 < i /\ v[c[Len(o)] + 1] \in W[Precedence(x)][P[Len(o)] + 1][i - 1]
  <2>1. PICK m \in Need(o)..3 : /\ v[Len(v)] \in W[m][P[Len(o)] + 1][i - 1]
                                /\ Precedence(x) =< m
    BY <1>1, <1>2, <1>3 DEF Held
  <2>2. P[Len(o)] + 1 < i /\ Len(v) = c[Len(o)] + 1
    BY <1>1, <1>2 DEF Held
  <2>3. m \in 1..3 /\ Precedence(x) \in 1..3
    BY <1>1, <1>4, NeedTyped
  <2>4. P[Len(o)] + 1 \in 1..Len(t) /\ i - 1 \in 1..Len(t) /\ P[Len(o)] + 1 =< i - 1
    BY <1>1, <1>2, <2>2
  <2> QED
    BY <1>1, <2>1, <2>2, <2>3, <2>4, LevelsNest
<1>6. PICK Q, d : /\ Laid(t, W, v, Q, d, Append(o, x))
                  /\ Q[Len(o) + 1] = i /\ d[Len(o) + 1] = c[Len(o)] + 1
  <2>1. \/ x \notin BinaryOps /\ i = P[Len(o)] + 1
        \/ /\ x \in BinaryOps /\ P[Len(o)] + 1 < i
           /\ v[c[Len(o)] + 1] \in W[Precedence(x)][P[Len(o)] + 1][i - 1]
    BY <1>3, <1>5
  <2>2. \E Q, d : /\ Laid(t, W, v, Q, d, Append(o, x))
                  /\ Q[Len(o) + 1] = i
                  /\ d[Len(o) + 1] = IF x \in BinaryOps THEN c[Len(o)] + 1 ELSE c[Len(o)]
    BY <1>1, <1>2, <1>3, <2>1, LaidPushed
  <2> QED
    BY <1>3, <2>2
<1>7. PICK r \in Seq(Operators \cup {"("}) : r = Append(o, x) /\ Len(r) = Len(o) + 1
  BY <1>1, AppendFacts
<1>8. t[i] \notin Ends
  <2>1. Token(t, i) # "u-"
    BY <1>3 DEF BinaryOps
  <2> QED
    BY <1>3, <2>1, TokenIs, SymbolKinds
<1>9. Awaited(t, v, Q, d, r, i + 1)
  <2>1. (i + 1) - 1 = i /\ Len(v) = c[Len(o)] + 1
    BY <1>1, <1>2 DEF Held
  <2> QED
    BY <1>6, <1>7, <1>8, <2>1 DEF Awaited
<1>10. i + 1 \in 1..(Len(t) + 1)
  BY <1>1
<1> QED
  BY <1>1, <1>3, <1>6, <1>7, <1>9, <1>10 DEF Converting

Sorted(o) ==
  \A i \in 1..(Len(o) - 1) :
    o[i] # "(" /\ o[i + 1] # "(" =>
      \/ Precedence(o[i]) < Precedence(o[i + 1])
      \/ o[i] = "u-" /\ o[i + 1] = "u-"

\* On a sorted stack the operator below can take what the one on top makes.
LEMMA NeedBelow ==
  ASSUME NEW o \in Seq(Operators \cup {"("}), Sorted(o), o # <<>>, Top(o) \in Operators
  PROVE  Need(Popped(o)) =< Precedence(Top(o)) /\ Precedence(Top(o)) \in 1..3
<1>1. PICK n \in Nat \ {0} : n = Len(o)
  OBVIOUS
<1>2. PICK r \in Seq(Operators \cup {"("}) : r = Popped(o)
  BY PoppedFacts
<1>3. Len(r) = n - 1 /\ (\A x \in 1..(n - 1) : r[x] = o[x]) /\ Top(o) = o[n]
  BY <1>1, <1>2, PoppedFacts
<1>4. Precedence(Top(o)) \in 1..3
  BY PrecedenceIs
<1>5. CASE r = <<>> \/ Top(r) = "("
  BY <1>2, <1>4, <1>5 DEF Need
<1>6. CASE r # <<>> /\ Top(r) # "("
  <2>1. Top(r) \in Operators \cup {"("} /\ Top(r) = r[Len(r)] /\ Len(r) \in Nat \ {0}
    BY <1>6, PoppedFacts
  <2>2. Top(r) \in Operators /\ Top(r) = o[n - 1] /\ n - 1 \in 1..(n - 1) /\ (n - 1) + 1 = n
    BY <1>1, <1>3, <1>6, <2>1
  <2>3. o[n] # "("
    BY <1>3, TokenKinds
  <2>4. \/ Precedence(Top(r)) < Precedence(Top(o))
        \/ Top(r) = "u-" /\ Top(o) = "u-"
    BY <1>1, <1>3, <1>6, <2>2, <2>3 DEF Sorted
  <2>5. Precedence(Top(r)) \in 1..3 /\ Precedence("u-") = 3 /\ "u-" \notin BinaryOps
    BY <2>2, PrecedenceIs DEF BinaryOps
  <2>6. CASE Top(r) \in BinaryOps
    <3>1. Need(r) = Precedence(Top(r)) + 1
      BY <1>6, <2>6 DEF Need
    <3>2. Precedence(Top(r)) < Precedence(Top(o))
      BY <2>4, <2>5, <2>6
    <3> QED
      BY <1>2, <1>4, <2>5, <3>1, <3>2
  <2>7. CASE Top(r) \notin BinaryOps
    <3>1. Need(r) = 3
      BY <1>6, <2>7 DEF Need
    <3>2. Top(r) = "u-"
      BY <2>2, <2>7 DEF Operators
    <3>3. Precedence(Top(o)) = 3
      BY <1>4, <2>4, <2>5, <3>2
    <3> QED
      BY <1>2, <1>4, <3>1, <3>3
  <2> QED
    BY <2>6, <2>7
<1> QED
  BY <1>5, <1>6

\* The operator on top joins what has been read, when the one that comes next
\* is of no higher level.
LEMMA OperatorPopped ==
  ASSUME NEW t, NEW W, NEW o, NEW i, NEW v, Converting(t, W, o, i, v), Sorted(o),
         o # <<>>, Top(o) \in Operators,
         i =< Len(t) => \/ Token(t, i) = ")"
                        \/ /\ Token(t, i) \in BinaryOps
                           /\ Precedence(Token(t, i)) =< Precedence(Top(o))
  PROVE  \E w \in Seq(Values) : Computes(Top(o), v, w) /\ Converting(t, W, Popped(o), i, w)
<1>1. /\ t \in Seq(Symbols) /\ Passed(t) /\ Formed(t, 1, 1, Len(t)) /\ Reads(t, W)
      /\ o \in Seq(Operators \cup {"("}) /\ i \in 1..(Len(t) + 1) /\ v \in Seq(Values)
      /\ Len(t) \in Nat /\ Len(v) \in Nat
  BY DEF Converting
<1>2. PICK P, c : /\ Laid(t, W, v, P, c, o) /\ P[Len(o)] \in Nat /\ c[Len(o)] \in Nat
                  /\ Held(t, W, v, P, c, o, i)
  <2>1. i = Len(t) + 1 \/ (i \in 1..Len(t) /\ Token(t, i) \in BinaryOps \cup {")"})
    BY <1>1
  <2> QED
    BY <2>1, Standing
<1>3. PICK n \in Nat \ {0} : n = Len(o)
  BY <1>1
<1>4. PICK r \in Seq(Operators \cup {"("}) : r = Popped(o)
  BY <1>1, PoppedFacts
<1>5. PICK x \in Operators : x = Top(o)
  OBVIOUS
<1>6. Len(r) = n - 1 /\ x = o[n]
  BY <1>1, <1>3, <1>4, <1>5, PoppedFacts
<1>7. P[n] \in Nat /\ c[n] \in Nat /\ P[n - 1] \in Nat /\ c[n - 1] \in Nat
  <2>1. P \in [Nat -> Nat] /\ c \in [Nat -> Nat]
    BY <1>2 DEF Laid
  <2>2. n - 1 \in Nat
    OBVIOUS
  <2> QED
    BY <2>1, <2>2
<1>8. Len(t) \in Nat /\ Len(v) \in Nat /\ i \in Nat /\ i =< Len(t) + 1
  BY <1>1
<1>9. /\ P[n] \in 1..Len(t) /\ Token(t, P[n]) = x
      /\ \/ /\ x \in BinaryOps
            /\ c[n] = c[n - 1] + 1 /\ P[n - 1] + 1 < P[n]
            /\ v[c[n]] \in W[Precedence(x)][P[n - 1] + 1][P[n] - 1]
         \/ /\ x \notin BinaryOps
            /\ c[n] = c[n - 1] /\ P[n] = P[n - 1] + 1
  <2>1. n \in 1..Len(o)
    BY <1>3
  <2> QED
    BY <1>2, <1>6, <2>1 DEF Laid, Rung
<1>10. i > P[n] + 1 /\ Len(v) = c[n] + 1 /\ t[i - 1] \in Ends
  BY <1>2, <1>3 DEF Held
<1>11. PICK m \in Need(o)..3 : v[Len(v)] \in W[m][P[n] + 1][i - 1]
  BY <1>2, <1>3 DEF Held
<1>12. /\ i - 1 \in 1..Len(t) /\ P[n] + 1 \in 1..Len(t) /\ P[n] + 1 =< i - 1
       /\ P[n - 1] + 1 \in 1..Len(t) /\ P[n - 1] + 1 =< i - 1
  <2>1. P[n - 1] + 1 =< P[n] /\ i > P[n] + 1
    BY <1>7, <1>9, <1>10
  <2>2. \A p, q, h, k \in Nat :
          q + 1 =< p /\ k > p + 1 /\ k =< h + 1 =>
            /\ k - 1 \in 1..h /\ p + 1 \in 1..h /\ p + 1 =< k - 1
            /\ q + 1 \in 1..h /\ q + 1 =< k - 1
    OBVIOUS
  <2> QED
    BY <1>7, <1>8, <2>1, <2>2
<1>13. m \in 1..3 /\ Need(o) \in 1..3 /\ Need(o) =< m
  BY <1>1, NeedTyped
<1>14. Need(r) \in 1..3 /\ Need(r) =< Precedence(x) /\ Precedence(x) \in 1..3
  BY <1>1, <1>4, <1>5, NeedBelow, NeedTyped
<1>15. ASSUME NEW w \in Seq(Values), Computes(x, v, w),
              Len(w) = c[n - 1] + 1,
              \A y \in 1..c[n - 1] : w[y] = v[y],
              w[Len(w)] \in W[Precedence(x)][P[n - 1] + 1][i - 1]
       PROVE  Converting(t, W, r, i, w)
  <2>1. Laid(t, W, w, P, c, r)
    <3>1. Laid(t, W, v, P, c, r)
      BY <1>1, <1>2, <1>4, LaidPopped
    <3>2. \A y \in 1..c[Len(r)] : w[y] = v[y]
      BY <1>6, <1>15
    <3> QED
      BY <3>1, <3>2, LaidKept
  <2>2. Precedence(x) \in Need(r)..3
    BY <1>14
  <2>3. i =< Len(t) /\ Token(t, i) \in BinaryOps => Precedence(Token(t, i)) =< Precedence(x)
    BY <1>5, SymbolKinds
  <2>4. i > P[n - 1] + 1
    BY <1>7, <1>12, <1>8
  <2>5. Held(t, W, w, P, c, r, i)
    BY <1>6, <1>10, <1>15, <2>2, <2>3, <2>4 DEF Held
  <2> QED
    BY <1>1, <2>1, <2>5 DEF Converting
<1>16. CASE x \in BinaryOps
  <2>1. /\ c[n] = c[n - 1] + 1 /\ P[n - 1] + 1 < P[n]
        /\ v[c[n]] \in W[Precedence(x)][P[n - 1] + 1][P[n] - 1]
    BY <1>9, <1>16
  <2>2. Len(v) >= 2 /\ Len(v) - 1 = c[n] /\ Len(v) - 1 = c[n - 1] + 1 /\ Len(v) - 2 = c[n - 1]
    <3>1. PICK h, p, q \in Nat : h = Len(v) /\ p = c[n] /\ q = c[n - 1]
      BY <1>7, <1>8
    <3>2. h = p + 1 /\ p = q + 1
      BY <1>10, <2>1, <3>1
    <3>3. h >= 2 /\ h - 1 = p /\ h - 1 = q + 1 /\ h - 2 = q
      BY <3>2
    <3> QED
      BY <3>1, <3>3
  <2>3. PICK w \in Seq(Values) : /\ Computes(x, v, w) /\ Len(w) = Len(v) - 1
                                 /\ Top(w) = ApplyOrFail(x, v[Len(v) - 1], v[Len(v)])
                                 /\ \A y \in 1..(Len(v) - 2) : w[y] = v[y]
    BY <1>1, <1>16, <2>2, OperationComputed
  <2>4. Precedence(x) \in 1..2 /\ x \in Level[Precedence(x)]
    BY <1>16, PrecedenceIs
  <2>5. v[Len(v)] \in W[Precedence(x) + 1][P[n] + 1][i - 1]
    <3>1. Need(o) = Precedence(x) + 1
      BY <1>5, <1>16, SymbolKinds DEF Need
    <3>2. Precedence(x) + 1 \in 1..3 /\ Precedence(x) + 1 =< m
      BY <1>13, <2>4, <3>1
    <3>3. W[m][P[n] + 1][i - 1] \subseteq W[Precedence(x) + 1][P[n] + 1][i - 1]
      BY <1>1, <1>12, <1>13, <3>2, LevelsNest
    <3> QED
      BY <1>11, <3>3
  <2>6. t[P[n]] = x
    <3>1. Token(t, P[n]) # "u-"
      BY <1>9, <1>16 DEF BinaryOps
    <3> QED
      BY <1>9, <3>1, TokenIs
  <2>7. ApplyOrFail(x, v[c[n]], v[Len(v)]) \in W[Precedence(x)][P[n - 1] + 1][i - 1]
    <3>1. P[n] \in ((P[n - 1] + 1) + 1)..((i - 1) - 1)
      <4>1. \A p, q, k \in Nat : q + 1 < p /\ k > p + 1 => p \in ((q + 1) + 1)..((k - 1) - 1)
        OBVIOUS
      <4> QED
        BY <1>7, <1>10, <1>8, <2>1, <4>1
    <3>2. \A l \in 1..2 : \A k \in ((P[n - 1] + 1) + 1)..((i - 1) - 1) : t[k] \in Level[l] =>
              \A a \in W[l][P[n - 1] + 1][k - 1], b \in W[l + 1][k + 1][i - 1] :
                ApplyOrFail(t[k], a, b) \in W[l][P[n - 1] + 1][i - 1]
      BY <1>1, <1>12, ReadAgain
    <3>3. t[P[n]] \in Level[Precedence(x)] =>
              \A a \in W[Precedence(x)][P[n - 1] + 1][P[n] - 1],
                 b \in W[Precedence(x) + 1][P[n] + 1][i - 1] :
                ApplyOrFail(t[P[n]], a, b) \in W[Precedence(x)][P[n - 1] + 1][i - 1]
      BY <2>4, <3>1, <3>2
    <3> QED
      BY <2>1, <2>4, <2>5, <2>6, <3>3
  <2>8. w[Len(w)] \in W[Precedence(x)][P[n - 1] + 1][i - 1]
    BY <2>2, <2>3, <2>7 DEF Top
  <2>9. Converting(t, W, r, i, w)
    BY <1>15, <2>2, <2>3, <2>8
  <2> QED
    BY <1>4, <1>5, <2>3, <2>9
<1>17. CASE x \notin BinaryOps
  <2>1. x = "u-" /\ c[n] = c[n - 1] /\ P[n] = P[n - 1] + 1
    BY <1>9, <1>17 DEF Operators
  <2>2. v # <<>> /\ Len(v) - 1 = c[n - 1]
    BY <1>1, <1>7, <1>10, <2>1
  <2>3. PICK w \in Seq(Values) : /\ Computes("u-", v, w) /\ Len(w) = Len(v)
                                 /\ Top(w) = Negated(Top(v))
                                 /\ \A y \in 1..(Len(v) - 1) : w[y] = v[y]
    BY <1>1, <2>2, MinusComputed
  <2>4. Need(o) = 3 /\ Precedence(x) = 3
    BY <1>5, <2>1, PrecedenceIs DEF Need, BinaryOps
  <2>5. v[Len(v)] \in W[3][P[n] + 1][i - 1]
    <3>1. m = 3
      BY <1>13, <2>4
    <3> QED
      BY <1>11, <3>1
  <2>6. t[P[n]] = "-"
    <3>1. "u-" \notin Symbols /\ t[P[n]] \in Symbols
      BY <1>1, <1>9, SymbolKinds DEF Symbols, BinaryOps
    <3>2. t[P[n]] \in {"-", "u-"}
      BY <1>9, <2>1, TokenIs
    <3> QED
      BY <3>1, <3>2
  <2>7. Negated(v[Len(v)]) \in W[3][P[n]][i - 1]
    <3>1. P[n] =< i - 1
      BY <1>1, <1>7, <1>10
    <3>2. \A a \in W[3][P[n] + 1][i - 1] : Negated(a) \in W[3][P[n]][i - 1]
      BY <1>1, <1>9, <1>12, <2>6, <3>1, ReadAgain
    <3> QED
      BY <2>5, <3>2
  <2>8. w[Len(w)] \in W[Precedence(x)][P[n - 1] + 1][i - 1]
    BY <2>1, <2>3, <2>4, <2>7 DEF Top
  <2>9. Len(w) = c[n - 1] + 1
    BY <1>10, <2>1, <2>3
  <2>10. Converting(t, W, r, i, w)
    BY <1>15, <2>1, <2>2, <2>3, <2>8, <2>9
  <2> QED
    BY <1>4, <1>5, <2>1, <2>3, <2>10
<1> QED
  BY <1>16, <1>17

\* What stands in parentheses is an operand.
LEMMA ParenthesisClosed ==
  ASSUME NEW t, NEW W, NEW o, NEW i, NEW v, Converting(t, W, o, i, v),
         o # <<>>, Top(o) = "(", i =< Len(t), Token(t, i) = ")"
  PROVE  Converting(t, W, Popped(o), i + 1, v)
<1>1. /\ t \in Seq(Symbols) /\ Passed(t) /\ Formed(t, 1, 1, Len(t)) /\ Reads(t, W)
      /\ o \in Seq(Operators \cup {"("}) /\ i \in 1..Len(t) /\ v \in Seq(Values)
      /\ Len(t) \in Nat /\ Len(v) \in Nat
  BY DEF Converting
<1>2. PICK P, c : /\ Laid(t, W, v, P, c, o) /\ P[Len(o)] \in Nat /\ c[Len(o)] \in Nat
                  /\ Held(t, W, v, P, c, o, i)
  BY <1>1, Standing
<1>3. PICK n \in Nat \ {0} : n = Len(o)
  BY <1>1
<1>4. PICK r \in Seq(Operators \cup {"("}) : r = Popped(o)
  BY <1>1, PoppedFacts
<1>5. Len(r) = n - 1 /\ o[n] = "("
  BY <1>1, <1>3, <1>4, PoppedFacts
<1>6. P[n] \in Nat /\ c[n] \in Nat /\ P[n - 1] \in Nat /\ c[n - 1] \in Nat
  <2>1. P \in [Nat -> Nat] /\ c \in [Nat -> Nat]
    BY <1>2 DEF Laid
  <2>2. n - 1 \in Nat
    OBVIOUS
  <2> QED
    BY <2>1, <2>2
<1>7. Len(t) \in Nat /\ Len(v) \in Nat /\ i \in Nat /\ i =< Len(t)
  BY <1>1
<1>8. /\ P[n] \in 1..Len(t) /\ Token(t, P[n]) = "("
      /\ c[n] = c[n - 1] /\ P[n] = P[n - 1] + 1
  <2>1. n \in 1..Len(o)
    BY <1>3
  <2>2. "(" \notin BinaryOps
    BY DEF BinaryOps
  <2> QED
    BY <1>2, <1>5, <2>1, <2>2 DEF Laid, Rung
<1>9. i > P[n] + 1 /\ Len(v) = c[n] + 1
  BY <1>2, <1>3 DEF Held
<1>10. PICK m \in Need(o)..3 : v[Len(v)] \in W[m][P[n] + 1][i - 1]
  BY <1>2, <1>3 DEF Held
<1>11. t[P[n]] = "(" /\ t[i] = ")" /\ t[i] \in Ends
  <2>1. Token(t, P[n]) # "u-" /\ Token(t, i) # "u-"
    BY <1>8
  <2> QED
    BY <1>8, <2>1, TokenIs DEF Ends
<1>12. v[Len(v)] \in W[1][P[n] + 1][i - 1]
  <2>1. m \in 1..3 /\ 1 =< m /\ 1 \in 1..3
    <3>1. Need(o) \in 1..3
      BY <1>1, NeedTyped
    <3>2. \A k \in 1..3 : \A h \in k..3 : h \in 1..3 /\ 1 =< h
      OBVIOUS
    <3> QED
      BY <3>1, <3>2
  <2>2. P[n] + 1 \in 1..Len(t) /\ i - 1 \in 1..Len(t) /\ P[n] + 1 =< i - 1
    <3>1. \A p, h, k \in Nat :
            k > p + 1 /\ k =< h => p + 1 \in 1..h /\ k - 1 \in 1..h /\ p + 1 =< k - 1
      OBVIOUS
    <3> QED
      BY <1>6, <1>7, <1>9, <3>1
  <2>3. W[m][P[n] + 1][i - 1] \subseteq W[1][P[n] + 1][i - 1]
    BY <1>1, <2>1, <2>2, LevelsNest
  <2> QED
    BY <1>10, <2>3
<1>13. v[Len(v)] \in W[3][P[n]][i]
  <2>1. P[n] =< i
    BY <1>1, <1>6, <1>9
  <2>2. W[1][P[n] + 1][i - 1] \subseteq W[3][P[n]][i]
    BY <1>1, <1>8, <1>11, <2>1, ReadAgain
  <2> QED
    BY <1>12, <2>2
<1>14. 3 \in Need(r)..3 /\ (i + 1 =< Len(t) /\ Token(t, i + 1) \in BinaryOps
                              => Precedence(Token(t, i + 1)) =< 3)
  <2>1. Token(t, i + 1) \in BinaryOps => Precedence(Token(t, i + 1)) \in 1..3
    BY PrecedenceIs DEF Operators
  <2> QED
    BY <2>1, NeedTyped
<1>15. Held(t, W, v, P, c, r, i + 1)
  <2>1. i + 1 > P[n - 1] + 1 /\ Len(v) = c[n - 1] + 1 /\ (i + 1) - 1 = i
    BY <1>1, <1>6, <1>8, <1>9
  <2> QED
    BY <1>5, <1>8, <1>11, <1>13, <1>14, <2>1 DEF Held
<1>16. Laid(t, W, v, P, c, r)
  BY <1>1, <1>2, <1>4, LaidPopped
<1>17. i + 1 \in 1..(Len(t) + 1)
  BY <1>1
<1> QED
  BY <1>1, <1>4, <1>15, <1>16, <1>17 DEF Converting

\* The conversion begins with nothing read.
LEMMA Begun ==
  ASSUME NEW t \in Seq(Symbols), Passed(t), Formed(t, 1, 1, Len(t)), NEW W, Reads(t, W)
  PROVE  Leaves(<<>>, <<>>) /\ Converting(t, W, <<>>, 1, <<>>)
<1>1. Leaves(<<>>, <<>>)
  <2> DEFINE E == [k \in 0..0 |-> <<>>]
  <2>1. Len(<<>>) = 0 /\ <<>> \in Seq(Values) /\ E[0] = <<>>
    OBVIOUS
  <2>2. E \in [0..0 -> Seq(Values)]
    BY <2>1
  <2>3. \A k \in 1..0 : FALSE
    OBVIOUS
  <2> HIDE DEF E
  <2>4. Evaluates(<<>>, E)
    BY <2>1, <2>2, <2>3 DEF Evaluates
  <2> QED
    BY <2>1, <2>4 DEF Leaves
<1>2. Converting(t, W, <<>>, 1, <<>>)
  <2> DEFINE Z == [x \in Nat |-> 0]
  <2>1. /\ <<>> \in Seq(Operators \cup {"("}) /\ <<>> \in Seq(Values) /\ Len(<<>>) = 0
        /\ Z \in [Nat -> Nat] /\ Z[0] = 0
    OBVIOUS
  <2>2. (\A x \in 1..0 : FALSE) /\ (\A x \in 0..0 : x = 0)
    OBVIOUS
  <2> HIDE DEF Z
  <2>3. Laid(t, W, <<>>, Z, Z, <<>>)
    BY <2>1, <2>2 DEF Laid
  <2>4. Awaited(t, <<>>, Z, Z, <<>>, 1)
    BY <2>1 DEF Awaited
  <2>5. 1 \in 1..(Len(t) + 1)
    OBVIOUS
  <2> QED
    BY <2>1, <2>3, <2>4, <2>5 DEF Converting
<1> QED
  BY <1>1, <1>2

\* The tokens are those of the text that passed.
LEMMA TokensOfText ==
  ASSUME TypeOK, Shape, stage = "convert"
  PROVE  /\ Text \in Seq(Symbols) /\ Passed(Text) /\ Len(Text) \in Nat
         /\ Len(tokens) = Len(Text) /\ tokens # <<>>
         /\ \A i \in 1..Len(Text) : tokens[i] = Token(Text, i)
         /\ pos \in 1..(Len(Text) + 1)
<1>1. tokens = Tokenized(Text) /\ Passed(Text) /\ pos =< Len(tokens) + 1
  BY DEF Shape
<1>2. PICK C : Text \in Seq(C)
  BY TextTyped
<1>3. Len(tokens) = Len(Text) /\ \A i \in 1..Len(Text) : tokens[i] = Token(Text, i)
  BY <1>1, <1>2, TokenizedTyped DEF Passed
<1>4. Text \in Seq(Symbols) /\ Len(Text) \in Nat
  BY <1>1, <1>2 DEF Passed
<1>5. tokens # <<>>
  <2>1. Len(Text) # 0
    BY <1>1, <1>2 DEF Passed
  <2> QED
    BY <1>3, <2>1
<1>6. pos \in Nat \ {0}
  BY DEF TypeOK
<1> QED
  BY <1>1, <1>3, <1>4, <1>5, <1>6

Table(W) == Reads(Text, W) /\ Meaning(Text) = W[1][1][Len(Text)]

\* An expression is written as one in its text, and means what the text does.
LEMMA TextMeans ==
  ASSUME TypeOK, Meaning(source) # {}
  PROVE  /\ \E W : Table(W)
         /\ \A W : Table(W) => /\ Formed(Text, 1, 1, Len(Text))
                               /\ W[1][1][Len(Text)] = Meaning(source)
<1>1. PICK C : Text \in Seq(C)
  BY TextTyped
<1>2. source \in Seq(STRING)
  BY TextTyped
<1>3. \E W : Table(W)
  BY <1>1, MeaningIsRead DEF Table
<1>4. Meaning(source) \subseteq Meaning(Text)
  BY <1>2, MeaningPrinted DEF Text
<1>5. Meaning(Text) = Meaning(source)
  <2>1. PICK q : q \in Meaning(source)
    OBVIOUS
  <2>2. \A r \in Meaning(Text) : r = q
    BY <1>1, <1>4, <2>1, MeaningIsUnique
  <2> QED
    BY <1>4, <2>1, <2>2
<1>6. ASSUME NEW W, Table(W) PROVE Formed(Text, 1, 1, Len(Text))
  <2>1. 1 \in Firsts(Text) /\ Len(Text) \in Lasts(Text) /\ 1 \in 1..3
    BY <1>1 DEF Firsts, Lasts
  <2>2. Reads(Text, W) /\ W[1][1][Len(Text)] # {}
    BY <1>5, <1>6 DEF Table
  <2> QED
    BY <1>1, <2>1, <2>2, ReadIsFormed
<1> QED
  BY <1>3, <1>5, <1>6 DEF Table

\* What the notation written so far leaves is what has been read, and the
\* whole of it leaves the meaning of the formula.
Valued ==
  Meaning(source) # {} =>
    /\ stage = "convert" =>
         \A W : Table(W) =>
           \E v : Leaves(output, v) /\ Converting(Text, W, opStack, pos, v)
    /\ stage = "evaluate" =>
         \E E : /\ Evaluates(output, E) /\ E[pos - 1] = stack
                /\ \E q \in Meaning(source) : E[Len(output)] = <<q>>

\* Reading the text begins the conversion,
LEMMA ReadValued ==
  ASSUME TypeOK, Shape, Read
  PROVE  Valued' /\ ValueIsArithmetic'
<1>1. /\ stage = "read" /\ pos = 1 /\ opStack = <<>> /\ output = <<>>
      /\ reason' = Fault(Text) /\ stage' = IF reason' = "none" THEN "convert" ELSE "failed"
      /\ UNCHANGED <<source, pos, opStack, output, stack, result>>
  BY DEF Read, Shape, Text
<1>2. source \in Seq(STRING) /\ Text' = Text
  BY <1>1, TextTyped DEF Text
<1>3. CASE Meaning(source) = {}
  BY <1>1, <1>3 DEF Valued, ValueIsArithmetic
<1>4. CASE Meaning(source) # {}
  <2>1. CASE reason' = "none"
    <3>1. Passed(Text) /\ Text \in Seq(Symbols)
      <4>1. PICK C : Text \in Seq(C)
        BY TextTyped
      <4>2. Passed(Text)
        BY <1>1, <2>1, <4>1, FaultlessPassed
      <4> QED
        BY <4>1, <4>2 DEF Passed
    <3>2. ASSUME NEW W, Table(W)
          PROVE  Leaves(<<>>, <<>>) /\ Converting(Text, W, <<>>, 1, <<>>)
      BY <1>4, <3>1, <3>2, TextMeans, Begun DEF Table
    <3>3. Valued'
      BY <1>1, <1>2, <2>1, <3>2 DEF Valued, Table
    <3> QED
      BY <1>1, <2>1, <3>3 DEF ValueIsArithmetic
  <2>2. CASE reason' # "none"
    <3>1. reason' \in {"too long", "too deep"}
      BY <1>1, <1>2, <1>4, <2>2, FaultFound, ExpressionPasses DEF Text
    <3> QED
      BY <1>1, <2>2, <3>1 DEF Valued, ValueIsArithmetic
  <2> QED
    BY <2>1, <2>2
<1> QED
  BY <1>3, <1>4

\* which writes one token after the other
LEMMA ConvertValued ==
  ASSUME TypeOK, Shape, StackSorted, ParenthesesSettled', Valued, stage = "convert",
         Meaning(source) # {},
         \/ ConvertNumber \/ PopOperator \/ PushOperator \/ OpenParen
         \/ PopToParen \/ CloseParen \/ Drain \/ Converted
  PROVE  Valued' /\ ValueIsArithmetic'
<1>1. /\ Text \in Seq(Symbols) /\ Passed(Text) /\ Len(Text) \in Nat
      /\ Len(tokens) = Len(Text) /\ tokens # <<>>
      /\ \A i \in 1..Len(Text) : tokens[i] = Token(Text, i)
      /\ pos \in 1..(Len(Text) + 1)
  BY TokensOfText
<1>2. /\ opStack \in Seq(Operators \cup {"("}) /\ output \in Seq(Operators \cup Literals)
      /\ Sorted(opStack) /\ pos \in Nat
  BY DEF TypeOK, StackSorted, Sorted
<1>3. UNCHANGED <<source, tokens>> /\ Text' = Text
  BY DEF ConvertNumber, PopOperator, PushOperator, OpenParen, PopToParen, CloseParen, Drain,
         Converted, PopToOutput, PushToken, Fail, Text
<1>4. stage' # "failed"
  <2>1. stage' = "failed" => reason' = "unbalanced"
    BY DEF ConvertNumber, PopOperator, PushOperator, OpenParen, PopToParen, CloseParen, Drain,
           Converted, PopToOutput, PushToken, Fail
  <2> QED
    BY <1>1, <1>3, <2>1 DEF ParenthesesSettled
<1>5. ASSUME stage' = "convert",
             \A W : Table(W) => \E v : Leaves(output', v) /\ Converting(Text, W, opStack', pos', v)
      PROVE  Valued' /\ ValueIsArithmetic'
  <2>1. \A W : Table(W)' <=> Table(W)
    BY <1>3 DEF Table
  <2>2. Valued'
    BY <1>3, <1>5, <2>1 DEF Valued
  <2> QED
    BY <1>5, <2>2 DEF ValueIsArithmetic
<1>6. ASSUME NEW W, Table(W)
      PROVE  \E v \in Seq(Values) : Leaves(output, v) /\ Converting(Text, W, opStack, pos, v)
  BY <1>6 DEF Valued, Converting
\* A token is written,
<1>7. ASSUME stage' = "convert", NEW x \in Operators \cup Literals, output' = Append(output, x),
             \A W, v : Table(W) /\ Converting(Text, W, opStack, pos, v) =>
               \E w \in Seq(Values) : Computes(x, v, w) /\ Converting(Text, W, opStack', pos', w)
      PROVE  Valued' /\ ValueIsArithmetic'
  <2>1. ASSUME NEW W, Table(W)
        PROVE  \E w : Leaves(output', w) /\ Converting(Text, W, opStack', pos', w)
    <3>1. PICK v \in Seq(Values) : Leaves(output, v) /\ Converting(Text, W, opStack, pos, v)
      BY <1>6, <2>1
    <3>2. PICK w \in Seq(Values) : Computes(x, v, w) /\ Converting(Text, W, opStack', pos', w)
      BY <1>7, <2>1, <3>1
    <3>3. Leaves(Append(output, x), w)
      BY <1>2, <3>1, <3>2, LeavesMore
    <3> QED
      BY <1>7, <3>2, <3>3
  <2> QED
    BY <1>5, <1>7, <2>1
\* or none is.
<1>8. ASSUME stage' = "convert", output' = output,
             \A W, v : Table(W) /\ Converting(Text, W, opStack, pos, v) =>
               Converting(Text, W, opStack', pos', v)
      PROVE  Valued' /\ ValueIsArithmetic'
  BY <1>5, <1>6, <1>8
<1>9. pos =< Len(tokens) => tokens[pos] = Token(Text, pos) /\ pos =< Len(Text)
  BY <1>1, <1>2
<1>10. ASSUME Topped(Operators), PopToOutput,
              pos =< Len(Text) => \/ Token(Text, pos) = ")"
                                  \/ /\ Token(Text, pos) \in BinaryOps
                                     /\ Precedence(Token(Text, pos)) =< Precedence(Top(opStack))
       PROVE  Valued' /\ ValueIsArithmetic'
  <2>1. /\ opStack # <<>> /\ Top(opStack) \in Operators
        /\ output' = Append(output, Top(opStack)) /\ opStack' = Popped(opStack)
        /\ pos' = pos /\ stage' = "convert"
    BY <1>10 DEF Topped, PopToOutput
  <2>2. ASSUME NEW W, NEW v, Converting(Text, W, opStack, pos, v)
        PROVE  \E w \in Seq(Values) : /\ Computes(Top(opStack), v, w)
                                      /\ Converting(Text, W, Popped(opStack), pos, w)
    BY <1>2, <1>10, <2>1, <2>2, OperatorPopped
  <2> QED
    BY <1>7, <2>1, <2>2
<1>11. CASE ConvertNumber
  <2>1. /\ pos =< Len(tokens) /\ tokens[pos] \in Literals
        /\ output' = Append(output, tokens[pos]) /\ pos' = pos + 1
        /\ opStack' = opStack /\ stage' = "convert"
    BY <1>11 DEF ConvertNumber, Reading
  <2>2. ASSUME NEW W, NEW v, Converting(Text, W, opStack, pos, v)
        PROVE  \E w \in Seq(Values) : /\ Computes(tokens[pos], v, w)
                                      /\ Converting(Text, W, opStack, pos + 1, w)
    BY <1>9, <2>1, <2>2, NumberRead
  <2> QED
    BY <1>7, <2>1, <2>2
<1>12. CASE PopOperator
  <2>1. /\ pos =< Len(tokens) /\ tokens[pos] \in Operators /\ tokens[pos] # "u-"
        /\ Topped(Operators) /\ Precedence(Top(opStack)) >= Precedence(tokens[pos])
        /\ PopToOutput
    BY <1>12 DEF PopOperator, Reading, Yields
  <2>2. tokens[pos] \in BinaryOps
    BY <2>1 DEF Operators
  <2>3. Precedence(Top(opStack)) \in 1..3 /\ Precedence(tokens[pos]) \in 1..3
    BY <2>1, PrecedenceIs DEF Topped
  <2> QED
    BY <1>9, <1>10, <2>1, <2>2, <2>3
<1>13. CASE PushOperator
  <2>1. /\ pos =< Len(tokens) /\ tokens[pos] \in Operators
        /\ opStack' = Append(opStack, tokens[pos]) /\ pos' = pos + 1
        /\ output' = output /\ stage' = "convert"
    BY <1>13 DEF PushOperator, PushToken, Reading
  <2>2. ASSUME NEW W, NEW v, Converting(Text, W, opStack, pos, v)
        PROVE  Converting(Text, W, Append(opStack, tokens[pos]), pos + 1, v)
    <3>1. tokens[pos] = "u-" \/ tokens[pos] \in BinaryOps
      BY <2>1 DEF Operators
    <3> QED
      BY <1>9, <2>1, <2>2, <3>1, PrefixRead, OperatorRead
  <2> QED
    BY <1>8, <2>1, <2>2
<1>14. CASE OpenParen
  <2>1. /\ pos =< Len(tokens) /\ tokens[pos] = "("
        /\ opStack' = Append(opStack, tokens[pos]) /\ pos' = pos + 1
        /\ output' = output /\ stage' = "convert"
    BY <1>14 DEF OpenParen, PushToken, Reading
  <2>2. ASSUME NEW W, NEW v, Converting(Text, W, opStack, pos, v)
        PROVE  Converting(Text, W, Append(opStack, tokens[pos]), pos + 1, v)
    BY <1>9, <2>1, <2>2, PrefixRead
  <2> QED
    BY <1>8, <2>1, <2>2
<1>15. CASE PopToParen
  BY <1>9, <1>10, <1>15 DEF PopToParen, Reading
<1>16. CASE CloseParen
  <2>1. pos =< Len(tokens) /\ tokens[pos] = ")" /\ ~Topped(Operators)
    BY <1>16 DEF CloseParen, Reading
  <2>2. opStack # <<>>
    BY <1>4, <1>16 DEF CloseParen, Fail
  <2>3. Top(opStack) = "("
    <3>1. Top(opStack) \in Operators \cup {"("}
      BY <1>2, <2>2, PoppedFacts
    <3> QED
      BY <2>1, <2>2, <3>1 DEF Topped
  <2>4. /\ opStack' = Popped(opStack) /\ pos' = pos + 1
        /\ output' = output /\ stage' = "convert"
    BY <1>16, <2>2 DEF CloseParen
  <2>5. ASSUME NEW W, NEW v, Converting(Text, W, opStack, pos, v)
        PROVE  Converting(Text, W, Popped(opStack), pos + 1, v)
    BY <1>9, <2>1, <2>2, <2>3, <2>5, ParenthesisClosed
  <2> QED
    BY <1>8, <2>4, <2>5
<1>17. CASE Drain
  <2>1. ~(pos =< Len(Text))
    BY <1>1, <1>2, <1>17 DEF Drain, AtEnd
  <2> QED
    BY <1>10, <1>17, <2>1 DEF Drain
<1>18. CASE Converted
  <2>1. opStack = <<>>
    BY <1>4, <1>18 DEF Converted, Fail
  <2>2. /\ stage' = "evaluate" /\ pos' = 1 /\ UNCHANGED <<source, output, stack>>
        /\ pos > Len(tokens)
    BY <1>18, <2>1 DEF Converted, AtEnd
  <2>3. stack = <<>>
    BY DEF Shape
  <2>4. PICK W : Table(W)
    BY TextMeans
  <2>5. PICK v \in Seq(Values) : Leaves(output, v) /\ Converting(Text, W, opStack, pos, v)
    BY <1>6, <2>4
  <2>6. pos = Len(Text) + 1
    BY <1>1, <1>2, <2>2
  <2>7. PICK P, c : Laid(Text, W, v, P, c, opStack) /\ Held(Text, W, v, P, c, opStack, pos)
    BY <2>5, <2>6, Standing
  <2>8. Len(opStack) = 0 /\ P[0] = 0 /\ c[0] = 0
    BY <2>1, <2>7 DEF Laid
  <2>9. Len(v) = 1 /\ \E m \in Need(opStack)..3 : v[1] \in W[m][1][Len(Text)]
    BY <1>1, <2>6, <2>7, <2>8 DEF Held
  <2>10. v[1] \in W[1][1][Len(Text)]
    <3>1. PICK m \in 1..3 : v[1] \in W[m][1][Len(Text)]
      BY <1>2, <2>9, NeedTyped
    <3>2. 1 \in 1..Len(Text) /\ Len(Text) \in 1..Len(Text) /\ 1 =< Len(Text)
      BY <1>1 DEF Passed
    <3>3. Reads(Text, W) /\ 1 \in 1..3 /\ 1 =< m
      BY <2>4 DEF Table
    <3>4. W[m][1][Len(Text)] \subseteq W[1][1][Len(Text)]
      BY <1>1, <3>2, <3>3, LevelsNest
    <3> QED
      BY <3>1, <3>4
  <2>11. PICK q \in Meaning(source) : v = <<q>>
    <3>1. v[1] \in Meaning(source)
      BY <2>4, <2>10, TextMeans
    <3>2. v = <<v[1]>>
      BY <2>9
    <3> QED
      BY <3>1, <3>2
  <2>12. PICK E : Evaluates(output, E) /\ E[Len(output)] = v
    BY <2>5 DEF Leaves
  <2>13. E[pos' - 1] = stack
    BY <2>2, <2>3, <2>12 DEF Evaluates
  <2>14. Valued'
    BY <2>2, <2>11, <2>12, <2>13 DEF Valued
  <2> QED
    BY <2>2, <2>14 DEF ValueIsArithmetic
<1> QED
  BY <1>11, <1>12, <1>13, <1>14, <1>15, <1>16, <1>17, <1>18

\* and evaluating it takes the numbers the same way to the end.
LEMMA EvaluateValued ==
  ASSUME TypeOK, Shape, Valued, stage = "evaluate", Meaning(source) # {},
         PushNumber \/ Negate \/ Combine \/ Return
  PROVE  Valued' /\ ValueIsArithmetic'
<1>1. /\ output \in Seq(Operators \cup Literals) /\ stack \in Seq(Fractions)
      /\ pos \in Nat \ {0} /\ pos =< Len(output) + 1 /\ Len(output) \in Nat /\ Len(stack) \in Nat
  BY DEF TypeOK, Shape
<1>2. PICK E : /\ Evaluates(output, E) /\ E[pos - 1] = stack
               /\ \E q \in Meaning(source) : E[Len(output)] = <<q>>
  BY DEF Valued
<1>3. PICK q \in Meaning(source) : E[Len(output)] = <<q>>
  BY <1>2
<1>4. \A r \in Meaning(source) : r = q
  BY TextTyped, MeaningIsUnique
<1>5. source' = source
  BY DEF PushNumber, Negate, Combine, Return, Fail
<1>6. ASSUME pos =< Len(output)
      PROVE  Computes(output[pos], stack, E[pos]) /\ pos \in 0..Len(output)
  BY <1>1, <1>2, <1>6 DEF Evaluates
<1>7. ASSUME stage' = "evaluate", output' = output, pos' = pos + 1, stack' = E[pos]
      PROVE  Valued' /\ ValueIsArithmetic'
  <2>1. pos' - 1 = pos
    BY <1>1, <1>7
  <2>2. Valued'
    BY <1>2, <1>5, <1>7, <2>1 DEF Valued
  <2> QED
    BY <1>7, <2>2 DEF ValueIsArithmetic
<1>8. \A x : /\ x \in Literals => x # "u-" /\ x \notin BinaryOps
             /\ x = "u-" => x \notin BinaryOps
  BY SymbolKinds DEF BinaryOps
<1>9. CASE PushNumber
  <2>1. /\ pos =< Len(output) /\ output[pos] \in Literals
        /\ stack' = Append(stack, Number[output[pos]]) /\ pos' = pos + 1
        /\ output' = output /\ stage' = "evaluate"
    BY <1>9 DEF PushNumber, Evaluating
  <2>2. E[pos] = Append(stack, Number[output[pos]])
    BY <1>6, <1>8, <2>1 DEF Computes
  <2> QED
    BY <1>7, <2>1, <2>2
<1>10. CASE Negate
  <2>1. pos =< Len(output) /\ output[pos] = "u-"
    BY <1>10 DEF Negate, Evaluating
  <2>2. stack # <<>> /\ E[pos] = Append(Popped(stack), Negated(Top(stack)))
    BY <1>6, <1>8, <2>1 DEF Computes
  <2>3. /\ stack' = Append(Popped(stack), Negated(Top(stack))) /\ pos' = pos + 1
        /\ output' = output /\ stage' = "evaluate"
    BY <1>10, <2>2 DEF Negate
  <2> QED
    BY <1>7, <2>2, <2>3
<1>11. CASE Combine
  <2> DEFINE b == Top(stack)
             a == Top(Popped(stack))
  <2>1. pos =< Len(output) /\ output[pos] \in BinaryOps
    BY <1>11 DEF Combine, Evaluating
  <2>2. /\ Len(stack) >= 2
        /\ E[pos] = Append(Popped(Popped(stack)), ApplyOrFail(output[pos], a, b))
    BY <1>6, <1>8, <2>1 DEF Computes
  <2>3. a \in Fractions /\ b \in Fractions /\ Popped(Popped(stack)) \in Seq(Fractions)
    <3>1. stack # <<>>
      BY <1>1, <2>2
    <3>2. Popped(stack) \in Seq(Fractions) /\ Len(Popped(stack)) = Len(stack) - 1 /\ b \in Fractions
      BY <1>1, <3>1, PoppedFacts
    <3>3. Popped(stack) # <<>>
      BY <1>1, <2>2, <3>2
    <3> QED
      BY <3>2, <3>3, PoppedFacts
  <2> HIDE DEF a, b
  <2>4. a # Undefined /\ b # Undefined
    BY <2>3, UndefinedIsNoFraction
  <2>5. CASE ByZero(output[pos], b)
    <3>1. /\ stage' = "failed" /\ reason' \in {"division", "modulo"}
      BY <1>1, <1>11, <2>2, <2>5 DEF Combine, Fail, b
    <3>2. ApplyOrFail(output[pos], a, b) = Undefined
      BY <2>5 DEF ApplyOrFail
    <3>3. PICK p \in Seq(Fractions) : p = Popped(Popped(stack))
      BY <2>3
    <3>4. E[pos] = Append(p, Undefined)
      BY <2>2, <3>2, <3>3
    <3>5. Len(p) + 1 \in 1..Len(E[pos]) /\ E[pos][Len(p) + 1] = Undefined
      <4>1. Len(p) \in Nat
        OBVIOUS
      <4>2. p \in Seq(Values) /\ Undefined \in Values
        BY DEF Values
      <4>3. /\ Len(Append(p, Undefined)) = Len(p) + 1
            /\ Append(p, Undefined)[Len(p) + 1] = Undefined
        BY <4>2, AppendFacts
      <4> QED
        BY <3>4, <4>1, <4>3
    <3>6. \E j \in 1..Len(<<q>>) : <<q>>[j] = Undefined
      BY <1>1, <1>2, <1>3, <1>6, <2>1, <3>5, UndefinedStays
    <3>7. q = Undefined
      BY <3>6
    <3> QED
      BY <1>4, <1>5, <3>1, <3>7 DEF Valued, ValueIsArithmetic
  <2>6. CASE ~ByZero(output[pos], b)
    <3>1. /\ stack' = Append(Popped(Popped(stack)), Apply(output[pos], a, b))
          /\ pos' = pos + 1 /\ output' = output /\ stage' = "evaluate"
      BY <1>1, <1>11, <2>2, <2>6 DEF Combine, a, b
    <3>2. ApplyOrFail(output[pos], a, b) = Apply(output[pos], a, b)
      BY <2>4, <2>6 DEF ApplyOrFail
    <3> QED
      BY <1>7, <2>2, <3>1, <3>2
  <2> QED
    BY <2>5, <2>6
<1>12. CASE Return
  <2>1. pos > Len(output)
    BY <1>12 DEF Return
  <2>2. pos - 1 = Len(output)
    BY <1>1, <2>1
  <2>3. stack = <<q>>
    BY <1>2, <1>3, <2>2
  <2>4. Len(stack) = 1 /\ stack[1] = q
    BY <2>3
  <2>5. q # Undefined
    <3>1. 1 \in 1..Len(stack)
      BY <2>4
    <3>2. stack[1] \in Fractions
      BY <1>1, <3>1
    <3> QED
      BY <2>4, <3>2, UndefinedIsNoFraction
  <2>6. result' = Rounded(q) /\ stage' = "done"
    BY <1>12, <2>4 DEF Return
  <2> QED
    BY <1>5, <2>5, <2>6 DEF Valued, ValueIsArithmetic
<1> QED
  BY <1>9, <1>10, <1>11, <1>12

\* Every step keeps the value.
LEMMA ValuedStep ==
  ASSUME TypeOK, Shape, StackSorted, ParenthesesSettled', Valued, ValueIsArithmetic, [Next]_vars
  PROVE  Valued' /\ ValueIsArithmetic'
<1>1. CASE Read
  BY <1>1, ReadValued
<1>2. CASE \/ ConvertNumber \/ PopOperator \/ PushOperator \/ OpenParen
           \/ PopToParen \/ CloseParen \/ Drain \/ Converted
  <2>1. stage = "convert" /\ source' = source
    BY <1>2 DEF ConvertNumber, PopOperator, PushOperator, OpenParen, PopToParen, CloseParen, Drain,
                Converted, Reading, AtEnd, PopToOutput, PushToken, Fail
  <2>2. CASE Meaning(source) = {}
    BY <2>1, <2>2 DEF Valued, ValueIsArithmetic
  <2> QED
    BY <1>2, <2>1, <2>2, ConvertValued
<1>3. CASE PushNumber \/ Negate \/ Combine \/ Return
  <2>1. stage = "evaluate" /\ source' = source
    BY <1>3 DEF PushNumber, Negate, Combine, Return, Evaluating, Fail
  <2>2. CASE Meaning(source) = {}
    BY <2>1, <2>2 DEF Valued, ValueIsArithmetic
  <2> QED
    BY <1>3, <2>1, <2>2, EvaluateValued
<1>4. CASE UNCHANGED vars
  <2>1. Text' = Text /\ \A W : Table(W)' <=> Table(W)
    BY <1>4 DEF vars, Text, Table
  <2> QED
    BY <1>4, <2>1 DEF Valued, ValueIsArithmetic, vars
<1> QED
  BY <1>1, <1>2, <1>3, <1>4 DEF Next

\* The engine computes what the formula means, whatever the formulas, the
\* values and the limits: an expression gets the value of arithmetic and is
\* refused only over a limit or for a zero that it does divide by.
THEOREM FormulasMean == Spec => []ValueIsArithmetic
<1> DEFINE Inv == TypeOK /\ Shape /\ StackSorted /\ ParenthesesSettled /\ Valued /\ ValueIsArithmetic
<1>1. Init => Inv
  <2> SUFFICES ASSUME Init PROVE Inv
    OBVIOUS
  <2>1. TypeOK
    BY DEF Init, TypeOK
  <2>2. Shape
    BY DEF Init, Shape
  <2>3. StackSorted /\ ParenthesesSettled
    BY DEF Init, StackSorted, ParenthesesSettled
  <2>4. Valued /\ ValueIsArithmetic
    BY DEF Init, Valued, ValueIsArithmetic
  <2> QED
    BY <2>1, <2>2, <2>3, <2>4
<1>2. Inv /\ [Next]_vars => Inv'
  <2> SUFFICES ASSUME Inv, [Next]_vars PROVE Inv'
    OBVIOUS
  <2>1. TypeOK' /\ Shape'
    BY TypesStep
  <2>2. StackSorted' /\ ParenthesesSettled'
    BY SortedStep, ParenthesesStep
  <2>3. Valued' /\ ValueIsArithmetic'
    BY <2>2, ValuedStep
  <2> QED
    BY <2>1, <2>2, <2>3
<1>3. Inv => ValueIsArithmetic
  OBVIOUS
<1> QED
  BY <1>1, <1>2, <1>3, PTL DEF Spec

-----------------------------------------------------------------------------
(* The steps. *)

\* How many are left at most: every token is read, taken from the stack and
\* evaluated once.
StepsLeft ==
  CASE stage = "read"              -> 3 * Len(Text) + 4
    [] stage = "convert"           -> 3 * (Len(tokens) + 1 - pos) + 2 * Len(opStack) + Len(output) + 3
    [] stage = "evaluate"          -> Len(output) + 2 - pos
    [] stage \in {"done", "failed"} -> 0

\* They never run below none,
LEMMA StepsCounted ==
  ASSUME TypeOK, Shape
  PROVE  StepsLeft \in Nat
<1>1. PICK C : Text \in Seq(C)
  BY TextTyped
<1>2. /\ Len(Text) \in Nat /\ Len(tokens) \in Nat /\ Len(opStack) \in Nat /\ Len(output) \in Nat
      /\ pos \in Nat \ {0}
  BY <1>1 DEF TypeOK
<1>3. CASE stage = "read"
  BY <1>2, <1>3 DEF StepsLeft
<1>4. CASE stage = "convert"
  <2>1. pos =< Len(tokens) + 1
    BY <1>4 DEF Shape
  <2> QED
    BY <1>2, <1>4, <2>1 DEF StepsLeft
<1>5. CASE stage = "evaluate"
  <2>1. pos =< Len(output) + 1
    BY <1>5 DEF Shape
  <2> QED
    BY <1>2, <1>5, <2>1 DEF StepsLeft
<1>6. CASE stage \in {"done", "failed"}
  BY <1>6 DEF StepsLeft
<1> QED
  BY <1>3, <1>4, <1>5, <1>6 DEF TypeOK

\* and every step takes one.
LEMMA StepTaken ==
  ASSUME TypeOK, Shape, Next
  PROVE  StepsLeft' < StepsLeft
<1>1. PICK C : Text \in Seq(C)
  BY TextTyped
<1>2. /\ Len(Text) \in Nat /\ Len(tokens) \in Nat /\ Len(opStack) \in Nat /\ Len(output) \in Nat
      /\ pos \in Nat \ {0}
  BY <1>1 DEF TypeOK
<1>3. stage = "convert" => pos =< Len(tokens) + 1
  BY DEF Shape
<1>4. stage = "evaluate" => pos =< Len(output) + 1
  BY DEF Shape
<1>5. ASSUME stage \in {"convert", "evaluate", "read"}, stage' \in {"done", "failed"}
      PROVE  StepsLeft' < StepsLeft
  <2>1. StepsLeft > 0
    <3>1. CASE stage = "read"
      BY <1>2, <3>1 DEF StepsLeft
    <3>2. CASE stage = "convert"
      BY <1>2, <1>3, <3>2 DEF StepsLeft
    <3>3. CASE stage = "evaluate"
      BY <1>2, <1>4, <3>3 DEF StepsLeft
    <3> QED
      BY <1>5, <3>1, <3>2, <3>3
  <2>2. StepsLeft' = 0
    BY <1>5 DEF StepsLeft
  <2> QED
    BY <2>1, <2>2, StepsCounted
<1>6. ASSUME stage = "convert", stage' = "convert", tokens' = tokens,
             NEW p \in Int, NEW o \in Int, NEW w \in Int,
             pos' = pos + p, Len(opStack') = Len(opStack) + o, Len(output') = Len(output) + w,
             3 * p > 2 * o + w
      PROVE  StepsLeft' < StepsLeft
  <2>1. StepsLeft = 3 * (Len(tokens) + 1 - pos) + 2 * Len(opStack) + Len(output) + 3
    BY <1>6 DEF StepsLeft
  <2>2. StepsLeft' = 3 * (Len(tokens) + 1 - (pos + p)) + 2 * (Len(opStack) + o)
                     + (Len(output) + w) + 3
    BY <1>6 DEF StepsLeft
  <2> QED
    BY <1>2, <1>6, <2>1, <2>2
<1>7. ASSUME stage = "convert", Topped(Operators), PopToOutput PROVE StepsLeft' < StepsLeft
  <2>1. /\ opStack # <<>> /\ opStack' = Popped(opStack) /\ output' = Append(output, Top(opStack))
        /\ stage' = "convert" /\ tokens' = tokens /\ pos' = pos
    BY <1>7 DEF Topped, PopToOutput
  <2>2. Len(opStack') = Len(opStack) + (-1)
    BY <1>2, <2>1, PoppedFacts DEF TypeOK
  <2>3. Len(output') = Len(output) + 1
    BY <2>1 DEF TypeOK
  <2>4. pos' = pos + 0
    BY <1>2, <2>1
  <2> QED
    BY <1>6, <1>7, <2>1, <2>2, <2>3, <2>4
<1>8. ASSUME stage = "convert", PushToken PROVE StepsLeft' < StepsLeft
  <2>1. /\ opStack' = Append(opStack, tokens[pos]) /\ pos' = pos + 1 /\ output' = output
        /\ stage' = "convert" /\ tokens' = tokens
    BY <1>8 DEF PushToken
  <2>2. Len(opStack') = Len(opStack) + 1 /\ Len(output') = Len(output) + 0
    BY <1>2, <2>1 DEF TypeOK
  <2>3. 1 \in Int /\ 0 \in Int /\ 3 * 1 > 2 * 1 + 0
    OBVIOUS
  <2> QED
    BY <1>6, <1>8, <2>1, <2>2, <2>3
<1>9. ASSUME stage = "evaluate", stage' = "evaluate", pos' = pos + 1, output' = output
      PROVE  StepsLeft' < StepsLeft
  BY <1>2, <1>9 DEF StepsLeft
<1>10. CASE Read
  <2>1. /\ stage = "read" /\ pos' = pos /\ opStack' = opStack /\ output' = output
        /\ reason' # "none" => stage' = "failed"
        /\ reason' = "none" => stage' = "convert" /\ tokens' = [i \in 1..Len(Text) |-> Token(Text, i)]
    BY <1>10 DEF Read, Text
  <2>2. CASE reason' = "none"
    <3>1. Len(tokens') = Len(Text)
      BY <1>2, <2>1, <2>2
    <3>2. pos = 1 /\ Len(opStack) = 0 /\ Len(output) = 0
      BY <2>1 DEF Shape
    <3>3. StepsLeft = 3 * Len(Text) + 4
      BY <2>1 DEF StepsLeft
    <3>4. StepsLeft' = 3 * (Len(Text) + 1 - 1) + 2 * 0 + 0 + 3
      BY <2>1, <2>2, <3>1, <3>2 DEF StepsLeft
    <3> QED
      BY <1>2, <3>3, <3>4
  <2>3. CASE reason' # "none"
    BY <1>5, <2>1, <2>3
  <2> QED
    BY <2>2, <2>3
<1>11. CASE ConvertNumber
  <2>1. /\ stage = "convert" /\ output' = Append(output, tokens[pos]) /\ pos' = pos + 1
        /\ opStack' = opStack /\ stage' = "convert" /\ tokens' = tokens
    BY <1>11 DEF ConvertNumber, Reading
  <2>2. Len(opStack') = Len(opStack) + 0 /\ Len(output') = Len(output) + 1
    BY <1>2, <2>1 DEF TypeOK
  <2>3. 1 \in Int /\ 0 \in Int /\ 3 * 1 > 2 * 0 + 1
    OBVIOUS
  <2> QED
    BY <1>6, <2>1, <2>2, <2>3
<1>12. CASE PopOperator
  BY <1>7, <1>12 DEF PopOperator, Reading, Yields
<1>13. CASE PushOperator \/ OpenParen
  BY <1>8, <1>13 DEF PushOperator, OpenParen, Reading
<1>14. CASE PopToParen
  BY <1>7, <1>14 DEF PopToParen, Reading
<1>15. CASE CloseParen
  <2>1. stage = "convert"
    BY <1>15 DEF CloseParen, Reading
  <2>2. CASE opStack = <<>>
    BY <1>5, <1>15, <2>1, <2>2 DEF CloseParen, Fail
  <2>3. CASE opStack # <<>>
    <3>1. /\ opStack' = Popped(opStack) /\ pos' = pos + 1 /\ output' = output
          /\ stage' = "convert" /\ tokens' = tokens
      BY <1>15, <2>1, <2>3 DEF CloseParen
    <3>2. Len(opStack') = Len(opStack) + (-1)
      BY <1>2, <2>3, <3>1, PoppedFacts DEF TypeOK
    <3>3. Len(output') = Len(output) + 0
      BY <1>2, <3>1
    <3>4. 1 \in Int /\ 0 \in Int /\ -1 \in Int /\ 3 * 1 > 2 * (-1) + 0
      OBVIOUS
    <3> QED
      BY <1>6, <2>1, <3>1, <3>2, <3>3, <3>4
  <2> QED
    BY <2>2, <2>3
<1>16. CASE Drain
  BY <1>7, <1>16 DEF Drain, AtEnd
<1>17. CASE Converted
  <2>1. stage = "convert" /\ pos > Len(tokens)
    BY <1>17 DEF Converted, AtEnd
  <2>2. CASE opStack # <<>>
    BY <1>5, <1>17, <2>1, <2>2 DEF Converted, Fail
  <2>3. CASE opStack = <<>>
    <3>1. stage' = "evaluate" /\ pos' = 1 /\ output' = output
      BY <1>17, <2>3 DEF Converted
    <3>2. StepsLeft' = Len(output) + 2 - 1
      BY <3>1 DEF StepsLeft
    <3>3. StepsLeft = 3 * (Len(tokens) + 1 - pos) + 2 * Len(opStack) + Len(output) + 3
      BY <2>1 DEF StepsLeft
    <3> QED
      BY <1>2, <1>3, <2>1, <3>2, <3>3
  <2> QED
    BY <2>2, <2>3
<1>18. CASE PushNumber
  BY <1>9, <1>18 DEF PushNumber, Evaluating
<1>19. CASE Negate
  BY <1>5, <1>9, <1>19 DEF Negate, Evaluating, Fail
<1>20. CASE Combine
  BY <1>5, <1>9, <1>20 DEF Combine, Evaluating, Fail
<1>21. CASE Return
  BY <1>5, <1>21 DEF Return, Fail
<1> QED
  BY <1>10, <1>11, <1>12, <1>13, <1>14, <1>15, <1>16, <1>17, <1>18, <1>19, <1>20, <1>21 DEF Next

\* No formula keeps the engine for more than three steps per symbol of its
\* text, and four: each step takes one of those left.
THEOREM StepsRunOut == Spec => [](StepsLeft \in Nat) /\ [][StepsLeft' < StepsLeft]_vars
<1>1. Init => TypeOK /\ Shape
  <2> SUFFICES ASSUME Init PROVE TypeOK /\ Shape
    OBVIOUS
  <2>1. TypeOK
    BY DEF Init, TypeOK
  <2>2. Shape
    BY DEF Init, Shape
  <2> QED
    BY <2>1, <2>2
<1>2. TypeOK /\ Shape /\ [Next]_vars => TypeOK' /\ Shape'
  BY TypesStep
<1>3. TypeOK /\ Shape => StepsLeft \in Nat
  BY StepsCounted
<1>4. TypeOK /\ Shape /\ [Next]_vars => [StepsLeft' < StepsLeft]_vars
  BY StepTaken
<1> QED
  BY <1>1, <1>2, <1>3, <1>4, PTL DEF Spec
=============================================================================
