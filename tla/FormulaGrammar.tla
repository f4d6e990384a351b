--------------------------- MODULE FormulaGrammar ---------------------------
(***************************************************************************)
(* The formulas of the report builder: their symbols, the arithmetic of    *)
(* the engine, and, apart from any engine, which sequences of symbols are  *)
(* expressions and what they are worth.                                    *)
(*                                                                         *)
(* A number is a fraction <<n, d>> with d > 0, where PHP computes with     *)
(* floats: the comparison of the two is out of reach and not attempted.    *)
(***************************************************************************)
EXTENDS Integers, Sequences

CONSTANTS
  Number,     \* the value of each numeral, a function to fractions
  Data        \* the values of the variables, likewise

Literals  == DOMAIN Number
Variables == DOMAIN Data
BinaryOps == {"+", "-", "*", "/", "%"}
Symbols   == BinaryOps \cup {"(", ")"} \cup Literals \cup Variables

Fractions == Int \X (Nat \ {0})
Undefined == <<0, 0>>

Negated(q) == <<0 - q[1], q[2]>>
Absolute(q) == IF q[1] < 0 THEN Negated(q) ELSE q

\* Conversion to an integer for %: towards zero.
Truncated(q) == IF q[1] < 0 THEN 0 - ((0 - q[1]) \div q[2]) ELSE q[1] \div q[2]

\* The remainder takes the sign of the dividend.
Remainder(m, n) ==
  LET k == (IF n < 0 THEN 0 - n ELSE n)
      r == (IF m < 0 THEN 0 - m ELSE m) % k
  IN  IF m < 0 THEN 0 - r ELSE r

\* Mutant: only the remainder looks at its divisor.
ModuloByZero(op, b) == op = "%" /\ Truncated(b) = 0

ByZero(op, b) == \/ op = "/" /\ b[1] = 0
                 \/ op = "%" /\ Truncated(b) = 0

Apply(op, a, b) ==
  CASE op = "+" -> <<a[1] * b[2] + b[1] * a[2], a[2] * b[2]>>
    [] op = "-" -> <<a[1] * b[2] - b[1] * a[2], a[2] * b[2]>>
    [] op = "*" -> <<a[1] * b[1], a[2] * b[2]>>
    [] op = "/" -> IF b[1] < 0 THEN <<0 - a[1] * b[2], a[2] * (0 - b[1])>>
                               ELSE <<a[1] * b[2], a[2] * b[1]>>
    [] op = "%" -> <<Remainder(Truncated(a), Truncated(b)), 1>>

-----------------------------------------------------------------------------
(***************************************************************************)
(* Sums of products of factors; operators of one level group to the left,  *)
(* a minus sign belongs to the factor behind it.  Worth[<<l, i, j>>] is    *)
(* the set of values of s[i..j] read at level l (1 sum, 2 product, 3       *)
(* factor): empty when it cannot be read, and never more than one.         *)
(***************************************************************************)
Level == <<{"+", "-"}, {"*", "/", "%"}>>

ApplyOrFail(op, a, b) ==
  IF Undefined \in {a, b} \/ ByZero(op, b) THEN Undefined ELSE Apply(op, a, b)

Meaning(s) ==
  LET Worth[p \in (1..3) \X (1..(Len(s) + 1)) \X (0..Len(s))] ==
        LET l == p[1]
            i == p[2]
            j == p[3]
        IN  IF i > j THEN {}
            ELSE IF l < 3
            THEN Worth[<<l + 1, i, j>>] \cup
                 UNION {{ApplyOrFail(s[k], a, b) : a \in Worth[<<l, i, k - 1>>],
                                                   b \in Worth[<<l + 1, k + 1, j>>]} :
                        k \in {m \in (i + 1)..(j - 1) : s[m] \in Level[l]}}
            ELSE UNION {
              IF i = j /\ s[i] \in Literals THEN {Number[s[i]]} ELSE {},
              IF i = j /\ s[i] \in Variables THEN {Data[s[i]]} ELSE {},
              IF s[i] = "-" THEN {Negated(a) : a \in Worth[<<3, i + 1, j>>]} ELSE {},
              IF s[i] = "(" /\ s[j] = ")" THEN Worth[<<1, i + 1, j - 1>>] ELSE {}}
  IN  Worth[<<1, 1, Len(s)>>]
=============================================================================
