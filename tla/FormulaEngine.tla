--------------------------- MODULE FormulaEngine ---------------------------
(***************************************************************************)
(* SafeFormulaEngine::evaluate, loop by loop: the checks of the text, the  *)
(* conversion to reverse Polish notation with an operator stack, and the   *)
(* evaluation of that notation with a stack of numbers.                    *)
(*                                                                         *)
(* A symbol of the formula is a string: an operator, a parenthesis, a      *)
(* numeral or a name; spaces are left out.                                 *)
(***************************************************************************)
EXTENDS FormulaGrammar, FiniteSets

CONSTANTS
  Inputs,        \* the formulas tried, sequences of symbols
  MaxLength,     \* counted in symbols here, in characters there
  MaxNesting,
  Scale          \* the result is rounded to a multiple of 1 / Scale

ASSUME FormulaAssumption ==
  /\ Number \in [Literals -> Nat \X (Nat \ {0})]
  /\ Data \in [Variables -> Fractions]
  /\ \A v \in Variables : \E l \in Literals : Number[l] = Absolute(Data[v])
  /\ \A s \in Inputs : s \in Seq(STRING)
  /\ (Literals \cup Variables) \cap (BinaryOps \cup {"u-", "(", ")"}) = {}
  /\ Literals \cap Variables = {}
  /\ MaxLength \in Nat /\ MaxNesting \in Nat /\ Scale \in Nat \ {0}

VARIABLES
  source,            \* the formula, as stored
  stage, reason,     \* how far evaluate() is; why it threw
  tokens, pos,       \* the token list and the next one to read
  opStack, output,   \* of toRPN; output is then evaluateRPN's token list
  stack,             \* of evaluateRPN
  result

vars == <<source, stage, reason, tokens, pos, opStack, output, stack, result>>

Operators == BinaryOps \cup {"u-"}
Tokens    == Operators \cup {"(", ")"} \cup Literals
Reasons   == {"too long", "illegal", "empty", "too deep", "unbalanced",
              "operands", "division", "modulo", "leftover"}

TypeOK ==
  /\ source \in Inputs
  /\ stage \in {"read", "convert", "evaluate", "done", "failed"}
  /\ reason \in Reasons \cup {"none"}
  /\ tokens \in Seq(Tokens) /\ pos \in Nat \ {0}
  /\ opStack \in Seq(Operators \cup {"("})
  /\ output \in Seq(Operators \cup Literals)
  /\ stack \in Seq(Fractions)
  /\ result \in Int

Init ==
  /\ source \in Inputs
  /\ stage = "read" /\ reason = "none"
  /\ tokens = <<>> /\ pos = 1
  /\ opStack = <<>> /\ output = <<>> /\ stack = <<>>
  /\ result = 0

Top(s)     == s[Len(s)]
Popped(s)  == SubSeq(s, 1, Len(s) - 1)

-----------------------------------------------------------------------------
(* The checks of the text. *)

\* (string) (float) $value: a negative number brings its sign along.
Printed(q) ==
  LET l == CHOOSE l \in Literals : Number[l] = Absolute(q)
  IN  IF q[1] < 0 THEN <<"-", l>> ELSE <<l>>

\* preg_replace of every whole-word variable name.
Substituted(s) ==
  LET text[i \in 0..Len(s)] ==
        IF i = 0 THEN <<>>
        ELSE text[i - 1] \o IF s[i] \in Variables THEN Printed(Data[s[i]]) ELSE <<s[i]>>
  IN  text[Len(s)]

Depth(t, i) == Cardinality({k \in 1..i : t[k] = "("}) - Cardinality({k \in 1..i : t[k] = ")"})

\* checkParentheses: the first place that is too deep or closes too much.
Deep(t) == \E i \in 1..Len(t) : /\ Depth(t, i) > MaxNesting
                                /\ \A k \in 1..i : Depth(t, k) >= 0

\* Mutant: only the totals are compared.
CountedOpen(t) == Depth(t, Len(t)) # 0

Open(t) == Depth(t, Len(t)) # 0 \/ \E i \in 1..Len(t) : Depth(t, i) < 0

\* Mutant: a minus after another operator is a subtraction.
GreedyToken(t, i) ==
  IF t[i] = "-" /\ (i = 1 \/ t[i - 1] = "(") THEN "u-" ELSE t[i]

\* A minus at the start, after an operator or after "(" is unary.
Token(t, i) ==
  IF t[i] = "-" /\ (i = 1 \/ t[i - 1] \in BinaryOps \cup {"("}) THEN "u-" ELSE t[i]

Fault(t) ==
  CASE Len(source) > MaxLength                               -> "too long"
    [] \E i \in 1..Len(t) : t[i] \notin Symbols \ Variables  -> "illegal"
    [] t = <<>>                                              -> "empty"
    [] Deep(t)                                               -> "too deep"
    [] Open(t)                                               -> "unbalanced"
    [] OTHER                                                 -> "none"

Read ==
  LET t == Substituted(source)
  IN  /\ stage = "read"
      /\ reason' = Fault(t)
      /\ stage' = IF reason' = "none" THEN "convert" ELSE "failed"
      /\ tokens' = IF reason' = "none" THEN [i \in 1..Len(t) |-> Token(t, i)] ELSE <<>>
      /\ UNCHANGED <<source, pos, opStack, output, stack, result>>

-----------------------------------------------------------------------------
(* toRPN. *)

Precedence(op) == CASE op \in {"+", "-"}      -> 1
                    [] op \in {"*", "/", "%"} -> 2
                    [] op = "u-"              -> 3

Reading(kind) == stage = "convert" /\ pos <= Len(tokens) /\ tokens[pos] \in kind
AtEnd         == stage = "convert" /\ pos > Len(tokens)

Topped(kind) == opStack # <<>> /\ Top(opStack) \in kind

\* Mutant: an operator waits for one of its own precedence.
StrictYields(op) ==
  Topped(Operators) /\ Precedence(Top(opStack)) > Precedence(op) /\ op # "u-"

\* The operator on top goes first: operators group to the left, u- to the right.
Yields(op) ==
  Topped(Operators) /\ Precedence(Top(opStack)) >= Precedence(op) /\ op # "u-"

Fail(why) ==
  /\ stage' = "failed" /\ reason' = why
  /\ UNCHANGED <<source, tokens, pos, opStack, output, stack, result>>

\* array_pop of the operator stack into the output.
PopToOutput ==
  /\ output' = Append(output, Top(opStack))
  /\ opStack' = Popped(opStack)
  /\ UNCHANGED <<source, stage, reason, tokens, pos, stack, result>>

ConvertNumber ==
  /\ Reading(Literals)
  /\ output' = Append(output, tokens[pos])
  /\ pos' = pos + 1
  /\ UNCHANGED <<source, stage, reason, tokens, opStack, stack, result>>

PushToken ==
  /\ opStack' = Append(opStack, tokens[pos])
  /\ pos' = pos + 1
  /\ UNCHANGED <<source, stage, reason, tokens, output, stack, result>>

PopOperator  == Reading(Operators) /\ Yields(tokens[pos]) /\ PopToOutput
PushOperator == Reading(Operators) /\ ~Yields(tokens[pos]) /\ PushToken
OpenParen    == Reading({"("}) /\ PushToken

PopToParen == Reading({")"}) /\ Topped(Operators) /\ PopToOutput

CloseParen ==
  /\ Reading({")"})
  /\ ~Topped(Operators)
  /\ IF opStack = <<>> THEN Fail("unbalanced")
     ELSE /\ opStack' = Popped(opStack)
          /\ pos' = pos + 1
          /\ UNCHANGED <<source, stage, reason, tokens, output, stack, result>>

Drain == AtEnd /\ Topped(Operators) /\ PopToOutput

Converted ==
  /\ AtEnd
  /\ ~Topped(Operators)
  /\ IF opStack # <<>> THEN Fail("unbalanced")
     ELSE /\ stage' = "evaluate" /\ pos' = 1
          /\ UNCHANGED <<source, reason, tokens, opStack, output, stack, result>>

-----------------------------------------------------------------------------
(* evaluateRPN. *)

Evaluating(kind) == stage = "evaluate" /\ pos <= Len(output) /\ output[pos] \in kind

PushNumber ==
  /\ Evaluating(Literals)
  /\ stack' = Append(stack, Number[output[pos]])
  /\ pos' = pos + 1
  /\ UNCHANGED <<source, stage, reason, tokens, opStack, output, result>>

Negate ==
  /\ Evaluating({"u-"})
  /\ IF stack = <<>> THEN Fail("empty")
     ELSE /\ stack' = Append(Popped(stack), Negated(Top(stack)))
          /\ pos' = pos + 1
          /\ UNCHANGED <<source, stage, reason, tokens, opStack, output, result>>

\* A % by zero is PHP's own error, not the engine's exception.
Combine ==
  /\ Evaluating(BinaryOps)
  /\ IF Len(stack) < 2 THEN Fail("operands")
     ELSE LET b == Top(stack)
              a == Top(Popped(stack))
          IN  IF ByZero(output[pos], b)
              THEN Fail(IF output[pos] = "/" THEN "division" ELSE "modulo")
              ELSE /\ stack' = Append(Popped(Popped(stack)), Apply(output[pos], a, b))
                   /\ pos' = pos + 1
                   /\ UNCHANGED <<source, stage, reason, tokens, opStack, output, result>>

\* round(): half away from zero.
Rounded(q) ==
  LET up == (2 * Absolute(q)[1] * Scale + q[2]) \div (2 * q[2])
  IN  IF q[1] < 0 THEN 0 - up ELSE up

Return ==
  /\ stage = "evaluate"
  /\ pos > Len(output)
  /\ IF Len(stack) # 1 THEN Fail("leftover")
     ELSE /\ result' = Rounded(stack[1])
          /\ stage' = "done"
          /\ UNCHANGED <<source, reason, tokens, pos, opStack, output, stack>>

Next ==
  \/ Read
  \/ ConvertNumber \/ PopOperator \/ PushOperator
  \/ OpenParen \/ PopToParen \/ CloseParen
  \/ Drain \/ Converted
  \/ PushNumber \/ Negate \/ Combine
  \/ Return

Spec == Init /\ [][Next]_vars

-----------------------------------------------------------------------------
(* Properties. *)

\* The engine computes what the formula means: a formula that is an
\* expression gets the value of arithmetic, with negative values substituted
\* for its variables wherever they stand, and is refused only over a limit
\* or for a zero that it does divide by.
ValueIsArithmetic ==
  /\ stage = "done" /\ Meaning(source) # {} =>
       \E q \in Meaning(source) : q # Undefined /\ result = Rounded(q)
  /\ stage = "failed" /\ reason \notin {"too long", "too deep"} =>
       \A q \in Meaning(source) : q = Undefined /\ reason \in {"division", "modulo"}

\* Between two parentheses the operator stack rises strictly, but for runs of
\* minus signs: so one look at its top is enough for every operator read.
StackSorted ==
  \A i \in 1..(Len(opStack) - 1) :
    opStack[i] # "(" /\ opStack[i + 1] # "(" =>
      \/ Precedence(opStack[i]) < Precedence(opStack[i + 1])
      \/ opStack[i] = "u-" /\ opStack[i + 1] = "u-"

\* The check of the text and the conversion agree on parentheses: a formula
\* that passed the one is never refused by the other, and the parentheses
\* the stack holds are those open at the token read, within the limit.
ParenthesesSettled ==
  /\ stage = "failed" /\ reason = "unbalanced" => tokens = <<>>
  /\ stage = "convert" =>
       /\ Cardinality({i \in 1..Len(opStack) : opStack[i] = "("}) = Depth(tokens, pos - 1)
       /\ Depth(tokens, pos - 1) <= MaxNesting
=============================================================================
