------------------------------ MODULE MCFormula ------------------------------
(***************************************************************************)
(* Formulas for FormulaEngine: every sequence of up to four symbols, right *)
(* or wrong; most expressions of five and seven over fewer symbols, and    *)
(* some over each limit.  The variable is negative, and its sign is        *)
(* substituted with it.                                                    *)
(***************************************************************************)
EXTENDS FormulaEngine, TLC

MCNumber == ("0" :> <<0, 1>> @@ "2" :> <<2, 1>> @@ "2.5" :> <<5, 2>>)
MCData   == ("late" :> <<-5, 2>>)

AllSymbols == {"0", "2", "late", "bonus", "+", "-", "*", "/", "%", "(", ")"}

Short == UNION {[1..n -> AllSymbols] : n \in 0..4}

\* bonus has no value in Data.
Wrapped(n) == [i \in 1..n |-> "("] \o <<"2">> \o [i \in 1..n |-> ")"]

Signed(E)      == {<<"-">> \o e : e \in E}
Bracketed(E)   == {<<"(">> \o e \o <<")">> : e \in E}
Combined(E, F) == {e \o <<op>> \o f : op \in {"-", "/", "%"}, e \in E, f \in F}

\* The expressions of one to seven symbols.
E1 == {<<"2">>, <<"late">>}
E2 == Signed(E1)
E3 == Signed(E2) \cup Bracketed(E1) \cup Combined(E1, E1)
E4 == Signed(E3) \cup Bracketed(E2) \cup Combined(E1, E2) \cup Combined(E2, E1)
E5 == Signed(E4) \cup Bracketed(E3)
      \cup Combined(E1, E3) \cup Combined(E2, E2) \cup Combined(E3, E1)
E7 == Combined(E5, E1) \cup Combined(E1, E5) \cup Combined(E3, E3)

MCInputs == Short \cup E5 \cup E7 \cup {Wrapped(3), Wrapped(4)}
=============================================================================
