--------------------------------- MODULE Ltlf ---------------------------------
(***************************************************************************)
(* LTLf formulas as aalta_formula holds them: an operator and one or two   *)
(* operands.  Formulas are hash-consed (unique()), so two formulas are the *)
(* same object when they are equal, and a formula is the tuple of its      *)
(* operator and its operands.  The operator of an atom is its name.        *)
(*                                                                         *)
(* A finite trace is a nonempty sequence of states, a state the set of the *)
(* atoms that are true in it.                                              *)
(***************************************************************************)
EXTENDS Integers, FiniteSets, Sequences

Operators ==
  {"True", "False", "Not", "Next", "WNext", "And", "Or", "Until", "Release"}

True == <<"True">>

False == <<"False">>

Not(f) == <<"Not", f>>

X(f) == <<"Next", f>>

N(f) == <<"WNext", f>>

And(f, g) == <<"And", f, g>>

Or(f, g) == <<"Or", f, g>>

Until(f, g) == <<"Until", f, g>>

Release(f, g) == <<"Release", f, g>>

Oper(f) == f[1]

\* l_af() of a formula with two operands, r_af() of one with any.
Left(f) == f[2]

Right(f) == f[Len(f)]

IsAtom(f) == Oper(f) \notin Operators

\* The literals: an atom, or its negation.
IsLiteral(f) == IsAtom(f) \/ Oper(f) = "Not"

\* The atom Tail of the last state.
TAIL == <<"Tail">>

\* is_future(), is_globally().
IsFuture(f) == Oper(f) = "Until" /\ Left(f) = True

IsGlobally(f) == Oper(f) = "Release" /\ Left(f) = False

RECURSIVE Operands(_, _)

\* The operands of a chain or a tree of op.
Operands(op, f) ==
  IF Oper(f) = op THEN Operands(op, Left(f)) \cup Operands(op, Right(f)) ELSE {f}

\* to_set() and to_or_set().
ToSet(f) == Operands("And", f)

ToOrSet(f) == Operands("Or", f)

RECURSIVE Subformulas(_)

Subformulas(f) ==
  {f} \cup UNION {Subformulas(f[k]) : k \in 2 .. Len(f)}

AtomsOf(f) == {Oper(g) : g \in {h \in Subformulas(f) : IsAtom(h)}}

RECURSIVE ChainOf(_, _)

\* The members of S as one formula, in the order in which CHOOSE gives them.
\* The code orders them by address, which is a fixed but arbitrary order, too.
ChainOf(op, S) ==
  LET f == CHOOSE g \in S : TRUE
  IN  IF S = {f} THEN f ELSE <<op, f, ChainOf(op, S \ {f})>>

------------------------------------------------------------------------------
RECURSIVE Positions(_, _, _)

\* The positions of the trace tr at which f holds.  Next and WNext differ only
\* in the last state; there Next is false for LTLf.  The rewritten formulas ask
\* for Next only where it is guarded by Tail, and must not depend on it; atEnd
\* says what it is worth there: "false", "true" or, as if the last state were
\* repeated, "loop".
Positions(f, tr, atEnd) ==
  LET n    == Len(tr)
      P(g) == Positions(g, tr, atEnd)
      AtEnd(S)  == CASE atEnd = "false" -> {}
                     [] atEnd = "true"  -> {n}
                     [] atEnd = "loop"  -> S \cap {n}
      Before(S) == {i \in 1 .. n - 1 : i + 1 \in S}
  IN  CASE Oper(f) = "True"    -> 1 .. n
        [] Oper(f) = "False"   -> {}
        [] Oper(f) = "Not"     -> (1 .. n) \ P(f[2])
        [] Oper(f) = "Next"    -> Before(P(f[2])) \cup AtEnd(P(f[2]))
        [] Oper(f) = "WNext"   -> Before(P(f[2])) \cup {n}
        [] Oper(f) = "And"     -> P(f[2]) \cap P(f[3])
        [] Oper(f) = "Or"      -> P(f[2]) \cup P(f[3])
        [] Oper(f) = "Until"   ->
             LET L == P(f[2])
                 R == P(f[3])
             IN  {i \in 1 .. n : \E j \in R : i <= j /\ i .. (j - 1) \subseteq L}
        [] Oper(f) = "Release" ->
             LET L == P(f[2])
                 R == P(f[3])
             IN  {i \in 1 .. n : \A j \in (i .. n) \ R : \E k \in i .. (j - 1) : k \in L}
        [] OTHER -> {i \in 1 .. n : Oper(f) \in tr[i]}

Holds(f, tr) == 1 \in Positions(f, tr, "false")

Ends == {"false", "true", "loop"}

Traces(atoms, n) == UNION {[1 .. k -> SUBSET atoms] : k \in 1 .. n}

\* The trace with Tail in its last state and in no other.
Tailed(tr) ==
  [i \in DOMAIN tr |-> IF i = Len(tr) THEN tr[i] \cup {"Tail"} ELSE tr[i] \ {"Tail"}]

\* A rewritten formula holds of a trace whatever Next is worth at its end.
HoldsTailed(f, tr) ==
  \A atEnd \in Ends : 1 \in Positions(f, Tailed(tr), atEnd)

FailsTailed(f, tr) ==
  \A atEnd \in Ends : 1 \notin Positions(f, Tailed(tr), atEnd)
==============================================================================
