----------------------------- MODULE StepEncoding -----------------------------
(***************************************************************************)
(* The one-step encoding that solver.cpp gives to the SAT solver.  Its     *)
(* variables are the atoms, Tail, and a Next variable for every formula in *)
(* X_map_.  An assignment is a record:                                     *)
(*   letters - the atoms that are true,                                    *)
(*   nx      - the formulas whose Next variable is true.                   *)
(* All other variables are defined by the clauses (add_equivalence).       *)
(*                                                                         *)
(* A conjunction is the set of its conjuncts; True as a whole formula is   *)
(* the empty set.  No clause is added for True and False, so where one of  *)
(* them is an operand its variable is as free as an atom's.                *)
(***************************************************************************)
EXTENDS Rewriting

RECURSIVE Visited(_)

\* The formulas that add_clauses_for() gets to: it passes over the left operand
\* of F and G.
Visited(f) ==
  {f} \cup IF IsFuture(f) \/ IsGlobally(f) THEN Visited(Right(f))
           ELSE UNION {Visited(f[k]) : k \in 2 .. Len(f)}

\* The formulas with a Next variable (X_map_): those below a Next, and every
\* Until and Release.
Demandable(f) ==
  {Right(g) : g \in {h \in Visited(f) : Oper(h) = "Next"}}
    \cup {g \in Visited(f) : Oper(g) \in {"Until", "Release"}}

Letters(f) ==
  {"Tail"} \cup
    {Oper(g) : g \in {h \in Visited(f) : IsAtom(h) \/ h \in {True, False}}}

RECURSIVE TrueIn(_, _)

\* add_clauses_for(): the value of g under the assignment m.
TrueIn(g, m) ==
  LET T(h)  == TrueIn(h, m)
      tail  == "Tail" \in m.letters
  IN  CASE Oper(g) = "Not"  -> ~ T(Right(g))
        [] Oper(g) = "And"  -> T(Left(g)) /\ T(Right(g))
        [] Oper(g) = "Or"   -> T(Left(g)) \/ T(Right(g))
        [] Oper(g) = "Next" -> Right(g) \in m.nx
        [] Oper(g) = "Until" ->
             T(Right(g)) \/ ((IsFuture(g) \/ T(Left(g))) /\ ~ tail /\ g \in m.nx)
        [] Oper(g) = "Release" ->
             T(Right(g)) /\ ((~ IsGlobally(g) /\ T(Left(g))) \/ tail \/ g \in m.nx)
        [] OTHER -> Oper(g) \in m.letters

RECURSIVE Opposite(_, _, _, _)

\* Changed form: the second formula need not have a variable.
OppositeUnguarded(g, h, nx, D) == g \in D => ((g \in nx) # (h \in nx))

\* add_X_conflict_for_pair(): X g and X h are opposites, and so are X X g and
\* X X h, as long as both have a variable.
Opposite(g, h, nx, D) ==
  {g, h} \subseteq D => ((g \in nx) # (h \in nx)) /\ Opposite(X(g), X(h), nx, D)

\* The models of the clauses for f.
Assignments(f) ==
  LET D == Demandable(f)
      V == Visited(f)
      opposed == {g \in V : IsAtom(g) /\ Not(g) \in V}
  IN  [letters : SUBSET Letters(f),
       nx : {d \in SUBSET D : \A a \in opposed : Opposite(a, Not(a), d, D)}]

\* get_assumption_from(): every conjunct of c is true.
Satisfies(m, c) == \A g \in c : TrueIn(g, m)

IsTail(m) == "Tail" \in m.letters

\* Changed form: Tail is not assumed.
FinalsAnywhere(c, A) == {m \in A : Satisfies(m, c)}

\* The models of check_tail().
Finals(c, A) == {m \in A : IsTail(m) /\ Satisfies(m, c)}

------------------------------------------------------------------------------
RECURSIVE ConeDemands(_), ConeLetters(_)

\* Changed form: the left operand is left out.
ConeDemandsRight(g) ==
  CASE Oper(g) = "Next" -> {Right(g)}
    [] Oper(g) \in {"Until", "Release"} -> {g} \cup ConeDemands(Right(g))
    [] Oper(g) \in {"And", "Or"} -> ConeDemands(Right(g))
    [] OTHER -> {}

\* compute_full_coi(): the Next variables g depends on.  A Next is not entered.
ConeDemands(g) ==
  CASE Oper(g) = "Next" -> {Right(g)}
    [] Oper(g) \in {"Until", "Release"} ->
         {g} \cup ConeDemands(Left(g)) \cup ConeDemands(Right(g))
    [] Oper(g) \in {"And", "Or"} -> ConeDemands(Left(g)) \cup ConeDemands(Right(g))
    [] OTHER -> {}

\* The same for the atoms.
ConeLetters(g) ==
  CASE Oper(g) = "Next" -> {}
    [] Oper(g) \in {"Until", "Release", "And", "Or", "Not"} ->
         UNION {ConeLetters(g[k]) : k \in 2 .. Len(g)}
    [] OTHER -> {Oper(g)}

\* get_transition(): the conjuncts of the next state, after shrink_to_coi().
NextState(c, m) ==
  UNION {ToSet(h) : h \in m.nx \cap UNION {ConeDemands(g) : g \in c}}

\* Changed form: the label is not confined to literals.
LabelAll(f, c, m) == {g \in Visited(f) : TrueIn(g, m)}

\* The literals of the cone that occur in the formula (formula_map_), and make
\* the label of a state.
Label(f, c, m) ==
  LET letters == UNION {ConeLetters(g) : g \in c}
  IN  {g \in Visited(f) :
         \/ IsAtom(g) /\ Oper(g) \in letters \cap m.letters
         \/ Oper(g) = "Not" /\ Oper(g[2]) \in letters \ m.letters}
==============================================================================
