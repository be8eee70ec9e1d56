-------------------------------- MODULE LtlfSat --------------------------------
(***************************************************************************)
(* The satisfiability check of one formula from its text to the answer:    *)
(* the parsed formula is rewritten (ltlf_sat() of main.cpp, sat() of       *)
(* muc.cpp), CARChecker::check() tries its shortcuts, and car_check walks  *)
(* through the states of a trace.  main() simplifies the formula, sat()    *)
(* does not.                                                               *)
(*                                                                         *)
(* The walk stands for every path that try_satisfy can go; the frames that *)
(* keep it from useless ones, and let it stop, are those of CarCheck.  It  *)
(* goes on only from a state that cannot be the last one, as CarCheck has  *)
(* it (ShortestFirst).                                                     *)
(***************************************************************************)
EXTENDS StepEncoding, OlgItem, Obligations, FormulaTable, FiniteSetsExt

CONSTANTS
  Inputs,       \* the syntax trees that are checked
  MaxSteps,     \* the bound on the steps of a walk
  TraceLength   \* the bound on the traces the answers are compared with

ASSUME BoundsAssumption == {MaxSteps, TraceLength} \subseteq Nat \ {0}

VARIABLES
  input,      \* the syntax tree
  accepted,   \* history: the finite traces of the tree, up to TraceLength
  pipeline,   \* "main" or "sat"
  formula,    \* af, from one rewriting to the next
  all_afs,    \* the formulas in the order of their ids
  now,        \* the conjuncts of the state of the walk
  labels,     \* the labels of the states that the walk has left
  pc

vars == <<input, accepted, pipeline, formula, all_afs, now, labels, pc>>

------------------------------------------------------------------------------
RECURSIVE Meaning(_)

\* What a syntax tree means, in terms of Not, Or, X and Until alone.
Meaning(t) ==
  LET M(s) == Meaning(s)
      A(f, g) == Not(Or(Not(f), Not(g)))
      G(f) == Not(Until(True, Not(f)))
  IN  CASE t[1] = "!"   -> Not(M(t[2]))
        [] t[1] = "X"   -> X(M(t[2]))
        [] t[1] = "N"   -> Not(X(Not(M(t[2]))))
        [] t[1] = "G"   -> G(M(t[2]))
        [] t[1] = "F"   -> Until(True, M(t[2]))
        [] t[1] = "U"   -> Until(M(t[2]), M(t[3]))
        [] t[1] = "R"   -> Not(Until(Not(M(t[2])), Not(M(t[3]))))
        [] t[1] = "W"   -> Or(G(M(t[2])), Until(M(t[2]), M(t[3])))
        [] t[1] = "&"   -> A(M(t[2]), M(t[3]))
        [] t[1] = "|"   -> Or(M(t[2]), M(t[3]))
        [] t[1] = "->"  -> Or(Not(M(t[2])), M(t[3]))
        [] t[1] = "<->" -> A(Or(Not(M(t[2])), M(t[3])), Or(Not(M(t[3])), M(t[2])))
        [] t[1] = "true"  -> True
        [] t[1] = "false" -> False
        [] OTHER -> t

AllTraces == Traces(AtomsOf(Meaning(input)), TraceLength)

------------------------------------------------------------------------------
RECURSIVE Created(_, _)

\* The table after f was built from its operands.  What a rewriting makes on the
\* way to its result is left out; it leaves gaps in the ids.
Created(T, f) ==
  CASE Len(f) = 1 -> Unique(T, f)
    [] Len(f) = 2 -> Unique(Created(T, f[2]), f)
    [] Len(f) = 3 -> Unique(Created(Created(T, f[2]), f[3]), f)

\* Changed form: main() does not call TAIL() first.
NoFormulas == <<>>

\* main.cpp:192: "set tail id to be 1".
FirstFormulas == Unique(<<>>, TAIL)

Init ==
  /\ input \in Inputs
  /\ accepted = {tr \in AllTraces : Holds(Meaning(input), tr)}
  /\ pipeline \in {"main", "sat"}
  /\ formula = Build(input, FALSE)
  /\ all_afs = Created(FirstFormulas, Build(input, FALSE))
  /\ now = {}
  /\ labels = <<>>
  /\ pc = "parsed"

\* The rewritings, one call of the code each.
Rewrite(from, new, to) ==
  /\ pc = from
  /\ formula' = new
  /\ all_afs' = Created(all_afs, new)
  /\ pc' = to
  /\ UNCHANGED <<input, accepted, pipeline, now, labels>>

ToNnf == Rewrite("parsed", Nnf(formula), "nnf")

GuardNext == Rewrite("nnf", AddTail(formula), "tailed")

DropWNext == Rewrite("tailed", RemoveWNext(formula), "strong")

\* The call that sat() of muc.cpp has commented out.
Reduce == pipeline = "main" /\ Rewrite("strong", Simplify(formula), "simplified")

DistributeNext ==
  Rewrite(IF pipeline = "main" THEN "simplified" ELSE "strong",
          SplitNext(formula), "split")

\* target_atom(): the only negated atom among the disjuncts of a G formula
\* without other literals.
TargetAtoms(g) ==
  LET D == ToOrSet(Right(g))
      negated == {d[2] : d \in {h \in D : Oper(h) = "Not"}}
  IN  IF IsGlobally(g) /\ Cardinality(negated) = 1 /\ ~ \E d \in D : IsAtom(d)
      THEN negated ELSE {}

\* car_check() by its contract: no path leads to a last state.
RECURSIVE ReachableFrom(_, _)

ReachableFrom(S, A) ==
  LET T == S \cup UNION {{NextState(c, m) : m \in {n \in A : Satisfies(n, c)}} : c \in S}
  IN  IF T = S THEN S ELSE ReachableFrom(T, A)

CarCheckUnsat(f) ==
  LET A == Assignments(f)
  IN  \A c \in ReachableFrom({ToSet(f)}, A) : Finals(c, A) = {}

\* extract_for_partial_unsat() and partial_unsat(): a G formula is checked
\* together with the atom that it is about, if that is a conjunct, too.
PartialUnsat(S) ==
  {CarCheckUnsat(And(f, g)) : <<f, g>> \in {p \in S \X S : p[1] \in TargetAtoms(p[2])}}

\* check(): the constants, the off-line heuristic, partial_unsat.  Of several
\* atoms with a G formula, the first in the order of the addresses is checked.
Check ==
  /\ pc = "split"
  /\ \/ /\ formula = True
        /\ labels' = <<{}>>
        /\ pc' = "sat"
        /\ UNCHANGED now
     \/ /\ formula = False
        /\ pc' = "unsat"
        /\ UNCHANGED <<now, labels>>
     \/ /\ formula \notin {True, False}
        /\ IF IsWNextFree(formula) /\ OlgCrashes(formula)
           THEN pc' = "abort" /\ UNCHANGED now
           ELSE IF IsWNextFree(formula) /\ OlgUnsat(formula)
           THEN pc' = "unsat" /\ UNCHANGED now
           ELSE LET P == PartialUnsat(ToSet(formula))
                IN  \E unsat \in (IF P = {} THEN {FALSE} ELSE P) :
                      IF unsat THEN pc' = "unsat" /\ UNCHANGED now
                      ELSE now' = ToSet(formula) /\ pc' = "search"
        /\ UNCHANGED labels
  /\ UNCHANGED <<input, accepted, pipeline, formula, all_afs>>

\* sat_once() finds a model of the state with Tail.
LastState ==
  /\ pc = "search"
  /\ \E m \in Finals(now, Assignments(formula)) :
       labels' = Append(labels, Label(formula, now, m))
  /\ pc' = "sat"
  /\ UNCHANGED <<input, accepted, pipeline, formula, all_afs, now>>

\* get_transition(): a step to a next state.
Step ==
  /\ pc = "search"
  /\ Len(labels) < MaxSteps
  /\ LET A == Assignments(formula)
     IN  /\ Finals(now, A) = {}
         /\ \E m \in {n \in A : Satisfies(n, now)} :
              /\ labels' = Append(labels, Label(formula, now, m))
              /\ now' = NextState(now, m)
  /\ UNCHANGED <<input, accepted, pipeline, formula, all_afs, pc>>

\* inv_found(): car_check() answers that there is no trace.
Refuted ==
  /\ pc = "search"
  /\ labels = <<>>
  /\ CarCheckUnsat(formula)
  /\ pc' = "unsat"
  /\ UNCHANGED <<input, accepted, pipeline, formula, all_afs, now, labels>>

Next ==
  ToNnf \/ GuardNext \/ DropWNext \/ Reduce \/ DistributeNext \/ Check
    \/ LastState \/ Step \/ Refuted

Spec == Init /\ [][Next]_vars

------------------------------------------------------------------------------
Compatible(tr) ==
  \A k \in DOMAIN labels : \A l \in labels[k] :
    IF IsAtom(l) THEN Oper(l) \in tr[k] ELSE Oper(l[2]) \notin tr[k]

\* A trace on which every conjunct of c holds.
Meets(tr, c) == \A g \in c : 1 \in Positions(g, Tailed(tr), "loop")

\* Types.
TypeOK ==
  /\ input \in Inputs
  /\ accepted \subseteq AllTraces
  /\ pipeline \in {"main", "sat"}
  /\ Injective(all_afs) /\ formula \in Entries(all_afs)
  /\ now \subseteq Subformulas(formula)
  /\ \A k \in DOMAIN labels : \A l \in labels[k] : IsLiteral(l)
  /\ Len(labels) <= MaxSteps + 1
  /\ pc \in {"parsed", "nnf", "tailed", "strong", "simplified", "split", "search",
             "sat", "unsat", "abort"}

\* No rewriting adds a finite trace or loses one: before Next is guarded with
\* Tail the formula means what the tree means, afterwards it does when Tail is
\* in the last state and in no other, whatever Next is worth there.
RewritingKeepsTraces ==
  pc \in {"parsed", "nnf", "tailed", "strong", "simplified", "split"} =>
    \A tr \in AllTraces :
      IF pc \in {"parsed", "nnf"} THEN Holds(formula, tr) <=> tr \in accepted
      ELSE IF tr \in accepted THEN HoldsTailed(formula, tr)
      ELSE FailsTailed(formula, tr)

\* The answer unsat is right, be it from simplify(), from the off-line heuristic,
\* from partial_unsat() or from car_check: there is no trace up to the bound.
UnsatIsRight == pc = "unsat" => accepted = {}

\* The answer sat is right, and the labels that were recorded show it: they leave
\* atoms open, and every trace that agrees with them satisfies the tree.
LabelsSuffice ==
  pc = "sat" =>
    \A tr \in [1 .. Len(labels) -> SUBSET AtomsOf(Meaning(input))] :
      Compatible(tr) => Holds(Meaning(input), tr)

\* The encoding loses nothing: the walk can follow every trace that starts at
\* the state where it is.
WalkFollowsTraces ==
  pc = "search" =>
    LET A == Assignments(formula)
    IN  \A tr \in AllTraces : Meets(tr, now) =>
          \E m \in A :
            /\ Satisfies(m, now)
            /\ IsTail(m) <=> Len(tr) = 1
            /\ m.letters \ {"Tail"} = tr[1] \cap Letters(formula)
            /\ Len(tr) > 1 => Meets(Tail(tr), NextState(now, m))

\* What CarCheck and DfsCheck assume of an encoding.  Shrinking a model to the
\* cone demands no less than some model does: whatever follows the shrunk one
\* follows a model of the same state.  Some model with Tail demands only what
\* holds in itself, and so does one of the state itself if it has models with
\* Tail.  A global formula is handed to the next state.  Every conjunct
\* that is demanded is a subformula of the state and has a Next variable, so that
\* no UC of a state that can come up is discarded (carsolver.cpp:31).
EncodingAsAssumed ==
  pc = "search" =>
    LET A == Assignments(formula)
        On(m) == {g \in Visited(formula) : TrueIn(g, m)}
        States == {On(m) : m \in A}
        here == {m \in A : Satisfies(m, now)}
    IN  /\ \A m \in here :
             LET next == NextState(now, m)
             IN  /\ next \subseteq
                      Demandable(formula) \cap UNION {Subformulas(g) : g \in now}
                 /\ \A on \in {s \in States : next \subseteq s} :
                   /\ \E k \in here : k.letters = m.letters /\ k.nx \subseteq on
                   /\ IsGlobal(formula) /\ now = ToSet(formula) /\ ~ IsTail(m) =>
                        now \subseteq on
        /\ \E t \in A : IsTail(t) /\ t.nx \subseteq On(t)
        /\ (\E m \in here : IsTail(m)) => \E t \in here : IsTail(t) /\ t.nx \subseteq On(t)

\* The formulas that are variables in the clauses of Solver: the visited ones, a
\* negated atom as its atom, and Tail.
Known == {g \in Visited(formula) : Oper(g) # "Not"} \cup {TAIL}

\* What gets a new variable: the Next of an Until or Release of which the formula
\* has none, and the second half of its definition.
Fresh ==
  LET fixpoints == {g \in Visited(formula) : Oper(g) \in {"Until", "Release"}}
  IN  FoldSet(LAMBDA u, seq : Append(seq, u), <<>>,
              {<<"next of", g>> : g \in {h \in fixpoints : X(h) \notin Visited(formula)}}
                \cup {<<"rest of", g>> : g \in fixpoints})

\* solver.cpp:56: "the id of f is greater than that of its any subformula", and
\* than that of Tail, which the constructor would create only after f: no
\* variable of the encoding stands for two things.
VariablesDistinct ==
  pc = "split" /\ formula \notin {True, False} =>
    DistinctVariables(Unique(all_afs, TAIL), formula, Known, Fresh)

\* Some trace satisfies all of K.
HaveTrace(K) == \E tr \in AllTraces : \A c \in K : Holds(c, tr)

\* muc.cpp:310: assert(!s.SAT()).  However the conjuncts of a formula are split
\* into the part that is looked into and the rest, obligations that the SAT
\* solver can meet show that the formula has a trace.
OffSatIsRight ==
  pc = "parsed" =>
    \A P \in SUBSET ToSet(formula) \ {{}} :
      UCSolverSat(ChainOf("And", P), ToSet(formula) \ P) => accepted # {}

\* What GlobalMuc takes for granted: a set of conjuncts of a global formula has
\* no trace just when their obligations are in conflict, in the clauses that are
\* written for them or by being false.
OfgExact ==
  pc = "parsed" /\ IsGlobal(formula) =>
    \A K \in SUBSET ToSet(formula) \ {{}} : MUCSolverConflict(K) <=> ~ HaveTrace(K)

\* olg_item.cpp:819: what the off-line heuristic finds unsatisfiable is.
OlgUnsatIsRight == pc = "split" /\ OlgUnsat(formula) => accepted = {}
==============================================================================
