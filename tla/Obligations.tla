------------------------------ MODULE Obligations ------------------------------
(***************************************************************************)
(* The clauses that msolver.cpp makes of obligations: those of UCSolver,   *)
(* for its own SAT solver, and those of MUCSolver, for the file that       *)
(* muser2 reads.  The variable of a formula is its id, here the formula;   *)
(* a literal is a formula and a sign, a clause a set of literals.          *)
(***************************************************************************)
EXTENDS Rewriting

Pos(f) == <<f, TRUE>>

Neg(f) == <<f, FALSE>>

RECURSIVE ClausesFor(_)

\* create_clauses_for() and create_partial_dimacs(): f and its operands are
\* equivalent to what they mean.  No clause is made for True and False.
ClausesFor(f) ==
  LET l == Left(f)
      r == Right(f)
  IN  CASE Oper(f) = "Not" -> {{Pos(f), Pos(r)}, {Neg(f), Neg(r)}}
        [] Oper(f) = "And" -> {{Neg(f), Pos(l)}, {Neg(f), Pos(r)}, {Pos(f), Neg(l), Neg(r)}}
                                \cup ClausesFor(l) \cup ClausesFor(r)
        [] Oper(f) = "Or"  -> {{Pos(f), Neg(l)}, {Pos(f), Neg(r)}, {Neg(f), Pos(l), Pos(r)}}
                                \cup ClausesFor(l) \cup ClausesFor(r)
        [] OTHER -> {}

Variables(C) == {l[1] : l \in UNION C}

\* The answer of a SAT solver, MiniSat or the one of muser2.
ClausesSat(C) ==
  \E T \in SUBSET Variables(C) : \A c \in C : \E l \in c : (l[1] \in T) = l[2]

------------------------------------------------------------------------------
\* The constructor of UCSolver and SAT(): the obligations of the conjuncts of af
\* are assumed, those of the formulas in others are unit clauses.
UCClauses(af, others) ==
  LET obligations == {Off(c) : c \in ToSet(af)} \cup {Off(g) : g \in others}
  IN  {{Pos(o)} : o \in obligations} \cup UNION {ClausesFor(o) : o \in obligations}

FalseDetected(af, others) ==
  \E c \in ToSet(af) \cup others : Off(c) = False

\* What the assertion on s.SAT() is about.
UCSolverSat(af, others) ==
  ~ FalseDetected(af, others) /\ ClausesSat(UCClauses(af, others))

\* create_dimacs() for the conjuncts in K.
Dimacs(K) ==
  LET obligations == {Ofg(c) : c \in K}
  IN  {{Pos(o)} : o \in obligations} \cup UNION {ClausesFor(o) : o \in obligations}

\* muc() of MUCSolver finds a conflict: an obligation is false, or the file is
\* unsatisfiable.
MUCSolverConflict(K) == (\E c \in K : Ofg(c) = False) \/ ~ ClausesSat(Dimacs(K))
================================================================================
