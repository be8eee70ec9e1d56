------------------------------ MODULE MCProblems ------------------------------
(***************************************************************************)
(* The problems the extractions are checked on: every pair of families     *)
(* over the conjuncts C, each given by its minimal sets, with and without  *)
(* the UC heuristic (without it the second family is never looked at).     *)
(***************************************************************************)
EXTENDS UnsatCore

Antichains(C) ==
  {F \in SUBSET ((SUBSET C) \ {{}}) : \A A, B \in F : A \subseteq B => A = B}

AllProblems(C) ==
  {p \in [cores : Antichains(C) \ {{}}, off : Antichains(C), uc : BOOLEAN] :
     /\ \A A \in p.cores : Unsat(p.off, A)
     /\ p.uc \/ p.off = p.cores}
===============================================================================
