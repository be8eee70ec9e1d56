------------------------------ MODULE MCGlobalMuc ------------------------------
(***************************************************************************)
(* Two obligations with two definitions, for three conjuncts, and every    *)
(* family of unsatisfiable clause sets.                                    *)
(***************************************************************************)
EXTENDS GlobalMuc, MCProblems

CONSTANTS c1, c2, c3, i1, i2, d1, d2

MCClauseProblems ==
  {p \in [id : [Conj -> Ids], false : SUBSET Conj, cores : Antichains(Ids \cup Defs)] :
     /\ IsClauseProblem(p)
     /\ \A x, y \in p.false : p.id[x] = p.id[y]
     /\ \A x \in p.false : \A y \in Conj : p.id[x] = p.id[y] => y \in p.false}
==============================================================================
