-------------------------------- MODULE SatCheck --------------------------------
(***************************************************************************)
(* What a search of aaltaf promises (CARChecker::car_check and             *)
(* LTLfChecker::dfs_check): given a formula and its encoding it answers    *)
(* once, "sat" exactly when the formula has a finite trace, of whatever    *)
(* length.                                                                 *)
(***************************************************************************)
EXTENDS Traces

VARIABLES
  problem,  \* the formula, problem.goal, and the models, problem.models; any
  answer    \* "none" until the search has answered

vars == <<problem, answer>>

Init == answer = "none"

Answer ==
  /\ answer = "none"
  /\ answer' = IF Satisfiable(problem.models, problem.goal) THEN "sat" ELSE "unsat"
  /\ UNCHANGED problem

SafeSpec == Init /\ [][Answer]_vars

Spec == SafeSpec /\ WF_vars(Answer)
=================================================================================
