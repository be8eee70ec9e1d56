---------------------------- MODULE CoreExtraction ----------------------------
(***************************************************************************)
(* What an extraction method of aaltaf promises: started on an             *)
(* unsatisfiable conjunction it answers once, with a minimal unsatisfiable *)
(* core of it ("MUC is right" for check_muc of main.cpp).                  *)
(***************************************************************************)
EXTENDS UnsatCore

CONSTANTS Conj, Problems

VARIABLES
  problem,  \* the formula and the options it is extracted with
  core      \* {} until the method has answered

vars == <<problem, core>>

Init ==
  /\ problem \in Problems
  /\ core = {}

Answer ==
  /\ core = {}
  /\ \E M \in SUBSET Conj : IsMUC(problem.cores, M) /\ core' = M
  /\ UNCHANGED problem

SafeSpec == Init /\ [][Answer]_vars

Spec == SafeSpec /\ WF_vars(Answer)
===============================================================================
