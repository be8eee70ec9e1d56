------------------------------- MODULE GlobalMuc -------------------------------
(***************************************************************************)
(* MUCSolver of msolver.cpp, the extraction of the method -global: the     *)
(* obligations ofg() of the conjuncts are written to a file as a clause    *)
(* set, the external tool muser2 writes a minimal unsatisfiable subset of  *)
(* the clauses to another file, and the unit clauses in it are translated  *)
(* back to conjuncts.                                                      *)
(*                                                                         *)
(* A clause set is unsatisfiable or not, nothing else of it is visible, so *)
(* a problem gives the family "cores" that generates its unsatisfiable     *)
(* subsets.  There is one unit clause for each id of an obligation, given  *)
(* by that id, and there are the clauses that define ids by others.        *)
(***************************************************************************)
EXTENDS UnsatCore, SequencesExt, Functions

CONSTANTS
  Conj,      \* the conjuncts of the formula
  Ids,       \* the ids of their obligations, each also its unit clause
  Defs,      \* the clauses that define ids, for all conjuncts
  Problems

ASSUME ConjAssumption == IsFiniteSet(Conj) /\ Ids \cap Defs = {}

(***************************************************************************)
(* A problem: the id of the obligation of every conjunct, the conjuncts    *)
(* whose obligation was simplified to false, and the unsatisfiable sets of *)
(* clauses.  Definitions contradict nothing; the formula is unsatisfiable. *)
(***************************************************************************)
IsClauseProblem(p) ==
  /\ p \in [id : [Conj -> Ids], false : SUBSET Conj,
            cores : SUBSET SUBSET (Ids \cup Defs)]
  /\ Sat(p.cores, Defs)
  /\ Unsat(p.cores, Range(p.id) \cup Defs)
  \* false is one formula, with one id, and it is unsatisfiable alone
  /\ \A x \in p.false : Unsat(p.cores, {p.id[x]} \cup Defs)

ASSUME ProblemsAssumption == \A p \in Problems : IsClauseProblem(p)

VARIABLES
  problem,
  muc_,             \* the conjunct found to be false, as a set with one member
  id_formula_map_,  \* ids back to conjuncts
  input,            \* the file MUCINPUT
  output,           \* the file MUCOUTPUT
  tool,             \* whether muser2 was found and has written its output
  res,              \* the answer
  pc

vars == <<problem, muc_, id_formula_map_, input, output, tool, res, pc>>

\* A file is the set of its contents: empty when it does not exist, otherwise
\* with the clause set that it holds as the only member.
absent == {}

File == {absent} \cup {{F} : F \in SUBSET (Ids \cup Defs)}

Init ==
  /\ problem \in Problems
  /\ muc_ = {}
  /\ id_formula_map_ = <<>>
  /\ input = absent
  /\ output = absent
  /\ tool = FALSE
  /\ res = {}
  /\ pc = "create"

\* The maps that insert() can build from the conjuncts X: of those with one
\* obligation, the first in the order of the hash set is the one that is kept.
Maps(X) == {f \in [{problem.id[x] : x \in X} -> X] :
              \A i \in DOMAIN f : problem.id[f[i]] = i}

\* create_dimacs: the loop over the conjuncts, X those before a conjunct with a
\* false obligation, which is the answer, and no file is written; else every
\* obligation goes to the file.
Create ==
  /\ pc = "create"
  /\ IF problem.false # {}
     THEN /\ \E x \in problem.false : muc_' = {x}
          /\ \E X \in SUBSET (Conj \ problem.false) : id_formula_map_' \in Maps(X)
          /\ UNCHANGED input
     ELSE /\ id_formula_map_' \in Maps(Conj)
          /\ input' = {Range(problem.id) \cup Defs}
          /\ UNCHANGED muc_
  /\ pc' = "muc"
  /\ UNCHANGED <<problem, output, tool, res>>

\* muc(): a conjunct that is false is a core by itself.
FalseConjunct ==
  /\ pc = "muc"
  /\ muc_ # {}
  /\ res' = muc_
  /\ pc' = "done"
  /\ UNCHANGED <<problem, muc_, id_formula_map_, input, output, tool>>

\* What muser2 may write: a minimal unsatisfiable subset of the clauses.
MinimalSubsets(F) == {M \in SUBSET F : IsMUC(problem.cores, M)}

\* system(cmd): the tool runs, or is not found and writes no file.  Its exit
\* code is not looked at.
RunTool ==
  /\ pc = "muc"
  /\ muc_ = {}
  /\ \/ output' \in {{M} : M \in MinimalSubsets(UNION input)} /\ tool' = TRUE
     \/ UNCHANGED <<output, tool>>
  /\ pc' = "extract"
  /\ UNCHANGED <<problem, muc_, id_formula_map_, input, res>>

\* Changed form: one unit clause is lost.
UnitsButOne(F) == IF F \cap Ids = {} THEN {} ELSE (F \cap Ids) \ {CHOOSE i \in F \cap Ids : TRUE}

\* extract_muc_numbers_from_file: the lines with one number.
Units(F) == F \cap Ids

\* The conjuncts that the map holds for the ids.
Conjuncts(U) == {id_formula_map_[i] : i \in U \cap DOMAIN id_formula_map_}

\* extract_muc_from_file: the conjuncts of the unit clauses; none when the file
\* cannot be opened.  The output file is removed.
Extract ==
  /\ pc = "extract"
  /\ res' = Conjuncts(Units(UNION output))
  /\ output' = absent
  /\ pc' = "remove"
  /\ UNCHANGED <<problem, muc_, id_formula_map_, input, tool>>

\* Changed form: nothing is removed when the answer is empty.
RemoveIfFound ==
  /\ pc = "remove"
  /\ input' = IF res = {} THEN input ELSE absent
  /\ pc' = "done"
  /\ UNCHANGED <<problem, muc_, id_formula_map_, output, tool, res>>

\* The input file is removed.
RemoveInput ==
  /\ pc = "remove"
  /\ input' = absent
  /\ pc' = "done"
  /\ UNCHANGED <<problem, muc_, id_formula_map_, output, tool, res>>

Terminated == pc = "done" /\ UNCHANGED vars

Next ==
  \/ Create \/ FalseConjunct \/ RunTool \/ Extract \/ RemoveInput \/ Terminated

Spec == Init /\ [][Next]_vars

------------------------------------------------------------------------------
\* A set of conjuncts is unsatisfiable when the unit clauses of their
\* obligations are, with the definitions of all ids.
UnsatConj(X) == Unsat(problem.cores, {problem.id[x] : x \in X} \cup Defs)

\* Types.
TypeOK ==
  /\ IsClauseProblem(problem)
  /\ muc_ \in SUBSET Conj /\ Cardinality(muc_) <= 1
  /\ \E X \in SUBSET Conj : id_formula_map_ \in Maps(X)
  /\ input \in File /\ output \in File
  /\ tool \in BOOLEAN
  /\ res \in SUBSET Conj
  /\ pc \in {"create", "muc", "extract", "remove", "done"}

\* The answer is a conflict, whichever of the conjuncts with one obligation was
\* kept in the map, and it holds no second one of them; there is none exactly
\* when muser2 did not run.
AnswerIsConflict ==
  pc = "done" =>
    /\ IF tool \/ muc_ # {} THEN UnsatConj(res) ELSE res = {}
    /\ \A x, y \in res : problem.id[x] = problem.id[y] => x = y

\* No file named after the process stays behind, however the run went.
NoFileLeft == pc = "done" => input = absent /\ output = absent

\* main.cpp:122: "use the GLOBAL approach to obtain MUC".  When the tool has
\* answered, the answer is minimal.
AnswerIsMUC ==
  pc = "done" /\ tool =>
    /\ UnsatConj(res)
    /\ \A x \in res : ~ UnsatConj(res \ {x})
==============================================================================
