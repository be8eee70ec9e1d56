------------------------------- MODULE NaiveMuc -------------------------------
(***************************************************************************)
(* basicMuc() of muc.cpp, the extraction of the methods -naive and         *)
(* -naive-uc: it takes the first conjunct of the formula on the stack off, *)
(* keeps it as a core element when the others and MUC are satisfiable      *)
(* without it, and goes on with the others.                                *)
(*                                                                         *)
(* The test of a conjunct leaves S out of items, unlike muc(): the stack   *)
(* never holds a second formula.  Every recursive call is the last thing   *)
(* an activation does, so the C stack is only counted.                     *)
(***************************************************************************)
EXTENDS UnsatCore, SequencesExt

CONSTANTS
  Conj,     \* the conjuncts of the formula (getAndElement)
  Problems  \* the problems the extraction is started on

ASSUME ConjAssumption == IsFiniteSet(Conj)

ASSUME ProblemsAssumption == \A p \in Problems : IsProblem(Conj, p)

VARIABLES
  problem,  \* the formula and the flag UCEable, fixed by the command line
  S,        \* formulas not determined, the last one is the next to pop
  MUC,      \* conjuncts determined to be in the core
  cf,       \* the formula this activation works on, {} between activations
  depth,    \* suspended activations of basicMuc
  pc        \* "call": basicMuc is entered, "split": cf is set

vars == <<problem, S, MUC, cf, depth, pc>>

Init ==
  /\ problem \in Problems
  /\ S = <<Conj>>
  /\ MUC = {}
  /\ cf = {}
  /\ depth = 0
  /\ pc = "call"

------------------------------------------------------------------------------
\* Pop the last formula and let the UC heuristic shrink it.
Select ==
  LET newf  == Last(S)
      items == ToSet(Front(S)) \cup {{x} : x \in MUC}
  IN  /\ pc = "call"
      /\ S # <<>>
      /\ S' = Front(S)
      /\ IF UCAssertion(problem, newf, items)
         THEN cf' \in SelectParts(problem, newf, items) /\ pc' = "split"
         ELSE cf' = newf /\ pc' = "abort"
      /\ UNCHANGED <<problem, MUC, depth>>

\* Changed form: the last conjunct always becomes a core element.
LastElementAlways ==
  /\ pc = "split"
  /\ Partition(cf) = {}
  /\ MUC' = MUC \cup cf
  /\ cf' = {}
  /\ depth' = depth + 1
  /\ pc' = "call"
  /\ UNCHANGED <<problem, S>>

\* One conjunct is left: it is a core element unless MUC is already
\* unsatisfiable without it.
LastElement ==
  /\ pc = "split"
  /\ Partition(cf) = {}
  /\ MUC' = IF MUC = {} \/ Sat(problem.cores, MUC) THEN MUC \cup cf ELSE MUC
  /\ cf' = {}
  /\ depth' = depth + 1
  /\ pc' = "call"
  /\ UNCHANGED <<problem, S>>

\* Changed form: MUC is left out of items.
NeededWithoutMUC(others) == Sat(problem.cores, others)

\* sat(items), items being the other conjuncts and MUC.
Needed(others) == Sat(problem.cores, others \cup MUC)

\* Changed form: the tested conjunct stays in the formula.
DropFirstKept ==
  /\ pc = "split"
  /\ \E P \in Partition(cf) :
       /\ MUC' = IF Needed(P[2]) THEN MUC \cup P[1] ELSE MUC
       /\ S' = Append(S, cf)
  /\ cf' = {}
  /\ depth' = depth + 1
  /\ pc' = "call"
  /\ UNCHANGED problem

\* Take the first conjunct off; it is a core element when the others and MUC
\* are satisfiable.
DropFirst ==
  /\ pc = "split"
  /\ \E P \in Partition(cf) :
       /\ MUC' = IF Needed(P[2]) THEN MUC \cup P[1] ELSE MUC
       /\ S' = Append(S, P[2])
  /\ cf' = {}
  /\ depth' = depth + 1
  /\ pc' = "call"
  /\ UNCHANGED problem

\* Changed form: a returning activation makes its recursive call again.
ReturnCallsAgain ==
  /\ pc = "call"
  /\ S = <<>>
  /\ pc' = IF depth = 0 THEN "done" ELSE "call"
  /\ UNCHANGED <<problem, S, MUC, cf, depth>>

\* S is empty: every activation returns in turn, the outermost to get_muc.
Return ==
  /\ pc = "call"
  /\ S = <<>>
  /\ depth' = IF depth = 0 THEN 0 ELSE depth - 1
  /\ pc' = IF depth = 0 THEN "done" ELSE "call"
  /\ UNCHANGED <<problem, S, MUC, cf>>

Terminated == pc = "done" /\ UNCHANGED vars

Next == Select \/ LastElement \/ DropFirst \/ Return \/ Terminated

Spec == Init /\ [][Next]_vars

\* The extraction runs alone in its process: it goes on while it can.
FairSpec == Spec /\ WF_vars(Next)

------------------------------------------------------------------------------
\* Everything the search still works with.
InPlay == (UNION ToSet(S)) \cup MUC \cup cf

\* Types; no formula is the empty conjunction, on which constructAnd asserts,
\* and S holds one formula at most, which is why the test of a conjunct may
\* leave it out.
TypeOK ==
  /\ IsProblem(Conj, problem)
  /\ S \in Seq((SUBSET Conj) \ {{}})
  /\ Len(S) <= 1
  /\ MUC \in SUBSET Conj
  /\ cf \in SUBSET Conj
  /\ depth \in Nat
  /\ pc \in {"call", "split", "done", "abort"}
  /\ pc = "split" => cf # {} /\ S = <<>>
  /\ pc \in {"call", "done"} => cf = {}

\* The parts that are kept are always unsatisfiable together: what was
\* dropped is not needed for the conflict.
StillUnsat == Unsat(problem.cores, InPlay)

\* Every core that is still in play holds the whole of MUC: no conjunct put
\* into MUC turns out redundant later.
CoreHoldsMUC ==
  \A M \in SUBSET InPlay : Unsat(problem.cores, M) => MUC \subseteq M

\* assert(!s.SAT()), "guaranteed by !sat(items)", never fails.
UCAssertionHolds == pc # "abort"

\* The recursion is no deeper than the formula has conjuncts.
DepthBound == depth <= Cardinality(Conj)

\* The extraction returns.
Termination == <>(pc = "done")

Extraction == INSTANCE CoreExtraction
                WITH core <- IF pc = "done" THEN MUC ELSE {}

\* basicMuc() answers once, with a minimal unsatisfiable core.
RefinesExtraction == Extraction!SafeSpec
==============================================================================
