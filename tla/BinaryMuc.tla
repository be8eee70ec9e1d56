------------------------------ MODULE BinaryMuc ------------------------------
(***************************************************************************)
(* muc() of muc.cpp, the recursive extraction of the methods -binary and   *)
(* -binary-uc: the stack S holds formulas (sets of conjuncts) that are not *)
(* determined yet, MUC the conjuncts found to belong to the core.  One     *)
(* activation pops a formula, may shrink it with the UC heuristic, cuts it *)
(* in two halves and keeps the half that suffices, or both.                *)
(*                                                                         *)
(* An activation is two steps, up to the assignment of cf and from the     *)
(* partition of cf to the recursive call.  calls is the C call stack: for  *)
(* every suspended activation the call it waits for, one of the three      *)
(* recursive calls in the source.                                          *)
(***************************************************************************)
EXTENDS UnsatCore, SequencesExt

CONSTANTS
  Conj,     \* the conjuncts of the formula (getAndElement)
  Problems  \* the problems the extraction is started on

ASSUME ConjAssumption == IsFiniteSet(Conj)

ASSUME ProblemsAssumption == \A p \in Problems : IsProblem(Conj, p)

VARIABLES
  problem,  \* the formula and the flag UCEable, fixed by the command line
  S,        \* formulas not determined, the last one is the next to pop
  MUC,      \* conjuncts determined to be in the core
  cf,       \* the formula this activation works on, {} between activations
  calls,    \* suspended activations, by the call they are suspended in
  pc        \* "call": muc is entered, "split": cf is set

vars == <<problem, S, MUC, cf, calls, pc>>

\* What is fixed or still open besides the formula being worked on.
Rest == (UNION ToSet(S)) \cup MUC

Init ==
  /\ problem \in Problems
  /\ S = <<Conj>>
  /\ MUC = {}
  /\ cf = {}
  /\ calls = <<>>
  /\ pc = "call"

------------------------------------------------------------------------------
\* Pop the last formula and let the UC heuristic shrink it.
Select ==
  LET newf  == Last(S)
      items == ToSet(Front(S)) \cup {{x} : x \in MUC}
  IN  /\ pc = "call"
      /\ S # <<>>
      /\ S' = Front(S)
      /\ IF UCAssertion(problem, newf, items)
         THEN cf' \in SelectParts(problem, newf, items) /\ pc' = "split"
         ELSE cf' = newf /\ pc' = "abort"
      /\ UNCHANGED <<problem, MUC, calls>>

\* One conjunct: it has to be a core element.
Element ==
  /\ pc = "split"
  /\ binaryPartition(cf) = {}
  /\ MUC' = MUC \cup cf
  /\ cf' = {}
  /\ calls' = Append(calls, "element")
  /\ pc' = "call"
  /\ UNCHANGED <<problem, S>>

\* Changed form: a formula that can be partitioned is taken for an element.
ElementsOfAny(X) == X

\* A formula that cannot be partitioned has to be a core element,
Elements(X) == IF binaryPartition(X) = {} THEN X ELSE {}

\* any other one is pushed on the stack.
Push(s, X) == IF binaryPartition(X) = {} THEN s ELSE Append(s, X)

\* Changed form: S is left out of items.
SufficesWithoutS(X) == Unsat(problem.cores, X \cup MUC)

\* Changed form: items still holds the formula cf.
SufficesWithCf(X) == Unsat(problem.cores, X \cup Rest \cup cf)

\* !sat(items), items being X, MUC and S.
Suffices(X) == Unsat(problem.cores, X \cup Rest)

\* One half is enough with the rest: the other one is dropped.  The first
\* half is tried first.
KeepHalf ==
  /\ pc = "split"
  /\ \E P \in binaryPartition(cf) :
       /\ Suffices(P[1]) \/ Suffices(P[2])
       /\ LET half == IF Suffices(P[1]) THEN P[1] ELSE P[2]
          IN  /\ MUC' = MUC \cup Elements(half)
              /\ S' = Push(S, half)
  /\ cf' = {}
  /\ calls' = Append(calls, "half")
  /\ pc' = "call"
  /\ UNCHANGED problem

\* Neither half is enough: both hold a core element.
KeepBoth ==
  /\ pc = "split"
  /\ \E P \in binaryPartition(cf) :
       /\ ~ Suffices(P[1]) /\ ~ Suffices(P[2])
       /\ MUC' = MUC \cup Elements(P[1]) \cup Elements(P[2])
       /\ S' = Push(Push(S, P[1]), P[2])
  /\ cf' = {}
  /\ calls' = Append(calls, "last")
  /\ pc' = "call"
  /\ UNCHANGED problem

\* Changed form: a returning activation makes its last call again.
ReturnCallsAgain ==
  /\ pc = "call"
  /\ S = <<>>
  /\ calls # <<>>
  /\ calls' = Append(Front(calls), "last")
  /\ UNCHANGED <<problem, S, MUC, cf, pc>>

\* S is empty: return.  An activation suspended in the call it makes for a
\* half goes on to its last call, which returns at once.
Return ==
  /\ pc = "call"
  /\ S = <<>>
  /\ calls # <<>>
  /\ calls' = IF Last(calls) = "half" THEN Append(Front(calls), "last")
                                      ELSE Front(calls)
  /\ UNCHANGED <<problem, S, MUC, cf, pc>>

\* The outermost activation returns to get_muc.
Finish ==
  /\ pc = "call"
  /\ S = <<>>
  /\ calls = <<>>
  /\ pc' = "done"
  /\ UNCHANGED <<problem, S, MUC, cf, calls>>

Terminated == pc = "done" /\ UNCHANGED vars

Next ==
  \/ Select \/ Element \/ KeepHalf \/ KeepBoth \/ Return \/ Finish
  \/ Terminated

Spec == Init /\ [][Next]_vars

\* The extraction runs alone in its process: it goes on while it can.
FairSpec == Spec /\ WF_vars(Next)

------------------------------------------------------------------------------
\* Everything the search still works with.
InPlay == Rest \cup cf

\* Types; no formula is the empty conjunction, on which constructAnd asserts.
TypeOK ==
  /\ IsProblem(Conj, problem)
  /\ S \in Seq((SUBSET Conj) \ {{}})
  /\ MUC \in SUBSET Conj
  /\ cf \in SUBSET Conj
  /\ calls \in Seq({"element", "half", "last"})
  /\ pc \in {"call", "split", "done", "abort"}
  /\ pc = "split" => cf # {}
  /\ pc \in {"call", "done"} => cf = {}

\* The formulas of S, the core elements and cf never share a conjunct, so no
\* conjunct is reported twice.
Disjoint ==
  /\ \A i, j \in DOMAIN S : i # j => S[i] \cap S[j] = {}
  /\ MUC \cap UNION ToSet(S) = {}
  /\ cf \cap Rest = {}

\* The parts that are kept are always unsatisfiable together: what was
\* dropped is not needed for the conflict.
StillUnsat == Unsat(problem.cores, InPlay)

\* The comment of muc(): "there must be at least one MUC element in each
\* formula" of S.  Every core that is still in play holds the whole of MUC and
\* meets every formula of S, and cf.
CoreInEachFormula ==
  \A M \in SUBSET InPlay :
    Unsat(problem.cores, M) =>
      /\ MUC \subseteq M
      /\ \A i \in DOMAIN S : S[i] \cap M # {}
      /\ cf # {} => cf \cap M # {}

\* What is in play besides the formula S[i].
Others(i) == (UNION {S[j] : j \in DOMAIN S \ {i}}) \cup MUC \cup cf

\* The same without quantifying over cores: the rest without one of the
\* formulas, or without one element of MUC, is satisfiable.
EachNeeded ==
  /\ \A i \in DOMAIN S : Sat(problem.cores, Others(i))
  /\ \A x \in MUC : Sat(problem.cores, InPlay \ {x})
  /\ cf # {} => Sat(problem.cores, Rest)

\* assert(!s.SAT()), "guaranteed by !sat(items)", never fails.
UCAssertionHolds == pc # "abort"

\* The recursion is no deeper than the formula has conjuncts.
DepthBound == Len(calls) <= Cardinality(Conj)

\* The extraction returns.
Termination == <>(pc = "done")

Extraction == INSTANCE CoreExtraction
                WITH core <- IF pc = "done" THEN MUC ELSE {}

\* muc() answers once, with a minimal unsatisfiable core.
RefinesExtraction == Extraction!SafeSpec
==============================================================================
