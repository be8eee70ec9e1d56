-------------------------------- MODULE AllMuc --------------------------------
(***************************************************************************)
(* getAllMuc() of muc.cpp: all minimal unsatisfiable cores of a formula.   *)
(* One core is extracted; then every member of it is taken out of the      *)
(* formula in turn, and the rest, when it is still unsatisfiable, is       *)
(* searched in the same way.  A rest that was tried before, in any call,   *)
(* is skipped.                                                             *)
(*                                                                         *)
(* The nested extraction muc() is the step of CoreExtraction: any core.    *)
(* AllMUC is a set: the test of muc.cpp:234 compares vectors, so the same  *)
(* core may be listed twice in two orders.                                 *)
(***************************************************************************)
EXTENDS UnsatCore, SequencesExt

CONSTANTS
  Conj,     \* the conjuncts of the formula
  Families  \* the families of unsatisfiable sets to search

ASSUME ConjAssumption == IsFiniteSet(Conj)

\* The formula is unsatisfiable, the empty conjunction is not.
ASSUME FamiliesAssumption ==
  \A F \in Families : F \in SUBSET SUBSET Conj /\ Sat(F, {}) /\ Unsat(F, Conj)

VARIABLES
  cores,        \* the family of unsatisfiable sets
  calls,        \* the nested calls: the formula and the conjuncts left to remove
  AllMUC,       \* the cores found
  allFormulas,  \* the rests tried, global to all calls
  pc            \* "enter": a call starts, "loop": it goes through its core

vars == <<cores, calls, AllMUC, allFormulas, pc>>

Init ==
  /\ cores \in Families
  /\ calls = <<[clause |-> Conj, left |-> {}]>>
  /\ AllMUC = {}
  /\ allFormulas = {}
  /\ pc = "enter"

clause == Last(calls).clause

left == Last(calls).left

\* Changed form: the loop does not go on to the next member.
WithoutNone(x) == calls

\* The call in progress goes on without the conjunct x.
Without(x) == [calls EXCEPT ![Len(calls)].left = @ \ {x}]

\* Extract a core of the formula of this call.
Extract ==
  /\ pc = "enter"
  /\ \E M \in SUBSET clause :
       /\ IsMUC(cores, M)
       /\ AllMUC' = AllMUC \cup {M}
       /\ calls' = [calls EXCEPT ![Len(calls)].left = M]
  /\ pc' = "loop"
  /\ UNCHANGED <<cores, allFormulas>>

\* Changed form: a rest is skipped when a larger one was tried.
TriedLarger(rest) == \E F \in allFormulas : rest \subseteq F

\* allFormulas.find(newf)
Tried(rest) == rest \in allFormulas

\* Changed form: restClause is not set back for every member, so that those
\* erased before are missing from it, too.
RestWithoutCore(x) == clause \ left

\* restClause: the formula without one member of its core.
Rest(x) == clause \ {x}

\* Take one member of the core out of the formula.  constructAnd asserts that
\* something is left.
TakeOut ==
  /\ pc = "loop"
  /\ \E x \in left :
       LET rest == Rest(x)
       IN  IF rest = {}
           THEN pc' = "abort" /\ UNCHANGED <<calls, allFormulas>>
           ELSE /\ allFormulas' = allFormulas \cup {rest}
                /\ IF ~ Tried(rest) /\ Unsat(cores, rest)
                   THEN /\ calls' = Append(Without(x), [clause |-> rest, left |-> {}])
                        /\ pc' = "enter"
                   ELSE calls' = Without(x) /\ UNCHANGED pc
  /\ UNCHANGED <<cores, AllMUC>>

\* The loop is through: return.
Return ==
  /\ pc = "loop"
  /\ left = {}
  /\ calls' = Front(calls)
  /\ pc' = IF Len(calls) = 1 THEN "done" ELSE "loop"
  /\ UNCHANGED <<cores, AllMUC, allFormulas>>

\* The end, or the assertion of constructAnd.
Terminated == pc \in {"done", "abort"} /\ UNCHANGED vars

Next == Extract \/ TakeOut \/ Return \/ Terminated

Spec == Init /\ [][Next]_vars

\* One thread that goes on while it can.
FairSpec == Spec /\ WF_vars(Next)

------------------------------------------------------------------------------
Cores(X) == {M \in SUBSET X : IsMUC(cores, M)}

\* Types.  The formulas of nested calls get smaller, so none is on the stack
\* twice.
TypeOK ==
  /\ cores \in SUBSET SUBSET Conj
  /\ calls \in Seq([clause : SUBSET Conj, left : SUBSET Conj])
  /\ AllMUC \in SUBSET SUBSET Conj
  /\ allFormulas \in SUBSET SUBSET Conj
  /\ pc \in {"enter", "loop", "done", "abort"}
  /\ \A i, j \in DOMAIN calls : i < j =>
       calls[j].clause \subseteq calls[i].clause /\ calls[j].clause # calls[i].clause

\* What allows a call to skip a rest: every formula that was tried and is not
\* being searched has all of its cores in AllMUC.
TriedMeansFound ==
  \A F \in allFormulas :
    (\A i \in DOMAIN calls : calls[i].clause # F) => Cores(F) \subseteq AllMUC

\* getAllMuc finds minimal unsatisfiable cores only, and all of them.
FindsAll ==
  /\ AllMUC \subseteq Cores(Conj)
  /\ pc = "done" => AllMUC = Cores(Conj)

Single == {x \in Conj : Unsat(cores, {x})}

\* assert(!S.empty()) in constructAnd can fail only for a formula of one
\* conjunct, and when two conjuncts are unsatisfiable each by itself: one of
\* them is then left as the last conjunct of a rest.
AbortsOnlyOnSingles ==
  pc = "abort" => \/ Cardinality(Single) > 1
                  \/ Cardinality(Conj) = 1

\* The enumeration ends, if only in that assertion.
Termination == <>(pc \in {"done", "abort"})
===============================================================================
