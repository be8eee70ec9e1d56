------------------------------- MODULE CheckMuc -------------------------------
(***************************************************************************)
(* check_muc() of main.cpp, the option -c: is the answer of an extraction  *)
(* a minimal unsatisfiable core?                                           *)
(*                                                                         *)
(* It tests the whole vector, then takes the conjuncts off its end one by  *)
(* one, tests the others and puts the conjunct back at the front.  The     *)
(* vector may be any answer: the method -global does not guarantee that    *)
(* it is minimal, nor that there is one.                                   *)
(***************************************************************************)
EXTENDS UnsatCore, SequencesExt

CONSTANTS
  Conj,     \* the conjuncts of the formula
  Families  \* the families of unsatisfiable sets of conjuncts to check

ASSUME ConjAssumption == IsFiniteSet(Conj)

\* The empty conjunction is satisfiable.
ASSUME FamiliesAssumption ==
  \A F \in Families : F \in SUBSET SUBSET Conj /\ Sat(F, {})

VARIABLES
  cores,  \* the family of unsatisfiable sets
  given,  \* the vector passed in, without repetitions
  MUC,    \* the vector, rotated by the conjuncts tested so far
  cnt,    \* conjuncts left to test
  pc      \* where check_muc is, or what it has printed

vars == <<cores, given, MUC, cnt, pc>>

\* The vectors without repetitions.
Vectors == {s \in UNION {[1 .. n -> Conj] : n \in 0 .. Cardinality(Conj)} :
              IsInjective(s)}

Init ==
  /\ cores \in Families
  /\ given \in Vectors
  /\ MUC = given
  /\ cnt = 0
  /\ pc = "start"

\* Changed form: a single conjunct is not told apart, and not tested.
AllTogetherOne ==
  /\ pc = "start"
  /\ IF MUC = <<>> THEN pc' = "abort" /\ UNCHANGED cnt
     ELSE pc' = (IF Len(MUC) = 1 THEN "right" ELSE "loop") /\ cnt' = Len(MUC)
  /\ UNCHANGED <<cores, given, MUC>>

\* sat(MUC): constructAnd asserts that there is a conjunct.  A single
\* conjunct that is unsatisfiable is minimal.
AllTogether ==
  /\ pc = "start"
  /\ IF MUC = <<>>
     THEN pc' = "abort" /\ UNCHANGED cnt
     ELSE IF Sat(cores, ToSet(MUC))
          THEN pc' = "wrong" /\ UNCHANGED cnt
          ELSE /\ cnt' = Len(MUC)
               /\ pc' = IF Len(MUC) = 1 THEN "right" ELSE "loop"
  /\ UNCHANGED <<cores, given, MUC>>

\* MUC.insert(MUC.begin(), af) of the conjunct popped from the end.
Rotate(s) == <<Last(s)>> \o Front(s)

\* while (cnt--)
More == cnt > 0

\* Changed form: a round leaves the counter alone.
WithoutLastKept ==
  /\ pc = "loop"
  /\ More
  /\ IF Unsat(cores, ToSet(Front(MUC)))
     THEN pc' = "wrong" /\ MUC' = Front(MUC)
     ELSE pc' = "loop" /\ MUC' = Rotate(MUC)
  /\ UNCHANGED <<cores, given, cnt>>

\* One round of the loop: sat() of the vector without its last conjunct.
WithoutLast ==
  /\ pc = "loop"
  /\ More
  /\ cnt' = cnt - 1
  /\ IF Unsat(cores, ToSet(Front(MUC)))
     THEN pc' = "wrong" /\ MUC' = Front(MUC)
     ELSE pc' = "loop" /\ MUC' = Rotate(MUC)
  /\ UNCHANGED <<cores, given>>

\* No conjunct is redundant.
AllNeeded ==
  /\ pc = "loop"
  /\ ~ More
  /\ pc' = "right"
  /\ UNCHANGED <<cores, given, MUC, cnt>>

Terminated == pc \in {"right", "wrong", "abort"} /\ UNCHANGED vars

Next == AllTogether \/ WithoutLast \/ AllNeeded \/ Terminated

Spec == Init /\ [][Next]_vars

\* One thread that goes on while it can.
FairSpec == Spec /\ WF_vars(Next)

------------------------------------------------------------------------------
\* Types.
TypeOK ==
  /\ cores \in SUBSET SUBSET Conj
  /\ given \in Seq(Conj)
  /\ MUC \in Seq(Conj)
  /\ cnt \in 0 .. Len(given)
  /\ pc \in {"start", "loop", "right", "wrong", "abort"}

\* README.md: "The terminal will output "MUC is right" if the obtained MUC is
\* correct", and it says wrong for every other vector.
VerdictIsRight ==
  /\ pc = "right" => IsMUC(cores, ToSet(given))
  /\ pc = "wrong" => ~ IsMUC(cores, ToSet(given))

\* The conjuncts tested so far are the first of the vector, and each one is
\* needed: no conjunct is tested twice instead of another one.
TestedInTurn ==
  pc = "loop" =>
    \A i \in 1 .. Len(MUC) - cnt : Sat(cores, ToSet(given) \ {MUC[i]})

\* The check ends; without a verdict only when there is nothing to check.
Termination == <>(pc \in (IF given = <<>> THEN {"abort"} ELSE {"right", "wrong"}))
===============================================================================
