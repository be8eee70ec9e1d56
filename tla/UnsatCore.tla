------------------------------ MODULE UnsatCore ------------------------------
(***************************************************************************)
(* The satisfiability oracle and the unsat-core heuristic as the core      *)
(* extraction sees them.                                                   *)
(*                                                                         *)
(* A conjunction of LTLf formulas is represented by the set of its         *)
(* conjuncts (aalta_formula::to_set of a hash-consed And).  What the       *)
(* extraction can observe of a formula is which sets of its conjuncts are  *)
(* unsatisfiable; that family is upward closed, so it is given by the sets *)
(* "cores" that generate it.  The satisfiability of the obligations off()  *)
(* of the conjuncts, which the UC solver decides, is a second family       *)
(* "off".                                                                  *)
(***************************************************************************)
EXTENDS Integers, FiniteSets

\* !sat(X): checker.check() returns false on the conjunction of X.
Unsat(cores, X) == \E C \in cores : C \subseteq X

Sat(cores, X) == ~ Unsat(cores, X)

\* A minimal unsatisfiable core: unsatisfiable, and no member is redundant.
IsMUC(cores, M) == /\ Unsat(cores, M)
                   /\ \A x \in M : Sat(cores, M \ {x})

------------------------------------------------------------------------------
(***************************************************************************)
(* One problem handed to the extraction: the formula's family of           *)
(* unsatisfiable sets, the family of the sets whose obligations are        *)
(* unsatisfiable, and the flag UCEable.  The whole formula is              *)
(* unsatisfiable (main asserts it before calling get_muc), the empty       *)
(* conjunction is not, and a set whose obligations are satisfiable is      *)
(* itself satisfiable.                                                     *)
(***************************************************************************)
IsProblem(Conj, p) ==
  /\ p \in [cores : SUBSET SUBSET Conj, off : SUBSET SUBSET Conj, uc : BOOLEAN]
  /\ Unsat(p.cores, Conj)
  /\ Sat(p.cores, {})
  /\ \A C \in p.cores : Unsat(p.off, C)

------------------------------------------------------------------------------
\* UCSolver::false_detected: some obligation was simplified to false.  The
\* simplification is incomplete, so this only says when it may happen.
FalseDetectable(off, newf, items) ==
  \/ \E x \in newf : Unsat(off, {x})
  \/ \E I \in items : Unsat(off, I)

\* get_uc_formulas: the conflict is any subset of the assumptions, the
\* conjuncts of newf, that the hard clauses of the other items refute.
UnsatCores(off, newf, rest) == {U \in SUBSET newf : Unsat(off, U \cup rest)}

\* Changed form: the core is taken without the confirmation by sat().
AcceptUnconfirmed(cores, U, newf, rest) == IF U # {} THEN U ELSE newf

\* The core replaces newf only when it is not empty and sat() confirms that
\* it is enough, with the rest, to be unsatisfiable.
AcceptCore(cores, U, newf, rest) ==
  IF U # {} /\ Unsat(cores, U \cup rest) THEN U ELSE newf

\* The formulas cf that one activation may go on with after the UC step.
\* items are the members of S below newf and the singletons of MUC.
SelectParts(p, newf, items) ==
  IF ~ p.uc THEN {newf}
  ELSE LET rest == UNION items
       IN  {X \in {newf} : FalseDetectable(p.off, newf, items)}
           \cup {AcceptCore(p.cores, U, newf, rest) :
                   U \in UnsatCores(p.off, newf, rest)}

\* assert(!s.SAT()): with UCEable the obligations must be unsatisfiable.
UCAssertion(p, newf, items) ==
  p.uc => Unsat(p.off, newf \cup UNION items)

------------------------------------------------------------------------------
\* Changed form: the second half still holds the first (temp is not cleared).
HalvesNotCleared(X) ==
  IF Cardinality(X) > 1
  THEN {<<A, X>> : A \in {B \in SUBSET X : Cardinality(B) = Cardinality(X) \div 2}}
  ELSE {}

\* binaryPartition: the two halves of the conjuncts, in the order the hash
\* set enumerates them; empty when there is one conjunct only.
binaryPartition(X) ==
  IF Cardinality(X) > 1
  THEN {<<A, X \ A>> : A \in {B \in SUBSET X : Cardinality(B) = Cardinality(X) \div 2}}
  ELSE {}

\* Partition: the first conjunct and the others.
Partition(X) ==
  IF Cardinality(X) > 1 THEN {<<{x}, X \ {x}>> : x \in X} ELSE {}
==============================================================================
