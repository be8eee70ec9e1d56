---------------------------- MODULE NaiveMucProofs ----------------------------
(***************************************************************************)
(* Proofs about basicMuc() for every formula, every family of              *)
(* unsatisfiable sets of its conjuncts, every order of the conjuncts and   *)
(* every outcome of the UC heuristic.                                      *)
(***************************************************************************)
EXTENDS NaiveMuc, SharedProofs, SequenceTheorems

------------------------------------------------------------------------------
(* The inductive invariant.  MUCNeeded is what makes the answer minimal: what *)
(* is in play without one element of MUC is satisfiable.  Each activation has *)
(* taken a conjunct off what was open (DepthAndOpen).                         *)

MUCNeeded == \A x \in MUC : Sat(problem.cores, InPlay \ {x})

Open == (UNION ToSet(S)) \cup cf

DepthAndOpen == depth + Cardinality(Open) <= Cardinality(Conj)

IInv ==
  /\ TypeOK
  /\ StillUnsat
  /\ MUCNeeded
  /\ UCAssertionHolds
  /\ DepthAndOpen
  /\ pc = "done" => S = <<>>

Formulas == (SUBSET Conj) \ {{}}

\* A formula that is the whole stack.
LEMMA OneFormula ==
  ASSUME NEW s \in Seq(Formulas), Len(s) <= 1, s # <<>>
  PROVE  /\ Last(s) \in Formulas
         /\ Front(s) = <<>>
         /\ UNION ToSet(s) = Last(s)
  <1>1. Len(s) = 1 /\ DOMAIN s = {1}
    <2>1. Len(s) \in Nat /\ Len(s) # 0 /\ DOMAIN s = 1 .. Len(s)
      BY EmptySeq, LenProperties
    <2>2. Len(s) = 1
      BY <2>1
    <2>3. QED
      BY <2>1, <2>2
  <1>2. Last(s) = s[1] /\ s[1] \in Formulas
    BY <1>1, ElementOfSeq DEF Last
  <1>3. Front(s) = <<>>
    BY <1>1, SubSeqEmpty DEF Front
  <1>4. ToSet(s) = {s[1]}
    BY <1>1 DEF ToSet
  <1>5. QED
    BY <1>2, <1>3, <1>4

LEMMA EmptyStack == UNION ToSet(<<>>) = {}
  BY DEF ToSet

\* Cardinalities of the sets of conjuncts that occur.
LEMMA Counts ==
  ASSUME NEW X \in SUBSET Conj
  PROVE  /\ IsFiniteSet(X)
         /\ Cardinality(X) \in Nat
         /\ Cardinality(Conj) \in Nat
         /\ X # {} => Cardinality(X) >= 1
         /\ \A Y \in SUBSET X : Cardinality(Y) <= Cardinality(X)
         /\ \A x \in X : Cardinality(X \ {x}) = Cardinality(X) - 1
  <1>1. IsFiniteSet(X)
    BY ConjAssumption, FS_Subset
  <1>2. Cardinality(X) \in Nat /\ Cardinality(Conj) \in Nat
    BY <1>1, ConjAssumption, FS_CardinalityType
  <1>3. X # {} => Cardinality(X) >= 1
    BY <1>1, <1>2, FS_EmptySet
  <1>4. \A Y \in SUBSET X : Cardinality(Y) <= Cardinality(X)
    BY <1>1, FS_Subset
  <1>5. \A x \in X : Cardinality(X \ {x}) = Cardinality(X) - 1
    BY <1>1, FS_RemoveElement
  <1>6. QED
    BY <1>1, <1>2, <1>3, <1>4, <1>5

\* The extraction starts in the invariant.
LEMMA InitIInv == Init => IInv
  <1> SUFFICES ASSUME Init PROVE IInv
    OBVIOUS
  <1>1. IsProblem(Conj, problem)
    BY ProblemsAssumption DEF Init
  <1>2. Conj # {}
    BY <1>1 DEF IsProblem, Sat
  <1>3. S \in Seq((SUBSET Conj) \ {{}}) /\ Len(S) = 1 /\ ToSet(S) = {Conj}
    BY <1>2 DEF Init, ToSet
  <1>4. TypeOK
    BY <1>1, <1>3 DEF Init, TypeOK
  <1>5. StillUnsat
    BY <1>1, <1>3 DEF Init, StillUnsat, InPlay, IsProblem, Unsat
  <1>6. DepthAndOpen
    BY <1>3, Counts DEF Init, DepthAndOpen, Open
  <1>7. QED
    BY <1>4, <1>5, <1>6 DEF Init, IInv, MUCNeeded, UCAssertionHolds

\* Popping the formula and shrinking it.
LEMMA SelectIInv == IInv /\ Select => IInv'
  <1> SUFFICES ASSUME IInv, Select PROVE IInv'
    OBVIOUS
  <1> DEFINE newf  == Last(S)
             items == ToSet(Front(S)) \cup {{x} : x \in MUC}
  <1>1. /\ S \in Seq(Formulas) /\ Len(S) <= 1 /\ S # <<>>
        /\ MUC \in SUBSET Conj /\ cf = {} /\ pc = "call"
        /\ depth \in Nat
        /\ IsProblem(Conj, problem)
    BY DEF IInv, TypeOK, Select, Formulas
  <1>2. /\ newf \in Formulas /\ Front(S) = <<>>
        /\ UNION ToSet(S) = newf
        /\ UNION items = MUC
    <2>1. /\ newf \in Formulas /\ Front(S) = <<>>
          /\ UNION ToSet(S) = newf
      BY <1>1, OneFormula
    <2>2. ToSet(Front(S)) = {}
      BY <2>1 DEF ToSet
    <2>3. UNION items = MUC
      BY <2>2
    <2>4. QED
      BY <2>1, <2>3
  <1>3. InPlay = newf \cup UNION items /\ Open = newf
    BY <1>1, <1>2 DEF InPlay, Open
  <1>4. Unsat(problem.cores, newf \cup UNION items)
    BY <1>3 DEF IInv, StillUnsat
  <1>5. UCAssertion(problem, newf, items)
    BY <1>1, <1>4, ObligationsUnsat DEF UCAssertion
  <1>6. /\ S' = Front(S) /\ cf' \in SelectParts(problem, newf, items)
        /\ pc' = "split" /\ UNCHANGED <<problem, MUC, depth>>
    BY <1>5 DEF Select
  <1>7. /\ cf' \subseteq newf /\ cf' # {}
        /\ Unsat(problem.cores, cf' \cup UNION items)
    <2>1. \/ cf' = newf
          \/ /\ cf' \subseteq newf
             /\ cf' # {}
             /\ Unsat(problem.cores, cf' \cup UNION items)
      BY <1>6, SelectedPart
    <2>2. QED
      BY <1>2, <1>4, <2>1 DEF Formulas
  <1>8. InPlay' = cf' \cup MUC /\ Open' = cf'
    BY <1>2, <1>6, EmptyStack DEF InPlay, Open
  <1>9. TypeOK'
    BY <1>1, <1>2, <1>6, <1>7 DEF IInv, TypeOK, Formulas
  <1>10. StillUnsat'
    BY <1>2, <1>6, <1>7, <1>8 DEF StillUnsat
  <1>11. MUCNeeded'
    <2>1. ASSUME NEW x \in MUC'
          PROVE  Sat(problem.cores, InPlay' \ {x})
      <3>1. InPlay' \ {x} \subseteq InPlay \ {x}
        BY <1>2, <1>3, <1>7, <1>8
      <3>2. Sat(problem.cores, InPlay \ {x})
        BY <1>6 DEF IInv, MUCNeeded
      <3>3. QED
        BY <3>1, <3>2, SatAntitonic
    <2>2. QED
      BY <1>6, <2>1 DEF MUCNeeded
  <1>12. DepthAndOpen'
    <2>1. Cardinality(cf') <= Cardinality(newf)
      BY <1>2, <1>7, Counts DEF Formulas
    <2>2. Cardinality(cf') \in Nat /\ Cardinality(newf) \in Nat /\ Cardinality(Conj) \in Nat
      BY <1>2, <1>7, Counts DEF Formulas
    <2>3. depth + Cardinality(newf) <= Cardinality(Conj)
      BY <1>3 DEF IInv, DepthAndOpen
    <2>4. QED
      BY <1>1, <1>6, <1>8, <2>1, <2>2, <2>3 DEF DepthAndOpen
  <1>13. QED
    BY <1>6, <1>9, <1>10, <1>11, <1>12 DEF IInv, UCAssertionHolds

\* What LastElement and DropFirst share: the formula Y is left, one conjunct x
\* was taken off cf, and it has become a core element (C = {x}) or not (C = {}).
LEMMA CallIInv ==
  ASSUME IInv, pc = "split",
         NEW x \in cf, NEW Y \in SUBSET (cf \ {x}), NEW C \in {{}, {x}},
         S' \in Seq(Formulas), Len(S') <= 1, UNION ToSet(S') = Y,
         MUC' = MUC \cup C, cf' = {}, depth' = depth + 1,
         pc' = "call", problem' = problem,
         Unsat(problem.cores, Y \cup MUC \cup C),
         C = {x} => Sat(problem.cores, Y \cup MUC)
  PROVE  IInv'
  <1>1. /\ cf \in SUBSET Conj /\ MUC \in SUBSET Conj /\ depth \in Nat
        /\ S = <<>> /\ IsProblem(Conj, problem)
    BY DEF IInv, TypeOK
  <1>2. InPlay = cf \cup MUC /\ Open = cf
    BY <1>1, EmptyStack DEF InPlay, Open
  <1>3. InPlay' = Y \cup MUC \cup C /\ Open' = Y
    BY DEF InPlay, Open
  <1>4. TypeOK'
    BY <1>1 DEF TypeOK, Formulas
  <1>5. StillUnsat'
    BY <1>3 DEF StillUnsat
  <1>6. MUCNeeded'
    <2>1. ASSUME NEW y \in MUC
          PROVE  Sat(problem.cores, InPlay' \ {y})
      <3>1. InPlay' \ {y} \subseteq InPlay \ {y}
        BY <1>2, <1>3
      <3>2. Sat(problem.cores, InPlay \ {y})
        BY DEF IInv, MUCNeeded
      <3>3. QED
        BY <3>1, <3>2, SatAntitonic
    <2>2. ASSUME C = {x}
          PROVE  Sat(problem.cores, InPlay' \ {x})
      <3>1. InPlay' \ {x} \subseteq Y \cup MUC
        BY <1>3, <2>2
      <3>2. QED
        BY <2>2, <3>1, SatAntitonic
    <2>3. QED
      BY <2>1, <2>2 DEF MUCNeeded
  <1>7. DepthAndOpen'
    <2>1. /\ Cardinality(Y) <= Cardinality(cf \ {x})
          /\ Cardinality(cf \ {x}) = Cardinality(cf) - 1
          /\ Cardinality(Y) \in Nat /\ Cardinality(cf) \in Nat /\ Cardinality(Conj) \in Nat
      BY <1>1, Counts
    <2>2. depth + Cardinality(cf) <= Cardinality(Conj)
      BY <1>2 DEF IInv, DepthAndOpen
    <2>3. QED
      BY <1>1, <1>3, <2>1, <2>2 DEF DepthAndOpen
  <1>8. QED
    BY <1>4, <1>5, <1>6, <1>7 DEF IInv, UCAssertionHolds

\* What the invariant says when cf is set.
LEMMA SplitFacts ==
  ASSUME IInv, pc = "split"
  PROVE  /\ cf \in Formulas /\ IsFiniteSet(cf)
         /\ S = <<>>
         /\ Unsat(problem.cores, cf \cup MUC)
         /\ Sat(problem.cores, {})
  <1>1. cf \in Formulas /\ S = <<>> /\ IsProblem(Conj, problem)
    BY DEF IInv, TypeOK, Formulas
  <1>2. IsFiniteSet(cf)
    BY <1>1, Counts DEF Formulas
  <1>3. InPlay = cf \cup MUC
    BY <1>1, EmptyStack DEF InPlay
  <1>4. QED
    BY <1>1, <1>2, <1>3 DEF IInv, StillUnsat, IsProblem

\* The last conjunct.
LEMMA LastElementIInv == IInv /\ LastElement => IInv'
  <1> SUFFICES ASSUME IInv, LastElement PROVE IInv'
    OBVIOUS
  <1>1. /\ pc = "split" /\ Partition(cf) = {} /\ S' = S
        /\ MUC' = IF MUC = {} \/ Sat(problem.cores, MUC) THEN MUC \cup cf ELSE MUC
        /\ cf' = {} /\ depth' = depth + 1 /\ pc' = "call" /\ problem' = problem
    BY DEF LastElement
  <1>2. PICK x : cf = {x}
    <2>1. Cardinality(cf) \in Nat /\ Cardinality(cf) # 0
      BY <1>1, SplitFacts, FS_CardinalityType, FS_EmptySet DEF Formulas
    <2>2. ~ (Cardinality(cf) > 1)
      BY <1>1, SplitFacts DEF Partition, Formulas
    <2>3. Cardinality(cf) = 1
      BY <2>1, <2>2
    <2>4. QED
      BY <1>1, <2>3, SplitFacts, FS_Singleton
  <1>3. S' \in Seq(Formulas) /\ Len(S') <= 1 /\ UNION ToSet(S') = {}
    BY <1>1, SplitFacts, EmptyStack
  <1>4. CASE MUC = {} \/ Sat(problem.cores, MUC)
    <2>1. Sat(problem.cores, {} \cup MUC)
      BY <1>1, <1>4, SplitFacts
    <2>2. Unsat(problem.cores, {} \cup MUC \cup {x})
      BY <1>1, <1>2, SplitFacts DEF Unsat
    <2>3. QED
      BY <1>1, <1>2, <1>3, <1>4, <2>1, <2>2, CallIInv
  <1>5. CASE ~ (MUC = {} \/ Sat(problem.cores, MUC))
    <2>1. Unsat(problem.cores, {} \cup MUC \cup {})
      BY <1>5 DEF Sat
    <2>2. {} # {x} /\ MUC' = MUC \cup {}
      BY <1>1, <1>5
    <2>3. QED
      BY <1>1, <1>2, <1>3, <2>1, <2>2, CallIInv
  <1>6. QED
    BY <1>4, <1>5

\* The first of several conjuncts.
LEMMA DropFirstIInv == IInv /\ DropFirst => IInv'
  <1> SUFFICES ASSUME IInv, DropFirst PROVE IInv'
    OBVIOUS
  <1>1. /\ pc = "split" /\ cf' = {} /\ depth' = depth + 1
        /\ pc' = "call" /\ problem' = problem
    BY DEF DropFirst
  <1>2. PICK P \in Partition(cf) :
          /\ MUC' = IF Needed(P[2]) THEN MUC \cup P[1] ELSE MUC
          /\ S' = Append(S, P[2])
    BY DEF DropFirst
  <1>3. PICK x \in cf : P = <<{x}, cf \ {x}>> /\ Cardinality(cf) > 1
    BY <1>2 DEF Partition
  <1> DEFINE Y == cf \ {x}
  <1>4. Y \in Formulas
    <2>1. cf # {x}
      BY <1>3, FS_Singleton
    <2>2. QED
      BY <1>1, <2>1, SplitFacts DEF Formulas
  <1>5. S' = <<Y>>
    BY <1>1, <1>2, <1>3, SplitFacts
  <1>6. S' \in Seq(Formulas) /\ Len(S') <= 1 /\ UNION ToSet(S') = Y
    BY <1>4, <1>5 DEF ToSet
  <1>7. CASE Needed(Y)
    <2>1. MUC' = MUC \cup {x}
      BY <1>2, <1>3, <1>7
    <2>2. Sat(problem.cores, Y \cup MUC)
      BY <1>7 DEF Needed
    <2>3. Y \cup MUC \cup {x} = cf \cup MUC
      BY <1>3
    <2>4. Unsat(problem.cores, Y \cup MUC \cup {x})
      BY <1>1, <2>3, SplitFacts
    <2>5. QED
      BY <1>1, <1>6, <2>1, <2>2, <2>4, CallIInv
  <1>8. CASE ~ Needed(Y)
    <2>1. MUC' = MUC \cup {}
      BY <1>2, <1>3, <1>8
    <2>2. Unsat(problem.cores, Y \cup MUC \cup {})
      BY <1>8 DEF Needed, Sat
    <2>3. {} # {x}
      OBVIOUS
    <2>4. QED
      BY <1>1, <1>6, <2>1, <2>2, <2>3, CallIInv
  <1>9. QED
    BY <1>7, <1>8

\* The steps that only return, or do nothing.
LEMMA ReturnIInv == IInv /\ (Return \/ UNCHANGED vars) => IInv'
  <1> USE DEF TypeOK, StillUnsat, MUCNeeded, UCAssertionHolds, InPlay
  <1>1. IInv /\ Return => IInv'
    <2> SUFFICES ASSUME IInv, Return PROVE IInv'
      OBVIOUS
    <2>1. Open = {} /\ Open' = {}
      BY EmptyStack DEF IInv, Return, Open
    <2>2. Cardinality({}) = 0 /\ Cardinality(Conj) \in Nat
      BY FS_EmptySet, Counts
    <2>3. depth \in Nat /\ depth <= Cardinality(Conj)
      BY <2>1, <2>2 DEF IInv, DepthAndOpen
    <2>4. depth' \in Nat /\ depth' <= Cardinality(Conj)
      BY <2>2, <2>3 DEF Return
    <2>5. DepthAndOpen'
      BY <2>1, <2>2, <2>4 DEF DepthAndOpen
    <2>6. QED
      BY <2>4, <2>5 DEF IInv, Return
  <1>2. IInv /\ UNCHANGED vars => IInv'
    BY DEF IInv, vars, DepthAndOpen, Open
  <1>3. QED
    BY <1>1, <1>2

\* Every step preserves the invariant.
LEMMA NextIInv == IInv /\ [Next]_vars => IInv'
  BY SelectIInv, LastElementIInv, DropFirstIInv, ReturnIInv DEF Next, Terminated

\* The invariant holds in every reachable state.
THEOREM Invariance == Spec => []IInv
  BY InitIInv, NextIInv, PTL DEF Spec

\* Every variable of basicMuc() keeps its type, S never holds a second formula,
\* which is why the test of a conjunct may leave S out, and constructAnd() never
\* gets an empty vector.
THEOREM TypeCorrect == Spec => []TypeOK
  <1>1. IInv => TypeOK
    BY DEF IInv
  <1>2. QED
    BY <1>1, Invariance, PTL

\* What basicMuc() drops is never needed for the conflict.
THEOREM DroppingKeepsConflict == Spec => []StillUnsat
  <1>1. IInv => StillUnsat
    BY DEF IInv
  <1>2. QED
    BY <1>1, Invariance, PTL

\* assert(!s.SAT()) in basicMuc() never fails.
THEOREM ObligationsStayUnsat == Spec => []UCAssertionHolds
  <1>1. IInv => UCAssertionHolds
    BY DEF IInv
  <1>2. QED
    BY <1>1, Invariance, PTL

\* No conjunct in MUC turns out redundant later.
THEOREM EveryCoreHoldsMUC == Spec => []CoreHoldsMUC
  <1>1. IInv => CoreHoldsMUC
    <2> SUFFICES ASSUME IInv, NEW M \in SUBSET InPlay, Unsat(problem.cores, M),
                        NEW x \in MUC, x \notin M
                 PROVE  FALSE
      BY DEF CoreHoldsMUC
    <2>1. M \subseteq InPlay \ {x}
      OBVIOUS
    <2>2. QED
      BY <2>1, SatAntitonic DEF IInv, MUCNeeded, Sat
  <1>2. QED
    BY <1>1, Invariance, PTL

\* The recursion of basicMuc() is no deeper than the formula has conjuncts.
THEOREM DepthBounded == Spec => []DepthBound
  <1>1. IInv => DepthBound
    <2> SUFFICES ASSUME IInv PROVE DepthBound
      OBVIOUS
    <2>1. Open \in SUBSET Conj
      BY DEF IInv, TypeOK, Open, ToSet
    <2>2. Cardinality(Open) \in Nat /\ Cardinality(Conj) \in Nat
      BY <2>1, Counts
    <2>3. QED
      BY <2>2 DEF IInv, TypeOK, DepthAndOpen, DepthBound
  <1>2. QED
    BY <1>1, Invariance, PTL

------------------------------------------------------------------------------
(* The extraction is finite: each activation takes a conjunct off what is open
   and makes one call, which returns once. *)

Work == 3 * Cardinality(Open) + depth + (CASE pc = "call"  -> 2
                                           [] pc = "split" -> 1
                                           [] OTHER        -> 0)

\* What is open in an activation, and what it leaves open.
LEMMA OpenSizes ==
  ASSUME IInv
  PROVE  /\ Open \in SUBSET Conj /\ Cardinality(Open) \in Nat /\ depth \in Nat
         /\ pc = "split" => Open = cf /\ Cardinality(Open) >= 1
  <1>1. Open \in SUBSET Conj /\ depth \in Nat
    BY DEF IInv, TypeOK, Open, ToSet
  <1>2. Cardinality(Open) \in Nat /\ (Open # {} => Cardinality(Open) >= 1)
    BY <1>1, Counts
  <1>3. pc = "split" => Open = cf /\ Open # {}
    BY EmptyStack DEF IInv, TypeOK, Open
  <1>4. QED
    BY <1>1, <1>2, <1>3

LEMMA SelectCounts == ASSUME IInv, Select PROVE Work' < Work
  <1>1. S \in Seq(Formulas) /\ Len(S) <= 1 /\ S # <<>> /\ cf = {} /\ S' = Front(S)
    BY DEF IInv, TypeOK, Select, Formulas
  <1>2. Open = Last(S) /\ S' = <<>>
    BY <1>1, OneFormula DEF Open
  <1>3. pc = "call" /\ pc' = "split" /\ depth' = depth /\ IInv'
    <2>1. IInv'
      BY SelectIInv
    <2>2. QED
      BY <2>1 DEF Select, IInv, UCAssertionHolds
  <1>4. PICK items : cf' \in SelectParts(problem, Last(S), items)
    BY <1>3 DEF Select
  <1>5. cf' \subseteq Last(S)
    <2>1. \/ cf' = Last(S)
          \/ /\ cf' \subseteq Last(S)
             /\ cf' # {}
             /\ Unsat(problem.cores, cf' \cup UNION items)
      BY <1>3, <1>4, SelectedPart DEF IInv
    <2>2. QED
      BY <2>1
  <1>6. Open' \subseteq Open
    BY <1>2, <1>5, EmptyStack DEF Open
  <1>7. PICK a, b : a = Cardinality(Open) /\ b = Cardinality(Open')
    OBVIOUS
  <1>8. a \in Nat /\ b \in Nat /\ b <= a /\ depth \in Nat
    BY <1>6, <1>7, OpenSizes, Counts
  <1>9. Work = 3 * a + depth + 2 /\ Work' = 3 * b + depth + 1
    BY <1>3, <1>7 DEF Work
  <1>10. QED
    BY <1>8, <1>9

\* The actions that place cf: fewer conjuncts are open, one call more is made.
LEMMA CallCounts ==
  ASSUME IInv, pc = "split", pc' = "call", depth' = depth + 1,
         NEW x \in cf, Open' \subseteq cf \ {x}
  PROVE  Work' < Work
  <1>1. PICK a, b : a = Cardinality(Open) /\ b = Cardinality(Open')
    OBVIOUS
  <1>2. Open = cf /\ cf \in SUBSET Conj /\ a \in Nat /\ depth \in Nat
    BY <1>1, OpenSizes
  <1>3. b \in Nat /\ b <= a - 1
    <2>1. Open' \in SUBSET Conj /\ cf \ {x} \in SUBSET Conj
      BY <1>2
    <2>2. Cardinality(cf \ {x}) = a - 1 /\ b <= Cardinality(cf \ {x}) /\ b \in Nat
      BY <1>1, <1>2, <2>1, Counts
    <2>3. QED
      BY <2>2
  <1>4. Work = 3 * a + depth + 1 /\ Work' = 3 * b + (depth + 1) + 2
    BY <1>1 DEF Work
  <1>5. QED
    BY <1>2, <1>3, <1>4

LEMMA LastElementCounts == ASSUME IInv, LastElement PROVE Work' < Work
  <1>1. pc = "split" /\ pc' = "call" /\ depth' = depth + 1 /\ cf' = {} /\ S' = S
    BY DEF LastElement
  <1>2. S = <<>> /\ cf # {}
    BY <1>1, SplitFacts DEF Formulas
  <1>3. Open' = {}
    BY <1>1, <1>2, EmptyStack DEF Open
  <1>4. PICK x : x \in cf
    BY <1>2
  <1>5. QED
    BY <1>1, <1>3, <1>4, CallCounts

LEMMA DropFirstCounts == ASSUME IInv, DropFirst PROVE Work' < Work
  <1>1. pc = "split" /\ pc' = "call" /\ depth' = depth + 1 /\ cf' = {}
    BY DEF DropFirst
  <1>2. PICK P \in Partition(cf) : S' = Append(S, P[2])
    BY DEF DropFirst
  <1>3. PICK x \in cf : P = <<{x}, cf \ {x}>>
    BY <1>2 DEF Partition
  <1>4. S' = <<cf \ {x}>>
    BY <1>1, <1>2, <1>3, SplitFacts
  <1>5. Open' = cf \ {x}
    BY <1>1, <1>4 DEF Open, ToSet
  <1>6. QED
    BY <1>1, <1>5, CallCounts

LEMMA ReturnCounts == ASSUME IInv, Return PROVE Work' < Work
  <1>1. S' = S /\ cf' = cf /\ pc = "call"
    BY DEF Return
  <1>2. PICK a : a = Cardinality(Open)
    OBVIOUS
  <1>3. a \in Nat /\ depth \in Nat /\ Cardinality(Open') = a
    BY <1>1, <1>2, OpenSizes DEF Open
  <1>4. Work = 3 * a + depth + 2
    BY <1>1, <1>2 DEF Work
  <1>5. CASE depth = 0
    <2>1. Work' = 3 * a + 0 + 0
      BY <1>3, <1>5 DEF Work, Return
    <2>2. QED
      BY <1>3, <1>4, <1>5, <2>1
  <1>6. CASE depth # 0
    <2>1. Work' = 3 * a + (depth - 1) + 2
      BY <1>3, <1>6 DEF Work, Return
    <2>2. QED
      BY <1>3, <1>4, <1>6, <2>1
  <1>7. QED
    BY <1>5, <1>6

\* basicMuc() cannot go on for ever: every one of its steps takes from a natural
\* number, whatever the solver answers and in whatever order conjuncts are taken.
THEOREM EachStepCounts == Spec => [][Work' < Work /\ Work \in Nat]_vars
  <1>1. ASSUME IInv, [Next]_vars
        PROVE  [Work' < Work /\ Work \in Nat]_vars
    <2>1. Work \in Nat
      <3>1. PICK a : a = Cardinality(Open)
        OBVIOUS
      <3>2. a \in Nat /\ depth \in Nat
        BY <1>1, <3>1, OpenSizes
      <3>3. QED
        BY <3>1, <3>2 DEF Work
    <2>2. CASE Terminated \/ UNCHANGED vars
      BY <2>2 DEF Terminated
    <2>3. CASE Select \/ LastElement \/ DropFirst \/ Return
      BY <1>1, <2>1, <2>3, SelectCounts, LastElementCounts, DropFirstCounts, ReturnCounts
    <2>4. QED
      BY <1>1, <2>2, <2>3 DEF Next
  <1>2. QED
    BY <1>1, Invariance, PTL DEF Spec

------------------------------------------------------------------------------
(* The refinement. *)

\* basicMuc() implements the extraction: it answers once and what it answers is
\* a minimal unsatisfiable core of the formula.
THEOREM ExtractsMUC == Spec => RefinesExtraction
  <1> DEFINE core == IF pc = "done" THEN MUC ELSE {}
  <1>1. Init => Extraction!Init
    BY DEF Init, Extraction!Init
  <1>2. IInv /\ [Next]_vars => [Extraction!Answer]_(Extraction!vars)
    <2> SUFFICES ASSUME IInv, [Next]_vars
                 PROVE  [Extraction!Answer]_(Extraction!vars)
      OBVIOUS
    <2>1. CASE Return /\ depth = 0
      <3>1. S = <<>> /\ cf = {} /\ InPlay = MUC
        BY <2>1, EmptyStack DEF Return, IInv, TypeOK, InPlay
      <3>2. IsMUC(problem.cores, MUC) /\ MUC \in SUBSET Conj
        BY <3>1 DEF IInv, TypeOK, StillUnsat, MUCNeeded, IsMUC
      <3>3. core = {} /\ core' = MUC /\ problem' = problem
        BY <2>1 DEF Return
      <3>4. Extraction!IsMUC(problem.cores, MUC)
        BY <3>2 DEF IsMUC, Unsat, Sat, Extraction!IsMUC, Extraction!Unsat,
                    Extraction!Sat
      <3>5. Extraction!Answer
        BY <3>2, <3>3, <3>4 DEF Extraction!Answer
      <3>6. QED
        BY <3>5
    <2>2. CASE Select \/ LastElement \/ DropFirst \/ (Return /\ depth # 0)
      <3>1. pc # "done" /\ pc' # "done" /\ problem' = problem
        BY <2>2 DEF Select, LastElement, DropFirst, Return
      <3>2. QED
        BY <3>1 DEF Extraction!vars
    <2>3. CASE UNCHANGED vars
      BY <2>3 DEF vars, Extraction!vars
    <2>4. QED
      BY <2>1, <2>2, <2>3 DEF Next, Terminated
  <1>3. QED
    BY <1>1, <1>2, Invariance, PTL
       DEF Spec, RefinesExtraction, Extraction!SafeSpec
==============================================================================
