---------------------------- MODULE GlobalMucProofs ----------------------------
(***************************************************************************)
(* Proofs about MUCSolver for every formula, every assignment of ids to    *)
(* its obligations, every family of unsatisfiable clause sets, and every   *)
(* minimal subset that the external tool may write.                        *)
(***************************************************************************)
EXTENDS GlobalMuc, SharedProofs

------------------------------------------------------------------------------
(* The inductive invariant: what the files, the map and the answer hold at
   every place of the program. *)

\* The clauses that are written for the formula.
Clauses == Range(problem.id) \cup Defs

\* No conjunct is false, or muc_ holds one that is.
FalseFirst ==
  /\ muc_ \subseteq problem.false
  /\ pc = "create" => muc_ = {}
  /\ pc # "create" /\ muc_ = {} => id_formula_map_ \in Maps(Conj)
  /\ pc \in {"extract", "remove"} => muc_ = {}

\* A file exists only between the step that writes it and the one that removes it.
Files ==
  /\ pc \in {"create", "muc"} => output = absent /\ res = {} /\ ~ tool
  /\ pc = "create" \/ muc_ # {} => input = absent
  /\ pc \in {"muc", "extract"} /\ muc_ = {} => input = {Clauses}
  /\ pc = "extract" /\ tool => \E M \in MinimalSubsets(Clauses) : output = {M}
  /\ pc = "extract" /\ ~ tool => output = absent
  /\ pc = "remove" => output = absent
  /\ tool => muc_ = {}

\* The answer is settled before the input file is removed.
Answered ==
  pc \in {"remove", "done"} =>
    /\ IF tool \/ muc_ # {} THEN UnsatConj(res) ELSE res = {}
    /\ \A x, y \in res : problem.id[x] = problem.id[y] => x = y

IInv ==
  /\ TypeOK
  /\ FalseFirst
  /\ Files
  /\ Answered
  /\ NoFileLeft

\* What a map holds.
LEMMA MapOf ==
  ASSUME NEW X, NEW f \in Maps(X)
  PROVE  /\ DOMAIN f = {problem.id[x] : x \in X}
         /\ \A i \in DOMAIN f : f[i] \in X /\ problem.id[f[i]] = i
  BY DEF Maps

\* The clauses of a problem.
LEMMA ClausesOf ==
  ASSUME TypeOK
  PROVE  /\ Clauses \in SUBSET (Ids \cup Defs)
         /\ Clauses = {problem.id[x] : x \in Conj} \cup Defs
         /\ \A x \in Conj : problem.id[x] \in Ids
         /\ problem.false \in SUBSET Conj
         /\ Ids \cap Defs = {}
  <1>1. problem.id \in [Conj -> Ids] /\ problem.false \in SUBSET Conj
    BY DEF TypeOK, IsClauseProblem
  <1>2. Range(problem.id) = {problem.id[x] : x \in Conj}
    BY <1>1 DEF Range
  <1>3. QED
    BY <1>1, <1>2, ConjAssumption DEF Clauses

\* The extraction starts in the invariant.
LEMMA InitIInv == Init => IInv
  <1> SUFFICES ASSUME Init PROVE IInv
    OBVIOUS
  <1> USE DEF Init
  <1>1. <<>> \in Maps({})
    BY DEF Maps
  <1>2. Cardinality(muc_) <= 1
    BY FS_EmptySet
  <1>3. TypeOK
    BY <1>1, <1>2, ProblemsAssumption DEF TypeOK, File
  <1>4. FalseFirst /\ Files
    BY DEF FalseFirst, Files
  <1>5. QED
    BY <1>3, <1>4 DEF IInv, Answered, NoFileLeft

\* create_dimacs finds a conjunct that is false, or writes the clauses.
LEMMA CreateIInv == IInv /\ Create => IInv'
  <1> SUFFICES ASSUME IInv, Create PROVE IInv'
    OBVIOUS
  <1>0. /\ TypeOK /\ pc = "create" /\ pc' = "muc"
        /\ UNCHANGED <<problem, output, tool, res>>
        /\ muc_ = {} /\ input = absent /\ output = absent /\ res = {} /\ ~ tool
    BY DEF IInv, Create, FalseFirst, Files
  <1>1. \A X : Maps(X)' = Maps(X)
    BY <1>0 DEF Maps
  <1>2. CASE problem.false # {}
    <2>1. PICK x \in problem.false : muc_' = {x}
      BY <1>2 DEF Create
    <2>2. PICK X \in SUBSET (Conj \ problem.false) : id_formula_map_' \in Maps(X)
      BY <1>2 DEF Create
    <2>3. input' = input
      BY <1>2 DEF Create
    <2>4. muc_' \in SUBSET Conj /\ Cardinality(muc_') <= 1 /\ muc_' \subseteq problem.false
      <3>1. Cardinality({x}) = 1
        BY FS_Singleton
      <3>2. Cardinality(muc_') <= 1
        BY <2>1, <3>1
      <3>3. muc_' \in SUBSET Conj /\ muc_' \subseteq problem.false
        BY <1>0, <2>1, ClausesOf
      <3>4. QED
        BY <3>2, <3>3
    <2>5. \E Y \in SUBSET Conj : id_formula_map_' \in Maps(Y)
      BY <2>2
    <2>6. TypeOK'
      BY <1>0, <1>1, <2>3, <2>4, <2>5 DEF TypeOK
    <2>7. FalseFirst' /\ Files'
      BY <1>0, <2>1, <2>3, <2>4 DEF FalseFirst, Files
    <2>8. QED
      BY <1>0, <2>6, <2>7 DEF IInv, Answered, NoFileLeft
  <1>3. CASE problem.false = {}
    <2>1. /\ id_formula_map_' \in Maps(Conj) /\ input' = {Clauses} /\ muc_' = muc_
      BY <1>3 DEF Create, Clauses
    <2>2. input' \in File
      BY <1>0, <2>1, ClausesOf DEF File
    <2>3. TypeOK'
      <3>1. \E X \in SUBSET Conj : id_formula_map_' \in Maps(X)
        BY <2>1
      <3>2. QED
        BY <1>0, <1>1, <2>1, <2>2, <3>1 DEF TypeOK
    <2>4. Clauses' = Clauses
      BY <1>0 DEF Clauses
    <2>5. FalseFirst' /\ Files'
      BY <1>0, <1>1, <2>1, <2>4 DEF FalseFirst, Files
    <2>6. QED
      BY <1>0, <2>3, <2>5 DEF IInv, Answered, NoFileLeft
  <1>4. QED
    BY <1>2, <1>3

\* A conjunct that is false is a core by itself.
LEMMA FalseConjunctIInv == IInv /\ FalseConjunct => IInv'
  <1> SUFFICES ASSUME IInv, FalseConjunct PROVE IInv'
    OBVIOUS
  <1>0. /\ TypeOK /\ pc = "muc" /\ muc_ # {} /\ res' = muc_ /\ pc' = "done"
        /\ UNCHANGED <<problem, muc_, id_formula_map_, input, output, tool>>
        /\ input = absent /\ output = absent
        /\ muc_ \subseteq problem.false
    BY DEF IInv, FalseConjunct, FalseFirst, Files
  <1>1. \A X : Maps(X)' = Maps(X)
    BY <1>0 DEF Maps
  <1>2. TypeOK'
    BY <1>0, <1>1 DEF TypeOK
  <1>3. FalseFirst' /\ Files' /\ NoFileLeft'
    BY <1>0, <1>1 DEF IInv, FalseFirst, Files, NoFileLeft
  <1>4. PICK x : muc_ = {x}
    <2>1. IsFiniteSet(muc_)
      BY <1>0, ConjAssumption, FS_Subset DEF TypeOK
    <2>2. Cardinality(muc_) \in Nat /\ Cardinality(muc_) # 0 /\ Cardinality(muc_) <= 1
      BY <1>0, <2>1, FS_CardinalityType, FS_EmptySet DEF TypeOK
    <2>3. Cardinality(muc_) = 1
      BY <2>2
    <2>4. QED
      BY <2>1, <2>3, FS_Singleton
  <1>5. UnsatConj(muc_)
    <2>1. x \in problem.false /\ {problem.id[y] : y \in {x}} = {problem.id[x]}
      BY <1>0, <1>4
    <2>2. Unsat(problem.cores, {problem.id[x]} \cup Defs)
      BY <1>0, <2>1 DEF TypeOK, IsClauseProblem
    <2>3. QED
      BY <1>4, <2>1, <2>2 DEF UnsatConj
  <1>6. UnsatConj(res)'
    BY <1>0, <1>5 DEF UnsatConj
  <1>7. Answered'
    BY <1>0, <1>4, <1>6 DEF Answered
  <1>8. QED
    BY <1>2, <1>3, <1>7 DEF IInv

\* The tool writes a minimal unsatisfiable subset of the clauses, or nothing.
LEMMA RunToolIInv == IInv /\ RunTool => IInv'
  <1> SUFFICES ASSUME IInv, RunTool PROVE IInv'
    OBVIOUS
  <1>0. /\ TypeOK /\ pc = "muc" /\ muc_ = {} /\ pc' = "extract"
        /\ UNCHANGED <<problem, muc_, id_formula_map_, input, res>>
        /\ input = {Clauses} /\ output = absent /\ ~ tool /\ res = {}
        /\ id_formula_map_ \in Maps(Conj)
    BY DEF IInv, RunTool, FalseFirst, Files
  <1>1. /\ \A X : Maps(X)' = Maps(X)
        /\ \A F : MinimalSubsets(F)' = MinimalSubsets(F)
        /\ Clauses' = Clauses /\ UNION input = Clauses
    BY <1>0 DEF Maps, MinimalSubsets, Clauses
  <1>2. \/ tool' = TRUE /\ \E M \in MinimalSubsets(Clauses) : output' = {M}
        \/ tool' = tool /\ output' = output
    BY <1>1 DEF RunTool
  <1>3. output' \in File /\ tool' \in BOOLEAN
    <2>1. \A M \in MinimalSubsets(Clauses) : {M} \in File
      BY <1>0, ClausesOf DEF MinimalSubsets, File
    <2>2. QED
      BY <1>0, <1>2, <2>1 DEF TypeOK
  <1>4. TypeOK'
    BY <1>0, <1>1, <1>3 DEF TypeOK
  <1>5. FalseFirst'
    BY <1>0, <1>1 DEF IInv, FalseFirst
  <1>6. Files'
    BY <1>0, <1>1, <1>2 DEF Files
  <1>7. QED
    BY <1>0, <1>4, <1>5, <1>6 DEF IInv, Answered, NoFileLeft

\* Every id in the minimal subset is translated back to a conjunct with it, so
\* the subset is still there with the definitions.
LEMMA ConjunctsConflict ==
  ASSUME TypeOK, id_formula_map_ \in Maps(Conj), NEW M \in MinimalSubsets(Clauses)
  PROVE  UnsatConj(Conjuncts(Units(M)))
  <1> DEFINE X == Conjuncts(Units(M))
  <1>1. M \subseteq Clauses /\ Unsat(problem.cores, M)
    BY DEF MinimalSubsets, IsMUC
  <1>2. ASSUME NEW i \in M, i \notin Defs
        PROVE  i \in {problem.id[x] : x \in X}
    <2>1. i \in Ids /\ i \in {problem.id[x] : x \in Conj}
      BY <1>1, <1>2, ClausesOf
    <2>2. i \in Units(M) \cap DOMAIN id_formula_map_
      BY <2>1, MapOf DEF Units
    <2>3. id_formula_map_[i] \in X /\ problem.id[id_formula_map_[i]] = i
      BY <2>2, MapOf DEF Conjuncts
    <2>4. QED
      BY <2>3
  <1>3. M \subseteq {problem.id[x] : x \in X} \cup Defs
    BY <1>2
  <1> HIDE DEF X
  <1>4. Unsat(problem.cores, {problem.id[x] : x \in X} \cup Defs)
    BY <1>1, <1>3, UnsatMonotonic
  <1>5. UnsatConj(X)
    BY <1>4 DEF UnsatConj
  <1>6. QED
    BY <1>5 DEF X

\* The unit clauses of the output file are translated back.
LEMMA ExtractIInv == IInv /\ Extract => IInv'
  <1> SUFFICES ASSUME IInv, Extract PROVE IInv'
    OBVIOUS
  <1>0. /\ TypeOK /\ pc = "extract" /\ muc_ = {} /\ pc' = "remove"
        /\ UNCHANGED <<problem, muc_, id_formula_map_, input, tool>>
        /\ res' = Conjuncts(Units(UNION output)) /\ output' = absent
        /\ id_formula_map_ \in Maps(Conj)
        /\ tool => \E M \in MinimalSubsets(Clauses) : output = {M}
        /\ ~ tool => output = absent
    BY DEF IInv, Extract, FalseFirst, Files
  <1>1. \A X : Maps(X)' = Maps(X)
    BY <1>0 DEF Maps
  <1>2. \A x \in res' : x \in Conj /\ id_formula_map_[problem.id[x]] = x
    <2>1. SUFFICES ASSUME NEW x \in res'
                   PROVE  x \in Conj /\ id_formula_map_[problem.id[x]] = x
      OBVIOUS
    <2>2. PICK i \in DOMAIN id_formula_map_ : x = id_formula_map_[i]
      BY <1>0 DEF Conjuncts
    <2>3. x \in Conj /\ problem.id[x] = i
      BY <1>0, <2>2, MapOf
    <2>4. QED
      BY <2>2, <2>3
  <1>3. TypeOK'
    <2>1. res' \in SUBSET Conj
      BY <1>2
    <2>2. QED
      BY <1>0, <1>1, <2>1 DEF TypeOK, File
  <1>4. FalseFirst' /\ Files'
    BY <1>0, <1>1 DEF IInv, FalseFirst, Files
  <1>5. ASSUME NEW x \in res', NEW y \in res', problem.id[x] = problem.id[y] PROVE x = y
    BY <1>2, <1>5
  <1>6. IF tool THEN UnsatConj(res') ELSE res' = {}
    <2>1. CASE tool
      <3>1. PICK M \in MinimalSubsets(Clauses) : output = {M}
        BY <1>0, <2>1
      <3>2. UnsatConj(Conjuncts(Units(M))) /\ UNION output = M
        BY <1>0, <3>1, ConjunctsConflict
      <3>3. QED
        BY <1>0, <2>1, <3>2
    <2>2. CASE ~ tool
      <3>1. UNION output = {}
        BY <1>0, <2>2 DEF absent
      <3>2. Conjuncts(Units({})) = {}
        BY DEF Conjuncts, Units
      <3>3. QED
        BY <1>0, <2>2, <3>1, <3>2
    <2>3. QED
      BY <2>1, <2>2
  <1>7. UnsatConj(res)' = UnsatConj(res')
    BY <1>0 DEF UnsatConj
  <1>8. Answered'
    BY <1>0, <1>5, <1>6, <1>7 DEF Answered
  <1>9. QED
    BY <1>0, <1>3, <1>4, <1>8 DEF IInv, NoFileLeft

\* The input file is removed, and nothing else changes.
LEMMA RemoveInputIInv == IInv /\ RemoveInput => IInv'
  <1> SUFFICES ASSUME IInv, RemoveInput PROVE IInv'
    OBVIOUS
  <1>0. /\ TypeOK /\ pc = "remove" /\ pc' = "done" /\ input' = absent
        /\ UNCHANGED <<problem, muc_, id_formula_map_, output, tool, res>>
        /\ output = absent /\ muc_ = {}
    BY DEF IInv, RemoveInput, FalseFirst, Files
  <1>1. \A X : Maps(X)' = Maps(X)
    BY <1>0 DEF Maps
  <1>2. TypeOK'
    BY <1>0, <1>1 DEF TypeOK, File
  <1>3. FalseFirst' /\ Files' /\ NoFileLeft'
    BY <1>0, <1>1 DEF IInv, FalseFirst, Files, NoFileLeft
  <1>4. Answered'
    BY <1>0 DEF IInv, Answered, UnsatConj
  <1>5. QED
    BY <1>2, <1>3, <1>4 DEF IInv

LEMMA StutterIInv == IInv /\ UNCHANGED vars => IInv'
  <1> SUFFICES ASSUME IInv, UNCHANGED vars PROVE IInv'
    OBVIOUS
  <1> USE DEF vars
  <1>1. \A X : Maps(X)' = Maps(X)
    BY DEF Maps
  <1>2. TypeOK'
    BY <1>1 DEF IInv, TypeOK
  <1>3. FalseFirst' /\ NoFileLeft'
    BY <1>1 DEF IInv, FalseFirst, NoFileLeft
  <1>4. Files'
    BY DEF IInv, Files, MinimalSubsets, Clauses
  <1>5. Answered'
    BY DEF IInv, Answered, UnsatConj
  <1>6. QED
    BY <1>2, <1>3, <1>4, <1>5 DEF IInv

\* Every step preserves the invariant.
LEMMA NextIInv == IInv /\ [Next]_vars => IInv'
  BY CreateIInv, FalseConjunctIInv, RunToolIInv, ExtractIInv, RemoveInputIInv,
     StutterIInv DEF Next, Terminated

\* The invariant holds in every reachable state.
THEOREM Invariance == Spec => []IInv
  BY InitIInv, NextIInv, PTL DEF Spec

\* The variables of MUCSolver keep their types, and muc_ never holds more than one
\* conjunct.
THEOREM TypeCorrect == Spec => []TypeOK
  <1>1. IInv => TypeOK
    BY DEF IInv
  <1>2. QED
    BY <1>1, Invariance, PTL

\* The answer of the method -global is a conflict whenever the tool has answered or
\* a conjunct is false, and it never holds two conjuncts with one obligation.
THEOREM AnswersConflict == Spec => []AnswerIsConflict
  <1>1. IInv => AnswerIsConflict
    BY DEF IInv, Answered, AnswerIsConflict
  <1>2. QED
    BY <1>1, Invariance, PTL

\* No file is left behind, whether the tool runs, fails or is never called.
THEOREM FilesRemoved == Spec => []NoFileLeft
  <1>1. IInv => NoFileLeft
    BY DEF IInv
  <1>2. QED
    BY <1>1, Invariance, PTL
================================================================================
