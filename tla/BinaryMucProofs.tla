--------------------------- MODULE BinaryMucProofs ---------------------------
(***************************************************************************)
(* Proofs about muc() for every formula, every family of unsatisfiable     *)
(* sets of its conjuncts, every order of the conjuncts and every outcome   *)
(* of the UC heuristic.                                                    *)
(***************************************************************************)
EXTENDS BinaryMuc, SharedProofs, SequenceTheorems

------------------------------------------------------------------------------
(* The halves. *)

\* binaryPartition cuts a set into two non-empty parts.
LEMMA Halves ==
  ASSUME NEW X, IsFiniteSet(X), NEW P \in binaryPartition(X)
  PROVE  /\ P[1] \cup P[2] = X
         /\ P[1] \cap P[2] = {}
         /\ P[1] # {} /\ P[2] # {}
  <1>1. Cardinality(X) \in Nat /\ Cardinality(X) > 1
    BY FS_CardinalityType DEF binaryPartition
  <1>2. PICK A \in SUBSET X : /\ Cardinality(A) = Cardinality(X) \div 2
                              /\ P = <<A, X \ A>>
    BY <1>1 DEF binaryPartition
  <1>3. IsFiniteSet(A)
    BY FS_Subset
  <1>4. A # {}
    <2>1. Cardinality(A) # 0
      BY <1>1, <1>2
    <2>2. QED
      BY <2>1, FS_EmptySet
  <1>5. X \ A # {}
    <2>1. Cardinality(A) # Cardinality(X)
      BY <1>1, <1>2
    <2>2. QED
      BY <2>1
  <1>6. QED
    BY <1>2, <1>4, <1>5

\* A finite set has subsets of every smaller size.
LEMMA SubsetOfSize ==
  ASSUME NEW X, IsFiniteSet(X), NEW k \in 0 .. Cardinality(X)
  PROVE  \E A \in SUBSET X : Cardinality(A) = k
  <1>1. Cardinality(X) \in Nat
    BY FS_CardinalityType
  <1>2. PICK f : f \in Bijection(1 .. Cardinality(X), X)
    BY FS_CardinalityType DEF ExistsBijection
  <1> DEFINE A == {f[i] : i \in 1 .. k}
             g == [i \in 1 .. k |-> f[i]]
  <1>3. f \in [1 .. Cardinality(X) -> X]
    BY <1>2 DEF Bijection, Injection
  <1>4. \A i, j \in 1 .. Cardinality(X) : f[i] = f[j] => i = j
    BY <1>2 DEF Bijection, Injection, IsInjective
  <1>5. \A i \in 1 .. k : i \in 1 .. Cardinality(X)
    BY <1>1
  <1>6. A \subseteq X
    BY <1>3, <1>5
  <1>7. g \in Bijection(1 .. k, A)
    <2>1. g \in [1 .. k -> A]
      OBVIOUS
    <2>2. \A i, j \in 1 .. k : g[i] = g[j] => i = j
      BY <1>4, <1>5
    <2>3. \A a \in A : \E i \in 1 .. k : g[i] = a
      OBVIOUS
    <2>4. QED
      BY <2>1, <2>2, <2>3 DEF Bijection, Injection, Surjection, IsInjective
  <1>8. IsFiniteSet(1 .. k) /\ Cardinality(1 .. k) = k
    BY <1>1, FS_Interval
  <1>9. Cardinality(A) = k
    BY <1>7, <1>8, FS_Bijection DEF ExistsBijection
  <1>10. QED
    BY <1>6, <1>9

\* A non-empty set that binaryPartition does not cut has one member.
LEMMA Uncut ==
  ASSUME NEW X, IsFiniteSet(X), X # {}, binaryPartition(X) = {}
  PROVE  \E x : X = {x}
  <1>1. Cardinality(X) \in Nat /\ Cardinality(X) # 0
    BY FS_CardinalityType, FS_EmptySet
  <1>2. ~ (Cardinality(X) > 1)
    <2>1. SUFFICES ASSUME Cardinality(X) > 1
                   PROVE  FALSE
      OBVIOUS
    <2>2. Cardinality(X) \div 2 \in 0 .. Cardinality(X)
      BY <1>1
    <2>3. PICK A \in SUBSET X : Cardinality(A) = Cardinality(X) \div 2
      BY <2>2, SubsetOfSize
    <2>4. QED
      BY <2>1, <2>3 DEF binaryPartition
  <1>3. Cardinality(X) = 1
    BY <1>1, <1>2
  <1>4. QED
    BY <1>3, FS_Singleton

------------------------------------------------------------------------------
(* The stack.  The invariants are stated of any stack s, elements M and      *)
(* formula c being worked on, so that a step is a change of these three.     *)

Union(s) == UNION ToSet(s)

OthersIn(s, M, c, i) == (UNION {s[j] : j \in DOMAIN s \ {i}}) \cup M \cup c

NeededIn(cores, s, M, c) ==
  /\ \A i \in DOMAIN s : Sat(cores, OthersIn(s, M, c, i))
  /\ \A x \in M : Sat(cores, (Union(s) \cup M \cup c) \ {x})
  /\ c # {} => Sat(cores, Union(s) \cup M)

DisjointIn(s, M, c) ==
  /\ \A i, j \in DOMAIN s : i # j => s[i] \cap s[j] = {}
  /\ M \cap Union(s) = {}
  /\ c \cap (Union(s) \cup M) = {}

Formulas == (SUBSET Conj) \ {{}}

\* Pushing a formula, or adding it to the elements, keeps every conjunct.
LEMMA AppendUnion ==
  ASSUME NEW s \in Seq(Formulas), NEW X \in Formulas
  PROVE  /\ Append(s, X) \in Seq(Formulas)
         /\ DOMAIN Append(s, X) = DOMAIN s \cup {Len(s) + 1}
         /\ DOMAIN s = 1 .. Len(s)
         /\ \A i \in DOMAIN s : Append(s, X)[i] = s[i]
         /\ Append(s, X)[Len(s) + 1] = X
         /\ Union(Append(s, X)) = Union(s) \cup X
  <1>1. /\ Append(s, X) \in Seq(Formulas)
        /\ DOMAIN Append(s, X) = DOMAIN s \cup {Len(s) + 1}
        /\ DOMAIN s = 1 .. Len(s)
        /\ \A i \in DOMAIN s : Append(s, X)[i] = s[i]
        /\ Append(s, X)[Len(s) + 1] = X
    OBVIOUS
  <1>2. ToSet(Append(s, X)) = ToSet(s) \cup {X}
    BY <1>1 DEF ToSet
  <1>3. QED
    BY <1>1, <1>2 DEF Union

\* Popping the last formula.
LEMMA PopUnion ==
  ASSUME NEW s \in Seq(Formulas), s # <<>>
  PROVE  /\ Front(s) \in Seq(Formulas)
         /\ Last(s) \in Formulas
         /\ DOMAIN s = 1 .. Len(s)
         /\ Len(s) \in Nat /\ Len(s) \in DOMAIN s
         /\ Last(s) = s[Len(s)]
         /\ DOMAIN Front(s) = DOMAIN s \ {Len(s)}
         /\ \A i \in DOMAIN Front(s) : Front(s)[i] = s[i]
         /\ Union(s) = Union(Front(s)) \cup Last(s)
  <1>1. Len(s) \in Nat \ {0} /\ DOMAIN s = 1 .. Len(s)
    BY EmptySeq
  <1>2. Last(s) = s[Len(s)] /\ Last(s) \in Formulas /\ Len(s) \in DOMAIN s
    BY <1>1, ElementOfSeq DEF Last
  <1>3. Front(s) = SubSeq(s, 1, Len(s) - 1)
    BY DEF Front
  <1>4. \A i \in 1 .. Len(s) - 1 : s[i] \in Formulas
    BY <1>1, ElementOfSeq
  <1>5. /\ Front(s) \in Seq(Formulas)
        /\ Len(Front(s)) = Len(s) - 1
        /\ \A i \in 1 .. Len(s) - 1 : Front(s)[i] = s[i]
    BY <1>1, <1>3, <1>4, SubSeqProperties
  <1>6. DOMAIN Front(s) = 1 .. Len(s) - 1
    BY <1>5, LenProperties
  <1>7. DOMAIN Front(s) = DOMAIN s \ {Len(s)}
    BY <1>1, <1>6
  <1>8. ToSet(s) = ToSet(Front(s)) \cup {Last(s)}
    BY <1>1, <1>2, <1>5, <1>6, <1>7 DEF ToSet
  <1>9. QED
    BY <1>1, <1>2, <1>5, <1>6, <1>7, <1>8 DEF Union

\* What Push and Elements do with a non-empty formula X.
LEMMA PlaceCases ==
  ASSUME NEW s \in Seq(Formulas), NEW X \in Formulas, IsFiniteSet(X)
  PROVE  \/ Push(s, X) = Append(s, X) /\ Elements(X) = {}
         \/ /\ Push(s, X) = s
            /\ Elements(X) = X
            /\ \E x : X = {x}
  <1>1. X # {}
    BY DEF Formulas
  <1>2. CASE binaryPartition(X) = {}
    BY <1>1, <1>2, Uncut DEF Push, Elements
  <1>3. CASE binaryPartition(X) # {}
    BY <1>3 DEF Push, Elements
  <1>4. QED
    BY <1>2, <1>3

\* No conjunct of X gets lost.
KeepsConjuncts(s, X) == Union(Push(s, X)) \cup Elements(X) = Union(s) \cup X

LEMMA PlaceUnion ==
  ASSUME NEW s \in Seq(Formulas), NEW X \in Formulas, IsFiniteSet(X)
  PROVE  KeepsConjuncts(s, X)
  <1>1. CASE Push(s, X) = Append(s, X) /\ Elements(X) = {}
    <2>1. Union(Append(s, X)) = Union(s) \cup X
      BY AppendUnion
    <2>2. QED
      BY <1>1, <2>1 DEF KeepsConjuncts
  <1>2. CASE Push(s, X) = s /\ Elements(X) = X
    BY <1>2 DEF KeepsConjuncts
  <1>3. QED
    BY <1>1, <1>2, PlaceCases

\* X and Y are both needed, and so is all the rest.
Placeable(cores, s, M, X, Y) ==
  /\ \A i \in DOMAIN s : Sat(cores, OthersIn(s, M, X \cup Y, i))
  /\ \A x \in M : Sat(cores, (Union(s) \cup M \cup X \cup Y) \ {x})
  /\ Sat(cores, Union(s) \cup M \cup Y)
  /\ Y # {} => Sat(cores, Union(s) \cup M \cup X)

\* Placing X while Y remains to be worked on.
LEMMA PlaceKeepsNeeded ==
  ASSUME NEW cores, NEW s \in Seq(Formulas), NEW M, NEW Y,
         NEW X \in Formulas, IsFiniteSet(X), Placeable(cores, s, M, X, Y)
  PROVE  /\ NeededIn(cores, Push(s, X), M \cup Elements(X), Y)
         /\ Push(s, X) \in Seq(Formulas)
  <1>1. CASE Push(s, X) = Append(s, X) /\ Elements(X) = {}
    <2> DEFINE t == Append(s, X)
    <2>1. \A i \in DOMAIN t : Sat(cores, OthersIn(t, M, Y, i))
      <3>1. ASSUME NEW i \in DOMAIN s
            PROVE  OthersIn(t, M, Y, i) \subseteq OthersIn(s, M, X \cup Y, i)
        BY AppendUnion DEF OthersIn
      <3>2. OthersIn(t, M, Y, Len(s) + 1) \subseteq Union(s) \cup M \cup Y
        BY AppendUnion DEF OthersIn, Union, ToSet
      <3>3. \A i \in DOMAIN s : Sat(cores, OthersIn(t, M, Y, i))
        BY <3>1, SatAntitonic DEF Placeable
      <3>4. Sat(cores, OthersIn(t, M, Y, Len(s) + 1))
        BY <3>2, SatAntitonic DEF Placeable
      <3>5. DOMAIN t = DOMAIN s \cup {Len(s) + 1}
        BY AppendUnion
      <3>6. QED
        BY <3>3, <3>4, <3>5
    <2>2. Union(t) = Union(s) \cup X
      BY AppendUnion
    <2>3. ASSUME NEW x \in M
          PROVE  Sat(cores, (Union(t) \cup M \cup Y) \ {x})
      <3>1. (Union(t) \cup M \cup Y) \ {x}
              \subseteq (Union(s) \cup M \cup X \cup Y) \ {x}
        BY <2>2
      <3>2. QED
        BY <3>1, SatAntitonic DEF Placeable
    <2>4. Y # {} => Sat(cores, Union(t) \cup M)
      <3>1. Union(t) \cup M \subseteq Union(s) \cup M \cup X
        BY <2>2
      <3>2. QED
        BY <3>1, SatAntitonic DEF Placeable
    <2>5. NeededIn(cores, t, M, Y)
      BY <2>1, <2>3, <2>4 DEF NeededIn
    <2>6. M \cup Elements(X) = M
      BY <1>1
    <2>7. QED
      BY <1>1, <2>5, <2>6, AppendUnion
  <1>2. CASE Push(s, X) = s /\ Elements(X) = X /\ \E x : X = {x}
    <2>1. PICK e : X = {e}
      BY <1>2
    <2>2. ASSUME NEW i \in DOMAIN s
          PROVE  Sat(cores, OthersIn(s, M \cup X, Y, i))
      <3>1. OthersIn(s, M \cup X, Y, i) \subseteq OthersIn(s, M, X \cup Y, i)
        BY DEF OthersIn
      <3>2. QED
        BY <3>1, SatAntitonic DEF Placeable
    <2>3. ASSUME NEW x \in M \cup X
          PROVE  Sat(cores, (Union(s) \cup (M \cup X) \cup Y) \ {x})
      <3>1. CASE x \in M
        <4>1. (Union(s) \cup (M \cup X) \cup Y) \ {x}
                \subseteq (Union(s) \cup M \cup X \cup Y) \ {x}
          OBVIOUS
        <4>2. QED
          BY <3>1, <4>1, SatAntitonic DEF Placeable
      <3>2. CASE x = e
        <4>1. (Union(s) \cup (M \cup X) \cup Y) \ {x} \subseteq Union(s) \cup M \cup Y
          BY <2>1, <3>2
        <4>2. QED
          BY <4>1, SatAntitonic DEF Placeable
      <3>3. QED
        BY <2>1, <3>1, <3>2
    <2>4. Y # {} => Sat(cores, Union(s) \cup (M \cup X))
      <3>1. Union(s) \cup (M \cup X) \subseteq Union(s) \cup M \cup X
        OBVIOUS
      <3>2. QED
        BY <3>1, SatAntitonic DEF Placeable
    <2>5. QED
      BY <1>2, <2>2, <2>3, <2>4 DEF NeededIn
  <1>3. QED
    BY <1>1, <1>2, PlaceCases

\* Placing X keeps the conjuncts apart.
LEMMA PlaceKeepsDisjoint ==
  ASSUME NEW s \in Seq(Formulas), NEW M, NEW Y,
         NEW X \in Formulas, IsFiniteSet(X),
         DisjointIn(s, M, X \cup Y), X \cap Y = {}
  PROVE  DisjointIn(Push(s, X), M \cup Elements(X), Y)
  <1>1. CASE Push(s, X) = Append(s, X) /\ Elements(X) = {}
    <2> DEFINE t == Append(s, X)
    <2>1. \A i \in DOMAIN s : s[i] \cap X = {}
      BY DEF DisjointIn, Union, ToSet
    <2>2. \A i, j \in DOMAIN t : i # j => t[i] \cap t[j] = {}
      BY <2>1, AppendUnion DEF DisjointIn
    <2>3. Union(t) = Union(s) \cup X
      BY AppendUnion
    <2>4. QED
      BY <1>1, <2>2, <2>3 DEF DisjointIn
  <1>2. CASE Push(s, X) = s /\ Elements(X) = X
    BY <1>2 DEF DisjointIn
  <1>3. QED
    BY <1>1, <1>2, PlaceCases

\* Placing the last part X of what was worked on.
LEMMA PlaceLast ==
  ASSUME NEW cores, NEW s \in Seq(Formulas), NEW M,
         NEW X \in Formulas, IsFiniteSet(X),
         NeededIn(cores, s, M, X), DisjointIn(s, M, X)
  PROVE  /\ NeededIn(cores, Push(s, X), M \cup Elements(X), {})
         /\ DisjointIn(Push(s, X), M \cup Elements(X), {})
         /\ Push(s, X) \in Seq(Formulas)
  <1>1. PICK Y : Y = {}
    OBVIOUS
  <1>2. /\ X \cup Y = X
        /\ X \cap Y = {}
        /\ Union(s) \cup M \cup Y = Union(s) \cup M
        /\ Union(s) \cup M \cup X \cup Y = Union(s) \cup M \cup X
    BY <1>1
  <1>3. X # {}
    BY DEF Formulas
  <1>4. Placeable(cores, s, M, X, Y)
    BY <1>1, <1>2, <1>3 DEF Placeable, NeededIn
  <1>5. DisjointIn(s, M, X \cup Y)
    BY <1>2
  <1>6. /\ NeededIn(cores, Push(s, X), M \cup Elements(X), Y)
        /\ Push(s, X) \in Seq(Formulas)
    BY <1>4, PlaceKeepsNeeded
  <1>7. DisjointIn(Push(s, X), M \cup Elements(X), Y)
    BY <1>2, <1>5, PlaceKeepsDisjoint
  <1>8. QED
    BY <1>1, <1>6, <1>7

------------------------------------------------------------------------------
(* The inductive invariant.  EachNeeded is what makes the search minimal;    *)
(* StillUnsat is what makes the two facts about the obligations and about    *)
(* the halves usable; the last two conjuncts tie the control state to them.  *)

IInv ==
  /\ TypeOK
  /\ StillUnsat
  /\ EachNeeded
  /\ Disjoint
  /\ UCAssertionHolds
  /\ pc = "done" => S = <<>>

LEMMA FormulasFinite ==
  ASSUME NEW X \in SUBSET Conj
  PROVE  IsFiniteSet(X)
  BY ConjAssumption, FS_Subset

\* The extraction starts in the invariant.
LEMMA InitIInv == Init => IInv
  <1> SUFFICES ASSUME Init PROVE IInv
    OBVIOUS
  <1>1. IsProblem(Conj, problem)
    BY ProblemsAssumption DEF Init
  <1>2. Conj # {}
    BY <1>1 DEF IsProblem, Sat
  <1>3. /\ S \in Seq((SUBSET Conj) \ {{}})
        /\ DOMAIN S = {1} /\ S[1] = Conj
        /\ ToSet(S) = {Conj}
    BY <1>2 DEF Init, ToSet
  <1>4. TypeOK
    BY <1>1, <1>3 DEF Init, TypeOK
  <1>5. StillUnsat
    BY <1>1, <1>3 DEF Init, StillUnsat, InPlay, Rest, IsProblem, Unsat
  <1>6. EachNeeded
    <2>1. Others(1) = {}
      BY <1>3 DEF Others, Init
    <2>2. QED
      BY <1>1, <1>3, <2>1 DEF Init, EachNeeded, IsProblem
  <1>7. Disjoint
    BY <1>3 DEF Init, Disjoint
  <1>8. QED
    BY <1>4, <1>5, <1>6, <1>7 DEF Init, IInv, UCAssertionHolds

\* Popping a formula and shrinking it.
LEMMA SelectIInv == IInv /\ Select => IInv'
  <1> SUFFICES ASSUME IInv, Select PROVE IInv'
    OBVIOUS
  <1> DEFINE newf  == Last(S)
             items == ToSet(Front(S)) \cup {{x} : x \in MUC}
  <1>1. /\ S \in Seq(Formulas) /\ S # <<>>
        /\ MUC \in SUBSET Conj /\ cf = {} /\ pc = "call"
        /\ IsProblem(Conj, problem)
    BY DEF IInv, TypeOK, Select, Formulas
  <1>2. UNION items = Union(Front(S)) \cup MUC
    BY DEF Union
  <1>3. Union(S) = Union(Front(S)) \cup newf
    BY <1>1, PopUnion
  <1>4. Unsat(problem.cores, newf \cup UNION items)
    BY <1>1, <1>2, <1>3 DEF IInv, StillUnsat, InPlay, Rest, Union, Unsat
  <1>5. UCAssertion(problem, newf, items)
    BY <1>1, <1>4, ObligationsUnsat DEF UCAssertion
  <1>6. /\ S' = Front(S) /\ cf' \in SelectParts(problem, newf, items)
        /\ pc' = "split" /\ UNCHANGED <<problem, MUC, calls>>
    BY <1>5 DEF Select
  <1>7. cf' \subseteq newf /\ cf' # {}
    <2>1. newf # {}
      BY <1>1, PopUnion DEF Formulas
    <2>2. \/ cf' = newf
          \/ /\ cf' \subseteq newf
             /\ cf' # {}
             /\ Unsat(problem.cores, cf' \cup UNION items)
      BY <1>6, SelectedPart
    <2>3. QED
      BY <2>1, <2>2
  <1>8. TypeOK'
    <2>1. newf \in SUBSET Conj /\ S' \in Seq(Formulas)
      BY <1>1, <1>6, PopUnion DEF Formulas
    <2>2. QED
      BY <1>1, <1>6, <1>7, <2>1 DEF IInv, TypeOK, Formulas
  <1>9. StillUnsat'
    <2>1. Unsat(problem.cores, cf' \cup UNION items)
      BY <1>4, <1>6, SelectedPart
    <2>2. InPlay' = cf' \cup UNION items
      BY <1>2, <1>6 DEF InPlay, Rest, Union
    <2>3. QED
      BY <1>6, <2>1, <2>2 DEF StillUnsat
  <1>10. EachNeeded'
    <2>1. ASSUME NEW i \in DOMAIN S'
          PROVE  Sat(problem.cores, Others(i)')
      <3>1. /\ i \in DOMAIN S
            /\ \A j \in DOMAIN S' \ {i} : j \in DOMAIN S \ {i} /\ S'[j] = S[j]
            /\ Len(S) \in DOMAIN S \ {i} /\ newf = S[Len(S)]
        BY <1>1, <1>6, PopUnion
      <3>2. Others(i)' \subseteq Others(i)
        BY <1>6, <1>7, <3>1 DEF Others
      <3>3. Sat(problem.cores, Others(i))
        BY <3>1 DEF IInv, EachNeeded
      <3>4. QED
        BY <3>2, <3>3, SatAntitonic
    <2>2. ASSUME NEW x \in MUC'
          PROVE  Sat(problem.cores, (InPlay \ {x})')
      <3>1. InPlay' \subseteq InPlay
        BY <1>1, <1>3, <1>6, <1>7 DEF InPlay, Rest, Union
      <3>2. Sat(problem.cores, InPlay \ {x})
        BY <1>6 DEF IInv, EachNeeded
      <3>3. InPlay' \ {x} \subseteq InPlay \ {x}
        BY <3>1
      <3>4. QED
        BY <3>2, <3>3, SatAntitonic
    <2>3. Sat(problem.cores, Rest')
      <3>1. Len(S) \in DOMAIN S
        BY <1>1, PopUnion
      <3>2. Rest' \subseteq Others(Len(S))
        <4>1. \A X \in ToSet(S') : \E j \in DOMAIN S \ {Len(S)} : X = S[j]
          BY <1>1, <1>6, PopUnion DEF ToSet
        <4>2. QED
          BY <1>6, <4>1 DEF Rest, Others
      <3>3. QED
        BY <3>1, <3>2, SatAntitonic DEF IInv, EachNeeded
    <2>4. QED
      BY <1>6, <2>1, <2>2, <2>3 DEF EachNeeded
  <1>11. Disjoint'
    <2>1. /\ DOMAIN S' = DOMAIN S \ {Len(S)} /\ Len(S) \in DOMAIN S
          /\ newf = S[Len(S)]
          /\ \A i \in DOMAIN S' : S'[i] = S[i]
      BY <1>1, <1>6, PopUnion
    <2>2. \A X \in ToSet(S') : X \cap newf = {}
      BY <2>1 DEF IInv, Disjoint, ToSet
    <2>3. MUC \cap UNION ToSet(S) = {}
      BY DEF IInv, Disjoint
    <2>4. UNION ToSet(S) = (UNION ToSet(S')) \cup newf
      BY <1>3, <1>6 DEF Union
    <2>5. cf' \cap Rest' = {}
      BY <1>6, <1>7, <2>2, <2>3, <2>4 DEF Rest
    <2>6. QED
      BY <1>6, <2>1, <2>3, <2>4, <2>5 DEF IInv, Disjoint
  <1>12. QED
    BY <1>6, <1>8, <1>9, <1>10, <1>11 DEF IInv, UCAssertionHolds

\* Everything Element, KeepHalf and KeepBoth share: the new stack and the new
\* elements hold Unsat, Needed and Disjoint, and the control state follows.
LEMMA CallIInv ==
  ASSUME TypeOK,
         S' \in Seq(Formulas), MUC' \in SUBSET Conj, cf' = {},
         calls' \in Seq({"element", "half", "last"}),
         pc' = "call", problem' = problem,
         Unsat(problem.cores, Union(S') \cup MUC'),
         NeededIn(problem.cores, S', MUC', {}),
         DisjointIn(S', MUC', {})
  PROVE  IInv'
  <1>1. TypeOK'
    BY DEF TypeOK, Formulas
  <1>2. InPlay' = Union(S') \cup MUC'
    BY DEF InPlay, Rest, Union
  <1>3. StillUnsat'
    BY <1>2 DEF StillUnsat
  <1>4. EachNeeded'
    <2>1. \A i \in DOMAIN S' : Others(i)' = OthersIn(S', MUC', {}, i)
      BY DEF Others, OthersIn
    <2>2. QED
      BY <1>2, <2>1 DEF EachNeeded, NeededIn
  <1>5. Disjoint'
    BY DEF Disjoint, DisjointIn, Rest, Union
  <1>6. QED
    BY <1>1, <1>3, <1>4, <1>5 DEF IInv, UCAssertionHolds

\* What the invariant says when cf is set, in the terms of the lemmas above.
LEMMA SplitFacts ==
  ASSUME IInv, pc = "split"
  PROVE  /\ S \in Seq(Formulas) /\ MUC \in SUBSET Conj
         /\ cf \in Formulas /\ IsFiniteSet(cf)
         /\ Rest = Union(S) \cup MUC
         /\ Unsat(problem.cores, Union(S) \cup MUC \cup cf)
         /\ \A i \in DOMAIN S : Sat(problem.cores, OthersIn(S, MUC, cf, i))
         /\ \A x \in MUC : Sat(problem.cores, (Union(S) \cup MUC \cup cf) \ {x})
         /\ Sat(problem.cores, Union(S) \cup MUC)
         /\ DisjointIn(S, MUC, cf)
  <1>1. S \in Seq(Formulas) /\ MUC \in SUBSET Conj /\ cf \in Formulas
    BY DEF IInv, TypeOK, Formulas
  <1>2. IsFiniteSet(cf)
    BY <1>1, FormulasFinite DEF Formulas
  <1>3. Rest = Union(S) \cup MUC /\ InPlay = Union(S) \cup MUC \cup cf
    BY DEF Rest, InPlay, Union
  <1>4. \A i \in DOMAIN S : Others(i) = OthersIn(S, MUC, cf, i)
    BY DEF Others, OthersIn
  <1>5. Unsat(problem.cores, Union(S) \cup MUC \cup cf)
    BY <1>3 DEF IInv, StillUnsat
  <1>6. DisjointIn(S, MUC, cf)
    BY <1>3 DEF IInv, Disjoint, DisjointIn, Union
  <1>7. cf # {}
    BY <1>1 DEF Formulas
  <1>8. QED
    BY <1>1, <1>2, <1>3, <1>4, <1>5, <1>6, <1>7 DEF IInv, EachNeeded

\* Placing one part X of cf while the other conjuncts of cf are dropped:
\* X suffices with the rest.
LEMMA KeepOnePart ==
  ASSUME IInv, pc = "split", NEW X \in Formulas, X \subseteq cf,
         Unsat(problem.cores, X \cup Rest)
  PROVE  /\ Push(S, X) \in Seq(Formulas)
         /\ MUC \cup Elements(X) \in SUBSET Conj
         /\ Unsat(problem.cores, Union(Push(S, X)) \cup (MUC \cup Elements(X)))
         /\ NeededIn(problem.cores, Push(S, X), MUC \cup Elements(X), {})
         /\ DisjointIn(Push(S, X), MUC \cup Elements(X), {})
  <1> DEFINE cores == problem.cores
  <1>1. IsFiniteSet(X)
    BY FormulasFinite DEF Formulas
  <1>2. \A i \in DOMAIN S : Sat(cores, OthersIn(S, MUC, X, i))
    <2>1. ASSUME NEW i \in DOMAIN S
          PROVE  OthersIn(S, MUC, X, i) \subseteq OthersIn(S, MUC, cf, i)
      BY DEF OthersIn
    <2>2. QED
      BY <2>1, SplitFacts, SatAntitonic
  <1>3. ASSUME NEW x \in MUC
        PROVE  Sat(cores, (Union(S) \cup MUC \cup X) \ {x})
    <2>1. (Union(S) \cup MUC \cup X) \ {x}
            \subseteq (Union(S) \cup MUC \cup cf) \ {x}
      OBVIOUS
    <2>2. Sat(cores, (Union(S) \cup MUC \cup cf) \ {x})
      BY SplitFacts
    <2>3. QED
      BY <2>1, <2>2, SatAntitonic
  <1>4. NeededIn(cores, S, MUC, X) /\ DisjointIn(S, MUC, X)
    BY <1>2, <1>3, SplitFacts DEF NeededIn, DisjointIn
  <1>5. S \in Seq(Formulas)
    BY SplitFacts
  <1>6. /\ NeededIn(cores, Push(S, X), MUC \cup Elements(X), {})
        /\ DisjointIn(Push(S, X), MUC \cup Elements(X), {})
        /\ Push(S, X) \in Seq(Formulas)
    BY <1>1, <1>4, <1>5, PlaceLast
  <1>7. Union(Push(S, X)) \cup (MUC \cup Elements(X)) = X \cup Rest
    <2>1. Union(Push(S, X)) \cup Elements(X) = Union(S) \cup X
      BY <1>1, <1>5, PlaceUnion DEF KeepsConjuncts
    <2>2. QED
      BY <2>1, SplitFacts
  <1>8. MUC \cup Elements(X) \in SUBSET Conj
    BY SplitFacts DEF Elements, Formulas
  <1>9. QED
    <2>1. Unsat(problem.cores, Union(Push(S, X)) \cup (MUC \cup Elements(X)))
      BY <1>7
    <2>2. QED
      BY <1>6, <1>8, <2>1

LEMMA CallsGrow ==
  ASSUME TypeOK, NEW c \in {"element", "half", "last"}
  PROVE  Append(calls, c) \in Seq({"element", "half", "last"})
  BY DEF TypeOK

\* The formula that cannot be partitioned becomes an element.
LEMMA ElementIInv == IInv /\ Element => IInv'
  <1> SUFFICES ASSUME IInv, Element PROVE IInv'
    OBVIOUS
  <1>1. pc = "split" /\ binaryPartition(cf) = {}
    BY DEF Element
  <1>2. Push(S, cf) = S' /\ MUC \cup Elements(cf) = MUC'
    BY <1>1 DEF Push, Elements, Element
  <1>3. Unsat(problem.cores, cf \cup Rest)
    BY <1>1, SplitFacts DEF Unsat
  <1>4. /\ S' \in Seq(Formulas) /\ MUC' \in SUBSET Conj
        /\ Unsat(problem.cores, Union(S') \cup MUC')
        /\ NeededIn(problem.cores, S', MUC', {})
        /\ DisjointIn(S', MUC', {})
    BY <1>1, <1>2, <1>3, SplitFacts, KeepOnePart
  <1>5. TypeOK /\ calls' \in Seq({"element", "half", "last"})
    BY CallsGrow DEF IInv, Element
  <1>6. QED
    BY <1>4, <1>5, CallIInv DEF Element

\* One half suffices.
LEMMA KeepHalfIInv == IInv /\ KeepHalf => IInv'
  <1> SUFFICES ASSUME IInv, KeepHalf PROVE IInv'
    OBVIOUS
  <1>1. pc = "split"
    BY DEF KeepHalf
  <1>2. PICK P \in binaryPartition(cf) :
          /\ Suffices(P[1]) \/ Suffices(P[2])
          /\ LET half == IF Suffices(P[1]) THEN P[1] ELSE P[2]
             IN  /\ MUC' = MUC \cup Elements(half)
                 /\ S' = Push(S, half)
    BY DEF KeepHalf
  <1> DEFINE half == IF Suffices(P[1]) THEN P[1] ELSE P[2]
  <1>3. half \in Formulas /\ half \subseteq cf
    <2>1. P[1] \cup P[2] = cf /\ P[1] # {} /\ P[2] # {}
      BY <1>1, SplitFacts, Halves
    <2>2. QED
      BY <1>1, <2>1, SplitFacts DEF Formulas
  <1>4. Unsat(problem.cores, half \cup Rest)
    BY <1>2 DEF Suffices
  <1>5. MUC' = MUC \cup Elements(half) /\ S' = Push(S, half)
    BY <1>2
  <1>6. /\ S' \in Seq(Formulas) /\ MUC' \in SUBSET Conj
        /\ Unsat(problem.cores, Union(S') \cup MUC')
        /\ NeededIn(problem.cores, S', MUC', {})
        /\ DisjointIn(S', MUC', {})
    BY <1>1, <1>3, <1>4, <1>5, KeepOnePart
  <1>7. TypeOK /\ calls' \in Seq({"element", "half", "last"})
    BY CallsGrow DEF IInv, KeepHalf
  <1>8. QED
    BY <1>6, <1>7, CallIInv DEF KeepHalf

\* Neither half suffices: the first is placed while the second remains, then
\* the second.
LEMMA KeepBothIInv == IInv /\ KeepBoth => IInv'
  <1> SUFFICES ASSUME IInv, KeepBoth PROVE IInv'
    OBVIOUS
  <1> DEFINE cores == problem.cores
  <1>1. pc = "split"
    BY DEF KeepBoth
  <1>2. PICK P \in binaryPartition(cf) :
          /\ ~ Suffices(P[1]) /\ ~ Suffices(P[2])
          /\ MUC' = MUC \cup Elements(P[1]) \cup Elements(P[2])
          /\ S' = Push(Push(S, P[1]), P[2])
    BY DEF KeepBoth
  <1> DEFINE X == P[1]
             Y == P[2]
             s1 == Push(S, X)
             M1 == MUC \cup Elements(X)
  <1>3. /\ X \cup Y = cf /\ X \cap Y = {}
        /\ X \in Formulas /\ Y \in Formulas
        /\ IsFiniteSet(X) /\ IsFiniteSet(Y)
    <2>1. X \cup Y = cf /\ X \cap Y = {} /\ X # {} /\ Y # {}
      BY <1>1, SplitFacts, Halves
    <2>2. X \in Formulas /\ Y \in Formulas
      BY <1>1, <2>1, SplitFacts DEF Formulas
    <2>3. QED
      BY <2>1, <2>2, FormulasFinite DEF Formulas
  <1>4. /\ Sat(cores, Union(S) \cup MUC \cup X)
        /\ Sat(cores, Union(S) \cup MUC \cup Y)
    <2>1. /\ X \cup Rest = Union(S) \cup MUC \cup X
          /\ Y \cup Rest = Union(S) \cup MUC \cup Y
      BY <1>1, SplitFacts
    <2>2. QED
      BY <1>2, <2>1 DEF Suffices, Sat
  <1>5. /\ NeededIn(cores, s1, M1, Y)
        /\ s1 \in Seq(Formulas)
    <2>1. \A i \in DOMAIN S : Sat(cores, OthersIn(S, MUC, X \cup Y, i))
      BY <1>1, <1>3, SplitFacts
    <2>2. \A x \in MUC : Sat(cores, (Union(S) \cup MUC \cup X \cup Y) \ {x})
      <3>1. Union(S) \cup MUC \cup X \cup Y = Union(S) \cup MUC \cup cf
        BY <1>3
      <3>2. QED
        BY <1>1, <3>1, SplitFacts
    <2>3. Placeable(cores, S, MUC, X, Y)
      BY <1>4, <2>1, <2>2 DEF Placeable
    <2>4. QED
      BY <1>1, <1>3, <2>3, SplitFacts, PlaceKeepsNeeded
  <1>6. DisjointIn(s1, M1, Y)
    BY <1>1, <1>3, SplitFacts, PlaceKeepsDisjoint
  <1> HIDE DEF s1, M1
  <1>7. /\ NeededIn(cores, Push(s1, Y), M1 \cup Elements(Y), {})
        /\ DisjointIn(Push(s1, Y), M1 \cup Elements(Y), {})
        /\ Push(s1, Y) \in Seq(Formulas)
    BY <1>3, <1>5, <1>6, PlaceLast
  <1>8. S' = Push(s1, Y) /\ MUC' = M1 \cup Elements(Y)
    BY <1>2 DEF s1, M1
  <1>9. Unsat(cores, Union(S') \cup MUC')
    <2>1. Union(s1) \cup Elements(X) = Union(S) \cup X
      BY <1>1, <1>3, SplitFacts, PlaceUnion DEF s1, KeepsConjuncts
    <2>2. Union(Push(s1, Y)) \cup Elements(Y) = Union(s1) \cup Y
      BY <1>3, <1>5, PlaceUnion DEF KeepsConjuncts
    <2>3. Union(S') \cup MUC' = Union(S) \cup MUC \cup cf
      BY <1>3, <1>8, <2>1, <2>2 DEF M1
    <2>4. QED
      BY <1>1, <2>3, SplitFacts
  <1>10. MUC' \in SUBSET Conj
    BY <1>1, <1>3, <1>8, SplitFacts DEF M1, Elements, Formulas
  <1>11. TypeOK /\ calls' \in Seq({"element", "half", "last"})
    BY CallsGrow DEF IInv, KeepBoth
  <1>12. QED
    BY <1>7, <1>8, <1>9, <1>10, <1>11, CallIInv DEF KeepBoth

\* The steps that only return, or do nothing.
LEMMA ReturnIInv ==
  IInv /\ (Return \/ Finish \/ UNCHANGED vars) => IInv'
  <1> USE DEF TypeOK, StillUnsat, EachNeeded, Disjoint, UCAssertionHolds,
              InPlay, Rest, Others
  <1>1. IInv /\ Return => IInv'
    <2> SUFFICES ASSUME IInv, Return PROVE IInv'
      OBVIOUS
    <2>1. calls' \in Seq({"element", "half", "last"})
      <3>1. calls \in Seq({"element", "half", "last"}) /\ calls # <<>>
        BY DEF IInv, Return
      <3>2. Front(calls) \in Seq({"element", "half", "last"})
        BY <3>1, EmptySeq, ElementOfSeq, SubSeqProperties DEF Front
      <3>3. QED
        BY <3>2 DEF Return
    <2>2. QED
      BY <2>1 DEF IInv, Return
  <1>2. IInv /\ Finish => IInv'
    BY DEF IInv, Finish
  <1>3. IInv /\ UNCHANGED vars => IInv'
    BY DEF IInv, vars
  <1>4. QED
    BY <1>1, <1>2, <1>3

\* Every step preserves the invariant.
LEMMA NextIInv == IInv /\ [Next]_vars => IInv'
  BY SelectIInv, ElementIInv, KeepHalfIInv, KeepBothIInv, ReturnIInv
     DEF Next, Terminated

\* The invariant holds in every reachable state.
THEOREM Invariance == Spec => []IInv
  BY InitIInv, NextIInv, PTL DEF Spec

\* Every variable of muc() keeps its type and no formula pushed on S is the
\* empty conjunction, on which constructAnd() asserts.
THEOREM TypeCorrect == Spec => []TypeOK
  <1>1. IInv => TypeOK
    BY DEF IInv
  <1>2. QED
    BY <1>1, Invariance, PTL

\* What muc() drops is never needed: S, MUC and the formula being worked on
\* stay unsatisfiable together.
THEOREM DroppingKeepsConflict == Spec => []StillUnsat
  <1>1. IInv => StillUnsat
    BY DEF IInv
  <1>2. QED
    BY <1>1, Invariance, PTL

\* No conjunct is in two formulas of S, or both open and in MUC.
THEOREM NoConjunctTwice == Spec => []Disjoint
  <1>1. IInv => Disjoint
    BY DEF IInv
  <1>2. QED
    BY <1>1, Invariance, PTL

\* assert(!s.SAT()) in muc() never fails.
THEOREM ObligationsStayUnsat == Spec => []UCAssertionHolds
  <1>1. IInv => UCAssertionHolds
    BY DEF IInv
  <1>2. QED
    BY <1>1, Invariance, PTL

\* The comment of muc() on its stack: every core still in play holds all of
\* MUC and meets every formula of S and the formula being worked on.
THEOREM EveryFormulaHoldsCoreElement == Spec => []CoreInEachFormula
  <1>1. IInv => CoreInEachFormula
    <2> SUFFICES ASSUME IInv,
                        NEW M \in SUBSET InPlay, Unsat(problem.cores, M)
                 PROVE  /\ MUC \subseteq M
                        /\ \A i \in DOMAIN S : S[i] \cap M # {}
                        /\ cf # {} => cf \cap M # {}
      BY DEF CoreInEachFormula
    <2>1. ASSUME NEW x \in MUC, x \notin M
          PROVE  FALSE
      <3>1. M \subseteq InPlay \ {x}
        BY <2>1
      <3>2. QED
        BY <3>1, SatAntitonic DEF IInv, EachNeeded, Sat
    <2>2. ASSUME NEW i \in DOMAIN S, S[i] \cap M = {}
          PROVE  FALSE
      <3>1. M \subseteq Others(i)
        BY <2>2 DEF InPlay, Rest, Others, ToSet
      <3>2. QED
        BY <3>1, SatAntitonic DEF IInv, EachNeeded, Sat
    <2>3. ASSUME cf # {}, cf \cap M = {}
          PROVE  FALSE
      <3>1. M \subseteq Rest
        BY <2>3 DEF InPlay
      <3>2. QED
        BY <2>3, <3>1, SatAntitonic DEF IInv, EachNeeded, Sat
    <2>4. QED
      BY <2>1, <2>2, <2>3
  <1>2. QED
    BY <1>1, Invariance, PTL

\* An activation that finds S empty with nothing to work on has a minimal
\* unsatisfiable core in MUC.
LEMMA EmptyStackIsMUC ==
  ASSUME IInv, S = <<>>, cf = {}
  PROVE  IsMUC(problem.cores, MUC) /\ MUC \in SUBSET Conj /\ MUC # {}
  <1>1. InPlay = MUC
    BY DEF InPlay, Rest, ToSet
  <1>2. IsMUC(problem.cores, MUC)
    BY <1>1 DEF IInv, StillUnsat, EachNeeded, IsMUC
  <1>3. IsProblem(Conj, problem)
    BY DEF IInv, TypeOK
  <1>4. MUC # {}
    BY <1>2, <1>3 DEF IsMUC, IsProblem, Sat
  <1>5. QED
    BY <1>2, <1>4 DEF IInv, TypeOK

\* muc() implements the extraction: it answers once and what it answers is a
\* minimal unsatisfiable core of the formula.
THEOREM ExtractsMUC == Spec => RefinesExtraction
  <1> DEFINE core == IF pc = "done" THEN MUC ELSE {}
  <1>1. Init => Extraction!Init
    BY DEF Init, Extraction!Init
  <1>2. IInv /\ [Next]_vars => [Extraction!Answer]_(Extraction!vars)
    <2> SUFFICES ASSUME IInv, [Next]_vars
                 PROVE  [Extraction!Answer]_(Extraction!vars)
      OBVIOUS
    <2>1. CASE Finish
      <3>1. IsMUC(problem.cores, MUC) /\ MUC \in SUBSET Conj
        BY <2>1, EmptyStackIsMUC DEF Finish, IInv, TypeOK
      <3>2. core = {} /\ core' = MUC /\ problem' = problem
        BY <2>1 DEF Finish
      <3>3. Extraction!Answer
        <4>1. Extraction!IsMUC(problem.cores, MUC)
          BY <3>1 DEF IsMUC, Unsat, Sat, Extraction!IsMUC, Extraction!Unsat,
                      Extraction!Sat
        <4>2. QED
          BY <3>1, <3>2, <4>1 DEF Extraction!Answer
      <3>4. QED
        BY <3>3
    <2>2. CASE Select \/ Element \/ KeepHalf \/ KeepBoth \/ Return
      <3>1. pc # "done" /\ pc' # "done" /\ problem' = problem
        BY <2>2 DEF Select, Element, KeepHalf, KeepBoth, Return
      <3>2. QED
        BY <3>1 DEF Extraction!vars
    <2>3. CASE UNCHANGED vars
      BY <2>3 DEF vars, Extraction!vars
    <2>4. QED
      BY <2>1, <2>2, <2>3 DEF Next, Terminated
  <1>3. QED
    BY <1>1, <1>2, Invariance, PTL
       DEF Spec, RefinesExtraction, Extraction!SafeSpec

------------------------------------------------------------------------------
(* The depth of the recursion.  Every activation that calls again has dropped a
   conjunct, or has cut a formula in two that are both still open: what the open
   formulas hold beyond one conjunct each goes down. *)

\* The bound: one call less than there are conjuncts, but one at least.
Deepest == IF Cardinality(Conj) > 2 THEN Cardinality(Conj) - 1 ELSE 1

\* No formula of S is a single conjunct, but the only one of all.
Large ==
  \/ \A i \in DOMAIN S : Cardinality(S[i]) >= 2
  \/ pc = "call" /\ Len(S) = 1 /\ calls = <<>>

Slack ==
  /\ pc = "split" => Len(calls) + Cardinality(Union(S)) + 1 <= Len(S) + Deepest
  /\ Len(calls) + Cardinality(Union(S)) + Cardinality(cf)
       <= Len(S) + Deepest + (IF pc = "split" THEN 1 ELSE 0)

LEMMA SizeOf ==
  ASSUME NEW X \in SUBSET Conj
  PROVE  /\ IsFiniteSet(X)
         /\ Cardinality(X) \in Nat
         /\ Deepest \in Nat \ {0}
         /\ X # {} => Cardinality(X) >= 1
         /\ \A Y \in SUBSET X : Cardinality(Y) <= Cardinality(X)
  <1>1. IsFiniteSet(X)
    BY FormulasFinite
  <1>2. Cardinality(X) \in Nat /\ Cardinality(Conj) \in Nat
    BY <1>1, ConjAssumption, FS_CardinalityType
  <1>3. X # {} => Cardinality(X) >= 1
    BY <1>1, <1>2, FS_EmptySet
  <1>4. \A Y \in SUBSET X : Cardinality(Y) <= Cardinality(X)
    BY <1>1, FS_Subset
  <1>5. Deepest \in Nat \ {0}
    BY <1>2 DEF Deepest
  <1>6. QED
    BY <1>1, <1>2, <1>3, <1>4, <1>5

\* The sizes of sets without a common conjunct add up.
LEMMA SizesAdd ==
  ASSUME NEW X \in SUBSET Conj, NEW Y \in SUBSET Conj, X \cap Y = {}
  PROVE  Cardinality(X \cup Y) = Cardinality(X) + Cardinality(Y)
  <1>1. Cardinality(X \cup Y) = Cardinality(X) + Cardinality(Y) - Cardinality(X \cap Y)
    BY FormulasFinite, FS_Union
  <1>2. Cardinality(X \cap Y) = 0
    BY FS_EmptySet
  <1>3. QED
    BY <1>1, <1>2, SizeOf

LEMMA UnionInConj == ASSUME NEW s \in Seq(Formulas) PROVE Union(s) \in SUBSET Conj
  <1>1. ToSet(s) \subseteq Formulas
    BY DEF ToSet
  <1>2. QED
    BY <1>1 DEF Union, Formulas

\* What pushing a formula, or taking it for an element, does to the sizes.
LEMMA PushSizes ==
  ASSUME NEW s \in Seq(Formulas), NEW X \in Formulas, Union(s) \cap X = {}
  PROVE  \/ /\ Len(Push(s, X)) = Len(s) + 1
            /\ Cardinality(Union(Push(s, X))) = Cardinality(Union(s)) + Cardinality(X)
         \/ /\ Push(s, X) = s
            /\ Cardinality(X) = 1
  <1>1. IsFiniteSet(X) /\ X \in SUBSET Conj
    BY FormulasFinite DEF Formulas
  <1>2. CASE Push(s, X) = Append(s, X)
    <2>1. Union(Push(s, X)) = Union(s) \cup X /\ Len(Push(s, X)) = Len(s) + 1
      BY <1>2, AppendUnion
    <2>2. QED
      BY <1>1, <2>1, UnionInConj, SizesAdd
  <1>3. CASE Push(s, X) = s /\ \E x : X = {x}
    BY <1>3, FS_Singleton
  <1>4. QED
    BY <1>1, <1>2, <1>3, PlaceCases

\* Whatever is pushed is large.
LEMMA PushLarge ==
  ASSUME NEW s \in Seq(Formulas), NEW X \in Formulas,
         \A i \in DOMAIN s : Cardinality(s[i]) >= 2
  PROVE  \A i \in DOMAIN Push(s, X) : Cardinality(Push(s, X)[i]) >= 2
  <1>1. CASE binaryPartition(X) = {}
    BY <1>1 DEF Push
  <1>2. CASE binaryPartition(X) # {}
    <2>1. Cardinality(X) > 1 /\ Cardinality(X) \in Nat
      BY <1>2, SizeOf DEF binaryPartition, Formulas
    <2>2. Cardinality(X) >= 2
      BY <2>1
    <2>3. PICK t : t = Append(s, X)
      OBVIOUS
    <2>4. \A i \in DOMAIN t : (i \in DOMAIN s /\ t[i] = s[i]) \/ t[i] = X
      BY <2>3, AppendUnion
    <2>5. QED
      BY <1>2, <2>2, <2>3, <2>4 DEF Push
  <1>3. QED
    BY <1>1, <1>2

\* There are no more formulas than conjuncts in them.
LEMMA OneEach ==
  ASSUME NEW s \in Seq(Formulas), \A i, j \in DOMAIN s : i # j => s[i] \cap s[j] = {}
  PROVE  Len(s) <= Cardinality(Union(s))
  <1> DEFINE D == DOMAIN s
             U == Union(s)
             f == [i \in D |-> CHOOSE x : x \in s[i]]
  <1>1. \A i \in D : f[i] \in s[i]
    <2>1. \A i \in D : s[i] # {}
      BY DEF Formulas
    <2>2. QED
      BY <2>1
  <1>2. \A i \in D : f[i] \in U
    BY <1>1 DEF Union, ToSet
  <1>3. \A i, j \in D : f[i] = f[j] => i = j
    BY <1>1
  <1>4. DOMAIN f = D
    OBVIOUS
  <1>5. IsFiniteSet(U)
    BY UnionInConj, FormulasFinite
  <1>6. Len(s) \in Nat /\ D = 1 .. Len(s)
    OBVIOUS
  <1>7. Cardinality(D) = Len(s)
    <2>1. Cardinality(1 .. Len(s)) = IF 1 > Len(s) THEN 0 ELSE Len(s) - 1 + 1
      BY <1>6, FS_Interval
    <2>2. QED
      BY <1>6, <2>1
  <1>8. f \in [D -> U]
    BY <1>2
  <1> HIDE DEF f, D, U
  <1>9. f \in Injection(D, U)
    BY <1>3, <1>4, <1>8 DEF Injection, IsInjective
  <1>10. QED
    BY <1>5, <1>7, <1>9, FS_Injection DEF U

\* cf and what is open besides.
LEMMA SplitCounts ==
  ASSUME IInv, pc = "split"
  PROVE  /\ S \in Seq(Formulas) /\ cf \in Formulas /\ Union(S) \cap cf = {}
         /\ Len(calls) \in Nat /\ Len(S) \in Nat /\ Cardinality(Union(S)) \in Nat
         /\ Cardinality(cf) \in Nat \ {0} /\ Deepest \in Nat
  <1>1. S \in Seq(Formulas) /\ cf \in Formulas /\ Union(S) \cap cf = {}
    BY SplitFacts DEF DisjointIn
  <1>2. Len(calls) \in Nat /\ Len(S) \in Nat
    BY DEF IInv, TypeOK
  <1>3. Cardinality(Union(S)) \in Nat /\ Deepest \in Nat
    BY <1>1, UnionInConj, SizeOf
  <1>4. Cardinality(cf) \in Nat \ {0}
    BY <1>1, SizeOf DEF Formulas
  <1>5. QED
    BY <1>1, <1>2, <1>3, <1>4

\* The numbers that the invariant compares.
LEMMA SplitSizes ==
  ASSUME IInv, Slack, Large, pc = "split"
  PROVE  /\ Len(calls) + Cardinality(Union(S)) + 1 <= Len(S) + Deepest
         /\ Len(calls) + Cardinality(Union(S)) + Cardinality(cf) <= Len(S) + Deepest + 1
         /\ \A i \in DOMAIN S : Cardinality(S[i]) >= 2
  BY SplitCounts DEF Slack, Large

\* Popping a formula: what is shrunk away is gone.
LEMMA SelectSizes ==
  ASSUME IInv, Select
  PROVE  /\ S \in Seq(Formulas) /\ S' \in Seq(Formulas) /\ Last(S) \in Formulas
         /\ pc = "call" /\ pc' = "split" /\ cf = {} /\ cf' \in Formulas
         /\ calls' = calls /\ Len(calls) \in Nat
         /\ Len(S') \in Nat /\ Len(S) = Len(S') + 1
         /\ DOMAIN S = 1 .. Len(S) /\ DOMAIN S' = DOMAIN S \ {Len(S)}
         /\ Last(S) = S[Len(S)]
         /\ \A i \in DOMAIN S' : S'[i] = S[i]
         /\ Cardinality(Union(S)) = Cardinality(Union(S')) + Cardinality(Last(S))
         /\ Cardinality(cf') <= Cardinality(Last(S))
  <1>1. /\ S \in Seq(Formulas) /\ S # <<>> /\ pc = "call" /\ cf = {}
        /\ S' = Front(S) /\ calls' = calls /\ Len(calls) \in Nat
    BY DEF IInv, TypeOK, Select, Formulas
  <1>2. pc' = "split" /\ cf' \in Formulas /\ cf' \subseteq Last(S)
    <2>1. IInv'
      BY SelectIInv
    <2>2. pc' = "split"
      BY <2>1 DEF Select, IInv, UCAssertionHolds
    <2>3. PICK items : cf' \in SelectParts(problem, Last(S), items)
      BY <2>2 DEF Select
    <2>4. cf' \subseteq Last(S)
      <3>1. \/ cf' = Last(S)
            \/ /\ cf' \subseteq Last(S)
               /\ cf' # {}
               /\ Unsat(problem.cores, cf' \cup UNION items)
        BY <2>3, SelectedPart
      <3>2. QED
        BY <3>1
    <2>5. cf' \in Formulas
      BY <2>1, <2>2 DEF IInv, TypeOK, Formulas
    <2>6. QED
      BY <2>2, <2>4, <2>5
  <1>3. /\ S' \in Seq(Formulas) /\ Last(S) \in Formulas
        /\ Len(S) \in Nat /\ Len(S) \in DOMAIN S /\ Last(S) = S[Len(S)]
        /\ DOMAIN S = 1 .. Len(S) /\ DOMAIN S' = DOMAIN S \ {Len(S)}
        /\ \A i \in DOMAIN S' : S'[i] = S[i]
        /\ Union(S) = Union(S') \cup Last(S)
    BY <1>1, PopUnion
  <1>4. Len(S') \in Nat /\ Len(S) = Len(S') + 1
    <2>1. Len(S') \in Nat
      BY <1>3
    <2>2. Len(S') = Len(S) - 1
      BY <1>1, AllButLast DEF Front
    <2>3. QED
      BY <1>3, <2>1, <2>2
  <1>5. Union(S') \cap Last(S) = {}
    <2>1. \A X \in ToSet(S') : X \cap Last(S) = {}
      BY <1>3 DEF IInv, Disjoint, ToSet
    <2>2. QED
      BY <2>1 DEF Union
  <1>6. Cardinality(Union(S)) = Cardinality(Union(S')) + Cardinality(Last(S))
    BY <1>3, <1>5, UnionInConj, SizesAdd DEF Formulas
  <1>7. Cardinality(cf') <= Cardinality(Last(S))
    BY <1>2, <1>3, SizeOf DEF Formulas
  <1>8. QED
    BY <1>1, <1>2, <1>3, <1>4, <1>6, <1>7

\* Popping a formula of two conjuncts or more leaves one to spare.
LEMMA SelectSlack == IInv /\ Slack /\ Large /\ Select => Slack' /\ Large'
  <1> SUFFICES ASSUME IInv, Slack, Large, Select PROVE Slack' /\ Large'
    OBVIOUS
  <1>1. /\ pc = "call" /\ pc' = "split" /\ cf = {} /\ calls' = calls /\ Len(calls) \in Nat
        /\ cf' \in Formulas /\ S' \in Seq(Formulas) /\ Last(S) \in Formulas
    BY SelectSizes
  <1>2. /\ DOMAIN S = 1 .. Len(S) /\ DOMAIN S' = DOMAIN S \ {Len(S)}
        /\ Last(S) = S[Len(S)] /\ Len(S) \in DOMAIN S
        /\ \A i \in DOMAIN S' : S'[i] = S[i]
    BY SelectSizes
  <1>3. Len(S') \in Nat /\ Len(S) = Len(S') + 1
    BY SelectSizes
  <1>4. Cardinality(Union(S)) = Cardinality(Union(S')) + Cardinality(Last(S))
    BY SelectSizes
  <1>5. PICK u, l, c, d, n : /\ u = Cardinality(Union(S')) /\ l = Cardinality(Last(S))
                             /\ c = Cardinality(cf') /\ d = Deepest /\ n = Len(calls)
    OBVIOUS
  <1>6. u \in Nat /\ l \in Nat /\ c \in Nat /\ d \in Nat \ {0} /\ c <= l /\ n \in Nat
    BY <1>1, <1>5, SelectSizes, UnionInConj, SizeOf DEF Formulas
  <1>7. n + (u + l) <= Len(S) + d
    <2>1. Cardinality(cf) = 0
      BY <1>1, FS_EmptySet
    <2>2. QED
      <3>1. PICK k, e : k = Cardinality(Union(S)) /\ e = Cardinality(cf)
        OBVIOUS
      <3>2. n + k + e <= Len(S) + d + 0
        BY <1>1, <1>5, <3>1 DEF Slack
      <3>3. k = u + l /\ e = 0 /\ Len(S) \in Nat
        BY <1>3, <1>4, <1>5, <2>1, <3>1
      <3>4. QED
        BY <1>6, <3>2, <3>3
  <1>8. n + u + 1 <= Len(S') + d
    <2>1. CASE l >= 2
      BY <1>3, <1>6, <1>7, <2>1
    <2>2. CASE ~ (l >= 2)
      <3>1. Len(S) = 1 /\ calls = <<>>
        BY <1>2, <1>5, <2>2 DEF Large
      <3>2. DOMAIN S' = {}
        BY <1>2, <3>1
      <3>3. u = 0
        <4>1. Union(S') = {}
          BY <3>2 DEF Union, ToSet
        <4>2. QED
          BY <1>5, <4>1, FS_EmptySet
      <3>4. n = 0
        BY <1>5, <3>1
      <3>5. QED
        BY <1>3, <1>6, <3>3, <3>4
    <2>3. QED
      BY <2>1, <2>2
  <1>9. n + u + c <= Len(S') + d + 1
    BY <1>3, <1>6, <1>7
  <1>10. Deepest' = Deepest
    BY DEF Deepest
  <1>11. Slack'
    BY <1>1, <1>5, <1>8, <1>9, <1>10 DEF Slack, Union
  <1>12. Large'
    <2>1. CASE \A i \in DOMAIN S : Cardinality(S[i]) >= 2
      BY <1>2, <2>1 DEF Large
    <2>2. CASE Len(S) = 1
      BY <1>2, <2>2 DEF Large
    <2>3. QED
      BY <2>1, <2>2 DEF Large
  <1>13. QED
    BY <1>11, <1>12

\* A call after cf was placed: one part of it, or both, or none is on the stack.
LEMMA CallSlack ==
  ASSUME pc' = "call", cf' = {}, Len(calls') = Len(calls) + 1,
         Len(calls) \in Nat, S' \in Seq(Formulas),
         \A i \in DOMAIN S' : Cardinality(S'[i]) >= 2,
         Len(calls) + 1 + Cardinality(Union(S')) <= Len(S') + Deepest
  PROVE  Slack' /\ Large'
  <1>1. Cardinality({}) = 0 /\ Cardinality(Union(S')) \in Nat /\ Len(S') \in Nat
        /\ Deepest \in Nat
    BY FS_EmptySet, UnionInConj, SizeOf
  <1>2. Deepest' = Deepest /\ Union(S)' = Union(S')
    BY DEF Deepest, Union
  <1>3. QED
    BY <1>1, <1>2 DEF Slack, Large

\* The C call stack takes one more entry.
LEMMA OneCallMore ==
  ASSUME IInv, NEW x, calls' = Append(calls, x)
  PROVE  Len(calls') = Len(calls) + 1 /\ Len(calls) \in Nat
  BY DEF IInv, TypeOK

LEMMA ElementSlack == IInv /\ Slack /\ Large /\ Element => Slack' /\ Large'
  <1> SUFFICES ASSUME IInv, Slack, Large, Element PROVE Slack' /\ Large'
    OBVIOUS
  <1>1. pc = "split" /\ S' = S /\ pc' = "call" /\ cf' = {}
    BY DEF Element
  <1>2. Len(calls') = Len(calls) + 1 /\ Len(calls) \in Nat
    BY OneCallMore DEF Element
  <1>3. Len(calls) + 1 + Cardinality(Union(S)) <= Len(S) + Deepest
    BY <1>1, SplitCounts, SplitSizes
  <1>4. S \in Seq(Formulas) /\ \A i \in DOMAIN S : Cardinality(S[i]) >= 2
    BY <1>1, SplitCounts, SplitSizes
  <1>5. QED
    BY <1>1, <1>2, <1>3, <1>4, CallSlack

\* Both halves are smaller than the formula.
LEMMA HalfSizes ==
  ASSUME IInv, pc = "split", NEW P \in binaryPartition(cf)
  PROVE  /\ P[1] \in Formulas /\ P[2] \in Formulas /\ P[1] \cap P[2] = {}
         /\ P[1] \subseteq cf /\ P[2] \subseteq cf
         /\ Cardinality(P[1]) \in Nat \ {0} /\ Cardinality(P[2]) \in Nat \ {0}
         /\ Cardinality(P[1]) + Cardinality(P[2]) = Cardinality(cf)
  <1>1. P[1] \cup P[2] = cf /\ P[1] \cap P[2] = {} /\ P[1] # {} /\ P[2] # {}
    BY SplitFacts, Halves
  <1>2. P[1] \in Formulas /\ P[2] \in Formulas
    BY <1>1, SplitFacts DEF Formulas
  <1>3. Cardinality(P[1]) + Cardinality(P[2]) = Cardinality(cf)
    BY <1>1, <1>2, SizesAdd DEF Formulas
  <1>4. Cardinality(P[1]) \in Nat \ {0} /\ Cardinality(P[2]) \in Nat \ {0}
    BY <1>2, SizeOf DEF Formulas
  <1>5. QED
    BY <1>1, <1>2, <1>3, <1>4

\* What is left open when one half is kept.
LEMMA KeepHalfSizes ==
  ASSUME IInv, KeepHalf
  PROVE  /\ pc = "split" /\ pc' = "call" /\ cf' = {} /\ S' \in Seq(Formulas)
         /\ \/ /\ Len(S') = Len(S) + 1
               /\ Cardinality(Union(S')) + 1 <= Cardinality(Union(S)) + Cardinality(cf)
            \/ S' = S /\ Cardinality(cf) >= 2
         /\ (\A i \in DOMAIN S : Cardinality(S[i]) >= 2)
              => \A i \in DOMAIN S' : Cardinality(S'[i]) >= 2
  <1>1. pc = "split" /\ pc' = "call" /\ cf' = {}
    BY DEF KeepHalf
  <1>2. PICK P \in binaryPartition(cf) : S' = Push(S, P[1]) \/ S' = Push(S, P[2])
    BY DEF KeepHalf
  <1>3. PICK X : X \in {P[1], P[2]} /\ S' = Push(S, X)
    BY <1>2
  <1>4. S \in Seq(Formulas) /\ X \in Formulas /\ Union(S) \cap X = {}
    BY <1>1, <1>2, <1>3, HalfSizes, SplitCounts
  <1>5. PICK u, x, c : /\ u = Cardinality(Union(S)) /\ x = Cardinality(X)
                       /\ c = Cardinality(cf)
    OBVIOUS
  <1>6. x + 1 <= c /\ x \in Nat \ {0} /\ c \in Nat /\ u \in Nat
    <2>1. PICK a, b : a = Cardinality(P[1]) /\ b = Cardinality(P[2])
      OBVIOUS
    <2>2. a \in Nat \ {0} /\ b \in Nat \ {0} /\ a + b = c /\ (x = a \/ x = b)
      BY <1>1, <1>2, <1>3, <1>5, <2>1, HalfSizes
    <2>3. x + 1 <= c /\ x \in Nat \ {0} /\ c \in Nat
      BY <2>2
    <2>4. QED
      BY <1>1, <1>5, <2>3, SplitCounts
  <1>7. \/ /\ Len(S') = Len(S) + 1
           /\ Cardinality(Union(S')) + 1 <= u + c
        \/ S' = S /\ c >= 2
    <2>1. CASE Len(S') = Len(S) + 1 /\ Cardinality(Union(S')) = u + x
      BY <1>6, <2>1
    <2>2. CASE S' = S
      BY <1>6, <2>2
    <2>3. QED
      BY <1>3, <1>4, <1>5, <2>1, <2>2, PushSizes
  <1>8. (\A i \in DOMAIN S : Cardinality(S[i]) >= 2)
          => \A i \in DOMAIN S' : Cardinality(S'[i]) >= 2
    BY <1>3, <1>4, PushLarge
  <1>9. S' \in Seq(Formulas)
    BY <1>3, <1>4, AppendUnion DEF Push
  <1>10. QED
    BY <1>1, <1>5, <1>7, <1>8, <1>9

LEMMA KeepHalfSlack == IInv /\ Slack /\ Large /\ KeepHalf => Slack' /\ Large'
  <1> SUFFICES ASSUME IInv, Slack, Large, KeepHalf PROVE Slack' /\ Large'
    OBVIOUS
  <1>1. PICK u, c, d, n, v : /\ u = Cardinality(Union(S)) /\ c = Cardinality(cf)
                             /\ d = Deepest /\ n = Len(calls)
                             /\ v = Cardinality(Union(S'))
    OBVIOUS
  <1>2. pc = "split" /\ S' \in Seq(Formulas)
    BY KeepHalfSizes
  <1>3. /\ u \in Nat /\ d \in Nat /\ n \in Nat /\ Len(S) \in Nat /\ c \in Nat /\ v \in Nat
        /\ n + u + 1 <= Len(S) + d /\ n + u + c <= Len(S) + d + 1
    BY <1>1, <1>2, SplitCounts, SplitSizes, UnionInConj, SizeOf
  <1>4. n + 1 + v <= Len(S') + d
    <2>1. CASE Len(S') = Len(S) + 1 /\ v + 1 <= u + c
      BY <1>3, <2>1
    <2>2. CASE S' = S
      BY <1>1, <1>3, <2>2
    <2>3. QED
      BY <1>1, <2>1, <2>2, KeepHalfSizes
  <1>5. \A i \in DOMAIN S' : Cardinality(S'[i]) >= 2
    BY <1>2, KeepHalfSizes, SplitSizes
  <1>6. Len(calls') = Len(calls) + 1
    BY OneCallMore DEF KeepHalf
  <1>7. QED
    BY <1>1, <1>3, <1>4, <1>5, <1>6, KeepHalfSizes, CallSlack

\* What is left open when both halves are kept.
LEMMA KeepBothSizes ==
  ASSUME IInv, KeepBoth
  PROVE  /\ pc = "split" /\ pc' = "call" /\ cf' = {} /\ S' \in Seq(Formulas)
         /\ Cardinality(cf) >= 2
         /\ \/ /\ Len(S') = Len(S) + 2
               /\ Cardinality(Union(S')) = Cardinality(Union(S)) + Cardinality(cf)
            \/ /\ Len(S') = Len(S) + 1
               /\ Cardinality(Union(S')) + 1 = Cardinality(Union(S)) + Cardinality(cf)
            \/ S' = S
         /\ (\A i \in DOMAIN S : Cardinality(S[i]) >= 2)
              => \A i \in DOMAIN S' : Cardinality(S'[i]) >= 2
  <1>1. pc = "split" /\ pc' = "call" /\ cf' = {}
    BY DEF KeepBoth
  <1>2. PICK P \in binaryPartition(cf) : S' = Push(Push(S, P[1]), P[2])
    BY DEF KeepBoth
  <1>3. PICK X, Y : X = P[1] /\ Y = P[2]
    OBVIOUS
  <1>4. /\ X \in Formulas /\ Y \in Formulas /\ X \cap Y = {}
        /\ Union(S) \cap X = {} /\ Union(S) \cap Y = {}
        /\ Cardinality(X) \in Nat \ {0} /\ Cardinality(Y) \in Nat \ {0}
        /\ Cardinality(X) + Cardinality(Y) = Cardinality(cf)
    BY <1>1, <1>2, <1>3, HalfSizes, SplitCounts
  <1>5. PICK t : t = Push(S, X)
    OBVIOUS
  <1>6. S' = Push(t, Y) /\ S \in Seq(Formulas)
    BY <1>1, <1>2, <1>3, <1>5, SplitCounts
  <1>7. t \in Seq(Formulas) /\ Union(t) \cap Y = {}
    <2>1. CASE t = S
      BY <1>4, <1>6, <2>1
    <2>2. CASE t = Append(S, X)
      BY <1>4, <1>6, <2>2, AppendUnion
    <2>3. QED
      BY <1>5, <2>1, <2>2 DEF Push
  <1>8. PICK u, x, y, c, v, w :
          /\ u = Cardinality(Union(S)) /\ x = Cardinality(X) /\ y = Cardinality(Y)
          /\ c = Cardinality(cf) /\ v = Cardinality(Union(t)) /\ w = Cardinality(Union(S'))
    OBVIOUS
  <1>9. u \in Nat /\ x \in Nat \ {0} /\ y \in Nat \ {0} /\ x + y = c
    BY <1>1, <1>4, <1>8, SplitCounts
  <1>10. \/ Len(t) = Len(S) + 1 /\ v = u + x
         \/ t = S /\ v = u /\ x = 1
    <2>1. \/ Len(t) = Len(S) + 1 /\ Cardinality(Union(t)) = Cardinality(Union(S)) + Cardinality(X)
          \/ t = S /\ Cardinality(X) = 1
      BY <1>4, <1>5, <1>6, PushSizes
    <2>2. QED
      BY <1>8, <2>1
  <1>11. \/ Len(S') = Len(t) + 1 /\ w = v + y
         \/ S' = t /\ w = v /\ y = 1
    <2>1. \/ Len(S') = Len(t) + 1 /\ Cardinality(Union(S')) = Cardinality(Union(t)) + Cardinality(Y)
          \/ S' = t /\ Cardinality(Y) = 1
      BY <1>4, <1>6, <1>7, PushSizes
    <2>2. QED
      BY <1>8, <2>1
  <1>12. c >= 2
    BY <1>9
  <1>13. \/ Len(S') = Len(S) + 2 /\ w = u + c
         \/ Len(S') = Len(S) + 1 /\ w + 1 = u + c
         \/ S' = S
    <2>1. Len(S) \in Nat
      BY <1>6
    <2>2. CASE Len(t) = Len(S) + 1 /\ v = u + x /\ Len(S') = Len(t) + 1 /\ w = v + y
      BY <1>9, <2>1, <2>2
    <2>3. CASE Len(t) = Len(S) + 1 /\ v = u + x /\ S' = t /\ w = v /\ y = 1
      BY <1>9, <2>1, <2>3
    <2>4. CASE t = S /\ v = u /\ x = 1 /\ Len(S') = Len(t) + 1 /\ w = v + y
      BY <1>9, <2>1, <2>4
    <2>5. CASE t = S /\ S' = t
      BY <2>5
    <2>6. QED
      BY <1>10, <1>11, <2>2, <2>3, <2>4, <2>5
  <1>14. (\A i \in DOMAIN S : Cardinality(S[i]) >= 2)
           => \A i \in DOMAIN S' : Cardinality(S'[i]) >= 2
    <2> SUFFICES ASSUME \A i \in DOMAIN S : Cardinality(S[i]) >= 2
                 PROVE  \A i \in DOMAIN S' : Cardinality(S'[i]) >= 2
      OBVIOUS
    <2>1. \A i \in DOMAIN t : Cardinality(t[i]) >= 2
      BY <1>4, <1>5, <1>6, PushLarge
    <2>2. QED
      BY <1>4, <1>6, <1>7, <2>1, PushLarge
  <1>15. S' \in Seq(Formulas)
    BY <1>4, <1>6, <1>7, AppendUnion DEF Push
  <1>16. QED
    BY <1>1, <1>8, <1>12, <1>13, <1>14, <1>15

LEMMA KeepBothSlack == IInv /\ Slack /\ Large /\ KeepBoth => Slack' /\ Large'
  <1> SUFFICES ASSUME IInv, Slack, Large, KeepBoth PROVE Slack' /\ Large'
    OBVIOUS
  <1>1. PICK u, c, d, n, v : /\ u = Cardinality(Union(S)) /\ c = Cardinality(cf)
                             /\ d = Deepest /\ n = Len(calls)
                             /\ v = Cardinality(Union(S'))
    OBVIOUS
  <1>2. pc = "split" /\ S' \in Seq(Formulas)
    BY KeepBothSizes
  <1>3. /\ u \in Nat /\ d \in Nat /\ n \in Nat /\ Len(S) \in Nat /\ c \in Nat /\ v \in Nat
        /\ n + u + 1 <= Len(S) + d /\ n + u + c <= Len(S) + d + 1
    BY <1>1, <1>2, SplitCounts, SplitSizes, UnionInConj, SizeOf
  <1>4. n + 1 + v <= Len(S') + d
    <2>1. CASE Len(S') = Len(S) + 2 /\ v = u + c
      BY <1>3, <2>1
    <2>2. CASE Len(S') = Len(S) + 1 /\ v + 1 = u + c
      BY <1>3, <2>2
    <2>3. CASE S' = S
      BY <1>1, <1>3, <2>3
    <2>4. QED
      BY <1>1, <2>1, <2>2, <2>3, KeepBothSizes
  <1>5. \A i \in DOMAIN S' : Cardinality(S'[i]) >= 2
    BY <1>2, KeepBothSizes, SplitSizes
  <1>6. Len(calls') = Len(calls) + 1
    BY OneCallMore DEF KeepBoth
  <1>7. QED
    BY <1>1, <1>3, <1>4, <1>5, <1>6, KeepBothSizes, CallSlack

\* A return makes the C call stack no longer.
LEMMA ReturnSlack ==
  IInv /\ Slack /\ Large /\ (Return \/ Finish \/ UNCHANGED vars) => Slack' /\ Large'
  <1> SUFFICES ASSUME IInv, Slack, Large, Return \/ Finish \/ UNCHANGED vars
               PROVE  Slack' /\ Large'
    OBVIOUS
  <1>1. Deepest' = Deepest
    BY DEF Deepest
  <1>2. CASE UNCHANGED vars
    BY <1>1, <1>2 DEF Slack, Large, vars, Union
  <1>3. CASE Return \/ Finish
    <2>1. S = <<>> /\ S' = S /\ cf' = cf /\ pc = "call" /\ pc' # "split"
      BY <1>3 DEF Return, Finish
    <2>2. Len(calls) \in Nat /\ Len(calls') \in Nat /\ Len(calls') <= Len(calls)
      <3>1. calls \in Seq({"element", "half", "last"})
        BY DEF IInv, TypeOK
      <3>2. CASE calls' = calls
        BY <3>1, <3>2
      <3>3. CASE calls # <<>> /\ (calls' = Front(calls) \/ calls' = Append(Front(calls), "last"))
        <4>1. Front(calls) \in Seq({"element", "half", "last"})
              /\ Len(Front(calls)) = Len(calls) - 1 /\ Len(calls) \in Nat \ {0}
          BY <3>1, <3>3, AllButLast DEF Front
        <4>2. QED
          BY <3>3, <4>1
      <3>4. QED
        BY <1>3, <3>2, <3>3 DEF Return, Finish
    <2>3. cf = {} /\ Cardinality(Union(S)) \in Nat /\ Cardinality(cf) \in Nat
          /\ Deepest \in Nat /\ Len(S) \in Nat
      <3>1. S \in Seq(Formulas) /\ cf = {}
        BY <2>1 DEF IInv, TypeOK, Formulas
      <3>2. QED
        BY <3>1, UnionInConj, SizeOf
    <2>4. Slack'
      BY <1>1, <2>1, <2>2, <2>3 DEF Slack, Union
    <2>5. Large'
      BY <2>1 DEF Large
    <2>6. QED
      BY <2>4, <2>5
  <1>4. QED
    BY <1>2, <1>3

\* What is open fits the calls that remain.
LEMMA InitSlack == Init => Slack /\ Large
  <1> SUFFICES ASSUME Init PROVE Slack /\ Large
    OBVIOUS
  <1>1. S = <<Conj>> /\ pc = "call" /\ calls = <<>> /\ cf = {}
    BY DEF Init
  <1>2. Union(S) = Conj /\ Len(S) = 1 /\ Len(calls) = 0
    BY <1>1 DEF Union, ToSet
  <1>3. Cardinality(Conj) \in Nat /\ Cardinality(cf) = 0
    BY <1>1, ConjAssumption, FS_CardinalityType, FS_EmptySet
  <1>4. QED
    BY <1>1, <1>2, <1>3 DEF Slack, Large, Deepest

LEMMA SlackInvariance == Spec => [](IInv /\ Slack /\ Large)
  <1>1. IInv /\ Slack /\ Large /\ [Next]_vars => Slack' /\ Large'
    BY SelectSlack, ElementSlack, KeepHalfSlack, KeepBothSlack, ReturnSlack
       DEF Next, Terminated
  <1>2. QED
    BY <1>1, InitIInv, InitSlack, NextIInv, PTL DEF Spec

\* The recursion of muc() is no deeper than the formula has conjuncts.
THEOREM RecursionBounded == Spec => []DepthBound
  <1>1. IInv /\ Slack /\ Large => DepthBound
    <2> SUFFICES ASSUME IInv, Slack, Large PROVE DepthBound
      OBVIOUS
    <2>1. S \in Seq(Formulas) /\ Len(calls) \in Nat /\ IsProblem(Conj, problem)
          /\ cf \in SUBSET Conj
      BY DEF IInv, TypeOK, Formulas
    <2>2. Len(S) <= Cardinality(Union(S))
      BY <2>1, OneEach DEF IInv, Disjoint
    <2>3. /\ Cardinality(Union(S)) \in Nat /\ Len(S) \in Nat /\ Cardinality(cf) \in Nat
          /\ Deepest \in Nat /\ Deepest <= Cardinality(Conj)
      <3>1. Conj # {}
        BY <2>1 DEF IsProblem, Sat
      <3>2. Cardinality(Conj) \in Nat /\ Cardinality(Conj) >= 1
        BY <3>1, SizeOf
      <3>3. Deepest <= Cardinality(Conj)
        BY <3>2 DEF Deepest
      <3>4. QED
        BY <2>1, <3>3, UnionInConj, SizeOf
    <2>4. Len(calls) <= Cardinality(Conj)
      <3>1. Cardinality(Conj) \in Nat
        BY SizeOf
      <3>2. CASE pc = "split"
        BY <2>1, <2>2, <2>3, <3>1, <3>2 DEF Slack
      <3>3. CASE pc # "split"
        BY <2>1, <2>2, <2>3, <3>1, <3>3 DEF Slack
      <3>4. QED
        BY <3>2, <3>3
    <2>5. QED
      BY <2>4 DEF DepthBound
  <1>2. QED
    BY <1>1, SlackInvariance, PTL

------------------------------------------------------------------------------
(* The extraction is finite.  Six units stand for each conjunct that is still
   open, less three for each formula they are in, since a formula that is there
   need not be made by a cut; from them an activation pays for its call, twice if
   the call is for a half. *)

\* The activations that make another call when the one they wait for returns.
Waiting == {i \in DOMAIN calls : calls[i] = "half"}

Work ==
  6 * (Cardinality(Union(S)) + Cardinality(cf)) - 3 * Len(S)
    + Len(calls) + Cardinality(Waiting)
    - (IF pc = "split" THEN 4 ELSE 0)
    + (IF pc = "done" THEN 0 ELSE 1)

\* The suspended activations are finitely many.
LEMMA WaitingFinite ==
  ASSUME NEW s \in Seq({"element", "half", "last"}),
         NEW W, W = {i \in DOMAIN s : s[i] = "half"}
  PROVE  Len(s) \in Nat /\ W \subseteq 1 .. Len(s) /\ IsFiniteSet(W) /\ Cardinality(W) \in Nat
  <1>1. Len(s) \in Nat /\ DOMAIN s = 1 .. Len(s)
    OBVIOUS
  <1>2. IsFiniteSet(1 .. Len(s))
    BY <1>1, FS_Interval
  <1>3. W \subseteq 1 .. Len(s)
    BY <1>1
  <1>4. QED
    BY <1>1, <1>2, <1>3, FS_Subset, FS_CardinalityType

\* A call more, and one more to come if it is for a half.
LEMMA CallMore ==
  ASSUME IInv, NEW k \in {"element", "half", "last"}, calls' = Append(calls, k)
  PROVE  /\ Len(calls') = Len(calls) + 1
         /\ Len(calls) \in Nat /\ Cardinality(Waiting) \in Nat
         /\ Cardinality(Waiting') = Cardinality(Waiting) + (IF k = "half" THEN 1 ELSE 0)
  <1>1. /\ calls \in Seq({"element", "half", "last"})
        /\ calls' \in Seq({"element", "half", "last"})
    BY CallsGrow DEF IInv, TypeOK
  <1>2. /\ Waiting \subseteq 1 .. Len(calls) /\ IsFiniteSet(Waiting)
        /\ Cardinality(Waiting) \in Nat /\ Len(calls) \in Nat
    BY <1>1, WaitingFinite DEF Waiting
  <1>3. /\ Len(calls') = Len(calls) + 1 /\ DOMAIN calls = 1 .. Len(calls)
        /\ DOMAIN calls' = 1 .. Len(calls) + 1 /\ calls'[Len(calls) + 1] = k
        /\ \A i \in 1 .. Len(calls) : calls'[i] = calls[i]
    BY <1>1
  <1>4. Waiting' = {i \in DOMAIN calls' : calls'[i] = "half"}
    BY DEF Waiting
  <1>5. Waiting' = IF k = "half" THEN Waiting \cup {Len(calls) + 1} ELSE Waiting
    BY <1>2, <1>3, <1>4 DEF Waiting
  <1>6. Len(calls) + 1 \notin Waiting
    BY <1>2
  <1>7. CASE k = "half"
    <2>1. Cardinality(Waiting \cup {Len(calls) + 1}) = Cardinality(Waiting) + 1
      BY <1>2, <1>6, FS_AddElement
    <2>2. QED
      BY <1>2, <1>3, <1>5, <1>7, <2>1
  <1>8. CASE k # "half"
    <2>1. Waiting' = Waiting
      BY <1>5, <1>8
    <2>2. QED
      BY <1>2, <1>3, <1>8, <2>1
  <1>9. QED
    BY <1>7, <1>8

\* A return takes a call off, or makes the last one of its activation.
LEMMA ReturnTakesOff ==
  ASSUME IInv, Return
  PROVE  /\ Len(calls) \in Nat /\ Cardinality(Waiting) \in Nat
         /\ Len(calls') \in Nat /\ Cardinality(Waiting') \in Nat
         /\ Len(calls') + Cardinality(Waiting') < Len(calls) + Cardinality(Waiting)
  <1>1. calls \in Seq({"element", "half", "last"}) /\ calls # <<>>
    BY DEF IInv, TypeOK, Return
  <1>2. /\ Waiting \subseteq 1 .. Len(calls) /\ IsFiniteSet(Waiting)
        /\ Cardinality(Waiting) \in Nat
    BY <1>1, WaitingFinite DEF Waiting
  <1>3. PICK n : n = Len(calls)
    OBVIOUS
  <1>4. PICK f : f = Front(calls)
    OBVIOUS
  <1>5. /\ n \in Nat \ {0} /\ f \in Seq({"element", "half", "last"}) /\ Len(f) = n - 1
        /\ \A i \in 1 .. n - 1 : f[i] = calls[i]
    BY <1>1, <1>3, <1>4, AllButLast DEF Front
  <1>6. /\ DOMAIN calls = 1 .. n /\ DOMAIN f = 1 .. n - 1 /\ Last(calls) = calls[n]
    BY <1>1, <1>3, <1>5, LenProperties DEF Last
  <1>7. Waiting' = {i \in DOMAIN calls' : calls'[i] = "half"}
    BY DEF Waiting
  <1>8. CASE Last(calls) = "half"
    <2>1. calls' = Append(f, "last")
      BY <1>4, <1>8 DEF Return
    <2>2. /\ Len(calls') = n /\ DOMAIN calls' = 1 .. n /\ calls'[n] = "last"
          /\ \A i \in 1 .. n - 1 : calls'[i] = calls[i]
      BY <1>5, <1>6, <2>1
    <2>3. Waiting' = Waiting \ {n} /\ n \in Waiting
      <3>1. n \in Waiting
        <4>1. n \in DOMAIN calls /\ calls[n] = "half"
          BY <1>5, <1>6, <1>8
        <4>2. QED
          BY <4>1 DEF Waiting
      <3>2. \A i : i \in Waiting' <=> i \in 1 .. n - 1 /\ calls[i] = "half"
        BY <1>5, <1>7, <2>2
      <3>3. \A i : i \in Waiting \ {n} <=> i \in 1 .. n - 1 /\ calls[i] = "half"
        BY <1>5, <1>6 DEF Waiting
      <3>4. QED
        BY <3>1, <3>2, <3>3
    <2>4. Cardinality(Waiting') = Cardinality(Waiting) - 1
      BY <1>2, <2>3, FS_RemoveElement
    <2>5. Waiting # {}
      BY <2>3
    <2>6. Cardinality(Waiting) # 0
      BY <1>2, <2>5, FS_EmptySet
    <2>7. QED
      BY <1>2, <1>3, <1>5, <2>2, <2>4, <2>6
  <1>9. CASE Last(calls) # "half"
    <2>1. calls' = f
      BY <1>4, <1>9 DEF Return
    <2>2. Waiting' = Waiting
      <3>1. \A i : i \in Waiting' <=> i \in 1 .. n - 1 /\ calls[i] = "half"
        BY <1>5, <1>6, <1>7, <2>1
      <3>2. \A i : i \in Waiting <=> i \in 1 .. n - 1 /\ calls[i] = "half"
        BY <1>5, <1>6, <1>9 DEF Waiting
      <3>3. QED
        BY <3>1, <3>2
    <2>3. QED
      BY <1>2, <1>3, <1>5, <2>1, <2>2
  <1>10. QED
    BY <1>8, <1>9

\* Every formula holds a conjunct of its own, so the count is a natural number.
LEMMA WorkNatural == IInv => Work \in Nat
  <1> SUFFICES ASSUME IInv PROVE Work \in Nat
    OBVIOUS
  <1>1. S \in Seq(Formulas) /\ cf \in SUBSET Conj /\ calls \in Seq({"element", "half", "last"})
        /\ (pc = "split" => cf # {})
    BY DEF IInv, TypeOK, Formulas
  <1>2. PICK u, c, l, n, w : /\ u = Cardinality(Union(S)) /\ c = Cardinality(cf)
                             /\ l = Len(S) /\ n = Len(calls) /\ w = Cardinality(Waiting)
    OBVIOUS
  <1>3. l <= u
    BY <1>1, <1>2, OneEach DEF IInv, Disjoint
  <1>4. l \in Nat /\ u \in Nat /\ c \in Nat
    BY <1>1, <1>2, UnionInConj, SizeOf
  <1>5. n \in Nat /\ w \in Nat
    BY <1>1, <1>2, WaitingFinite DEF Waiting
  <1>6. pc = "split" => c >= 1
    BY <1>1, <1>2, SizeOf
  <1>7. Work = 6 * (u + c) - 3 * l + n + w - (IF pc = "split" THEN 4 ELSE 0)
                 + (IF pc = "done" THEN 0 ELSE 1)
    BY <1>2 DEF Work
  <1>8. CASE pc = "split"
    BY <1>3, <1>4, <1>5, <1>6, <1>7, <1>8
  <1>9. CASE pc # "split"
    BY <1>3, <1>4, <1>5, <1>7, <1>9
  <1>10. QED
    BY <1>8, <1>9

\* Each action in turn.  What is open weighs more than the calls it makes.
LEMMA SelectCounts == ASSUME IInv, Select PROVE Work' < Work
  <1>1. PICK u, v, l, c, m, n, w :
          /\ u = Cardinality(Union(S)) /\ v = Cardinality(Union(S'))
          /\ l = Cardinality(Last(S)) /\ c = Cardinality(cf') /\ m = Len(S')
          /\ n = Len(calls) /\ w = Cardinality(Waiting)
    OBVIOUS
  <1>2. /\ u = v + l /\ c <= l /\ m \in Nat /\ Len(S) = m + 1 /\ n \in Nat
        /\ pc = "call" /\ pc' = "split" /\ cf = {} /\ calls' = calls
    BY <1>1, SelectSizes
  <1>3. v \in Nat /\ l \in Nat /\ c \in Nat
    BY <1>1, SelectSizes, UnionInConj, SizeOf DEF Formulas
  <1>4. w \in Nat /\ Waiting' = Waiting
    BY <1>1, <1>2, WaitingFinite DEF Waiting, IInv, TypeOK
  <1>5. Cardinality(cf) = 0
    BY <1>2, FS_EmptySet
  <1>6. Work = 6 * (u + 0) - 3 * (m + 1) + n + w - 0 + 1
    BY <1>1, <1>2, <1>5 DEF Work
  <1>7. Work' = 6 * (v + c) - 3 * m + n + w - 4 + 1
    BY <1>1, <1>2, <1>4 DEF Work, Union
  <1>8. QED
    BY <1>2, <1>3, <1>4, <1>6, <1>7

\* What remains to be shown of the actions that place cf and call.
LEMMA CallCounts ==
  ASSUME IInv, pc = "split", pc' = "call", cf' = {}, S' \in Seq(Formulas),
         NEW k \in {"element", "half", "last"}, calls' = Append(calls, k),
         6 * Cardinality(Union(S')) + 3 * Len(S) + 5 + (IF k = "half" THEN 1 ELSE 0)
           < 6 * (Cardinality(Union(S)) + Cardinality(cf)) + 3 * Len(S')
  PROVE  Work' < Work
  <1>1. PICK u, v, c, l, m, n, w, x, h :
          /\ u = Cardinality(Union(S)) /\ v = Cardinality(Union(S'))
          /\ c = Cardinality(cf) /\ l = Len(S) /\ m = Len(S')
          /\ n = Len(calls) /\ w = Cardinality(Waiting) /\ x = Cardinality(Waiting')
          /\ h = IF k = "half" THEN 1 ELSE 0
    OBVIOUS
  <1>2. /\ u \in Nat /\ v \in Nat /\ c \in Nat /\ l \in Nat /\ m \in Nat
    BY <1>1, SplitCounts, UnionInConj, SizeOf
  <1>3. n \in Nat /\ w \in Nat /\ Len(calls') = n + 1 /\ x = w + h /\ h \in {0, 1}
    BY <1>1, CallMore
  <1>4. Cardinality(cf') = 0
    BY FS_EmptySet
  <1>5. Work = 6 * (u + c) - 3 * l + n + w - 4 + 1
    BY <1>1 DEF Work
  <1>6. Work' = 6 * (v + 0) - 3 * m + (n + 1) + x - 0 + 1
    BY <1>1, <1>3, <1>4 DEF Work, Union
  <1>7. 6 * v + 3 * l + 5 + h < 6 * (u + c) + 3 * m
    BY <1>1
  <1>8. QED
    BY <1>2, <1>3, <1>5, <1>6, <1>7

LEMMA ElementCounts == ASSUME IInv, Element PROVE Work' < Work
  <1>1. pc = "split" /\ pc' = "call" /\ cf' = {} /\ S' = S /\ calls' = Append(calls, "element")
    BY DEF Element
  <1>2. PICK u, c, l : u = Cardinality(Union(S)) /\ c = Cardinality(cf) /\ l = Len(S)
    OBVIOUS
  <1>3. u \in Nat /\ c \in Nat \ {0} /\ l \in Nat /\ S \in Seq(Formulas)
    BY <1>1, <1>2, SplitCounts
  <1>4. 6 * u + 3 * l + 5 + 0 < 6 * (u + c) + 3 * l
    BY <1>3
  <1>5. QED
    BY <1>1, <1>2, <1>3, <1>4, CallCounts

LEMMA KeepHalfCounts == ASSUME IInv, KeepHalf PROVE Work' < Work
  <1>1. PICK u, v, c, l, m : /\ u = Cardinality(Union(S)) /\ v = Cardinality(Union(S'))
                             /\ c = Cardinality(cf) /\ l = Len(S) /\ m = Len(S')
    OBVIOUS
  <1>2. /\ pc = "split" /\ pc' = "call" /\ cf' = {} /\ S' \in Seq(Formulas)
        /\ calls' = Append(calls, "half")
    BY KeepHalfSizes DEF KeepHalf
  <1>3. u \in Nat /\ v \in Nat /\ c \in Nat /\ l \in Nat /\ m \in Nat
    BY <1>1, <1>2, SplitCounts, UnionInConj, SizeOf
  <1>4. (m = l + 1 /\ v + 1 <= u + c) \/ (m = l /\ v = u /\ c >= 2)
    BY <1>1, KeepHalfSizes
  <1>5. 6 * v + 3 * l + 5 + 1 < 6 * (u + c) + 3 * m
    BY <1>3, <1>4
  <1>6. QED
    BY <1>1, <1>2, <1>5, CallCounts

LEMMA KeepBothCounts == ASSUME IInv, KeepBoth PROVE Work' < Work
  <1>1. PICK u, v, c, l, m : /\ u = Cardinality(Union(S)) /\ v = Cardinality(Union(S'))
                             /\ c = Cardinality(cf) /\ l = Len(S) /\ m = Len(S')
    OBVIOUS
  <1>2. /\ pc = "split" /\ pc' = "call" /\ cf' = {} /\ S' \in Seq(Formulas)
        /\ calls' = Append(calls, "last")
    BY KeepBothSizes DEF KeepBoth
  <1>3. u \in Nat /\ v \in Nat /\ c \in Nat /\ l \in Nat /\ m \in Nat
    BY <1>1, <1>2, SplitCounts, UnionInConj, SizeOf
  <1>4. /\ c >= 2
        /\ \/ m = l + 2 /\ v = u + c
           \/ m = l + 1 /\ v + 1 = u + c
           \/ m = l /\ v = u
    BY <1>1, KeepBothSizes
  <1>5. 6 * v + 3 * l + 5 + 0 < 6 * (u + c) + 3 * m
    BY <1>3, <1>4
  <1>6. QED
    BY <1>1, <1>2, <1>5, CallCounts

LEMMA ReturnCounts == ASSUME IInv, Return PROVE Work' < Work
  <1>1. PICK u, c, l : u = Cardinality(Union(S)) /\ c = Cardinality(cf) /\ l = Len(S)
    OBVIOUS
  <1>2. PICK n, w, m, x : /\ n = Len(calls) /\ w = Cardinality(Waiting)
                          /\ m = Len(calls') /\ x = Cardinality(Waiting')
    OBVIOUS
  <1>3. S' = S /\ cf' = cf /\ pc = "call" /\ pc' = "call"
    BY DEF Return
  <1>4. S \in Seq(Formulas) /\ cf \in SUBSET Conj
    BY DEF IInv, TypeOK, Formulas
  <1>5. u \in Nat /\ c \in Nat /\ l \in Nat
    BY <1>1, <1>4, UnionInConj, SizeOf
  <1>6. n \in Nat /\ w \in Nat /\ m \in Nat /\ x \in Nat /\ m + x < n + w
    BY <1>2, ReturnTakesOff
  <1>7. Work = 6 * (u + c) - 3 * l + n + w - 0 + 1
    BY <1>1, <1>2, <1>3 DEF Work
  <1>8. Work' = 6 * (u + c) - 3 * l + m + x - 0 + 1
    BY <1>1, <1>2, <1>3 DEF Work, Union
  <1>9. QED
    BY <1>5, <1>6, <1>7, <1>8

LEMMA FinishCounts == ASSUME IInv, Finish PROVE Work' < Work
  <1>1. S' = S /\ cf' = cf /\ calls' = calls /\ pc = "call" /\ pc' = "done"
    BY DEF Finish
  <1>2. PICK k : k = 6 * (Cardinality(Union(S)) + Cardinality(cf)) - 3 * Len(S)
                       + Len(calls) + Cardinality(Waiting) - 0
    OBVIOUS
  <1>3. Work = k + 1 /\ Work' = k + 0
    BY <1>1, <1>2 DEF Work, Union, Waiting
  <1>4. Work \in Nat
    BY WorkNatural
  <1>5. k \in Int
    <2>1. S \in Seq(Formulas) /\ cf \in SUBSET Conj /\ calls \in Seq({"element", "half", "last"})
      BY DEF IInv, TypeOK, Formulas
    <2>2. PICK u, c, l, n, w : /\ u = Cardinality(Union(S)) /\ c = Cardinality(cf)
                               /\ l = Len(S) /\ n = Len(calls) /\ w = Cardinality(Waiting)
      OBVIOUS
    <2>3. u \in Nat /\ c \in Nat /\ l \in Nat /\ n \in Nat /\ w \in Nat
      BY <2>1, <2>2, UnionInConj, SizeOf, WaitingFinite DEF Waiting
    <2>4. QED
      BY <1>2, <2>2, <2>3
  <1>6. QED
    BY <1>3, <1>5

\* muc() cannot go on for ever: every one of its steps takes from a natural
\* number, whatever the solver answers and however the halves are cut.
THEOREM EachStepCounts == Spec => [][Work' < Work /\ Work \in Nat]_vars
  <1>1. ASSUME IInv, [Next]_vars
        PROVE  [Work' < Work /\ Work \in Nat]_vars
    <2>1. Work \in Nat
      BY <1>1, WorkNatural
    <2>2. CASE Terminated \/ UNCHANGED vars
      BY <2>2 DEF Terminated
    <2>3. CASE Select \/ Element \/ KeepHalf \/ KeepBoth \/ Return \/ Finish
      BY <1>1, <2>1, <2>3, SelectCounts, ElementCounts, KeepHalfCounts, KeepBothCounts,
         ReturnCounts, FinishCounts
    <2>4. QED
      BY <1>1, <2>2, <2>3 DEF Next
  <1>2. QED
    BY <1>1, Invariance, PTL DEF Spec
==============================================================================
