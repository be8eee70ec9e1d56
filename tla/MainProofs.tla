------------------------------ MODULE MainProofs ------------------------------
(***************************************************************************)
(* Proofs about main.cpp: about check_muc, for every finite set of         *)
(* conjuncts, every family of unsatisfiable sets and every vector without  *)
(* repetitions; and about the options, for every set of formulas and any   *)
(* number of arguments.                                                    *)
(***************************************************************************)
EXTENDS CheckMuc, CommandLine, FiniteSetTheorems, TLAPS

------------------------------------------------------------------------------
(* check_muc: the inductive invariant. *)

\* MUC is given with its conjuncts after the cnt-th moved to the front.
Rotated ==
  /\ Len(MUC) = Len(given)
  /\ \A i \in Len(given) - cnt + 1 .. Len(given) :
       MUC[i] = given[i - (Len(given) - cnt)]
  /\ \A i \in 1 .. Len(given) - cnt : MUC[i] = given[cnt + i]

\* The conjuncts moved to the front are needed.
Tested ==
  \A i \in cnt + 1 .. Len(given) : Sat(cores, ToSet(given) \ {given[i]})

IInv ==
  /\ TypeOK
  /\ Sat(cores, {})
  /\ \A i, j \in 1 .. Len(given) : given[i] = given[j] => i = j
  /\ pc = "start" => MUC = given
  /\ pc = "loop" => Rotated /\ Tested /\ Unsat(cores, ToSet(given))
  /\ VerdictIsRight

\* The members of a sequence.
LEMMA SetOf ==
  ASSUME NEW s \in Seq(Conj)
  PROVE  ToSet(s) = {s[i] : i \in 1 .. Len(s)}
  BY DEF ToSet

\* check_muc starts in the invariant.
LEMMA InitIInv == Init => IInv
  <1> SUFFICES ASSUME Init PROVE IInv
    OBVIOUS
  <1>1. PICK n \in 0 .. Cardinality(Conj) : given \in [1 .. n -> Conj]
    BY DEF Init, Vectors
  <1>2. n \in Nat
    BY <1>1, FS_CardinalityType, ConjAssumption
  <1>3. given \in Seq(Conj) /\ Len(given) = n
    BY <1>1, <1>2
  <1>4. \A i, j \in 1 .. Len(given) : given[i] = given[j] => i = j
    BY <1>1, <1>3 DEF Init, Vectors, IsInjective
  <1>5. cores \in SUBSET SUBSET Conj /\ Sat(cores, {})
    BY FamiliesAssumption DEF Init
  <1>6. QED
    BY <1>3, <1>4, <1>5 DEF Init, IInv, TypeOK, VerdictIsRight

\* The test of the whole vector.
LEMMA AllTogetherIInv == IInv /\ AllTogether => IInv'
  <1> SUFFICES ASSUME IInv, AllTogether PROVE IInv'
    OBVIOUS
  <1>1. /\ TypeOK /\ UNCHANGED <<cores, given, MUC>> /\ MUC = given
        /\ given \in Seq(Conj) /\ Len(given) \in Nat
    BY DEF IInv, AllTogether, TypeOK
  <1>2. CASE MUC = <<>>
    <2>1. pc' = "abort" /\ cnt' = cnt
      BY <1>2 DEF AllTogether
    <2>2. QED
      BY <1>1, <2>1 DEF IInv, TypeOK, VerdictIsRight
  <1>3. CASE MUC # <<>> /\ Sat(cores, ToSet(MUC))
    <2>1. pc' = "wrong" /\ cnt' = cnt
      BY <1>3 DEF AllTogether
    <2>2. ~ IsMUC(cores, ToSet(given))
      BY <1>1, <1>3 DEF IsMUC, Sat
    <2>3. QED
      BY <1>1, <2>1, <2>2 DEF IInv, TypeOK, VerdictIsRight
  <1>4. CASE MUC # <<>> /\ Unsat(cores, ToSet(MUC)) /\ Len(MUC) = 1
    <2>1. pc' = "right" /\ cnt' = Len(MUC)
      BY <1>4 DEF AllTogether, Sat
    <2>2. ToSet(given) = {given[1]}
      BY <1>1, <1>4, SetOf
    <2>3. {given[1]} \ {given[1]} = {}
      OBVIOUS
    <2>4. IsMUC(cores, ToSet(given))
      BY <1>1, <1>4, <2>2, <2>3 DEF IsMUC, IInv
    <2>5. QED
      BY <1>1, <2>1, <2>4 DEF IInv, TypeOK, VerdictIsRight
  <1>5. CASE MUC # <<>> /\ Unsat(cores, ToSet(MUC)) /\ Len(MUC) # 1
    <2>1. pc' = "loop" /\ cnt' = Len(given)
      BY <1>1, <1>5 DEF AllTogether, Sat
    <2>2. Rotated'
      BY <1>1, <2>1 DEF Rotated
    <2>3. Tested'
      BY <1>1, <2>1 DEF Tested
    <2>4. QED
      BY <1>1, <1>5, <2>1, <2>2, <2>3 DEF IInv, TypeOK, VerdictIsRight
  <1>6. QED
    BY <1>2, <1>3, <1>4, <1>5 DEF Sat

\* One round of the loop.
LEMMA WithoutLastIInv == IInv /\ WithoutLast => IInv'
  <1> SUFFICES ASSUME IInv, WithoutLast PROVE IInv'
    OBVIOUS
  <1> DEFINE k == Len(given)
             x == given[cnt]
             f == [i \in 1 .. k - 1 |-> MUC[i]]
  <1>1. /\ TypeOK /\ UNCHANGED <<cores, given>> /\ pc = "loop" /\ cnt' = cnt - 1
        /\ given \in Seq(Conj) /\ MUC \in Seq(Conj) /\ k \in Nat
        /\ cnt \in 1 .. k /\ Len(MUC) = k
        /\ Rotated /\ Tested /\ Unsat(cores, ToSet(given))
    BY DEF IInv, WithoutLast, TypeOK, More, Rotated
  <1>2. /\ Last(MUC) = x /\ x \in Conj
        /\ Front(MUC) = f
        /\ f \in Seq(Conj) /\ Len(f) = k - 1
    <2>1. Last(MUC) = MUC[k] /\ Front(MUC) = SubSeq(MUC, 1, k - 1)
      BY <1>1 DEF Last, Front
    <2>2. MUC[k] = given[cnt]
      <3>1. k \in k - cnt + 1 .. k /\ k - (k - cnt) = cnt
        BY <1>1
      <3>2. MUC[k] = given[k - (k - cnt)]
        BY <1>1, <3>1 DEF Rotated
      <3>3. QED
        BY <3>1, <3>2
    <2>3. SubSeq(MUC, 1, k - 1) = f
      BY <1>1
    <2>4. x \in Conj
      BY <1>1
    <2>5. f \in Seq(Conj) /\ Len(f) = k - 1
      BY <1>1
    <2>6. QED
      BY <2>1, <2>2, <2>3, <2>4, <2>5
  <1>3. ToSet(Front(MUC)) = ToSet(given) \ {x}
    <2>1. ToSet(f) = {MUC[i] : i \in 1 .. k - 1}
      <3>1. ToSet(f) = {f[i] : i \in 1 .. k - 1}
        BY <1>2, SetOf
      <3>2. \A i \in 1 .. k - 1 : f[i] = MUC[i]
        OBVIOUS
      <3>3. QED
        BY <3>1, <3>2
    <2>2. ToSet(given) = {given[i] : i \in 1 .. k}
      BY <1>1, SetOf
    <2>3. ASSUME NEW i \in 1 .. k - 1
          PROVE  MUC[i] \in ToSet(given) \ {x}
      <3>1. CASE i \in 1 .. k - cnt
        <4>1. MUC[i] = given[cnt + i] /\ cnt + i \in 1 .. k /\ cnt + i # cnt
          BY <1>1, <3>1 DEF Rotated
        <4>2. given[cnt + i] # given[cnt]
          BY <1>1, <4>1 DEF IInv
        <4>3. QED
          BY <2>2, <4>1, <4>2
      <3>2. CASE i \in k - cnt + 1 .. k - 1
        <4>1. i - (k - cnt) \in 1 .. cnt - 1 /\ i \in k - cnt + 1 .. k
          BY <1>1, <3>2
        <4>2. MUC[i] = given[i - (k - cnt)]
          BY <1>1, <4>1 DEF Rotated
        <4>3. given[i - (k - cnt)] # given[cnt]
          BY <1>1, <4>1 DEF IInv
        <4>4. QED
          BY <1>1, <2>2, <4>1, <4>2, <4>3
      <3>3. QED
        BY <1>1, <3>1, <3>2
    <2>4. ASSUME NEW j \in 1 .. k, given[j] # x
          PROVE  given[j] \in {MUC[i] : i \in 1 .. k - 1}
      <3>1. CASE j \in 1 .. cnt - 1
        <4> DEFINE p == k - cnt + j
        <4>1. /\ p \in 1 .. k - 1 /\ p \in k - cnt + 1 .. k
              /\ p - (k - cnt) = j
          BY <1>1, <3>1
        <4> HIDE DEF p
        <4>2. MUC[p] = given[p - (k - cnt)]
          BY <1>1, <4>1 DEF Rotated
        <4>3. QED
          BY <4>1, <4>2
      <3>2. CASE j \in cnt + 1 .. k
        <4>1. j - cnt \in 1 .. k - cnt /\ j - cnt \in 1 .. k - 1 /\ cnt + (j - cnt) = j
          BY <1>1, <3>2
        <4>2. MUC[j - cnt] = given[j]
          BY <1>1, <4>1 DEF Rotated
        <4>3. QED
          BY <4>1, <4>2
      <3>3. QED
        BY <1>1, <2>4, <3>1, <3>2
    <2>5. QED
      BY <1>2, <2>1, <2>2, <2>3, <2>4
  <1>4. CASE Unsat(cores, ToSet(Front(MUC)))
    <2>1. pc' = "wrong" /\ MUC' = Front(MUC)
      BY <1>4 DEF WithoutLast
    <2>2. x \in ToSet(given)
      BY <1>1, SetOf
    <2>3. ~ IsMUC(cores, ToSet(given))
      BY <1>3, <1>4, <2>2 DEF IsMUC, Sat
    <2>4. cnt - 1 \in 0 .. k
      BY <1>1
    <2>5. MUC' \in Seq(Conj)
      BY <1>2, <2>1
    <2>6. TypeOK'
      BY <1>1, <2>1, <2>4, <2>5 DEF TypeOK
    <2>7. QED
      BY <1>1, <2>1, <2>3, <2>6 DEF IInv, VerdictIsRight
  <1>5. CASE Sat(cores, ToSet(Front(MUC)))
    <2>1. pc' = "loop" /\ MUC' = Rotate(MUC)
      BY <1>5 DEF WithoutLast, Sat
    <2>2. MUC' = <<x>> \o f
      BY <1>2, <2>1 DEF Rotate
    <2>3. /\ MUC' \in Seq(Conj) /\ Len(MUC') = k
          /\ MUC'[1] = x
          /\ \A i \in 2 .. k : MUC'[i] = MUC[i - 1]
      BY <1>1, <1>2, <2>2
    <2>4. Rotated'
      <3>1. ASSUME NEW i \in k - (cnt - 1) + 1 .. k
            PROVE  MUC'[i] = given[i - (k - (cnt - 1))]
        <4>1. /\ i \in 2 .. k /\ i - 1 \in k - cnt + 1 .. k
              /\ (i - 1) - (k - cnt) = i - (k - (cnt - 1))
          BY <1>1
        <4>2. MUC[i - 1] = given[(i - 1) - (k - cnt)]
          BY <1>1, <4>1 DEF Rotated
        <4>3. QED
          BY <2>3, <4>1, <4>2
      <3>2. ASSUME NEW i \in 1 .. k - (cnt - 1)
            PROVE  MUC'[i] = given[(cnt - 1) + i]
        <4>1. CASE i = 1
          BY <1>1, <2>3, <4>1
        <4>2. CASE i \in 2 .. k - (cnt - 1)
          <5>1. i \in 2 .. k /\ i - 1 \in 1 .. k - cnt /\ cnt + (i - 1) = (cnt - 1) + i
            BY <1>1, <4>2
          <5>2. MUC[i - 1] = given[cnt + (i - 1)]
            BY <1>1, <5>1 DEF Rotated
          <5>3. QED
            BY <2>3, <5>1, <5>2
        <4>3. QED
          BY <1>1, <4>1, <4>2
      <3>3. QED
        BY <1>1, <2>3, <3>1, <3>2 DEF Rotated
    <2>5. Tested'
      <3>1. ASSUME NEW i \in cnt .. k
            PROVE  Sat(cores, ToSet(given) \ {given[i]})
        <4>1. CASE i = cnt
          BY <1>3, <1>5, <4>1
        <4>2. CASE i \in cnt + 1 .. k
          BY <1>1, <4>2 DEF Tested
        <4>3. QED
          BY <1>1, <4>1, <4>2
      <3>2. (cnt - 1) + 1 = cnt
        BY <1>1
      <3>3. QED
        BY <1>1, <3>1, <3>2 DEF Tested
    <2>6. cnt - 1 \in 0 .. k
      BY <1>1
    <2>7. TypeOK'
      BY <1>1, <2>1, <2>3, <2>6 DEF TypeOK
    <2>8. QED
      BY <1>1, <2>1, <2>4, <2>5, <2>7 DEF IInv, VerdictIsRight
  <1>6. QED
    BY <1>4, <1>5 DEF Sat

\* The end of the loop.
LEMMA AllNeededIInv == IInv /\ AllNeeded => IInv'
  <1> SUFFICES ASSUME IInv, AllNeeded PROVE IInv'
    OBVIOUS
  <1>1. /\ TypeOK /\ UNCHANGED <<cores, given, MUC, cnt>> /\ pc = "loop"
        /\ cnt = 0 /\ pc' = "right" /\ given \in Seq(Conj) /\ Len(given) \in Nat
        /\ Tested /\ Unsat(cores, ToSet(given))
    BY DEF IInv, AllNeeded, More, TypeOK
  <1>2. ASSUME NEW x \in ToSet(given)
        PROVE  Sat(cores, ToSet(given) \ {x})
    <2>1. PICK i \in 1 .. Len(given) : x = given[i]
      BY <1>1, SetOf
    <2>2. i \in cnt + 1 .. Len(given)
      BY <1>1
    <2>3. QED
      BY <1>1, <2>1, <2>2 DEF Tested
  <1>3. IsMUC(cores, ToSet(given))
    BY <1>1, <1>2 DEF IsMUC
  <1>4. QED
    BY <1>1, <1>3 DEF IInv, TypeOK, VerdictIsRight

\* A step that changes nothing.
LEMMA StutterIInv == IInv /\ UNCHANGED vars => IInv'
  BY DEF IInv, vars, TypeOK, VerdictIsRight, Rotated, Tested

\* Every step preserves the invariant.
LEMMA NextIInv == IInv /\ [Next]_vars => IInv'
  BY AllTogetherIInv, WithoutLastIInv, AllNeededIInv, StutterIInv
     DEF Next, Terminated

\* The invariant holds in every reachable state.
THEOREM Invariance == Spec => []IInv
  BY InitIInv, NextIInv, PTL DEF Spec

\* The counter of check_muc never leaves its range.
THEOREM TypeCorrect == Spec => []TypeOK
  <1>1. IInv => TypeOK
    BY DEF IInv
  <1>2. QED
    BY <1>1, Invariance, PTL

\* check_muc prints "MUC is right" for minimal unsatisfiable cores and
\* "MUC is wrong" for others.
THEOREM VerdictCorrect == Spec => []VerdictIsRight
  <1>1. IInv => VerdictIsRight
    BY DEF IInv
  <1>2. QED
    BY <1>1, Invariance, PTL

\* In the loop, every conjunct that is in front of the others was tested.
THEOREM EachTested == Spec => []TestedInTurn
  <1>1. IInv => TestedInTurn
    <2>1. SUFFICES ASSUME IInv, pc = "loop", NEW i \in 1 .. Len(MUC) - cnt
                   PROVE  Sat(cores, ToSet(given) \ {MUC[i]})
      BY DEF TestedInTurn
    <2>2. /\ cnt \in 0 .. Len(given) /\ Len(given) \in Nat
          /\ Len(MUC) = Len(given)
          /\ MUC[i] = given[cnt + i]
      BY <2>1 DEF IInv, TypeOK, Rotated
    <2>3. cnt + i \in cnt + 1 .. Len(given)
      BY <2>2
    <2>4. Sat(cores, ToSet(given) \ {given[cnt + i]})
      BY <2>1, <2>3 DEF IInv, Tested
    <2>5. QED
      BY <2>2, <2>4
  <1>2. QED
    BY <1>1, Invariance, PTL

\* The tests that check_muc has still to make.
Work ==
  CASE pc = "start" -> Len(given) + 2
    [] pc = "loop"  -> cnt + 1
    [] OTHER        -> 0

\* check_muc cannot go on for ever: each step takes from a natural number.
THEOREM EachStepCounts == Spec => [][Work' < Work /\ Work \in Nat]_vars
  <1>1. ASSUME IInv, [Next]_vars
        PROVE  [Work' < Work /\ Work \in Nat]_vars
    <2>1. cnt \in Nat /\ Len(given) \in Nat
      BY <1>1 DEF IInv, TypeOK
    <2>2. CASE AllTogether
      <3>1. pc = "start" /\ given' = given /\ MUC = given
        BY <1>1, <2>2 DEF AllTogether, IInv
      <3>2. \/ pc' \in {"right", "wrong", "abort"}
            \/ pc' = "loop" /\ cnt' = Len(given)
        BY <2>2, <3>1 DEF AllTogether
      <3>3. Work = Len(given) + 2 /\ (Work' = 0 \/ Work' = Len(given) + 1)
        BY <3>1, <3>2 DEF Work
      <3>4. QED
        BY <2>1, <3>3
    <2>3. CASE WithoutLast
      <3>1. Work = cnt + 1 /\ (Work' = 0 \/ Work' = cnt - 1 + 1)
        BY <2>3 DEF WithoutLast, Work
      <3>2. QED
        BY <2>1, <2>3, <3>1 DEF WithoutLast, More
    <2>4. CASE AllNeeded
      <3>1. Work = cnt + 1 /\ Work' = 0
        BY <2>4 DEF AllNeeded, Work
      <3>2. QED
        BY <2>1, <3>1
    <2>5. QED
      BY <1>1, <2>2, <2>3, <2>4 DEF Next, Terminated
  <1>2. QED
    BY <1>1, Invariance, PTL DEF Spec

------------------------------------------------------------------------------
(* The options. *)

\* The positions of the arguments that were read: the loop counts down.
Read == index + 1 .. Len(argv)

\* The k-th argument is the last one read of its kind: the first one given, as
\* far as the arguments were read.
LastRead(kind, k) ==
  argv[k] \in kind /\ \A j \in index + 1 .. k - 1 : argv[j] \notin kind

UCOptions == {"-naive-uc", "-binary-uc"}

\* The method and the heuristic are those of the options that were read.
MethodRead ==
  /\ (\A k \in Read : argv[k] \notin Methods) => method = "binary"
  /\ \A k \in Read : LastRead(Methods, k) => method = MethodOf(argv[k])
  /\ UCEable <=> \E k \in Read : argv[k] \in UCOptions

\* An extraction follows the whole loop.
StageIsRight ==
  /\ stage # "exit" => engine = "none"
  /\ stage \in {"formula", "extract"} => index = 0
  /\ engine # "none" => index = 0 /\ engine = Engine(in)

ArgsInv ==
  /\ argv \in Seq(Arguments)
  /\ index \in 0 .. Len(argv)
  /\ MethodRead
  /\ StageIsRight

LEMMA InitArgsInv == ArgsInit => ArgsInv
  <1> SUFFICES ASSUME ArgsInit PROVE ArgsInv
    OBVIOUS
  <1>1. PICK n \in 0 .. MaxArgs : argv \in [1 .. n -> Arguments]
    BY DEF ArgsInit, BoundedSeq, SeqOf
  <1>2. n \in Nat
    BY <1>1, MaxArgsAssumption
  <1>3. argv \in Seq(Arguments) /\ Len(argv) = n /\ index = n
    BY <1>1, <1>2 DEF ArgsInit
  <1>4. Read = {}
    BY <1>2, <1>3 DEF Read
  <1>5. MethodRead
    BY <1>4 DEF MethodRead, ArgsInit
  <1>6. StageIsRight
    BY DEF StageIsRight, ArgsInit
  <1>7. QED
    BY <1>2, <1>3, <1>5, <1>6 DEF ArgsInv

\* One more argument was read, the one at the old index.
LEMMA ReadOneMore ==
  ASSUME ArgsInv, index > 0, index' = index - 1, argv' = argv
  PROVE  /\ index \in Nat /\ index \in 1 .. Len(argv) /\ index' \in 0 .. Len(argv)
         /\ argv[index] \in Arguments
         /\ index \notin Read /\ Read' = Read \cup {index}
         /\ \A k \in Read : k > index /\ k \in Int
         /\ index' + 1 = index
  BY DEF ArgsInv, Read

\* The last one read of a kind after an argument more was read.
LEMMA LastReadNext ==
  ASSUME ArgsInv, index > 0, index' = index - 1, argv' = argv, NEW kind,
         NEW k \in Read', LastRead(kind, k)'
  PROVE  IF argv[index] \in kind THEN k = index ELSE k \in Read /\ LastRead(kind, k)
  <1>1. /\ index \in 1 .. Len(argv) /\ index' + 1 = index
        /\ \A q \in Read : q > index /\ q \in Int
        /\ Read' = Read \cup {index}
    BY ReadOneMore
  <1>2. argv[k] \in kind /\ \A j \in index .. k - 1 : argv[j] \notin kind
    BY <1>1 DEF LastRead
  <1>3. CASE k = index
    BY <1>2, <1>3
  <1>4. CASE k \in Read
    <2>1. index \in index .. k - 1 /\ index + 1 .. k - 1 \subseteq index .. k - 1
      BY <1>1, <1>4
    <2>2. QED
      BY <1>2, <1>4, <2>1 DEF LastRead
  <1>5. QED
    BY <1>1, <1>3, <1>4

\* A step that reads an argument that names no method keeps the method.
LEMMA NoMethodRead ==
  ASSUME ArgsInv, index > 0, index' = index - 1,
         UNCHANGED <<argv, method, UCEable>>, argv[index] \notin Methods
  PROVE  MethodRead'
  <1>1. Read' = Read \cup {index} /\ MethodRead
    BY ReadOneMore DEF ArgsInv
  <1>2. argv[index] \notin UCOptions
    BY DEF UCOptions, Methods
  <1>3. ASSUME NEW k \in Read', LastRead(Methods, k)'
        PROVE  method' = MethodOf(argv'[k])
    <2>1. k \in Read /\ LastRead(Methods, k)
      <3>1. IF argv[index] \in Methods
            THEN k = index ELSE k \in Read /\ LastRead(Methods, k)
        BY <1>3, LastReadNext
      <3>2. QED
        BY <3>1
    <2>2. QED
      BY <1>1, <2>1 DEF MethodRead
  <1>4. (\A k \in Read' : argv'[k] \notin Methods) => method' = "binary"
    BY <1>1 DEF MethodRead
  <1>5. UCEable' <=> \E k \in Read' : argv'[k] \in UCOptions
    BY <1>1, <1>2 DEF MethodRead
  <1>6. QED
    BY <1>3, <1>4, <1>5 DEF MethodRead

LEMMA FlagArgsInv == ArgsInv /\ Flag => ArgsInv'
  <1> SUFFICES ASSUME ArgsInv, Flag PROVE ArgsInv'
    OBVIOUS
  <1>1. /\ index > 0 /\ index' = index - 1 /\ argv[index] \in Flags
        /\ UNCHANGED <<argv, method, UCEable, in, engine, stage>>
        /\ stage = "options"
    BY DEF Flag, arg
  <1>2. argv[index] \notin Methods
    BY <1>1 DEF Flags, Methods
  <1>3. MethodRead'
    BY <1>1, <1>2, NoMethodRead
  <1>4. index' \in 0 .. Len(argv)
    BY <1>1, ReadOneMore
  <1>5. StageIsRight'
    BY <1>1 DEF ArgsInv, StageIsRight
  <1>6. QED
    BY <1>1, <1>3, <1>4, <1>5 DEF ArgsInv

\* The option read last names the method.
LEMMA MethodArgsInv == ArgsInv /\ Method => ArgsInv'
  <1> SUFFICES ASSUME ArgsInv, Method PROVE ArgsInv'
    OBVIOUS
  <1>1. /\ index > 0 /\ index' = index - 1 /\ argv[index] \in Methods
        /\ UNCHANGED <<argv, in, engine, stage>>
        /\ stage = "options"
        /\ method' = MethodOf(argv[index])
        /\ UCEable' = (UCEable \/ argv[index] \in UCOptions)
    BY DEF Method, arg, Heuristic, UCOptions
  <1>2. Read' = Read \cup {index} /\ index' \in 0 .. Len(argv)
    BY <1>1, ReadOneMore
  <1>3. ASSUME NEW k \in Read', LastRead(Methods, k)'
        PROVE  method' = MethodOf(argv'[k])
    <2>1. IF argv[index] \in Methods
          THEN k = index ELSE k \in Read /\ LastRead(Methods, k)
      BY <1>1, <1>3, LastReadNext
    <2>2. QED
      BY <1>1, <2>1
  <1>4. ~ \A k \in Read' : argv'[k] \notin Methods
    BY <1>1, <1>2
  <1>5. UCEable <=> \E k \in Read : argv[k] \in UCOptions
    BY DEF ArgsInv, MethodRead
  <1>6. UCEable' <=> \E k \in Read' : argv'[k] \in UCOptions
    BY <1>1, <1>2, <1>5
  <1>7. MethodRead'
    BY <1>3, <1>4, <1>6 DEF MethodRead
  <1>8. StageIsRight'
    BY <1>1 DEF ArgsInv, StageIsRight
  <1>9. QED
    BY <1>1, <1>2, <1>7, <1>8 DEF ArgsInv

\* A formula is read, or is the third one and ends the program.
LEMMA InputArgsInv == ArgsInv /\ Input => ArgsInv'
  <1> SUFFICES ASSUME ArgsInv, Input PROVE ArgsInv'
    OBVIOUS
  <1>1. /\ index > 0 /\ argv[index] \in Formulas /\ stage = "options"
        /\ UNCHANGED <<argv, method, UCEable, engine>>
    BY DEF Input, arg
  <1>2. /\ MethodRead /\ StageIsRight /\ engine = "none"
        /\ argv \in Seq(Arguments)
    BY <1>1 DEF ArgsInv, StageIsRight
  <1>3. CASE input_count > 1
    <2>1. stage' = "error" /\ UNCHANGED <<index, in>>
      BY <1>3 DEF Input
    <2>2. MethodRead'
      BY <1>1, <1>2, <2>1 DEF MethodRead, Read, LastRead
    <2>3. StageIsRight'
      BY <1>1, <1>2, <2>1 DEF StageIsRight
    <2>4. QED
      BY <1>1, <2>1, <2>2, <2>3 DEF ArgsInv
  <1>4. CASE ~ (input_count > 1)
    <2>1. index' = index - 1 /\ stage' = stage
      BY <1>4 DEF Input, arg
    <2>2. index' \in 0 .. Len(argv)
      BY <1>1, <2>1, ReadOneMore
    <2>3. argv[index] \notin Methods
      BY <1>1, FormulasAssumption DEF Options
    <2>4. MethodRead'
      BY <1>1, <2>1, <2>3, NoMethodRead
    <2>5. StageIsRight'
      BY <1>1, <1>2, <2>1 DEF StageIsRight
    <2>6. QED
      BY <1>1, <1>2, <2>2, <2>4, <2>5 DEF ArgsInv
  <1>5. QED
    BY <1>3, <1>4

\* A step after the loop, or one that ends the program in it.
LEMMA KeepsRead ==
  ASSUME ArgsInv, UNCHANGED <<argv, index, method, UCEable>>, StageIsRight'
  PROVE  ArgsInv'
  <1>1. Read' = Read
    BY DEF Read
  <1>2. MethodRead'
    BY <1>1 DEF ArgsInv, MethodRead, LastRead
  <1>3. QED
    BY <1>2 DEF ArgsInv

\* Every step preserves the invariant.
LEMMA NextArgsInv == ArgsInv /\ [ArgsNext]_argVars => ArgsInv'
  <1> SUFFICES ASSUME ArgsInv, [ArgsNext]_argVars PROVE ArgsInv'
    OBVIOUS
  <1>1. CASE Help
    <2>1. /\ UNCHANGED <<argv, index, method, UCEable, in, engine>>
          /\ stage = "options" /\ stage' = "exit"
      BY <1>1 DEF Help
    <2>2. QED
      BY <2>1, KeepsRead DEF ArgsInv, StageIsRight
  <1>2. CASE GotInput
    <2>1. /\ UNCHANGED <<argv, index, method, UCEable, in, engine>>
          /\ stage = "options" /\ stage' = "formula" /\ index = 0
      BY <1>2 DEF GotInput
    <2>2. QED
      BY <2>1, KeepsRead DEF ArgsInv, StageIsRight
  <1>3. CASE PrintFormula
    <2>1. /\ UNCHANGED <<argv, index, method, UCEable, in, engine>>
          /\ stage = "formula" /\ stage' = "exit"
      BY <1>3 DEF PrintFormula
    <2>2. QED
      BY <2>1, KeepsRead DEF ArgsInv, StageIsRight
  <1>4. CASE Check
    <2>1. /\ UNCHANGED <<argv, index, method, UCEable, in, engine>>
          /\ stage = "formula" /\ stage' \in {"extract", "abort"}
      BY <1>4 DEF Check
    <2>2. QED
      BY <2>1, KeepsRead DEF ArgsInv, StageIsRight
  <1>5. CASE Extract
    <2>1. /\ UNCHANGED <<argv, index, method, UCEable, in>>
          /\ stage = "extract" /\ stage' = "exit" /\ engine' = Engine(in)
      BY <1>5 DEF Extract
    <2>2. Engine(in)' = Engine(in)
      BY <2>1 DEF Engine
    <2>3. StageIsRight'
      BY <2>1, <2>2 DEF ArgsInv, StageIsRight
    <2>4. QED
      BY <2>1, <2>3, KeepsRead
  <1>6. CASE ReadInput
    <2>1. /\ UNCHANGED <<argv, index, method, UCEable, engine>>
          /\ stage = "options" /\ index = 0 /\ stage' \in {"formula", "error"}
      BY <1>6 DEF ReadInput
    <2>2. QED
      BY <2>1, KeepsRead DEF ArgsInv, StageIsRight
  <1>7. CASE UNCHANGED argVars
    <2>1. /\ UNCHANGED <<argv, index, method, UCEable, in, engine>>
          /\ stage' = stage
      BY <1>7 DEF argVars
    <2>2. StageIsRight'
      BY <2>1 DEF ArgsInv, StageIsRight, Engine
    <2>3. QED
      BY <2>1, <2>2, KeepsRead
  <1>8. QED
    BY <1>1, <1>2, <1>3, <1>4, <1>5, <1>6, <1>7, FlagArgsInv, MethodArgsInv, InputArgsInv
       DEF ArgsNext, ArgsTerminated

\* The options read and the stage agree in every reachable state.
THEOREM ArgsInvariance == ArgsSpec => []ArgsInv
  BY InitArgsInv, NextArgsInv, PTL DEF ArgsSpec

\* At the end of the loop the first argument given of a kind is the last one read.
LEMMA AllRead ==
  ASSUME ArgsInv, index = 0
  PROVE  /\ Read = DOMAIN argv
         /\ \A kind, k : FirstGiven(kind, k) => LastRead(kind, k)
  <1>1. Read = DOMAIN argv /\ index + 1 = 1
    BY DEF ArgsInv, Read
  <1>2. QED
    BY <1>1 DEF FirstGiven, LastRead

\* The first option given that names a method decides the extraction, and a
\* global extraction gets a global formula only: get_muc and ltlf_sat.
THEOREM FirstMethodDecides == ArgsSpec => []OptionsDecide
  <1>1. ArgsInv => OptionsDecide
    <2> SUFFICES ASSUME ArgsInv, engine # "none" PROVE OptionsDecide
      BY DEF OptionsDecide
    <2>1. /\ index = 0 /\ engine = Engine(in) /\ MethodRead
      BY DEF ArgsInv, StageIsRight
    <2>2. /\ Read = DOMAIN argv
          /\ \A kind, k : FirstGiven(kind, k) => LastRead(kind, k)
      BY <2>1, AllRead
    <2>3. engine = "global" => in \in Global
      BY <2>1 DEF Engine
    <2>4. (\A k \in DOMAIN argv : argv[k] \notin Methods) => engine = "binary"
      BY <2>1, <2>2 DEF MethodRead, Engine
    <2>5. ASSUME NEW k \in DOMAIN argv, FirstGiven(Methods, k)
          PROVE  \/ engine = MethodOf(argv[k])
                 \/ /\ MethodOf(argv[k]) = "global"
                    /\ engine = "binary" /\ in \notin Global
      <3>1. method = MethodOf(argv[k])
        BY <2>1, <2>2, <2>5 DEF MethodRead
      <3>2. QED
        BY <2>1, <3>1 DEF Engine
    <2>6. UCEable <=>
            \E k \in DOMAIN argv : argv[k] \in {"-naive-uc", "-binary-uc"}
      BY <2>1, <2>2 DEF MethodRead, UCOptions
    <2>7. QED
      BY <2>3, <2>4, <2>5, <2>6 DEF OptionsDecide
  <1>2. QED
    BY <1>1, ArgsInvariance, PTL
===============================================================================
