---------------------------- MODULE CarCheckProofs ----------------------------
(***************************************************************************)
(* Proofs about car_check for every encoding: any finite set of conjuncts, *)
(* any set of models that satisfies IsEncoding, any choice of models and of *)
(* unsat cores by the SAT solver, and any number of frames.                *)
(***************************************************************************)
EXTENDS CarCheck, SharedProofs, SequenceTheorems

------------------------------------------------------------------------------
(* Frames and the SAT solver. *)

\* A larger frame blocks more, and blocks larger states.
LEMMA BlocksGrows ==
  ASSUME NEW F, NEW G, NEW s, NEW t, F \subseteq G, s \subseteq t, Blocks(F, s)
  PROVE  Blocks(G, t)
  BY DEF Blocks

\* A refuted core stays refuted when the frame grows.
LEMMA RefutedStays ==
  ASSUME NEW F, NEW G, F \subseteq G, NEW u, Steps(u, F) = {}
  PROVE  Steps(u, G) = {}
  BY BlocksGrows DEF Steps

\* The models with Tail whose demands hold in themselves: at least one exists.
Loops == {t \in problem.models : t.tail /\ t.nx \subseteq t.on}

\* No frame ever blocks a loop, so no core holds in one.
LEMMA LoopRefutesCore ==
  ASSUME NEW t \in Loops, NEW F, ~ Blocks(F, t.on), NEW u,
         Final(u) = {} \/ Steps(u, F) = {}
  PROVE  ~ (u \subseteq t.on) /\ u # {}
  <1>1. ~ (u \subseteq t.on)
    <2>1. SUFFICES ASSUME u \subseteq t.on PROVE FALSE
      OBVIOUS
    <2>2. t \in Final(u)
      BY <2>1 DEF Final, Loops
    <2>3. ~ Blocks(F, t.nx)
      BY BlocksGrows DEF Loops
    <2>4. t \in Steps(u, F)
      BY <2>1, <2>3 DEF Steps, Loops
    <2>5. QED
      BY <2>2, <2>4
  <1>2. QED
    BY <1>1

------------------------------------------------------------------------------
(* The inductive invariant. *)

\* Loops are blocked nowhere.
LoopsFree ==
  \A t \in Loops : /\ \A j \in DOMAIN frames : ~ Blocks(frames[j], t.on)
                   /\ ~ Blocks(tmp, t.on)

\* Every frame blocks the goal, and so does tmp_frame_ when it is complete.
GoalBlocked ==
  /\ \A j \in DOMAIN frames : Blocks(frames[j], problem.goal)
  /\ pc = "inv" => Blocks(tmp, problem.goal)

\* One transition of the encoding leads from the formula c to d.
Linked(M, c, d) == \E m \in M : c \subseteq m.on /\ d = m.nx

\* The formulas of the calls are linked from the goal down.
StackLinked ==
  /\ pc \in {"solve", "final"} => stack # <<>> /\ stack[1] = problem.goal
  /\ pc \in {"solve", "final"} =>
       \A i \in 1 .. Len(stack) - 1 : Linked(problem.models, stack[i], stack[i + 1])
  /\ pc = "final" => Linked(problem.models, stack[Len(stack)], next)

IInv ==
  /\ TypeOK
  /\ FramesStep
  /\ LoopsFree
  /\ GoalBlocked
  /\ StackLinked
  /\ CoreNeverEmpty
  /\ SatIsRight
  /\ UnsatIsRight
  /\ pc = "once" => frames = <<>> /\ tmp = {} /\ stack = <<>>

\* The check starts in the invariant.
LEMMA InitIInv == Init => IInv
  <1> SUFFICES ASSUME Init PROVE IInv
    OBVIOUS
  <1> USE DEF Init
  <1>1. TypeOK
    BY ProblemsAssumption DEF TypeOK
  <1>2. FramesStep
    BY DEF FramesStep
  <1>3. LoopsFree
    BY DEF LoopsFree, Blocks
  <1>4. GoalBlocked /\ StackLinked
    BY DEF GoalBlocked, StackLinked
  <1>5. QED
    BY <1>1, <1>2, <1>3, <1>4
       DEF IInv, CoreNeverEmpty, SatIsRight, UnsatIsRight

\* What every step keeps when it leaves the problem alone.
LEMMA LoopExists ==
  ASSUME TypeOK
  PROVE  /\ IsFiniteSet(Lits)
         /\ problem.goal \in SUBSET Lits /\ problem.goal # {}
         /\ problem.models \in SUBSET Models
         /\ problem.worlds \in SUBSET SUBSET Lits
         /\ problem.global \in BOOLEAN
         /\ \E t \in problem.models : t \in Loops
  BY LitsAssumption DEF TypeOK, IsEncoding, Loops

\* The first test of the goal.
LEMMA OnceIInv == IInv /\ Once => IInv'
  <1> SUFFICES ASSUME IInv, Once PROVE IInv'
    OBVIOUS
  <1>0. /\ TypeOK /\ pc = "once" /\ frames = <<>> /\ tmp = {} /\ stack = <<>>
        /\ UNCHANGED <<problem, tmp, next>>
    BY DEF IInv, Once
  <1>1. CASE /\ \E t \in Final(problem.goal) : evidence' = Append(evidence, t)
             /\ pc' = "sat"
             /\ UNCHANGED <<frames, stack>>
    <2>1. PICK t \in Final(problem.goal) : evidence' = Append(evidence, t)
      BY <1>1
    <2>2. TypeOK'
      <3>1. t \in Models
        BY <1>0, LoopExists DEF Final
      <3>2. evidence' \in Seq(Models)
        BY <1>0, <2>1, <3>1 DEF TypeOK
      <3>3. QED
        BY <1>0, <1>1, <3>2 DEF TypeOK
    <2>3. SatIsRight'
      <3> DEFINE tr == [i \in 1 .. 1 |-> t]
      <3>1. tr \in [1 .. 1 -> problem.models] /\ Len(tr) = 1
        BY DEF Final
      <3>2. IsTrace(problem.goal, tr)
        BY <3>1 DEF IsTrace, Final
      <3>3. 1 \in 1 .. Len(stack') + 1
        BY <1>0, <1>1
      <3>4. QED
        BY <1>0, <3>1, <3>2, <3>3 DEF SatIsRight
    <2>4. FramesStep' /\ LoopsFree' /\ GoalBlocked' /\ StackLinked'
      BY <1>0, <1>1 DEF IInv, FramesStep, LoopsFree, GoalBlocked, StackLinked,
                        Loops, Final, Steps, Blocks
    <2>5. QED
      BY <1>1, <2>2, <2>3, <2>4 DEF IInv, CoreNeverEmpty, UnsatIsRight
  <1>2. CASE /\ Final(problem.goal) = {} /\ problem.global /\ pc' = "unsat"
             /\ UNCHANGED <<frames, stack, evidence>>
    <2>1. ASSUME NEW m \in HoldsGoal
          PROVE  ~ m.tail /\ \A n \in problem.models : m.nx \subseteq n.on => n \in HoldsGoal
      <3>1. m \in problem.models /\ problem.goal \subseteq m.on
        BY DEF HoldsGoal
      <3>2. ~ m.tail
        BY <1>2, <3>1 DEF Final
      <3>3. ASSUME NEW n \in problem.models, m.nx \subseteq n.on
            PROVE  problem.goal \subseteq n.on
        BY <1>0, <1>2, <3>1, <3>2, <3>3 DEF TypeOK, IsEncoding
      <3>4. QED
        BY <3>2, <3>3 DEF HoldsGoal
    <2>2. Certifies(HoldsGoal)
      BY <2>1 DEF Certifies, HoldsGoal
    <2>3. UnsatIsRight'
      BY <1>0, <1>2, <2>2 DEF UnsatIsRight, Certifies, HoldsGoal
    <2>4. QED
      BY <1>0, <1>2, <2>3
         DEF IInv, TypeOK, FramesStep, LoopsFree, GoalBlocked, StackLinked,
             Loops, Final, Steps, Blocks, CoreNeverEmpty, SatIsRight
  <1>3. ASSUME NEW u \in FinalCores(problem.goal), ~ problem.global,
               IF u = {} THEN pc' = "abort" /\ UNCHANGED <<frames, stack>>
               ELSE /\ frames' = <<{u}>>
                    /\ stack' = <<problem.goal>>
                    /\ pc' = "solve",
               UNCHANGED evidence
        PROVE  IInv'
    <2>1. /\ Final(u) = {} /\ u \subseteq problem.goal
          /\ \A t \in Loops : ~ (u \subseteq t.on) /\ u # {}
      BY <1>0, LoopRefutesCore DEF FinalCores, Blocks, IInv, LoopsFree
    <2>2. /\ frames' = <<{u}>> /\ stack' = <<problem.goal>> /\ pc' = "solve"
      BY <1>0, <1>3, <2>1, LoopExists
    <2>3. TypeOK'
      BY <1>0, <1>3, <2>1, <2>2, LoopExists DEF TypeOK
    <2>4. FramesStep' /\ LoopsFree' /\ GoalBlocked' /\ StackLinked'
      BY <1>0, <2>1, <2>2 DEF FramesStep, LoopsFree, GoalBlocked, StackLinked,
                              Loops, Final, Steps, Blocks
    <2>5. QED
      BY <2>2, <2>3, <2>4 DEF IInv, CoreNeverEmpty, SatIsRight, UnsatIsRight
  <1>4. QED
    BY <1>1, <1>2, <1>3 DEF Once

\* A transition is found: the frames stay as they are.
LEMMA StepIInv == IInv /\ Step => IInv'
  <1> SUFFICES ASSUME IInv, Step PROVE IInv'
    OBVIOUS
  <1>0. /\ TypeOK /\ pc = "solve" /\ UNCHANGED <<problem, frames, tmp>>
        /\ stack \in Seq(SUBSET Lits) /\ Len(stack) \in 1 .. Len(frames)
        /\ frames \in Seq(SUBSET SUBSET Lits)
        /\ stack # <<>> /\ stack[1] = problem.goal
    BY DEF IInv, Step, TypeOK, StackLinked
  <1>1. Last(stack) = stack[Len(stack)] /\ Len(frames) \in Nat
    BY <1>0 DEF Last
  <1>2. PICK m \in Steps(Last(stack), frames[Level(Len(stack)) + 1]) :
          /\ evidence' = Append(evidence, m)
          /\ IF Level(Len(stack)) = 0
             THEN next' = m.nx /\ pc' = "final" /\ UNCHANGED stack
             ELSE Descend(m) /\ UNCHANGED pc
    BY DEF Step
  <1>3. /\ m \in Models /\ m.nx \in SUBSET Lits
        /\ Linked(problem.models, stack[Len(stack)], m.nx)
    BY <1>0, <1>1, LoopExists DEF Steps, Models, Linked
  <1>4. evidence' \in Seq(Models)
    BY <1>0, <1>2, <1>3 DEF TypeOK
  <1>5. FramesStep' /\ LoopsFree' /\ pc' \in {"solve", "final"}
    BY <1>0, <1>2 DEF IInv, FramesStep, LoopsFree, Loops, Final, Steps, Blocks
  <1>6. GoalBlocked'
    BY <1>0, <1>5 DEF IInv, GoalBlocked, Blocks
  <1>7. CASE Level(Len(stack)) = 0
    <2>1. TypeOK'
      BY <1>0, <1>1, <1>2, <1>3, <1>4, <1>7 DEF TypeOK, Level
    <2>2. StackLinked'
      BY <1>0, <1>2, <1>3, <1>7 DEF IInv, StackLinked, Linked
    <2>3. QED
      BY <1>5, <1>6, <2>1, <2>2
         DEF IInv, CoreNeverEmpty, SatIsRight, UnsatIsRight
  <1>8. CASE Level(Len(stack)) # 0
    <2>1. stack' = Append(stack, m.nx) /\ pc' = "solve" /\ next' = next
      BY <1>0, <1>2, <1>8 DEF Descend
    <2>2. /\ stack' \in Seq(SUBSET Lits)
          /\ Len(stack') = Len(stack) + 1 /\ Len(stack) \in Nat
          /\ \A i \in 1 .. Len(stack) : stack'[i] = stack[i]
          /\ stack'[Len(stack) + 1] = m.nx
      BY <1>0, <1>3, <2>1
    <2>3. Len(stack') \in 1 .. Len(frames)
      BY <1>0, <1>1, <1>8, <2>2 DEF Level
    <2>4. TypeOK'
      BY <1>0, <1>4, <2>1, <2>2, <2>3 DEF TypeOK
    <2>5. ASSUME NEW i \in 1 .. Len(stack') - 1
          PROVE  Linked(problem.models, stack'[i], stack'[i + 1])
      <3>1. CASE i = Len(stack)
        BY <1>3, <2>2, <3>1
      <3>2. CASE i \in 1 .. Len(stack) - 1
        <4>1. Linked(problem.models, stack[i], stack[i + 1])
          BY <1>0, <3>2 DEF IInv, StackLinked
        <4>2. stack'[i] = stack[i] /\ stack'[i + 1] = stack[i + 1]
          BY <2>2, <3>2
        <4>3. QED
          BY <4>1, <4>2
      <3>3. QED
        BY <2>2, <3>1, <3>2
    <2>6. StackLinked'
      <3>1. stack' # <<>> /\ stack'[1] = problem.goal
        BY <1>0, <2>2, <2>3
      <3>2. \A i \in 1 .. Len(stack') - 1 :
              Linked(problem'.models, stack'[i], stack'[i + 1])
        BY <1>0, <2>5
      <3>3. QED
        BY <1>0, <2>1, <3>1, <3>2 DEF StackLinked
    <2>7. QED
      BY <1>5, <1>6, <2>1, <2>4, <2>6
         DEF IInv, CoreNeverEmpty, SatIsRight, UnsatIsRight
  <1>9. QED
    BY <1>7, <1>8

\* What add_frame_element does to the frames, wherever the core goes.
LEMMA FramesGrow ==
  ASSUME TypeOK, NEW level \in 0 .. Len(frames), NEW u \in SUBSET Lits,
         AddFrameElement(level, u)
  PROVE  /\ frames' \in Seq(SUBSET SUBSET Lits) /\ tmp' \in SUBSET SUBSET Lits
         /\ Len(frames') = Len(frames) /\ DOMAIN frames' = DOMAIN frames
         /\ \A j \in DOMAIN frames : frames[j] \subseteq frames'[j]
         /\ \A j \in DOMAIN frames : j # level + 1 => frames'[j] = frames[j]
         /\ \A j \in DOMAIN frames : j = level + 1 => frames'[j] = frames[j] \cup {u}
         /\ level = Len(frames) => tmp' = tmp \cup {u}
         /\ level # Len(frames) => tmp' = tmp
  <1>1. frames \in Seq(SUBSET SUBSET Lits) /\ tmp \in SUBSET SUBSET Lits
    BY DEF TypeOK
  <1>2. CASE level = Len(frames)
    BY <1>1, <1>2 DEF AddFrameElement
  <1>3. CASE level # Len(frames)
    <2>1. /\ level + 1 \in 1 .. Len(frames)
          /\ frames' = [frames EXCEPT ![level + 1] = @ \cup {u}]
          /\ tmp' = tmp
      BY <1>1, <1>3 DEF AddFrameElement
    <2>2. frames[level + 1] \cup {u} \in SUBSET SUBSET Lits
      BY <1>1, <2>1
    <2>3. QED
      BY <1>1, <1>3, <2>1, <2>2
  <1>4. QED
    BY <1>2, <1>3

\* A refuted core of a formula that the frame searches is added: the frames
\* keep their meaning.
LEMMA CoreAdded ==
  ASSUME IInv, frames # <<>>, problem' = problem,
         NEW level \in 0 .. Len(frames), NEW u \in SUBSET Lits,
         AddFrameElement(level, u),
         \A t \in Loops : ~ (u \subseteq t.on),
         level = 0 => Final(u) = {},
         level # 0 => Steps(u, frames[level]) = {}
  PROVE  /\ FramesStep' /\ LoopsFree'
         /\ frames' # <<>>
         /\ \A j \in DOMAIN frames' : Blocks(frames'[j], problem.goal)
  <1>1. /\ frames' \in Seq(SUBSET SUBSET Lits)
        /\ Len(frames') = Len(frames) /\ DOMAIN frames' = DOMAIN frames
        /\ \A j \in DOMAIN frames : frames[j] \subseteq frames'[j]
        /\ \A j \in DOMAIN frames : \A v \in frames'[j] :
             v \in frames[j] \/ (j = level + 1 /\ v = u)
        /\ \A v \in tmp' : v \in tmp \/ (level = Len(frames) /\ v = u)
    BY FramesGrow DEF IInv
  <1>2. frames \in Seq(SUBSET SUBSET Lits) /\ Len(frames) \in Nat \ {0}
    BY EmptySeq DEF IInv, TypeOK
  <1>3. DOMAIN frames = 1 .. Len(frames)
    BY <1>2
  <1>4. \A v \in frames'[1] : Final(v) = {}
    <2>1. \A v \in frames[1] : Final(v) = {}
      BY DEF IInv, FramesStep
    <2>2. ASSUME NEW v \in frames'[1], v \notin frames[1]
          PROVE  v = u /\ level = 0
      <3>1. 1 \in DOMAIN frames
        BY <1>2, <1>3
      <3>2. 1 = level + 1 /\ v = u
        BY <1>1, <2>2, <3>1
      <3>3. QED
        BY <3>2
    <2>3. QED
      BY <2>1, <2>2
  <1>5. ASSUME NEW j \in DOMAIN frames \ {1}, NEW v \in frames'[j]
        PROVE  Steps(v, frames'[j - 1]) = {}
    <2>1. j \in Nat /\ j - 1 \in DOMAIN frames
      BY <1>2, <1>3
    <2>2. frames[j - 1] \subseteq frames'[j - 1]
      BY <1>1, <2>1
    <2>3. CASE v \in frames[j]
      <3>1. Steps(v, frames[j - 1]) = {}
        BY <2>3 DEF IInv, FramesStep
      <3>2. QED
        BY <2>2, <3>1, RefutedStays
    <2>4. CASE j = level + 1 /\ v = u
      <3>1. level # 0 /\ j - 1 = level
        BY <1>2, <2>4
      <3>2. Steps(u, frames[j - 1]) = {}
        BY <3>1
      <3>3. QED
        BY <2>2, <2>4, <3>2, RefutedStays
    <2>5. QED
      BY <1>1, <1>5, <2>3, <2>4
  <1>6. ASSUME NEW v \in tmp'
        PROVE  Steps(v, frames'[Len(frames)]) = {}
    <2>1. Len(frames) \in DOMAIN frames
      BY <1>2, <1>3
    <2>2. frames[Len(frames)] \subseteq frames'[Len(frames)]
      BY <1>1, <2>1
    <2>3. CASE v \in tmp
      <3>1. Steps(v, frames[Len(frames)]) = {}
        BY <2>3 DEF IInv, FramesStep
      <3>2. QED
        BY <2>2, <3>1, RefutedStays
    <2>4. CASE level = Len(frames) /\ v = u
      <3>1. Steps(u, frames[Len(frames)]) = {}
        BY <1>2, <2>4
      <3>2. QED
        BY <2>2, <2>4, <3>1, RefutedStays
    <2>5. QED
      BY <1>1, <1>6, <2>3, <2>4
  <1>7. FramesStep'
    <2>1. \A v : Final(v)' = Final(v)
      BY DEF Final
    <2>2. \A v : \A F : {m \in problem'.models : v \subseteq m.on /\ ~ Blocks(F, m.nx)}
                          = Steps(v, F)
      BY DEF Steps
    <2>3. QED
      BY <1>1, <1>4, <1>5, <1>6, <2>1, <2>2 DEF FramesStep, Steps
  <1>8. LoopsFree'
    <2>1. Loops' = Loops
      BY DEF Loops
    <2>2. ASSUME NEW t \in Loops, NEW j \in DOMAIN frames
          PROVE  ~ Blocks(frames'[j], t.on)
      <3>1. ~ Blocks(frames[j], t.on)
        BY DEF IInv, LoopsFree
      <3>2. QED
        BY <1>1, <3>1 DEF Blocks
    <2>3. ASSUME NEW t \in Loops
          PROVE  ~ Blocks(tmp', t.on)
      <3>1. ~ Blocks(tmp, t.on)
        BY DEF IInv, LoopsFree
      <3>2. QED
        BY <1>1, <3>1 DEF Blocks
    <2>4. QED
      BY <1>1, <2>1, <2>2, <2>3 DEF LoopsFree, Blocks
  <1>9. ASSUME NEW j \in DOMAIN frames
        PROVE  Blocks(frames'[j], problem.goal)
    <2>1. Blocks(frames[j], problem.goal)
      BY DEF IInv, GoalBlocked
    <2>2. QED
      BY <1>1, <2>1 DEF Blocks
  <1>10. frames' # <<>>
    BY <1>1, <1>2
  <1>11. QED
    BY <1>1, <1>7, <1>8, <1>9, <1>10

\* A call of try_satisfy fails.
LEMMA FailIInv == IInv /\ Fail => IInv'
  <1> SUFFICES ASSUME IInv, Fail PROVE IInv'
    OBVIOUS
  <1> DEFINE level == Level(Len(stack))
             c == Last(stack)
  <1>0. /\ TypeOK /\ pc = "solve" /\ UNCHANGED <<problem, next>>
        /\ stack \in Seq(SUBSET Lits) /\ Len(stack) \in 1 .. Len(frames)
        /\ frames \in Seq(SUBSET SUBSET Lits) /\ Len(frames) \in Nat
        /\ stack # <<>> /\ stack[1] = problem.goal
    BY DEF IInv, Fail, TypeOK, StackLinked
  <1>1. /\ level + 1 \in DOMAIN frames /\ level + 1 \in 0 .. Len(frames)
        /\ level + 1 # 0
        /\ (level + 1 = Len(frames) => Len(stack) = 1)
        /\ (Len(stack) = 1 => level + 1 = Len(frames))
        /\ c \in SUBSET Lits /\ (Len(stack) = 1 => c = problem.goal)
        /\ frames # <<>>
    <2>1. Len(stack) \in Nat /\ level = Len(frames) - Len(stack)
      BY <1>0 DEF Level
    <2>2. /\ level + 1 \in 1 .. Len(frames) /\ level + 1 # 0
          /\ level + 1 = Len(frames) => Len(stack) = 1
          /\ Len(stack) = 1 => level + 1 = Len(frames)
      <3> DEFINE f == Len(frames)
                 s == Len(stack)
      <3>1. f \in Nat /\ s \in 1 .. f /\ level = f - s
        BY <1>0, <2>1
      <3> HIDE DEF f, s, level
      <3>2. /\ level + 1 \in 1 .. f /\ level + 1 # 0
            /\ level + 1 = f => s = 1
            /\ s = 1 => level + 1 = f
        BY <3>1
      <3>3. QED
        BY <3>2 DEF f, s, level
    <2>3. c = stack[Len(stack)] /\ c \in SUBSET Lits
      BY <1>0 DEF Last
    <2>4. DOMAIN frames = 1 .. Len(frames)
      BY <1>0
    <2>5. QED
      BY <1>0, <2>1, <2>2, <2>3, <2>4
  <1>2. PICK u \in StepCores(c, frames[level + 1]) :
          IF u = {}
          THEN pc' = "abort" /\ UNCHANGED <<frames, tmp, stack, evidence>>
          ELSE /\ AddFrameElement(level + 1, u)
               /\ stack' = Front(stack)
               /\ IF Len(stack) = 1
                  THEN pc' = "inv" /\ UNCHANGED evidence
                  ELSE evidence' = Front(evidence) /\ UNCHANGED pc
    BY DEF Fail
  <1>3. /\ u \in SUBSET Lits /\ u \subseteq c
        /\ Steps(u, frames[level + 1]) = {}
    BY <1>1 DEF StepCores
  <1>4. u # {} /\ \A t \in Loops : ~ (u \subseteq t.on)
    BY <1>0, <1>1, <1>3, LoopExists, LoopRefutesCore DEF IInv, LoopsFree
  <1>5. /\ AddFrameElement(level + 1, u)
        /\ stack' = Front(stack)
        /\ IF Len(stack) = 1
           THEN pc' = "inv" /\ UNCHANGED evidence
           ELSE evidence' = Front(evidence) /\ UNCHANGED pc
    BY <1>2, <1>4
  <1>6. /\ FramesStep' /\ LoopsFree' /\ frames' # <<>>
        /\ \A j \in DOMAIN frames' : Blocks(frames'[j], problem.goal)
    BY <1>0, <1>1, <1>3, <1>4, <1>5, CoreAdded
  <1>7. /\ frames' \in Seq(SUBSET SUBSET Lits) /\ tmp' \in SUBSET SUBSET Lits
        /\ Len(frames') = Len(frames)
        /\ Len(stack) = 1 => tmp' = tmp \cup {u}
    BY <1>0, <1>1, <1>3, <1>5, FramesGrow
  <1>8. /\ stack' \in Seq(SUBSET Lits) /\ Len(stack') = Len(stack) - 1
        /\ \A i \in 1 .. Len(stack) - 1 : stack'[i] = stack[i]
    <2>1. Len(stack) \in Nat \ {0} /\ stack' = SubSeq(stack, 1, Len(stack) - 1)
      BY <1>0, <1>5 DEF Front
    <2>2. \A i \in 1 .. Len(stack) - 1 : stack[i] \in SUBSET Lits
      BY <1>0
    <2>3. SubSeq(stack, 1, Len(stack) - 1) = [i \in 1 .. Len(stack) - 1 |-> stack[i]]
      BY <1>0, <2>1
    <2> DEFINE k == Len(stack) - 1
               front == [i \in 1 .. k |-> stack[i]]
    <2>4. k \in Nat /\ \A i \in 1 .. k : stack[i] \in SUBSET Lits
      BY <2>1, <2>2
    <2> HIDE DEF k
    <2>5. front \in Seq(SUBSET Lits) /\ Len(front) = k
      BY <2>4
    <2>6. stack' = front
      BY <2>1, <2>3 DEF k
    <2>7. QED
      BY <2>5, <2>6 DEF k
  <1>9. evidence' \in Seq(Models)
    <2>1. evidence \in Seq(Models)
      BY <1>0 DEF TypeOK
    <2>2. Front(evidence) \in Seq(Models)
      BY <2>1 DEF Front
    <2>3. QED
      BY <1>5, <2>1, <2>2
  <1>10. TypeOK'
    BY <1>0, <1>5, <1>7, <1>8, <1>9 DEF TypeOK
  <1>11. GoalBlocked'
    <2>1. ASSUME pc' = "inv" PROVE Blocks(tmp', problem.goal)
      <3>1. Len(stack) = 1
        BY <1>0, <1>5, <2>1
      <3>2. u \in tmp' /\ u \subseteq problem.goal
        BY <1>1, <1>3, <1>7, <3>1
      <3>3. QED
        BY <3>2 DEF Blocks
    <2>2. QED
      BY <1>0, <1>6, <2>1 DEF GoalBlocked, Blocks
  <1>12. StackLinked'
    <2>1. CASE Len(stack) = 1
      BY <1>5, <2>1 DEF StackLinked
    <2>2. CASE Len(stack) # 1
      <3>1. stack' # <<>> /\ stack'[1] = problem.goal /\ pc' = "solve"
        BY <1>0, <1>5, <1>8, <2>2
      <3>2. ASSUME NEW i \in 1 .. Len(stack') - 1
            PROVE  Linked(problem.models, stack'[i], stack'[i + 1])
        <4>1. Linked(problem.models, stack[i], stack[i + 1])
          BY <1>0, <1>8 DEF IInv, StackLinked
        <4>2. QED
          BY <1>0, <1>8, <4>1
      <3>3. QED
        BY <1>0, <3>1, <3>2 DEF StackLinked
    <2>3. QED
      BY <2>1, <2>2
  <1>13. pc' \in {"solve", "inv"}
    BY <1>0, <1>5
  <1>14. QED
    BY <1>6, <1>10, <1>11, <1>12, <1>13
       DEF IInv, CoreNeverEmpty, SatIsRight, UnsatIsRight

\* The linked formulas of the calls, with a last state at their end, hold a
\* trace of the goal.
LEMMA TraceFound ==
  ASSUME IInv, pc = "final", NEW t \in Final(next)
  PROVE  \E n \in 1 .. Len(stack) + 1 :
           \E tr \in [1 .. n -> problem.models] : IsTrace(problem.goal, tr)
  <1> DEFINE L == Len(stack)
             D(i) == IF i < L THEN stack[i + 1] ELSE next
             f == [i \in 1 .. L + 1 |->
                     IF i = L + 1 THEN t
                     ELSE CHOOSE m \in problem.models :
                            stack[i] \subseteq m.on /\ D(i) = m.nx]
  <1>1. L \in Nat \ {0} /\ stack[1] = problem.goal
    BY DEF IInv, TypeOK, StackLinked
  <1>2. ASSUME NEW i \in 1 .. L
        PROVE  f[i] \in problem.models /\ stack[i] \subseteq f[i].on /\ f[i].nx = D(i)
    <2>1. Linked(problem.models, stack[i], D(i))
      BY <1>1 DEF IInv, StackLinked
    <2>2. f[i] = CHOOSE m \in problem.models : stack[i] \subseteq m.on /\ D(i) = m.nx
      BY <1>1
    <2>3. QED
      BY <2>1, <2>2 DEF Linked
  <1>3. f[L + 1] = t /\ t \in problem.models /\ t.tail /\ next \subseteq t.on
    BY <1>1 DEF Final
  <1>4. f = [i \in 1 .. L + 1 |-> f[i]]
    OBVIOUS
  <1> HIDE DEF f
  <1>5. ASSUME NEW i \in 1 .. L
        PROVE  f[i].nx \subseteq f[i + 1].on
    <2>1. CASE i < L
      <3>1. i + 1 \in 1 .. L
        BY <1>1, <2>1
      <3>2. QED
        BY <1>2, <2>1, <3>1
    <2>2. CASE i = L
      BY <1>1, <1>2, <1>3, <2>2
    <2>3. QED
      BY <1>1, <2>1, <2>2
  <1>6. f \in Paths(problem.models, f[1], L)
    <2>1. ASSUME NEW i \in 1 .. L + 1 PROVE f[i] \in problem.models
      <3>1. i \in 1 .. L \/ i = L + 1
        BY <1>1
      <3>2. QED
        BY <1>2, <1>3, <3>1
    <2>2. f \in [1 .. L + 1 -> problem.models]
      BY <1>4, <2>1
    <2>3. QED
      BY <1>1, <1>3, <1>5, <2>2 DEF Paths
  <1>7. f[1] \in problem.models /\ problem.goal \subseteq f[1].on
    BY <1>1, <1>2
  <1>8. QED
    BY <1>1, <1>6, <1>7, PathHasTrace

\* The test of a last state.
LEMMA LastStateIInv == IInv /\ LastState => IInv'
  <1> SUFFICES ASSUME IInv, LastState PROVE IInv'
    OBVIOUS
  <1>0. /\ TypeOK /\ pc = "final" /\ UNCHANGED <<problem, stack, next>>
        /\ frames \in Seq(SUBSET SUBSET Lits) /\ Len(frames) \in Nat \ {0}
        /\ frames # <<>> /\ next \in SUBSET Lits
    BY DEF IInv, LastState, TypeOK
  <1>1. ASSUME NEW t \in Final(next), evidence' = Append(evidence, t),
               pc' = "sat", UNCHANGED <<frames, tmp>>
        PROVE  IInv'
    <2>1. t \in Models
      BY <1>0, LoopExists DEF Final
    <2>2. evidence' \in Seq(Models)
      BY <1>0, <1>1, <2>1 DEF TypeOK
    <2>3. TypeOK'
      BY <1>0, <1>1, <2>2 DEF TypeOK
    <2>4. SatIsRight'
      <3>1. \E n \in 1 .. Len(stack) + 1 :
              \E tr \in [1 .. n -> problem.models] : IsTrace(problem.goal, tr)
        BY <1>0, TraceFound
      <3>2. QED
        BY <1>0, <3>1 DEF SatIsRight, IsTrace
    <2>5. FramesStep' /\ LoopsFree' /\ GoalBlocked' /\ StackLinked'
      BY <1>0, <1>1 DEF IInv, FramesStep, LoopsFree, GoalBlocked, StackLinked,
                        Loops, Final, Steps, Blocks
    <2>6. QED
      BY <1>1, <2>3, <2>4, <2>5 DEF IInv, CoreNeverEmpty, UnsatIsRight
  <1>2. ASSUME NEW u \in FinalCores(next), UNCHANGED evidence,
               IF u = {} THEN pc' = "abort" /\ UNCHANGED <<frames, tmp>>
                         ELSE pc' = "solve" /\ AddFrameElement(0, u)
        PROVE  IInv'
    <2>1. /\ Final(u) = {} /\ u \in SUBSET Lits
          /\ u # {} /\ \A t \in Loops : ~ (u \subseteq t.on)
      <3>1. Final(u) = {} /\ u \in SUBSET Lits
        BY <1>0 DEF FinalCores
      <3>2. \A t \in Loops : ~ Blocks(frames[1], t.on)
        BY <1>0 DEF IInv, LoopsFree
      <3>3. QED
        BY <1>0, <3>1, <3>2, LoopExists, LoopRefutesCore
    <2>2. pc' = "solve" /\ AddFrameElement(0, u)
      BY <1>2, <2>1
    <2>3. /\ FramesStep' /\ LoopsFree' /\ frames' # <<>>
          /\ \A j \in DOMAIN frames' : Blocks(frames'[j], problem.goal)
      BY <1>0, <2>1, <2>2, CoreAdded
    <2>4. /\ frames' \in Seq(SUBSET SUBSET Lits) /\ tmp' \in SUBSET SUBSET Lits
          /\ Len(frames') = Len(frames)
      BY <1>0, <2>1, <2>2, FramesGrow
    <2>5. TypeOK'
      BY <1>0, <1>2, <2>2, <2>4 DEF TypeOK
    <2>6. GoalBlocked' /\ StackLinked'
      BY <1>0, <2>2, <2>3 DEF IInv, GoalBlocked, StackLinked, Blocks
    <2>7. QED
      BY <2>2, <2>3, <2>5, <2>6 DEF IInv, CoreNeverEmpty, SatIsRight, UnsatIsRight
  <1>3. QED
    BY <1>1, <1>2 DEF LastState

\* A frame that blocks all that the frames below it block certifies that the
\* goal has no trace.
LEMMA InvariantCertifies ==
  ASSUME IInv, NEW i \in 1 .. Len(frames) - 1, InvFoundAt(i)
  PROVE  Certifies(BlockedBelow(i))
  <1>0. /\ frames \in Seq(SUBSET SUBSET Lits) /\ Len(frames) \in Nat
        /\ DOMAIN frames = 1 .. Len(frames) /\ frames # <<>>
        /\ IsEncoding(problem)
    BY DEF IInv, TypeOK
  <1>1. ASSUME NEW m \in problem.models, problem.goal \subseteq m.on
        PROVE  m \in BlockedBelow(i)
    <2>1. ASSUME NEW j \in 1 .. i PROVE Blocks(frames[j], m.on)
      <3>1. Blocks(frames[j], problem.goal)
        BY <1>0 DEF IInv, GoalBlocked
      <3>2. QED
        BY <1>1, <3>1 DEF Blocks
    <2>2. QED
      BY <2>1 DEF BlockedBelow
  <1>2. ASSUME NEW m \in BlockedBelow(i)
        PROVE  /\ ~ m.tail
               /\ \A n \in problem.models : m.nx \subseteq n.on => n \in BlockedBelow(i)
    <2>0. m \in problem.models /\ m.on \in problem.worlds
      BY <1>0 DEF BlockedBelow, IsEncoding
    <2>1. \A j \in 1 .. i + 1 : Blocks(frames[j], m.on)
      <3>1. \A j \in 1 .. i : Blocks(frames[j], m.on)
        BY <1>2 DEF BlockedBelow
      <3>2. Blocks(frames[i + 1], m.on)
        BY <2>0, <3>1 DEF InvFoundAt
      <3>3. QED
        BY <1>0, <3>1, <3>2
    <2>2. ~ m.tail
      <3>1. PICK u \in frames[1] : u \subseteq m.on
        BY <1>0, <2>1 DEF Blocks
      <3>2. Final(u) = {}
        BY <1>0 DEF IInv, FramesStep
      <3>3. QED
        BY <2>0, <3>1, <3>2 DEF Final
    <2>3. ASSUME NEW n \in problem.models, m.nx \subseteq n.on, NEW j \in 1 .. i
          PROVE  Blocks(frames[j], n.on)
      <3>1. /\ j + 1 \in DOMAIN frames \ {1} /\ j + 1 \in 1 .. i + 1
            /\ (j + 1) - 1 = j
        BY <1>0
      <3>2. PICK u \in frames[j + 1] : u \subseteq m.on
        BY <2>1, <3>1 DEF Blocks
      <3>3. Steps(u, frames[(j + 1) - 1]) = {}
        BY <3>1 DEF IInv, FramesStep
      <3>4. Blocks(frames[j], m.nx)
        BY <2>0, <3>1, <3>2, <3>3 DEF Steps
      <3>5. QED
        BY <2>3, <3>4 DEF Blocks
    <2>4. QED
      BY <2>2, <2>3 DEF BlockedBelow
  <1>3. QED
    BY <1>1, <1>2 DEF Certifies

\* The test for an invariant, and the next frame.
LEMMA InvariantIInv == IInv /\ Invariant => IInv'
  <1> SUFFICES ASSUME IInv, Invariant PROVE IInv'
    OBVIOUS
  <1>0. /\ TypeOK /\ pc = "inv" /\ UNCHANGED <<problem, next, evidence>>
        /\ frames \in Seq(SUBSET SUBSET Lits) /\ Len(frames) \in Nat \ {0}
        /\ tmp \in SUBSET SUBSET Lits
    BY DEF IInv, Invariant, TypeOK
  <1>1. CASE \E i \in 1 .. Len(frames) - 1 : InvFoundAt(i)
    <2>1. pc' = "unsat" /\ UNCHANGED <<frames, tmp, stack>>
      BY <1>1 DEF Invariant
    <2>2. UnsatIsRight'
      <3>1. PICK i \in 1 .. Len(frames) - 1 : InvFoundAt(i)
        BY <1>1
      <3>2. Certifies(BlockedBelow(i)) /\ i \in DOMAIN frames
        BY <1>0, <3>1, InvariantCertifies
      <3>3. BlockedBelow(i)' = BlockedBelow(i) /\ i \in DOMAIN frames'
        BY <1>0, <2>1, <3>2 DEF BlockedBelow
      <3>4. Certifies(BlockedBelow(i))'
        BY <1>0, <3>2, <3>3 DEF Certifies
      <3>5. QED
        BY <3>3, <3>4 DEF UnsatIsRight
    <2>3. FramesStep' /\ LoopsFree' /\ GoalBlocked' /\ StackLinked' /\ TypeOK'
      BY <1>0, <2>1 DEF IInv, TypeOK, FramesStep, LoopsFree, GoalBlocked,
                        StackLinked, Loops, Final, Steps, Blocks
    <2>4. QED
      BY <2>1, <2>2, <2>3 DEF IInv, CoreNeverEmpty, SatIsRight
  <1>2. CASE ~ \E i \in 1 .. Len(frames) - 1 : InvFoundAt(i)
    <2>1. /\ frames' = Append(frames, tmp) /\ tmp' = {}
          /\ stack' = <<problem.goal>> /\ pc' = "solve"
      BY <1>2 DEF Invariant
    <2>2. /\ frames' \in Seq(SUBSET SUBSET Lits)
          /\ Len(frames') = Len(frames) + 1
          /\ DOMAIN frames' = 1 .. Len(frames) + 1
          /\ DOMAIN frames = 1 .. Len(frames)
          /\ \A j \in 1 .. Len(frames) : frames'[j] = frames[j]
          /\ frames'[Len(frames) + 1] = tmp
      BY <1>0, <2>1
    <2>3. TypeOK'
      BY <1>0, <2>1, <2>2, LoopExists DEF TypeOK
    <2>4. FramesStep'
      <3>1. \A v \in frames'[1] : Final(v) = {}
        BY <1>0, <2>2 DEF IInv, FramesStep
      <3>2. ASSUME NEW j \in DOMAIN frames' \ {1}, NEW v \in frames'[j]
            PROVE  Steps(v, frames'[j - 1]) = {}
        <4>1. CASE j \in DOMAIN frames
          <5>1. Steps(v, frames[j - 1]) = {}
            BY <2>2, <3>2, <4>1 DEF IInv, FramesStep
          <5>2. frames'[j - 1] = frames[j - 1]
            BY <1>0, <2>2, <3>2, <4>1
          <5>3. QED
            BY <5>1, <5>2
        <4>2. CASE j = Len(frames) + 1
          <5>1. v \in tmp /\ frames'[j - 1] = frames[Len(frames)]
            BY <1>0, <2>2, <3>2, <4>2
          <5>2. Steps(v, frames[Len(frames)]) = {}
            BY <5>1 DEF IInv, FramesStep
          <5>3. QED
            BY <5>1, <5>2
        <4>3. QED
          BY <1>0, <2>2, <4>1, <4>2
      <3>3. \A v : Final(v)' = Final(v)
        BY <1>0 DEF Final
      <3>4. \A v : \A F : {m \in problem'.models : v \subseteq m.on /\ ~ Blocks(F, m.nx)}
                            = Steps(v, F)
        BY <1>0 DEF Steps
      <3>5. \A j \in DOMAIN frames' \ {1} : \A v \in frames'[j] :
              {m \in problem'.models : v \subseteq m.on
                                       /\ ~ Blocks(frames'[j - 1], m.nx)} = {}
        BY <3>2, <3>4
      <3>6. \A v \in frames'[1] : Final(v)' = {}
        BY <3>1, <3>3
      <3>7. QED
        BY <2>1, <3>5, <3>6 DEF FramesStep, Steps
    <2>5. LoopsFree'
      <3>1. Loops' = Loops
        BY <1>0 DEF Loops
      <3>2. ASSUME NEW t \in Loops, NEW j \in 1 .. Len(frames) + 1
            PROVE  ~ Blocks(frames'[j], t.on)
        <4>1. CASE j \in 1 .. Len(frames)
          BY <2>2, <4>1 DEF IInv, LoopsFree
        <4>2. CASE j = Len(frames) + 1
          BY <2>2, <4>2 DEF IInv, LoopsFree
        <4>3. QED
          BY <1>0, <4>1, <4>2
      <3>3. QED
        BY <2>1, <2>2, <3>1, <3>2 DEF LoopsFree, Blocks
    <2>6. GoalBlocked'
      <3>1. ASSUME NEW j \in 1 .. Len(frames) + 1
            PROVE  Blocks(frames'[j], problem.goal)
        <4>1. CASE j \in 1 .. Len(frames)
          BY <2>2, <4>1 DEF IInv, GoalBlocked
        <4>2. CASE j = Len(frames) + 1
          BY <1>0, <2>2, <4>2 DEF IInv, GoalBlocked
        <4>3. QED
          BY <1>0, <4>1, <4>2
      <3>2. QED
        BY <1>0, <2>1, <2>2, <3>1 DEF GoalBlocked, Blocks
    <2>7. StackLinked'
      BY <1>0, <2>1 DEF StackLinked
    <2>8. QED
      BY <2>1, <2>3, <2>4, <2>5, <2>6, <2>7
         DEF IInv, CoreNeverEmpty, SatIsRight, UnsatIsRight
  <1>3. QED
    BY <1>1, <1>2

\* A step that changes nothing.
LEMMA StutterIInv == IInv /\ UNCHANGED vars => IInv'
  <1> SUFFICES ASSUME IInv, UNCHANGED vars PROVE IInv'
    OBVIOUS
  <1> USE DEF vars
  <1>1. TypeOK' /\ CoreNeverEmpty'
    BY DEF IInv, TypeOK, CoreNeverEmpty
  <1>2. FramesStep'
    BY DEF IInv, FramesStep, Final, Steps
  <1>3. LoopsFree' /\ GoalBlocked' /\ StackLinked'
    BY DEF IInv, LoopsFree, GoalBlocked, StackLinked, Loops
  <1>4. SatIsRight'
    BY DEF IInv, SatIsRight
  <1>5. UnsatIsRight'
    <2>1. \A i : BlockedBelow(i)' = BlockedBelow(i)
      BY DEF BlockedBelow
    <2>2. \A I : Certifies(I)' <=> Certifies(I)
      BY DEF Certifies
    <2>3. HoldsGoal' = HoldsGoal
      BY DEF HoldsGoal
    <2>4. QED
      BY <2>1, <2>2, <2>3 DEF IInv, UnsatIsRight, Certifies
  <1>6. QED
    BY <1>1, <1>2, <1>3, <1>4, <1>5 DEF IInv

\* Every step preserves the invariant.
LEMMA NextIInv == IInv /\ [Next]_vars => IInv'
  BY OnceIInv, StepIInv, FailIInv, LastStateIInv, InvariantIInv, StutterIInv
     DEF Next, Terminated

\* The invariant holds in every reachable state.
THEOREM Invariance == Spec => []IInv
  BY InitIInv, NextIInv, PTL DEF Spec

\* The variables of car_check keep their types, and the depth of the recursion
\* matches the number of frames.
THEOREM TypeCorrect == Spec => []TypeOK
  <1>1. IInv => TypeOK
    BY DEF IInv
  <1>2. QED
    BY <1>1, Invariance, PTL

\* Each UC in frames_ is refuted by the frame below it.
THEOREM FramesAreSteps == Spec => []FramesStep
  <1>1. IInv => FramesStep
    BY DEF IInv
  <1>2. QED
    BY <1>1, Invariance, PTL

\* assert(!res.empty()) in get_selected_uc never fails.
THEOREM NeverAborts == Spec => []CoreNeverEmpty
  <1>1. IInv => CoreNeverEmpty
    BY DEF IInv
  <1>2. QED
    BY <1>1, Invariance, PTL

\* The answer sat is right: a trace starts at the goal.
THEOREM SatSound == Spec => []SatIsRight
  <1>1. IInv => SatIsRight
    BY DEF IInv
  <1>2. QED
    BY <1>1, Invariance, PTL

\* The answer unsat is right: the frames hold a set of states that contains
\* the goal and no last state and that no step leaves.
THEOREM UnsatSound == Spec => []UnsatIsRight
  <1>1. IInv => UnsatIsRight
    BY DEF IInv
  <1>2. QED
    BY <1>1, Invariance, PTL

------------------------------------------------------------------------------
(* What the frames say of traces. *)

\* tmp_frame_ follows a frame, and the search ends on the lowest one.
Depth ==
  /\ frames = <<>> => tmp = {}
  /\ pc = "sat" => Len(stack) <= Len(frames)

LEMMA NextDepth == IInv /\ Depth /\ [Next]_vars => Depth'
  <1> SUFFICES ASSUME IInv, Depth, [Next]_vars PROVE Depth'
    OBVIOUS
  <1>0. TypeOK /\ frames \in Seq(SUBSET SUBSET Lits) /\ Len(frames) \in Nat
        /\ (Len(frames) # 0 => frames # <<>>)
    BY DEF IInv, TypeOK
  <1>1. CASE Once
    <2>1. tmp' = {} /\ frames = <<>> /\ stack = <<>>
      BY <1>1 DEF Once, IInv
    <2>2. ASSUME pc' = "sat" PROVE Len(stack') <= Len(frames')
      <3>1. frames' = frames /\ stack' = stack
        BY <1>1, <2>2 DEF Once
      <3>2. QED
        BY <2>1, <3>1
    <2>3. QED
      BY <2>1, <2>2 DEF Depth
  <1>2. CASE Step
    <2>1. frames' = frames /\ tmp' = tmp /\ pc' # "sat"
      BY <1>2 DEF Step
    <2>2. QED
      BY <2>1 DEF Depth
  <1>3. CASE Fail
    <2>1. pc' # "sat" /\ Len(stack) \in 1 .. Len(frames) /\ frames # <<>>
      BY <1>0, <1>3 DEF Fail, TypeOK
    <2>2. frames' # <<>> \/ (tmp' = tmp /\ frames' = frames)
      <3>1. PICK u \in StepCores(Last(stack), frames[Level(Len(stack)) + 1]) :
              \/ UNCHANGED <<frames, tmp>>
              \/ AddFrameElement(Level(Len(stack)) + 1, u)
        BY <1>3 DEF Fail
      <3>2. CASE AddFrameElement(Level(Len(stack)) + 1, u)
        <4>1. frames' = frames
              \/ \E k, F : frames' = [frames EXCEPT ![k] = F]
          BY <3>2 DEF AddFrameElement
        <4>2. DOMAIN frames' = DOMAIN frames
          BY <4>1
        <4>3. 1 \in DOMAIN frames
          BY <1>0, <2>1
        <4>4. QED
          BY <4>2, <4>3
      <3>3. QED
        BY <3>1, <3>2
    <2>3. QED
      BY <2>1, <2>2 DEF Depth
  <1>4. CASE LastState
    <2>1. Len(stack) = Len(frames) /\ Len(frames) # 0 /\ stack' = stack
      BY <1>0, <1>4 DEF LastState, TypeOK
    <2>2. \/ frames' = frames /\ tmp' = tmp
          \/ pc' # "sat" /\ \E u : AddFrameElement(0, u)
      BY <1>4 DEF LastState
    <2>3. CASE \E u : AddFrameElement(0, u)
      <3>1. frames' = frames
            \/ \E k, F : frames' = [frames EXCEPT ![k] = F]
        BY <2>3 DEF AddFrameElement
      <3>2. DOMAIN frames' = DOMAIN frames /\ 1 \in DOMAIN frames
        BY <1>0, <2>1, <3>1
      <3>3. frames' # <<>>
        BY <3>2
      <3>4. pc' # "sat" \/ (frames' = frames /\ tmp' = tmp)
        BY <2>2
      <3>5. QED
        BY <1>0, <2>1, <3>3, <3>4 DEF Depth
    <2>4. CASE frames' = frames /\ tmp' = tmp
      BY <1>0, <2>1, <2>4 DEF Depth
    <2>5. QED
      BY <2>2, <2>3, <2>4
  <1>5. CASE Invariant
    <2>1. pc' # "sat" /\ (frames' = Append(frames, tmp) \/ (frames' = frames /\ tmp' = tmp))
      BY <1>5 DEF Invariant
    <2>2. tmp \in SUBSET SUBSET Lits
      BY <1>0 DEF TypeOK
    <2>3. ASSUME frames' = Append(frames, tmp) PROVE frames' # <<>>
      <3>1. Len(frames') = Len(frames) + 1
        BY <1>0, <2>2, <2>3
      <3>2. QED
        BY <1>0, <3>1
    <2>4. QED
      BY <2>1, <2>3 DEF Depth
  <1>6. CASE UNCHANGED vars
    BY <1>6 DEF vars, Depth
  <1>7. QED
    BY <1>1, <1>2, <1>3, <1>4, <1>5, <1>6 DEF Next, Terminated

\* Every UC is one step from the frame below it, and so, by induction over the
\* frames, no path of the frame's length starts where a frame blocks.
LEMMA StepsMakeExact ==
  ASSUME IInv, Depth
  PROVE  FramesExact
  <1> DEFINE M == problem.models
             T == {k \in Nat : k + 1 \in DOMAIN frames =>
                                 \A u \in frames[k + 1] : ~ HasTrace(u, k)}
  <1>0. /\ frames \in Seq(SUBSET SUBSET Lits) /\ Len(frames) \in Nat
        /\ DOMAIN frames = 1 .. Len(frames)
    BY DEF IInv, TypeOK
  <1>1. Starts(M)[0] = {m \in M : m.tail}
    BY StartsUnrolled
  <1>2. \A k \in Nat : Starts(M)[k + 1] = Before(M, Starts(M)[k])
    BY StartsStep
  <1> HIDE DEF M
  \* one step more than the paths that the frame below excludes
  <1>3. ASSUME NEW k \in Nat, NEW F, \A v \in F : ~ HasTrace(v, k),
               NEW u, Steps(u, F) = {}
        PROVE  ~ HasTrace(u, k + 1)
    <2>1. SUFFICES ASSUME NEW m \in Starts(M)[k + 1], u \subseteq m.on PROVE FALSE
      BY DEF HasTrace, M
    <2>2. m \in M /\ \E n \in Starts(M)[k] : m.nx \subseteq n.on
      BY <1>2, <2>1 DEF Before
    <2>3. PICK n \in Starts(M)[k] : m.nx \subseteq n.on
      BY <2>2
    <2>4. Blocks(F, m.nx)
      BY <1>3, <2>1, <2>2 DEF Steps, M
    <2>5. PICK v \in F : v \subseteq m.nx
      BY <2>4 DEF Blocks
    <2>6. HasTrace(v, k)
      BY <2>3, <2>5 DEF HasTrace, M
    <2>7. QED
      BY <1>3, <2>5, <2>6
  <1>4. 0 \in T
    <2>1. ASSUME 1 \in DOMAIN frames, NEW u \in frames[1] PROVE ~ HasTrace(u, 0)
      <3>1. frames # <<>>
        BY <2>1
      <3>2. Final(u) = {}
        BY <2>1, <3>1 DEF IInv, FramesStep
      <3>3. QED
        BY <1>1, <3>2 DEF HasTrace, Final, M
    <2>2. QED
      BY <2>1
  <1>5. ASSUME NEW k \in Nat, k \in T PROVE k + 1 \in T
    <2>1. SUFFICES ASSUME (k + 1) + 1 \in DOMAIN frames, NEW u \in frames[(k + 1) + 1]
                   PROVE  ~ HasTrace(u, k + 1)
      OBVIOUS
    <2>2. k + 1 \in DOMAIN frames /\ ((k + 1) + 1) - 1 = k + 1 /\ (k + 1) + 1 # 1
      BY <1>0, <2>1
    <2>3. Steps(u, frames[((k + 1) + 1) - 1]) = {}
      BY <2>1, <2>2 DEF IInv, FramesStep
    <2>4. Steps(u, frames[k + 1]) = {} /\ \A v \in frames[k + 1] : ~ HasTrace(v, k)
      BY <1>5, <2>2, <2>3
    <2>5. QED
      BY <1>3, <2>4
  <1>6. \A k \in Nat : k \in T
    <2> HIDE DEF T
    <2>1. QED
      BY <1>4, <1>5, AllNumbers
  <1>7. ASSUME NEW j \in DOMAIN frames, NEW u \in frames[j] PROVE ~ HasTrace(u, j - 1)
    <2>1. j - 1 \in Nat /\ (j - 1) + 1 = j
      BY <1>0
    <2>2. QED
      BY <1>6, <2>1
  <1>8. ASSUME NEW u \in tmp PROVE ~ HasTrace(u, Len(frames))
    <2>1. Len(frames) - 1 \in Nat /\ (Len(frames) - 1) + 1 = Len(frames)
          /\ Len(frames) \in DOMAIN frames
      BY <1>0 DEF Depth
    <2>2. \A v \in frames[Len(frames)] : ~ HasTrace(v, Len(frames) - 1)
      BY <1>7, <2>1
    <2>3. Steps(u, frames[Len(frames)]) = {}
      BY DEF IInv, FramesStep
    <2>4. ~ HasTrace(u, (Len(frames) - 1) + 1)
      BY <1>3, <2>1, <2>2, <2>3
    <2>5. QED
      BY <2>1, <2>4
  <1>9. QED
    BY <1>7, <1>8 DEF FramesExact

\* Every frame blocks the goal, so no path of a length that a frame stands for
\* starts there.
LEMMA FramesRefuteGoal ==
  ASSUME IInv, Depth
  PROVE  ShortestFirst
  <1>1. SUFFICES ASSUME pc = "sat", NEW k \in 0 .. Len(stack) - 1
                 PROVE  ~ HasTrace(problem.goal, k)
    BY DEF ShortestFirst, IInv
  <1>2. Len(stack) \in Nat /\ Len(frames) \in Nat /\ DOMAIN frames = 1 .. Len(frames)
    BY DEF IInv, TypeOK
  <1>3. k + 1 \in DOMAIN frames /\ (k + 1) - 1 = k
    BY <1>1, <1>2 DEF Depth
  <1>4. PICK u \in frames[k + 1] : u \subseteq problem.goal
    BY <1>3 DEF IInv, GoalBlocked, Blocks
  <1>5. ~ HasTrace(u, (k + 1) - 1)
    BY <1>3, StepsMakeExact DEF FramesExact
  <1>6. QED
    BY <1>3, <1>4, <1>5 DEF HasTrace

LEMMA DepthInvariance == Spec => [](IInv /\ Depth)
  <1>1. Init => Depth
    BY DEF Init, Depth
  <1>2. QED
    BY <1>1, InitIInv, NextIInv, NextDepth, PTL DEF Spec

\* No path of exactly j + 1 states to a last one starts where frames_[j] blocks:
\* what the search has learnt is never more than what is true.
THEOREM FramesAreExact == Spec => []FramesExact
  BY DepthInvariance, StepsMakeExact, PTL

\* The answer sat is given at the depth of a shortest trace: one that is no longer
\* than the search is deep leads from the goal to a last state, and none with fewer
\* states.
THEOREM FindsShortest == Spec => []ShortestFirst
  BY DepthInvariance, FramesRefuteGoal, PTL

------------------------------------------------------------------------------
(* The search is finite. *)

\* The assignments that the first i frames block.
BlockedWorlds(i) == {s \in problem.worlds : \A j \in 1 .. i : Blocks(frames[j], s)}

\* As long as no invariant is found, each frame leaves free an assignment that the
\* frames below it block, and the last state that can follow itself is free anyway.
LEMMA FramesUntilInvariant ==
  ASSUME IInv, Len(frames) >= 1, \A i \in 1 .. Len(frames) - 1 : ~ InvFoundAt(i)
  PROVE  Len(frames) <= Cardinality(problem.worlds)
  <1>1. PICK n : n = Len(frames)
    OBVIOUS
  <1>2. n \in Nat \ {0}
    BY <1>1 DEF IInv, TypeOK
  <1>3. IsFiniteSet(problem.worlds)
    <2>1. IsFiniteSet(Lits) /\ problem.worlds \in SUBSET SUBSET Lits
      BY LoopExists DEF IInv
    <2>2. IsFiniteSet(SUBSET Lits)
      BY <2>1, FS_SUBSET
    <2>3. QED
      BY <2>1, <2>2, FS_Subset
  <1>4. \A i : /\ BlockedWorlds(i) \in SUBSET problem.worlds
               /\ IsFiniteSet(BlockedWorlds(i)) /\ Cardinality(BlockedWorlds(i)) \in Nat
    <2>1. ASSUME NEW i PROVE BlockedWorlds(i) \in SUBSET problem.worlds
      BY DEF BlockedWorlds
    <2>2. QED
      BY <1>3, <2>1, FS_Subset, FS_CardinalityType
  <1>5. ASSUME NEW i \in 1 .. n - 1
        PROVE  Cardinality(BlockedWorlds(i + 1)) + 1 <= Cardinality(BlockedWorlds(i))
    <2>1. PICK s \in problem.worlds : /\ \A j \in 1 .. i : Blocks(frames[j], s)
                                      /\ ~ Blocks(frames[i + 1], s)
      BY <1>1 DEF InvFoundAt
    <2>2. s \in BlockedWorlds(i) /\ s \notin BlockedWorlds(i + 1)
      <3>1. i + 1 \in 1 .. i + 1
        BY <1>2
      <3>2. QED
        BY <2>1, <3>1 DEF BlockedWorlds
    <2>3. BlockedWorlds(i + 1) \subseteq BlockedWorlds(i)
      <3>1. 1 .. i \subseteq 1 .. i + 1
        BY <1>2
      <3>2. QED
        BY <3>1 DEF BlockedWorlds
    <2>4. /\ Cardinality(BlockedWorlds(i + 1)) <= Cardinality(BlockedWorlds(i))
          /\ Cardinality(BlockedWorlds(i + 1)) # Cardinality(BlockedWorlds(i))
      BY <1>4, <2>2, <2>3, FS_Subset
    <2>5. QED
      BY <1>4, <2>4
  <1> DEFINE T == {k \in Nat : k + 1 <= n =>
                     Cardinality(BlockedWorlds(k + 1)) + k <= Cardinality(BlockedWorlds(1))}
  <1>6. 0 \in T
    BY <1>4
  <1>7. ASSUME NEW k \in Nat, k \in T PROVE k + 1 \in T
    <2>1. SUFFICES ASSUME (k + 1) + 1 <= n
                   PROVE  Cardinality(BlockedWorlds((k + 1) + 1)) + (k + 1)
                            <= Cardinality(BlockedWorlds(1))
      OBVIOUS
    <2>2. k + 1 \in 1 .. n - 1 /\ k + 1 <= n
      BY <1>2, <2>1
    <2>3. Cardinality(BlockedWorlds((k + 1) + 1)) + 1 <= Cardinality(BlockedWorlds(k + 1))
      BY <1>5, <2>2
    <2>4. Cardinality(BlockedWorlds(k + 1)) + k <= Cardinality(BlockedWorlds(1))
      BY <1>7, <2>2
    <2>5. /\ Cardinality(BlockedWorlds((k + 1) + 1)) \in Nat
          /\ Cardinality(BlockedWorlds(k + 1)) \in Nat
          /\ Cardinality(BlockedWorlds(1)) \in Nat
      BY <1>4
    <2>6. QED
      BY <2>3, <2>4, <2>5
  <1>8. \A k \in Nat : k \in T
    <2> HIDE DEF T
    <2>1. QED
      BY <1>6, <1>7, AllNumbers
  <1>9. n - 1 <= Cardinality(BlockedWorlds(1))
    <2>1. n - 1 \in Nat /\ (n - 1) + 1 = n
      BY <1>2
    <2>2. Cardinality(BlockedWorlds(n)) + (n - 1) <= Cardinality(BlockedWorlds(1))
      BY <1>8, <2>1
    <2>3. Cardinality(BlockedWorlds(n)) \in Nat /\ Cardinality(BlockedWorlds(1)) \in Nat
      BY <1>4
    <2>4. QED
      BY <1>2, <2>2, <2>3
  <1>10. Cardinality(BlockedWorlds(1)) < Cardinality(problem.worlds)
    <2>1. PICK t \in problem.models : t \in Loops
      BY LoopExists DEF IInv
    <2>2. t.on \in problem.worlds
      BY <2>1 DEF IInv, TypeOK, IsEncoding
    <2>3. 1 \in DOMAIN frames
      BY <1>1, <1>2 DEF IInv, TypeOK
    <2>4. ~ Blocks(frames[1], t.on)
      BY <2>1, <2>3 DEF IInv, LoopsFree
    <2>5. t.on \notin BlockedWorlds(1)
      BY <2>4 DEF BlockedWorlds
    <2>6. /\ Cardinality(BlockedWorlds(1)) <= Cardinality(problem.worlds)
          /\ Cardinality(BlockedWorlds(1)) # Cardinality(problem.worlds)
      BY <1>3, <1>4, <2>2, <2>5, FS_Subset
    <2>7. Cardinality(problem.worlds) \in Nat /\ Cardinality(BlockedWorlds(1)) \in Nat
      BY <1>3, <1>4, FS_CardinalityType
    <2>8. QED
      BY <2>6, <2>7
  <1>11. Cardinality(problem.worlds) \in Nat /\ Cardinality(BlockedWorlds(1)) \in Nat
    BY <1>3, <1>4, FS_CardinalityType
  <1>12. QED
    BY <1>1, <1>2, <1>9, <1>10, <1>11

\* No formula that is still searched from is blocked where its UC will go, nor is the
\* goal in tmp_frame_ before its call returns.
Fresh ==
  /\ pc \in {"solve", "final"} =>
       /\ tmp = {}
       /\ \A d \in 2 .. Len(stack) : ~ Blocks(frames[Level(d) + 2], stack[d])
  /\ pc = "final" => ~ Blocks(frames[1], next)
  /\ pc = "inv" => tmp # {} /\ stack = <<>>

LEMMA InitFresh == Init => Fresh /\ FramesBounded
  <1> SUFFICES ASSUME Init PROVE Fresh /\ FramesBounded
    OBVIOUS
  <1>1. Fresh
    BY DEF Init, Fresh
  <1>2. IsFiniteSet(problem.worlds)
    <2>1. IsFiniteSet(SUBSET Lits)
      BY LitsAssumption, FS_SUBSET
    <2>2. problem.worlds \in SUBSET SUBSET Lits
      BY LoopExists, InitIInv DEF IInv
    <2>3. QED
      BY <2>1, <2>2, FS_Subset
  <1>3. Cardinality(problem.worlds) \in Nat /\ Len(frames) = 0
    BY <1>2, FS_CardinalityType DEF Init
  <1>4. FramesBounded
    BY <1>3 DEF FramesBounded
  <1>5. QED
    BY <1>1, <1>4

LEMMA StepFresh == IInv /\ Fresh /\ Step => Fresh'
  <1> SUFFICES ASSUME IInv, Fresh, Step PROVE Fresh'
    OBVIOUS
  <1>1. PICK n, l : n = Len(frames) /\ l = Len(stack)
    OBVIOUS
  <1>2. /\ pc = "solve" /\ UNCHANGED <<problem, frames, tmp>> /\ tmp = {}
        /\ stack \in Seq(SUBSET Lits) /\ n \in Nat /\ l \in 1 .. n
    BY <1>1 DEF IInv, TypeOK, Step, Fresh
  <1>3. PICK m \in Steps(Last(stack), frames[Level(l) + 1]) :
          IF Level(l) = 0
          THEN next' = m.nx /\ pc' = "final" /\ UNCHANGED stack
          ELSE Descend(m) /\ UNCHANGED pc
    BY <1>1 DEF Step
  <1>4. ~ Blocks(frames[Level(l) + 1], m.nx) /\ m.nx \in SUBSET Lits
    BY <1>3, LoopExists DEF Steps, IInv, Models
  <1>5. Level(l) = n - l
    BY <1>1 DEF Level
  <1>6. \A d \in 2 .. l : ~ Blocks(frames[Level(d) + 2], stack[d])
    BY <1>1, <1>2 DEF Fresh
  <1>7. CASE Level(l) = 0
    <2>1. next' = m.nx /\ pc' = "final" /\ stack' = stack
      BY <1>3, <1>7
    <2>2. ~ Blocks(frames[1], m.nx)
      BY <1>4, <1>7
    <2>3. QED
      BY <1>1, <1>2, <1>6, <2>1, <2>2 DEF Fresh, Blocks, Level
  <1>8. CASE Level(l) # 0
    <2>1. stack' = Append(stack, m.nx) /\ pc' = "solve"
      BY <1>2, <1>3, <1>8 DEF Descend
    <2>2. /\ Len(stack') = l + 1 /\ stack'[l + 1] = m.nx
          /\ \A d \in 1 .. l : stack'[d] = stack[d]
      BY <1>1, <1>2, <1>4, <2>1
    <2>3. ASSUME NEW d \in 2 .. l + 1
          PROVE  ~ Blocks(frames[Level(d) + 2], stack'[d])
      <3>1. CASE d = l + 1
        <4>1. Level(d) = n - d /\ n - (l + 1) + 2 = n - l + 1
          BY <1>1, <1>2 DEF Level
        <4>2. Level(d) + 2 = Level(l) + 1
          BY <1>5, <3>1, <4>1
        <4>3. QED
          BY <1>4, <2>2, <3>1, <4>2
      <3>2. CASE d \in 2 .. l
        <4>1. stack'[d] = stack[d]
          BY <1>2, <2>2, <3>2
        <4>2. QED
          BY <1>6, <3>2, <4>1
      <3>3. QED
        BY <1>2, <3>1, <3>2
    <2>4. QED
      BY <1>2, <2>1, <2>2, <2>3 DEF Fresh, Blocks, Level
  <1>9. QED
    BY <1>7, <1>8

\* What a call that fails does: its UC is new to the frame above it, or it is the
\* call for the goal and the UC goes to tmp_frame_.
LEMMA FailAdds ==
  ASSUME IInv, Fresh, Fail
  PROVE  \E u \in SUBSET Lits :
           /\ Len(stack) \in 1 .. Len(frames) /\ stack' = Front(stack)
           /\ stack' \in Seq(SUBSET Lits) /\ Len(stack') = Len(stack) - 1
           /\ \A i \in 1 .. Len(stack) - 1 : stack'[i] = stack[i]
           /\ pc = "solve" /\ problem' = problem
           /\ AddFrameElement(Level(Len(stack)) + 1, u)
           /\ Level(Len(stack)) + 1 \in 1 .. Len(frames)
           /\ Len(stack) = 1 =>
                pc' = "inv" /\ tmp' # {} /\ frames' = frames
           /\ Len(stack) # 1 =>
                /\ pc' = "solve" /\ Level(Len(stack)) + 1 < Len(frames)
                /\ u \notin frames[Level(Len(stack)) + 2]
  <1>1. PICK n, l : n = Len(frames) /\ l = Len(stack)
    OBVIOUS
  <1>2. /\ pc = "solve" /\ problem' = problem
        /\ stack \in Seq(SUBSET Lits) /\ n \in Nat /\ l \in 1 .. n /\ stack # <<>>
        /\ frames \in Seq(SUBSET SUBSET Lits)
    BY <1>1 DEF IInv, TypeOK, Fail, StackLinked
  <1>3. PICK u \in StepCores(Last(stack), frames[Level(l) + 1]) :
          IF u = {}
          THEN pc' = "abort" /\ UNCHANGED <<frames, tmp, stack, evidence>>
          ELSE /\ AddFrameElement(Level(l) + 1, u)
               /\ stack' = Front(stack)
               /\ IF l = 1
                  THEN pc' = "inv" /\ UNCHANGED evidence
                  ELSE evidence' = Front(evidence) /\ UNCHANGED pc
    BY <1>1 DEF Fail
  <1>4. CoreNeverEmpty'
    BY FailIInv DEF IInv
  <1>5. /\ AddFrameElement(Level(l) + 1, u) /\ stack' = Front(stack)
        /\ IF l = 1 THEN pc' = "inv" ELSE pc' = pc
    BY <1>3, <1>4 DEF CoreNeverEmpty
  <1>6. Level(l) = n - l /\ n - l + 1 \in 1 .. n /\ (l # 1 => n - l + 1 < n)
        /\ (l = 1 => n - l + 1 = n)
    BY <1>1, <1>2 DEF Level
  <1>7. u \subseteq stack[l] /\ stack[l] \in SUBSET Lits /\ u \in SUBSET Lits
    BY <1>1, <1>2, <1>3 DEF StepCores, Last
  <1>8. /\ stack' \in Seq(SUBSET Lits) /\ Len(stack') = l - 1
        /\ \A i \in 1 .. l - 1 : stack'[i] = stack[i]
    BY <1>1, <1>2, <1>5, AllButLast DEF Front
  <1>9. ASSUME l = 1 PROVE tmp' # {} /\ frames' = frames
    <2>1. Level(l) + 1 = Len(frames)
      BY <1>1, <1>6, <1>9
    <2>2. tmp' = tmp \cup {u} /\ frames' = frames
      BY <1>5, <2>1 DEF AddFrameElement
    <2>3. QED
      BY <2>2
  <1>10. ASSUME l # 1 PROVE u \notin frames[Level(l) + 2]
    <2>1. ~ Blocks(frames[Level(l) + 2], stack[l])
      <3>1. l \in 2 .. l
        BY <1>2, <1>10
      <3>2. QED
        BY <1>1, <1>2, <3>1 DEF Fresh
    <2>2. QED
      BY <1>7, <2>1 DEF Blocks
  <1>11. QED
    BY <1>1, <1>2, <1>5, <1>6, <1>7, <1>8, <1>9, <1>10

LEMMA FailFresh == IInv /\ Fresh /\ Fail => Fresh'
  <1> SUFFICES ASSUME IInv, Fresh, Fail PROVE Fresh'
    OBVIOUS
  <1>1. PICK n, l : n = Len(frames) /\ l = Len(stack)
    OBVIOUS
  <1>2. PICK u \in SUBSET Lits :
           /\ l \in 1 .. n
           /\ stack' \in Seq(SUBSET Lits) /\ Len(stack') = l - 1
           /\ \A i \in 1 .. l - 1 : stack'[i] = stack[i]
           /\ pc = "solve" /\ problem' = problem
           /\ AddFrameElement(Level(l) + 1, u)
           /\ Level(l) + 1 \in 1 .. n
           /\ l = 1 => pc' = "inv" /\ tmp' # {} /\ frames' = frames
           /\ l # 1 => pc' = "solve" /\ Level(l) + 1 < n
    BY <1>1, FailAdds
  <1>3. CASE l = 1
    <2>1. stack' = <<>>
      BY <1>2, <1>3, EmptySeq
    <2>2. QED
      BY <1>2, <1>3, <2>1 DEF Fresh
  <1>4. CASE l # 1
    <2>1. /\ Len(frames') = n /\ tmp' = tmp
          /\ \A j \in DOMAIN frames : j # Level(l) + 2 => frames'[j] = frames[j]
      <3>1. Level(l) + 1 \in 0 .. Len(frames) /\ Level(l) + 1 # Len(frames)
            /\ (Level(l) + 1) + 1 = Level(l) + 2
        BY <1>1, <1>2, <1>4 DEF Level, IInv, TypeOK
      <3>2. /\ Len(frames') = Len(frames) /\ tmp' = tmp
            /\ \A j \in DOMAIN frames : j # (Level(l) + 1) + 1 => frames'[j] = frames[j]
        BY <1>2, <3>1, FramesGrow DEF IInv
      <3>3. QED
        BY <1>1, <3>1, <3>2
    <2>2. n \in Nat /\ DOMAIN frames = 1 .. n /\ Level(l) = n - l
      BY <1>1 DEF IInv, TypeOK, Level
    <2>3. ASSUME NEW d \in 2 .. l - 1
          PROVE  ~ Blocks(frames'[(n - d) + 2], stack'[d])
      <3>1. (n - d) + 2 \in 1 .. n /\ (n - d) + 2 # (n - l) + 2 /\ d \in 2 .. l
            /\ d \in 1 .. l - 1
        BY <1>2, <2>2
      <3>2. frames'[(n - d) + 2] = frames[(n - d) + 2] /\ stack'[d] = stack[d]
        BY <1>2, <2>1, <2>2, <3>1
      <3>3. ~ Blocks(frames[Level(d) + 2], stack[d])
        BY <1>1, <1>2, <3>1 DEF Fresh
      <3>4. Level(d) = n - d
        BY <1>1 DEF Level
      <3>5. QED
        BY <3>2, <3>3, <3>4
    <2>4. tmp' = {}
      BY <1>2, <2>1 DEF Fresh
    <2>5. \A d \in 2 .. Len(stack') : ~ Blocks(frames'[Len(frames') - d + 2], stack'[d])
      BY <1>2, <2>1, <2>3
    <2>6. QED
      BY <1>2, <1>4, <2>4, <2>5 DEF Fresh, Level, Blocks
  <1>5. QED
    BY <1>3, <1>4

\* What a failed test of a last state does.
LEMMA LastStateAdds ==
  ASSUME IInv, Fresh, LastState
  PROVE  /\ pc = "final" /\ stack' = stack /\ problem' = problem
         /\ Len(stack) = Len(frames) /\ Len(stack) \in Nat \ {0}
         /\ \/ pc' = "sat" /\ UNCHANGED <<frames, tmp>>
            \/ /\ pc' = "solve"
               /\ \E u \in SUBSET Lits : AddFrameElement(0, u) /\ u \notin frames[1]
  <1>1. /\ pc = "final" /\ stack' = stack /\ problem' = problem /\ next \in SUBSET Lits
        /\ Len(stack) = Len(frames) /\ Len(stack) \in Nat \ {0}
    BY DEF IInv, TypeOK, LastState
  <1>2. CASE pc' = "sat" /\ UNCHANGED <<frames, tmp>>
    BY <1>1, <1>2
  <1>3. CASE \E u \in FinalCores(next) :
               IF u = {} THEN pc' = "abort" /\ UNCHANGED <<frames, tmp>>
                         ELSE pc' = "solve" /\ AddFrameElement(0, u)
    <2>1. PICK u \in FinalCores(next) :
             IF u = {} THEN pc' = "abort" /\ UNCHANGED <<frames, tmp>>
                       ELSE pc' = "solve" /\ AddFrameElement(0, u)
      BY <1>3
    <2>2. CoreNeverEmpty'
      BY LastStateIInv DEF IInv
    <2>3. pc' = "solve" /\ AddFrameElement(0, u)
      BY <2>1, <2>2 DEF CoreNeverEmpty
    <2>4. u \subseteq next /\ u \in SUBSET Lits
      BY <1>1, <2>1 DEF FinalCores
    <2>5. u \notin frames[1]
      BY <1>1, <2>4 DEF Fresh, Blocks
    <2>6. QED
      BY <1>1, <2>3, <2>4, <2>5
  <1>4. QED
    BY <1>2, <1>3 DEF LastState

LEMMA LastStateFresh == IInv /\ Fresh /\ LastState => Fresh'
  <1> SUFFICES ASSUME IInv, Fresh, LastState PROVE Fresh'
    OBVIOUS
  <1>1. /\ pc = "final" /\ stack' = stack
        /\ Len(stack) = Len(frames) /\ Len(stack) \in Nat \ {0}
    BY LastStateAdds
  <1>2. CASE pc' = "sat"
    BY <1>2 DEF Fresh
  <1>3. CASE pc' = "solve" /\ \E u \in SUBSET Lits : AddFrameElement(0, u)
    <2>1. PICK u \in SUBSET Lits : AddFrameElement(0, u)
      BY <1>3
    <2>2. 0 \in 0 .. Len(frames) /\ 0 # Len(frames) /\ 0 + 1 = 1
      BY <1>1
    <2>3. /\ Len(frames') = Len(frames) /\ tmp' = tmp
          /\ \A j \in DOMAIN frames : j # 1 => frames'[j] = frames[j]
      BY <2>1, <2>2, FramesGrow DEF IInv
    <2>4. DOMAIN frames = 1 .. Len(frames)
      BY DEF IInv, TypeOK
    <2>5. ASSUME NEW d \in 2 .. Len(stack)
          PROVE  ~ Blocks(frames'[Len(frames) - d + 2], stack[d])
      <3>1. Len(frames) - d + 2 \in 1 .. Len(frames) /\ Len(frames) - d + 2 # 1
        BY <1>1
      <3>2. ~ Blocks(frames[Level(d) + 2], stack[d])
        BY <1>1 DEF Fresh
      <3>3. QED
        BY <2>3, <2>4, <3>1, <3>2 DEF Level
    <2>6. tmp' = {}
      BY <1>1, <2>3 DEF Fresh
    <2>7. QED
      BY <1>1, <1>3, <2>3, <2>5, <2>6 DEF Fresh, Level, Blocks
  <1>4. QED
    BY <1>2, <1>3, LastStateAdds

\* Each step that does not end the search leaves the UCs fresh and the frames bounded.
LEMMA NextFresh ==
  IInv /\ Fresh /\ FramesBounded /\ [Next]_vars => Fresh' /\ FramesBounded'
  <1> SUFFICES ASSUME IInv, Fresh, FramesBounded, [Next]_vars
               PROVE  Fresh' /\ FramesBounded'
    OBVIOUS
  <1>1. CASE Once
    <2>1. /\ UNCHANGED <<problem, tmp>> /\ tmp = {} /\ frames = <<>>
          /\ \/ pc' \in {"sat", "unsat", "abort"} /\ frames' = frames
             \/ \E u : frames' = <<{u}>> /\ stack' = <<problem.goal>> /\ pc' = "solve"
      BY <1>1 DEF Once, IInv
    <2>2. Fresh'
      <3>1. CASE pc' \in {"sat", "unsat", "abort"}
        BY <3>1 DEF Fresh
      <3>2. CASE stack' = <<problem.goal>> /\ pc' = "solve"
        <4>1. Len(stack') = 1 /\ 2 .. 1 = {}
          BY <3>2
        <4>2. QED
          BY <2>1, <3>2, <4>1 DEF Fresh
      <3>3. QED
        BY <2>1, <3>1, <3>2
    <2>3. Cardinality(problem.worlds) \in Nat
      <3>1. IsFiniteSet(SUBSET Lits)
        BY LitsAssumption, FS_SUBSET
      <3>2. problem.worlds \in SUBSET SUBSET Lits
        BY LoopExists DEF IInv
      <3>3. QED
        BY <3>1, <3>2, FS_Subset, FS_CardinalityType
    <2>4. Len(frames') \in {0, 1}
      BY <2>1
    <2>5. PICK c, n : c = Cardinality(problem.worlds) /\ n = Len(frames')
      OBVIOUS
    <2>6. n <= c + 1
      <3>1. c \in Nat /\ n \in {0, 1}
        BY <2>3, <2>4, <2>5
      <3>2. QED
        BY <3>1
    <2>7. problem' = problem
      BY <2>1
    <2>8. FramesBounded'
      BY <2>5, <2>6, <2>7 DEF FramesBounded
    <2>9. QED
      BY <2>2, <2>8
  <1>2. CASE Step
    BY <1>2, StepFresh DEF FramesBounded, Step
  <1>3. CASE Fail
    <2>1. /\ problem' = problem
          /\ \E u \in SUBSET Lits : /\ AddFrameElement(Level(Len(stack)) + 1, u)
                                    /\ Level(Len(stack)) + 1 \in 1 .. Len(frames)
      BY <1>3, FailAdds
    <2>2. Level(Len(stack)) + 1 \in 0 .. Len(frames)
      BY <2>1 DEF IInv, TypeOK
    <2>3. Len(frames') = Len(frames)
      BY <2>1, <2>2, FramesGrow DEF IInv
    <2>4. QED
      BY <1>3, <2>1, <2>3, FailFresh DEF FramesBounded
  <1>4. CASE LastState
    <2>1. problem' = problem /\ Len(frames) \in Nat
          /\ (frames' = frames \/ \E u \in SUBSET Lits : AddFrameElement(0, u))
      BY <1>4, LastStateAdds
    <2>2. 0 \in 0 .. Len(frames)
      BY <2>1
    <2>3. Len(frames') = Len(frames)
      BY <2>1, <2>2, FramesGrow DEF IInv
    <2>4. QED
      BY <1>4, <2>1, <2>3, LastStateFresh DEF FramesBounded
  <1>5. CASE Invariant
    <2>1. CASE \E i \in 1 .. Len(frames) - 1 : InvFoundAt(i)
      BY <1>5, <2>1 DEF Invariant, Fresh, FramesBounded
    <2>2. CASE ~ \E i \in 1 .. Len(frames) - 1 : InvFoundAt(i)
      <3>1. /\ pc = "inv" /\ frames' = Append(frames, tmp) /\ tmp' = {} /\ pc' = "solve"
            /\ stack' = <<problem.goal>> /\ problem' = problem
        BY <1>5, <2>2 DEF Invariant
      <3>2. frames \in Seq(SUBSET SUBSET Lits) /\ tmp \in SUBSET SUBSET Lits
            /\ Len(frames) >= 1
        BY <3>1 DEF IInv, TypeOK
      <3>3. Len(frames) <= Cardinality(problem.worlds)
        BY <2>2, <3>2, FramesUntilInvariant
      <3>4. Len(frames') = Len(frames) + 1 /\ Len(frames) \in Nat
        BY <3>1, <3>2
      <3>5. Cardinality(problem.worlds) \in Nat
        <4>1. IsFiniteSet(SUBSET Lits)
          BY LitsAssumption, FS_SUBSET
        <4>2. problem.worlds \in SUBSET SUBSET Lits
          BY LoopExists DEF IInv
        <4>3. QED
          BY <4>1, <4>2, FS_Subset, FS_CardinalityType
      <3>6. Len(frames) + 1 <= Cardinality(problem.worlds) + 1
        BY <3>3, <3>4, <3>5
      <3>7. FramesBounded'
        BY <3>1, <3>4, <3>6 DEF FramesBounded
      <3>8. Len(stack') = 1 /\ 2 .. 1 = {}
        BY <3>1
      <3>9. QED
        BY <3>1, <3>7, <3>8 DEF Fresh
    <2>3. QED
      BY <2>1, <2>2
  <1>6. CASE UNCHANGED vars
    BY <1>6 DEF vars, Fresh, FramesBounded, Blocks, Level
  <1>7. QED
    BY <1>1, <1>2, <1>3, <1>4, <1>5, <1>6 DEF Next, Terminated

LEMMA FreshInvariance == Spec => [](IInv /\ Fresh /\ FramesBounded)
  BY InitIInv, InitFresh, NextIInv, NextFresh, PTL DEF Spec

\* No more frames than assignments are built before an invariant is found, but one.
THEOREM FewFrames == Spec => []FramesBounded
  BY FreshInvariance, PTL

\* The pairs of a frame, one that exists or may still come, and a set of conjuncts
\* that is not yet one of its UCs.
Deepest == Cardinality(problem.worlds) + 1

Untried == {p \in (1 .. Deepest) \X SUBSET Lits :
              p[1] > Len(frames) \/ p[2] \notin frames[p[1]]}

\* What is left of the search: UCs to find, calls to make, and the steps of the round.
Rest ==
  CASE pc = "once"  -> 2
    [] pc = "solve" -> 3
    [] pc = "final" -> 2
    [] pc = "inv"   -> 1
    [] OTHER        -> 0

Work == 2 * Cardinality(Untried) + Deepest - Len(stack) + Rest

\* There are finitely many assignments, and finitely many pairs are untried.
LEMMA UntriedFinite ==
  ASSUME TypeOK
  PROVE  /\ IsFiniteSet(Untried) /\ Cardinality(Untried) \in Nat
         /\ Deepest \in Nat \ {0}
  <1>1. IsFiniteSet(SUBSET Lits) /\ problem.worlds \in SUBSET SUBSET Lits
    BY LoopExists, FS_SUBSET
  <1>2. Cardinality(problem.worlds) \in Nat
    BY <1>1, FS_Subset, FS_CardinalityType
  <1>3. Deepest \in Nat \ {0}
    <2>1. PICK c : c = Cardinality(problem.worlds)
      OBVIOUS
    <2>2. c \in Nat
      BY <1>2, <2>1
    <2>3. c + 1 \in Nat \ {0}
      BY <2>2
    <2>4. QED
      BY <2>1, <2>3 DEF Deepest
  <1>4. IsFiniteSet(1 .. Deepest)
    BY <1>3, FS_Interval
  <1>5. IsFiniteSet((1 .. Deepest) \X SUBSET Lits)
    BY <1>1, <1>4, FS_Product
  <1>6. Untried \in SUBSET ((1 .. Deepest) \X SUBSET Lits)
    BY DEF Untried
  <1>7. IsFiniteSet(Untried)
    BY <1>5, <1>6, FS_Subset
  <1>8. QED
    BY <1>3, <1>7, FS_CardinalityType

\* A UC that is new to its frame is one pair less that is untried.
LEMMA FewerUntried ==
  ASSUME TypeOK, TypeOK', problem' = problem,
         Len(frames) <= Len(frames'),
         \A j \in 1 .. Len(frames) : frames[j] \subseteq frames'[j],
         NEW j \in 1 .. Len(frames'), j <= Deepest, NEW u \in SUBSET Lits,
         u \in frames'[j], j > Len(frames) \/ u \notin frames[j]
  PROVE  /\ Cardinality(Untried') \in Nat
         /\ Cardinality(Untried') + 1 <= Cardinality(Untried)
  <1>1. Deepest' = Deepest
    BY DEF Deepest
  <1>2. PICK n, k : n = Len(frames) /\ k = Len(frames')
    OBVIOUS
  <1>3. n \in Nat /\ k \in Nat /\ n <= k /\ j \in 1 .. k /\ j \in Nat
    BY <1>2 DEF TypeOK
  <1>4. Deepest \in Nat
    BY UntriedFinite
  <1>5. PICK p : p = <<j, u>>
    OBVIOUS
  <1>6. p \in (1 .. Deepest) \X SUBSET Lits /\ p[1] = j /\ p[2] = u
    BY <1>3, <1>4, <1>5
  <1>7. p \in Untried
    BY <1>2, <1>3, <1>6 DEF Untried
  <1>8. p \notin Untried'
    <2>1. ~ (j > k) /\ u \in frames'[j]
      BY <1>3
    <2>2. QED
      BY <1>2, <1>6, <2>1 DEF Untried
  <1>9. ASSUME NEW q \in Untried' PROVE q \in Untried
    <2>1. /\ q \in (1 .. Deepest) \X SUBSET Lits
          /\ q[1] > k \/ q[2] \notin frames'[q[1]]
      BY <1>1, <1>2 DEF Untried
    <2>2. q[1] \in 1 .. Deepest
      BY <2>1
    <2>3. CASE q[1] > n
      BY <1>2, <2>1, <2>3 DEF Untried
    <2>4. CASE ~ (q[1] > n)
      <3>1. q[1] \in 1 .. n /\ ~ (q[1] > k)
        BY <1>3, <1>4, <2>2, <2>4
      <3>2. q[2] \notin frames[q[1]]
        BY <1>2, <2>1, <3>1
      <3>3. QED
        BY <2>1, <3>2 DEF Untried
    <2>5. QED
      BY <2>3, <2>4
  <1>10. /\ IsFiniteSet(Untried) /\ Untried' \in SUBSET Untried /\ Untried' # Untried
         /\ Cardinality(Untried) \in Nat
    BY <1>7, <1>8, <1>9, UntriedFinite
  <1>11. /\ Cardinality(Untried') <= Cardinality(Untried)
         /\ Cardinality(Untried) # Cardinality(Untried')
         /\ Cardinality(Untried') \in Nat
    BY <1>10, FS_Subset, FS_CardinalityType
  <1>12. QED
    BY <1>10, <1>11

\* The pairs that are untried are the same when the frames are.
LEMMA SameUntried ==
  ASSUME problem' = problem, frames' = frames
  PROVE  Untried' = Untried /\ Deepest' = Deepest
  BY DEF Untried, Deepest

\* The first test starts the first round or answers.
LEMMA OnceCounts == IInv /\ Once => Work' < Work
  <1> SUFFICES ASSUME IInv, Once PROVE Work' < Work
    OBVIOUS
  <1>1. TypeOK /\ TypeOK'
    BY OnceIInv DEF IInv
  <1>2. PICK a, b, d : a = Cardinality(Untried) /\ b = Cardinality(Untried') /\ d = Deepest
    OBVIOUS
  <1>3. a \in Nat /\ d \in Nat \ {0}
    BY <1>1, <1>2, UntriedFinite
  <1>4. /\ pc = "once" /\ problem' = problem /\ frames = <<>> /\ Len(stack) = 0
        /\ pc' # "abort"
    BY OnceIInv DEF IInv, Once, CoreNeverEmpty
  <1>5. Work = 2 * a + d - 0 + 2
    BY <1>2, <1>4 DEF Work, Rest
  <1>6. \/ pc' \in {"sat", "unsat"} /\ frames' = frames /\ stack' = stack
        \/ \E u \in FinalCores(problem.goal) :
             frames' = <<{u}>> /\ stack' = <<problem.goal>> /\ pc' = "solve"
    BY <1>4 DEF Once
  <1>7. CASE pc' \in {"sat", "unsat"} /\ frames' = frames /\ stack' = stack
    <2>1. b = a /\ Deepest' = d /\ Len(stack') = 0
      BY <1>2, <1>4, <1>7, SameUntried
    <2>2. Work' = 2 * a + d - 0 + 0
      BY <1>2, <1>7, <2>1 DEF Work, Rest
    <2>3. QED
      BY <1>3, <1>5, <2>2
  <1>8. CASE \E u \in FinalCores(problem.goal) :
               frames' = <<{u}>> /\ stack' = <<problem.goal>> /\ pc' = "solve"
    <2>1. PICK u \in FinalCores(problem.goal) :
            frames' = <<{u}>> /\ stack' = <<problem.goal>> /\ pc' = "solve"
      BY <1>8
    <2>2. u \in SUBSET Lits
      BY <1>1, LoopExists DEF FinalCores
    <2>3. Len(frames) = 0 /\ Len(frames') = 1 /\ frames'[1] = {u}
      BY <1>4, <2>1
    <2>4. 1 \in 1 .. Len(frames') /\ 1 > Len(frames) /\ 1 <= Deepest /\ u \in frames'[1]
          /\ Len(frames) <= Len(frames') /\ 1 .. Len(frames) = {}
      BY <1>2, <1>3, <2>3
    <2>5. b \in Nat /\ b + 1 <= a
      BY <1>1, <1>2, <1>4, <2>2, <2>4, FewerUntried
    <2>6. Deepest' = d /\ Len(stack') = 1
      BY <1>2, <1>4, <2>1 DEF Deepest
    <2>7. Work' = 2 * b + d - 1 + 3
      BY <1>2, <2>1, <2>6 DEF Work, Rest
    <2>9. QED
      BY <1>3, <1>5, <2>5, <2>7
  <1>9. QED
    BY <1>6, <1>7, <1>8

\* A transition is one more call, or leads to the test of a last state.
LEMMA StepCounts == IInv /\ Fresh /\ Step => Work' < Work
  <1> SUFFICES ASSUME IInv, Fresh, Step PROVE Work' < Work
    OBVIOUS
  <1>1. PICK a, d, l : a = Cardinality(Untried) /\ d = Deepest /\ l = Len(stack)
    OBVIOUS
  <1>2. a \in Nat /\ d \in Nat \ {0} /\ l \in Nat
    BY <1>1, UntriedFinite DEF IInv, TypeOK
  <1>3. Cardinality(Untried') = a /\ Deepest' = d
    BY <1>1, SameUntried DEF Step
  <1>4. Work = 2 * a + d - l + 3
    BY <1>1 DEF Work, Rest, Step
  <1>5. \/ pc' = "final" /\ stack' = stack
        \/ pc' = "solve" /\ \E c \in SUBSET Lits : stack' = Append(stack, c)
    BY LoopExists DEF Step, Steps, Descend, IInv, Models
  <1>6. CASE pc' = "final" /\ stack' = stack
    <2>1. Work' = 2 * a + d - l + 2
      BY <1>1, <1>3, <1>6 DEF Work, Rest
    <2>2. QED
      BY <1>2, <1>4, <2>1
  <1>7. CASE pc' = "solve" /\ \E c \in SUBSET Lits : stack' = Append(stack, c)
    <2>1. Len(stack') = l + 1
      BY <1>1, <1>7 DEF IInv, TypeOK
    <2>2. Work' = 2 * a + d - (l + 1) + 3
      BY <1>3, <1>7, <2>1 DEF Work, Rest
    <2>3. QED
      BY <1>2, <1>4, <2>2
  <1>8. QED
    BY <1>5, <1>6, <1>7

\* A call that fails leaves one UC less to find, and the outermost one the round.
LEMMA FailCounts == IInv /\ Fresh /\ FramesBounded /\ Fail => Work' < Work
  <1> SUFFICES ASSUME IInv, Fresh, FramesBounded, Fail PROVE Work' < Work
    OBVIOUS
  <1>1. TypeOK /\ TypeOK'
    BY FailIInv DEF IInv
  <1>2. PICK a, b, d, l, n : /\ a = Cardinality(Untried) /\ b = Cardinality(Untried')
                             /\ d = Deepest /\ l = Len(stack) /\ n = Len(frames)
    OBVIOUS
  <1>3. a \in Nat /\ d \in Nat \ {0} /\ l \in Nat /\ n \in Nat /\ n <= d
    BY <1>1, <1>2, UntriedFinite DEF TypeOK, FramesBounded, Deepest
  <1>4. PICK u \in SUBSET Lits :
           /\ l \in 1 .. n /\ Len(stack') = l - 1
           /\ pc = "solve" /\ problem' = problem
           /\ AddFrameElement(Level(l) + 1, u)
           /\ Level(l) + 1 \in 1 .. n
           /\ l = 1 => pc' = "inv" /\ frames' = frames
           /\ l # 1 => /\ pc' = "solve" /\ Level(l) + 1 < n
                       /\ u \notin frames[Level(l) + 2]
    BY <1>2, FailAdds
  <1>5. Work = 2 * a + d - l + 3 /\ Deepest' = d
    BY <1>2, <1>4 DEF Work, Rest, Deepest
  <1>6. CASE l = 1
    <2>1. b = a
      BY <1>2, <1>4, <1>6, SameUntried
    <2>2. Work' = 2 * a + d - (l - 1) + 1
      BY <1>2, <1>4, <1>5, <1>6, <2>1 DEF Work, Rest
    <2>3. QED
      BY <1>3, <1>5, <2>2
  <1>7. CASE l # 1
    <2>1. PICK v : v = Level(l) + 1
      OBVIOUS
    <2>2. /\ v \in 0 .. n /\ v # n /\ v + 1 \in 1 .. n
          /\ v + 1 = Level(l) + 2
      <3>1. Level(l) = n - l
        BY <1>2 DEF Level
      <3>2. v = n - l + 1 /\ l \in 2 .. n /\ Level(l) + 2 = n - l + 2
        BY <1>3, <1>4, <1>7, <2>1, <3>1
      <3>3. QED
        BY <1>3, <3>2
    <2>3. /\ Len(frames') = n /\ DOMAIN frames = 1 .. n
          /\ \A j \in DOMAIN frames : frames[j] \subseteq frames'[j]
          /\ \A j \in DOMAIN frames : j = v + 1 => frames'[j] = frames[j] \cup {u}
      <3>1. AddFrameElement(v, u) /\ v \in 0 .. Len(frames)
        BY <1>2, <1>4, <2>1, <2>2
      <3>2. DOMAIN frames = 1 .. n
        BY <1>1, <1>2 DEF TypeOK
      <3>3. QED
        BY <1>1, <1>2, <3>1, <3>2, FramesGrow
    <2>4. u \in frames'[v + 1] /\ u \notin frames[v + 1] /\ v + 1 <= d
      BY <1>3, <1>4, <1>7, <2>2, <2>3
    <2>5. b \in Nat /\ b + 1 <= a
      BY <1>1, <1>2, <1>3, <1>4, <2>2, <2>3, <2>4, FewerUntried
    <2>7. Work' = 2 * b + d - (l - 1) + 3
      BY <1>2, <1>4, <1>5, <1>7 DEF Work, Rest
    <2>8. QED
      BY <1>3, <1>5, <2>5, <2>7
  <1>8. QED
    BY <1>6, <1>7

\* So does a last state that fails its test.
LEMMA LastStateCounts == IInv /\ Fresh /\ FramesBounded /\ LastState => Work' < Work
  <1> SUFFICES ASSUME IInv, Fresh, FramesBounded, LastState PROVE Work' < Work
    OBVIOUS
  <1>1. TypeOK /\ TypeOK'
    BY LastStateIInv DEF IInv
  <1>2. PICK a, b, d, l, n : /\ a = Cardinality(Untried) /\ b = Cardinality(Untried')
                             /\ d = Deepest /\ l = Len(stack) /\ n = Len(frames)
    OBVIOUS
  <1>3. a \in Nat /\ d \in Nat \ {0} /\ l \in Nat /\ n \in Nat /\ n <= d
    BY <1>1, <1>2, UntriedFinite DEF TypeOK, FramesBounded, Deepest
  <1>4. /\ pc = "final" /\ stack' = stack /\ problem' = problem /\ l = n /\ l # 0
        /\ \/ pc' = "sat" /\ UNCHANGED <<frames, tmp>>
           \/ /\ pc' = "solve"
              /\ \E u \in SUBSET Lits : AddFrameElement(0, u) /\ u \notin frames[1]
    BY <1>2, LastStateAdds
  <1>5. Work = 2 * a + d - l + 2 /\ Deepest' = d /\ Len(stack') = l
    BY <1>2, <1>4 DEF Work, Rest, Deepest
  <1>6. CASE pc' = "sat" /\ UNCHANGED <<frames, tmp>>
    <2>1. b = a
      BY <1>2, <1>4, <1>6, SameUntried
    <2>2. Work' = 2 * a + d - l + 0
      BY <1>2, <1>5, <1>6, <2>1 DEF Work, Rest
    <2>3. QED
      BY <1>3, <1>5, <2>2
  <1>7. CASE pc' = "solve" /\ \E u \in SUBSET Lits : AddFrameElement(0, u) /\ u \notin frames[1]
    <2>1. PICK u \in SUBSET Lits : AddFrameElement(0, u) /\ u \notin frames[1]
      BY <1>7
    <2>2. 0 \in 0 .. Len(frames) /\ 0 # Len(frames) /\ 0 + 1 = 1 /\ 1 \in 1 .. n /\ 1 <= d
      BY <1>2, <1>3, <1>4
    <2>3. /\ Len(frames') = n /\ DOMAIN frames = 1 .. n
          /\ \A j \in DOMAIN frames : frames[j] \subseteq frames'[j]
          /\ \A j \in DOMAIN frames : j = 1 => frames'[j] = frames[j] \cup {u}
      BY <1>1, <1>2, <2>1, <2>2, FramesGrow DEF TypeOK
    <2>4. u \in frames'[1] /\ u \notin frames[1]
      BY <2>1, <2>2, <2>3
    <2>5. b \in Nat /\ b + 1 <= a
      BY <1>1, <1>2, <1>3, <1>4, <2>2, <2>3, <2>4, FewerUntried
    <2>7. Work' = 2 * b + d - l + 3
      BY <1>2, <1>5, <1>7 DEF Work, Rest
    <2>8. QED
      BY <1>3, <1>5, <2>5, <2>7
  <1>8. QED
    BY <1>4, <1>6, <1>7

\* A new frame brings the UCs of tmp_frame_ with it.
LEMMA InvariantCounts ==
  IInv /\ Fresh /\ FramesBounded' /\ Invariant => Work' < Work
  <1> SUFFICES ASSUME IInv, Fresh, FramesBounded', Invariant PROVE Work' < Work
    OBVIOUS
  <1>1. TypeOK /\ TypeOK'
    BY InvariantIInv DEF IInv
  <1>2. PICK a, b, d, n : /\ a = Cardinality(Untried) /\ b = Cardinality(Untried')
                          /\ d = Deepest /\ n = Len(frames)
    OBVIOUS
  <1>3. a \in Nat /\ d \in Nat \ {0} /\ n \in Nat
    BY <1>1, <1>2, UntriedFinite DEF TypeOK
  <1>4. pc = "inv" /\ problem' = problem /\ tmp # {} /\ stack = <<>>
    BY DEF Invariant, Fresh
  <1>5. Work = 2 * a + d - 0 + 1 /\ Deepest' = d
    BY <1>2, <1>4 DEF Work, Rest, Deepest
  <1>6. CASE pc' = "unsat" /\ UNCHANGED <<frames, tmp, stack>>
    <2>1. b = a /\ Len(stack') = 0
      BY <1>2, <1>4, <1>6, SameUntried
    <2>2. Work' = 2 * a + d - 0 + 0
      BY <1>2, <1>5, <1>6, <2>1 DEF Work, Rest
    <2>3. QED
      BY <1>3, <1>5, <2>2
  <1>7. CASE /\ frames' = Append(frames, tmp) /\ stack' = <<problem.goal>>
             /\ pc' = "solve"
    <2>1. PICK u \in tmp : u \in SUBSET Lits
      BY <1>1, <1>4 DEF TypeOK
    <2>2. frames \in Seq(SUBSET SUBSET Lits) /\ tmp \in SUBSET SUBSET Lits
      BY <1>1 DEF TypeOK
    <2>3. /\ Len(frames') = n + 1 /\ frames'[n + 1] = tmp
          /\ \A j \in 1 .. n : frames'[j] = frames[j]
      BY <1>2, <1>7, <2>2
    <2>4. Len(frames') <= Deepest'
      BY DEF FramesBounded, Deepest
    <2>5. /\ n + 1 \in 1 .. Len(frames') /\ n + 1 > Len(frames) /\ n + 1 <= d
          /\ Len(frames) <= Len(frames')
      <3>1. n + 1 <= d
        BY <1>5, <2>3, <2>4
      <3>2. QED
        BY <1>2, <1>3, <2>3, <3>1
    <2>6. u \in frames'[n + 1] /\ \A j \in 1 .. Len(frames) : frames[j] \subseteq frames'[j]
      BY <1>2, <2>1, <2>3
    <2>7. b \in Nat /\ b + 1 <= a
      BY <1>1, <1>2, <1>4, <2>1, <2>5, <2>6, FewerUntried
    <2>9. Len(stack') = 1
      BY <1>7
    <2>10. Work' = 2 * b + d - 1 + 3
      BY <1>2, <1>5, <1>7, <2>9 DEF Work, Rest
    <2>11. QED
      BY <1>3, <1>5, <2>7, <2>10
  <1>8. QED
    BY <1>6, <1>7 DEF Invariant

\* The count is a natural number as long as the search goes on.
LEMMA WorkNatural ==
  IInv /\ Fresh /\ FramesBounded /\ pc \in {"once", "solve", "final", "inv"} => Work \in Nat
  <1> SUFFICES ASSUME IInv, Fresh, FramesBounded, pc \in {"once", "solve", "final", "inv"}
               PROVE  Work \in Nat
    OBVIOUS
  <1>1. PICK a, d, l, r : /\ a = Cardinality(Untried) /\ d = Deepest /\ l = Len(stack)
                          /\ r = Rest
    OBVIOUS
  <1>2. a \in Nat /\ d \in Nat /\ r \in Nat
    BY <1>1, UntriedFinite DEF IInv, Rest
  <1>3. l \in Nat /\ l <= d
    <2>1. Len(frames) \in Nat /\ Len(frames) <= d
      BY <1>1 DEF IInv, TypeOK, FramesBounded, Deepest
    <2>2. CASE pc \in {"solve", "final"}
      BY <1>1, <1>2, <2>1, <2>2 DEF IInv, TypeOK
    <2>3. CASE pc \in {"once", "inv"}
      BY <1>1, <1>2, <2>3 DEF IInv, Fresh
    <2>4. QED
      BY <2>2, <2>3
  <1>4. Work = 2 * a + d - l + r
    BY <1>1 DEF Work
  <1>5. QED
    BY <1>2, <1>3, <1>4

\* car_check cannot go on for ever: every one of its steps takes from a natural
\* number, whatever models and UCs the solver chooses.
THEOREM EachStepCounts == Spec => [][Work' < Work /\ Work \in Nat]_vars
  <1>1. ASSUME IInv, Fresh, FramesBounded, FramesBounded', [Next]_vars
        PROVE  [Work' < Work /\ Work \in Nat]_vars
    <2>1. CASE Once
      BY <1>1, <2>1, OnceCounts, WorkNatural DEF Once
    <2>2. CASE Step
      BY <1>1, <2>2, StepCounts, WorkNatural DEF Step
    <2>3. CASE Fail
      BY <1>1, <2>3, FailCounts, WorkNatural DEF Fail
    <2>4. CASE LastState
      BY <1>1, <2>4, LastStateCounts, WorkNatural DEF LastState
    <2>5. CASE Invariant
      BY <1>1, <2>5, InvariantCounts, WorkNatural DEF Invariant
    <2>6. QED
      BY <1>1, <2>1, <2>2, <2>3, <2>4, <2>5 DEF Next, Terminated
  <1>2. QED
    BY <1>1, FreshInvariance, PTL DEF Spec

------------------------------------------------------------------------------
(* The checker implements its specification: it answers once, and sat just when
   the formula has a finite trace of any length. *)

\* There are finitely many models.
LEMMA ModelsFinite == TypeOK => IsFiniteSet(problem.models)
  BY LoopExists, FinitelyManyModels DEF Models

\* A set of models that the answer unsat may rest on holds no trace of the goal.
LEMMA CertifiedHasNoTrace ==
  ASSUME TypeOK, NEW I, Certifies(I)
  PROVE  ~ Satisfiable(problem.models, problem.goal)
  <1>1. SUFFICES ASSUME Satisfiable(problem.models, problem.goal) PROVE FALSE
    OBVIOUS
  <1>2. PICK n \in Nat \ {0} :
          \E tr \in [1 .. n -> problem.models] : IsTrace(problem.goal, tr)
    BY <1>1, ModelsFinite, SatisfiableMeansTrace
  <1>3. PICK tr \in [1 .. n -> problem.models] : IsTrace(problem.goal, tr)
    BY <1>2
  <1>4. \A i \in 1 .. n : tr[i] \in I
    BY <1>3, TraceStaysIn DEF Certifies
  <1>5. n \in 1 .. n /\ Len(tr) = n
    OBVIOUS
  <1>6. tr[n].tail
    BY <1>3, <1>5 DEF IsTrace
  <1>7. QED
    BY <1>4, <1>5, <1>6 DEF Certifies

\* Either answer is the right one.
RightAnswer ==
  /\ pc = "sat" => Satisfiable(problem.models, problem.goal)
  /\ pc = "unsat" => ~ Satisfiable(problem.models, problem.goal)

LEMMA InvGivesRightAnswer == IInv => RightAnswer
  <1> SUFFICES ASSUME IInv PROVE RightAnswer
    OBVIOUS
  <1>1. TypeOK /\ Len(stack) \in Nat /\ IsFiniteSet(problem.models)
    BY ModelsFinite DEF IInv, TypeOK
  <1>2. ASSUME pc = "sat" PROVE Satisfiable(problem.models, problem.goal)
    <2>1. PICK n \in 1 .. Len(stack) + 1 :
            \E tr \in [1 .. n -> problem.models] : IsTrace(problem.goal, tr)
      BY <1>2 DEF IInv, SatIsRight
    <2>2. n \in Nat \ {0}
      BY <1>1
    <2>3. QED
      BY <1>1, <2>1, <2>2, SatisfiableMeansTrace
  <1>3. ASSUME pc = "unsat" PROVE ~ Satisfiable(problem.models, problem.goal)
    <2>1. \E I : Certifies(I)
      BY <1>3 DEF IInv, UnsatIsRight
    <2>2. QED
      BY <1>1, <2>1, CertifiedHasNoTrace
  <1>4. QED
    BY <1>2, <1>3 DEF RightAnswer

\* The specification reads the definitions of module Traces, too.
LEMMA SameSatisfiable ==
  ASSUME NEW M, NEW c
  PROVE  Check!Satisfiable(M, c) <=> Satisfiable(M, c)
  <1>1. Check!Starts(M) = Starts(M)
    BY Zenon DEF Check!Starts, Starts
  <1>2. Check!Cardinality(M) = Cardinality(M)
    BY Zenon DEF Check!Cardinality, Cardinality
  <1>3. QED
    BY <1>1, <1>2 DEF Check!Satisfiable, Satisfiable

\* A step of car_check gives the answer that is right, or none.
LEMMA StepAnswers == IInv /\ IInv' /\ [Next]_vars => [Check!Answer]_(Check!vars)
  <1> SUFFICES ASSUME IInv, IInv', [Next]_vars PROVE [Check!Answer]_(Check!vars)
    OBVIOUS
  <1>1. problem' = problem
    BY DEF Next, Once, Step, Fail, LastState, Invariant, Terminated, vars
  <1>2. CASE pc \in {"sat", "unsat"}
    <2>1. pc' = pc
      BY <1>2 DEF Next, Once, Step, Fail, LastState, Invariant, Terminated, vars
    <2>2. QED
      BY <1>1, <2>1 DEF answer, Check!vars
  <1>3. CASE pc \notin {"sat", "unsat"} /\ pc' \notin {"sat", "unsat"}
    BY <1>1, <1>3 DEF answer, Check!vars
  <1>4. CASE pc \notin {"sat", "unsat"} /\ pc' \in {"sat", "unsat"}
    <2>1. RightAnswer'
      BY InvGivesRightAnswer, PTL
    <2>2. answer = "none" /\ answer' = pc'
      BY <1>4 DEF answer
    <2>3. Check!Satisfiable(problem.models, problem.goal)
            <=> Satisfiable(problem.models, problem.goal)
      BY SameSatisfiable
    <2>4. Check!Answer
      BY <1>1, <1>4, <2>1, <2>2, <2>3 DEF Check!Answer, RightAnswer
    <2>5. QED
      BY <2>4
  <1>5. QED
    BY <1>2, <1>3, <1>4

\* car_check answers once, and sat just when some finite trace satisfies the
\* formula: the frames, the UCs and the order of the search do not show.
THEOREM AnswersRight == Spec => RefinesSatCheck
  <1>1. Init => Check!Init
    BY DEF Init, Check!Init, answer
  <1>2. QED
    BY <1>1, Invariance, StepAnswers, PTL DEF Spec, RefinesSatCheck, Check!SafeSpec
===============================================================================
