---------------------------- MODULE DfsCheckProofs ----------------------------
(***************************************************************************)
(* Proofs about LTLfChecker::dfs_check for every encoding: any finite set of *)
(* conjuncts, any set of models that satisfies IsEncoding, any choice of    *)
(* models and of unsat cores by the SAT solver.                            *)
(***************************************************************************)
EXTENDS DfsCheck, SharedProofs, SequenceTheorems

------------------------------------------------------------------------------
(* The SAT solver. *)

\* A larger set blocks more, and blocks larger states.
LEMMA BlocksGrows ==
  ASSUME NEW B, NEW C, NEW s, NEW t, B \subseteq C, s \subseteq t, Blocks(B, s)
  PROVE  Blocks(C, t)
  BY DEF Blocks

\* A formula without a transition stays without one when more is blocked.
LEMMA RefutedStays ==
  ASSUME NEW B, NEW C, B \subseteq C, NEW u, Steps(u, B) = {}
  PROVE  Steps(u, C) = {}
  BY BlocksGrows DEF Steps

\* What has no last state, or no transition, does not hold in a looping model
\* that is not blocked.
LEMMA LoopRefutes ==
  ASSUME NEW t \in Looping(problem.models), NEW B, ~ Blocks(B, t.on), NEW u,
         Final(u) = {} \/ Steps(u, B) = {}
  PROVE  ~ (u \subseteq t.on)
  <1>1. SUFFICES ASSUME u \subseteq t.on PROVE FALSE
    OBVIOUS
  <1>2. t \in Final(u)
    BY <1>1 DEF Final, Looping
  <1>3. ~ Blocks(B, t.nx)
    BY BlocksGrows DEF Looping
  <1>4. t \in Steps(u, B)
    BY <1>1, <1>3 DEF Steps, Looping
  <1>5. QED
    BY <1>2, <1>4

LEMMA Singleton == ASSUME NEW S, NEW t \in S PROVE <<t>> \in Seq(S)
  OBVIOUS

\* The front of a sequence.
LEMMA FrontOf ==
  ASSUME NEW S, NEW s \in Seq(S), s # <<>>
  PROVE  /\ Len(s) \in Nat \ {0}
         /\ Front(s) \in Seq(S)
         /\ Len(Front(s)) = Len(s) - 1
         /\ \A i \in 1 .. Len(s) - 1 : Front(s)[i] = s[i]
  <1>1. Len(s) \in Nat \ {0}
    BY EmptySeq
  <1>2. Front(s) = [i \in 1 .. Len(s) - 1 |-> s[i]]
    BY <1>1 DEF Front
  <1>3. Front(s) \in Seq(S) /\ Len(Front(s)) = Len(s) - 1
    BY <1>1, <1>2
  <1>4. QED
    BY <1>1, <1>2, <1>3

------------------------------------------------------------------------------
(* The inductive invariant. *)

\* A looping model is never blocked.
LoopsFree == \A t \in Looping(problem.models) : ~ Blocks(blocked, t.on)

\* Whatever is blocked is a formula that is being explored, or is global, or
\* leads to blocked states only.
BlockedClosed ==
  \A u \in blocked :
    \/ \E i \in DOMAIN stack : stack[i] = u
    \/ u \subseteq problem.globals
    \/ Steps(u, blocked) = {}

\* The formula c holds in no last state.
NoLast(M, c) == ~ \E m \in M : m.tail /\ c \subseteq m.on

LEMMA NoLastIsFinal == \A c : NoLast(problem.models, c) <=> Final(c) = {}
  BY DEF NoLast, Final

\* The calls and the labels between them are a path from the goal through
\* formulas that have no last state.
PathFromGoal ==
  pc \in {"enter", "explore"} =>
    /\ stack[1] = problem.goal
    /\ \A i \in 1 .. Len(stack) : i < Len(stack) \/ pc = "explore" => NoLast(problem.models, stack[i])
    /\ \A i \in 1 .. Len(evidence) :
         stack[i] \subseteq evidence[i].on /\ evidence[i].nx = stack[i + 1]

IInv ==
  /\ TypeOK
  /\ LoopsFree
  /\ BlockedClosed
  /\ PathFromGoal
  /\ NeverForever
  /\ EvidenceIsTrace
  /\ UnsatIsRight

\* The search starts in the invariant.
LEMMA InitIInv == Init => IInv
  <1> SUFFICES ASSUME Init PROVE IInv
    OBVIOUS
  <1> USE DEF Init
  <1>1. problem.goal \in SUBSET Lits /\ IsEncoding(problem)
    BY ProblemsAssumption DEF IsEncoding
  <1>2. stack \in Seq(SUBSET Lits) /\ Len(stack) = 1 /\ stack[1] = problem.goal
    BY <1>1
  <1>3. TypeOK
    BY <1>1, <1>2 DEF TypeOK
  <1>4. LoopsFree /\ BlockedClosed
    BY DEF LoopsFree, Blocks, BlockedClosed
  <1>5. PathFromGoal
    BY <1>2 DEF PathFromGoal
  <1>6. NeverForever /\ EvidenceIsTrace /\ UnsatIsRight
    BY DEF NeverForever, EvidenceIsTrace, UnsatIsRight
  <1>7. QED
    BY <1>3, <1>4, <1>5, <1>6 DEF IInv

\* The models in which the global conjuncts of the goal hold.
HoldsGlobalPart == {m \in problem.models : GlobalPart \subseteq m.on}

\* Global conjuncts that no last state satisfies rule out every trace.
LEMMA GlobalPartCertifies ==
  ASSUME TypeOK, Final(GlobalPart) = {}
  PROVE  Certifies(problem.goal, HoldsGlobalPart)
  <1>1. \A m \in problem.models : problem.goal \subseteq m.on => m \in HoldsGlobalPart
    BY DEF HoldsGlobalPart, GlobalPart
  <1>2. ASSUME NEW m \in HoldsGlobalPart
        PROVE  m \notin Looping(problem.models)
    BY <1>2 DEF HoldsGlobalPart, Looping, Final
  <1>3. ASSUME NEW m \in HoldsGlobalPart, ~ m.tail, NEW n \in problem.models,
               m.nx \subseteq n.on
        PROVE  n \in HoldsGlobalPart
    <2>1. m \in problem.models /\ GlobalPart \subseteq m.on
      BY DEF HoldsGlobalPart
    <2>2. \A g \in GlobalPart : g \in n.on
      BY <1>3, <2>1 DEF TypeOK, IsEncoding, GlobalPart
    <2>3. QED
      BY <2>2 DEF HoldsGlobalPart
  <1>4. QED
    BY <1>1, <1>2, <1>3 DEF Certifies

\* When nothing is left to explore, what is blocked is closed under transitions.
NothingOpen ==
  /\ TypeOK
  /\ LoopsFree
  /\ \/ problem.goal \subseteq problem.globals /\ Final(problem.goal) = {}
     \/ Steps(problem.goal, blocked) = {}
  /\ \A u \in blocked : u \subseteq problem.globals \/ Steps(u, blocked) = {}

LEMMA ExploredCertifies == NothingOpen => Certifies(problem.goal, Explored)
  <1> SUFFICES ASSUME NothingOpen PROVE Certifies(problem.goal, Explored)
    OBVIOUS
  <1> USE DEF NothingOpen
  <1>1. \A m \in problem.models : problem.goal \subseteq m.on => m \in Explored
    BY DEF Explored
  <1>2. ASSUME NEW m \in Explored
        PROVE  m \notin Looping(problem.models)
    <2>1. SUFFICES ASSUME m \in Looping(problem.models) PROVE FALSE
      OBVIOUS
    <2>2. ~ Blocks(blocked, m.on)
      BY <2>1 DEF LoopsFree
    <2>3. problem.goal \subseteq m.on
      BY <1>2, <2>2 DEF Explored
    <2>4. QED
      BY <2>1, <2>2, <2>3, LoopRefutes
  <1>3. ASSUME NEW m \in Explored, ~ m.tail, NEW n \in problem.models,
               m.nx \subseteq n.on
        PROVE  n \in Explored
    <2>1. m \in problem.models
      BY DEF Explored
    <2>2. SUFFICES problem.goal \subseteq n.on \/ Blocks(blocked, n.on)
      BY DEF Explored
    <2>3. CASE problem.goal \subseteq m.on
      <3>1. CASE problem.goal \subseteq problem.globals
        BY <1>3, <2>1, <2>3, <3>1 DEF TypeOK, IsEncoding
      <3>2. CASE Steps(problem.goal, blocked) = {}
        <4>1. Blocks(blocked, m.nx)
          BY <2>1, <2>3, <3>2 DEF Steps
        <4>2. QED
          BY <1>3, <4>1, BlocksGrows
      <3>3. QED
        BY <3>1, <3>2
    <2>4. CASE Blocks(blocked, m.on)
      <3>1. PICK u \in blocked : u \subseteq m.on
        BY <2>4 DEF Blocks
      <3>2. CASE u \subseteq problem.globals
        <4>1. \A g \in u : g \in n.on
          BY <1>3, <2>1, <3>1, <3>2 DEF TypeOK, IsEncoding
        <4>2. QED
          BY <4>1 DEF Blocks
      <3>3. CASE Steps(u, blocked) = {}
        <4>1. Blocks(blocked, m.nx)
          BY <2>1, <3>1, <3>3 DEF Steps
        <4>2. QED
          BY <1>3, <4>1, BlocksGrows
      <3>4. QED
        BY <3>2, <3>3
    <2>5. QED
      BY <1>3, <2>3, <2>4 DEF Explored
  <1>4. QED
    BY <1>1, <1>2, <1>3 DEF Certifies

\* A formula is blocked that no looping model satisfies: it has no last state, or
\* no transition.
LEMMA LoopsStayFree ==
  ASSUME IInv, NEW u, Final(u) = {} \/ Steps(u, blocked) = {},
         problem' = problem, blocked' = blocked \cup BlockElements(u)
  PROVE  LoopsFree'
  <1>1. SUFFICES ASSUME NEW t \in Looping(problem.models), NEW v \in blocked', v \subseteq t.on
                 PROVE  FALSE
    BY DEF LoopsFree, Blocks
  <1>2. ~ Blocks(blocked, t.on)
    BY DEF IInv, LoopsFree
  <1>3. CASE v \in blocked
    BY <1>1, <1>2, <1>3 DEF Blocks
  <1>4. CASE v = u
    BY <1>1, <1>2, <1>4, LoopRefutes
  <1>5. QED
    BY <1>1, <1>3, <1>4 DEF BlockElements

\* The empty UC would block a looping model.
LEMMA CoreNotEmpty ==
  ASSUME IInv, NEW c, NEW u \in Cores(c, blocked)
  PROVE  u # {}
  <1>1. PICK t : t \in Looping(problem.models)
    BY DEF IInv, TypeOK, IsEncoding
  <1>2. ~ Blocks(blocked, t.on)
    BY <1>1 DEF IInv, LoopsFree
  <1>3. ~ (u \subseteq t.on)
    BY <1>1, <1>2, LoopRefutes DEF Cores
  <1>4. QED
    BY <1>3

\* dfs_check() returns false for a formula whose call has left something blocked
\* that is closed without it.
LEMMA ReturnIInv ==
  ASSUME IInv, pc \in {"enter", "explore"}, problem' = problem, ReturnFalse,
         NEW u, blocked' = blocked \cup BlockElements(u),
         u \in SUBSET Lits,
         Final(u) = {} \/ Steps(u, blocked) = {},
         u \subseteq problem.globals \/ Steps(u, blocked) = {},
         LET c == stack[Len(stack)]
         IN  \/ c \subseteq problem.globals /\ Final(c) = {}
             \/ Steps(c, blocked) = {}
  PROVE  IInv'
  <1>0. /\ TypeOK /\ LoopsFree /\ BlockedClosed /\ PathFromGoal
        /\ stack \in Seq(SUBSET Lits) /\ evidence \in Seq(problem.models)
        /\ Len(stack) = Len(evidence) + 1 /\ Len(evidence) \in Nat
        /\ blocked \subseteq blocked'
    BY DEF IInv, TypeOK
  <1>1. stack # <<>> /\ Len(stack) \in Nat \ {0}
    BY <1>0
  <1>2. /\ stack' \in Seq(SUBSET Lits) /\ Len(stack') = Len(stack) - 1
        /\ \A i \in 1 .. Len(stack) - 1 : stack'[i] = stack[i]
    BY <1>0, <1>1, FrontOf DEF ReturnFalse
  <1>3. LoopsFree'
    BY LoopsStayFree
  <1>4. \A v \in blocked' : \/ \E i \in 1 .. Len(stack) - 1 : stack[i] = v
                            \/ v \subseteq problem.globals
                            \/ Steps(v, blocked') = {}
    <2>1. SUFFICES ASSUME NEW v \in blocked'
                   PROVE  \/ \E i \in 1 .. Len(stack) - 1 : stack[i] = v
                          \/ v \subseteq problem.globals
                          \/ Steps(v, blocked') = {}
      OBVIOUS
    <2>2. CASE Steps(v, blocked) = {}
      BY <1>0, <2>2, RefutedStays
    <2>3. CASE v = u
      BY <2>2, <2>3
    <2>4. CASE v = stack[Len(stack)]
      BY <2>2, <2>4
    <2>5. CASE v \in blocked /\ \E i \in DOMAIN stack : stack[i] = v
      <3>1. PICK i \in 1 .. Len(stack) : stack[i] = v
        BY <1>0, <2>5
      <3>2. i \in 1 .. Len(stack) - 1 \/ i = Len(stack)
        BY <1>1
      <3>3. QED
        BY <2>4, <3>1, <3>2
    <2>6. QED
      BY <1>0, <2>2, <2>3, <2>5 DEF BlockedClosed, BlockElements
  <1>5. blocked' \subseteq SUBSET problem.named
    BY <1>0 DEF TypeOK, BlockElements
  <1>6. BlockedClosed'
    <2>1. DOMAIN stack' = 1 .. Len(stack) - 1
      BY <1>1, <1>2
    <2>2. \A v : Steps(v, blocked') = {} => Steps(v, blocked)' = {}
      BY DEF Steps, Blocks
    <2>3. QED
      BY <1>2, <1>4, <2>1, <2>2 DEF BlockedClosed
  <1>7. CASE Len(stack) = 1
    <2>1. pc' = "unsat" /\ evidence' = evidence
      BY <1>7 DEF ReturnFalse
    <2>2. TypeOK'
      BY <1>0, <1>2, <1>5, <2>1 DEF TypeOK
    <2>3. stack[Len(stack)] = problem.goal
      BY <1>0, <1>7 DEF PathFromGoal
    <2>4. UnsatIsRight'
      <3>1. \/ problem.goal \subseteq problem.globals /\ Final(problem.goal) = {}
            \/ Steps(problem.goal, blocked') = {}
        BY <1>0, <2>3, RefutedStays
      <3>2. \A v \in blocked' : v \subseteq problem.globals \/ Steps(v, blocked') = {}
        <4>1. 1 .. Len(stack) - 1 = {}
          BY <1>7
        <4>2. QED
          BY <1>4, <4>1
      <3>3. (\/ problem.goal \subseteq problem.globals /\ Final(problem.goal) = {}
             \/ Steps(problem.goal, blocked) = {})'
        BY <3>1 DEF Steps, Blocks, Final
      <3>4. (\A v \in blocked : v \subseteq problem.globals \/ Steps(v, blocked) = {})'
        BY <3>2 DEF Steps, Blocks
      <3>5. NothingOpen'
        BY <1>3, <2>2, <3>3, <3>4 DEF NothingOpen
      <3>6. Certifies(problem.goal, Explored)'
        BY <3>5, ExploredCertifies, PTL
      <3>7. QED
        BY <3>6 DEF UnsatIsRight
    <2>5. PathFromGoal' /\ NeverForever' /\ EvidenceIsTrace'
      BY <2>1 DEF PathFromGoal, NeverForever, EvidenceIsTrace
    <2>6. QED
      BY <1>3, <1>6, <2>2, <2>4, <2>5 DEF IInv
  <1>8. CASE Len(stack) # 1
    <2>1. pc' = "explore" /\ evidence' = Front(evidence) /\ evidence # <<>>
      BY <1>0, <1>8 DEF ReturnFalse
    <2>2. /\ evidence' \in Seq(problem.models) /\ Len(evidence') = Len(evidence) - 1
          /\ \A i \in 1 .. Len(evidence) - 1 : evidence'[i] = evidence[i]
      BY <1>0, <2>1, FrontOf
    <2>3. TypeOK'
      BY <1>0, <1>2, <1>5, <2>1, <2>2 DEF TypeOK
    <2>4. PathFromGoal'
      <3>1. stack'[1] = problem'.goal
        BY <1>0, <1>1, <1>2, <1>8 DEF PathFromGoal
      <3>2. ASSUME NEW i \in 1 .. Len(stack')
            PROVE  NoLast(problem'.models, stack'[i])
        <4>1. i \in 1 .. Len(stack) /\ i < Len(stack) /\ stack'[i] = stack[i]
          BY <1>1, <1>2
        <4>2. QED
          BY <1>0, <4>1 DEF PathFromGoal
      <3>3. ASSUME NEW i \in 1 .. Len(evidence')
            PROVE  stack'[i] \subseteq evidence'[i].on /\ evidence'[i].nx = stack'[i + 1]
        <4>1. /\ i \in 1 .. Len(evidence) /\ evidence'[i] = evidence[i]
              /\ stack'[i] = stack[i] /\ stack'[i + 1] = stack[i + 1]
          BY <1>0, <1>2, <2>2
        <4>2. QED
          BY <1>0, <4>1 DEF PathFromGoal
      <3>4. QED
        BY <2>1, <3>1, <3>2, <3>3 DEF PathFromGoal
    <2>5. UnsatIsRight' /\ NeverForever' /\ EvidenceIsTrace'
      BY <2>1 DEF UnsatIsRight, NeverForever, EvidenceIsTrace
    <2>6. QED
      BY <1>3, <1>6, <2>3, <2>4, <2>5 DEF IInv
  <1>9. QED
    BY <1>7, <1>8

\* The formula of the innermost call.
LEMMA InnermostCall ==
  ASSUME TypeOK, pc \in {"enter", "explore"}
  PROVE  /\ Len(stack) \in Nat \ {0} /\ Len(evidence) \in Nat
         /\ stack \in Seq(SUBSET Lits) /\ evidence \in Seq(problem.models)
         /\ Len(stack) = Len(evidence) + 1
         /\ Last(stack) = stack[Len(stack)] /\ Last(stack) \in SUBSET Lits
         /\ \A c : BlockElements(c) \subseteq SUBSET problem.named
  BY DEF TypeOK, Last, BlockElements

\* sat_once() finds a last state.
LEMMA FoundIInv == IInv /\ Found => IInv'
  <1> SUFFICES ASSUME IInv, Found PROVE IInv'
    OBVIOUS
  <1>0. /\ pc = "enter" /\ pc' = "sat" /\ problem' = problem
        /\ stack' = stack /\ blocked' = blocked /\ TypeOK /\ PathFromGoal
    BY DEF Found, IInv
  <1>1. PICK t \in Final(Last(stack)) : evidence' = Append(evidence, t)
    BY DEF Found
  <1>2. t \in problem.models /\ t.tail /\ stack[Len(stack)] \subseteq t.on
    BY <1>0, InnermostCall DEF Final
  <1>3. /\ evidence' \in Seq(problem.models)
        /\ Len(evidence') = Len(stack)
        /\ evidence'[Len(stack)] = t
        /\ \A i \in 1 .. Len(stack) - 1 : evidence'[i] = evidence[i]
    BY <1>0, <1>1, <1>2, InnermostCall
  <1>4. TypeOK'
    BY <1>0, <1>3 DEF TypeOK
  <1>5. EvidenceIsTrace'
    <2>1. evidence' # <<>>
      BY <1>0, <1>3, InnermostCall
    <2>2. \A i \in 1 .. Len(stack) : stack[i] \subseteq evidence'[i].on
      <3>1. SUFFICES ASSUME NEW i \in 1 .. Len(stack)
                     PROVE  stack[i] \subseteq evidence'[i].on
        OBVIOUS
      <3>2. CASE i = Len(stack)
        BY <1>2, <1>3, <3>2
      <3>3. CASE i # Len(stack)
        <4>1. i \in 1 .. Len(stack) - 1 /\ i \in 1 .. Len(evidence)
          BY <1>0, <3>3, InnermostCall
        <4>2. QED
          BY <1>0, <1>3, <4>1 DEF PathFromGoal
      <3>4. QED
        BY <3>2, <3>3
    <2>3. ASSUME NEW i \in 1 .. Len(stack) - 1
          PROVE  evidence'[i].nx = stack[i + 1] /\ ~ evidence'[i].tail
      <3>1. i \in 1 .. Len(evidence) /\ i \in 1 .. Len(stack) /\ i < Len(stack)
        BY <1>0, InnermostCall
      <3>2. /\ evidence'[i] = evidence[i] /\ evidence[i] \in problem.models
            /\ evidence[i].nx = stack[i + 1] /\ stack[i] \subseteq evidence[i].on
        BY <1>0, <1>3, <3>1, InnermostCall DEF PathFromGoal
      <3>3. NoLast(problem.models, stack[i])
        BY <1>0, <3>1 DEF PathFromGoal
      <3>4. QED
        BY <3>2, <3>3 DEF NoLast
    <2>4. problem.goal \subseteq evidence'[1].on
      BY <1>0, <2>2, InnermostCall DEF PathFromGoal
    <2>5. \A i \in 1 .. Len(stack) - 1 : evidence'[i].nx \subseteq evidence'[i + 1].on
      <3>1. SUFFICES ASSUME NEW i \in 1 .. Len(stack) - 1
                     PROVE  evidence'[i].nx \subseteq evidence'[i + 1].on
        OBVIOUS
      <3>2. i + 1 \in 1 .. Len(stack)
        BY <1>0, InnermostCall
      <3>3. QED
        BY <2>2, <2>3, <3>2
    <2>6. \A i \in 1 .. Len(stack) : evidence'[i].tail <=> i = Len(stack)
      <3>1. SUFFICES ASSUME NEW i \in 1 .. Len(stack)
                     PROVE  evidence'[i].tail <=> i = Len(stack)
        OBVIOUS
      <3>2. i = Len(stack) \/ i \in 1 .. Len(stack) - 1
        BY <1>0, InnermostCall
      <3>3. i \in 1 .. Len(stack) - 1 => i # Len(stack)
        BY <1>0, InnermostCall
      <3>4. QED
        BY <1>2, <1>3, <2>3, <3>2, <3>3
    <2>7. IsTrace(problem.goal, evidence')
      BY <1>3, <2>1, <2>4, <2>5, <2>6 DEF IsTrace
    <2>8. QED
      BY <1>0, <2>7 DEF EvidenceIsTrace
  <1>6. LoopsFree' /\ BlockedClosed'
    BY <1>0 DEF IInv, LoopsFree, BlockedClosed, Steps
  <1>7. PathFromGoal' /\ NeverForever' /\ UnsatIsRight'
    BY <1>0 DEF PathFromGoal, NeverForever, UnsatIsRight
  <1>8. QED
    BY <1>4, <1>5, <1>6, <1>7 DEF IInv

\* sat_once() fails, and the formula is blocked.
LEMMA NotFoundIInv == IInv /\ NotFound => IInv'
  <1> SUFFICES ASSUME IInv, NotFound PROVE IInv'
    OBVIOUS
  <1> DEFINE c == Last(stack)
  <1>0. /\ pc = "enter" /\ problem' = problem /\ Final(c) = {}
        /\ blocked' = blocked \cup BlockElements(c) /\ TypeOK /\ PathFromGoal
        /\ c = stack[Len(stack)] /\ c \in SUBSET Lits
    BY InnermostCall DEF NotFound, IInv
  <1>1. CASE IsGlobal(c)
    <2>1. ReturnFalse /\ c \subseteq problem.globals
      BY <1>1 DEF NotFound, IsGlobal
    <2>2. QED
      BY <1>0, <2>1, ReturnIInv
  <1>2. CASE ~ IsGlobal(c)
    <2>1. pc' = "explore" /\ stack' = stack /\ evidence' = evidence
      BY <1>2 DEF NotFound
    <2>2. LoopsFree'
      BY <1>0, LoopsStayFree
    <2>3. TypeOK'
      BY <1>0, <2>1, InnermostCall DEF TypeOK
    <2>4. BlockedClosed'
      <3>1. ASSUME NEW u \in blocked'
            PROVE  \/ \E i \in DOMAIN stack : stack[i] = u
                   \/ u \subseteq problem.globals
                   \/ Steps(u, blocked') = {}
        <4>1. CASE u = c
          BY <1>0, <4>1, InnermostCall
        <4>2. CASE u \in blocked
          BY <1>0, <4>2, RefutedStays DEF IInv, BlockedClosed
        <4>3. QED
          BY <1>0, <4>1, <4>2 DEF BlockElements
      <3>2. \A v : Steps(v, blocked') = {} => Steps(v, blocked)' = {}
        BY <1>0 DEF Steps, Blocks
      <3>3. QED
        BY <1>0, <2>1, <3>1, <3>2 DEF BlockedClosed
    <2>5. PathFromGoal'
      <3>1. ASSUME NEW i \in 1 .. Len(stack) PROVE NoLast(problem.models, stack[i])
        <4>1. i = Len(stack) \/ i < Len(stack)
          BY <1>0, InnermostCall
        <4>2. QED
          BY <1>0, <4>1, NoLastIsFinal DEF PathFromGoal
      <3>2. QED
        BY <1>0, <2>1, <3>1 DEF PathFromGoal
    <2>6. NeverForever' /\ EvidenceIsTrace' /\ UnsatIsRight'
      BY <2>1 DEF NeverForever, EvidenceIsTrace, UnsatIsRight
    <2>7. QED
      BY <2>2, <2>3, <2>4, <2>5, <2>6 DEF IInv
  <1>3. QED
    BY <1>1, <1>2

\* A transition, and the call for its next state.
LEMMA StepIInv == IInv /\ Step => IInv'
  <1> SUFFICES ASSUME IInv, Step PROVE IInv'
    OBVIOUS
  <1>0. /\ pc = "explore" /\ pc' = "enter" /\ problem' = problem
        /\ blocked' = blocked /\ TypeOK /\ PathFromGoal
    BY DEF Step, IInv
  <1>1. PICK m \in Steps(Last(stack), blocked) :
          evidence' = Append(evidence, m) /\ stack' = Append(stack, m.nx)
    BY DEF Step
  <1>2. /\ m \in problem.models /\ stack[Len(stack)] \subseteq m.on
        /\ m.nx \in SUBSET Lits
    BY <1>0, InnermostCall DEF Steps, TypeOK, IsEncoding, Models
  <1>3. /\ evidence' \in Seq(problem.models) /\ stack' \in Seq(SUBSET Lits)
        /\ Len(evidence') = Len(stack) /\ Len(stack') = Len(stack) + 1
        /\ evidence'[Len(stack)] = m /\ stack'[Len(stack) + 1] = m.nx
        /\ \A i \in 1 .. Len(stack) : stack'[i] = stack[i]
        /\ \A i \in 1 .. Len(stack) - 1 : evidence'[i] = evidence[i]
    BY <1>0, <1>1, <1>2, InnermostCall
  <1>4. TypeOK'
    BY <1>0, <1>3 DEF TypeOK
  <1>5. PathFromGoal'
    <2>1. stack'[1] = problem'.goal
      BY <1>0, <1>3, InnermostCall DEF PathFromGoal
    <2>2. ASSUME NEW i \in 1 .. Len(stack'), i < Len(stack')
          PROVE  NoLast(problem'.models, stack'[i])
      <3>1. i \in 1 .. Len(stack) /\ stack'[i] = stack[i]
        BY <1>0, <1>3, <2>2, InnermostCall
      <3>2. QED
        BY <1>0, <3>1 DEF PathFromGoal
    <2>3. ASSUME NEW i \in 1 .. Len(evidence')
          PROVE  stack'[i] \subseteq evidence'[i].on /\ evidence'[i].nx = stack'[i + 1]
      <3>1. CASE i = Len(stack)
        BY <1>0, <1>2, <1>3, <3>1, InnermostCall
      <3>2. CASE i # Len(stack)
        <4>1. /\ i \in 1 .. Len(evidence) /\ evidence'[i] = evidence[i]
              /\ stack'[i] = stack[i] /\ stack'[i + 1] = stack[i + 1]
          BY <1>0, <1>3, <3>2, InnermostCall
        <4>2. QED
          BY <1>0, <4>1 DEF PathFromGoal
      <3>3. QED
        BY <3>1, <3>2
    <2>4. QED
      BY <1>0, <2>1, <2>2, <2>3 DEF PathFromGoal
  <1>6. LoopsFree'
    BY <1>0 DEF IInv, LoopsFree
  <1>7. BlockedClosed'
    <2>1. DOMAIN stack \subseteq DOMAIN stack'
      BY <1>0, <1>3, InnermostCall
    <2>2. ASSUME NEW u \in blocked, NEW i \in DOMAIN stack, stack[i] = u
          PROVE  \E k \in DOMAIN stack' : stack'[k] = u
      BY <1>0, <1>3, <2>1, <2>2, InnermostCall
    <2>3. \A u : Steps(u, blocked)' = Steps(u, blocked)
      BY <1>0 DEF Steps
    <2>4. QED
      BY <1>0, <2>2, <2>3 DEF IInv, BlockedClosed
  <1>8. NeverForever' /\ EvidenceIsTrace' /\ UnsatIsRight'
    BY <1>0 DEF NeverForever, EvidenceIsTrace, UnsatIsRight
  <1>9. QED
    BY <1>4, <1>5, <1>6, <1>7, <1>8 DEF IInv

\* No transition is left.
LEMMA ExhaustedIInv == IInv /\ Exhausted => IInv'
  <1> SUFFICES ASSUME IInv, Exhausted PROVE IInv'
    OBVIOUS
  <1>0. /\ pc = "explore" /\ problem' = problem /\ TypeOK
        /\ Last(stack) = stack[Len(stack)] /\ Last(stack) \in SUBSET Lits
        /\ Steps(Last(stack), blocked) = {}
    BY InnermostCall DEF Exhausted, IInv
  <1>1. PICK u \in Cores(Last(stack), blocked) :
          IF u = {} THEN pc' = "forever" /\ UNCHANGED <<stack, blocked, evidence>>
          ELSE blocked' = blocked \cup BlockElements(u) /\ ReturnFalse
    BY DEF Exhausted
  <1>2. u # {} /\ u \in SUBSET Lits /\ Steps(u, blocked) = {}
    BY <1>0, <1>1, CoreNotEmpty DEF Cores
  <1>3. blocked' = blocked \cup BlockElements(u) /\ ReturnFalse
    BY <1>1, <1>2
  <1>4. QED
    BY <1>0, <1>2, <1>3, ReturnIInv

LEMMA StutterIInv == IInv /\ UNCHANGED vars => IInv'
  <1> SUFFICES ASSUME IInv, UNCHANGED vars PROVE IInv'
    OBVIOUS
  <1> USE DEF vars
  <1>1. TypeOK' /\ LoopsFree' /\ BlockedClosed'
    BY DEF IInv, TypeOK, LoopsFree, BlockedClosed, Steps
  <1>2. PathFromGoal' /\ NeverForever' /\ EvidenceIsTrace'
    BY DEF IInv, PathFromGoal, NeverForever, EvidenceIsTrace
  <1>3. UnsatIsRight'
    BY DEF IInv, UnsatIsRight, Certifies, Explored
  <1>4. QED
    BY <1>1, <1>2, <1>3 DEF IInv

\* Every step preserves the invariant.
LEMMA NextIInv == IInv /\ [Next]_vars => IInv'
  BY FoundIInv, NotFoundIInv, StepIInv, ExhaustedIInv, StutterIInv
     DEF Next, Terminated

\* The invariant holds in every reachable state.
THEOREM Invariance == Spec => []IInv
  BY InitIInv, NextIInv, PTL DEF Spec

\* The variables of the search keep their types; there is one label less than
\* there are calls.
THEOREM TypeCorrect == Spec => []TypeOK
  <1>1. IInv => TypeOK
    BY DEF IInv
  <1>2. QED
    BY <1>1, Invariance, PTL

\* The labels of a search that answers sat are a trace of the formula.
THEOREM EvidenceSound == Spec => []EvidenceIsTrace
  <1>1. IInv => EvidenceIsTrace
    BY DEF IInv
  <1>2. QED
    BY <1>1, Invariance, PTL

\* When dfs_check answers unsat, the models of the goal and of what was blocked hold
\* no last state of a trace, and no step leaves them.
THEOREM UnsatSound == Spec => []UnsatIsRight
  <1>1. IInv => UnsatIsRight
    BY DEF IInv
  <1>2. QED
    BY <1>1, Invariance, PTL

\* assert (!unsat_forever_) never fails.
THEOREM NeverStuck == Spec => []NeverForever
  <1>1. IInv => NeverForever
    BY DEF IInv
  <1>2. QED
    BY <1>1, Invariance, PTL

------------------------------------------------------------------------------
(* The search is finite. *)

\* What keeps the formulas of nested calls apart: each of them that can be blocked
\* is, from its test for a last state on, and none was blocked when it was reached.
Nested ==
  /\ pc \in {"enter", "explore"} =>
       /\ \A i \in 1 .. Len(stack) :
            (i < Len(stack) \/ pc = "explore") /\ stack[i] \subseteq problem.named =>
              stack[i] \in blocked
       /\ \A i \in 2 .. Len(stack) : stack[i] \subseteq problem.named
       /\ pc = "enter" /\ Len(stack) >= 2 => ~ Blocks(blocked, stack[Len(stack)])
  /\ NoRepeat

LEMMA InitNested == Init => Nested
  <1> SUFFICES ASSUME Init PROVE Nested
    OBVIOUS
  <1>1. Len(stack) = 1 /\ DOMAIN stack = 1 .. 1 /\ pc = "enter"
    BY DEF Init
  <1>2. \A i, j \in 1 .. 1 : ~ (i < j)
    OBVIOUS
  <1>3. 2 .. 1 = {} /\ ~ (1 >= 2) /\ \A i \in 1 .. 1 : ~ (i < 1)
    OBVIOUS
  <1>4. QED
    BY <1>1, <1>2, <1>3 DEF Nested, NoRepeat

\* A call that returns leaves the calls around it as they are.
LEMMA ReturnNested ==
  ASSUME IInv, Nested, pc \in {"enter", "explore"}, problem' = problem, ReturnFalse,
         blocked \subseteq blocked'
  PROVE  Nested'
  <1>1. PICK l : l = Len(stack)
    OBVIOUS
  <1>2. stack \in Seq(SUBSET Lits) /\ l \in Nat \ {0} /\ stack # <<>>
    BY <1>1, InnermostCall DEF IInv
  <1>3. /\ stack' \in Seq(SUBSET Lits) /\ Len(stack') = l - 1
        /\ \A i \in 1 .. l - 1 : stack'[i] = stack[i]
    BY <1>1, <1>2, FrontOf DEF ReturnFalse
  <1>4. pc' \in {"unsat", "explore"}
    BY DEF ReturnFalse
  <1>5. DOMAIN stack' = 1 .. l - 1 /\ 1 .. l - 1 \subseteq DOMAIN stack
    BY <1>1, <1>2, <1>3
  <1>6. NoRepeat'
    BY <1>3, <1>5 DEF Nested, NoRepeat
  <1>7. ASSUME NEW i \in 1 .. l - 1, stack'[i] \subseteq problem.named
        PROVE  stack'[i] \in blocked'
    <2>1. i \in 1 .. l /\ i < l /\ stack'[i] = stack[i]
      BY <1>2, <1>3
    <2>2. QED
      BY <1>1, <1>7, <2>1 DEF Nested
  <1>8. ASSUME NEW i \in 2 .. l - 1 PROVE stack'[i] \subseteq problem.named
    <2>1. i \in 2 .. l /\ i \in 1 .. l - 1
      BY <1>2
    <2>2. QED
      BY <1>1, <1>3, <2>1 DEF Nested
  <1>9. QED
    BY <1>3, <1>4, <1>6, <1>7, <1>8 DEF Nested

\* The formula of a new call is not blocked, so it does not hold that of any other.
LEMMA StepNested == IInv /\ Nested /\ Step => Nested'
  <1> SUFFICES ASSUME IInv, Nested, Step PROVE Nested'
    OBVIOUS
  <1>1. PICK l : l = Len(stack)
    OBVIOUS
  <1>2. /\ stack \in Seq(SUBSET Lits) /\ l \in Nat \ {0} /\ pc = "explore" /\ pc' = "enter"
        /\ problem' = problem /\ blocked' = blocked
    BY <1>1, InnermostCall DEF IInv, Step
  <1>3. PICK m \in Steps(Last(stack), blocked) : stack' = Append(stack, m.nx)
    BY DEF Step
  <1>4. m.nx \in SUBSET Lits /\ m.nx \subseteq problem.named /\ ~ Blocks(blocked, m.nx)
    BY DEF Steps, IInv, TypeOK, IsEncoding, Models
  <1>5. /\ Len(stack') = l + 1 /\ stack'[l + 1] = m.nx /\ DOMAIN stack' = 1 .. l + 1
        /\ \A i \in 1 .. l : stack'[i] = stack[i]
        /\ DOMAIN stack = 1 .. l
    BY <1>1, <1>2, <1>3, <1>4
  <1>6. ASSUME NEW i \in 1 .. l PROVE ~ (stack[i] \subseteq m.nx)
    <2>1. SUFFICES ASSUME stack[i] \subseteq m.nx PROVE FALSE
      OBVIOUS
    <2>2. stack[i] \in blocked
      BY <1>1, <1>2, <1>4, <2>1 DEF Nested
    <2>3. QED
      BY <1>4, <2>1, <2>2 DEF Blocks
  <1>7. ASSUME NEW i \in 1 .. l + 1, NEW j \in 1 .. l + 1, i < j
        PROVE  ~ (stack'[i] \subseteq stack'[j])
    <2>1. i \in 1 .. l /\ (j \in 1 .. l \/ j = l + 1)
      BY <1>2, <1>7
    <2>2. CASE j \in 1 .. l
      BY <1>5, <1>7, <2>1, <2>2 DEF Nested, NoRepeat
    <2>3. CASE j = l + 1
      BY <1>5, <1>6, <2>1, <2>3
    <2>4. QED
      BY <2>1, <2>2, <2>3
  <1>8. NoRepeat'
    BY <1>5, <1>7 DEF NoRepeat
  <1>9. ASSUME NEW i \in 1 .. l + 1, i < l + 1, stack'[i] \subseteq problem.named
        PROVE  stack'[i] \in blocked
    <2>1. i \in 1 .. l
      BY <1>2, <1>9
    <2>2. QED
      BY <1>1, <1>2, <1>5, <1>9, <2>1 DEF Nested
  <1>10. ASSUME NEW i \in 2 .. l + 1 PROVE stack'[i] \subseteq problem.named
    <2>1. i \in 2 .. l \/ i = l + 1
      BY <1>2
    <2>2. CASE i \in 2 .. l
      <3>1. i \in 1 .. l
        BY <1>2, <2>2
      <3>2. QED
        BY <1>1, <1>2, <1>5, <2>2, <3>1 DEF Nested
    <2>3. QED
      BY <1>4, <1>5, <2>1, <2>2
  <1>11. QED
    BY <1>2, <1>4, <1>5, <1>8, <1>9, <1>10 DEF Nested, Blocks

\* A formula without a last state is blocked before it is explored.
LEMMA NotFoundNested == IInv /\ Nested /\ NotFound => Nested'
  <1> SUFFICES ASSUME IInv, Nested, NotFound PROVE Nested'
    OBVIOUS
  <1>1. PICK l, c : l = Len(stack) /\ c = stack[Len(stack)]
    OBVIOUS
  <1>2. /\ stack \in Seq(SUBSET Lits) /\ l \in Nat \ {0} /\ pc = "enter"
        /\ problem' = problem /\ blocked' = blocked \cup BlockElements(c)
        /\ Last(stack) = c
    BY <1>1, InnermostCall DEF IInv, NotFound
  <1>3. CASE ReturnFalse
    BY <1>2, <1>3, ReturnNested
  <1>4. CASE pc' = "explore" /\ UNCHANGED <<stack, evidence>>
    <2>1. ASSUME NEW i \in 1 .. l, stack[i] \subseteq problem.named
          PROVE  stack[i] \in blocked'
      <3>1. i < l \/ i = l
        BY <1>2
      <3>2. CASE i < l
        BY <1>1, <1>2, <2>1, <3>2 DEF Nested
      <3>3. CASE i = l
        BY <1>1, <1>2, <2>1, <3>3 DEF BlockElements
      <3>4. QED
        BY <3>1, <3>2, <3>3
    <2>2. \A i \in 2 .. l : stack[i] \subseteq problem.named
      BY <1>1, <1>2 DEF Nested
    <2>3. NoRepeat'
      BY <1>4 DEF Nested, NoRepeat
    <2>4. QED
      BY <1>1, <1>2, <1>4, <2>1, <2>2, <2>3 DEF Nested
  <1>5. QED
    BY <1>3, <1>4 DEF NotFound

\* What a failed call for a transition does.
LEMMA ExhaustedReturns ==
  ASSUME IInv, Exhausted
  PROVE  /\ pc = "explore" /\ problem' = problem /\ blocked \subseteq blocked'
         /\ ReturnFalse
  <1>1. PICK u \in Cores(Last(stack), blocked) :
          IF u = {} THEN pc' = "forever" /\ UNCHANGED <<stack, blocked, evidence>>
          ELSE blocked' = blocked \cup BlockElements(u) /\ ReturnFalse
    BY DEF Exhausted
  <1>2. u # {}
    BY CoreNotEmpty
  <1>3. QED
    BY <1>1, <1>2 DEF Exhausted

LEMMA NextNested == IInv /\ Nested /\ [Next]_vars => Nested'
  <1> SUFFICES ASSUME IInv, Nested, [Next]_vars PROVE Nested'
    OBVIOUS
  <1>1. CASE Found
    BY <1>1 DEF Found, Nested, NoRepeat
  <1>2. CASE NotFound
    BY <1>2, NotFoundNested
  <1>3. CASE Step
    BY <1>3, StepNested
  <1>4. CASE Exhausted
    BY <1>4, ExhaustedReturns, ReturnNested
  <1>5. CASE UNCHANGED vars
    BY <1>5 DEF vars, Nested, NoRepeat
  <1>6. QED
    BY <1>1, <1>2, <1>3, <1>4, <1>5 DEF Next, Terminated

LEMMA NestedInvariance == Spec => [](IInv /\ Nested)
  BY InitIInv, InitNested, NextIInv, NextNested, PTL DEF Spec

\* No call searches all that a call around it is searching.
THEOREM NeverRepeats == Spec => []NoRepeat
  <1>1. Nested => NoRepeat
    BY DEF Nested
  <1>2. QED
    BY <1>1, NestedInvariance, PTL

\* The states that a transition can lead to.
Demands == {m.nx : m \in problem.models}

DepthBounded == pc \in {"enter", "explore"} => Len(stack) <= Cardinality(Demands) + 1

\* Formulas that are kept apart are no more than there are.
LEMMA NestedBounded == IInv /\ Nested => DepthBounded
  <1> SUFFICES ASSUME IInv, Nested, pc \in {"enter", "explore"}
               PROVE  Len(stack) <= Cardinality(Demands) + 1
    BY DEF DepthBounded
  <1>1. PICK l : l = Len(stack)
    OBVIOUS
  <1>2. /\ l \in Nat \ {0} /\ DOMAIN stack = 1 .. l /\ Len(evidence) = l - 1
        /\ evidence \in Seq(problem.models)
    BY <1>1, InnermostCall DEF IInv
  <1>3. IsFiniteSet(Demands) /\ Cardinality(Demands) \in Nat
    <2>1. IsFiniteSet(SUBSET Lits)
      BY LitsAssumption, FS_SUBSET
    <2>2. Demands \in SUBSET SUBSET Lits
      BY DEF Demands, IInv, TypeOK, IsEncoding, Models
    <2>3. QED
      BY <2>1, <2>2, FS_Subset, FS_CardinalityType
  <1>4. ASSUME NEW i \in 1 .. l - 1 PROVE stack[i + 1] \in Demands
    <2>1. evidence[i] \in problem.models /\ evidence[i].nx = stack[i + 1]
      BY <1>2 DEF IInv, PathFromGoal
    <2>2. QED
      BY <2>1 DEF Demands
  <1>5. PICK f : f = [i \in 1 .. l - 1 |-> stack[i + 1]]
    OBVIOUS
  <1>6. f \in [1 .. l - 1 -> Demands] /\ DOMAIN f = 1 .. l - 1
    BY <1>4, <1>5
  <1>7. ASSUME NEW i \in 1 .. l - 1, NEW j \in 1 .. l - 1, f[i] = f[j]
        PROVE  i = j
    <2>1. /\ i + 1 \in DOMAIN stack /\ j + 1 \in DOMAIN stack
          /\ stack[i + 1] = stack[j + 1]
      BY <1>2, <1>5, <1>7
    <2>2. ~ (i + 1 < j + 1) /\ ~ (j + 1 < i + 1)
      BY <2>1 DEF Nested, NoRepeat
    <2>3. QED
      BY <2>2
  <1>8. f \in Injection(1 .. l - 1, Demands)
    BY <1>6, <1>7 DEF Injection, IsInjective
  <1>9. Cardinality(1 .. l - 1) <= Cardinality(Demands)
    BY <1>3, <1>8, FS_Injection
  <1>10. Cardinality(1 .. l - 1) = l - 1
    BY <1>2, FS_Interval
  <1>11. QED
    BY <1>1, <1>2, <1>3, <1>9, <1>10

\* The recursion is no deeper than there are states that a transition can lead to,
\* and the goal.
THEOREM RecursionBounded == Spec => []DepthBounded
  BY NestedBounded, NestedInvariance, PTL

\* The formulas that can still be blocked, and what is left of the search: formulas
\* to block, calls to return from, and the steps of a call.
Unblocked == (SUBSET problem.named) \ blocked

Rest ==
  CASE pc = "enter"   -> IF Len(stack) = 1 THEN 3 ELSE Len(stack) - 1
    [] pc = "explore" -> Len(stack) + 1
    [] OTHER          -> 0

Work == 3 * Cardinality(Unblocked) + Rest

LEMMA UnblockedFinite ==
  ASSUME TypeOK
  PROVE  IsFiniteSet(Unblocked) /\ Cardinality(Unblocked) \in Nat
  <1>1. IsFiniteSet(SUBSET Lits)
    BY LitsAssumption, FS_SUBSET
  <1>2. Unblocked \in SUBSET SUBSET Lits
    BY DEF Unblocked, TypeOK, IsEncoding
  <1>3. QED
    BY <1>1, <1>2, FS_Subset, FS_CardinalityType

\* Blocking more leaves no more to block, and a formula less when it was not blocked.
LEMMA FewerUnblocked ==
  ASSUME TypeOK, problem' = problem, blocked \subseteq blocked'
  PROVE  /\ Cardinality(Unblocked') \in Nat
         /\ Cardinality(Unblocked') <= Cardinality(Unblocked)
         /\ \A u \in Unblocked : u \in blocked' =>
              Cardinality(Unblocked') + 1 <= Cardinality(Unblocked)
  <1>1. Unblocked' \in SUBSET Unblocked
    BY DEF Unblocked
  <1>2. IsFiniteSet(Unblocked) /\ Cardinality(Unblocked) \in Nat
    BY UnblockedFinite
  <1>3. IsFiniteSet(Unblocked') /\ Cardinality(Unblocked') <= Cardinality(Unblocked)
    BY <1>1, <1>2, FS_Subset
  <1>4. Cardinality(Unblocked') \in Nat
    BY <1>3, FS_CardinalityType
  <1>5. ASSUME NEW u \in Unblocked, u \in blocked'
        PROVE  Cardinality(Unblocked') # Cardinality(Unblocked)
    <2>1. Unblocked' # Unblocked
      BY <1>5 DEF Unblocked
    <2>2. QED
      BY <1>1, <1>2, <2>1, FS_Subset
  <1>6. QED
    BY <1>2, <1>3, <1>4, <1>5

\* What is left is a natural number.
LEMMA WorkNatural == IInv => Rest \in Nat /\ Work \in Nat
  <1> SUFFICES ASSUME IInv PROVE Rest \in Nat /\ Work \in Nat
    OBVIOUS
  <1>1. PICK a, r : a = Cardinality(Unblocked) /\ r = Rest
    OBVIOUS
  <1>2. a \in Nat
    BY <1>1, UnblockedFinite DEF IInv
  <1>3. r \in Nat
    <2>1. pc \in {"enter", "explore"} => Len(stack) \in Nat \ {0}
      BY InnermostCall DEF IInv
    <2>2. QED
      BY <1>1, <2>1 DEF Rest
  <1>4. QED
    BY <1>1, <1>2, <1>3 DEF Work

\* A call that returns is one less; one that has not explored its formula yet has
\* blocked it, or is the call for the goal.
LEMMA ReturnCounts ==
  ASSUME IInv, pc \in {"enter", "explore"}, problem' = problem, ReturnFalse,
         blocked \subseteq blocked',
         pc = "enter" /\ Len(stack) # 1 => \E u \in Unblocked : u \in blocked'
  PROVE  Work' < Work
  <1>1. PICK a, b, l : /\ a = Cardinality(Unblocked) /\ b = Cardinality(Unblocked')
                       /\ l = Len(stack)
    OBVIOUS
  <1>2. a \in Nat /\ b \in Nat /\ b <= a /\ l \in Nat \ {0}
        /\ stack \in Seq(SUBSET Lits) /\ stack # <<>>
    BY <1>1, UnblockedFinite, FewerUnblocked, InnermostCall DEF IInv
  <1>3. pc = "enter" /\ l # 1 => b + 1 <= a
    BY <1>1, FewerUnblocked DEF IInv
  <1>4. Len(stack') = l - 1
    BY <1>1, <1>2, FrontOf DEF ReturnFalse
  <1>5. /\ pc = "explore" => Rest = l + 1
        /\ pc = "enter" /\ l = 1 => Rest = 3
        /\ pc = "enter" /\ l # 1 => Rest = l - 1
    BY <1>1 DEF Rest
  <1>6. (l = 1 /\ Rest' = 0) \/ (l # 1 /\ Rest' = l - 1 + 1)
    BY <1>1, <1>4 DEF Rest, ReturnFalse
  <1>7. Work = 3 * a + Rest /\ Work' = 3 * b + Rest'
    BY <1>1 DEF Work
  <1>8. CASE l = 1
    BY <1>2, <1>5, <1>6, <1>7, <1>8
  <1>9. CASE l # 1
    <2>1. Rest' = l /\ (Rest = l + 1 \/ (Rest = l - 1 /\ b + 1 <= a))
      BY <1>2, <1>3, <1>5, <1>6, <1>9
    <2>2. QED
      BY <1>2, <1>7, <2>1
  <1>10. QED
    BY <1>8, <1>9

LEMMA NotFoundCounts == IInv /\ Nested /\ NotFound => Work' < Work
  <1> SUFFICES ASSUME IInv, Nested, NotFound PROVE Work' < Work
    OBVIOUS
  <1>1. PICK a, b, l, c : /\ a = Cardinality(Unblocked) /\ b = Cardinality(Unblocked')
                          /\ l = Len(stack) /\ c = stack[Len(stack)]
    OBVIOUS
  <1>2. /\ l \in Nat \ {0} /\ pc = "enter" /\ problem' = problem
        /\ blocked' = blocked \cup BlockElements(c) /\ TypeOK
    BY <1>1, InnermostCall DEF IInv, NotFound
  <1>3. a \in Nat /\ b \in Nat /\ b <= a
    BY <1>1, <1>2, UnblockedFinite, FewerUnblocked
  <1>4. ASSUME l # 1 PROVE c \in Unblocked /\ c \in blocked'
    <2>1. l \in 2 .. l /\ l >= 2
      BY <1>2, <1>4
    <2>2. c \subseteq problem.named /\ ~ Blocks(blocked, c)
      BY <1>1, <1>2, <2>1 DEF Nested
    <2>3. QED
      BY <1>2, <2>2 DEF Unblocked, Blocks, BlockElements
  <1>5. CASE ReturnFalse
    BY <1>1, <1>2, <1>4, <1>5, ReturnCounts
  <1>6. CASE pc' = "explore" /\ UNCHANGED <<stack, evidence>>
    <2>1. l # 1 => b + 1 <= a
      BY <1>1, <1>2, <1>4, FewerUnblocked
    <2>2. /\ Rest' = l + 1 /\ (l = 1 => Rest = 3) /\ (l # 1 => Rest = l - 1)
      BY <1>1, <1>2, <1>6 DEF Rest
    <2>3. Work = 3 * a + Rest /\ Work' = 3 * b + Rest'
      BY <1>1 DEF Work
    <2>4. QED
      BY <1>2, <1>3, <2>1, <2>2, <2>3
  <1>7. QED
    BY <1>5, <1>6 DEF NotFound

LEMMA StepCounts == IInv /\ Step => Work' < Work
  <1> SUFFICES ASSUME IInv, Step PROVE Work' < Work
    OBVIOUS
  <1>1. PICK a, l : a = Cardinality(Unblocked) /\ l = Len(stack)
    OBVIOUS
  <1>2. a \in Nat /\ l \in Nat \ {0} /\ stack \in Seq(SUBSET Lits)
    BY <1>1, UnblockedFinite, InnermostCall DEF IInv, Step
  <1>3. \E c \in SUBSET Lits : stack' = Append(stack, c)
    BY DEF Step, Steps, IInv, TypeOK, IsEncoding, Models
  <1>4. Len(stack') = l + 1
    BY <1>1, <1>2, <1>3
  <1>5. Unblocked' = Unblocked
    BY DEF Step, Unblocked
  <1>6. Rest = l + 1 /\ Rest' = l + 1 - 1
    BY <1>1, <1>2, <1>4 DEF Rest, Step
  <1>7. Work = 3 * a + Rest /\ Work' = 3 * a + Rest'
    BY <1>1, <1>5 DEF Work
  <1>8. QED
    BY <1>2, <1>6, <1>7

\* dfs_check cannot go on for ever: every step takes from a natural number, whatever
\* models and UCs the solver chooses.
THEOREM EachStepCounts == Spec => [][Work' < Work /\ Work \in Nat]_vars
  <1>1. ASSUME IInv, Nested, [Next]_vars
        PROVE  [Work' < Work /\ Work \in Nat]_vars
    <2>1. CASE Found
      <3>1. PICK a, l : a = Cardinality(Unblocked) /\ l = Len(stack)
        OBVIOUS
      <3>2. a \in Nat /\ l \in Nat \ {0}
        BY <1>1, <2>1, <3>1, UnblockedFinite, InnermostCall DEF IInv, Found
      <3>3. Unblocked' = Unblocked
        BY <2>1 DEF Found, Unblocked
      <3>4. (Rest = 3 \/ (Rest = l - 1 /\ l # 1)) /\ Rest' = 0
        BY <2>1, <3>1 DEF Rest, Found
      <3>5. Work = 3 * a + Rest /\ Work' = 3 * a + Rest'
        BY <3>1, <3>3 DEF Work
      <3>6. Work' < Work
        BY <3>2, <3>4, <3>5
      <3>7. QED
        BY <1>1, <3>6, WorkNatural
    <2>2. CASE NotFound
      BY <1>1, <2>2, NotFoundCounts, WorkNatural
    <2>3. CASE Step
      BY <1>1, <2>3, StepCounts, WorkNatural
    <2>4. CASE Exhausted
      BY <1>1, <2>4, ExhaustedReturns, ReturnCounts, WorkNatural
    <2>5. QED
      BY <1>1, <2>1, <2>2, <2>3, <2>4 DEF Next, Terminated
  <1>2. QED
    BY <1>1, NestedInvariance, PTL DEF Spec

------------------------------------------------------------------------------
(* The checker implements its specification: it answers once, and sat just when
   the formula has a finite trace of any length. *)

\* There are finitely many models.
LEMMA ModelsFinite == TypeOK => IsFiniteSet(problem.models)
  <1> SUFFICES ASSUME TypeOK PROVE IsFiniteSet(problem.models)
    OBVIOUS
  <1>1. problem.models \in SUBSET Models
    BY DEF TypeOK, IsEncoding
  <1>2. QED
    BY <1>1, LitsAssumption, FinitelyManyModels DEF Models

\* A set of models that the answer unsat rests on holds no trace of the goal:
\* a last state of one could be replaced by a looping model.
LEMMA CertifiedHasNoTrace ==
  ASSUME TypeOK, NEW I, Certifies(problem.goal, I)
  PROVE  ~ Satisfiable(problem.models, problem.goal)
  <1> DEFINE M == problem.models
  <1>1. SUFFICES ASSUME Satisfiable(M, problem.goal) PROVE FALSE
    OBVIOUS
  <1>2. PICK n \in Nat \ {0} : \E tr \in [1 .. n -> M] : IsTrace(problem.goal, tr)
    BY <1>1, ModelsFinite, SatisfiableMeansTrace
  <1>3. PICK tr \in [1 .. n -> M] : IsTrace(problem.goal, tr)
    BY <1>2
  <1>4. \A i \in 1 .. n : tr[i] \in I
    BY <1>3, TraceStaysIn DEF Certifies
  <1>5. /\ \A i \in 1 .. n : tr[i] \in M
        /\ problem.goal \subseteq tr[1].on
        /\ \A i \in 1 .. n - 1 : tr[i].nx \subseteq tr[i + 1].on
        /\ \A i \in 1 .. n : tr[i].tail <=> i = n
    BY <1>3 DEF IsTrace
  <1>6. ASSUME NEW c \in {problem.goal} \cup {m.nx : m \in M},
               \E m \in M : m.tail /\ c \subseteq m.on
        PROVE  \E t \in Looping(M) : c \subseteq t.on
    BY <1>6 DEF TypeOK, IsEncoding
  <1>7. CASE n = 1
    <2>1. PICK t \in Looping(M) : problem.goal \subseteq t.on
      BY <1>5, <1>6, <1>7
    <2>2. t \in I
      BY <2>1 DEF Certifies, Looping
    <2>3. QED
      BY <2>2 DEF Certifies
  <1>8. CASE n # 1
    <2>1. PICK i : i = n - 1
      OBVIOUS
    <2>2. i \in 1 .. n - 1 /\ i \in 1 .. n /\ i + 1 \in 1 .. n /\ i + 1 = n /\ i # n
      BY <1>8, <2>1
    <2>3. PICK t \in Looping(M) : tr[i].nx \subseteq t.on
      BY <1>5, <1>6, <2>2
    <2>4. t \in I
      BY <1>4, <1>5, <2>2, <2>3 DEF Certifies, Looping
    <2>5. QED
      BY <2>4 DEF Certifies
  <1>9. QED
    BY <1>7, <1>8

\* The test of the global conjuncts, which check() makes before the search, refutes
\* only formulas without a trace.
THEOREM GlobalPartSound == Spec => []GlobalPartRefutes
  <1>1. ASSUME IInv, GlobalPartUnsat PROVE ~ Satisfiable(problem.models, problem.goal)
    <2>1. TypeOK /\ Final(GlobalPart) = {}
      BY <1>1 DEF IInv, GlobalPartUnsat
    <2>2. Certifies(problem.goal, HoldsGlobalPart)
      BY <2>1, GlobalPartCertifies
    <2>3. QED
      BY <2>1, <2>2, CertifiedHasNoTrace
  <1>2. IInv => GlobalPartRefutes
    BY <1>1 DEF GlobalPartRefutes
  <1>3. QED
    BY <1>2, Invariance, PTL

\* Either answer is the right one.
RightAnswer ==
  /\ pc = "sat" => Satisfiable(problem.models, problem.goal)
  /\ pc = "unsat" => ~ Satisfiable(problem.models, problem.goal)

LEMMA InvGivesRightAnswer == IInv => RightAnswer
  <1> SUFFICES ASSUME IInv PROVE RightAnswer
    OBVIOUS
  <1>1. TypeOK /\ IsFiniteSet(problem.models)
    BY ModelsFinite DEF IInv
  <1>2. ASSUME pc = "sat" PROVE Satisfiable(problem.models, problem.goal)
    <2>1. IsTrace(problem.goal, evidence)
      BY <1>2 DEF IInv, EvidenceIsTrace
    <2>2. evidence \in Seq(problem.models) /\ evidence # <<>>
      BY <1>1, <2>1 DEF TypeOK, IsTrace
    <2>3. PICK n : n = Len(evidence)
      OBVIOUS
    <2>4. n \in Nat \ {0} /\ evidence \in [1 .. n -> problem.models]
      BY <2>2, <2>3, EmptySeq
    <2>5. QED
      BY <1>1, <2>1, <2>4, SatisfiableMeansTrace
  <1>3. ASSUME pc = "unsat" PROVE ~ Satisfiable(problem.models, problem.goal)
    <2>1. Certifies(problem.goal, Explored)
      BY <1>3 DEF IInv, UnsatIsRight
    <2>2. QED
      BY <1>1, <2>1, CertifiedHasNoTrace
  <1>4. QED
    BY <1>2, <1>3 DEF RightAnswer

\* The specification reads the definitions of module Traces, too.
LEMMA SameSatisfiable ==
  ASSUME NEW M, NEW c
  PROVE  Check!Satisfiable(M, c) <=> Satisfiable(M, c)
  <1>1. Check!Starts(M) = Starts(M)
    BY Zenon DEF Check!Starts, Starts
  <1>2. Check!Cardinality(M) = Cardinality(M)
    BY Zenon DEF Check!Cardinality, Cardinality
  <1>3. QED
    BY <1>1, <1>2 DEF Check!Satisfiable, Satisfiable

\* A step of the search gives the answer that is right, or none.
LEMMA StepAnswers == IInv /\ IInv' /\ [Next]_vars => [Check!Answer]_(Check!vars)
  <1> SUFFICES ASSUME IInv, IInv', [Next]_vars PROVE [Check!Answer]_(Check!vars)
    OBVIOUS
  <1>1. problem' = problem
    BY DEF Next, Found, NotFound, Step, Exhausted, Terminated, vars
  <1>2. CASE pc \in {"sat", "unsat"}
    <2>1. pc' = pc
      BY <1>2 DEF Next, Found, NotFound, Step, Exhausted, Terminated, vars
    <2>2. QED
      BY <1>1, <2>1 DEF answer, Check!vars
  <1>3. CASE pc \notin {"sat", "unsat"} /\ pc' \notin {"sat", "unsat"}
    BY <1>1, <1>3 DEF answer, Check!vars
  <1>4. CASE pc \notin {"sat", "unsat"} /\ pc' \in {"sat", "unsat"}
    <2>1. RightAnswer'
      BY InvGivesRightAnswer, PTL
    <2>2. answer = "none" /\ answer' = pc'
      BY <1>4 DEF answer
    <2>3. Check!Satisfiable(problem.models, problem.goal)
            <=> Satisfiable(problem.models, problem.goal)
      BY SameSatisfiable
    <2>4. Check!Answer
      BY <1>1, <1>4, <2>1, <2>2, <2>3 DEF Check!Answer, RightAnswer
    <2>5. QED
      BY <2>4
  <1>5. QED
    BY <1>2, <1>3, <1>4

\* The depth-first search answers once, and sat just when some finite trace
\* satisfies the formula: what it blocks on the way hides none.
THEOREM AnswersRight == Spec => RefinesSatCheck
  <1>1. Init => Check!Init
    BY DEF Init, Check!Init, answer
  <1>2. QED
    BY <1>1, Invariance, StepAnswers, PTL DEF Spec, RefinesSatCheck, Check!SafeSpec
===============================================================================
