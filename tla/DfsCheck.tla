-------------------------------- MODULE DfsCheck --------------------------------
(***************************************************************************)
(* LTLfChecker::dfs_check, the depth-first search for a finite trace of    *)
(* the formula "goal" (ltlfchecker.cpp, with the blocking clauses of       *)
(* solver.cpp).                                                            *)
(*                                                                         *)
(* The function check() around it is not part of the search.  It answers   *)
(* at once for the constants and for a global formula, and its shortcuts   *)
(* may answer unsat: of these the one by the global conjuncts is stated    *)
(* here by itself (GlobalPartUnsat), and the one by positions, which is    *)
(* not always right, is in module OlgItem.                                 *)
(*                                                                         *)
(* Formulas are sets of conjuncts, members of Lits, and a model of the     *)
(* one-step encoding is one state of a trace, as module Traces has it.     *)
(* get_transition() shrinks what a model demands; LtlfSat checks that some *)
(* model of the same state demands no more than that where it is met       *)
(* (EncodingAsAssumed).                                                    *)
(*                                                                         *)
(* stack is visited_, the recursion of dfs_check, outermost call first.    *)
(* blocked are the sets of conjuncts of which block_elements() has         *)
(* forbidden that all hold in a next state.                                *)
(***************************************************************************)
EXTENDS Traces, SequencesExt

CONSTANTS
  Lits,     \* the conjuncts of all states
  Problems  \* the formulas that are checked

Models == [on : SUBSET Lits, nx : SUBSET Lits, tail : BOOLEAN]

(***************************************************************************)
(* A problem: the models, the formula, the conjuncts that have a Next      *)
(* variable (X_map_) and those for which is_global() holds.  A model with  *)
(* Tail loops when what it demands holds in itself, as when every Next     *)
(* variable has the value of its formula.                                  *)
(***************************************************************************)
Looping(M) == {t \in M : t.tail /\ t.nx \subseteq t.on}

IsEncoding(p) ==
  /\ p \in [models : SUBSET Models, goal : (SUBSET Lits) \ {{}},
            named : SUBSET Lits, globals : SUBSET Lits]
  /\ \A m \in p.models : m.nx \subseteq p.named
  /\ Looping(p.models) # {}
  \* under Tail no whole formula depends on the Next variables
  /\ \A c \in {p.goal} \cup {m.nx : m \in p.models} :
       (\E m \in p.models : m.tail /\ c \subseteq m.on) =>
         \E t \in Looping(p.models) : c \subseteq t.on
  \* a state hands its global conjuncts to every state that can follow
  /\ \A g \in p.globals : \A m, n \in p.models :
       g \in m.on /\ ~ m.tail /\ m.nx \subseteq n.on => g \in n.on

ASSUME LitsAssumption == IsFiniteSet(Lits)

ASSUME ProblemsAssumption == \A p \in Problems : IsEncoding(p)

VARIABLES
  problem,   \* the formula and its encoding
  stack,     \* visited_
  blocked,   \* the formulas and UCs blocked as next states
  evidence,  \* the labels in traces_, each given by its model
  pc

vars == <<problem, stack, blocked, evidence, pc>>

------------------------------------------------------------------------------
\* The models of check_tail().
Final(c) == {m \in problem.models : m.tail /\ c \subseteq m.on}

Blocks(B, s) == \E u \in B : u \subseteq s

\* The models of solve_by_assumption().
Steps(c, B) == {m \in problem.models : c \subseteq m.on /\ ~ Blocks(B, m.nx)}

\* get_uc() after a failed solve_by_assumption().
Cores(c, B) == {u \in SUBSET c : Steps(u, B) = {}}

\* Changed form: one global conjunct is enough.
IsGlobalInPart(c) == c \cap problem.globals # {}

\* is_global() of a conjunction.
IsGlobal(c) == c # {} /\ c \subseteq problem.globals

\* Changed form: a clause is made of the conjuncts that have a Next variable.
BlockNamed(u) == {u \cap problem.named}

\* Changed form: the test is the wrong way round.
BlockUnnamed(u) == IF u \subseteq problem.named THEN {} ELSE {u}

\* block_elements(): nothing is blocked when a conjunct has no Next variable.
BlockElements(u) == IF u \subseteq problem.named THEN {u} ELSE {}

------------------------------------------------------------------------------
\* Changed form: the conjuncts that are not global are assumed, too, and Tail is
\* with them.
GlobalPartOfAll == problem.goal

\* The assumptions of solve_with_global_assumption(), beside Tail.
GlobalPart == problem.goal \cap problem.globals

\* contain_global() and global_part_unsat(): check() answers unsat for a formula
\* with global conjuncts that do not hold together in a last state.
GlobalPartUnsat == GlobalPart # {} /\ Final(GlobalPart) = {}

------------------------------------------------------------------------------
\* The first call of dfs_check().  A global formula has been decided before; the
\* search does not rely on what else the shortcuts of check() have refuted.
Init ==
  /\ problem \in Problems
  /\ ~ IsGlobal(problem.goal)
  /\ stack = <<problem.goal>>
  /\ blocked = {}
  /\ evidence = <<>>
  /\ pc = "enter"

\* Changed form: the label is not taken back.
ReturnKeepingLabel ==
  /\ stack' = Front(stack)
  /\ pc' = IF Len(stack) = 1 THEN "unsat" ELSE "explore"
  /\ UNCHANGED evidence

\* dfs_check() returns false: to its caller, which takes the label of the
\* transition back and goes on, or to check() as its answer.
ReturnFalse ==
  /\ stack' = Front(stack)
  /\ IF Len(stack) = 1
     THEN pc' = "unsat" /\ UNCHANGED evidence
     ELSE pc' = "explore" /\ evidence' = Front(evidence)

\* sat_once() finds a last state.
Found ==
  /\ pc = "enter"
  /\ \E t \in Final(Last(stack)) : evidence' = Append(evidence, t)
  /\ pc' = "sat"
  /\ UNCHANGED <<problem, stack, blocked>>

\* sat_once() fails: the formula is blocked, and left if it is global.
NotFound ==
  /\ pc = "enter"
  /\ Final(Last(stack)) = {}
  /\ blocked' = blocked \cup BlockElements(Last(stack))
  /\ IF IsGlobal(Last(stack)) THEN ReturnFalse
     ELSE pc' = "explore" /\ UNCHANGED <<stack, evidence>>
  /\ UNCHANGED problem

\* get_one_transition_from() finds one: dfs_check() is called for its next state.
Step ==
  /\ pc = "explore"
  /\ \E m \in Steps(Last(stack), blocked) :
       /\ evidence' = Append(evidence, m)
       /\ stack' = Append(stack, m.nx)
  /\ pc' = "enter"
  /\ UNCHANGED <<problem, blocked>>

\* It finds none: block_uc().  An empty UC sets unsat_forever_, and all calls
\* return false.
Exhausted ==
  /\ pc = "explore"
  /\ Steps(Last(stack), blocked) = {}
  /\ \E u \in Cores(Last(stack), blocked) :
       IF u = {} THEN pc' = "forever" /\ UNCHANGED <<stack, blocked, evidence>>
       ELSE blocked' = blocked \cup BlockElements(u) /\ ReturnFalse
  /\ UNCHANGED problem

Terminated == pc \in {"sat", "unsat"} /\ UNCHANGED vars

Next == Found \/ NotFound \/ Step \/ Exhausted \/ Terminated

Spec == Init /\ [][Next]_vars

\* One thread that goes on while it can.
FairSpec == Spec /\ WF_vars(Next)

------------------------------------------------------------------------------
\* Types.  Every call but the outermost one was reached by a transition.
TypeOK ==
  /\ IsEncoding(problem)
  /\ stack \in Seq(SUBSET Lits)
  /\ blocked \subseteq SUBSET problem.named
  /\ evidence \in Seq(problem.models)
  /\ pc \in {"enter", "explore", "sat", "unsat", "forever"}
  /\ pc \in {"enter", "explore"} => Len(stack) = Len(evidence) + 1

\* ltlfchecker.h:49: the labels of a search that answers sat are a trace of the
\* formula, whatever was tried and given up before.
EvidenceIsTrace == pc = "sat" => IsTrace(problem.goal, evidence)

\* A set of models that holds every first state of the formula c, that no trace
\* ends in and that no step leaves.
Certifies(c, I) ==
  /\ \A m \in problem.models : c \subseteq m.on => m \in I
  /\ \A m \in I : /\ m \notin Looping(problem.models)
                  /\ ~ m.tail => \A n \in problem.models : m.nx \subseteq n.on => n \in I

\* The models of the goal, and those that are blocked.
Explored ==
  {m \in problem.models : problem.goal \subseteq m.on \/ Blocks(blocked, m.on)}

\* What the answer unsat rests on.
UnsatIsRight == pc = "unsat" => Certifies(problem.goal, Explored)

\* A formula that check() refutes by its global conjuncts alone, before the search
\* begins, has no trace of any length.
GlobalPartRefutes == GlobalPartUnsat => ~ Satisfiable(problem.models, problem.goal)

answer == IF pc \in {"sat", "unsat"} THEN pc ELSE "none"

Check == INSTANCE SatCheck

\* The search answers once, and sat just when some finite trace satisfies the
\* formula, although formulas are blocked while they are still being explored,
\* and UCs rest on them.
RefinesSatCheck == Check!SafeSpec

\* assert (!unsat_forever_) of solver.cpp never fails: the blocked formulas leave
\* the encoding a model.
NeverForever == pc # "forever"

\* No call searches what a call that it is nested in is searching already, alone or
\* with other conjuncts: the recursion is no deeper than there are next states.
NoRepeat == \A i, j \in DOMAIN stack : i < j => ~ (stack[i] \subseteq stack[j])

\* The search answers.
Termination == <>(pc \in {"sat", "unsat"})
=================================================================================
