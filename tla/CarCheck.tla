------------------------------- MODULE CarCheck -------------------------------
(***************************************************************************)
(* CARChecker::car_check: is the LTLf formula "goal" satisfied by a finite *)
(* trace?  (carchecker.cpp, with carsolver.cpp and evidence.cpp.)          *)
(*                                                                         *)
(* Formulas are sets of conjuncts, members of Lits, and a model of the     *)
(* one-step encoding is one state of a trace, as module Traces has it.     *)
(* get_transition() shrinks what a model demands to the cone of influence  *)
(* of the assumptions.  A shrunk model need not be a model itself; LtlfSat *)
(* checks that wherever the demands it keeps hold, some model of the same  *)
(* state demands no more than that (EncodingAsAssumed).                    *)
(*                                                                         *)
(* frames[j+1] is frames_[j], a set of unsat cores (UCs): sets of          *)
(* conjuncts from which no trace of exactly j+1 states starts.  stack is   *)
(* the recursion of try_satisfy, outermost call first; the call at depth d *)
(* has frame_level Len(frames) - d.                                        *)
(***************************************************************************)
EXTENDS Traces, SequencesExt

CONSTANTS
  Lits,     \* the conjuncts of all states
  Problems  \* the formulas that are checked

(***************************************************************************)
(* A problem: the models, the formula, the assignments that the invariant  *)
(* solver can choose (it knows nothing of the formulas behind the ids) and *)
(* whether is_global() holds.                                              *)
(***************************************************************************)
Models == [on : SUBSET Lits, nx : SUBSET Lits, tail : BOOLEAN]

IsEncoding(p) ==
  /\ p \in [models : SUBSET Models, goal : (SUBSET Lits) \ {{}},
            worlds : SUBSET SUBSET Lits, global : BOOLEAN]
  \* every state is one of the assignments, and so is what a state demands
  /\ \A m \in p.models : m.on \in p.worlds /\ \E w \in p.worlds : m.nx \subseteq w
  \* the encoding alone has a model with Tail whose demands hold in itself
  /\ \E t \in p.models : t.tail /\ t.nx \subseteq t.on
  \* a global formula holds in every state that can follow one in which it holds
  /\ p.global => \A m, n \in p.models :
       p.goal \subseteq m.on /\ ~ m.tail /\ m.nx \subseteq n.on => p.goal \subseteq n.on

ASSUME LitsAssumption == IsFiniteSet(Lits)

ASSUME ProblemsAssumption == \A p \in Problems : IsEncoding(p)

VARIABLES
  problem,   \* the formula and its encoding
  frames,    \* frames_, and the UCs the SAT solver blocks under their flags
  tmp,       \* tmp_frame_
  stack,     \* the formulas of the try_satisfy calls
  next,      \* t->next(), from the transition to the test sat_once
  evidence,  \* the labels in traces_, each given by its model
  pc

vars == <<problem, frames, tmp, stack, next, evidence, pc>>

------------------------------------------------------------------------------
\* A frame blocks a state when one of its UCs holds in it.
Blocks(frame, s) == \E u \in frame : u \subseteq s

\* Changed form: the assumption Tail is missing.
FinalWithoutTail(c) == {m \in problem.models : c \subseteq m.on}

\* The models of check_final: the formula holds in a last state.
Final(c) == {m \in problem.models : m.tail /\ c \subseteq m.on}

\* The models of solve_with_assumption: a next state not blocked by frame.
Steps(c, frame) ==
  {m \in problem.models : c \subseteq m.on /\ ~ Blocks(frame, m.nx)}

\* Changed form: the UC may miss a conjunct that the refutation needs.
StepCoresPartial(c, frame) == (SUBSET c) \ {{}}

\* Changed form: the selected assumptions are still those of the goal.
StepCoresStale(c, frame) ==
  {u \cap problem.goal : u \in {v \in SUBSET c : Steps(v, frame) = {}}}

\* get_selected_uc after a failed check_final, and after a failed
\* solve_with_assumption: some subset of the assumed conjuncts that already
\* has no model.
FinalCores(c) == {u \in SUBSET c : Final(u) = {}}

StepCores(c, frame) == {u \in SUBSET c : Steps(u, frame) = {}}

Level(d) == Len(frames) - d

------------------------------------------------------------------------------
Init ==
  /\ problem \in Problems
  /\ frames = <<>>
  /\ tmp = {}
  /\ stack = <<>>
  /\ next = {}
  /\ evidence = <<>>
  /\ pc = "once"

\* Changed form: the goal is not tested on its own first.
OnceUntested ==
  /\ pc = "once"
  /\ frames' = <<{}>>
  /\ stack' = <<problem.goal>>
  /\ pc' = "solve"
  /\ UNCHANGED <<problem, tmp, next, evidence>>

\* sat_once(f) at the start of car_check.
Once ==
  /\ pc = "once"
  /\ \/ \E t \in Final(problem.goal) :
          /\ evidence' = Append(evidence, t)
          /\ pc' = "sat"
          /\ UNCHANGED <<frames, stack>>
     \/ /\ Final(problem.goal) = {}
        /\ problem.global
        /\ pc' = "unsat"
        /\ UNCHANGED <<frames, stack, evidence>>
     \/ /\ Final(problem.goal) = {}
        /\ ~ problem.global
        /\ \E u \in FinalCores(problem.goal) :
             IF u = {} THEN pc' = "abort" /\ UNCHANGED <<frames, stack>>
             ELSE /\ frames' = <<{u}>>
                  /\ stack' = <<problem.goal>>
                  /\ pc' = "solve"
        /\ UNCHANGED evidence
  /\ UNCHANGED <<problem, tmp, next>>

\* The recursive call of try_satisfy one frame below.
Descend(m) == stack' = Append(stack, m.nx) /\ UNCHANGED next

\* try_satisfy_at finds a transition: its label is recorded, and its next
\* state is tested (frame_level 0) or searched from (above).
Step ==
  /\ pc = "solve"
  /\ \E m \in Steps(Last(stack), frames[Level(Len(stack)) + 1]) :
       /\ evidence' = Append(evidence, m)
       /\ IF Level(Len(stack)) = 0
          THEN next' = m.nx /\ pc' = "final" /\ UNCHANGED stack
          ELSE Descend(m) /\ UNCHANGED pc
  /\ UNCHANGED <<problem, frames, tmp>>

\* Changed form: the UC of a failed call goes into the frame that was searched.
AddToOwnFrame(level, u) ==
  /\ frames' = [frames EXCEPT ![IF level = 0 THEN 1 ELSE level] = @ \cup {u}]
  /\ UNCHANGED tmp

\* add_frame_element: the frame after the last one is still tmp_frame_.
AddFrameElement(level, u) ==
  IF level = Len(frames)
  THEN tmp' = tmp \cup {u} /\ UNCHANGED frames
  ELSE frames' = [frames EXCEPT ![level + 1] = @ \cup {u}] /\ UNCHANGED tmp

\* try_satisfy_at finds none: a UC goes one frame up and the call returns.
\* The caller takes its label back; the outermost call returns to car_check.
Fail ==
  LET level == Level(Len(stack))
      c     == Last(stack)
  IN  /\ pc = "solve"
      /\ Steps(c, frames[level + 1]) = {}
      /\ \E u \in StepCores(c, frames[level + 1]) :
           IF u = {}
           THEN pc' = "abort" /\ UNCHANGED <<frames, tmp, stack, evidence>>
           ELSE /\ AddFrameElement(level + 1, u)
                /\ stack' = Front(stack)
                /\ IF Len(stack) = 1
                   THEN pc' = "inv" /\ UNCHANGED evidence
                   ELSE evidence' = Front(evidence) /\ UNCHANGED pc
      /\ UNCHANGED <<problem, next>>

\* sat_once(t->next ()) at frame_level 0.  When it fails the loop goes on
\* without taking the label of the transition back.
LastState ==
  /\ pc = "final"
  /\ \/ \E t \in Final(next) :
          /\ evidence' = Append(evidence, t)
          /\ pc' = "sat"
          /\ UNCHANGED <<frames, tmp>>
     \/ /\ Final(next) = {}
        /\ \E u \in FinalCores(next) :
             IF u = {} THEN pc' = "abort" /\ UNCHANGED <<frames, tmp>>
                       ELSE pc' = "solve" /\ AddFrameElement(0, u)
        /\ UNCHANGED evidence
  /\ UNCHANGED <<problem, stack, next>>

\* Changed form: disable_frame_and is missing, so that the states looked for
\* at the frames before are still not blocked.
InvFoundAtKept(i) ==
  \A s \in problem.worlds :
    (\A j \in 1 .. i : Blocks(frames[j], s) /\ (j > 1 => ~ Blocks(frames[j], s))) =>
      Blocks(frames[i + 1], s)

\* Changed form: add_clauses_to_inv_solver_for_frame_or is missing, so that the frames
\* below i are not in the invariant solver.
InvFoundAtAlone(i) == \A s \in problem.worlds : Blocks(frames[i + 1], s)

\* inv_found_at(i): every assignment blocked by the frames below i is blocked
\* by frame i.
InvFoundAt(i) ==
  \A s \in problem.worlds :
    (\A j \in 1 .. i : Blocks(frames[j], s)) => Blocks(frames[i + 1], s)

\* inv_found, and the next round of car_check with one more frame.
Invariant ==
  /\ pc = "inv"
  /\ IF \E i \in 1 .. Len(frames) - 1 : InvFoundAt(i)
     THEN pc' = "unsat" /\ UNCHANGED <<frames, tmp, stack>>
     ELSE /\ frames' = Append(frames, tmp)
          /\ tmp' = {}
          /\ stack' = <<problem.goal>>
          /\ pc' = "solve"
  /\ UNCHANGED <<problem, next, evidence>>

Terminated == pc \in {"sat", "unsat"} /\ UNCHANGED vars

Next == Once \/ Step \/ Fail \/ LastState \/ Invariant \/ Terminated

Spec == Init /\ [][Next]_vars

\* One thread that goes on while it can.
FairSpec == Spec /\ WF_vars(Next)

------------------------------------------------------------------------------
\* The formula c has a path of exactly k + 1 states to one with Tail.
HasTrace(c, k) == \E m \in Starts(problem.models)[k] : c \subseteq m.on

\* Types.  There is a call for every level of the frames that is in progress.
TypeOK ==
  /\ IsEncoding(problem)
  /\ frames \in Seq(SUBSET SUBSET Lits)
  /\ tmp \in SUBSET SUBSET Lits
  /\ stack \in Seq(SUBSET Lits)
  /\ next \in SUBSET Lits
  /\ evidence \in Seq(Models)
  /\ pc \in {"once", "solve", "final", "inv", "sat", "unsat", "abort"}
  /\ pc \in {"solve", "final"} => Len(stack) \in 1 .. Len(frames)
  /\ pc = "final" => Len(stack) = Len(frames)
  /\ pc = "inv" => Len(frames) >= 1

\* No trace of exactly j+1 states starts where frames_[j] blocks; the UCs
\* still in tmp_frame_ belong to the frame after the last.
FramesExact ==
  /\ \A j \in DOMAIN frames : \A u \in frames[j] : ~ HasTrace(u, j - 1)
  /\ \A u \in tmp : ~ HasTrace(u, Len(frames))

\* Every UC is one step from the frame below.
FramesStep ==
  /\ frames # <<>> => \A u \in frames[1] : Final(u) = {}
  /\ \A j \in DOMAIN frames \ {1} : \A u \in frames[j] :
       Steps(u, frames[j - 1]) = {}
  /\ \A u \in tmp : Steps(u, frames[Len(frames)]) = {}

\* get_selected_uc: assert(!res.empty()) never fails.
CoreNeverEmpty == pc # "abort"

\* The answer sat is right: some trace starts at the goal, no longer than the
\* search is deep.
SatIsRight ==
  pc = "sat" =>
    \E n \in 1 .. Len(stack) + 1 :
      \E tr \in [1 .. n -> problem.models] : IsTrace(problem.goal, tr)

\* The search never passes over a last state on the way down: there is a trace no
\* longer than it is deep, and none that is shorter.
ShortestFirst ==
  /\ SatIsRight
  /\ pc = "sat" => \A k \in 0 .. Len(stack) - 1 : ~ HasTrace(problem.goal, k)

\* The search ends: with each frame in which no invariant is found, some assignment
\* is blocked by all frames before it and not by this one, so the frames are at most
\* one more than the assignments.
FramesBounded == Len(frames) <= Cardinality(problem.worlds) + 1

\* What the answer unsat rests on: a set of models that holds every first state
\* of the goal, no last state, and all that a step of its members leads to.
Certifies(I) ==
  /\ \A m \in problem.models : problem.goal \subseteq m.on => m \in I
  /\ \A m \in I : /\ ~ m.tail
                  /\ \A n \in problem.models : m.nx \subseteq n.on => n \in I

HoldsGoal == {m \in problem.models : problem.goal \subseteq m.on}

\* The models that the frames below i block.
BlockedBelow(i) ==
  {m \in problem.models : \A j \in 1 .. i : Blocks(frames[j], m.on)}

\* The answer unsat is right: no trace of any length starts at the goal.
UnsatIsRight ==
  pc = "unsat" =>
    \/ problem.global /\ Certifies(HoldsGoal)
    \/ \E i \in DOMAIN frames : Certifies(BlockedBelow(i))

answer == IF pc \in {"sat", "unsat"} THEN pc ELSE "none"

Check == INSTANCE SatCheck

\* car_check answers once, and sat just when some finite trace satisfies the
\* formula: the frames, the UCs and the order of the search do not show.
RefinesSatCheck == Check!SafeSpec

\* ltlfchecker.h: "If the checking result is SAT, traces_ finally store a
\* counterexample".
EvidenceIsTrace == pc = "sat" => IsTrace(problem.goal, evidence)

\* The check answers.
Termination == <>(pc \in {"sat", "unsat"})
==============================================================================
