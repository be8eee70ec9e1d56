# A verification development for aaltaf

aaltaf reads an LTLf formula (linear temporal logic on finite traces) that is
expected to be unsatisfiable, a conjunction of formulas, and prints a minimal
unsatisfiable core (MUC): a subset of the conjuncts that is unsatisfiable and
has no redundant member. This directory holds TLA+ modules for the parts of
the program that carry its logic, TLC configurations that check them on small
instances, and proofs that TLAPS checks for every instance.

All source paths below are relative to the root of the repository.

## 1. Inventory

| component | files | state it keeps | operations |
|---|---|---|---|
| command line and report | `main.cpp` | `method`, `UCEable`, `check`, the text `in` | option loop, the assertion that the formula is unsatisfiable, `get_muc`, `check_muc` |
| core extraction | `muc.cpp` | `S` (formulas not decided), `MUC`, the C call stack; `temp_MUC`, `allFormulas` for the enumeration | `muc` (binary), `basicMuc` (naive), `getAllMuc`, `sat`, `constructAnd`, `Partition`, `binaryPartition` |
| UC solver | `msolver.cpp`, `UCSolver` | clauses for the obligations `off()` of the conjuncts, assumptions | constructor, `SAT`, `get_uc_formulas`, `false_detected` |
| global extraction | `msolver.cpp`, `MUCSolver` | two files named after the process id, `id_formula_map_` | `create_dimacs`, run of the external tool muser2, `extract_muc_from_file` |
| CDLSC checker | `carchecker.cpp`, `carsolver.cpp`, `evidence.cpp` | `frames_`, `tmp_frame_`, the recursion of `try_satisfy`, the evidence, the invariant solver | `check`, the heuristics, `car_check`, `try_satisfy`, `add_frame_element`, `inv_found` |
| BLSC checker | `ltlfchecker.cpp` | `visited_`, the blocked formulas in the solver | `check` with its shortcuts, `dfs_check` |
| one-step encoding | `solver.cpp`, `aaltasolver.cpp` | clauses, `X_map_`, `coi_map_`, `unsat_forever_` | `add_clauses_for`, `check_tail`, `get_transition`, `block_uc`, `get_uc` |
| formula rewriting | `formula/aalta_formula.cpp` | the table of unique formulas and their ids | `build`, `unique`, `nnf`, `add_tail`, `remove_wnext`, `simplify`, `split_next`, `off`, `ofr`, `ofg`, `is_global`, `to_set` |
| olg heuristics | `formula/olg_formula.cpp`, `formula/olg_item.cpp` | a Boolean abstraction of a formula over positions | `sat`, `unsat` |
| parser | `ltlparser/` | syntax tree | generated |
| MiniSat, muser2 | `minisat/`, `muser2/` | | vendored |
| DNF expansion, translators | `formula/dnf_*.cpp`, `ltlparser/ltl*2*` | | not built into aaltaf |

How they interact. `ltlf_sat` parses the formula, rewrites it (`nnf`,
`add_tail`, `remove_wnext`, `simplify`, `split_next`), lets a `CARChecker`
decide it and asserts that it is unsatisfiable. `get_muc` then hands the formula
*before* rewriting to one of three extraction methods. The extraction holds
formulas by pointer, cuts conjunctions in parts, and calls `sat` on a vector of
formulas again and again; every call rewrites the conjunction and builds a new
checker. With the UC heuristic it first asks a `UCSolver`, which knows only the
obligations of the conjuncts, for an unsatisfiable core. A `CARChecker` runs the
quick heuristics and then `car_check`, which drives one incremental SAT solver:
it asks for a model of the one-step encoding (a transition), recurses on the next
state one frame below, and on failure turns the conflict of the solver into a UC
that it adds to the frame above. All calls are synchronous and there is one
thread; the only other process is muser2.

What is hard, and what makes each part correct:

- **Extraction.** Conjuncts are dropped for good while other formulas are still
  undecided, in a recursion that returns into calls whose arguments have been
  changed below. Correct: what is kept is unsatisfiable at all times; every core
  that is left contains `MUC` and meets every formula of `S`; one answer, a MUC;
  the recursion is no deeper than the number of conjuncts; the assertion
  `!s.SAT()` never fails although it is about another solver.
- **CDLSC.** The meaning of `frames_[j]` (no trace of exactly `j+1` states) must
  survive UCs that arrive out of order, in frames below and in `tmp_frame_`. The
  conflict and the assumptions read by `get_selected_uc` are those of the last
  SAT call. Correct: frames block only what has no trace; both answers are right;
  an answer comes; the labels kept as evidence are a trace.
- **Encoding.** Models are shrunk to a cone of influence, UCs with a conjunct
  that has no `X_map_` entry are not blocked, ids double as variables. Correct: the
  traces of the formula are the chains of shrunk models, and no variable means two
  things.
- **Rewriting.** Two different pipelines in `main` and `sat` (one simplifies).
  Correct: each rewriting keeps the finite traces of the formula. **Heuristics.**
  Four shortcuts answer for the search: constants, the off-line heuristic on
  positions, `partial_unsat`, the obligations. Correct: what they refute has no trace.
- **Global extraction.** Minimality of clauses is not minimality of conjuncts;
  the tool may be missing. **Report.** `check_muc` must test each conjunct once.
- **BLSC.** Formulas on the recursion are blocked before they are known to have
  no trace, and global formulas are left without being explored. Correct: both
  answers, the evidence, an end.

The hazards, line by line, are listed in `PROJECT.json`.

## 2. Plan

In this order, the most important behaviour first:

1. `UnsatCore`, `CoreExtraction`, `BinaryMuc`, `NaiveMuc`: the extraction. *Done.*
2. `BinaryMucProofs`, `NaiveMucProofs`, with what they share in `SharedProofs`: the
   extraction is right for every finite set of conjuncts. *Done.*
3. `Traces`, `SatCheck`, `CarCheck`, `CarCheckProofs`: the checker the extraction
   trusts, and what it promises. *Done.*
4. `CheckMuc` (`check_muc`) and `CommandLine` (options, the assertion, the choice of
   the method) with `MainProofs`, `AllMuc` (`getAllMuc`, on top of the abstract
   extraction) with `AllMucProofs`, `GlobalMuc` (`MUCSolver` and its files, with
   muser2 as an external process that may fail) with `GlobalMucProofs`. *Done.*
5. `Ltlf`, `Rewriting`, `Obligations`: formulas as data, the finite-trace
   semantics, the rewritings and the obligation clauses; what `UnsatCore` and
   `GlobalMuc` assume of `off` and `ofg` becomes a checked fact. *Done.*
6. `StepEncoding`, `LtlfSat`: the one-step encoding and the check of a formula from
   its syntax tree to the answer; what `CarCheck` and `DfsCheck` assume of an
   encoding becomes a checked fact. `FormulaTable`, with proofs in `SharedProofs`: ids
   as variables. *Done.*
7. `DfsCheck`, `DfsCheckProofs`: the search of the BLSC checker, which implements the same
   `SatCheck`. *Done.*
8. `OlgItem`: the off-line heuristic, as a part of `LtlfSat`. *Done for
   `olg_formula::unsat`.*
9. Open: parts of the code that are not modelled (Section 7).

Abstract specifications: `CoreExtraction` (one answer, a MUC), implemented by
`BinaryMuc` and `NaiveMuc`; `SatCheck` (one answer, sat just when the formula has a
finite trace), implemented by `CarCheck` and `DfsCheck`. Both refinements are
model-checked and proved.

## 3. The modules

### UnsatCore, CoreExtraction

A conjunction is the set of its conjuncts: formulas are hash-consed and
`getAndElement` returns the members of a set. What the extraction can observe of
a formula is which sets of its conjuncts are unsatisfiable. That family is
upward closed, so a problem gives the sets `cores` that generate it, and any
family can be given like this. What the UC solver can observe is a second family,
`off`: the sets whose obligations are unsatisfiable. `IsProblem` states what is
assumed of them: the whole formula is unsatisfiable (asserted at `main.cpp:247`),
the empty conjunction is satisfiable, and conjuncts whose obligations are
satisfiable are satisfiable themselves: the trace that meets them repeats one
state, long enough for every Next. `LtlfSat` checks this for the clauses that
`UCSolver` really makes (`OffSatIsRight`).

`SelectParts` is the UC step of both methods with its four ways to give up.
The conflict that MiniSat returns is any set of assumptions that is sufficient,
so the model lets it be any one (`UnsatCores`), not a minimal one.

`CoreExtraction` is the promise: the variable `core` is set once, to a MUC.

### BinaryMuc

| code | model |
|---|---|
| `S`, `MUC` | `S`, `MUC`; a formula is a set of conjuncts, `MUC` a set (`Disjoint` shows that nothing is pushed twice) |
| `newf = S.back()` up to the assignment of `cf` | `Select` |
| `binaryPartition(cf)` empty | `Element` |
| a half suffices | `KeepHalf`, first half first |
| none does | `KeepBoth` |
| the three recursive calls | `calls`, one of `"element"`, `"half"`, `"last"` for each suspended activation |
| `S.empty()` | `Return`: after `"half"` the activation goes on to the call at `muc.cpp:480`, after the others it returns |

The order in which the hash set enumerates the conjuncts decides the halves; the
model lets every set of the right size be the first half.

### NaiveMuc

`basicMuc` in the same form. All its recursive calls are tail calls, so the
C stack is a counter.

### Traces, SatCheck

`Traces` says what a finite trace is in terms of the models of the one-step encoding
(`IsTrace`), and `Satisfiable`, whether there is one: `Starts(M)[k]` are the models
from which `k` steps lead to one with `Tail`, and no trace needs more states than there
are models. `SatCheck` is the promise of both searches, `car_check` and `dfs_check`: the variable `answer` is set
once, to `"sat"` just when the formula is `Satisfiable`.

### CarCheck

A formula is the set of its conjuncts, the SAT solver holds a set of models of
the one-step encoding: the conjuncts true now, those demanded of the next state,
and whether `Tail` is true. `frames[j+1]` is `frames_[j]`, `tmp` is `tmp_frame_`,
`stack` holds the formulas of the nested calls of `try_satisfy`. One action for
each SAT call and what the code does with its answer: `Once` (`sat_once(f)`),
`Step` and `Fail` (`try_satisfy_at`), `LastState` (`sat_once(t->next())`),
`Invariant` (`inv_found` and the next frame). The model and the unsat core are
any the solver may return.

`IsEncoding` states what is assumed of an encoding: the invariant solver can
choose every assignment that is a state; a global formula holds in every state that
can follow one in which it holds; and some model with `Tail` demands only what holds in itself,
which is what makes `assert(!res.empty())` in `get_selected_uc` hold: without it
the empty set of conjuncts would already be refuted. `get_transition` shrinks the
demands of a model to its cone of influence. A shrunk model need not be a model, but
wherever its demands hold some model of the same state demands no more, so for what
can follow it is as good as one. `LtlfSat` checks all of these on real formulas
(`EncodingAsAssumed`); it found that an earlier form of the assumption, that a global
formula *names* itself in its demands, is not true of a disjunction of `G` formulas.

### CheckMuc

`check_muc` on a vector without duplicates. `AllTogether` is the first test and
the early answers, `WithoutLast` one turn of the loop (take the last conjunct,
test the others, put it back at the front), `AllNeeded` the end of the loop. The
empty vector is the assertion of `constructAnd`.

### AllMuc

`getAllMuc`: the nested calls are the sequence `calls`, each with its formula
(`clause`) and the members of its core not yet taken out (`left`); the set
iteration over the core takes them in any order. The nested `muc()` is one step
that takes any minimal core, which is what `BinaryMucProofs` says of it.

### GlobalMuc

`MUCSolver`. What is visible of a clause set is which of its subsets are
unsatisfiable, so a problem is an obligation for each conjunct and a family over
unit clauses and definitions. `Create` is `create_dimacs` with its early return,
`RunTool` the external tool (any minimal subset, or no file at all),
`Extract` and `RemoveInput` the translation back and the removal of both files.
That the obligations `ofg()` of conjuncts of a global formula are in conflict just
when the conjuncts have no trace is assumed here and checked in `LtlfSat`
(`OfgExact`).

### CommandLine

`ltlf_sat`: one action for each kind of argument, the reading of a formula from
the input, `-t`, the check with its assertion, and the choice in `get_muc`. `none` and
the options are not formulas: what the code recognises as an option is not parsed.
The loop goes from the last argument to the first, so the properties speak of the
first one given of a kind (`FirstGiven`).

### Ltlf, Rewriting, Obligations, StepEncoding, OlgItem

Pure definitions, with recursive operators.

- `Ltlf`: a formula is the tuple of its operator and its operands, so that equal
  formulas are one object as after `unique()`. `Positions` is the finite-trace
  semantics. After `add_tail` and `remove_wnext` no Next may be asked for in the last
  state; `HoldsTailed` therefore demands that the rewritten formula holds whatever
  Next is worth there.
- `Rewriting`: `build` (which pushes negations down while it goes), `nnf`,
  `add_tail`, `remove_wnext`, `split_next`, `simplify` with its rules for each
  operator, `is_conflict` and `mutex`, and `off`, `ofr`, `ofg`. Conjuncts and
  disjuncts are sets; the code orders them by address.
- `Obligations`: the clauses of `UCSolver` and of `create_dimacs`, and when a SAT
  solver can meet them.
- `StepEncoding`: what is a variable (`Visited`, `Demandable`), what a model is
  (`Assignments`: letters and Next variables, those of opposite literals never equal),
  the cone of influence (`ConeDemands`, `ConeLetters`), the next state and the label.
- `OlgItem`: `olg_formula::unsat`. `BuildItem` gives a formula its item with
  positions and frequencies, `ItemUnsat` are the five rules of `olg_item::unsat`.

### FormulaTable

The table of `unique()` as the sequence of the formulas in the order of their ids,
and the variables that `Solver` makes of ids: those of the formulas, and the numbers
after the id of the formula for what is none. `DistinctVariables` says that no
variable has two meanings.

### LtlfSat

| code | model |
|---|---|
| `build`, `nnf`, `add_tail`, `remove_wnext`, `simplify`, `split_next`, in the order of `main.cpp:194-205` and `muc.cpp:31-36` | `Init`, `ToNnf`, `GuardNext`, `DropWNext`, `Reduce`, `DistributeNext` |
| whether `simplify` is called (`main`) or commented out (`sat`) | `pipeline` |
| the table of formulas | `all_afs`; what a rewriting makes on the way and drops is left out, it leaves gaps in the ids |
| `CARChecker::check` with its shortcuts | `Check` |
| `sat_once`, `get_transition`, the answer of `inv_found` | `LastState`, `Step`, `Refuted` |

`accepted` is a history variable: the traces that the syntax tree has, by `Meaning`,
a second semantics in terms of Not, Or, X and Until only. The walk from state to
state stands for every path that `try_satisfy` can go: which of them the frames cut
off, and that the search stops, is the matter of `CarCheck`. Inside `partial_unsat`
and for the final answer `car_check` is taken by its contract, no path leads to a
last state, which `CarCheckProofs` proves of it.

### DfsCheck

`LTLfChecker::dfs_check` in the terms of `CarCheck`. `stack` is `visited_`, `blocked`
what `block_elements` has forbidden; `Init` is the first call, `Found` and `NotFound`
are the two outcomes of `sat_once`, `Step` a transition and the nested call,
`Exhausted` the failure with `block_uc`. Which conjuncts have a Next variable is a part
of the problem (`named`): a formula is only blocked when all its conjuncts have one.

The module is about the search, not about `LTLfChecker::check` around it
(`ltlfchecker.cpp:16-96`), whose answer is right only as far as its shortcuts are:

| `check` | where |
|---|---|
| the constants (lines 24-31) | as `CARChecker` has them: `LtlfSat` |
| a global formula is decided by `ofg()` (65-71) | `OfgExact` of `LtlfSat`; `Init` excludes these formulas |
| the global conjuncts do not hold together in a last state (74-80) | `GlobalPartUnsat`; that it refutes no formula with a trace is `GlobalPartRefutes`, checked and proved |
| `olg_unsat` (88-94) | not right: `OlgUnsatIsRight` is violated (Findings), so `check` may answer unsat for a satisfiable formula although `dfs_check` never does |

`main` does not construct this checker at present.

## 4. The runs

| run | instance | what it shows |
|---|---|---|
| `binary_muc` | every problem over four conjuncts: all antichains as `cores` and as `off`, UC heuristic on and off | the invariants that let conjuncts be dropped, the bound on the recursion, termination, and that `BinaryMuc` implements `CoreExtraction` |
| `naive_muc` | the same problems | `MUC` is in every core that is left, the bound on the recursion, termination, and that `NaiveMuc` implements `CoreExtraction` |
| `car_check` | all deterministic encodings with four states and one demand each, all relations between three states, chains over five overlapping states, long chains, global goals | the frames block nothing that has a trace (`FramesExact`), it implements `SatCheck`, so both answers are right, the answer sat comes at the depth of a shortest trace, there are no more frames than assignments and one (`FramesBounded`), the assertion in `get_selected_uc` holds, the search ends |
| `car_evidence` | the encodings with branching and long traces | a violation: the evidence is not a trace (see Findings) |
| `check_muc` | every vector of up to four conjuncts without duplicates, every family of unsatisfiable sets | the verdict is right, a verdict comes |
| `all_muc` | every family over four conjuncts, with conjuncts that are unsatisfiable alone and without | all minimal cores and nothing else are found, a formula tried before may be skipped, the enumeration ends; the assertion of `constructAnd` fails only where there are two conjuncts that are unsatisfiable alone or the formula is one conjunct |
| `global_muc` | three conjuncts, two obligations, two definitions, every family of unsatisfiable clause sets | the answer is a conflict, with one conjunct for an obligation, and no file stays behind |
| `global_minimal` | the same | a violation: the answer is not minimal |
| `command_line` | every command line of up to four arguments, three formulas | which method and heuristic win (`OptionsDecide`) |
| `ltlf_sat` | about 950 syntax trees over two atoms, both pipelines | every rewriting keeps the finite traces; the shortcuts and the answers are right; the labels suffice for a trace; the encoding follows every trace and its variables are distinct; what `UnsatCore`, `GlobalMuc`, `CarCheck` and `DfsCheck` assume holds |
| `olg_positions` | one formula | a violation: the off-line heuristic refutes a satisfiable formula |
| `dfs_check` | all relations between three states, paths and circles over five states, last states whose demand cannot be met there, global conjuncts, also ones that come up on the way | the search implements `SatCheck`: both answers are right although formulas are blocked while they are explored; what `check` refutes by the global conjuncts before it has no trace (`GlobalPartRefutes`); no call repeats the search of one around it (`NoRepeat`), the evidence is a trace, the search ends |

Three conjuncts and two obligations are the least for which two conjuncts share one
and a third does not; three formulas among the arguments are the least that the
error message stops, and a fourth argument is an option; three options after a formula
are the least for which the first one given and the last one read have one between
them. Four conjuncts make
formulas of size 4, 3, 2 and 1 appear on `S` together with core elements and the
halves of odd sizes; three conjuncts would leave at most one formula undecided
besides the one being worked on. Five states in a row make the invariant test look
at three frames, the least for which a frame between the first and the last is
tested. Evidence grows with every step of `car_check`; it stays finite because every
failed step blocks a state.

The trees of `ltlf_sat` are put together so that every rule of `simplify` has inputs
that meet it: pairs of nine terms below each operator, three conjuncts and three
disjuncts, Next above and below the other operators, an atom with a `G` formula about
it (`partial_unsat`), global formulas and disjunctions of them. A trace has up to
`TraceLength = 3` states, enough for two nested Nexts and for an Until that has to
wait, and the walk makes at most `MaxSteps = 2` steps before its last state, so that
both bounds speak of the same traces. `UnsatIsRight` therefore means that there is no
trace of up to three states. The trees have no `true` and `false`: on these the code
goes wrong (Findings), and the other properties are about what it does otherwise.

Fairness: `WF(Next)` in every specification with a liveness property. The program is
one thread that nothing else blocks; SAT calls and the external solver are assumed
to return. `LtlfSat`, whose walk is cut off at a bound, states none.

Deadlock is checked: an answer stutters in `Terminated`, and a state in which an
assertion of the code has failed (`pc = "abort"`) has no successor. Only `CheckMuc`
(empty vector), `CommandLine` (satisfiable formula) and `AllMuc` (conjuncts that are
unsatisfiable alone) let an abort be an end like any other, each with a property that
says when it may happen. It is not checked for `LtlfSat`, since a walk stops at
`MaxSteps`.

## 5. The proofs

`BinaryMucProofs` proves, for every finite set `Conj` and every set of problems,
that `muc()` keeps its types, its invariants and implements `CoreExtraction`.
The properties are not inductive by themselves: that `MUC` is minimal at the end
follows only if at every moment the rest without one formula of `S`, without one
element of `MUC`, or without `cf`, is satisfiable (`EachNeeded`), and that this
survives the dropping of a half needs `StillUnsat`, `Disjoint` and that
unsatisfiability is monotone. The inductive invariant is the conjunction of
these; there is one lemma for each action, and `CoreInEachFormula`, the comment
of `muc()`, is a consequence. The refinement maps `core` to `MUC` when `pc` is
`"done"`, and every step but `Finish` to a stuttering step. The bound on the recursion
needs an argument of its own, since a call may drop conjuncts or only cut a formula in
two: what the open formulas hold beyond one conjunct each, and the calls, stay together
below a constant (`Slack`), because no formula of `S` is a single conjunct unless it is
all there is (`Large`). `RecursionBounded` follows; the invariant gives one call less
than `DepthBound` allows as soon as there are more than two conjuncts.

`NaiveMucProofs` proves the same of `basicMuc`, with the lemmas about unsatisfiable
families in `SharedProofs`. `S` holds one formula at most, so what carries the
minimality is simpler: what is in play without one element of `MUC` is satisfiable
(`MUCNeeded`), from which `CoreHoldsMUC` follows, the reason why a test may leave out
`S`. Here the bound on the recursion is proved, too: every activation has taken a
conjunct off what is open (`DepthAndOpen`).

`AllMucProofs` proves for every finite `Conj`, every family, every core that a nested
extraction may return and every order of its members that `getAllMuc` finds all minimal
cores (`FindsAllCores`). The invariant keeps for each suspended call the core it has
extracted, with the rests already tried (`CallsHaveCores`); a core of the formula other
than this one misses one of its members, so it is a core of one of those rests
(`AllFound`). The formulas on the stack are proper parts of each other, hence no rest
that is skipped is still being searched, and `TriedMeansFound` holds.

Finitely many steps. Liveness is out of the prover's reach, but that an execution cannot
go on for ever is a safety property: for each of the modules below (what is left are
`GlobalMuc`, a straight line, and `CommandLine`, a loop that counts down) a state
function `Work` is defined, and the theorem `EachStepCounts` says that every step lowers
it and that it is a natural number before the step, for every instance and whatever is
chosen. What `Work` counts bounds the number of steps:

| module | what a step uses up |
|---|---|
| `BinaryMuc` | six units for each conjunct that is open, less three for each formula on `S`: a call that drops nothing cuts a formula in two, and `OneEach` says that there are no more formulas than conjuncts; the calls, twice for one that waits for a half (`Waiting`) |
| `NaiveMuc` | the open conjuncts and the suspended activations |
| `AllMuc` | the formulas that were never tried (`Untried`), one less for a nested call, and the members that the calls have still to take out (`Pending`). The recursion is on proper parts of a formula and would end without `allFormulas`, too, after more steps |
| `CarCheck` | the pairs of a frame and a UC that it does not have yet (`Untried`), and the calls that the stack still has room for |
| `DfsCheck` | the formulas that are not blocked (`Unblocked`), one less with every formula that is explored, and the calls that have still to return |
| `CheckMuc` | the conjuncts still to be tested |

With it only the absence of a deadlock and the fairness of the scheduler remain of
`Termination`, and these are what TLC adds. The arguments of `CarCheck` and
`DfsCheck` need invariants of their own, given below.

`CarCheckProofs` proves for every finite set of conjuncts and every encoding
with `IsEncoding` first the types, `FramesStep` (every UC is refuted by the frame
below it), `CoreNeverEmpty`, `SatIsRight` (the first half of `ShortestFirst`) and
`UnsatIsRight`. The strengthening
adds that the looping last states are blocked by no frame (`LoopsFree`, why no
core is empty), that every frame blocks the goal (`GoalBlocked`, why the goal is
among the states of the invariant that is found), and that the formulas on the
stack are linked by transitions (`StackLinked`, why a last state at its end
completes a trace). From the invariant follow three more:

- `FramesExact` and `ShortestFirst` speak of traces of every length. That a UC of frame
  `j` has no trace of `j + 1` states is an induction over `j` from `FramesStep`. The
  induction theorems of the library take an operator; `AllNumbers` of `SharedProofs`
  takes the set of the numbers that have the property instead.
- `AnswersRight`: `CarCheck` implements `SatCheck`. `UnsatIsRight` gives a set of models
  that holds every first state of the goal, no last state, and is closed under steps, so
  no number of steps leads from the goal to `Tail` (`CertifiedHasNoTrace`, again by
  `AllNumbers`). For the other answer a trace must be no longer than there are models:
  the models are finitely many (`FinitelyManyModels`), a path with a circle can be cut
  short, and the shortest has none (`ShortPath`). `SatisfiableMeansTrace` is the result
  of that: `Satisfiable`, which looks at boundedly many steps, means a trace of any
  length.

- The search is finite. While no invariant has been found, each frame leaves free an
  assignment that all frames before it block (`FramesUntilInvariant`). These
  assignments differ from each other and from the looping last states, which no frame
  blocks, so there are at most as many frames as assignments and one
  (`FewFrames`: `FramesBounded`). And `Step` or `Fail` never adds a UC that its frame
  has: what is refuted has just been found free in it (`Fresh`). There are finitely many
  pairs of a frame and a UC, hence `EachStepCounts`.

`DfsCheckProofs` proves of `dfs_check`, again for every encoding with its `IsEncoding`,
types, `EvidenceIsTrace`, `UnsatIsRight`, `NeverForever` and `AnswersRight`, that
`DfsCheck` implements `SatCheck`. Nothing is claimed of the answer of `check`, but for its
test of the global conjuncts (`GlobalPartSound`): a global conjunct is handed to every
state that can follow, and no last state takes them all. A formula is blocked as soon
as `sat_once` fails, long before it is known to have no trace, and UCs found
meanwhile rest on it. What holds at any time is `BlockedClosed`: whatever is blocked
is on the stack, is a global formula, or leads to blocked states only. When the
outermost call returns the stack is empty, so the models of the goal and of what is
blocked (`Explored`) are closed under transitions and no trace ends in them: that is
the certificate in `UnsatIsRight`, which refutes traces of any length at once. The
assertion `!unsat_forever_` holds because a model whose demands hold in itself is
never blocked (`LoopsFree`), so no UC is empty. The refinement needs one assumption more
than the safety properties: under `Tail` no whole formula depends on the Next variables,
so a formula that has a last state has one whose demands hold in itself, which the
certificate excludes. `ltlf_sat` checks it of the encodings of real formulas
(`EncodingAsAssumed`).

What BLSC has instead of frames is that it blocks a formula as soon as no last state
satisfies it. A nested call is about a formula that a model demands, and the model was
allowed, so it demands nothing that is blocked; that the formulas around it cannot be
among its conjuncts (`NoRepeat`, by `Nested`) bounds the recursion by the number of
formulas that can be demanded (`RecursionBounded`). The search ends because a
formula was not blocked when it was reached (`Nested`) and stays blocked for good.

`SharedProofs` proves what `Solver` takes for granted of ids: `unique()` keeps
the table free of duplicates and enters operands first (`UniqueKeepsTable`), so every
part of a formula has a smaller id than the formula (`PartsHaveSmallerIds`, the
comment at `solver.cpp:56`), and no SAT variable has two meanings
(`VariablesAreDistinct`) provided `Tail` was entered before the formula, which
`main.cpp:193` sees to. `LtlfSat` checks the conclusion, `VariablesDistinct`, on the
table that the rewritings really fill.

`GlobalMucProofs` proves for every formula, every assignment of ids to its obligations,
every family of unsatisfiable clause sets and every minimal subset that the tool may
write, that the answer is a conflict (`AnswersConflict`) and no file stays behind
(`FilesRemoved`). The answer is read from a file that is read long after it was written,
through a map that keeps one conjunct of those with the same obligation; the invariant
says at each place what the two files hold (`Files`), that the map is one of those that
the formula can give (`FalseFirst`), and, from `Extract` on, what the answer is worth
(`Answered`).

`MainProofs` proves both parts of `main.cpp`; it extends `CheckMuc` and `CommandLine`,
hence the names `ArgsSpec` and `argVars` in the latter. About the options it proves, for any set of
formulas, none of which is an option, and any number of arguments, that the first option
given that names a method decides the extraction (`OptionsDecide`). Since the loop counts
down, the first one given is the last one read: the invariant `ArgsInv` says of the
arguments read so far that the last one that names a method (`LastRead`) has decided.
About `check_muc` it proves for every finite set of conjuncts and every family that
the types hold, that the verdict is right exactly for a minimal core
(`VerdictCorrect`), and that the vector is at any time a rotation of the argument
in which the conjuncts tested so far stand at the front (`EachTested`). The
invariant that carries the loop says that the argument is unsatisfiable and that
it is satisfiable without any of the conjuncts that were put back.

Assumed in the proofs: the named ASSUMEs of the modules (finite constants, every
problem satisfies `IsProblem`, every encoding `IsEncoding`), nothing else; TLC evaluates
them on the instances of the runs. That real formulas satisfy these is what `ltlf_sat`
checks on its family (`OffSatIsRight`, `EncodingAsAssumed`).

The type invariants (`TypeOK`) of `BinaryMuc`, `NaiveMuc`, `CarCheck`, `CheckMuc`,
`AllMuc`, `GlobalMuc` and `DfsCheck` are proved for every instance, and so are some
invariants the others rest on (`Disjoint`, `FramesStep`, `TestedInTurn`, `UnsatIsRight` of
`CarCheck` and `DfsCheck`, and in `NaiveMuc` `StillUnsat` and `UCAssertionHolds`); the
runs do not repeat them.

Only model-checked: `Termination`, which is liveness under fairness and needs ENABLED,
both out of reach of the prover (of it, that no execution takes infinitely many steps is
proved, as `EachStepCounts`); and everything about formulas as data (`TypeOK` of `LtlfSat`,
`RewritingKeepsTraces`, `UnsatIsRight` of `LtlfSat`, `LabelsSuffice`,
`WalkFollowsTraces`, `EncodingAsAssumed`, `OffSatIsRight`, `OfgExact`,
`VariablesDistinct`), whose operators are recursive: a proof would be an induction over
the structure of formulas. Every other property of a passing run is the statement of a
theorem.

## 6. Findings

`EvidenceIsTrace` (`carchecker.cpp:219`): when `sat_once` of a next state fails
at `frame_level` 0, the loop goes on without taking the label of that transition
back (`continue` at line 227 skips the `pop_back` of line 233). The evidence of
a satisfiable formula then holds labels of abandoned transitions. The header
`ltlfchecker.h:50` says "If the checking result is SAT, traces_ finally store a
counterexample". For the formula `(G(!b | !a)) & X !b & F b & X F G b` the class
prints four labels that are not a trace of it. aaltaf itself prints no evidence
at present, since `main` asserts that the answer is unsat. `dfs_check` takes its
labels back (`ltlfchecker.cpp:153`); its evidence is a trace.

`AnswerIsMUC` (`msolver.cpp:98`): of the minimal clause set only the unit clauses
are used; the definitions were minimised with them, so a conjunct that is a
conflict by itself may come with another one that only a shorter set of
definitions needs. For `G(x & ((z|w) & (z|!w) & (!z|w) & (!z|!w))) & G(!x)` the
first conjunct alone is a core, but the clauses of `create_dimacs` have a minimal
subset with both unit clauses. `main.cpp:122` says "use the GLOBAL approach to
obtain MUC".

`OlgUnsatIsRight` (`formula/olg_item.cpp:116`): `plus_pos` returns at once for an
item whose literals share no position. But `off_pos`, called on a disjunction, passes
over subitems that had no common position before, and so leaves literals with a known
position below an item without one. A Next above does not move them, and rule 2
(`olg_item.cpp:826`, "There exists i s.t. ofp(\phi)\downarrow i = false => \phi is
false") puts literals of different states together.
`X X G((F(a | b) & a) | b) & X(!a & !b)` is found unsatisfiable; the trace
`{}, {}, {b}` satisfies it. `CARChecker` takes the answer of the heuristic for the
answer of the check (`carchecker.cpp:68`), and so does `LTLfChecker`
(`ltlfchecker.cpp:91`).

What the models show besides, without a run of its own:

- `getAllMuc` (`muc.cpp:259`) takes the members of a core out of the formula one by
  one and builds the conjunction of the rest before anything else. When the formula
  is one conjunct, the rest is empty and `assert(!S.empty())` (`muc.cpp:47`) fails.
  `AbortsOnlyOnSingles` says when: `X(a & !a)`, or `X(a & !a) & X(b & !b)`. The
  program does not call it (`main.cpp:76` is commented out).
- `main.cpp:173` refuses a second formula ("Error: read more than one input!") and the
  usage names one, but the counter is tested with `> 1` before it is increased
  (`main.cpp:171`): two formulas pass, the one given second is dropped without a
  message, and only a third one is refused. `Input` of `CommandLine` does what the code
  does; no property claims that it is right.
- No clause is made for `true` and `false` (`solver.cpp:67`), so a constant below a
  Next is as free as an atom. `main` simplifies constants away, but `sat` has that
  call commented out (`muc.cpp:35`) and may answer sat wrongly: from
  `d & (X false | ((a U b) & (!a & !b)))` a core is extracted that is not minimal.
- A constant that stands next to other conjuncts makes `olg_item::proj` go to operands
  that are not there (`olg_item.cpp:688`), as for `X(false) & b` in the pipeline of
  `sat`. The model ends in `"abort"` there.
- An atom of the input that is named `Tail` is the same object as the `Tail` of the
  rewriting (`aalta_formula.cpp:1678`).
- The comment at `solver.h:68` says that the id of Tail is that of the formula plus one;
  `main` makes it 1, and `VariablesDistinct` fails if it does not.

Two options do nothing, which the model shows by what it leaves out: `-e` ("print
example when result is SAT", `main.cpp:112`), since for a satisfiable formula
`assert (!res)` ends the program and the calls of `print_evidence` are commented
out, and `-blsc`, which sets a variable that only commented-out code reads.

## 7. Not modelled

- The parser: generated code that turns text into the syntax tree `LtlfSat` starts
  from.
- MiniSat and muser2, which make up most of the repository's lines: vendored, seen
  through their contracts (any model or any sufficient core; any minimal clause set,
  or no file).
- The hash function and hash tables behind `unique()`: that equal formulas are one
  object is assumed.
- `olg_formula::sat`, used for propositional formulas only, and `unsat2` and
  `GX_loop`, which nothing calls.
- The older functions of `aalta_formula` (`xnf`, `cf`, `progf`, `model`, the Dimacs
  output), which aaltaf does not reach.
- The DNF classes and the translators, which are not part of the program that the
  Makefile builds.
- Memory management, timing and the wording of the output.
