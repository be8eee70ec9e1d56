------------------------------ MODULE CommandLine ------------------------------
(***************************************************************************)
(* ltlf_sat() and get_muc() of main.cpp: the options are read from the     *)
(* last argument to the first, the formula is checked for satisfiability,  *)
(* and a core is extracted with the method and the heuristic that the      *)
(* options have left in the global variables.                              *)
(*                                                                         *)
(* Of a formula only three facts are seen: that it is another than the     *)
(* next one, whether it is satisfiable and whether it is a global formula. *)
(* Each extraction is a module of its own; here it is its name.  The names *)
(* of the specification leave room for those of CheckMuc, the other part   *)
(* of main.cpp, in the module of the proofs about both.                    *)
(***************************************************************************)
EXTENDS Integers, Sequences, SequencesExt

CONSTANTS
  Formulas,     \* the formulas that can be given
  Satisfiable,  \* those with a finite trace
  Global,       \* those for which is_global() holds
  MaxArgs,      \* the bound on the number of arguments
  none          \* no formula read

ASSUME MaxArgsAssumption == MaxArgs \in Nat

Flags == {"-v", "-e", "-blsc", "-t", "-c"}

Methods == {"-naive", "-naive-uc", "-binary", "-binary-uc", "-global"}

Options == Flags \cup Methods \cup {"-h"}

Arguments == Options \cup Formulas

\* What is an option is not read as a formula.
ASSUME FormulasAssumption ==
  /\ Satisfiable \subseteq Formulas /\ Global \subseteq Formulas
  /\ none \notin Formulas
  /\ Formulas \cap Options = {}

VARIABLES
  argv,         \* the arguments
  index,        \* i, the loop variable, the number of arguments to read
  flags,        \* the flags set: verbose, evidence, blsc, ...
  method,
  UCEable,
  in,           \* the formula read
  input_count,
  engine,       \* the extraction that was run
  stage         \* where ltlf_sat is

argVars == <<argv, index, flags, method, UCEable, in, input_count, engine, stage>>

ArgsInit ==
  /\ argv \in BoundedSeq(Arguments, MaxArgs)
  /\ index = Len(argv)
  /\ flags = {}
  /\ method = "binary"
  /\ UCEable = FALSE
  /\ in = none
  /\ input_count = 0
  /\ engine = "none"
  /\ stage = "options"

arg == argv[index]

\* -v, -e, -blsc, -t, -c.
Flag ==
  /\ stage = "options" /\ index > 0
  /\ arg \in Flags
  /\ flags' = flags \cup {arg}
  /\ index' = index - 1
  /\ UNCHANGED <<argv, method, UCEable, in, input_count, engine, stage>>

\* -h prints the help and ends the program.
Help ==
  /\ stage = "options" /\ index > 0
  /\ arg = "-h"
  /\ stage' = "exit"
  /\ UNCHANGED <<argv, index, flags, method, UCEable, in, input_count, engine>>

MethodOf(o) ==
  CASE o \in {"-naive", "-naive-uc"} -> "naive"
    [] o \in {"-binary", "-binary-uc"} -> "binary"
    [] OTHER -> "global"

\* The heuristic is switched on by the options that name it, never off.
Heuristic(o) == UCEable \/ o \in {"-naive-uc", "-binary-uc"}

\* An option that names a method.
Method ==
  /\ stage = "options" /\ index > 0
  /\ arg \in Methods
  /\ method' = MethodOf(arg)
  /\ UCEable' = Heuristic(arg)
  /\ index' = index - 1
  /\ UNCHANGED <<argv, flags, in, input_count, engine, stage>>

\* Anything else is a formula, and replaces the one read before.
Input ==
  /\ stage = "options" /\ index > 0
  /\ arg \in Formulas
  /\ IF input_count > 1
     THEN stage' = "error" /\ UNCHANGED <<index, in, input_count>>
     ELSE /\ in' = arg
          /\ input_count' = input_count + 1
          /\ index' = index - 1
          /\ UNCHANGED stage
  /\ UNCHANGED <<argv, flags, method, UCEable, engine>>

\* No formula among the arguments: one is read from the input, if it has one.
ReadInput ==
  /\ stage = "options" /\ index = 0
  /\ input_count = 0
  /\ \/ in' \in Formulas /\ stage' = "formula"
     \/ in' = none /\ stage' = "error"
  /\ UNCHANGED <<argv, index, flags, method, UCEable, input_count, engine>>

GotInput ==
  /\ stage = "options" /\ index = 0
  /\ input_count > 0
  /\ stage' = "formula"
  /\ UNCHANGED <<argv, index, flags, method, UCEable, in, input_count, engine>>

\* -t prints the formula and returns.
PrintFormula ==
  /\ stage = "formula"
  /\ "-t" \in flags
  /\ stage' = "exit"
  /\ UNCHANGED <<argv, index, flags, method, UCEable, in, input_count, engine>>

\* assert(!res)
Unsatisfiable(f) == f \notin Satisfiable

\* The satisfiability check, by CARChecker whatever the options, and its
\* assertion.
Check ==
  /\ stage = "formula"
  /\ "-t" \notin flags
  /\ stage' = IF Unsatisfiable(in) THEN "extract" ELSE "abort"
  /\ UNCHANGED <<argv, index, flags, method, UCEable, in, input_count, engine>>

\* Changed form: -global takes MUCSolver for every formula.
EngineByMethod(f) == method

\* get_muc: MUCSolver only for a global formula, muc() in its place for another.
Engine(f) ==
  IF method = "global" THEN IF f \in Global THEN "global" ELSE "binary" ELSE method

\* get_muc: extract a core and print it.
Extract ==
  /\ stage = "extract"
  /\ engine' = Engine(in)
  /\ stage' = "exit"
  /\ UNCHANGED <<argv, index, flags, method, UCEable, in, input_count>>

ArgsTerminated == stage \in {"exit", "error", "abort"} /\ UNCHANGED argVars

ArgsNext ==
  \/ Flag \/ Help \/ Method \/ Input \/ ReadInput \/ GotInput
  \/ PrintFormula \/ Check \/ Extract \/ ArgsTerminated

ArgsSpec == ArgsInit /\ [][ArgsNext]_argVars

------------------------------------------------------------------------------
\* The k-th argument is the first one given of its kind.
FirstGiven(kind, k) ==
  argv[k] \in kind /\ \A j \in 1 .. k - 1 : argv[j] \notin kind

\* The method of the extraction is that of the first option given that names
\* one, whatever options follow it; MUCSolver only sees global formulas, whose
\* obligations are all that decides them.  The heuristic is used when any option
\* names it, also one whose method does not win.
OptionsDecide ==
  engine # "none" =>
    /\ engine = "global" => in \in Global
    /\ (\A k \in DOMAIN argv : argv[k] \notin Methods) => engine = "binary"
    /\ \A k \in DOMAIN argv : FirstGiven(Methods, k) =>
         \/ engine = MethodOf(argv[k])
         \/ MethodOf(argv[k]) = "global" /\ engine = "binary" /\ in \notin Global
    /\ UCEable <=> \E k \in DOMAIN argv : argv[k] \in {"-naive-uc", "-binary-uc"}
==============================================================================
