----------------------------- MODULE MCCommandLine -----------------------------
(***************************************************************************)
(* Three formulas: a satisfiable one, an unsatisfiable one and an          *)
(* unsatisfiable global one; every command line of up to four arguments.   *)
(***************************************************************************)
EXTENDS CommandLine

CONSTANTS sat, unsat, unsatGlobal
==============================================================================
