CONSTANTS
  sat = sat
  unsat = unsat
  unsatGlobal = unsatGlobal
  none = none
  Formulas = {sat, unsat, unsatGlobal}
  Satisfiable = {sat}
  Global = {unsatGlobal}
  MaxArgs = 4
SPECIFICATION ArgsSpec
INVARIANT OptionsDecide
