CONSTANTS
  c1 = c1
  c2 = c2
  c3 = c3
  c4 = c4
  Conj = {c1, c2, c3, c4}
  Families <- MCFamilies
SPECIFICATION FairSpec
INVARIANTS VerdictIsRight
PROPERTIES Termination
