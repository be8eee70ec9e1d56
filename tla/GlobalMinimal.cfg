CONSTANTS
  c1 = c1
  c2 = c2
  c3 = c3
  i1 = i1
  i2 = i2
  d1 = d1
  d2 = d2
  Conj = {c1, c2, c3}
  Ids = {i1, i2}
  Defs = {d1, d2}
  Problems <- MCClauseProblems
SPECIFICATION Spec
INVARIANTS AnswerIsMUC
