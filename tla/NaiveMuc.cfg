CONSTANTS
  c1 = c1
  c2 = c2
  c3 = c3
  c4 = c4
  Conj = {c1, c2, c3, c4}
  Problems <- MCAllProblems
SPECIFICATION FairSpec
INVARIANTS CoreHoldsMUC DepthBound
PROPERTIES Termination RefinesExtraction
