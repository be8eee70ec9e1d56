CONSTANTS
  l1 = l1
  l2 = l2
  l3 = l3
  l4 = l4
  l5 = l5
  Lits = {l1, l2, l3, l4, l5}
  Problems <- MCPaths
SPECIFICATION Spec
INVARIANTS EvidenceIsTrace
