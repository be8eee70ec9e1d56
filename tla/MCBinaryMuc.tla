----------------------------- MODULE MCBinaryMuc -----------------------------
\* Every problem over four conjuncts.
EXTENDS BinaryMuc, MCProblems

CONSTANTS c1, c2, c3, c4

MCAllProblems == AllProblems(Conj)
==============================================================================
