------------------------------ MODULE MCNaiveMuc ------------------------------
\* Every problem over four conjuncts.
EXTENDS NaiveMuc, MCProblems

CONSTANTS c1, c2, c3, c4

MCAllProblems == AllProblems(Conj)
==============================================================================
