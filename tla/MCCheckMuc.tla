------------------------------ MODULE MCCheckMuc ------------------------------
\* Every family over four conjuncts, and every vector of them.
EXTENDS CheckMuc, MCProblems

CONSTANTS c1, c2, c3, c4

MCFamilies == Antichains(Conj)
===============================================================================
