------------------------------- MODULE MCAllMuc -------------------------------
\* Every family over four conjuncts, with and without conjuncts that are
\* unsatisfiable alone.
EXTENDS AllMuc, MCProblems

CONSTANTS c1, c2, c3, c4

MCFamilies == Antichains(Conj) \ {{}}
===============================================================================
