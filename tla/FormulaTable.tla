------------------------------ MODULE FormulaTable ------------------------------
(***************************************************************************)
(* The table of all formulas (all_afs of aalta_formula.cpp) and the        *)
(* variables that Solver makes of it.  A formula is entered once, by       *)
(* unique(), and its id is its place in the order of entering; here the    *)
(* table T is the sequence of the formulas in that order.                  *)
(*                                                                         *)
(* The SAT solver of the formula f uses the ids as variables.  What is no  *)
(* formula (the Next of an Until or Release, the auxiliary variables, the  *)
(* flags of the frames) gets the numbers after the id of f, in the order   *)
(* of the sequence fresh, although formulas may have these ids, too.       *)
(***************************************************************************)
EXTENDS Integers, Sequences

Entries(T) == {T[i] : i \in DOMAIN T}

Id(T, f) == CHOOSE i \in DOMAIN T : T[i] = f

\* unique(): the formula is entered when it is not in the table.
Unique(T, f) == IF f \in Entries(T) THEN T ELSE Append(T, f)

\* The variable of u: a formula in the table, or a member of fresh, which
\* ++max_used_id_ has given a number.
Variable(T, f, fresh, u) ==
  IF u \in Entries(fresh) THEN Id(T, f) + Id(fresh, u) ELSE Id(T, u)

\* No variable of the solver of f has two meanings.
DistinctVariables(T, f, known, fresh) ==
  \A u, v \in known \cup Entries(fresh) :
    Variable(T, f, fresh, u) = Variable(T, f, fresh, v) => u = v

------------------------------------------------------------------------------
\* No formula is twice in the table.
Injective(T) == \A i, j \in DOMAIN T : T[i] = T[j] => i = j

\* The operands of a formula are entered before it.  operands is a function from
\* formulas to sets of formulas.
OperandsFirst(T, operands) ==
  \A i \in DOMAIN T : \A g \in operands[T[i]] : \E j \in 1 .. i - 1 : T[j] = g

\* f and what it is made of: what every set holds that f is in and that operands
\* do not leave.
Parts(operands, f) ==
  {g \in DOMAIN operands :
     \A C \in SUBSET DOMAIN operands :
       f \in C /\ (\A h \in C : operands[h] \subseteq C) => g \in C}
================================================================================
