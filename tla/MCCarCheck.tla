------------------------------ MODULE MCCarCheck ------------------------------
(***************************************************************************)
(* Small encodings for car_check over the conjuncts l1 to l5.              *)
(***************************************************************************)
EXTENDS CarCheck

CONSTANTS l1, l2, l3, l4, l5

\* The models of a transition relation R (pairs of a state and a demand) in
\* which the states of F may be the last one.
Encoding(R, F) ==
  {[on |-> r[1], nx |-> r[2], tail |-> FALSE] : r \in R}
    \cup {[on |-> s, nx |-> {}, tail |-> TRUE] : s \in F}

Problem(R, F, goal, worlds) ==
  [models |-> Encoding(R, F), goal |-> goal, worlds |-> worlds,
   global |-> FALSE]

\* Every set of the conjuncts l1, l2 is a state, with one demand on the next
\* state or none.
Deterministic ==
  LET W == SUBSET {l1, l2}
  IN  {Problem({<<s, f[s]>> : s \in {w \in W : f[w] # {l3}}}, F, goal, W \cup {{l3}}) :
         f \in [W -> W \cup {{l3}}], F \in SUBSET W \ {{}}, goal \in {{l1}, {l1, l2}}}

\* Three states with one conjunct each, any relation between them.
Relations ==
  LET W == {{l1}, {l2}, {l3}}
  IN  {Problem(R, F, {l1}, W) : R \in SUBSET (W \X W), F \in SUBSET W \ {{}}}

\* The demand of a state is a state in a list of five, so that traces are
\* long and a state is a part of other ones.
Chains ==
  LET W == {{l1}, {l2}, {l3}, {l1, l2}, {l2, l3}}
  IN  {Problem({<<v, f[v]>> : v \in W}, {s}, {l1}, W) : f \in [W -> W], s \in W}

\* A trace through all of five states, or back to one of them: so long that
\* several frames are searched for an invariant.
Long ==
  LET W == {{l1}, {l2}, {l3}, {l4}, {l5}}
      order == <<{l1}, {l2}, {l3}, {l4}, {l5}>>
  IN  {Problem({<<order[i], order[i + 1]>> : i \in 1 .. 4} \cup {<<{l4}, back>>}, F, {l1}, W) :
         back \in W, F \in (SUBSET {{l3}, {l4}, {l5}}) \ {{}}}

\* A global goal that a state may hand on without naming it, as when one of two
\* alternatives is demanded.
Globals ==
  LET W == SUBSET {l1, l2}
  IN  {[p EXCEPT !.global = TRUE] :
         p \in {Problem({<<s, f[s]>> : s \in G}, F, {l1}, W) :
                  f \in [W -> {{l1}, {l2}}], G \in SUBSET W, F \in SUBSET W \ {{}}}}

\* Long traces and branching ones.
MCPaths == {p \in Relations \cup Chains \cup Long : IsEncoding(p)}

MCProblems ==
  {p \in Deterministic \cup Globals : IsEncoding(p)} \cup MCPaths
===============================================================================
