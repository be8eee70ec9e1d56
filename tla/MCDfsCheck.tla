------------------------------ MODULE MCDfsCheck ------------------------------
(***************************************************************************)
(* Small encodings for dfs_check over the conjuncts l1 to l5.              *)
(***************************************************************************)
EXTENDS DfsCheck

CONSTANTS l1, l2, l3, l4, l5

State(s, d, last) == [on |-> s, nx |-> d, tail |-> last]

\* The problem of a transition relation R, pairs of a state and a demand, in
\* which the states of F may be the last one.
Problem(R, F, goal) ==
  [models |-> {State(r[1], r[2], FALSE) : r \in R} \cup {State(s, {}, TRUE) : s \in F},
   goal |-> goal, named |-> UNION {r[2] : r \in R}, globals |-> {}]

\* Three states, any transitions between them, to any state, or to none of them.
Relations ==
  LET W == {{l1}, {l2}, {l1, l2}}
  IN  {Problem(R, F, {l1}) :
         R \in SUBSET (W \X {{}, {l1}, {l2}, {l3}}), F \in {{{l2}}, {{l1, l2}}, {{l3}}}}

\* Five states and six transitions between them, on long paths and circles.
Long ==
  LET order == <<{l1}, {l2}, {l3}, {l4}, {l5}>>
      W == {order[i] : i \in 1 .. 5}
  IN  {Problem({<<order[i], order[i + 1]>> : i \in 1 .. 4} \cup {<<{l2}, c>>, <<{l4}, d>>}, F, {l1}) :
         c, d \in W, F \in {{{l3}}, {{l5}}, {{l1, l5}}}}

\* A state that can be the last one although its demand cannot be met there, and
\* one with a part of its conjuncts that demands nothing.
Demanding ==
  {[p EXCEPT !.models = @ \cup {State(s, {d}, TRUE), State(e, {}, TRUE)}, !.named = @ \cup {d}] :
     p \in Long, s \in {{l1, l2}, {l2, l3}, {l4}}, d \in {l3, l5},
     e \in {{l1}, {l2}, {l3}, {l4}, {l1, l2}}}

\* One conjunct, or two, that every state hands to the next one.
Global ==
  LET W == SUBSET {l1, l2, l3} \ {{}}
      Hands(G) == {<<s, d>> \in W \X SUBSET {l1, l2, l3} : (s \cap G) \subseteq d}
  IN  {[Problem({r \in Hands(G) : r[2] \in D}, F, goal) EXCEPT !.globals = G] :
         G \in {{l1}, {l1, l2}}, D \in SUBSET {{l1}, {l1, l2}, {l2, l3}, {l1, l3}},
         F \in {{{l2}}, {{l1, l2}}, {{l3}, {l1}}}, goal \in {{l1}, {l1, l3}, {l2, l3}}}

\* A global conjunct comes up on the way, in a formula that is not global.
Late ==
  {[Problem({<<{l2}, {l1, l3}>>, <<{l1, l3}, d>>, <<{l1, l2}, e>>}, F, {l2}) EXCEPT !.globals = {l1}] :
     d, e \in {{l1}, {l1, l2}, {l1, l3}}, F \in (SUBSET {{l1}, {l1, l2}, {l1, l2, l3}}) \ {{}}}

MCProblems ==
  {p \in Relations \cup Long \cup Demanding \cup Global \cup Late : IsEncoding(p)}
===============================================================================
