-------------------------------- MODULE Traces --------------------------------
(***************************************************************************)
(* Finite traces as the searches for one see them.                         *)
(*                                                                         *)
(* A formula is a conjunction, given by the set of its conjuncts; a        *)
(* conjunct has no structure.  The SAT solver holds the one-step encoding  *)
(* of all subformulas; what a search can observe of it is the set of its   *)
(* models.  A model is one state of a trace, a record:                     *)
(*   on   - the conjuncts that are true in it,                             *)
(*   nx   - the conjuncts that the next state has to satisfy (the          *)
(*          formulas whose Next is true),                                  *)
(*   tail - whether Tail is true, so the state may be the last one.        *)
(***************************************************************************)
EXTENDS Integers, FiniteSets, Sequences

\* tr is a finite trace of the formula c: every state satisfies what the one
\* before it demands, and the last one alone has Tail.
IsTrace(c, tr) ==
  /\ tr # <<>>
  /\ c \subseteq tr[1].on
  /\ \A i \in 1 .. Len(tr) - 1 : tr[i].nx \subseteq tr[i + 1].on
  /\ \A i \in 1 .. Len(tr) : tr[i].tail <=> i = Len(tr)

\* Starts(M)[k] are the models in M that k steps lead from to one with Tail.
Starts(M) ==
  LET S[k \in Nat] ==
        IF k = 0 THEN {m \in M : m.tail}
        ELSE LET G == S[k - 1] IN {m \in M : \E n \in G : m.nx \subseteq n.on}
  IN  S

\* The formula c has a trace of models in M.  None needs more states than there
\* are models.
Satisfiable(M, c) ==
  \E k \in 0 .. Cardinality(M) - 1 : \E m \in Starts(M)[k] : c \subseteq m.on
===============================================================================
