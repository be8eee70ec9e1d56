-------------------------------- MODULE OlgItem --------------------------------
(***************************************************************************)
(* The off-line heuristic for unsatisfiability (olg_formula.cpp and        *)
(* olg_item.cpp).  A formula becomes a Boolean item over its literals.  A  *)
(* literal knows its position in the trace, -1 for unknown, and how often  *)
(* it has to hold: Once there, More for there and ever after, Inf for      *)
(* ever after some position.  The formula is unsatisfiable when the item,  *)
(* cut down to literals that fall into one state, is.                      *)
(*                                                                         *)
(* compos is the position that all literals of an item share, or -1.  The  *)
(* fields that only unsat2() reads are left out, it is never called.       *)
(***************************************************************************)
EXTENDS Ltlf

Constant(op) == [op |-> op, compos |-> 0]

Literal(op, id) == [op |-> op, id |-> id, pos |-> 0, freq |-> "Once", compos |-> 0]

Node(op, compos, l, r) == [op |-> op, compos |-> compos, left |-> l, right |-> r]

IsConstant(item) == item.op \in {"True", "False"}

IsLiteralItem(item) == item.op \in {"Literal", "Not"}

Common(l, r) == IF l.compos = r.compos THEN l.compos ELSE -1

RECURSIVE OffPos(_, _)

\* Changed form: the positions are kept.
OffPosNot(item, i) == item

\* off_pos(i): the position of every literal is unknown, under an Or (0) and
\* under an Until (1).  Subitems are skipped whose position was unknown before.
OffPos(item, i) ==
  LET Sub(s) == IF s.compos # -1 \/ s.op = "And" THEN OffPos(s, i) ELSE s
  IN  IF IsConstant(item) THEN item
      ELSE IF IsLiteralItem(item)
           THEN IF i = 0 THEN [item EXCEPT !.pos = -1, !.freq = "Once"]
                         ELSE [item EXCEPT !.pos = -1, !.compos = -1]
      ELSE [item EXCEPT !.left = Sub(item.left), !.right = Sub(item.right)]

RECURSIVE PlusPos(_)

\* plus_pos(): every position is one more, below a Next.
PlusPos(item) ==
  IF IsConstant(item) \/ (item.compos = -1 /\ item.op # "And") THEN item
  ELSE IF IsLiteralItem(item)
       THEN IF item.pos >= 0 THEN [item EXCEPT !.pos = @ + 1, !.compos = item.pos + 1]
                             ELSE [item EXCEPT !.compos = -1]
  ELSE LET l == PlusPos(item.left)
           r == PlusPos(item.right)
       IN  Node(item.op, Common(l, r), l, r)

RECURSIVE UnonceFreq(_)

\* unonce_freq(): what is below a G holds ever after.
UnonceFreq(item) ==
  CASE IsConstant(item) -> item
    [] IsLiteralItem(item) ->
         IF item.freq # "Once" THEN item
         ELSE [item EXCEPT !.freq = IF item.pos < 0 THEN "Inf" ELSE "More"]
    [] OTHER -> [item EXCEPT !.left = UnonceFreq(@), !.right = UnonceFreq(@)]

RECURSIVE BuildItem(_)

\* build().  Constants are absorbed.  A Release that is no G, and an Until, are
\* their right operands.
BuildItem(f) ==
  CASE Oper(f) \in {"And", "Or"} ->
         LET l == BuildItem(Left(f))
             r == BuildItem(Right(f))
             zero == IF Oper(f) = "And" THEN "False" ELSE "True"
             unit == IF Oper(f) = "And" THEN "True" ELSE "False"
         IN  IF l.op = zero \/ r.op = unit THEN l
             ELSE IF r.op = zero \/ l.op = unit THEN r
             ELSE LET n == Node(Oper(f), Common(l, r), l, r)
                  IN  IF Oper(f) = "Or" /\ n.compos = -1 THEN OffPos(n, 0) ELSE n
    [] Oper(f) = "Next"    -> PlusPos(BuildItem(f[2]))
    [] Oper(f) = "Release" -> IF IsGlobally(f) THEN UnonceFreq(BuildItem(Right(f)))
                              ELSE BuildItem(Right(f))
    [] Oper(f) = "Until"   -> OffPos(BuildItem(Right(f)), 1)
    [] Oper(f) \in {"True", "False"} -> Constant(Oper(f))
    [] Oper(f) = "Not"     -> Literal("Not", Oper(f[2]))
    [] OTHER               -> Literal("Literal", Oper(f))

RECURSIVE ChainOperands(_)

\* The conjuncts of the chain, which is not entered on the left.
ChainOperands(f) ==
  IF Oper(f) = "And" THEN <<Left(f)>> \o ChainOperands(Right(f)) ELSE <<f>>

RECURSIVE RootOf(_)

RootOf(items) ==
  IF Len(items) = 1 THEN Head(items) ELSE Node("And", 0, Head(items), RootOf(Tail(items)))

\* classify() and the constructor: an item for each conjunct.  The code takes
\* those of the G formulas first; no rule depends on the order.
ItemsOf(f) == LET C == ChainOperands(f) IN [i \in DOMAIN C |-> BuildItem(C[i])]

------------------------------------------------------------------------------
RECURSIVE Leaves(_)

Leaves(item) ==
  IF IsLiteralItem(item) THEN <<item>> ELSE Leaves(item.left) \o Leaves(item.right)

RECURSIVE Live(_, _, _)

\* proj() keeps the literals with their numbers in K; k literals stand before the
\* item.  An Or with an operand from which nothing is kept is dropped.
Live(item, k, K) ==
  IF IsLiteralItem(item) THEN {k + 1} \cap K
  ELSE LET l == Live(item.left, k, K)
           r == Live(item.right, k + Len(Leaves(item.left)), K)
       IN  IF item.op = "Or" /\ {} \in {l, r} THEN {} ELSE l \cup r

RECURSIVE CutHolds(_, _, _, _)

\* The item that proj() leaves is true in the state s.
CutHolds(item, k, K, s) ==
  LET H(sub, n) == CutHolds(sub, n, K, s)
      n2 == k + Len(Leaves(item.left))
  IN  CASE IsLiteralItem(item) ->
             k + 1 \in K => (item.op = "Literal" <=> item.id \in s)
        [] item.op = "And" -> H(item.left, k) /\ H(item.right, n2)
        [] item.op = "Or"  -> H(item.left, k) \/ H(item.right, n2)

\* SATCall() on what is left.
CutUnsat(item, K) ==
  LET ids == {Leaves(item)[j].id : j \in K}
  IN  \A s \in SUBSET ids : ~ CutHolds(item, 0, K, s)

\* unsat() of an item: the five rules.
ItemUnsat(item) ==
  LET L == Leaves(item)
      D == DOMAIN L
      More == {j \in D : L[j].freq = "More"}
      First == {j \in More : L[j].pos = 0}
      Upto(p) == {j \in D : L[j].pos = p} \cup {j \in More : L[j].pos \in 0 .. p}
      \* the copies of id among what holds ever after, in order, as many as are Inf
      Ever(id) ==
        LET V == Live(item, 0, More \cup {j \in D : L[j].id = id /\ L[j].freq = "Inf"})
            C == {j \in V : L[j].id = id} \ First
            n == Cardinality({j \in C : L[j].freq = "Inf"})
        IN  {j \in C : Cardinality({k \in C : k < j}) < n}
  IN  \/ CutUnsat(item, More)
      \/ \E j \in D : L[j].pos # -1 /\ CutUnsat(item, Upto(L[j].pos))
      \/ \E j \in D : L[j].pos = -1 /\ CutUnsat(item, First \cup {j})
      \/ \E i \in D : /\ L[i].freq = "Inf"
                       /\ \E j \in Ever(L[i].id) : CutUnsat(item, First \cup {j})

\* olg_formula::unsat().  A constant among several items has no literal and no
\* operands, which proj() goes to: the program ends there.
OlgCrashes(f) ==
  LET I == ItemsOf(f) IN Len(I) > 1 /\ \E i \in DOMAIN I : IsConstant(I[i])

OlgUnsat(f) ==
  LET root == RootOf(ItemsOf(f))
  IN  root.op = "False" \/ (~ IsConstant(root) /\ ItemUnsat(root))
==============================================================================
