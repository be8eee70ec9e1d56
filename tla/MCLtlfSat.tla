------------------------------- MODULE MCLtlfSat -------------------------------
(***************************************************************************)
(* Families of small formulas over two atoms, without true and false.      *)
(***************************************************************************)
EXTENDS LtlfSat

Un(op, f) == <<op, f>>
Bin(op, f, g) == <<op, f, g>>

a == <<"a">>
b == <<"b">>
na == Un("!", a)
nb == Un("!", b)

\* What the families are made of.
Terms ==
  {a, nb, Un("X", a), Un("N", nb), Un("X", na), Un("G", a), Un("F", nb),
   Bin("U", a, b), Bin("R", b, a)}

Globals == {Un("G", f) : f \in {a, nb, Un("X", b), Un("N", na), Bin("|", na, b), Bin("U", na, b)}}

\* Two terms below each of the operators.
Pairs ==
  {ChainOf(op, S) : op \in {"&", "|"}, S \in kSubset(2, Terms)}
    \cup {Bin(op, f, g) : op \in {"U", "R"}, f, g \in Terms}
    \cup {Bin(op, f, Un("X", a)) : op \in {"W", "->", "<->"}, f \in Terms}
    \cup {Un("!", Bin(op, Un("X", a), f)) : op \in {"W", "->", "<->", "U", "&"}, f \in Terms}

\* Three conjuncts, which often have no trace.
Conjunctions ==
  {ChainOf("&", S) : S \in kSubset(3, {a, na, Un("X", b), Un("F", na), Un("G", nb),
                                       Bin("U", nb, a), Bin("R", na, b)})}

\* Three disjuncts, which every trace may satisfy.
Disjunctions ==
  {ChainOf("|", S) : S \in kSubset(3, {a, na, b, Un("X", nb), Un("G", na), Bin("U", a, b), Bin("R", b, a)})}

\* Next above and below the other operators.
Nested ==
  {Un("X", Bin(op, f, g)) : op \in {"&", "U", "|"}, f \in {a, Un("X", nb)}, g \in {nb, Un("G", na)}}
    \cup {Un(op, Bin("&", f, Un("X", g))) : op \in {"F", "G"}, f \in {a, Un("N", b)}, g \in {b, na, Un("F", nb)}}
    \cup {Bin("&", Un("X", Un("X", a)), f) : f \in {Un("X", Un("X", na)), Un("X", Un("N", na)), Un("F", Un("G", na))}}

\* An atom and a G formula that is about it.
Responses ==
  {Bin("&", Bin("&", a, Un("G", Bin("|", na, f))), g) :
     f \in {nb, Un("X", a), Un("X", b), Un("F", b), Un("X", Un("F", na))},
     g \in {b, Un("X", b), Un("G", nb), Un("F", na)}}

\* Global formulas, also disjunctions of them.
GlobalOnes ==
  Globals \cup {ChainOf(op, S) : op \in {"&", "|"}, S \in kSubset(2, Globals)}
    \cup {ChainOf("&", S) : S \in kSubset(3, Globals)}

MCInputs == Pairs \cup Conjunctions \cup Disjunctions \cup Nested \cup Responses \cup GlobalOnes

\* Two conjuncts whose literals fall into states two apart.
MCPositions ==
  {Bin("&", Un("X", Un("X", Un("G", Bin("|", Bin("&", Un("F", Bin("|", a, b)), a), b)))),
            Un("X", Bin("&", na, nb)))}
===============================================================================
