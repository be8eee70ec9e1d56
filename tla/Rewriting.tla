------------------------------- MODULE Rewriting -------------------------------
(***************************************************************************)
(* The rewritings of aalta_formula.cpp that turn the syntax tree of the    *)
(* parser into the formula that a checker decides, and the obligation      *)
(* formulas of the heuristics.                                             *)
(*                                                                         *)
(* A syntax tree is a tuple like a formula, over the operators of the      *)
(* input language: ! X N G F U W R & | -> <->, true and false.             *)
(***************************************************************************)
EXTENDS Ltlf

RECURSIVE Build(_, _)

\* build(): negations are pushed to the atoms while the formula is built; the
\* second argument says that the tree is below an odd number of them.
Build(t, neg) ==
  LET B(s)     == Build(s, neg)
      Flip(s)  == Build(s, ~ neg)
      Pick(a, b) == IF neg THEN b ELSE a
  IN  CASE t[1] = "true"  -> Pick(True, False)
        [] t[1] = "false" -> Pick(False, True)
        [] t[1] = "!"     -> Flip(t[2])
        [] t[1] = "X"     -> Pick(X(B(t[2])), N(B(t[2])))
        [] t[1] = "N"     -> Pick(N(B(t[2])), X(B(t[2])))
        [] t[1] = "G"     -> Pick(Release(False, B(t[2])), Until(True, B(t[2])))
        [] t[1] = "F"     -> Pick(Until(True, B(t[2])), Release(False, B(t[2])))
        [] t[1] = "U"     -> Pick(Until(B(t[2]), B(t[3])), Release(B(t[2]), B(t[3])))
        [] t[1] = "R"     -> Pick(Release(B(t[2]), B(t[3])), Until(B(t[2]), B(t[3])))
        [] t[1] = "W"     -> Pick(Or(Release(False, B(t[2])), Until(B(t[2]), B(t[3]))),
                                  And(Until(True, B(t[2])), Release(B(t[2]), B(t[3]))))
        [] t[1] = "&"     -> Pick(And(B(t[2]), B(t[3])), Or(B(t[2]), B(t[3])))
        [] t[1] = "|"     -> Pick(Or(B(t[2]), B(t[3])), And(B(t[2]), B(t[3])))
        [] t[1] = "->"    -> Pick(Or(Flip(t[2]), B(t[3])), And(Flip(t[2]), B(t[3])))
        [] t[1] = "<->"   -> B(<<"&", <<"|", <<"!", t[2]>>, t[3]>>,
                                      <<"|", <<"!", t[3]>>, t[2]>>>>)
        [] OTHER          -> Pick(t, Not(t))

\* The formula with its operands replaced by what F makes of them.
MapOperands(F(_), f) == [k \in DOMAIN f |-> IF k = 1 THEN f[1] ELSE F(f[k])]

Dual(op) ==
  CASE op = "True"  -> "False"   [] op = "False"   -> "True"
    [] op = "Next"  -> "WNext"   [] op = "WNext"   -> "Next"
    [] op = "And"   -> "Or"      [] op = "Or"      -> "And"
    [] op = "Until" -> "Release" [] op = "Release" -> "Until"

RECURSIVE Nnf(_), NnfNot(_)

\* nnf().
Nnf(f) ==
  IF Oper(f) # "Not" THEN MapOperands(Nnf, f)
  ELSE IF Oper(f[2]) = "Not" THEN Nnf(f[2][2])
  ELSE NnfNot(f[2])

\* nnf_not(): the negation normal form of the negation.
NnfNot(f) ==
  IF IsAtom(f) THEN Not(f)
  ELSE IF Oper(f) = "Not" THEN Nnf(f[2])
  ELSE [MapOperands(NnfNot, f) EXCEPT ![1] = Dual(Oper(f))]

RECURSIVE AddTail(_)

\* add_tail(): X f is !Tail & X f.
AddTail(f) ==
  IF Oper(f) = "Next" THEN And(Not(TAIL), X(AddTail(f[2]))) ELSE MapOperands(AddTail, f)

RECURSIVE RemoveWNext(_)

\* remove_wnext(): N f is Tail | X f.
RemoveWNext(f) ==
  IF Oper(f) = "WNext" THEN Or(TAIL, X(RemoveWNext(f[2]))) ELSE MapOperands(RemoveWNext, f)

RECURSIVE SplitNext(_)

\* split_next(): Next is moved into conjunctions and disjunctions.
SplitNext(f) ==
  IF Oper(f) \notin {"Next", "WNext"} THEN MapOperands(SplitNext, f)
  ELSE IF Oper(f[2]) \in {"And", "Or"}
       THEN <<Oper(f[2]), SplitNext(<<Oper(f), f[2][2]>>), SplitNext(<<Oper(f), f[2][3]>>)>>
  ELSE LET r == SplitNext(f[2])
       IN  IF Oper(r) \in {"And", "Or"} THEN SplitNext(<<Oper(f), r>>) ELSE <<Oper(f), r>>

------------------------------------------------------------------------------
(***************************************************************************)
(* simplify().  The code sorts the conjuncts and the disjuncts by address, *)
(* drops duplicates and chains them; here they are sets.  is_conflict() is *)
(* called on pairs in that order; here on both orders.                     *)
(***************************************************************************)

RECURSIVE IsConflict(_, _)

ConflictsOne(f, g) == IsConflict(f, Left(g)) \/ IsConflict(f, Right(g))

ConflictsBoth(f, g) == IsConflict(f, Left(g)) /\ IsConflict(f, Right(g))

\* A pair among f and the conjuncts of g, or those of f and those of g.
ConflictingPair(f, g) ==
  LET S == ToSet(f) \cup ToSet(g) IN \E x, y \in S : x # y /\ IsConflict(x, y)

\* is_conflict(f, g): f and g cannot hold in the same state.
IsConflict(f, g) ==
  LET o == Oper(f)
      p == Oper(g)
  IN  CASE o = "False" \/ p = "False" -> TRUE
        [] p = "Release" -> IsConflict(IF o = "Release" THEN Right(f) ELSE f, Right(g))
        [] o = "Release" ->
             CASE p = "Or"  -> ConflictsBoth(Right(f), g)
               [] p = "And" -> ConflictsOne(Right(f), g)
               [] OTHER     -> IsConflict(g, Right(f))
        [] p = "Or" /\ o # "And" -> ConflictsBoth(f, g)
        [] p = "Until" /\ o \notin {"And", "Or"} -> ConflictsBoth(f, g)
        [] p = "And" /\ o \in {"Next", "Or"} -> ConflictsOne(f, g)
        [] p = "And" -> ConflictingPair(f, g)
        [] o \in {"And", "Or", "Until"} -> IsConflict(g, f)
        [] o = "Next" /\ p = "Next" -> IsConflict(f[2], g[2])
        [] OTHER -> f = Not(g) \/ g = Not(f)

RECURSIVE Simplify(_), Split(_, _)

\* split(op, ..., true): the simplified operands of op; one that becomes an op
\* by being simplified is split again.
Split(op, f) ==
  IF Oper(f) = op THEN Split(op, Left(f)) \cup Split(op, Right(f))
  ELSE Operands(op, Simplify(f))

\* simplify_and() and, when both are simplified, simplify_and_weak().
SimplifyAnd(l, r) ==
  LET S == (Split("And", l) \cup Split("And", r)) \ {True}
  IN  IF False \in S \/ \E x, y \in S : x # y /\ IsConflict(x, y) THEN False
      ELSE IF S = {} THEN True
      ELSE ChainOf("And", S)

\* Changed form: the literals on the left of an Until count, too.
MutexLiteralsLeft(S) ==
  S \cup UNION {ToOrSet(u[2]) \cup ToOrSet(u[3]) : u \in {v \in S : Oper(v) = "Until"}}

\* Where simplify_or() looks for literals: the disjuncts, and those on the right of
\* an Until.
MutexLiterals(S) ==
  S \cup UNION {ToOrSet(u[3]) : u \in {v \in S : Oper(v) = "Until"}}

\* mutex(): an atom and its negation are among the literals.
Mutex(M) == \E f \in M : IsAtom(f) /\ Not(f) \in M

\* simplify_or().
SimplifyOr(l, r) ==
  LET S == (Split("Or", l) \cup Split("Or", r)) \ {False}
      Covered(f) ==
        \/ Oper(f) = "Release" /\ Right(f) \in S
        \/ \E u \in S : Oper(u) = "Until" /\ Right(u) = f
      Kept == {f \in S : ~ Covered(f)}
  IN  IF True \in S \/ Mutex(MutexLiterals(S)) THEN True
      ELSE IF S = {} THEN False
      ELSE ChainOf("Or", Kept)

\* contain(Left, op, f) and contain(Right, op, f).
LeftIs(g, op, f) == Oper(g) = op /\ Left(g) = f

RightIs(g, op, f) == Oper(g) = op /\ Right(g) = f

\* simplify_until().
SimplifyUntil(a, b) ==
  LET l == Simplify(a)
      r == Simplify(b)
  IN  CASE \/ l = False \/ r = False \/ r = True
           \/ l \in ToOrSet(r)
           \/ LeftIs(r, "Until", l) \/ RightIs(r, "Until", l) \/ RightIs(r, "Release", l)
           \/ RightIs(l, "Release", r) -> r
        [] LeftIs(l, "Until", r) -> Simplify(Until(l[3], l[2]))
        [] RightIs(l, "Until", r) -> l
        [] RightIs(l, "Next", r) -> Simplify(Or(l, r))
        [] Oper(l) = "Next" /\ Oper(r) = "Next" -> Simplify(X(Simplify(Until(l[2], r[2]))))
        [] OTHER -> Until(l, r)

\* simplify_release().
SimplifyRelease(a, b) ==
  LET l == Simplify(a)
      r == Simplify(b)
  IN  CASE \/ l = True \/ r = False \/ r = True
           \/ l \in ToSet(r)
           \/ r \in ToOrSet(l)
           \/ LeftIs(r, "Release", l) \/ RightIs(r, "Release", l) \/ RightIs(r, "Until", l)
           \/ \E d \in ToOrSet(l) : RightIs(d, "Until", r) -> r
        [] LeftIs(l, "Release", r) -> Simplify(Release(l[3], l[2]))
        [] RightIs(l, "Release", r) -> l
        [] Oper(l) = "Next" /\ Oper(r) = "Next" -> Simplify(X(Simplify(Release(l[2], r[2]))))
        [] l = Not(r) \/ r = Not(l) -> Simplify(Release(False, r))
        [] OTHER -> Release(l, r)

\* simplify_next().
SimplifyNext(a) == LET s == Simplify(a) IN IF s \in {True, False} THEN s ELSE X(s)

\* simplify().
Simplify(f) ==
  CASE Oper(f) = "And"     -> SimplifyAnd(f[2], f[3])
    [] Oper(f) = "Or"      -> SimplifyOr(f[2], f[3])
    [] Oper(f) = "Next"    -> SimplifyNext(f[2])
    [] Oper(f) = "Until"   -> SimplifyUntil(f[2], f[3])
    [] Oper(f) = "Release" -> SimplifyRelease(f[2], f[3])
    [] OTHER -> f

------------------------------------------------------------------------------
RECURSIVE IsGlobal(_)

\* is_global().
IsGlobal(f) ==
  \/ IsGlobally(f)
  \/ Oper(f) \in {"And", "Or"} /\ IsGlobal(Left(f)) /\ IsGlobal(Right(f))

\* is_wnext_free().
IsWNextFree(f) == \A g \in Subformulas(f) : Oper(g) # "WNext"

RECURSIVE Ofr(_)

\* ofr(): what has to hold in every state.
Ofr(f) ==
  CASE Oper(f) \in {"And", "Or"} -> MapOperands(Ofr, f)
    [] Oper(f) \in {"Next", "WNext"} -> False
    [] Oper(f) \in {"Until", "Release"} -> Ofr(Right(f))
    [] OTHER -> f

RECURSIVE Off(_)

\* Changed form: what is below a Release has to hold once.
OffOnce(f) ==
  Simplify(CASE Oper(f) \in {"And", "Or"} -> MapOperands(Off, f)
             [] Oper(f) \in {"Next", "WNext", "Until", "Release"} -> Off(Right(f))
             [] OTHER -> f)

\* off(): the obligation.
Off(f) ==
  Simplify(CASE Oper(f) \in {"And", "Or"} -> MapOperands(Off, f)
             [] Oper(f) \in {"Next", "WNext", "Until"} -> Off(Right(f))
             [] Oper(f) = "Release" -> Ofr(Right(f))
             [] OTHER -> f)

RECURSIVE Ofg(_)

\* Changed form: the weak Next is taken for what it is about.
OfgOfWNext(f) ==
  Simplify(CASE Oper(f) \in {"And", "Or"} -> MapOperands(Ofg, f)
             [] Oper(f) = "Next" -> False
             [] Oper(f) \in {"WNext", "Until", "Release"} -> Ofg(Right(f))
             [] OTHER -> f)

\* ofg(): the obligation of a global formula, which one last state can meet.
Ofg(f) ==
  Simplify(CASE Oper(f) \in {"And", "Or"} -> MapOperands(Ofg, f)
             [] Oper(f) = "Next" -> False
             [] Oper(f) = "WNext" -> True
             [] Oper(f) \in {"Until", "Release"} -> Ofg(Right(f))
             [] OTHER -> f)
==============================================================================
