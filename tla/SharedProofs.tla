----------------------------- MODULE SharedProofs -----------------------------
(***************************************************************************)
(* Facts about the definitions that several models share: sets of natural  *)
(* numbers, unsatisfiable families, traces, and the table of formulas.     *)
(***************************************************************************)
EXTENDS UnsatCore, Traces, FormulaTable, FiniteSetTheorems, WellFoundedInduction, TLAPS

------------------------------------------------------------------------------
(* Natural numbers. *)

\* A non-empty set of natural numbers has a smallest member.
LEMMA Smallest ==
  ASSUME NEW T \in SUBSET Nat, T # {}
  PROVE  \E n \in T : \A k \in T : n <= k
  <1> DEFINE R == OpToRel(<, Nat)
  <1>1. IsWellFoundedOn(R, Nat)
    BY NatLessThanWellFounded
  <1>2. \A x, y \in Nat : y < x => <<y, x>> \in R
    BY DEF OpToRel
  <1> HIDE DEF R
  <1>3. PICK x \in T : \A y \in T : ~ (<<y, x>> \in R)
    BY <1>1, WFMin
  <1>4. x \in Nat /\ \A k \in T : k \in Nat /\ ~ (k < x)
    BY <1>2, <1>3
  <1>5. \A k \in T : x <= k
    BY <1>4
  <1>6. QED
    BY <1>5

\* Induction, for a property given by the set T of the numbers that have it.
LEMMA AllNumbers ==
  ASSUME NEW T, 0 \in T, \A k \in Nat : k \in T => k + 1 \in T
  PROVE  \A k \in Nat : k \in T
  <1>1. SUFFICES ASSUME Nat \ T # {} PROVE FALSE
    OBVIOUS
  <1>2. PICK n \in Nat \ T : \A k \in Nat \ T : n <= k
    BY <1>1, Smallest
  <1>3. n - 1 \in Nat /\ (n - 1) + 1 = n
    BY <1>2
  <1>4. n - 1 \in T
    BY <1>2, <1>3
  <1>5. QED
    BY <1>2, <1>3, <1>4

------------------------------------------------------------------------------
(* Sequences. *)

\* A sequence without its last member.
LEMMA AllButLast ==
  ASSUME NEW S, NEW s \in Seq(S), s # <<>>
  PROVE  /\ Len(s) \in Nat \ {0}
         /\ SubSeq(s, 1, Len(s) - 1) \in Seq(S)
         /\ Len(SubSeq(s, 1, Len(s) - 1)) = Len(s) - 1
         /\ \A i \in 1 .. Len(s) - 1 : SubSeq(s, 1, Len(s) - 1)[i] = s[i]
  <1>1. Len(s) \in Nat \ {0}
    OBVIOUS
  <1>2. SubSeq(s, 1, Len(s) - 1) = [i \in 1 .. Len(s) - 1 |-> s[i]]
    BY <1>1
  <1>3. QED
    BY <1>1, <1>2

------------------------------------------------------------------------------
(* Unsatisfiable families: the oracle is monotone, and what the UC heuristic
   returns may replace the formula it was asked about. *)

\* Adding conjuncts keeps a conjunction unsatisfiable.
LEMMA UnsatMonotonic ==
  ASSUME NEW cores, NEW X, NEW Y, X \subseteq Y, Unsat(cores, X)
  PROVE  Unsat(cores, Y)
  BY DEF Unsat

\* Dropping conjuncts keeps a conjunction satisfiable.
LEMMA SatAntitonic ==
  ASSUME NEW cores, NEW X, NEW Y, X \subseteq Y, Sat(cores, Y)
  PROVE  Sat(cores, X)
  BY UnsatMonotonic DEF Sat

\* What the UC step returns: newf itself, or a non-empty part of it that is
\* unsatisfiable together with the rest.
LEMMA SelectedPart ==
  ASSUME NEW p, NEW newf, NEW items,
         NEW X \in SelectParts(p, newf, items)
  PROVE  \/ X = newf
         \/ /\ X \subseteq newf
            /\ X # {}
            /\ Unsat(p.cores, X \cup UNION items)
  BY DEF SelectParts, AcceptCore, UnsatCores

\* A problem whose formulas are unsatisfiable has unsatisfiable obligations.
LEMMA ObligationsUnsat ==
  ASSUME NEW C, NEW p, IsProblem(C, p), NEW X, Unsat(p.cores, X)
  PROVE  Unsat(p.off, X)
  <1>1. PICK A \in p.cores : A \subseteq X
    BY DEF Unsat
  <1>2. Unsat(p.off, A)
    BY DEF IsProblem
  <1>3. QED
    BY <1>1, <1>2, UnsatMonotonic

------------------------------------------------------------------------------
(* Traces. *)

\* The paths of k steps in M from m to a model with Tail.
Paths(M, m, k) ==
  {tr \in [1 .. k + 1 -> M] : /\ tr[1] = m
                              /\ \A i \in 1 .. k : tr[i].nx \subseteq tr[i + 1].on
                              /\ tr[k + 1].tail}

PathStarts(M) == [k \in Nat |-> {m \in M : Paths(M, m, k) # {}}]

\* The models with a step to a model in G.
Before(M, G) == {m \in M : \E n \in G : m.nx \subseteq n.on}

\* A path of no step is a model with Tail.
LEMMA PathOfNoStep ==
  ASSUME NEW M, NEW m \in M
  PROVE  Paths(M, m, 0) # {} <=> m.tail
  <1>1. ASSUME m.tail PROVE Paths(M, m, 0) # {}
    <2>1. [i \in 1 .. 1 |-> m] \in Paths(M, m, 0)
      BY <1>1 DEF Paths
    <2>2. QED
      BY <2>1
  <1>2. ASSUME NEW tr \in Paths(M, m, 0) PROVE m.tail
    BY DEF Paths
  <1>3. QED
    BY <1>1, <1>2

\* The path after the first step of a path.
LEMMA PathAfterStep ==
  ASSUME NEW M, NEW m \in M, NEW k \in Nat \ {0}, NEW tr \in Paths(M, m, k)
  PROVE  \E n \in M : Paths(M, n, k - 1) # {} /\ m.nx \subseteq n.on
  <1> DEFINE t == [i \in 1 .. k |-> tr[i + 1]]
  <1>0. k - 1 \in Nat /\ (k - 1) + 1 = k
    OBVIOUS
  <1>1. /\ tr \in [1 .. k + 1 -> M] /\ tr[1] = m /\ tr[k + 1].tail
        /\ \A i \in 1 .. k : tr[i].nx \subseteq tr[i + 1].on
    BY DEF Paths
  <1>2. t \in [1 .. k -> M] /\ t[1] = tr[2] /\ t[k] = tr[k + 1]
    BY <1>0, <1>1
  <1>3. ASSUME NEW i \in 1 .. k - 1 PROVE t[i].nx \subseteq t[i + 1].on
    <2>1. i + 1 \in 1 .. k /\ i \in 1 .. k
      BY <1>0
    <2>2. t[i] = tr[i + 1] /\ t[i + 1] = tr[(i + 1) + 1]
      BY <2>1
    <2>3. tr[i + 1].nx \subseteq tr[(i + 1) + 1].on
      BY <1>1, <2>1
    <2>4. QED
      BY <2>2, <2>3
  <1> HIDE DEF t
  <1>4. t \in Paths(M, tr[2], k - 1)
    BY <1>0, <1>1, <1>2, <1>3 DEF Paths
  <1>5. tr[2] \in M /\ m.nx \subseteq tr[2].on
    <2>1. 2 \in 1 .. k + 1 /\ 1 \in 1 .. k
      BY <1>0
    <2>2. tr[1].nx \subseteq tr[1 + 1].on
      BY <1>1, <2>1
    <2>3. QED
      BY <1>1, <2>1, <2>2
  <1>6. QED
    BY <1>4, <1>5

\* A step before a path makes a path.
LEMMA StepBeforePath ==
  ASSUME NEW M, NEW m \in M, NEW k \in Nat \ {0}, NEW n \in M,
         NEW tr \in Paths(M, n, k - 1), m.nx \subseteq n.on
  PROVE  Paths(M, m, k) # {}
  <1> DEFINE t == [i \in 1 .. k + 1 |-> IF i = 1 THEN m ELSE tr[i - 1]]
  <1>0. k - 1 \in Nat /\ (k - 1) + 1 = k
    OBVIOUS
  <1>1. /\ tr \in [1 .. k -> M] /\ tr[1] = n /\ tr[k].tail
        /\ \A i \in 1 .. k - 1 : tr[i].nx \subseteq tr[i + 1].on
    BY <1>0 DEF Paths
  <1>2. ASSUME NEW i \in 2 .. k + 1 PROVE i - 1 \in 1 .. k /\ t[i] = tr[i - 1]
    BY <1>0
  <1>3. t \in [1 .. k + 1 -> M] /\ t[1] = m
    <2>1. ASSUME NEW i \in 1 .. k + 1 PROVE (IF i = 1 THEN m ELSE tr[i - 1]) \in M
      BY <1>0, <1>1
    <2>2. QED
      BY <1>0, <2>1
  <1>4. t[k + 1] = tr[k]
    BY <1>0, <1>2
  <1> HIDE DEF t
  <1>5. ASSUME NEW i \in 1 .. k PROVE t[i].nx \subseteq t[i + 1].on
    <2>1. CASE i = 1
      <3>1. t[i + 1] = n
        BY <1>0, <1>1, <1>2, <2>1
      <3>2. QED
        BY <1>3, <2>1, <3>1
    <2>2. CASE i # 1
      <3>1. /\ i - 1 \in 1 .. k - 1 /\ i \in 2 .. k + 1 /\ i + 1 \in 2 .. k + 1
            /\ (i + 1) - 1 = i /\ (i - 1) + 1 = i
        BY <1>0, <2>2
      <3>2. t[i] = tr[i - 1] /\ t[i + 1] = tr[i]
        BY <1>2, <3>1
      <3>3. tr[i - 1].nx \subseteq tr[i].on
        BY <1>1, <3>1
      <3>4. QED
        BY <3>2, <3>3
    <2>3. QED
      BY <2>1, <2>2
  <1>6. t \in Paths(M, m, k)
    BY <1>1, <1>3, <1>4, <1>5 DEF Paths
  <1>7. QED
    BY <1>6

\* The starts of paths satisfy the equation that defines Starts.
LEMMA PathSteps ==
  ASSUME NEW M, NEW k \in Nat
  PROVE  PathStarts(M)[k] =
           IF k = 0 THEN {m \in M : m.tail} ELSE Before(M, PathStarts(M)[k - 1])
  <1>1. CASE k = 0
    BY <1>1, PathOfNoStep DEF PathStarts
  <1>2. CASE k # 0
    <2>1. ASSUME NEW m \in M
          PROVE  Paths(M, m, k) # {} <=>
                 \E n \in M : Paths(M, n, k - 1) # {} /\ m.nx \subseteq n.on
      BY <1>2, PathAfterStep, StepBeforePath
    <2>2. \A n : n \in PathStarts(M)[k - 1] <=> n \in M /\ Paths(M, n, k - 1) # {}
      BY <1>2 DEF PathStarts
    <2>3. \A m : m \in PathStarts(M)[k] <=> m \in M /\ Paths(M, m, k) # {}
      BY DEF PathStarts
    <2>4. QED
      BY <1>2, <2>1, <2>2, <2>3 DEF Before
  <1>3. QED
    BY <1>1, <1>2

\* Starts is what its equation says, since some function satisfies it.
LEMMA StartsUnrolled ==
  ASSUME NEW M, NEW k \in Nat
  PROVE  Starts(M)[k] =
           IF k = 0 THEN {m \in M : m.tail} ELSE Before(M, Starts(M)[k - 1])
  <1> DEFINE E(f) == [j \in Nat |-> IF j = 0 THEN {m \in M : m.tail}
                                    ELSE {m \in M : \E n \in f[j - 1] : m.nx \subseteq n.on}]
  <1>1. PathStarts(M) = E(PathStarts(M))
    <2>1. PathStarts(M) = [j \in Nat |-> PathStarts(M)[j]]
      BY DEF PathStarts
    <2>2. PICK g : g = PathStarts(M)
      OBVIOUS
    <2>3. \A j \in Nat : g[j] = IF j = 0 THEN {m \in M : m.tail} ELSE Before(M, g[j - 1])
      BY <2>2, PathSteps
    <2>4. g = E(g)
      BY <2>1, <2>2, <2>3 DEF Before
    <2>5. QED
      BY <2>2, <2>4
  <1>2. Starts(M) = CHOOSE f : f = E(f)
    BY DEF Starts
  <1>3. Starts(M) = E(Starts(M))
    <2> HIDE DEF E
    <2>1. QED
      BY <1>1, <1>2
  <1>4. QED
    BY <1>3 DEF Before

LEMMA StartsStep ==
  ASSUME NEW M, NEW k \in Nat
  PROVE  Starts(M)[k + 1] = Before(M, Starts(M)[k])
  <1>1. k + 1 \in Nat /\ k + 1 # 0 /\ (k + 1) - 1 = k
    OBVIOUS
  <1>2. Starts(M)[k + 1] = Before(M, Starts(M)[(k + 1) - 1])
    BY <1>1, StartsUnrolled
  <1>3. QED
    BY <1>1, <1>2

\* The models that Starts holds are those that a path starts from.
LEMMA StartsArePaths ==
  ASSUME NEW M
  PROVE  \A k \in Nat : Starts(M)[k] = {m \in M : Paths(M, m, k) # {}}
  <1> DEFINE T == {k \in Nat : Starts(M)[k] = PathStarts(M)[k]}
  <1>1. 0 \in T
    BY StartsUnrolled, PathSteps
  <1>2. ASSUME NEW k \in Nat, k \in T PROVE k + 1 \in T
    <2>1. k + 1 \in Nat /\ k + 1 # 0 /\ (k + 1) - 1 = k
      OBVIOUS
    <2>2. Starts(M)[k] = PathStarts(M)[k]
      BY <1>2
    <2>3. Starts(M)[k + 1] = Before(M, Starts(M)[k])
      BY StartsStep
    <2>4. PathStarts(M)[k + 1] = Before(M, PathStarts(M)[(k + 1) - 1])
      BY <2>1, PathSteps
    <2>5. QED
      BY <2>1, <2>2, <2>3, <2>4
  <1> HIDE DEF T
  <1>3. \A k \in Nat : k \in T
    BY <1>1, <1>2, AllNumbers
  <1>4. QED
    BY <1>3 DEF T, PathStarts

\* A path, cut at its first model with Tail, is a trace of whatever holds in its
\* first model.
LEMMA PathHasTrace ==
  ASSUME NEW M, NEW m \in M, NEW k \in Nat, NEW tr \in Paths(M, m, k),
         NEW c, c \subseteq m.on
  PROVE  \E n \in 1 .. k + 1 : \E t \in [1 .. n -> M] : IsTrace(c, t)
  <1> DEFINE T == {i \in 1 .. k + 1 : tr[i].tail}
  <1>1. /\ tr \in [1 .. k + 1 -> M] /\ tr[1] = m /\ tr[k + 1].tail
        /\ \A i \in 1 .. k : tr[i].nx \subseteq tr[i + 1].on
    BY DEF Paths
  <1>2. PICK n \in T : \A i \in T : n <= i
    <2>1. T \in SUBSET Nat /\ T # {}
      BY <1>1
    <2>2. QED
      BY <2>1, Smallest
  <1>3. n \in 1 .. k + 1 /\ tr[n].tail /\ \A i \in 1 .. n : tr[i].tail => i = n
    BY <1>2
  <1> DEFINE t == [i \in 1 .. n |-> tr[i]]
  <1>4. /\ t \in [1 .. n -> M] /\ t \in Seq(M) /\ Len(t) = n
        /\ \A i \in 1 .. n : t[i] = tr[i]
    BY <1>1, <1>3
  <1>5. t # <<>>
    BY <1>3, <1>4
  <1> HIDE DEF t
  <1>6. c \subseteq t[1].on
    BY <1>1, <1>3, <1>4
  <1>7. \A i \in 1 .. n - 1 : t[i].nx \subseteq t[i + 1].on
    BY <1>1, <1>3, <1>4
  <1>8. \A i \in 1 .. n : t[i].tail <=> i = n
    BY <1>3, <1>4
  <1>9. IsTrace(c, t)
    BY <1>4, <1>5, <1>6, <1>7, <1>8 DEF IsTrace
  <1>10. QED
    BY <1>3, <1>4, <1>9

\* A trace is a path.
LEMMA TraceIsPath ==
  ASSUME NEW M, NEW n \in Nat \ {0}, NEW tr \in [1 .. n -> M], NEW c, IsTrace(c, tr)
  PROVE  tr \in Paths(M, tr[1], n - 1) /\ tr[1] \in M /\ c \subseteq tr[1].on
  <1>1. Len(tr) = n /\ n - 1 \in Nat /\ (n - 1) + 1 = n
    OBVIOUS
  <1>2. QED
    BY <1>1 DEF Paths, IsTrace

\* A path with more steps than there are models passes over one twice, and is
\* longer than the path without the circle.
LEMMA PathWithoutCircle ==
  ASSUME NEW M, NEW m \in M, NEW k \in Nat, NEW tr \in Paths(M, m, k),
         NEW i \in 1 .. k + 1, NEW j \in 1 .. k + 1, i < j, tr[i] = tr[j]
  PROVE  \E h \in 0 .. k - 1 : Paths(M, m, h) # {}
  <1> DEFINE h == k - (j - i)
             t == [l \in 1 .. h + 1 |-> IF l <= i THEN tr[l] ELSE tr[l + (j - i)]]
  <1>1. /\ tr \in [1 .. k + 1 -> M] /\ tr[1] = m /\ tr[k + 1].tail
        /\ \A l \in 1 .. k : tr[l].nx \subseteq tr[l + 1].on
    BY DEF Paths
  <1>2. h \in 0 .. k - 1 /\ h + 1 \in Nat /\ i <= h + 1 /\ j - i \in Nat
        /\ h + 1 + (j - i) = k + 1 /\ i + (j - i) = j
    OBVIOUS
  <1>3. \A l \in 1 .. h + 1 : l \in 1 .. k + 1 /\ l + (j - i) \in 1 .. k + 1
    BY <1>2
  <1>4. \A l \in 1 .. h + 1 : t[l] = IF l <= i THEN tr[l] ELSE tr[l + (j - i)]
    OBVIOUS
  <1>5. t \in [1 .. h + 1 -> M]
    BY <1>1, <1>3
  <1> HIDE DEF t
  <1>6. t[1] = m
    BY <1>1, <1>2, <1>4
  \* after place i comes what came after place j
  <1>7. \A l \in 1 .. h + 1 : l >= i => t[l] = tr[l + (j - i)]
    <2>1. ASSUME NEW l \in 1 .. h + 1, l = i PROVE t[l] = tr[l + (j - i)]
      BY <1>2, <1>4, <2>1
    <2>2. QED
      BY <1>4, <2>1
  <1>8. t[h + 1].tail
    BY <1>1, <1>2, <1>7
  <1>9. ASSUME NEW l \in 1 .. h PROVE t[l].nx \subseteq t[l + 1].on
    <2>1. l \in 1 .. h + 1 /\ l + 1 \in 1 .. h + 1 /\ l \in 1 .. k
          /\ l + (j - i) \in 1 .. k /\ (l + (j - i)) + 1 = (l + 1) + (j - i)
      BY <1>2
    <2>2. CASE l < i
      <3>1. t[l] = tr[l] /\ t[l + 1] = tr[l + 1]
        BY <1>4, <2>1, <2>2
      <3>2. QED
        BY <1>1, <2>1, <3>1
    <2>3. CASE l >= i
      <3>1. t[l] = tr[l + (j - i)] /\ t[l + 1] = tr[(l + 1) + (j - i)]
        BY <1>7, <2>1, <2>3
      <3>2. QED
        BY <1>1, <2>1, <3>1
    <2>4. QED
      BY <2>1, <2>2, <2>3
  <1>10. t \in Paths(M, m, h)
    BY <1>5, <1>6, <1>8, <1>9 DEF Paths
  <1>11. QED
    BY <1>2, <1>10

\* The shortest path to a model with Tail has as many models as there are in M,
\* or fewer.
LEMMA ShortPath ==
  ASSUME NEW M, IsFiniteSet(M), NEW m \in M, NEW k \in Nat, Paths(M, m, k) # {}
  PROVE  \E h \in 0 .. Cardinality(M) - 1 : Paths(M, m, h) # {}
  <1> DEFINE T == {h \in Nat : Paths(M, m, h) # {}}
  <1>1. PICK h \in T : \A l \in T : h <= l
    <2>1. T \in SUBSET Nat /\ k \in T
      OBVIOUS
    <2>2. QED
      BY <2>1, Smallest
  <1>2. h \in Nat /\ \A l \in 0 .. h - 1 : Paths(M, m, l) = {}
    BY <1>1
  <1>3. PICK tr : tr \in Paths(M, m, h)
    BY <1>1
  <1> HIDE DEF T
  <1>4. tr \in [1 .. h + 1 -> M]
    BY <1>3 DEF Paths
  <1>5. ASSUME NEW i \in 1 .. h + 1, NEW j \in 1 .. h + 1, tr[i] = tr[j]
        PROVE  i = j
    <2>1. ~ (i < j)
      BY <1>2, <1>3, <1>5, PathWithoutCircle
    <2>2. ~ (j < i)
      BY <1>2, <1>3, <1>5, PathWithoutCircle
    <2>3. QED
      BY <1>2, <2>1, <2>2
  <1>6. /\ IsFiniteSet(1 .. h + 1) /\ Cardinality(1 .. h + 1) = h + 1
        /\ Cardinality(M) \in Nat
    BY <1>2, FS_Interval, FS_CardinalityType
  <1>7. ~ (Cardinality(M) < h + 1)
    <2>1. PICK S : S = 1 .. h + 1
      OBVIOUS
    <2>2. /\ tr \in [S -> M] /\ IsFiniteSet(S) /\ Cardinality(S) = h + 1
          /\ \A i, j \in S : tr[i] = tr[j] => i = j
      BY <1>4, <1>5, <1>6, <2>1
    <2>3. ~ (Cardinality(M) < Cardinality(S))
      BY <2>2, FS_PigeonHole
    <2>4. QED
      BY <2>2, <2>3
  <1>8. h \in 0 .. Cardinality(M) - 1
    BY <1>2, <1>6, <1>7
  <1>9. QED
    BY <1>3, <1>8

\* Satisfiable says what it is meant to: of a finite set of models, some make a
\* trace of the formula, of whatever length.
THEOREM SatisfiableMeansTrace ==
  ASSUME NEW M, IsFiniteSet(M), NEW c
  PROVE  Satisfiable(M, c) <=>
         \E n \in Nat \ {0} : \E tr \in [1 .. n -> M] : IsTrace(c, tr)
  <1>0. Cardinality(M) \in Nat
    BY FS_CardinalityType
  <1>1. ASSUME Satisfiable(M, c)
        PROVE  \E n \in Nat \ {0} : \E tr \in [1 .. n -> M] : IsTrace(c, tr)
    <2>0. PICK k \in 0 .. Cardinality(M) - 1 : \E m \in Starts(M)[k] : c \subseteq m.on
      BY <1>1 DEF Satisfiable
    <2>1. PICK m \in Starts(M)[k] : c \subseteq m.on
      BY <2>0
    <2>2. k \in Nat
      BY <1>0
    <2>3. PICK tr \in Paths(M, m, k) : m \in M
      BY <2>1, <2>2, StartsArePaths
    <2>4. \E n \in 1 .. k + 1 : \E t \in [1 .. n -> M] : IsTrace(c, t)
      BY <2>1, <2>2, <2>3, PathHasTrace
    <2>5. QED
      BY <2>2, <2>4
  <1>2. ASSUME NEW n \in Nat \ {0}, NEW tr \in [1 .. n -> M], IsTrace(c, tr)
        PROVE  Satisfiable(M, c)
    <2>1. tr[1] \in M /\ c \subseteq tr[1].on /\ Paths(M, tr[1], n - 1) # {}
      BY <1>2, TraceIsPath
    <2>2. PICK h \in 0 .. Cardinality(M) - 1 : Paths(M, tr[1], h) # {}
      BY <2>1, ShortPath
    <2>3. tr[1] \in Starts(M)[h]
      BY <1>0, <2>1, <2>2, StartsArePaths
    <2>4. QED
      BY <2>1, <2>2, <2>3 DEF Satisfiable
  <1>3. QED
    BY <1>1, <1>2

\* There are finitely many models over finitely many conjuncts.
LEMMA FinitelyManyModels ==
  ASSUME NEW L, IsFiniteSet(L),
         NEW M \in SUBSET [on : SUBSET L, nx : SUBSET L, tail : BOOLEAN]
  PROVE  IsFiniteSet(M)
  <1> DEFINE P == (SUBSET L) \X (SUBSET L)
             Q == P \X BOOLEAN
             f == [m \in M |-> <<<<m.on, m.nx>>, m.tail>>]
  <1>1. IsFiniteSet(SUBSET L)
    BY FS_SUBSET
  <1>2. IsFiniteSet(BOOLEAN)
    <2>1. IsFiniteSet({} \cup {TRUE})
      BY FS_EmptySet, FS_AddElement
    <2>2. IsFiniteSet(({} \cup {TRUE}) \cup {FALSE})
      BY <2>1, FS_AddElement
    <2>3. BOOLEAN = ({} \cup {TRUE}) \cup {FALSE}
      OBVIOUS
    <2>4. QED
      BY <2>2, <2>3
  <1>3. IsFiniteSet(P)
    BY <1>1, FS_Product
  <1>4. IsFiniteSet(Q)
    BY <1>2, <1>3, FS_Product
  <1>5. f \in [M -> Q]
    OBVIOUS
  <1>6. ASSUME NEW m \in M, NEW n \in M, f[m] = f[n] PROVE m = n
    BY <1>6
  <1>7. f \in Injection(M, Q)
    <2>1. DOMAIN f = M
      OBVIOUS
    <2> HIDE DEF f, Q
    <2>2. QED
      BY <1>5, <1>6, <2>1 DEF Injection, IsInjective
  <1> HIDE DEF f, Q
  <1>8. QED
    BY <1>4, <1>7, FS_Injection

\* A trace stays in a set that holds every first state of its formula and that no
\* step leaves.
LEMMA TraceStaysIn ==
  ASSUME NEW M, NEW n \in Nat \ {0}, NEW tr \in [1 .. n -> M], NEW c, IsTrace(c, tr),
         NEW I, \A m \in M : c \subseteq m.on => m \in I,
         \A m \in I : ~ m.tail => \A s \in M : m.nx \subseteq s.on => s \in I
  PROVE  \A i \in 1 .. n : tr[i] \in I
  <1> DEFINE T == {k \in Nat : k + 1 \in 1 .. n => tr[k + 1] \in I}
  <1>0. /\ Len(tr) = n /\ c \subseteq tr[1].on
        /\ \A i \in 1 .. n - 1 : tr[i].nx \subseteq tr[i + 1].on
        /\ \A i \in 1 .. n : tr[i].tail <=> i = n
    BY DEF IsTrace
  <1>1. 0 \in T
    BY <1>0
  <1>2. ASSUME NEW k \in Nat, k \in T PROVE k + 1 \in T
    <2>1. SUFFICES ASSUME (k + 1) + 1 \in 1 .. n PROVE tr[(k + 1) + 1] \in I
      OBVIOUS
    <2>2. k + 1 \in 1 .. n - 1 /\ k + 1 \in 1 .. n /\ k + 1 # n
      BY <2>1
    <2>3. tr[k + 1] \in I /\ ~ tr[k + 1].tail /\ tr[k + 1].nx \subseteq tr[(k + 1) + 1].on
      BY <1>0, <1>2, <2>2
    <2>4. tr[(k + 1) + 1] \in M
      BY <2>1
    <2>5. QED
      BY <2>3, <2>4
  <1> HIDE DEF T
  <1>3. \A k \in Nat : k \in T
    BY <1>1, <1>2, AllNumbers
  <1>4. ASSUME NEW i \in 1 .. n PROVE tr[i] \in I
    <2>1. i - 1 \in Nat /\ (i - 1) + 1 = i
      OBVIOUS
    <2>2. i - 1 \in T
      BY <1>3, <2>1
    <2>3. QED
      BY <2>1, <2>2 DEF T
  <1>5. QED
    BY <1>4

------------------------------------------------------------------------------
(* The table of formulas: the variables of Solver are distinct for every table
   that unique() can have built, of any size, and every formula in it, as long
   as Tail was entered before that formula. *)

(***************************************************************************)
(* The id of an entry is its place.                                        *)
(***************************************************************************)
LEMMA IdOfEntry ==
  ASSUME NEW Fs, NEW T \in Seq(Fs), NEW f \in Entries(T)
  PROVE  Id(T, f) \in DOMAIN T /\ T[Id(T, f)] = f
<1>1. PICK i \in DOMAIN T : T[i] = f  BY DEF Entries
<1> QED  BY <1>1 DEF Id

LEMMA IdInjective ==
  ASSUME NEW Fs, NEW T \in Seq(Fs), NEW f \in Entries(T), NEW g \in Entries(T),
         Id(T, f) = Id(T, g)
  PROVE  f = g
BY IdOfEntry

LEMMA IdOfPlace ==
  ASSUME NEW Fs, NEW T \in Seq(Fs), Injective(T), NEW i \in DOMAIN T
  PROVE  Id(T, T[i]) = i
<1>1. T[i] \in Entries(T)  BY DEF Entries
<1> QED  BY <1>1, IdOfEntry DEF Injective

(***************************************************************************)
(* unique() enters nothing twice, and keeps the operands before their      *)
(* formulas when it is called for the operands first.                      *)
(***************************************************************************)
THEOREM UniqueKeepsTable ==
  ASSUME NEW Fs, NEW operands \in [Fs -> SUBSET Fs],
         NEW T \in Seq(Fs), Injective(T), OperandsFirst(T, operands),
         NEW f \in Fs, operands[f] \subseteq Entries(T)
  PROVE  /\ Unique(T, f) \in Seq(Fs)
         /\ Injective(Unique(T, f))
         /\ OperandsFirst(Unique(T, f), operands)
         /\ Entries(Unique(T, f)) = Entries(T) \cup {f}
<1>1. CASE f \in Entries(T)  BY <1>1 DEF Unique
<1>2. CASE f \notin Entries(T)
  <2> DEFINE U == Append(T, f)
  <2>1. Unique(T, f) = U  BY <1>2 DEF Unique
  <2>2. /\ U \in Seq(Fs)
        /\ DOMAIN U = 1 .. Len(T) + 1
        /\ DOMAIN T = 1 .. Len(T)
        /\ Len(T) \in Nat
    OBVIOUS
  <2>3. U[Len(T) + 1] = f  OBVIOUS
  <2>4. \A i \in DOMAIN T : U[i] = T[i]  OBVIOUS
  <2>5. \A i \in DOMAIN T : T[i] # f  BY <1>2 DEF Entries
  <2> HIDE DEF U
  <2>6. Injective(U)
    <3> SUFFICES ASSUME NEW i \in DOMAIN U, NEW j \in DOMAIN U, U[i] = U[j]
                 PROVE  i = j
      BY DEF Injective
    <3>1. CASE i \in DOMAIN T /\ j \in DOMAIN T  BY <2>4, <3>1 DEF Injective
    <3>2. CASE i = Len(T) + 1 /\ j \in DOMAIN T  BY <2>3, <2>4, <2>5, <3>2
    <3>3. CASE i \in DOMAIN T /\ j = Len(T) + 1  BY <2>3, <2>4, <2>5, <3>3
    <3> QED  BY <2>2, <3>1, <3>2, <3>3
  <2>7. OperandsFirst(U, operands)
    <3> SUFFICES ASSUME NEW i \in DOMAIN U, NEW g \in operands[U[i]]
                 PROVE  \E j \in 1 .. i - 1 : U[j] = g
      BY DEF OperandsFirst
    <3>1. CASE i \in DOMAIN T
      <4>1. PICK j \in 1 .. i - 1 : T[j] = g  BY <2>4, <3>1 DEF OperandsFirst
      <4>2. j \in DOMAIN T  BY <2>2, <3>1
      <4> QED  BY <2>4, <4>1, <4>2
    <3>2. CASE i = Len(T) + 1
      <4>1. PICK j \in DOMAIN T : T[j] = g  BY <2>3, <3>2 DEF Entries
      <4> QED  BY <2>2, <2>4, <3>2, <4>1
    <3> QED  BY <2>2, <3>1, <3>2
  <2>8. Entries(U) = Entries(T) \cup {f}
    <3>1. \A i \in DOMAIN U : i \in DOMAIN T \/ i = Len(T) + 1  BY <2>2
    <3>2. Len(T) + 1 \in DOMAIN U /\ DOMAIN T \subseteq DOMAIN U  BY <2>2
    <3> QED  BY <2>3, <2>4, <3>1, <3>2 DEF Entries
  <2> QED  BY <2>1, <2>2, <2>6, <2>7, <2>8
<1> QED  BY <1>1, <1>2

(***************************************************************************)
(* solver.cpp:56: "the id of f is greater than that of its any             *)
(* subformula".                                                            *)
(***************************************************************************)
THEOREM PartsHaveSmallerIds ==
  ASSUME NEW Fs, NEW operands \in [Fs -> SUBSET Fs],
         NEW T \in Seq(Fs), Injective(T), OperandsFirst(T, operands),
         NEW f \in Entries(T), NEW g \in Parts(operands, f)
  PROVE  g \in Entries(T) /\ Id(T, g) <= Id(T, f)
<1> DEFINE C == {h \in Entries(T) : Id(T, h) <= Id(T, f)}
<1>1. Id(T, f) \in DOMAIN T /\ DOMAIN T = 1 .. Len(T) /\ Len(T) \in Nat
  BY IdOfEntry
<1>2. f \in C  BY <1>1
<1>3. C \in SUBSET DOMAIN operands
  <2>1. Entries(T) \subseteq Fs  BY DEF Entries
  <2> QED  BY <2>1
<1>4. ASSUME NEW h \in C, NEW k \in operands[h]
      PROVE  k \in C
  <2>1. Id(T, h) \in DOMAIN T /\ T[Id(T, h)] = h  BY IdOfEntry
  <2>2. PICK j \in 1 .. Id(T, h) - 1 : T[j] = k  BY <2>1 DEF OperandsFirst
  <2>3. j \in DOMAIN T  BY <1>1, <2>1
  <2>4. Id(T, k) = j  BY <2>2, <2>3, IdOfPlace
  <2>5. k \in Entries(T)  BY <2>2, <2>3 DEF Entries
  <2>6. j <= Id(T, f)  BY <1>1, <2>1
  <2> QED  BY <2>4, <2>5, <2>6
<1>5. g \in C
  <2>1. \A h \in C : operands[h] \subseteq C  BY <1>4
  <2> QED  BY <1>2, <1>3, <2>1 DEF Parts
<1> QED  BY <1>5

(***************************************************************************)
(* No variable of the solver of f has two meanings: the formulas in its    *)
(* clauses are parts of f or Tail, and what ++max_used_id_ numbers is none *)
(* of them.                                                                *)
(***************************************************************************)
THEOREM VariablesAreDistinct ==
  ASSUME NEW Fs, NEW operands \in [Fs -> SUBSET Fs],
         NEW T \in Seq(Fs), Injective(T), OperandsFirst(T, operands),
         NEW f \in Entries(T),
         NEW tail \in Entries(T), Id(T, tail) <= Id(T, f),
         NEW known \in SUBSET (Parts(operands, f) \cup {tail}),
         NEW Us, NEW fresh \in Seq(Us), Injective(fresh), Us \cap Fs = {}
  PROVE  DistinctVariables(T, f, known, fresh)
<1> SUFFICES ASSUME NEW u \in known \cup Entries(fresh), NEW v \in known \cup Entries(fresh),
                    Variable(T, f, fresh, u) = Variable(T, f, fresh, v)
             PROVE  u = v
  BY DEF DistinctVariables
<1>1. Id(T, f) \in Nat
  <2>1. Id(T, f) \in DOMAIN T  BY IdOfEntry
  <2> QED  BY <2>1
<1>2. \A k \in known : k \in Entries(T) /\ Id(T, k) <= Id(T, f)  BY PartsHaveSmallerIds
<1>3. \A k \in known : k \notin Entries(fresh)
  <2>1. Entries(T) \subseteq Fs  BY DEF Entries
  <2>2. Entries(fresh) \subseteq Us  BY DEF Entries
  <2> QED  BY <1>2, <2>1, <2>2
<1>4. \A k \in known : Id(T, k) \in Nat
  <2>1. \A k \in known : Id(T, k) \in DOMAIN T  BY <1>2, IdOfEntry
  <2> QED  BY <2>1
<1>5. \A x \in Entries(fresh) : Id(fresh, x) \in Nat \ {0}
  <2>1. \A x \in Entries(fresh) : Id(fresh, x) \in DOMAIN fresh  BY IdOfEntry
  <2>2. DOMAIN fresh = 1 .. Len(fresh) /\ Len(fresh) \in Nat  OBVIOUS
  <2>3. \A n \in 1 .. Len(fresh) : n \in Nat \ {0}  BY <2>2
  <2> QED  BY <2>1, <2>2, <2>3
<1>6. CASE u \in known /\ v \in known
  <2>1. Id(T, u) = Id(T, v)  BY <1>3, <1>6 DEF Variable
  <2> QED  BY <1>2, <1>6, <2>1, IdInjective
<1>7. CASE u \in Entries(fresh) /\ v \in Entries(fresh)
  <2>1. Id(fresh, u) = Id(fresh, v)  BY <1>1, <1>5, <1>7 DEF Variable
  <2> QED  BY <1>7, <2>1, IdInjective
<1>8. CASE u \in known /\ v \in Entries(fresh)
  <2>1. Id(T, u) = Id(T, f) + Id(fresh, v)  BY <1>3, <1>8 DEF Variable
  <2> QED  BY <1>1, <1>2, <1>4, <1>5, <1>8, <2>1
<1>9. CASE u \in Entries(fresh) /\ v \in known
  <2>1. Id(T, v) = Id(T, f) + Id(fresh, u)  BY <1>3, <1>9 DEF Variable
  <2> QED  BY <1>1, <1>2, <1>4, <1>5, <1>9, <2>1
<1> QED  BY <1>6, <1>7, <1>8, <1>9
===============================================================================
