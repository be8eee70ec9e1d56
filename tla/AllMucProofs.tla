----------------------------- MODULE AllMucProofs -----------------------------
(***************************************************************************)
(* Proofs about getAllMuc() for every finite formula, every family of      *)
(* unsatisfiable sets, every core that a nested extraction may return and  *)
(* every order in which its members are taken out.                         *)
(***************************************************************************)
EXTENDS AllMuc, SharedProofs, SequenceTheorems

------------------------------------------------------------------------------
(* The inductive invariant.                                                  *)

Calls == Seq([clause : SUBSET Conj, left : SUBSET Conj])

\* The call i has extracted its core.
Started(i) == i < Len(calls) \/ pc # "enter"

\* M is the core of the call i: the members that are not left were taken out,
\* and what remained without one of them was tried.  The nested call is about
\* the formula without one of them.
CoreOfCall(i, M) ==
  /\ M \in AllMUC
  /\ M \subseteq calls[i].clause
  /\ calls[i].left \subseteq M
  /\ IsMUC(cores, M)
  /\ \A x \in M \ calls[i].left : calls[i].clause \ {x} \in allFormulas
  /\ i < Len(calls) => \E y \in M : calls[i + 1].clause = calls[i].clause \ {y}

CallsHaveCores ==
  \A i \in DOMAIN calls : Started(i) => \E M \in SUBSET Conj : CoreOfCall(i, M)

CallsUnsat == \A i \in DOMAIN calls : Unsat(cores, calls[i].clause)

FirstCall == calls # <<>> => calls[1].clause = Conj

CoresOnly == \A M \in AllMUC : IsMUC(cores, M)

Busy == pc \in {"enter", "loop"} => calls # <<>>

\* The call that enters has nothing left, the call that failed left nothing.
AtAbort == pc = "abort" => calls # <<>> /\ \E x \in left : clause = {x}

IInv ==
  /\ TypeOK
  /\ CallsHaveCores
  /\ CallsUnsat
  /\ FirstCall
  /\ CoresOnly
  /\ Busy
  /\ AtAbort
  /\ TriedMeansFound
  /\ pc = "done" => Cores(Conj) \subseteq AllMUC

\* The innermost call.
LEMMA Innermost ==
  ASSUME calls \in Calls, calls # <<>>
  PROVE  /\ Len(calls) \in Nat \ {0}
         /\ DOMAIN calls = 1 .. Len(calls)
         /\ Len(calls) \in DOMAIN calls /\ 1 \in DOMAIN calls
         /\ Last(calls) = calls[Len(calls)]
         /\ \A i \in DOMAIN calls : calls[i] \in [clause : SUBSET Conj, left : SUBSET Conj]
         /\ clause = calls[Len(calls)].clause /\ clause \in SUBSET Conj
         /\ left = calls[Len(calls)].left /\ left \in SUBSET Conj
  <1>1. Len(calls) \in Nat \ {0} /\ DOMAIN calls = 1 .. Len(calls)
    BY EmptySeq, LenProperties DEF Calls
  <1>2. /\ Len(calls) \in DOMAIN calls /\ 1 \in DOMAIN calls
        /\ \A i \in DOMAIN calls : calls[i] \in [clause : SUBSET Conj, left : SUBSET Conj]
    <2>1. Len(calls) \in DOMAIN calls /\ 1 \in DOMAIN calls
      BY <1>1
    <2>2. \A i \in DOMAIN calls : calls[i] \in [clause : SUBSET Conj, left : SUBSET Conj]
      BY <1>1, ElementOfSeq DEF Calls
    <2>3. QED
      BY <2>1, <2>2
  <1>3. Last(calls) = calls[Len(calls)]
    BY DEF Last
  <1>4. QED
    BY <1>1, <1>2, <1>3 DEF clause, left

\* The formula of the innermost call is a proper part of those of the others, so
\* a part of it is on the stack only if it is the whole of it.
LEMMA NoPartIsSearched ==
  ASSUME TypeOK, calls # <<>>, NEW F \in SUBSET clause, F # clause
  PROVE  \A i \in DOMAIN calls : calls[i].clause # F
  <1>1. calls \in Calls
    BY DEF TypeOK, Calls
  <1>2. SUFFICES ASSUME NEW i \in DOMAIN calls, calls[i].clause = F
                 PROVE  FALSE
    OBVIOUS
  <1>3. i < Len(calls) \/ i = Len(calls)
    BY <1>1, Innermost
  <1>4. CASE i < Len(calls)
    BY <1>1, <1>2, <1>4, Innermost DEF TypeOK
  <1>5. CASE i = Len(calls)
    BY <1>1, <1>2, <1>5, Innermost
  <1>6. QED
    BY <1>3, <1>4, <1>5

\* Two minimal cores, one in the other, are the same.
LEMMA CoresIncomparable ==
  ASSUME NEW M, NEW K, IsMUC(cores, M), IsMUC(cores, K), M \subseteq K
  PROVE  M = K
  <1>1. SUFFICES ASSUME NEW x \in K, x \notin M
                 PROVE  FALSE
    OBVIOUS
  <1>2. M \subseteq K \ {x}
    BY <1>1
  <1>3. Sat(cores, M)
    BY <1>1, <1>2, SatAntitonic DEF IsMUC
  <1>4. QED
    BY <1>3 DEF IsMUC, Sat

\* When all members of its core were taken out, a call has found all cores of
\* its formula: another core misses one of the members.
LEMMA AllFound ==
  ASSUME IInv, pc = "loop", left = {}
  PROVE  Cores(clause) \subseteq AllMUC
  <1>1. calls \in Calls /\ calls # <<>>
    BY DEF IInv, TypeOK, Calls, Busy
  <1>2. PICK M \in SUBSET Conj : CoreOfCall(Len(calls), M)
    BY <1>1, Innermost DEF IInv, CallsHaveCores, Started
  <1>3. ASSUME NEW K \in Cores(clause), K # M
        PROVE  K \in AllMUC
    <2>1. K \subseteq clause /\ IsMUC(cores, K) /\ IsMUC(cores, M)
      BY <1>2 DEF Cores, CoreOfCall
    <2>2. PICK x \in M : x \notin K
      BY <1>3, <2>1, CoresIncomparable
    <2>3. clause \ {x} \in allFormulas /\ x \in clause
      BY <1>1, <1>2, Innermost DEF CoreOfCall
    <2>4. \A i \in DOMAIN calls : calls[i].clause # clause \ {x}
      BY <1>1, <2>3, NoPartIsSearched DEF IInv
    <2>5. Cores(clause \ {x}) \subseteq AllMUC
      BY <2>3, <2>4 DEF IInv, TriedMeansFound
    <2>6. K \in Cores(clause \ {x})
      BY <2>1, <2>2 DEF Cores
    <2>7. QED
      BY <2>5, <2>6
  <1>4. M \in AllMUC
    BY <1>2 DEF CoreOfCall
  <1>5. QED
    BY <1>3, <1>4

\* The enumeration starts in the invariant.
LEMMA InitIInv == Init => IInv
  <1> SUFFICES ASSUME Init PROVE IInv
    OBVIOUS
  <1>1. cores \in SUBSET SUBSET Conj /\ Unsat(cores, Conj)
    BY FamiliesAssumption DEF Init
  <1>2. /\ calls \in Calls /\ Len(calls) = 1 /\ DOMAIN calls = {1}
        /\ calls[1].clause = Conj /\ calls # <<>> /\ pc = "enter"
    BY DEF Init, Calls
  <1>3. TypeOK
    BY <1>1, <1>2 DEF Init, TypeOK, Calls
  <1>4. CallsHaveCores /\ CallsUnsat /\ FirstCall
    BY <1>1, <1>2 DEF CallsHaveCores, Started, CallsUnsat, FirstCall
  <1>5. CoresOnly /\ TriedMeansFound
    BY DEF Init, CoresOnly, TriedMeansFound
  <1>6. QED
    BY <1>2, <1>3, <1>4, <1>5 DEF IInv, Busy, AtAbort

\* What a change of the members left of the innermost call leaves as it is.
LeftBecomes(L) == calls' = [calls EXCEPT ![Len(calls)].left = L]

LEMMA LeftChanges ==
  ASSUME calls \in Calls, calls # <<>>, NEW L \in SUBSET Conj, LeftBecomes(L)
  PROVE  /\ calls' \in Calls /\ Len(calls') = Len(calls)
         /\ calls' # <<>> /\ DOMAIN calls' = DOMAIN calls
         /\ \A i \in DOMAIN calls : calls'[i].clause = calls[i].clause
         /\ \A i \in DOMAIN calls : i < Len(calls) => calls'[i] = calls[i]
         /\ calls'[Len(calls)].left = L
  <1>1. /\ Len(calls) \in DOMAIN calls /\ DOMAIN calls = 1 .. Len(calls)
        /\ Len(calls) \in Nat \ {0}
    BY Innermost
  <1>2. calls[Len(calls)] \in [clause : SUBSET Conj, left : SUBSET Conj]
    BY Innermost
  <1> DEFINE last == [calls[Len(calls)] EXCEPT !.left = L]
  <1>3. last \in [clause : SUBSET Conj, left : SUBSET Conj]
    BY <1>2
  <1>4. calls' = [calls EXCEPT ![Len(calls)] = last]
    BY DEF LeftBecomes
  <1>5. calls' \in Calls /\ Len(calls') = Len(calls)
    BY <1>1, <1>3, <1>4, ExceptSeq DEF Calls
  <1>6. DOMAIN calls' = DOMAIN calls
    BY <1>4
  <1>7. calls'[Len(calls)] = last
    BY <1>1, <1>4
  <1>8. \A i \in DOMAIN calls : i < Len(calls) => calls'[i] = calls[i]
    BY <1>1, <1>4
  <1>9. \A i \in DOMAIN calls : calls'[i].clause = calls[i].clause
    BY <1>1, <1>2, <1>4
  <1>10. last.left = L
    BY <1>2
  <1>11. calls' # <<>>
    BY <1>1, <1>5
  <1>12. QED
    BY <1>5, <1>6, <1>7, <1>8, <1>9, <1>10, <1>11

\* A core is extracted.
LEMMA ExtractIInv == IInv /\ Extract => IInv'
  <1> SUFFICES ASSUME IInv, Extract PROVE IInv'
    OBVIOUS
  <1>1. calls \in Calls /\ calls # <<>> /\ pc = "enter"
    BY DEF IInv, TypeOK, Calls, Busy, Extract
  <1>2. PICK M \in SUBSET clause :
          IsMUC(cores, M) /\ AllMUC' = AllMUC \cup {M} /\ LeftBecomes(M)
    BY DEF Extract, LeftBecomes
  <1>3. M \in SUBSET Conj /\ M \subseteq calls[Len(calls)].clause
    BY <1>1, <1>2, Innermost
  <1>4. pc' = "loop" /\ UNCHANGED <<cores, allFormulas>>
    BY DEF Extract
  <1>5. /\ calls' \in Calls /\ Len(calls') = Len(calls)
        /\ calls' # <<>> /\ DOMAIN calls' = DOMAIN calls
        /\ \A i \in DOMAIN calls : calls'[i].clause = calls[i].clause
        /\ \A i \in DOMAIN calls : i < Len(calls) => calls'[i] = calls[i]
        /\ calls'[Len(calls)].left = M
    BY <1>1, <1>2, <1>3, LeftChanges
  <1>6. TypeOK'
    BY <1>2, <1>3, <1>4, <1>5 DEF IInv, TypeOK, Calls
  <1>7. CallsHaveCores'
    <2>1. ASSUME NEW i \in DOMAIN calls'
          PROVE  \E K \in SUBSET Conj : CoreOfCall(i, K)'
      <3>1. CASE i = Len(calls)
        <4>1. CoreOfCall(i, M)'
          BY <1>1, <1>2, <1>3, <1>4, <1>5, <3>1, Innermost DEF CoreOfCall
        <4>2. QED
          BY <1>3, <4>1
      <3>2. CASE i < Len(calls)
        <4>1. PICK K \in SUBSET Conj : CoreOfCall(i, K)
          BY <1>5, <2>1, <3>2 DEF IInv, CallsHaveCores, Started
        <4>2. i + 1 \in DOMAIN calls
          BY <1>1, <1>5, <2>1, <3>2, Innermost
        <4>3. CoreOfCall(i, K)'
          BY <1>2, <1>4, <1>5, <2>1, <3>2, <4>1, <4>2 DEF CoreOfCall
        <4>4. QED
          BY <4>3
      <3>3. QED
        BY <1>1, <1>5, <2>1, <3>1, <3>2, Innermost
    <2>2. QED
      BY <2>1 DEF CallsHaveCores
  <1>8. CallsUnsat' /\ FirstCall'
    BY <1>1, <1>4, <1>5, Innermost DEF IInv, CallsUnsat, FirstCall
  <1>9. CoresOnly' /\ Busy' /\ AtAbort'
    BY <1>2, <1>4, <1>5 DEF IInv, CoresOnly, Busy, AtAbort
  <1>10. TriedMeansFound'
    BY <1>2, <1>4, <1>5 DEF IInv, TriedMeansFound, Cores
  <1>11. QED
    BY <1>4, <1>6, <1>7, <1>8, <1>9, <1>10 DEF IInv

\* The core of a call stays its core when one more of its members is taken out,
\* and when more formulas were tried.
LEMMA CoreStays ==
  ASSUME IInv, pc = "loop", NEW x \in left, LeftBecomes(left \ {x}),
         allFormulas' = allFormulas \cup {clause \ {x}},
         UNCHANGED <<cores, AllMUC>>,
         NEW i \in DOMAIN calls
  PROVE  \E M \in SUBSET Conj : CoreOfCall(i, M)' /\ (i = Len(calls) => x \in M)
  <1>1. calls \in Calls /\ calls # <<>>
    BY DEF IInv, TypeOK, Calls, Busy
  <1>2. PICK M \in SUBSET Conj : CoreOfCall(i, M)
    BY DEF IInv, CallsHaveCores, Started
  <1>3. left \ {x} \in SUBSET Conj
    BY <1>1, Innermost
  <1>4. /\ Len(calls') = Len(calls)
        /\ \A j \in DOMAIN calls : calls'[j].clause = calls[j].clause
        /\ \A j \in DOMAIN calls : j < Len(calls) => calls'[j] = calls[j]
        /\ calls'[Len(calls)].left = left \ {x}
    BY <1>1, <1>3, LeftChanges
  <1>5. CASE i = Len(calls)
    <2>1. /\ clause = calls[i].clause /\ left = calls[i].left
      BY <1>1, <1>5, Innermost
    <2>2. x \in M
      BY <1>2, <2>1 DEF CoreOfCall
    <2>3. calls'[i].clause = clause /\ calls'[i].left = left \ {x} /\ ~ (i < Len(calls'))
      BY <1>1, <1>4, <1>5, <2>1, Innermost
    <2>4. CoreOfCall(i, M)'
      BY <1>2, <2>1, <2>3 DEF CoreOfCall
    <2>5. QED
      BY <2>2, <2>4
  <1>6. CASE i < Len(calls)
    <2>1. i + 1 \in DOMAIN calls
      BY <1>1, <1>6, Innermost
    <2>2. calls'[i] = calls[i] /\ calls'[i + 1].clause = calls[i + 1].clause
      BY <1>4, <1>6, <2>1
    <2>3. CoreOfCall(i, M)'
      BY <1>2, <1>4, <2>2 DEF CoreOfCall
    <2>4. QED
      BY <1>1, <1>6, <2>3, Innermost
  <1>7. QED
    BY <1>1, <1>5, <1>6, Innermost

\* A member is taken out and the rest is not searched.
LEMMA SkipIInv ==
  ASSUME IInv, pc = "loop", NEW x \in left,
         calls' = Without(x), pc' = "loop",
         allFormulas' = allFormulas \cup {clause \ {x}},
         UNCHANGED <<cores, AllMUC>>,
         Tried(clause \ {x}) \/ Sat(cores, clause \ {x})
  PROVE  IInv'
  <1>1. calls \in Calls /\ calls # <<>>
    BY DEF IInv, TypeOK, Calls, Busy
  <1>2. left \ {x} \in SUBSET Conj /\ clause \ {x} \in SUBSET Conj
    BY <1>1, Innermost
  <1>3. LeftBecomes(left \ {x})
    BY <1>1, Innermost DEF Without, LeftBecomes
  <1>4. /\ calls' \in Calls /\ Len(calls') = Len(calls)
        /\ calls' # <<>> /\ DOMAIN calls' = DOMAIN calls
        /\ \A i \in DOMAIN calls : calls'[i].clause = calls[i].clause
    BY <1>1, <1>2, <1>3, LeftChanges
  <1>5. TypeOK'
    BY <1>2, <1>4 DEF IInv, TypeOK, Calls
  <1>6. CallsHaveCores'
    <2>1. \A i \in DOMAIN calls' : \E M \in SUBSET Conj : CoreOfCall(i, M)'
      BY <1>3, <1>4, CoreStays
    <2>2. QED
      BY <2>1 DEF CallsHaveCores
  <1>7. CallsUnsat' /\ FirstCall'
    BY <1>1, <1>4, Innermost DEF IInv, CallsUnsat, FirstCall
  <1>8. CoresOnly' /\ Busy' /\ AtAbort'
    BY <1>4 DEF IInv, CoresOnly, Busy, AtAbort
  <1>9. TriedMeansFound'
    <2>1. ASSUME NEW F \in allFormulas',
                 \A i \in DOMAIN calls : calls[i].clause # F
          PROVE  Cores(F) \subseteq AllMUC
      <3>1. CASE F \in allFormulas
        BY <2>1, <3>1 DEF IInv, TriedMeansFound
      <3>2. CASE F \notin allFormulas
        <4>1. F = clause \ {x} /\ Sat(cores, F)
          BY <2>1, <3>2 DEF Tried
        <4>2. Cores(F) = {}
          BY <4>1, SatAntitonic DEF Cores, IsMUC, Sat
        <4>3. QED
          BY <4>2
      <3>3. QED
        BY <3>1, <3>2
    <2>2. QED
      BY <1>4, <2>1 DEF TriedMeansFound, Cores
  <1>10. QED
    BY <1>5, <1>6, <1>7, <1>8, <1>9 DEF IInv

\* A sequence with one element more.
LEMMA Pushed ==
  ASSUME NEW S, NEW s \in Seq(S), NEW e \in S, NEW t, t = Append(s, e)
  PROVE  /\ t \in Seq(S) /\ Len(t) = Len(s) + 1 /\ DOMAIN t = 1 .. Len(s) + 1
         /\ \A i \in 1 .. Len(s) : t[i] = s[i]
         /\ t[Len(s) + 1] = e
  BY AppendProperties

\* What a nested call on the formula F leaves as it is.
LEMMA PushChanges ==
  ASSUME calls \in Calls, calls # <<>>, NEW L \in SUBSET Conj, NEW F \in SUBSET Conj,
         NEW mid, mid = [calls EXCEPT ![Len(calls)].left = L],
         calls' = Append(mid, [clause |-> F, left |-> {}])
  PROVE  /\ calls' \in Calls /\ Len(calls') = Len(calls) + 1
         /\ DOMAIN calls' = 1 .. Len(calls) + 1
         /\ \A i \in 1 .. Len(calls) : calls'[i].clause = calls[i].clause
         /\ \A i \in 1 .. Len(calls) : i < Len(calls) => calls'[i] = calls[i]
         /\ calls'[Len(calls)].left = L
         /\ calls'[Len(calls) + 1].clause = F
         /\ calls'[Len(calls) + 1].left = {}
  <1> DEFINE new == [clause |-> F, left |-> {}]
             last == [calls[Len(calls)] EXCEPT !.left = L]
  <1>1. /\ Len(calls) \in Nat \ {0} /\ DOMAIN calls = 1 .. Len(calls)
        /\ calls[Len(calls)] \in [clause : SUBSET Conj, left : SUBSET Conj]
    BY Innermost
  <1>2. last \in [clause : SUBSET Conj, left : SUBSET Conj]
    BY <1>1
  <1>3. last.left = L /\ last.clause = calls[Len(calls)].clause
    BY <1>1
  <1>4. mid = [calls EXCEPT ![Len(calls)] = last]
    OBVIOUS
  <1>5. /\ new \in [clause : SUBSET Conj, left : SUBSET Conj]
        /\ new.clause = F /\ new.left = {}
    OBVIOUS
  <1> HIDE DEF new, last
  <1>6. mid \in Calls /\ Len(mid) = Len(calls)
    BY <1>1, <1>2, <1>4, ExceptSeq DEF Calls
  <1>7. /\ mid[Len(calls)] = last
        /\ \A i \in 1 .. Len(calls) : i < Len(calls) => mid[i] = calls[i]
    BY <1>1, <1>4
  <1>8. calls' = Append(mid, new)
    BY DEF new
  <1>9. /\ calls' \in Calls /\ Len(calls') = Len(calls) + 1
        /\ \A i \in 1 .. Len(calls) : calls'[i] = mid[i]
        /\ calls'[Len(calls) + 1] = new
        /\ DOMAIN calls' = 1 .. Len(calls) + 1
    <2>1. PICK t : t = calls'
      OBVIOUS
    <2>2. PICK S : S = [clause : SUBSET Conj, left : SUBSET Conj]
      OBVIOUS
    <2>3. mid \in Seq(S) /\ new \in S /\ t = Append(mid, new)
      BY <1>5, <1>6, <1>8, <2>1, <2>2 DEF Calls
    <2>4. /\ t \in Seq(S) /\ Len(t) = Len(mid) + 1 /\ DOMAIN t = 1 .. Len(mid) + 1
          /\ \A i \in 1 .. Len(mid) : t[i] = mid[i]
          /\ t[Len(mid) + 1] = new
      BY <2>3, Pushed
    <2>5. QED
      BY <1>6, <2>1, <2>2, <2>4 DEF Calls
  <1>10. Len(calls) \in 1 .. Len(calls)
    BY <1>1
  <1>11. \A i \in 1 .. Len(calls) : calls'[i].clause = calls[i].clause
    <2>1. \A i \in 1 .. Len(calls) : i < Len(calls) \/ i = Len(calls)
      BY <1>1
    <2>2. QED
      BY <2>1, <1>3, <1>7, <1>9
  <1>12. calls'[Len(calls)] = last
    BY <1>7, <1>9, <1>10
  <1>13. \A i \in 1 .. Len(calls) : i < Len(calls) => calls'[i] = calls[i]
    BY <1>7, <1>9
  <1>14. QED
    BY <1>3, <1>5, <1>9, <1>11, <1>12, <1>13

\* A member is taken out and the rest is searched by a nested call.
LEMMA NestIInv ==
  ASSUME IInv, pc = "loop", NEW x \in left,
         calls' = Append(Without(x), [clause |-> clause \ {x}, left |-> {}]),
         pc' = "enter",
         allFormulas' = allFormulas \cup {clause \ {x}},
         UNCHANGED <<cores, AllMUC>>,
         Unsat(cores, clause \ {x})
  PROVE  IInv'
  <1>1. PICK n : n = Len(calls)
    OBVIOUS
  <1>2. PICK rest : rest = clause \ {x}
    OBVIOUS
  <1>3. /\ calls \in Calls /\ calls # <<>> /\ n \in Nat \ {0} /\ n \in DOMAIN calls
        /\ DOMAIN calls = 1 .. n /\ clause = calls[n].clause /\ left = calls[n].left
    BY <1>1, Innermost DEF IInv, TypeOK, Calls, Busy
  <1>4. left \ {x} \in SUBSET Conj /\ rest \in SUBSET Conj
    BY <1>2, <1>3, Innermost
  <1>5. PICK mid : mid = [calls EXCEPT ![Len(calls)].left = left \ {x}]
    OBVIOUS
  <1>6. Without(x) = mid
    BY <1>1, <1>3, <1>5 DEF Without
  <1>7. calls' = Append(mid, [clause |-> rest, left |-> {}])
    BY <1>2, <1>6
  <1>8. /\ calls' \in Calls /\ Len(calls') = n + 1 /\ DOMAIN calls' = 1 .. n + 1
        /\ \A i \in 1 .. n : calls'[i].clause = calls[i].clause
        /\ \A i \in 1 .. n : i < n => calls'[i] = calls[i]
        /\ calls'[n].left = left \ {x}
        /\ calls'[n + 1].clause = rest
    <2>1. PICK L \in SUBSET Conj : L = left \ {x}
      BY <1>4
    <2>2. mid = [calls EXCEPT ![Len(calls)].left = L]
      BY <1>5, <2>1
    <2>3. /\ calls' \in Calls /\ Len(calls') = Len(calls) + 1
          /\ DOMAIN calls' = 1 .. Len(calls) + 1
          /\ \A i \in 1 .. Len(calls) : calls'[i].clause = calls[i].clause
          /\ \A i \in 1 .. Len(calls) : i < Len(calls) => calls'[i] = calls[i]
          /\ calls'[Len(calls)].left = L
          /\ calls'[Len(calls) + 1].clause = rest
      <3>1. PICK F \in SUBSET Conj : F = rest
        BY <1>4
      <3>2. calls' = Append(mid, [clause |-> F, left |-> {}])
        BY <1>7, <3>1
      <3>3. calls \in Calls /\ calls # <<>>
        BY <1>3
      <3>4. /\ calls' \in Calls /\ Len(calls') = Len(calls) + 1
            /\ DOMAIN calls' = 1 .. Len(calls) + 1
            /\ \A i \in 1 .. Len(calls) : calls'[i].clause = calls[i].clause
            /\ \A i \in 1 .. Len(calls) : i < Len(calls) => calls'[i] = calls[i]
            /\ calls'[Len(calls)].left = L
            /\ calls'[Len(calls) + 1].clause = F
        BY ONLY <2>2, <3>2, <3>3, PushChanges
      <3>5. QED
        BY <3>1, <3>4
    <2>4. QED
      BY <1>1, <2>1, <2>3
  <1>9. rest \subseteq clause /\ rest # clause
    <2>1. PICK M \in SUBSET Conj : CoreOfCall(n, M)
      BY <1>3 DEF IInv, CallsHaveCores, Started
    <2>2. x \in clause
      BY <1>3, <2>1 DEF CoreOfCall
    <2>3. QED
      BY <1>2, <2>2
  <1>10. \A i \in 1 .. n : clause \subseteq calls[i].clause
    <2>1. \A i \in 1 .. n : i < n \/ i = n
      BY <1>3
    <2>2. QED
      BY <1>3, <2>1 DEF IInv, TypeOK
  <1>11. \A i, j \in DOMAIN calls' : i < j =>
           calls'[j].clause \subseteq calls'[i].clause /\ calls'[j].clause # calls'[i].clause
    <2>1. ASSUME NEW i \in 1 .. n + 1, NEW j \in 1 .. n + 1, i < j
          PROVE  /\ calls'[j].clause \subseteq calls'[i].clause
                 /\ calls'[j].clause # calls'[i].clause
      <3>1. i \in 1 .. n /\ (j \in 1 .. n \/ j = n + 1)
        BY <1>3, <2>1
      <3>2. CASE j \in 1 .. n
        <4>1. calls[j].clause \subseteq calls[i].clause /\ calls[j].clause # calls[i].clause
          BY <1>3, <2>1, <3>1, <3>2 DEF IInv, TypeOK
        <4>2. QED
          BY <1>8, <3>1, <3>2, <4>1
      <3>3. CASE j = n + 1
        <4>1. clause \subseteq calls'[i].clause /\ calls'[j].clause = rest
          BY <1>8, <1>10, <3>1, <3>3
        <4>2. QED
          BY <1>9, <4>1
      <3>4. QED
        BY <3>1, <3>2, <3>3
    <2>2. QED
      BY <1>8, <2>1
  <1>12. TypeOK'
    BY <1>2, <1>4, <1>8, <1>11 DEF IInv, TypeOK, Calls
  <1>13. CallsHaveCores'
    <2>1. ASSUME NEW i \in 1 .. n
          PROVE  \E M \in SUBSET Conj : CoreOfCall(i, M)'
      <3>1. PICK M \in SUBSET Conj : CoreOfCall(i, M)
        BY <1>3 DEF IInv, CallsHaveCores, Started
      <3>2. calls'[i].clause = calls[i].clause
        BY <1>8
      <3>3. \A y \in M \ calls[i].left : calls'[i].clause \ {y} \in allFormulas'
        BY <3>1, <3>2 DEF CoreOfCall
      <3>4. CASE i = n
        <4>1. x \in M /\ M \subseteq clause
          BY <1>3, <3>1, <3>4 DEF CoreOfCall
        <4>2. calls'[i].left \subseteq M /\ calls'[i].clause = clause
          BY <1>3, <1>8, <3>1, <3>2, <3>4 DEF CoreOfCall
        <4>3. calls'[i + 1].clause = calls'[i].clause \ {x}
          BY <1>2, <1>8, <3>4, <4>2
        <4>4. \A y \in M \ calls'[i].left : calls'[i].clause \ {y} \in allFormulas'
          BY <1>3, <1>8, <3>3, <3>4, <4>2
        <4>5. CoreOfCall(i, M)'
          BY <3>1, <4>1, <4>2, <4>3, <4>4 DEF CoreOfCall
        <4>6. QED
          BY <4>5
      <3>5. CASE i < n
        <4>1. i + 1 \in 1 .. n
          BY <1>3, <3>5
        <4>2. calls'[i] = calls[i] /\ calls'[i + 1].clause = calls[i + 1].clause
          BY <1>8, <3>5, <4>1
        <4>3. \E y \in M : calls[i + 1].clause = calls[i].clause \ {y}
          BY <1>1, <3>1, <3>5 DEF CoreOfCall
        <4>4. CoreOfCall(i, M)'
          BY <3>1, <3>3, <4>2, <4>3 DEF CoreOfCall
        <4>5. QED
          BY <4>4
      <3>6. i = n \/ i < n
        BY <1>3, <2>1
      <3>7. QED
        BY <3>4, <3>5, <3>6
    <2>2. \A i \in DOMAIN calls' : Started(i)' => i \in 1 .. n
      BY <1>3, <1>8 DEF Started
    <2>3. QED
      BY <2>1, <2>2 DEF CallsHaveCores
  <1>14. CallsUnsat'
    <2>1. \A i \in 1 .. n : Unsat(cores, calls'[i].clause)
      BY <1>3, <1>8 DEF IInv, CallsUnsat
    <2>2. Unsat(cores, calls'[n + 1].clause)
      BY <1>2, <1>8
    <2>3. \A i \in DOMAIN calls' : i \in 1 .. n \/ i = n + 1
      BY <1>3, <1>8
    <2>4. QED
      BY <2>1, <2>2, <2>3 DEF CallsUnsat
  <1>15. FirstCall' /\ Busy'
    <2>1. calls' # <<>> /\ 1 \in 1 .. n
      BY <1>3, <1>8, EmptySeq DEF Calls
    <2>2. calls'[1].clause = Conj
      BY <1>3, <1>8, <2>1 DEF IInv, FirstCall
    <2>3. QED
      BY <2>1, <2>2 DEF FirstCall, Busy
  <1>16. CoresOnly' /\ AtAbort'
    BY DEF IInv, CoresOnly, AtAbort
  <1>17. TriedMeansFound'
    <2>1. ASSUME NEW F \in allFormulas',
                 \A i \in DOMAIN calls' : calls'[i].clause # F
          PROVE  Cores(F) \subseteq AllMUC
      <3>1. n + 1 \in DOMAIN calls' /\ \A i \in 1 .. n : i \in DOMAIN calls'
        BY <1>3, <1>8
      <3>2. F # rest
        BY <1>8, <2>1, <3>1
      <3>3. \A i \in DOMAIN calls : calls[i].clause # F
        BY <1>3, <1>8, <2>1, <3>1
      <3>4. QED
        BY <1>2, <2>1, <3>2, <3>3 DEF IInv, TriedMeansFound
    <2>2. QED
      BY <2>1 DEF TriedMeansFound, Cores
  <1>18. QED
    BY <1>12, <1>13, <1>14, <1>15, <1>16, <1>17 DEF IInv

\* Taking out a member.
LEMMA TakeOutIInv == IInv /\ TakeOut => IInv'
  <1> SUFFICES ASSUME IInv, TakeOut PROVE IInv'
    OBVIOUS
  <1>1. /\ pc = "loop" /\ UNCHANGED <<cores, AllMUC>>
        /\ calls # <<>>
    BY DEF TakeOut, IInv, Busy
  <1>2. PICK x \in left :
          IF Rest(x) = {}
          THEN pc' = "abort" /\ UNCHANGED <<calls, allFormulas>>
          ELSE /\ allFormulas' = allFormulas \cup {Rest(x)}
               /\ IF ~ Tried(Rest(x)) /\ Unsat(cores, Rest(x))
                  THEN /\ calls' = Append(Without(x), [clause |-> Rest(x), left |-> {}])
                       /\ pc' = "enter"
                  ELSE calls' = Without(x) /\ UNCHANGED pc
    BY DEF TakeOut
  <1>3. CASE Rest(x) = {}
    <2>1. pc' = "abort" /\ UNCHANGED <<calls, allFormulas, cores, AllMUC>>
      BY <1>1, <1>2, <1>3
    <2>2. clause = {x}
      <3>1. calls \in Calls
        BY DEF IInv, TypeOK, Calls
      <3>2. PICK M \in SUBSET Conj : CoreOfCall(Len(calls), M)
        BY <1>1, <3>1, Innermost DEF IInv, CallsHaveCores, Started
      <3>3. x \in clause
        BY <1>1, <3>1, <3>2, Innermost DEF CoreOfCall
      <3>4. QED
        BY <1>3, <3>3 DEF Rest
    <2>3. clause' = clause /\ left' = left
      BY <2>1 DEF clause, left
    <2>4. AtAbort'
      BY <1>1, <2>1, <2>2, <2>3 DEF AtAbort
    <2>5. CallsHaveCores'
      <3>1. \A i \in DOMAIN calls : \E M \in SUBSET Conj : CoreOfCall(i, M)
        BY <1>1 DEF IInv, CallsHaveCores, Started
      <3>2. \A i, M : CoreOfCall(i, M)' <=> CoreOfCall(i, M)
        BY <2>1 DEF CoreOfCall
      <3>3. QED
        BY <2>1, <3>1, <3>2 DEF CallsHaveCores
    <2>6. TypeOK' /\ CallsUnsat' /\ FirstCall' /\ CoresOnly' /\ Busy' /\ TriedMeansFound'
      BY <2>1 DEF IInv, TypeOK, CallsUnsat, FirstCall, CoresOnly, Busy, TriedMeansFound, Cores
    <2>7. QED
      BY <2>1, <2>4, <2>5, <2>6 DEF IInv
  <1>4. CASE Rest(x) # {} /\ ~ Tried(Rest(x)) /\ Unsat(cores, Rest(x))
    BY <1>1, <1>2, <1>4, NestIInv DEF Rest
  <1>5. CASE Rest(x) # {} /\ ~ (~ Tried(Rest(x)) /\ Unsat(cores, Rest(x)))
    <2>1. /\ calls' = Without(x) /\ pc' = "loop"
          /\ allFormulas' = allFormulas \cup {clause \ {x}}
      BY <1>1, <1>2, <1>5 DEF Rest
    <2>2. Tried(clause \ {x}) \/ Sat(cores, clause \ {x})
      BY <1>5 DEF Rest, Sat
    <2>3. QED
      BY <1>1, <2>1, <2>2, SkipIInv
  <1>6. QED
    BY <1>3, <1>4, <1>5

\* A call returns.
LEMMA ReturnIInv == IInv /\ Return => IInv'
  <1> SUFFICES ASSUME IInv, Return PROVE IInv'
    OBVIOUS
  <1> DEFINE n == Len(calls)
  <1>1. /\ calls \in Calls /\ calls # <<>> /\ pc = "loop" /\ left = {}
        /\ n \in Nat \ {0} /\ DOMAIN calls = 1 .. n /\ clause = calls[n].clause
    BY Innermost DEF IInv, TypeOK, Calls, Busy, Return
  <1>2. /\ calls' = Front(calls) /\ pc' = IF n = 1 THEN "done" ELSE "loop"
        /\ UNCHANGED <<cores, AllMUC, allFormulas>>
    BY DEF Return
  <1>3. /\ calls' \in Calls /\ Len(calls') = n - 1 /\ DOMAIN calls' = 1 .. n - 1
        /\ \A i \in 1 .. n - 1 : calls'[i] = calls[i]
    <2>1. \A i \in 1 .. n - 1 : calls[i] \in [clause : SUBSET Conj, left : SUBSET Conj]
      BY <1>1, Innermost
    <2>2. calls' = SubSeq(calls, 1, n - 1)
      BY <1>2 DEF Front
    <2>3. /\ calls' \in Calls /\ Len(calls') = n - 1
          /\ \A i \in 1 .. n - 1 : calls'[i] = calls[i]
      BY <1>1, <2>1, <2>2, SubSeqProperties DEF Calls
    <2>4. QED
      BY <1>1, <2>3, LenProperties DEF Calls
  <1>4. Cores(clause) \subseteq AllMUC
    BY <1>1, AllFound
  <1>5. TypeOK'
    <2>1. \A i, j \in DOMAIN calls' : i < j =>
            calls'[j].clause \subseteq calls'[i].clause /\ calls'[j].clause # calls'[i].clause
      BY <1>1, <1>3 DEF IInv, TypeOK
    <2>2. QED
      BY <1>2, <1>3, <2>1 DEF IInv, TypeOK, Calls
  <1>6. CallsHaveCores'
    <2>1. ASSUME NEW i \in DOMAIN calls'
          PROVE  \E M \in SUBSET Conj : CoreOfCall(i, M)'
      <3>1. i \in DOMAIN calls /\ i < n
        BY <1>1, <1>3, <2>1
      <3>2. PICK M \in SUBSET Conj : CoreOfCall(i, M)
        BY <1>1, <3>1 DEF IInv, CallsHaveCores, Started
      <3>3. i < Len(calls') => i + 1 \in DOMAIN calls'
        BY <1>1, <1>3, <2>1
      <3>4. CoreOfCall(i, M)'
        BY <1>2, <1>3, <2>1, <3>1, <3>2, <3>3 DEF CoreOfCall
      <3>5. QED
        BY <3>4
    <2>2. QED
      BY <2>1 DEF CallsHaveCores
  <1>7. CallsUnsat'
    BY <1>1, <1>2, <1>3 DEF IInv, CallsUnsat
  <1>8. FirstCall' /\ Busy'
    <2>1. n = 1 => calls' = <<>>
      BY <1>3, EmptySeq DEF Calls
    <2>2. n > 1 => calls' # <<>> /\ 1 \in 1 .. n - 1
      BY <1>1, <1>3
    <2>3. QED
      BY <1>1, <1>2, <1>3, <2>1, <2>2 DEF IInv, FirstCall, Busy
  <1>9. CoresOnly' /\ AtAbort'
    BY <1>2 DEF IInv, CoresOnly, AtAbort
  <1>10. TriedMeansFound'
    <2>1. ASSUME NEW F \in allFormulas,
                 \A i \in DOMAIN calls' : calls'[i].clause # F
          PROVE  Cores(F) \subseteq AllMUC
      <3>1. CASE F = clause
        BY <1>4, <3>1
      <3>2. CASE F # clause
        <4>1. \A i \in DOMAIN calls : calls[i].clause # F
          <5>1. \A i \in DOMAIN calls : i = n \/ i \in DOMAIN calls'
            BY <1>1, <1>3
          <5>2. QED
            BY <1>1, <1>3, <2>1, <3>2, <5>1
        <4>2. QED
          BY <4>1 DEF IInv, TriedMeansFound
      <3>3. QED
        BY <3>1, <3>2
    <2>2. QED
      BY <1>2, <2>1 DEF TriedMeansFound, Cores
  <1>11. (pc = "done" => Cores(Conj) \subseteq AllMUC)'
    <2>1. n = 1 => clause = Conj
      BY <1>1 DEF IInv, FirstCall
    <2>2. QED
      BY <1>2, <1>4, <2>1 DEF Cores
  <1>12. QED
    BY <1>5, <1>6, <1>7, <1>8, <1>9, <1>10, <1>11 DEF IInv

LEMMA StutterIInv == IInv /\ UNCHANGED vars => IInv'
  <1> SUFFICES ASSUME IInv, UNCHANGED vars PROVE IInv'
    OBVIOUS
  <1>1. \A i, M : CoreOfCall(i, M)' <=> CoreOfCall(i, M)
    BY DEF vars, CoreOfCall
  <1>2. CallsHaveCores'
    BY <1>1 DEF IInv, vars, CallsHaveCores, Started
  <1>3. AtAbort'
    BY DEF IInv, vars, AtAbort, clause, left
  <1>4. QED
    BY <1>2, <1>3 DEF IInv, vars, TypeOK, CallsUnsat, FirstCall, CoresOnly, Busy,
                       TriedMeansFound, Cores

\* Every step preserves the invariant.
LEMMA NextIInv == IInv /\ [Next]_vars => IInv'
  BY ExtractIInv, TakeOutIInv, ReturnIInv, StutterIInv DEF Next, Terminated

\* The invariant holds in every reachable state.
THEOREM Invariance == Spec => []IInv
  BY InitIInv, NextIInv, PTL DEF Spec

\* Every variable of getAllMuc() keeps its type, and nested calls are about
\* smaller and smaller formulas.
THEOREM TypeCorrect == Spec => []TypeOK
  <1>1. IInv => TypeOK
    BY DEF IInv
  <1>2. QED
    BY <1>1, Invariance, PTL

\* A call may skip a rest that was tried before: all of its cores were found.
THEOREM SkippingIsRight == Spec => []TriedMeansFound
  <1>1. IInv => TriedMeansFound
    BY DEF IInv
  <1>2. QED
    BY <1>1, Invariance, PTL

\* getAllMuc() finds minimal cores only, and at its end all of them.
THEOREM FindsAllCores == Spec => []FindsAll
  <1>1. IInv => FindsAll
    <2> SUFFICES ASSUME IInv PROVE FindsAll
      OBVIOUS
    <2>1. AllMUC \subseteq Cores(Conj)
      BY DEF IInv, TypeOK, CoresOnly, Cores
    <2>2. QED
      BY <2>1 DEF IInv, FindsAll
  <1>2. QED
    BY <1>1, Invariance, PTL

\* The assertion in constructAnd() fails only for a formula of one conjunct, or
\* when two conjuncts are unsatisfiable each by itself.
THEOREM AbortNeedsSingles == Spec => []AbortsOnlyOnSingles
  <1>1. IInv => AbortsOnlyOnSingles
    <2> SUFFICES ASSUME IInv, pc = "abort"
                 PROVE  Cardinality(Single) > 1 \/ Cardinality(Conj) = 1
      BY DEF AbortsOnlyOnSingles
    <2> DEFINE n == Len(calls)
    <2>1. /\ calls \in Calls /\ calls # <<>> /\ n \in Nat \ {0}
          /\ n \in DOMAIN calls /\ DOMAIN calls = 1 .. n /\ clause = calls[n].clause
          /\ clause \in SUBSET Conj
      BY Innermost DEF IInv, TypeOK, Calls, AtAbort
    <2>2. PICK x \in left : clause = {x}
      BY DEF IInv, AtAbort
    <2>3. CASE n = 1
      <3>1. Conj = {x}
        BY <2>1, <2>2, <2>3 DEF IInv, FirstCall
      <3>2. QED
        BY <3>1, FS_Singleton
    <2>4. CASE n > 1
      <3>1. n - 1 \in DOMAIN calls /\ n - 1 < n /\ n - 1 + 1 = n
        BY <2>1, <2>4
      <3>2. PICK M \in SUBSET Conj : CoreOfCall(n - 1, M)
        BY <3>1 DEF IInv, CallsHaveCores, Started
      <3>3. PICK y \in M : calls[n].clause = calls[n - 1].clause \ {y}
        BY <3>1, <3>2 DEF CoreOfCall
      <3>4. M \subseteq {x, y} /\ x # y /\ IsMUC(cores, M)
        BY <2>1, <2>2, <3>2, <3>3 DEF CoreOfCall
      <3>5. Unsat(cores, {x})
        BY <2>1, <2>2 DEF IInv, CallsUnsat
      <3>6. x \notin M
        <4>1. SUFFICES ASSUME x \in M PROVE FALSE
          OBVIOUS
        <4>2. {x} \subseteq M \ {y}
          BY <3>4, <4>1
        <4>3. Unsat(cores, M \ {y})
          BY <3>5, <4>2, UnsatMonotonic
        <4>4. QED
          BY <3>3, <3>4, <4>3 DEF IsMUC, Sat
      <3>7. Unsat(cores, {y})
        <4>1. M = {y}
          BY <3>3, <3>4, <3>6
        <4>2. QED
          BY <3>4, <4>1 DEF IsMUC
      <3>8. {x, y} \subseteq Single
        BY <2>1, <2>2, <3>2, <3>3, <3>5, <3>7 DEF Single
      <3>9. IsFiniteSet(Single)
        BY ConjAssumption, FS_Subset DEF Single
      <3>10. Cardinality({x, y}) = 2 /\ IsFiniteSet({x, y})
        <4>1. IsFiniteSet({x}) /\ Cardinality({x}) = 1
          BY FS_Singleton
        <4>2. {x, y} = {x} \cup {y} /\ y \notin {x}
          BY <3>4
        <4>3. QED
          BY <4>1, <4>2, FS_AddElement
      <3>11. Cardinality(Single) \in Nat /\ 2 <= Cardinality(Single)
        BY <3>8, <3>9, <3>10, FS_Subset, FS_CardinalityType
      <3>12. QED
        BY <3>11
    <2>5. QED
      BY <2>1, <2>3, <2>4
  <1>2. QED
    BY <1>1, Invariance, PTL

------------------------------------------------------------------------------
(* The enumeration is finite.  A nested call is about a formula that was not tried
   before, and there are finitely many; a call goes through a core, which is no
   larger than the formula. *)

Size == Cardinality(Conj)

Untried == (SUBSET Conj) \ allFormulas

\* The members that the calls still have to take out, each with its call.
Pending == {p \in (1 .. Len(calls)) \X Conj : p[2] \in calls[p[1]].left}

Work ==
  (Size + 2) * Cardinality(Untried) + Cardinality(Pending) + Len(calls)
    + (CASE pc = "enter" -> Size + 2
         [] pc = "loop"  -> 1
         [] OTHER        -> 0)

LEMMA CountsFinite ==
  ASSUME TypeOK
  PROVE  /\ Size \in Nat /\ Len(calls) \in Nat
         /\ IsFiniteSet(Untried) /\ Cardinality(Untried) \in Nat
         /\ IsFiniteSet(Pending) /\ Cardinality(Pending) \in Nat
  <1>1. Size \in Nat /\ IsFiniteSet(SUBSET Conj)
    BY ConjAssumption, FS_CardinalityType, FS_SUBSET DEF Size
  <1>2. Len(calls) \in Nat
    BY DEF TypeOK
  <1>3. IsFiniteSet(Untried)
    BY <1>1, FS_Subset DEF Untried
  <1>4. IsFiniteSet(1 .. Len(calls))
    BY <1>2, FS_Interval
  <1>5. IsFiniteSet((1 .. Len(calls)) \X Conj)
    BY <1>4, ConjAssumption, FS_Product
  <1>6. Pending \in SUBSET ((1 .. Len(calls)) \X Conj)
    BY DEF Pending
  <1>7. IsFiniteSet(Pending)
    BY <1>5, <1>6, FS_Subset
  <1>8. QED
    BY <1>1, <1>2, <1>3, <1>7, FS_CardinalityType

LEMMA WorkNatural == TypeOK => Work \in Nat
  <1> SUFFICES ASSUME TypeOK PROVE Work \in Nat
    OBVIOUS
  <1>1. PICK k, u, p, n : /\ k = Size /\ u = Cardinality(Untried)
                          /\ p = Cardinality(Pending) /\ n = Len(calls)
    OBVIOUS
  <1>2. k \in Nat /\ u \in Nat /\ p \in Nat /\ n \in Nat
    BY <1>1, CountsFinite
  <1>3. PICK m : m = (k + 2) * u
    OBVIOUS
  <1>4. m \in Nat
    BY <1>2, <1>3
  <1>5. \/ Work = m + p + n + (k + 2)
        \/ Work = m + p + n + 1
        \/ Work = m + p + n + 0
    BY <1>1, <1>3 DEF Work
  <1>6. QED
    BY <1>2, <1>4, <1>5

\* A part of what is pending is no more.
LEMMA PartPending ==
  ASSUME TypeOK, Pending' \subseteq Pending
  PROVE  /\ Cardinality(Pending') \in Nat
         /\ Cardinality(Pending') <= Cardinality(Pending)
         /\ Pending' # Pending => Cardinality(Pending') < Cardinality(Pending)
  <1>1. IsFiniteSet(Pending) /\ Cardinality(Pending) \in Nat
    BY CountsFinite
  <1>2. IsFiniteSet(Pending')
    BY <1>1, FS_Subset
  <1>3. Cardinality(Pending') \in Nat
    BY <1>2, FS_CardinalityType
  <1>4. Cardinality(Pending') <= Cardinality(Pending)
    BY <1>1, FS_Subset
  <1>5. Pending' # Pending => Cardinality(Pending') # Cardinality(Pending)
    BY <1>1, FS_Subset
  <1>6. QED
    BY <1>1, <1>3, <1>4, <1>5

\* Extracting a core makes its members pending.
LEMMA ExtractCounts == ASSUME IInv, Extract PROVE Work' < Work
  <1>1. TypeOK /\ TypeOK' /\ calls \in Calls /\ calls # <<>>
    BY ExtractIInv DEF IInv, TypeOK, Calls, Busy, Extract
  <1>2. PICK M \in SUBSET clause : LeftBecomes(M)
    BY DEF Extract, LeftBecomes
  <1>3. M \in SUBSET Conj
    BY <1>1, <1>2, Innermost
  <1>4. pc = "enter" /\ pc' = "loop" /\ Untried' = Untried /\ Size' = Size
    BY DEF Extract, Untried, Size
  <1>5. PICK n : n = Len(calls)
    OBVIOUS
  <1>6. /\ Len(calls') = n /\ n \in Nat
        /\ \A i \in 1 .. n : i < n => calls'[i] = calls[i]
    BY <1>1, <1>2, <1>3, <1>5, LeftChanges, Innermost
  <1>7. PICK new : new = {n} \X Conj
    OBVIOUS
  <1>8. IsFiniteSet(new) /\ Cardinality(new) = Size
    <2>1. IsFiniteSet({n}) /\ Cardinality({n}) = 1
      BY FS_Singleton
    <2>2. IsFiniteSet({n} \X Conj) /\ Cardinality({n} \X Conj) = 1 * Cardinality(Conj)
      BY <2>1, ConjAssumption, FS_Product
    <2>3. Cardinality(Conj) \in Nat
      BY ConjAssumption, FS_CardinalityType
    <2>4. QED
      BY <1>7, <2>2, <2>3 DEF Size
  <1>9. ASSUME NEW p \in Pending' PROVE p \in Pending \cup new
    <2>1. p \in (1 .. n) \X Conj /\ p[2] \in calls'[p[1]].left
      BY <1>6 DEF Pending
    <2>2. p[1] \in 1 .. n /\ p[2] \in Conj /\ p = <<p[1], p[2]>>
      BY <2>1
    <2>3. CASE p[1] < n
      BY <1>5, <1>6, <2>1, <2>2, <2>3 DEF Pending
    <2>4. CASE p[1] = n
      BY <1>7, <2>2, <2>4
    <2>5. QED
      BY <1>6, <2>2, <2>3, <2>4
  <1>10. PICK a, b, k, u : /\ a = Cardinality(Pending) /\ b = Cardinality(Pending')
                           /\ k = Size /\ u = Cardinality(Untried)
    OBVIOUS
  <1>11. a \in Nat /\ k \in Nat /\ u \in Nat
    BY <1>1, <1>10, CountsFinite
  <1>12. b \in Nat /\ b <= a + k
    <2>1. IsFiniteSet(Pending)
      BY <1>1, CountsFinite
    <2>2. /\ IsFiniteSet(Pending \cup new)
          /\ Cardinality(Pending \cup new) = a + k - Cardinality(Pending \cap new)
      BY <1>8, <1>10, <2>1, FS_Union
    <2>3. Cardinality(Pending \cap new) \in Nat
      BY <2>1, FS_Intersection, FS_CardinalityType
    <2>4. Pending' \subseteq Pending \cup new
      BY <1>9
    <2>5. IsFiniteSet(Pending') /\ b <= Cardinality(Pending \cup new)
      BY <1>10, <2>2, <2>4, FS_Subset
    <2>6. b \in Nat
      BY <1>10, <2>5, FS_CardinalityType
    <2>7. QED
      BY <1>11, <2>2, <2>3, <2>5, <2>6
  <1>13. PICK m : m = (k + 2) * u
    OBVIOUS
  <1>14. m \in Nat
    BY <1>11, <1>13
  <1>15. Work = m + a + n + (k + 2)
    BY <1>4, <1>5, <1>10, <1>13 DEF Work
  <1>16. Work' = m + b + n + 1
    BY <1>4, <1>6, <1>10, <1>13 DEF Work
  <1>17. QED
    BY <1>6, <1>11, <1>12, <1>14, <1>15, <1>16

\* Taking out a member makes one less pending, in a nested call or not.
LEMMA OneLessPending ==
  ASSUME IInv, pc = "loop", NEW x \in left,
         Len(calls') \in Nat, Len(calls) <= Len(calls'),
         \A i \in 1 .. Len(calls) : i < Len(calls) => calls'[i] = calls[i],
         calls'[Len(calls)].left = left \ {x},
         \A i \in 1 .. Len(calls') : i > Len(calls) => calls'[i].left = {}
  PROVE  /\ Cardinality(Pending') \in Nat
         /\ Cardinality(Pending') < Cardinality(Pending)
  <1>1. PICK n : n = Len(calls)
    OBVIOUS
  <1>2. /\ TypeOK /\ calls \in Calls /\ calls # <<>>
        /\ n \in Nat \ {0} /\ left = calls[n].left /\ x \in Conj
    BY <1>1, Innermost DEF IInv, TypeOK, Calls, Busy
  <1>3. PICK q : q = <<n, x>>
    OBVIOUS
  <1>4. q \in Pending
    <2>1. n \in 1 .. Len(calls)
      BY <1>1, <1>2
    <2>2. QED
      BY <1>2, <1>3, <2>1 DEF Pending
  <1>5. q \notin Pending'
    BY <1>1, <1>2, <1>3 DEF Pending
  <1>6. ASSUME NEW p \in Pending' PROVE p \in Pending
    <2>1. p \in (1 .. Len(calls')) \X Conj /\ p[2] \in calls'[p[1]].left
      BY DEF Pending
    <2>2. p[1] \in 1 .. Len(calls') /\ p[2] \in Conj /\ p = <<p[1], p[2]>>
      BY <2>1
    <2>3. ~ (p[1] > n)
      BY <1>1, <2>1, <2>2
    <2>4. p[1] \in 1 .. n /\ (p[1] < n \/ p[1] = n)
      BY <1>2, <2>2, <2>3
    <2>5. p[2] \in calls[p[1]].left
      BY <1>1, <1>2, <2>1, <2>4
    <2>6. QED
      BY <1>1, <2>2, <2>4, <2>5 DEF Pending
  <1>7. Pending' \subseteq Pending /\ Pending' # Pending
    BY <1>4, <1>5, <1>6
  <1>8. QED
    BY <1>2, <1>7, PartPending

\* The rest is skipped.
LEMMA SkipCounts ==
  ASSUME IInv, pc = "loop", pc' = "loop", NEW x \in left, calls' = Without(x),
         allFormulas \subseteq allFormulas', allFormulas' \subseteq SUBSET Conj
  PROVE  Work' < Work
  <1>1. TypeOK /\ calls \in Calls /\ calls # <<>>
    BY DEF IInv, TypeOK, Calls, Busy
  <1>2. LeftBecomes(left \ {x}) /\ left \ {x} \in SUBSET Conj
    BY <1>1, Innermost DEF Without, LeftBecomes
  <1>3. /\ Len(calls') = Len(calls) /\ DOMAIN calls = 1 .. Len(calls)
        /\ \A i \in DOMAIN calls : i < Len(calls) => calls'[i] = calls[i]
        /\ calls'[Len(calls)].left = left \ {x}
    BY <1>1, <1>2, LeftChanges, Innermost
  <1>4. Len(calls) \in Nat
    BY <1>1, CountsFinite
  <1>5. \A i \in 1 .. Len(calls') : ~ (i > Len(calls))
    BY <1>3, <1>4
  <1>6. PICK a, b, k, u, v, n : /\ a = Cardinality(Pending) /\ b = Cardinality(Pending')
                                /\ k = Size /\ u = Cardinality(Untried)
                                /\ v = Cardinality(Untried') /\ n = Len(calls)
    OBVIOUS
  <1>7. a \in Nat /\ k \in Nat /\ u \in Nat /\ n \in Nat
    BY <1>1, <1>6, CountsFinite
  <1>8. b \in Nat /\ b < a
    BY <1>3, <1>4, <1>5, <1>6, OneLessPending
  <1>9. v \in Nat /\ v <= u
    <2>1. Untried' \subseteq Untried
      BY DEF Untried
    <2>2. IsFiniteSet(Untried)
      BY <1>1, CountsFinite
    <2>3. QED
      BY <1>6, <2>1, <2>2, FS_Subset, FS_CardinalityType
  <1>10. PICK l, m : l = (k + 2) * v /\ m = (k + 2) * u
    OBVIOUS
  <1>11. l \in Nat /\ m \in Nat /\ l <= m
    BY <1>7, <1>9, <1>10
  <1>12. Size' = Size
    BY DEF Size
  <1>13. Work = m + a + n + 1 /\ Work' = l + b + n + 1
    BY <1>3, <1>6, <1>10, <1>12 DEF Work
  <1>14. QED
    BY <1>7, <1>8, <1>11, <1>13

\* A nested call is made about a formula that is tried for the first time.
LEMMA NestCounts ==
  ASSUME IInv, pc = "loop", pc' = "enter", NEW x \in left, NEW F \in SUBSET Conj,
         calls' = Append(Without(x), [clause |-> F, left |-> {}]),
         F \notin allFormulas, allFormulas' = allFormulas \cup {F}
  PROVE  Work' < Work
  <1>1. TypeOK /\ calls \in Calls /\ calls # <<>>
    BY DEF IInv, TypeOK, Calls, Busy
  <1>2. PICK L \in SUBSET Conj : L = left \ {x}
    BY <1>1, Innermost
  <1>3. PICK mid : mid = [calls EXCEPT ![Len(calls)].left = L]
    OBVIOUS
  <1>4. Without(x) = mid
    BY <1>1, <1>2, <1>3, Innermost DEF Without
  <1>5. /\ Len(calls') = Len(calls) + 1
        /\ \A i \in 1 .. Len(calls) : i < Len(calls) => calls'[i] = calls[i]
        /\ calls'[Len(calls)].left = left \ {x}
        /\ calls'[Len(calls) + 1].left = {}
    BY <1>1, <1>2, <1>3, <1>4, PushChanges
  <1>6. PICK n : n = Len(calls)
    OBVIOUS
  <1>7. n \in Nat /\ Len(calls') \in Nat /\ n <= Len(calls')
    BY <1>1, <1>5, <1>6, CountsFinite
  <1>8. \A i \in 1 .. Len(calls') : i > n => calls'[i].left = {}
    <2>1. \A i \in 1 .. Len(calls') : i > n => i = n + 1
      BY <1>5, <1>6, <1>7
    <2>2. QED
      BY <1>5, <1>6, <2>1
  <1>9. PICK a, b, k, u, v : /\ a = Cardinality(Pending) /\ b = Cardinality(Pending')
                             /\ k = Size /\ u = Cardinality(Untried)
                             /\ v = Cardinality(Untried')
    OBVIOUS
  <1>10. a \in Nat /\ k \in Nat /\ u \in Nat
    BY <1>1, <1>9, CountsFinite
  <1>11. b \in Nat /\ b < a
    BY <1>5, <1>6, <1>7, <1>8, <1>9, OneLessPending
  <1>12. v \in Nat /\ u = v + 1
    <2>1. F \in Untried /\ Untried' = Untried \ {F}
      BY DEF Untried
    <2>2. v = u - 1
      BY <1>1, <1>9, <2>1, CountsFinite, FS_RemoveElement
    <2>3. IsFiniteSet(Untried')
      BY <1>1, <2>1, CountsFinite, FS_RemoveElement
    <2>4. v \in Nat
      BY <1>9, <2>3, FS_CardinalityType
    <2>5. QED
      BY <1>10, <2>2, <2>4
  <1>13. PICK l, m : l = (k + 2) * v /\ m = (k + 2) * u
    OBVIOUS
  <1>14. l \in Nat /\ m = l + (k + 2)
    <2>1. (k + 2) * (v + 1) = (k + 2) * v + (k + 2)
      BY <1>10, <1>12
    <2>2. QED
      BY <1>10, <1>12, <1>13, <2>1
  <1>15. Size' = Size
    BY DEF Size
  <1>16. Work = m + a + n + 1 /\ Work' = l + b + (n + 1) + (k + 2)
    BY <1>5, <1>6, <1>9, <1>13, <1>15 DEF Work
  <1>17. QED
    BY <1>7, <1>10, <1>11, <1>14, <1>16

LEMMA TakeOutCounts == ASSUME IInv, TakeOut PROVE Work' < Work
  <1>1. TypeOK /\ TypeOK' /\ pc = "loop"
    BY TakeOutIInv DEF IInv, TakeOut
  <1>2. PICK x \in left :
          IF Rest(x) = {}
          THEN pc' = "abort" /\ UNCHANGED <<calls, allFormulas>>
          ELSE /\ allFormulas' = allFormulas \cup {Rest(x)}
               /\ IF ~ Tried(Rest(x)) /\ Unsat(cores, Rest(x))
                  THEN /\ calls' = Append(Without(x), [clause |-> Rest(x), left |-> {}])
                       /\ pc' = "enter"
                  ELSE calls' = Without(x) /\ UNCHANGED pc
    BY DEF TakeOut
  <1>3. allFormulas' \subseteq SUBSET Conj
    BY <1>1 DEF TypeOK
  <1>4. CASE Rest(x) = {}
    <2>1. /\ pc' = "abort" /\ Len(calls') = Len(calls) /\ Size' = Size
          /\ Untried' = Untried /\ Pending' = Pending
      BY <1>2, <1>4 DEF Size, Untried, Pending
    <2>2. PICK k : k = (Size + 2) * Cardinality(Untried) + Cardinality(Pending) + Len(calls)
      OBVIOUS
    <2>3. Work = k + 1 /\ Work' = k + 0
      BY <1>1, <2>1, <2>2 DEF Work
    <2>4. k \in Int
      <3>1. PICK s, u, c, n : /\ s = Size /\ u = Cardinality(Untried)
                              /\ c = Cardinality(Pending) /\ n = Len(calls)
        OBVIOUS
      <3>2. s \in Nat /\ u \in Nat /\ c \in Nat /\ n \in Nat
        BY <1>1, <3>1, CountsFinite
      <3>3. QED
        BY <2>2, <3>1, <3>2
    <2>5. QED
      BY <2>3, <2>4
  <1>5. CASE Rest(x) # {} /\ ~ Tried(Rest(x)) /\ Unsat(cores, Rest(x))
    <2>1. Rest(x) \in SUBSET Conj
      BY <1>2, <1>3, <1>5
    <2>2. QED
      BY <1>1, <1>2, <1>5, <2>1, NestCounts DEF Tried
  <1>6. CASE Rest(x) # {} /\ ~ (~ Tried(Rest(x)) /\ Unsat(cores, Rest(x)))
    <2>1. calls' = Without(x) /\ pc' = "loop" /\ allFormulas \subseteq allFormulas'
      BY <1>1, <1>2, <1>6
    <2>2. QED
      BY <1>1, <1>3, <2>1, SkipCounts
  <1>7. QED
    BY <1>4, <1>5, <1>6

LEMMA ReturnCounts == ASSUME IInv, Return PROVE Work' < Work
  <1>1. PICK n : n = Len(calls)
    OBVIOUS
  <1>2. /\ TypeOK /\ calls \in Calls /\ calls # <<>> /\ pc = "loop"
        /\ n \in Nat \ {0} /\ calls' = SubSeq(calls, 1, n - 1)
    BY <1>1, Innermost DEF IInv, TypeOK, Calls, Busy, Return, Front
  <1>3. Len(calls') = n - 1 /\ \A i \in 1 .. n - 1 : calls'[i] = calls[i]
    BY <1>1, <1>2, AllButLast DEF Calls
  <1>4. Pending' \subseteq Pending
    <2>1. ASSUME NEW p \in Pending' PROVE p \in Pending
      <3>1. p \in (1 .. n - 1) \X Conj /\ p[2] \in calls'[p[1]].left
        BY <1>3 DEF Pending
      <3>2. p[1] \in 1 .. n - 1 /\ p[1] \in 1 .. n /\ p[2] \in Conj /\ p = <<p[1], p[2]>>
        BY <1>2, <3>1
      <3>3. p[2] \in calls[p[1]].left
        BY <1>3, <3>1, <3>2
      <3>4. QED
        BY <1>1, <3>2, <3>3 DEF Pending
    <2>2. QED
      BY <2>1
  <1>5. PICK a, b, k, u : /\ a = Cardinality(Pending) /\ b = Cardinality(Pending')
                          /\ k = Size /\ u = Cardinality(Untried)
    OBVIOUS
  <1>6. a \in Nat /\ k \in Nat /\ u \in Nat /\ b \in Nat /\ b <= a
    BY <1>2, <1>4, <1>5, CountsFinite, PartPending
  <1>7. PICK m : m = (k + 2) * u
    OBVIOUS
  <1>8. m \in Nat
    BY <1>6, <1>7
  <1>9. Size' = Size /\ Untried' = Untried
    BY DEF Size, Untried, Return
  <1>10. Work = m + a + n + 1
    BY <1>1, <1>2, <1>5, <1>7 DEF Work
  <1>11. Work' = m + b + (n - 1) + 1 \/ Work' = m + b + (n - 1) + 0
    <2>1. pc' = "done" \/ pc' = "loop"
      BY DEF Return
    <2>2. QED
      BY <1>3, <1>5, <1>7, <1>9, <2>1 DEF Work
  <1>12. QED
    BY <1>2, <1>6, <1>8, <1>10, <1>11

\* getAllMuc() cannot go on for ever: every one of its steps takes from a natural
\* number, whatever cores the nested extraction returns.
THEOREM EachStepCounts == Spec => [][Work' < Work /\ Work \in Nat]_vars
  <1>1. ASSUME IInv, [Next]_vars
        PROVE  [Work' < Work /\ Work \in Nat]_vars
    <2>1. Work \in Nat
      BY <1>1, WorkNatural DEF IInv
    <2>2. CASE Terminated \/ UNCHANGED vars
      BY <2>2 DEF Terminated
    <2>3. CASE Extract \/ TakeOut \/ Return
      BY <1>1, <2>1, <2>3, ExtractCounts, TakeOutCounts, ReturnCounts
    <2>4. QED
      BY <1>1, <2>2, <2>3 DEF Next
  <1>2. QED
    BY <1>1, Invariance, PTL DEF Spec
==============================================================================
