--------------------------- MODULE ServiceProofs ---------------------------
(***************************************************************************)
(* Proofs about two services that use a connection: the sessions of        *)
(* supplementary services (Ss) and the call legs (CallLeg), which share no *)
(* state.                                                                  *)
(*                                                                         *)
(* In both a handler is a composition of functions on a record of the      *)
(* state.  For each function a lemma says what it makes of a state in      *)
(* order, so that the lemma of an action only strings those together.      *)
(* The walks over the sessions of a subscriber are recursive; SubsetInduc- *)
(* tion stands for the induction over the set they walk through.           *)
(***************************************************************************)
EXTENDS Ss, CallLeg, FiniteSetTheorems, SequenceTheorems, WellFoundedInduction,
        TLAPS

(* The first-order prover first: most steps instantiate lemmas.            *)
USE ZenonT(10), SMTT(30)

\* Sets of naturals, and the transaction ids of Ss.

\* A nonempty set of naturals has a least element: the form of induction used
\* below.
LEMMA LeastNat ==
  ASSUME NEW S \in SUBSET Nat, S # {}
  PROVE  \E n \in S : \A m \in S : n <= m
<1> DEFINE R == OpToRel(<, Nat)
<1>1. IsWellFoundedOn(R, Nat)
  BY NatLessThanWellFounded
<1>2. \A x, y \in Nat : x < y => <<x, y>> \in R
  BY DEF OpToRel
<1> HIDE DEF R
<1>3. \E x \in S : \A y \in S : ~ (<<y, x>> \in R)
  BY <1>1, WFMin
<1>4. PICK n \in S : \A y \in S : ~ (<<y, n>> \in R)
  BY <1>3
<1>5. ASSUME NEW m \in S PROVE n <= m
  <2>1. m \in Nat /\ n \in Nat
    OBVIOUS
  <2>2. ~(m < n)
    BY <1>2, <1>4, <2>1
  <2> QED BY <2>1, <2>2
<1> QED BY <1>5

\* A finite nonempty set of naturals has a greatest element.
LEMMA GreatestNat ==
  ASSUME NEW S \in SUBSET Nat, S # {}, IsFiniteSet(S)
  PROVE  \E n \in S : \A m \in S : n >= m
<1> DEFINE Bad == {k \in Nat : \E T \in SUBSET S : /\ T # {}
           /\ Cardinality(T) = k
                                                   /\ ~ \E n \in T : \A m \in T : n >= m}
<1> SUFFICES ASSUME ~ \E n \in S : \A m \in S : n >= m PROVE FALSE
  OBVIOUS
<1>1. Cardinality(S) \in Bad
  BY FS_CardinalityType
<1>2. PICK k \in Bad : \A j \in Bad : k <= j
  <2>1. Bad \in SUBSET Nat /\ Bad # {}
    BY <1>1
  <2> HIDE DEF Bad
  <2> QED BY <2>1, LeastNat
<1>3. PICK T \in SUBSET S : /\ T # {} /\ Cardinality(T) = k
                            /\ ~ \E n \in T : \A m \in T : n >= m
  BY <1>2
<1>4. IsFiniteSet(T)
  BY FS_Subset
<1>5. PICK x \in T : TRUE
  BY <1>3
<1> DEFINE U == T \ {x}
<1>6. IsFiniteSet(U) /\ Cardinality(U) = k - 1
  BY <1>3, <1>4, <1>5, FS_RemoveElement
<1>7. U # {}
  <2> SUFFICES ASSUME U = {} PROVE FALSE
    OBVIOUS
  <2>1. \A m \in T : m = x
    OBVIOUS
  <2>2. x \in Nat
    OBVIOUS
  <2>3. \A m \in T : x >= m
    BY SMTT(30), <2>1, <2>2
  <2> QED BY <1>3, <1>5, <2>3
<1>8. U \in SUBSET S
  OBVIOUS
<1>9. \E n \in U : \A m \in U : n >= m
  <2> SUFFICES ASSUME ~ \E n \in U : \A m \in U : n >= m PROVE FALSE
    OBVIOUS
  <2>1. Cardinality(U) \in Nat
    BY <1>6, FS_CardinalityType
  <2>2. Cardinality(U) \in Bad
    <3> HIDE DEF U
    <3> QED BY <1>7, <1>8, <2>1
  <2>3. k <= Cardinality(U)
    BY <1>2, <2>2
  <2>4. k \in Nat
    BY <1>2
  <2> HIDE DEF U, Bad
  <2> QED BY SMTT(30), <1>6, <2>3, <2>4
<1>10. PICK n \in U : \A m \in U : n >= m
  BY <1>9
<1>11. n \in Nat /\ x \in Nat /\ T \in SUBSET Nat
  OBVIOUS
<1>12. CASE n >= x
  <2>1. \A m \in T : n >= m
    BY <1>10, <1>12
  <2> QED BY <1>3, <2>1
<1>13. CASE x >= n
  <2>1. ASSUME NEW m \in T PROVE x >= m
    <3>1. m \in Nat /\ (m = x \/ n >= m)
      BY <1>10
    <3> QED BY SMTT(30), <1>11, <1>13, <3>1
  <2> QED BY <1>3, <2>1
<1> QED BY SMTT(30), <1>11, <1>12, <1>13

\* Once round the circle of transaction ids is nowhere.
LEMMA ModSame ==
  ASSUME NEW n \in Nat \ {0}, NEW f \in 0..(n - 1)
  PROVE  f % n = f /\ (f + n) % n = f
OBVIOUS

\* The transaction ids are finitely many naturals.
LEMMA TidsFinite ==
  /\ SsTids \subseteq Nat /\ IsFiniteSet(SsTids) /\ IsFiniteSet(SsMtTids)
  /\ SsMtTids \subseteq SsTids /\ SsMtTids = 0..(SsMtN - 1)
      /\ SsMtN \in Nat \ {0}
<1>0. SsMtN \in Nat \ {0} /\ SsMoTids \subseteq Nat /\ IsFiniteSet(SsMoTids)
  BY SsAssumption
<1>1. 0 \in Int /\ SsMtN - 1 \in Int
  BY <1>0
<1>2. IsFiniteSet(SsMtTids)
  BY <1>1, FS_Interval DEF SsMtTids
<1>3. IsFiniteSet(SsTids)
  BY <1>0, <1>2, FS_Union DEF SsTids
<1> QED BY SMTT(30), <1>0, <1>2, <1>3 DEF SsTids, SsMtTids

\* trans_assign_trans_id() finds a free transaction id whenever there is one,
\* wherever in the circle it is.
LEMMA AssignTid ==
  ASSUME SsFreeTids # {}
  PROVE  SsAssignTid \in SsFreeTids
<1> DEFINE Busy == SsMtTids \ SsFreeTids
           H(t) == /\ t \notin SsFreeTids \/ t = 0
                   /\ \A u \in SsMtTids \ SsFreeTids : t >= u
           h == CHOOSE t \in SsMtTids : H(t)
           free == {i \in SsMtTids : (h + i) % SsMtN \in SsFreeTids}
           least == CHOOSE i \in free : \A j \in free : i <= j
<1>0. SsMtTids = 0..(SsMtN - 1) /\ SsMtN \in Nat \ {0}
      /\ SsMtTids \subseteq Nat /\ IsFiniteSet(SsMtTids)
  BY TidsFinite
<1>1. \E t \in SsMtTids : H(t)
  <2>1. CASE Busy = {}
    <3>1. 0 \in SsMtTids
      BY <1>0
    <3>2. H(0)
      BY <2>1
    <3> QED BY <3>1, <3>2
  <2>2. CASE Busy # {}
    <3>1. IsFiniteSet(Busy)
      BY <1>0, FS_Subset
    <3>2. Busy \in SUBSET Nat
      BY <1>0
    <3>3. \E t \in Busy : \A u \in Busy : t >= u
      <4> HIDE DEF Busy
      <4> QED BY <2>2, <3>1, <3>2, GreatestNat
    <3> QED BY <3>3
  <2> QED BY <2>1, <2>2
<1>2. h \in SsMtTids
  <2> HIDE DEF H
  <2> QED BY <1>1
<1> HIDE DEF h
<1>3. PICK f \in SsFreeTids : f \in 0..(SsMtN - 1)
  BY <1>0 DEF SsFreeTids
<1> DEFINE i == IF f >= h THEN f - h ELSE f + SsMtN - h
<1>4. i \in SsMtTids /\ (h + i = f \/ h + i = f + SsMtN)
  BY <1>0, <1>2, <1>3
<1>5. f % SsMtN = f /\ (f + SsMtN) % SsMtN = f
  BY <1>0, <1>3, ModSame
<1>6. i \in free
  <2>1. (h + i) % SsMtN = f
    BY <1>4, <1>5
  <2> HIDE DEF i
  <2> QED BY <1>3, <1>4, <2>1
<1> HIDE DEF i
<1>7. free \in SUBSET Nat
  BY <1>0
<1>8. \E l \in free : \A j \in free : l <= j
  <2> HIDE DEF free
  <2> QED BY <1>6, <1>7, LeastNat
<1>9. least \in free
  <2> HIDE DEF free
  <2> QED BY <1>8
<1>10. (h + least) % SsMtN \in SsFreeTids
  <2> HIDE DEF least
  <2> QED BY <1>9
<1>11. SsAssignTid = (h + least) % SsMtN
  BY DEF SsAssignTid, h
<1> QED BY <1>10, <1>11

-----------------------------------------------------------------------------
\* The walks over sets of sessions, SsAll.

\* The two functions SsAll applies to the sessions of a set.
SsOp(b, w, t) == IF b THEN SsPaged(w, t) ELSE SsTransFree(w, t)

\* The session SsAll comes to last.
SsMax(U) == CHOOSE u \in U : \A v \in U : u >= v

\* The equation the walk of SsAll solves, for every subset of the sessions.
SsWalk(b, w, S, f) ==
  f = [U \in SUBSET S |-> IF U = {}
      THEN w ELSE SsOp(b, f[U \ {SsMax(U)}], SsMax(U))]

\* Of any sessions one has the greatest id.
LEMMA MaxIs ==
  ASSUME NEW U, U \subseteq SsTids, U # {}
  PROVE  SsMax(U) \in U /\ \A v \in U : SsMax(U) >= v
<1>1. IsFiniteSet(U) /\ U \in SUBSET Nat
  BY TidsFinite, FS_Subset
<1>2. \E n \in U : \A m \in U : n >= m
  BY <1>1, GreatestNat
<1> QED BY <1>2 DEF SsMax

\* It is the greatest of the subsets it is in.
LEMMA MaxOfSubset ==
  ASSUME NEW U, U \subseteq SsTids, U # {}, NEW V, V \subseteq U,
         SsMax(U) \in V
  PROVE  SsMax(V) = SsMax(U)
<1>1. SsMax(V) \in V /\ SsMax(U) \in U /\ V # {} /\ V \subseteq SsTids
  BY MaxIs
<1>2. SsMax(U) >= SsMax(V) /\ SsMax(V) >= SsMax(U)
  BY <1>1, MaxIs
<1>3. SsMax(U) \in Nat /\ SsMax(V) \in Nat
  BY <1>1, TidsFinite
<1> QED BY <1>2, <1>3

\* The equation has a solution: paging_concludes() and trans_conn_closed()
\* come to an end.
LEMMA WalkExists ==
  ASSUME NEW b, NEW w, NEW S, S \subseteq SsTids
  PROVE  \E f : SsWalk(b, w, S, f)
<1> DEFINE Bad == {k \in Nat : \E U \in SUBSET SsTids :
                     Cardinality(U) = k /\ ~ \E f : SsWalk(b, w, U, f)}
<1>0. \A U : U \subseteq SsTids => IsFiniteSet(U) /\ Cardinality(U) \in Nat
  BY TidsFinite, FS_Subset, FS_CardinalityType
<1> SUFFICES ASSUME Bad # {} PROVE FALSE
  BY <1>0
<1>1. PICK k \in Bad : \A j \in Bad : k <= j
  <2>1. Bad \in SUBSET Nat
    OBVIOUS
  <2> HIDE DEF Bad
  <2> QED BY <2>1, LeastNat
<1>2. PICK U \in SUBSET SsTids : Cardinality(U) = k
           /\ ~ \E f : SsWalk(b, w, U, f)
  BY <1>1
<1>3. CASE U = {}
  <2> DEFINE g == [V \in SUBSET {} |-> w]
  <2>1. SsWalk(b, w, U, g)
    BY <1>3 DEF SsWalk
  <2> QED BY <1>2, <2>1
<1>4. CASE U # {}
  <2> DEFINE t == SsMax(U)
             R == U \ {t}
  <2>1. t \in U
    BY <1>4, MaxIs
  <2> HIDE DEF t
  <2>2. R \in SUBSET SsTids /\ Cardinality(R) = k - 1 /\ Cardinality(R) \in Nat
    BY <1>0, <1>2, <2>1, FS_RemoveElement
  <2> HIDE DEF R
  <2>3. k - 1 \notin Bad /\ k \in Nat
    BY SMTT(30), <1>1, <2>2
  <2>4. PICK g : SsWalk(b, w, R, g)
    BY <2>2, <2>3
  <2>5. \A V \in SUBSET R : g[V] = IF V = {}
        THEN w ELSE SsOp(b, g[V \ {SsMax(V)}], SsMax(V))
    BY <2>4 DEF SsWalk
  <2> DEFINE h == [V \in SUBSET U |-> IF t \in V
             THEN SsOp(b, g[V \ {t}], t) ELSE g[V]]
  <2>6. \A V \in SUBSET U : t \notin V => V \in SUBSET R
    BY DEF R
  <2>7. ASSUME NEW V \in SUBSET U
        PROVE h[V] = IF V = {} THEN w ELSE SsOp(b, h[V \ {SsMax(V)}], SsMax(V))
    <3>1. CASE t \in V
      <4>1. SsMax(V) = t
        BY <1>4, <3>1, MaxOfSubset DEF t
      <4>2. V \ {t} \in SUBSET U /\ t \notin V \ {t} /\ V # {}
        BY <3>1
      <4>3. h[V \ {t}] = g[V \ {t}] /\ h[V] = SsOp(b, g[V \ {t}], t)
        BY <3>1, <4>2
      <4> HIDE DEF h
      <4> QED BY <4>1, <4>2, <4>3
    <3>2. CASE t \notin V
      <4>1. V \in SUBSET R /\ h[V] = g[V]
        BY <2>6, <3>2
      <4>2. CASE V = {}
        BY <2>5, <4>1, <4>2
      <4>3. CASE V # {}
        <5>1. V \ {SsMax(V)} \in SUBSET U /\ t \notin V \ {SsMax(V)}
          BY <3>2
        <5>2. h[V \ {SsMax(V)}] = g[V \ {SsMax(V)}]
          BY <5>1
        <5> HIDE DEF h
        <5> QED BY <2>5, <4>1, <4>3, <5>2
      <4> QED BY <4>2, <4>3
    <3> QED BY <3>1, <3>2
  <2>8. h = [V \in SUBSET U |-> h[V]]
    OBVIOUS
  <2> HIDE DEF h
  <2>9. h = [V \in SUBSET U |-> IF V = {}
        THEN w ELSE SsOp(b, h[V \ {SsMax(V)}], SsMax(V))]
    BY <2>7, <2>8
  <2>10. SsWalk(b, w, U, h)
    BY <2>9 DEF SsWalk
  <2> QED BY <1>2, <2>10
<1> QED BY <1>3, <1>4

\* What is used of it: one session after the other, in some order.
WalkRuns(b, w, S, f) ==
  /\ f[{}] = w
  /\ \A U \in SUBSET S : U # {} => \E t \in U : f[U] = SsOp(b, f[U \ {t}], t)

\* SsAll is such a run, from the state it begins with.
LEMMA AllRuns ==
  ASSUME NEW w, NEW S, S \subseteq SsTids
  PROVE  /\ \E f : WalkRuns(TRUE, w, S, f) /\ SsAll(SsPaged, w, S) = f[S]
         /\ \E f : WalkRuns(FALSE, w, S, f) /\ SsAll(SsTransFree, w, S) = f[S]
<1>1. ASSUME NEW b, NEW f, SsWalk(b, w, S, f) PROVE WalkRuns(b, w, S, f)
  <2>1. f[{}] = w
    BY <1>1 DEF SsWalk
  <2>2. ASSUME NEW U \in SUBSET S, U # {}
               PROVE \E t \in U : f[U] = SsOp(b, f[U \ {t}], t)
    <3>1. SsMax(U) \in U
      BY <2>2, MaxIs
    <3>2. f[U] = SsOp(b, f[U \ {SsMax(U)}], SsMax(U))
      BY <1>1, <2>2 DEF SsWalk
    <3> QED BY <3>1, <3>2
  <2> QED BY <2>1, <2>2 DEF WalkRuns
<1>2. \E f : WalkRuns(TRUE, w, S, f) /\ SsAll(SsPaged, w, S) = f[S]
  <2> DEFINE f == CHOOSE f : SsWalk(TRUE, w, S, f)
  <2>1. SsWalk(TRUE, w, S, f)
    BY WalkExists
  <2>2. SsAll(SsPaged, w, S) = f[S]
    BY DEF SsAll, SsWalk, SsOp, SsMax
  <2> HIDE DEF f
  <2> QED BY <1>1, <2>1, <2>2
<1>3. \E f : WalkRuns(FALSE, w, S, f) /\ SsAll(SsTransFree, w, S) = f[S]
  <2> DEFINE f == CHOOSE f : SsWalk(FALSE, w, S, f)
  <2>1. SsWalk(FALSE, w, S, f)
    BY WalkExists
  <2>2. SsAll(SsTransFree, w, S) = f[S]
    BY DEF SsAll, SsWalk, SsOp, SsMax
  <2> HIDE DEF f
  <2> QED BY <1>1, <2>1, <2>2
<1> QED BY <1>2, <1>3

\* Induction over the subsets of a finite set.
LEMMA SubsetInduction ==
  ASSUME NEW S, IsFiniteSet(S), NEW G \in SUBSET SUBSET S, {} \in G,
         \A U \in SUBSET S : U # {} /\ (\A t \in U : U \ {t} \in G) => U \in G
  PROVE  S \in G
<1> DEFINE Bad == {k \in Nat : \E U \in SUBSET S : Cardinality(U) = k
           /\ U \notin G}
<1>0. \A U \in SUBSET S : IsFiniteSet(U) /\ Cardinality(U) \in Nat
  BY FS_Subset, FS_CardinalityType
<1> SUFFICES ASSUME Bad # {} PROVE FALSE
  BY <1>0
<1>1. PICK k \in Bad : \A j \in Bad : k <= j
  <2>1. Bad \in SUBSET Nat
    OBVIOUS
  <2> HIDE DEF Bad
  <2> QED BY <2>1, LeastNat
<1>2. PICK U \in SUBSET S : Cardinality(U) = k /\ U \notin G
  BY <1>1
<1>3. U # {} /\ k \in Nat
  BY <1>1, <1>2
<1>4. ASSUME NEW t \in U PROVE U \ {t} \in G
  <2>1. Cardinality(U \ {t}) = k - 1 /\ U \ {t} \in SUBSET S
    BY <1>0, <1>2, FS_RemoveElement
  <2>2. k - 1 \in Nat
    BY SMTT(30), <1>0, <2>1
  <2>3. k - 1 \notin Bad
    BY SMTT(30), <1>1, <1>3, <2>2
  <2> QED BY <2>1, <2>2, <2>3
<1> QED BY <1>2, <1>3, <1>4

-----------------------------------------------------------------------------
\* States in order, and the functions that keep them so.

\* The values of a transaction.
SsTrans ==
  [used : BOOLEAN, sid : Nat, conn : BOOLEAN, paging : BOOLEAN, msg : BOOLEAN,
   guard : BOOLEAN]
\* The values of the connection.
SsConnT == [open : BOOLEAN, cm : 0..SsMaxCm, nc : Nat, other : BOOLEAN]
\* The values of the state.
SsStates == [tr : [SsTids -> SsTrans], conn : SsConnT, gauge : Int]

\* The sessions that hold the connection.
SsHolding(f) == {t \in SsTids : f[t].conn}
\* The sessions there are.
SsUsed(f) == {t \in SsTids : f[t].used}

\* What SsAttended says of one session.  A session is exempt from having a
\* guard timer between its begin and the reschedule that follows in the same
\* function.
SsFit(r, off, exempt) ==
  /\ r \in SsTrans
  /\ ~r.used => r = SsNoTrans
  /\ r.used => /\ r.conn # r.paging
               /\ r.paging => r.msg
               /\ r.conn => (r.guard \/ off \/ exempt)

\* What SsAttended says of a state that is passed through the functions, and
\* what they need of the connection: the sessions of P are exempt.
SsGood(w, off, P) ==
  /\ w \in SsStates
  /\ ~w.conn.open => w.conn = SsNoConn
  /\ w.conn.nc = Cardinality(SsHolding(w.tr))
  /\ w.gauge = Cardinality(SsUsed(w.tr))
  /\ \A t \in SsTids : SsFit(w.tr[t], off, t \in P)

\* A free transaction is in order.
LEMMA NoTransFits == ASSUME NEW off, NEW x
    PROVE SsFit(SsNoTrans, off, x) /\ SsNoTrans \in SsTrans
BY DEF SsFit, SsNoTrans, SsTrans

\* So is a connection that is not there.
LEMMA NoConnTyped == SsNoConn \in SsConnT
BY SsAssumption DEF SsNoConn, SsConnT

\* 1 or 0.
Num(b) == IF b THEN 1 ELSE 0

\* How replacing one transaction changes the number of those that have a
\* property.
LEMMA CountOne ==
  ASSUME NEW A, NEW B, IsFiniteSet(A), NEW t, NEW b \in BOOLEAN,
         \A x : x # t => (x \in B <=> x \in A), t \in B <=> b
  PROVE  /\ IsFiniteSet(B)
         /\ Cardinality(A) \in Nat
         /\ Cardinality(B) = Cardinality(A) - Num(t \in A) + Num(b)
<1>1. Cardinality(A) \in Nat
  BY FS_CardinalityType
<1>2. CASE b
  <2>1. B = A \cup {t}
    BY <1>2
  <2> QED BY SMTT(30), <1>1, <1>2, <2>1, FS_AddElement DEF Num
<1>3. CASE ~b
  <2>1. B = A \ {t}
    BY <1>3
  <2> QED BY SMTT(30), <1>1, <1>3, <2>1, FS_RemoveElement DEF Num
<1> QED BY <1>2, <1>3

\* The numbers of sessions are naturals.
LEMMA Counts ==
  ASSUME NEW f \in [SsTids -> SsTrans]
  PROVE  /\ IsFiniteSet(SsHolding(f)) /\ Cardinality(SsHolding(f)) \in Nat
         /\ IsFiniteSet(SsUsed(f)) /\ Cardinality(SsUsed(f)) \in Nat
         /\ Cardinality(SsHolding(f)) <= Cardinality(SsTids)
             /\ Cardinality(SsTids) \in Nat
<1>1. SsHolding(f) \in SUBSET SsTids /\ SsUsed(f) \in SUBSET SsTids
  BY DEF SsHolding, SsUsed
<1> QED BY <1>1, TidsFinite, FS_Subset, FS_CardinalityType

\* one transaction record replaced
LEMMA Replaced ==
  ASSUME NEW f \in [SsTids -> SsTrans], NEW t \in SsTids, NEW r \in SsTrans
  PROVE  /\ [f EXCEPT ![t] = r] \in [SsTids -> SsTrans]
         /\ Cardinality(SsHolding([f EXCEPT ![t] = r]))
              = Cardinality(SsHolding(f)) - Num(f[t].conn) + Num(r.conn)
         /\ Cardinality(SsUsed([f EXCEPT ![t] = r]))
              = Cardinality(SsUsed(f)) - Num(f[t].used) + Num(r.used)
<1> DEFINE g == [f EXCEPT ![t] = r]
<1>1. g \in [SsTids -> SsTrans] /\ g[t] = r /\ \A x \in SsTids : x # t
      => g[x] = f[x]
  OBVIOUS
<1>2. f[t].conn \in BOOLEAN /\ f[t].used \in BOOLEAN /\ r.conn \in BOOLEAN
      /\ r.used \in BOOLEAN
  BY DEF SsTrans
<1> HIDE DEF g
<1>3. (t \in SsHolding(f)) = f[t].conn /\ (t \in SsUsed(f)) = f[t].used
  BY <1>2 DEF SsHolding, SsUsed
<1>4. /\ \A x : x # t => (x \in SsHolding(g) <=> x \in SsHolding(f))
      /\ t \in SsHolding(g) <=> r.conn
  BY <1>1 DEF SsHolding
<1>5. /\ \A x : x # t => (x \in SsUsed(g) <=> x \in SsUsed(f))
      /\ t \in SsUsed(g) <=> r.used
  BY <1>1 DEF SsUsed
<1>6. IsFiniteSet(SsHolding(f)) /\ IsFiniteSet(SsUsed(f))
  BY Counts
<1>7. Cardinality(SsHolding(g))
      = Cardinality(SsHolding(f)) - Num(t \in SsHolding(f)) + Num(r.conn)
  BY <1>2, <1>4, <1>6, CountOne
<1>8. Cardinality(SsUsed(g))
      = Cardinality(SsUsed(f)) - Num(t \in SsUsed(f)) + Num(r.used)
  BY <1>2, <1>5, <1>6, CountOne
<1> QED BY <1>1, <1>3, <1>7, <1>8 DEF g

\* A state built from pieces
SsMake(f, c, n) == [tr |-> f, conn |-> c, gauge |-> n]

\* A state with pieces that are in order is in order.
LEMMA MakeGood ==
  ASSUME NEW f \in [SsTids -> SsTrans], NEW c \in SsConnT, NEW n \in Int,
         NEW off, NEW P,
         ~c.open => c = SsNoConn,
         c.nc = Cardinality(SsHolding(f)), n = Cardinality(SsUsed(f)),
         \A t \in SsTids : SsFit(f[t], off, t \in P)
  PROVE  SsGood(SsMake(f, c, n), off, P)
<1>1. SsMake(f, c, n) \in SsStates
  BY DEF SsMake, SsStates
<1>2. SsMake(f, c, n).tr = f /\ SsMake(f, c, n).conn = c
      /\ SsMake(f, c, n).gauge = n
  BY DEF SsMake
<1> HIDE DEF SsMake
<1> QED BY <1>1, <1>2 DEF SsGood

\* The pieces of a state that is in order.
LEMMA GoodParts ==
  ASSUME NEW w, NEW off, NEW P, SsGood(w, off, P)
  PROVE  /\ w = SsMake(w.tr, w.conn, w.gauge)
         /\ w.tr \in [SsTids -> SsTrans] /\ w.conn \in SsConnT
             /\ w.gauge \in Int
         /\ ~w.conn.open => w.conn = SsNoConn
         /\ w.conn.nc = Cardinality(SsHolding(w.tr))
             /\ w.gauge = Cardinality(SsUsed(w.tr))
         /\ w.conn.nc \in Nat /\ w.conn.cm \in 0..SsMaxCm
         /\ \A t \in SsTids : SsFit(w.tr[t], off, t \in P)
BY DEF SsGood, SsStates, SsMake, SsConnT

\* msc_a_put() keeps order: a connection that goes had no session.
LEMMA UnusedGood ==
  ASSUME NEW w, NEW off, NEW P, SsGood(w, off, P)
  PROVE  SsGood(SsUnused(w), off, P) /\ SsUnused(w).tr = w.tr
         /\ SsUnused(w).gauge = w.gauge
<1>0. w = SsMake(w.tr, w.conn, w.gauge)
  BY GoodParts
<1>1. CASE w.conn.cm = 0 /\ w.conn.nc = 0 /\ ~w.conn.other
  <2>1. SsUnused(w) = SsMake(w.tr, SsNoConn, w.gauge)
    BY <1>0, <1>1 DEF SsUnused, SsMake
  <2>2. SsNoConn \in SsConnT /\ SsNoConn.nc = 0
    BY NoConnTyped DEF SsNoConn
  <2>3. SsGood(SsMake(w.tr, SsNoConn, w.gauge), off, P)
    BY <1>1, <2>2, GoodParts, MakeGood
  <2> QED BY <2>1, <2>3 DEF SsMake
<1>2. CASE ~(w.conn.cm = 0 /\ w.conn.nc = 0 /\ ~w.conn.other)
  BY <1>2 DEF SsUnused
<1> QED BY <1>1, <1>2

\* So does the end of an earlier CM Service Request.
LEMMA PutCmGood ==
  ASSUME NEW w, NEW off, NEW P, SsGood(w, off, P)
  PROVE  SsGood(SsPutCm(w), off, P) /\ SsPutCm(w).tr = w.tr
<1>1. CASE w.conn.cm > 0
  <2> DEFINE n == w.conn.cm - 1
             c == [w.conn EXCEPT !.cm = n]
  <2>0. w.conn \in SsConnT /\ w.conn.cm \in 0..SsMaxCm
        /\ w = SsMake(w.tr, w.conn, w.gauge)
    BY GoodParts
  <2>1. n \in 0..SsMaxCm
    BY <1>1, <2>0, SsAssumption
  <2> HIDE DEF n
  <2>2. c \in SsConnT /\ c.nc = w.conn.nc /\ c.open = w.conn.open
    BY <2>0, <2>1 DEF SsConnT
  <2>3. w.conn.open
    BY <1>1, GoodParts DEF SsNoConn
  <2> HIDE DEF c
  <2>4. SsGood(SsMake(w.tr, c, w.gauge), off, P)
    BY <2>2, <2>3, GoodParts, MakeGood
  <2>5. SsPutCm(w) = SsUnused(SsMake(w.tr, c, w.gauge))
    BY SMTT(30), <1>1, <2>0 DEF SsPutCm, SsMake, c, n
  <2> QED BY <2>4, <2>5, UnusedGood DEF SsMake
<1>2. CASE ~(w.conn.cm > 0)
  BY <1>2 DEF SsPutCm
<1> QED BY <1>1, <1>2

\* trans_free() keeps order: the session gives back its one use of the
\* connection and its place in the gauge, whichever state it is in.
LEMMA TransFreeGood ==
  ASSUME NEW w, NEW off, NEW P, SsGood(w, off, P), NEW t \in SsTids,
         w.tr[t].used
  PROVE  /\ SsGood(SsTransFree(w, t), off, P)
         /\ SsTransFree(w, t).tr = [w.tr EXCEPT ![t] = SsNoTrans]
<1> DEFINE f == [w.tr EXCEPT ![t] = SsNoTrans]
           n == w.gauge - 1
<1>0. w.tr \in [SsTids -> SsTrans] /\ w.conn \in SsConnT /\ w.gauge \in Int
       /\ w = SsMake(w.tr, w.conn, w.gauge)
  BY GoodParts
<1>1. f \in [SsTids -> SsTrans]
      /\ Cardinality(SsHolding(f))
          = Cardinality(SsHolding(w.tr)) - Num(w.tr[t].conn) + Num(SsNoTrans.conn)
      /\ Cardinality(SsUsed(f))
          = Cardinality(SsUsed(w.tr)) - Num(w.tr[t].used) + Num(SsNoTrans.used)
  BY ZenonT(60), <1>0, NoTransFits, Replaced
<1>2. \A x \in SsTids : SsFit(f[x], off, x \in P)
  BY <1>0, NoTransFits, GoodParts
<1>3. n \in Int
  BY <1>0
<1> HIDE DEF f
<1>4. Cardinality(SsHolding(w.tr)) \in Nat /\ Cardinality(SsUsed(w.tr)) \in Nat
  BY <1>0, Counts
<1>5. n = Cardinality(SsUsed(f))
  BY <1>1, <1>4, GoodParts, ZenonT(60), SMTT(30) DEF Num, SsNoTrans
<1> HIDE DEF n
<1>6. CASE w.tr[t].conn
  <2> DEFINE m == w.conn.nc - 1
             c == [w.conn EXCEPT !.nc = m]
  <2>1. m = Cardinality(SsHolding(f))
    BY SMTT(30), <1>1, <1>4, <1>6, GoodParts DEF Num, SsNoTrans
  <2>2. m \in Nat /\ w.conn.nc # 0
    <3>1. Cardinality(SsHolding(f)) \in Nat
      BY <1>1, Counts
    <3> QED BY <2>1, <3>1, GoodParts
  <2> HIDE DEF m
  <2>3. c \in SsConnT /\ c.nc = m /\ c.open = w.conn.open
    BY <1>0, <2>2 DEF SsConnT
  <2>4. w.conn.open
    BY SMTT(60), <2>2, GoodParts DEF SsNoConn
  <2> HIDE DEF c
  <2>5. SsGood(SsMake(f, c, n), off, P)
    BY <1>1, <1>2, <1>3, <1>5, <2>1, <2>3, <2>4, MakeGood DEF n
  <2>6. SsTransFree(w, t) = SsUnused(SsMake(f, c, n))
    <3> DEFINE w1 == [w EXCEPT !.tr[t] = SsNoTrans, !.gauge = @ - 1]
               w2 == [w1 EXCEPT !.conn.nc = @ - 1]
    <3>1. w1 = SsMake(f, w.conn, n)
      <4>1. w \in [tr : [SsTids -> SsTrans], conn : SsConnT, gauge : Int]
        BY DEF SsGood, SsStates
      <4>2. w1 = [w EXCEPT !.tr = f, !.gauge = n]
        BY <4>1 DEF f, n
      <4> HIDE DEF w1
      <4> QED BY <4>1, <4>2 DEF SsMake
    <3>2. SsTransFree(w, t) = SsUnused(w2)
      BY <1>6 DEF SsTransFree
    <3> HIDE DEF w1
    <3>3. w2 = SsMake(f, c, n)
      BY SMTT(30), <3>1 DEF SsMake, c, m
    <3> HIDE DEF w2
    <3> QED BY <3>2, <3>3
  <2> QED BY <2>5, <2>6, UnusedGood DEF SsMake, f
<1>7. CASE ~w.tr[t].conn
  <2>1. w.conn.nc = Cardinality(SsHolding(f))
    BY <1>1, <1>4, <1>7, GoodParts, ZenonT(60), SMTT(30) DEF Num, SsNoTrans
  <2>2. SsGood(SsMake(f, w.conn, n), off, P)
    BY <1>0, <1>1, <1>2, <1>3, <1>5, <2>1, GoodParts, MakeGood DEF n
  <2>3. SsTransFree(w, t) = SsMake(f, w.conn, n)
    BY <1>0, <1>7 DEF SsTransFree, SsMake, f, n
  <2> QED BY <2>2, <2>3 DEF SsMake, f
<1> QED BY <1>6, <1>7

\* The reschedule ends the exemption of the session.
LEMMA RescheduleGood ==
  ASSUME NEW w, NEW off, NEW t \in SsTids, SsGood(w, off, {t}), w.tr[t].used,
         ssGuard \/ off
  PROVE  /\ SsGood(SsReschedule(w, t), off, {})
         /\ SsReschedule(w, t).tr[t].used
             /\ SsReschedule(w, t).tr[t].conn = w.tr[t].conn
         /\ \A x \in SsTids : x # t => SsReschedule(w, t).tr[x] = w.tr[x]
         /\ SsReschedule(w, t).conn = w.conn
<1>0. w.tr \in [SsTids -> SsTrans] /\ w.conn \in SsConnT /\ w.gauge \in Int
       /\ w = SsMake(w.tr, w.conn, w.gauge)
  BY GoodParts
<1> DEFINE none == {}
<1>e. \A x : x \notin none
  OBVIOUS
<1> HIDE DEF none
<1>1. CASE ssGuard
  <2> DEFINE r == [w.tr[t] EXCEPT !.guard = TRUE]
             f == [w.tr EXCEPT ![t] = r]
  <2>0. w.tr[t] \in SsTrans /\ SsFit(w.tr[t], off, t \in {t})
    BY <1>0, GoodParts
  <2>1. r \in SsTrans /\ r.conn = w.tr[t].conn /\ r.used = w.tr[t].used
        /\ SsFit(r, off, t \in none)
    BY <2>0 DEF SsTrans, SsFit
  <2>r. r \in SsTrans
    BY <2>1
  <2> HIDE DEF r
  <2>2. f \in [SsTids -> SsTrans]
      /\ Cardinality(SsHolding(f))
          = Cardinality(SsHolding(w.tr)) - Num(w.tr[t].conn) + Num(r.conn)
      /\ Cardinality(SsUsed(f))
          = Cardinality(SsUsed(w.tr)) - Num(w.tr[t].used) + Num(r.used)
    <3> DEFINE tr == w.tr
    <3>1. tr \in [SsTids -> SsTrans]
      BY <1>0
    <3> HIDE DEF tr
    <3> SUFFICES f \in [SsTids -> SsTrans]
      /\ Cardinality(SsHolding(f))
          = Cardinality(SsHolding(tr)) - Num(tr[t].conn) + Num(r.conn)
      /\ Cardinality(SsUsed(f))
          = Cardinality(SsUsed(tr)) - Num(tr[t].used) + Num(r.used)
      BY DEF tr
    <3>2. f = [tr EXCEPT ![t] = r]
      BY DEF tr
    <3> HIDE DEF f
    <3> QED BY ZenonT(60), <3>1, <3>2, <2>r, Replaced
  <2>3. Cardinality(SsHolding(w.tr)) \in Nat
        /\ Cardinality(SsUsed(w.tr)) \in Nat
    BY <1>0, Counts
  <2>4. f[t] = r /\ \A x \in SsTids : x # t => f[x] = w.tr[x]
    BY <1>0
  <2> HIDE DEF f
  <2>5. Cardinality(SsHolding(f)) = Cardinality(SsHolding(w.tr))
        /\ Cardinality(SsUsed(f)) = Cardinality(SsUsed(w.tr))
    BY <2>1, <2>2, <2>3 DEF Num
  <2>6. ASSUME NEW x \in SsTids PROVE SsFit(f[x], off, x \in none)
    <3>1. CASE x = t
      BY <2>1, <2>4, <3>1
    <3>2. CASE x # t
      <4>1. SsFit(w.tr[x], off, x \in {t})
        BY GoodParts
      <4> QED BY <2>4, <3>2, <4>1 DEF SsFit
    <3> QED BY <3>1, <3>2
  <2>7. SsGood(SsMake(f, w.conn, w.gauge), off, none)
    BY <1>0, <2>2, <2>5, <2>6, GoodParts, MakeGood
  <2>8. SsReschedule(w, t) = SsMake(f, w.conn, w.gauge)
    BY <1>0, <1>1 DEF SsReschedule, SsMake, f, r
  <2>9. SsReschedule(w, t).tr = f /\ SsReschedule(w, t).conn = w.conn
    BY <2>8 DEF SsMake
  <2>10. SsGood(SsReschedule(w, t), off, none)
    BY <2>7, <2>8
  <2> QED BY <2>1, <2>4, <2>9, <2>10 DEF none
<1>2. CASE ~ssGuard
  <2>1. off
    BY <1>2
  <2>2. \A x \in SsTids : SsFit(w.tr[x], off, x \in none)
    <3> SUFFICES ASSUME NEW x \in SsTids PROVE SsFit(w.tr[x], off, x \in none)
      OBVIOUS
    <3>1. SsFit(w.tr[x], off, x \in {t})
      BY GoodParts
    <3> QED BY <2>1, <3>1 DEF SsFit
  <2>3. SsGood(w, off, none)
    BY <2>2 DEF SsGood
  <2>4. SsReschedule(w, t) = w
    BY <1>2 DEF SsReschedule
  <2> QED BY <2>3, <2>4 DEF none
<1> QED BY <1>1, <1>2

\* More sessions may be exempt.
LEMMA GoodWider ==
  ASSUME NEW w, NEW off, NEW P, NEW Q, SsGood(w, off, P), P \subseteq Q
  PROVE  SsGood(w, off, Q)
<1>1. ASSUME NEW x \in SsTids PROVE SsFit(w.tr[x], off, x \in Q)
  <2>1. SsFit(w.tr[x], off, x \in P) /\ (x \in P => x \in Q)
    BY GoodParts
  <2> QED BY <2>1 DEF SsFit
<1> QED BY <1>1 DEF SsGood

\* A session appears, on the connection or not.
SsSession(sid, c) ==
  IF c THEN [SsNoTrans EXCEPT !.used = TRUE, !.sid = sid, !.conn = TRUE]
  ELSE [SsNoTrans EXCEPT !.used = TRUE, !.sid = sid, !.paging = TRUE,
      !.msg = TRUE]

\* It is in order but for its guard timer.
LEMMA SessionFits ==
  ASSUME NEW sid \in Nat, NEW c \in BOOLEAN, NEW off, NEW x, c => x
  PROVE  /\ SsSession(sid, c) \in SsTrans /\ SsFit(SsSession(sid, c), off, x)
         /\ SsSession(sid, c).used /\ SsSession(sid, c).conn = c
BY DEF SsSession, SsFit, SsTrans, SsNoTrans

\* The state with it.
SsAdd(w, t, sid, c) ==
  SsMake([w.tr EXCEPT ![t] = SsSession(sid, c)],
         IF c THEN [w.conn EXCEPT !.nc = @ + 1] ELSE w.conn, w.gauge + 1)

\* Adding a session on an unused transaction id keeps order.
LEMMA AddGood ==
  ASSUME NEW w, NEW off, SsGood(w, off, {}), NEW t \in SsTids, ~w.tr[t].used,
         NEW sid \in Nat, NEW c \in BOOLEAN, c => w.conn.open
  PROVE  /\ SsGood(SsAdd(w, t, sid, c), off, {t})
         /\ SsAdd(w, t, sid, c).tr[t] = SsSession(sid, c)
         /\ SsAdd(w, t, sid, c).tr[t].used
             /\ SsAdd(w, t, sid, c).tr[t].conn = c
<1>0. w.tr \in [SsTids -> SsTrans] /\ w.conn \in SsConnT /\ w.gauge \in Int
       /\ w = SsMake(w.tr, w.conn, w.gauge) /\ w.conn.nc \in Nat
  BY GoodParts
<1> DEFINE r == SsSession(sid, c)
           f == [w.tr EXCEPT ![t] = r]
           m == w.conn.nc + 1
           d == IF c THEN [w.conn EXCEPT !.nc = m] ELSE w.conn
           n == w.gauge + 1
<1>1. r \in SsTrans /\ SsFit(r, off, t \in {t}) /\ r.used /\ r.conn = c
  BY SessionFits
<1>2. f \in [SsTids -> SsTrans]
      /\ Cardinality(SsHolding(f))
          = Cardinality(SsHolding(w.tr)) - Num(w.tr[t].conn) + Num(r.conn)
      /\ Cardinality(SsUsed(f))
          = Cardinality(SsUsed(w.tr)) - Num(w.tr[t].used) + Num(r.used)
  BY ZenonT(60), <1>0, <1>1, Replaced
<1>3. Cardinality(SsHolding(w.tr)) \in Nat /\ Cardinality(SsUsed(w.tr)) \in Nat
  BY <1>0, Counts
<1> HIDE DEF r
<1>4. f[t] = r /\ \A x \in SsTids : x # t => f[x] = w.tr[x]
  BY <1>0
<1> HIDE DEF f
<1>5. w.tr[t] = SsNoTrans
  BY SMTT(30), GoodParts DEF SsFit
<1>6. ~w.tr[t].conn
  BY <1>5 DEF SsNoTrans
<1>7. m \in Nat /\ n \in Int /\ m = w.conn.nc + 1 /\ n = w.gauge + 1
  BY <1>0
<1> HIDE DEF m, n
<1>8. d \in SsConnT /\ d.open = w.conn.open
      /\ d.nc = (IF c THEN m ELSE w.conn.nc)
      /\ (~d.open => d = w.conn)
  BY <1>0, <1>7 DEF SsConnT
<1> HIDE DEF d
<1>9. n = Cardinality(SsUsed(f))
  BY <1>1, <1>2, <1>3, <1>7, GoodParts, ZenonT(60), SMTT(30) DEF Num
<1>10. d.nc = Cardinality(SsHolding(f))
  BY <1>1, <1>2, <1>3, <1>6, <1>7, <1>8, GoodParts, ZenonT(60), SMTT(30) DEF Num
<1>11. ASSUME NEW x \in SsTids PROVE SsFit(f[x], off, x \in {t})
  <2>1. CASE x = t
    BY <1>1, <1>4, <2>1
  <2>2. CASE x # t
    <3>1. SsFit(w.tr[x], off, x \in {})
      BY GoodParts
    <3> QED BY <1>4, <2>2, <3>1 DEF SsFit
  <2> QED BY <2>1, <2>2
<1>12. SsGood(SsMake(f, d, n), off, {t})
  <2> DEFINE one == {t}
  <2>1. \A x \in SsTids : SsFit(f[x], off, x \in one)
    BY <1>11
  <2> SUFFICES SsGood(SsMake(f, d, n), off, one)
    OBVIOUS
  <2> HIDE DEF one
  <2>2. ~d.open => d = SsNoConn
    BY <1>8, GoodParts
  <2> QED BY ZenonT(60), <1>2, <1>7, <1>8, <1>9, <1>10, <2>1, <2>2, MakeGood
<1>13. SsAdd(w, t, sid, c) = SsMake(f, d, n)
  BY DEF SsAdd, f, d, n, m, r
<1> QED BY <1>1, <1>4, <1>12, <1>13, ZenonT(60), SMTT(30) DEF SsMake, f, r

\* A session without the connection needs no exemption.
LEMMA GoodNarrow ==
  ASSUME NEW w, NEW off, NEW t, SsGood(w, off, {t}), ~w.tr[t].conn
  PROVE  SsGood(w, off, {})
<1> DEFINE none == {}
<1>1. ASSUME NEW x \in SsTids PROVE SsFit(w.tr[x], off, x \in none)
  <2>1. SsFit(w.tr[x], off, x \in {t})
    BY GoodParts
  <2> QED BY <2>1 DEF SsFit
<1>2. SsGood(w, off, none)
  <2> HIDE DEF none
  <2> QED BY <1>1 DEF SsGood
<1> QED BY <1>2

\* gsm0911_rcv_nc_ss() for a session, including one that just began, leaves
\* it with its timer or ends it.
LEMMA MoHandleGood ==
  ASSUME NEW w, NEW off, NEW t \in SsTids, SsGood(w, off, {t}), w.tr[t].used,
         ssGuard \/ off, NEW type, NEW ok
  PROVE  SsGood(SsMoHandle(w, t, type, ok), off, {})
<1> DEFINE w1 == SsReschedule(w, t)
           none == {}
<1>1. SsGood(w1, off, none) /\ w1.tr[t].used
  BY RescheduleGood
<1> HIDE DEF w1, none
<1>2. SsGood(SsTransFree(w1, t), off, none)
  BY <1>1, TransFreeGood
<1>3. SsMoHandle(w, t, type, ok) \in {w1, SsTransFree(w1, t)}
  BY DEF SsMoHandle, w1
<1>4. SsGood(SsMoHandle(w, t, type, ok), off, none)
  BY <1>1, <1>2, <1>3
<1> QED BY <1>4 DEF none

\* So does gsm0911_gsup_rx() for a session.
LEMMA ForwardGood ==
  ASSUME NEW w, NEW off, NEW t \in SsTids, SsGood(w, off, {t}), w.tr[t].used,
         ssGuard \/ off, NEW state
  PROVE  SsGood(SsForward(w, t, state), off, {})
<1> DEFINE w1 == SsReschedule(w, t)
           none == {}
<1>1. SsGood(w1, off, none) /\ w1.tr[t].used
  BY RescheduleGood
<1> HIDE DEF w1, none
<1>2. SsGood(SsTransFree(w1, t), off, none)
  BY <1>1, TransFreeGood
<1>3. SsForward(w, t, state) \in {w1, SsTransFree(w1, t)}
  BY DEF SsForward, w1
<1>4. SsGood(SsForward(w, t, state), off, none)
  BY <1>1, <1>2, <1>3
<1> QED BY <1>4 DEF none

\* A session the MS begins is in order but for its guard timer.
LEMMA MoBeginGood ==
  ASSUME NEW w, NEW off, SsGood(w, off, {}), NEW t \in SsTids, ~w.tr[t].used,
         w.conn.open, ssNext \in Nat
  PROVE  SsGood(SsMoBegin(w, t), off, {t}) /\ SsMoBegin(w, t).tr[t].used
<1> DEFINE u == SsAdd(w, t, ssNext, TRUE)
           v == [w EXCEPT !.tr[t] = [SsNoTrans EXCEPT !.used = TRUE,
               !.sid = ssNext,
                                                !.conn = TRUE],
                    !.gauge = @ + 1, !.conn.nc = @ + 1]
<1>1. SsGood(u, off, {t}) /\ u.tr[t].used
  BY AddGood
<1>2. [SsNoTrans EXCEPT !.used = TRUE, !.sid = ssNext, !.conn = TRUE]
      = SsSession(ssNext, TRUE)
  BY DEF SsSession, SsNoTrans
<1>3. v = u
  <2> DEFINE r == [SsNoTrans EXCEPT !.used = TRUE, !.sid = ssNext,
             !.conn = TRUE]
             f == [w.tr EXCEPT ![t] = r]
             d == [w.conn EXCEPT !.nc = @ + 1]
             n == w.gauge + 1
  <2>1. w \in [tr : [SsTids -> SsTrans], conn : SsConnT, gauge : Int]
    BY DEF SsGood, SsStates
  <2>2. v = [w EXCEPT !.tr = f, !.gauge = n, !.conn = d]
    BY <2>1
  <2>3. u = SsMake(f, d, n)
    BY <1>2 DEF SsAdd
  <2> HIDE DEF u, v, f, d, n
  <2>4. v = SsMake(f, d, n)
    BY <2>1, <2>2 DEF SsMake
  <2> QED BY <2>3, <2>4
<1>4. SsMoBegin(w, t) = SsPutCm(v)
  BY DEF SsMoBegin
<1> HIDE DEF u, v
<1>5. SsMoBegin(w, t) = SsPutCm(u)
  BY <1>3, <1>4
<1>6. SsGood(SsPutCm(u), off, {t}) /\ SsPutCm(u).tr = u.tr
  BY <1>1, PutCmGood
<1> QED BY <1>1, <1>5, <1>6

\* establish_nc_ss_trans() keeps order, with a connection, with paging, and
\* when paging fails to start.
LEMMA EstablishGood ==
  ASSUME NEW w, NEW off, SsGood(w, off, {}), NEW t \in SsTids, ~w.tr[t].used,
         NEW sid \in Nat, NEW paged, ssGuard \/ off
  PROVE  SsGood(SsEstablish(w, t, sid, paged), off, {})
<1> DEFINE r == [SsNoTrans EXCEPT !.used = TRUE, !.sid = sid]
           w1 == [w EXCEPT !.tr[t] = r, !.gauge = @ + 1]
           f == [w.tr EXCEPT ![t] = r]
           n == w.gauge + 1
<1>0. w \in [tr : [SsTids -> SsTrans], conn : SsConnT, gauge : Int]
  BY DEF SsGood, SsStates
<1>1. w1 = SsMake(f, w.conn, n)
  <2>1. w1 = [w EXCEPT !.tr = f, !.gauge = n]
    BY <1>0
  <2> HIDE DEF w1, f, n
  <2> QED BY <1>0, <2>1 DEF SsMake
<1>2. CASE w.conn.open
  <2> DEFINE u == SsAdd(w, t, sid, TRUE)
             v == [w1 EXCEPT !.tr[t].conn = TRUE, !.conn.nc = @ + 1]
  <2>1. SsGood(u, off, {t}) /\ u.tr[t].used
    BY <1>2, AddGood
  <2>2. v = u
    <3> DEFINE q == [f[t] EXCEPT !.conn = TRUE]
               g == [f EXCEPT ![t] = q]
               d == [w.conn EXCEPT !.nc = @ + 1]
    <3>1. v = SsMake(g, d, n)
      <4>1. f \in [SsTids -> SsTrans]
        <5>1. r \in SsTrans
          BY DEF SsTrans, SsNoTrans
        <5> HIDE DEF r
        <5> QED BY <1>0, <5>1
      <4> HIDE DEF f, n, w1
      <4>2. v = [w1 EXCEPT !.tr = g, !.conn = d]
        BY <1>1, <4>1 DEF SsMake
      <4> HIDE DEF v, g, d
      <4> QED BY <1>1, <4>2 DEF SsMake
    <3>2. q = SsSession(sid, TRUE)
      <4>1. f[t] = r
        BY <1>0
      <4> HIDE DEF f
      <4> QED BY <4>1 DEF SsSession, SsNoTrans
    <3>3. g = [w.tr EXCEPT ![t] = SsSession(sid, TRUE)]
      <4> HIDE DEF q, r
      <4> QED BY <1>0, <3>2
    <3> HIDE DEF g
    <3>4. u = SsMake(g, d, n)
      BY <3>3 DEF SsAdd
    <3> HIDE DEF u, v
    <3> QED BY <3>1, <3>4
  <2>3. SsEstablish(w, t, sid, paged) = SsForward(v, t, "BEGIN")
    BY <1>2 DEF SsEstablish
  <2> HIDE DEF u, v
  <2> QED BY <2>1, <2>2, <2>3, ForwardGood
<1>3. CASE ~w.conn.open /\ paged
  <2> DEFINE u == SsAdd(w, t, sid, FALSE)
             v == [w1 EXCEPT !.tr[t].paging = TRUE, !.tr[t].msg = TRUE]
  <2>1. SsGood(u, off, {t}) /\ ~u.tr[t].conn
    <3> DEFINE c == FALSE
    <3>1. c \in BOOLEAN /\ (c => w.conn.open) /\ u = SsAdd(w, t, sid, c)
      OBVIOUS
    <3>2. SsSession(sid, c).conn = FALSE
      BY DEF SsSession, SsNoTrans
    <3> HIDE DEF c, u
    <3>3. SsGood(u, off, {t})
      BY <3>1, AddGood
    <3>5. u.tr[t] = SsSession(sid, c)
      BY <1>0, <3>1 DEF SsAdd, SsMake
    <3> QED BY <3>2, <3>3, <3>5
  <2>2. v = u
    <3> DEFINE q == [f[t] EXCEPT !.paging = TRUE, !.msg = TRUE]
               g == [f EXCEPT ![t] = q]
    <3>1. v = SsMake(g, w.conn, n)
      <4>1. f \in [SsTids -> SsTrans]
        <5>1. r \in SsTrans
          BY DEF SsTrans, SsNoTrans
        <5> HIDE DEF r
        <5> QED BY <1>0, <5>1
      <4> HIDE DEF f, n, w1
      <4>2. v = [w1 EXCEPT !.tr = g]
        <5>1. w1.tr = f /\ DOMAIN w1 = {"tr", "conn", "gauge"}
          BY <1>1 DEF SsMake
        <5> QED BY <1>1, <4>1, <5>1 DEF SsMake
      <4> HIDE DEF v, g
      <4> QED BY <1>1, <4>2 DEF SsMake
    <3>2. q = SsSession(sid, FALSE)
      <4>1. f[t] = r
        BY <1>0
      <4> HIDE DEF f
      <4> QED BY <4>1 DEF SsSession, SsNoTrans
    <3>3. g = [w.tr EXCEPT ![t] = SsSession(sid, FALSE)]
      <4> HIDE DEF q, r
      <4> QED BY <1>0, <3>2
    <3> HIDE DEF g
    <3>4. u = SsMake(g, w.conn, n)
      BY <3>3 DEF SsAdd
    <3> HIDE DEF u, v
    <3> QED BY <3>1, <3>4
  <2>3. SsEstablish(w, t, sid, paged) = v
    BY <1>3 DEF SsEstablish
  <2> HIDE DEF u, v
  <2> QED BY <2>1, <2>2, <2>3, GoodNarrow
<1>4. CASE ~w.conn.open /\ ~paged
  <2>1. SsEstablish(w, t, sid, paged) = SsTransFree(w1, t)
    BY <1>4 DEF SsEstablish
  <2>2. SsTransFree(w1, t) = w
    <3>1. ~w1.tr[t].conn
      <4>1. w1.tr = f
        <5> HIDE DEF w1
        <5> QED BY <1>1 DEF SsMake
      <4>2. f[t] = r
        BY <1>0
      <4>3. ~r.conn
        BY DEF SsNoTrans
      <4> HIDE DEF w1, f, r
      <4> QED BY <4>1, <4>2, <4>3
    <3>2. SsTransFree(w1, t) = [w1 EXCEPT !.tr[t] = SsNoTrans, !.gauge = @ - 1]
      <4> HIDE DEF w1
      <4> QED BY <3>1 DEF SsTransFree
    <3>3. w.tr[t] = SsNoTrans
      BY SMTT(30), GoodParts DEF SsFit
    <3>4. [f EXCEPT ![t] = SsNoTrans] = w.tr
      BY <1>0, <3>3
    <3>5. n - 1 = w.gauge
      BY <1>0
    <3> HIDE DEF f, n, w1
    <3>6. SsTransFree(w1, t)
          = SsMake([f EXCEPT ![t] = SsNoTrans], w.conn, n - 1)
      BY <1>1, <3>2 DEF SsMake
    <3>7. SsTransFree(w1, t) = SsMake(w.tr, w.conn, w.gauge)
      BY <3>4, <3>5, <3>6
    <3> QED BY <3>7, GoodParts
  <2> HIDE DEF w1
  <2> QED BY <2>1, <2>2
<1> QED BY <1>2, <1>3, <1>4

\* ss_paging_cb() with a connection keeps order, one session at a time.
LEMMA PagedGood ==
  ASSUME NEW w, NEW off, SsGood(w, off, {}), NEW t \in SsTids, w.tr[t].paging,
         w.conn.open, ssGuard \/ off
  PROVE  /\ SsGood(SsPaged(w, t), off, {}) /\ SsPaged(w, t).conn.open
         /\ \A x \in SsTids : x # t => SsPaged(w, t).tr[x] = w.tr[x]
<1> DEFINE r == [w.tr[t] EXCEPT !.conn = TRUE, !.paging = FALSE, !.msg = FALSE]
           f == [w.tr EXCEPT ![t] = r]
           m == w.conn.nc + 1
           d == [w.conn EXCEPT !.nc = m]
           u == SsMake(f, d, w.gauge)
           v == [w EXCEPT !.tr[t].conn = TRUE, !.tr[t].paging = FALSE,
                         !.tr[t].msg = FALSE, !.conn.nc = @ + 1]
<1>0. w \in [tr : [SsTids -> SsTrans], conn : SsConnT, gauge : Int]
      /\ w.conn.nc \in Nat
  BY GoodParts DEF SsGood, SsStates
<1>1. w.tr[t] \in SsTrans /\ w.tr[t].used /\ ~w.tr[t].conn
  <2>1. SsFit(w.tr[t], off, t \in {})
    BY GoodParts
  <2>2. w.tr[t].used
    BY <2>1 DEF SsFit, SsNoTrans
  <2> QED BY <2>1, <2>2 DEF SsFit, SsTrans
<1>2. r \in SsTrans /\ SsFit(r, off, t \in {t}) /\ r.used /\ r.conn
  BY <1>1 DEF SsTrans, SsFit
<1>3. v = u
  <2>1. v = [w EXCEPT !.tr = f, !.conn = d]
    BY ZenonT(60), <1>0
  <2> HIDE DEF v, f, d
  <2> QED BY <1>0, <2>1 DEF SsMake
<1> HIDE DEF v, r
<1>4. f \in [SsTids -> SsTrans]
      /\ Cardinality(SsHolding(f))
          = Cardinality(SsHolding(w.tr)) - Num(w.tr[t].conn) + Num(r.conn)
      /\ Cardinality(SsUsed(f))
          = Cardinality(SsUsed(w.tr)) - Num(w.tr[t].used) + Num(r.used)
  <2> DEFINE tr == w.tr
  <2>1. tr \in [SsTids -> SsTrans] /\ r \in SsTrans
    BY <1>0, <1>2
  <2>2. f = [tr EXCEPT ![t] = r]
    OBVIOUS
  <2> SUFFICES f \in [SsTids -> SsTrans]
      /\ Cardinality(SsHolding(f))
          = Cardinality(SsHolding(tr)) - Num(tr[t].conn) + Num(r.conn)
      /\ Cardinality(SsUsed(f))
          = Cardinality(SsUsed(tr)) - Num(tr[t].used) + Num(r.used)
    OBVIOUS
  <2> HIDE DEF f, tr
  <2> QED BY ZenonT(60), <2>1, <2>2, Replaced
<1>5. Cardinality(SsHolding(w.tr)) \in Nat /\ Cardinality(SsUsed(w.tr)) \in Nat
  BY <1>0, Counts
<1>6. f[t] = r /\ \A x \in SsTids : x # t => f[x] = w.tr[x]
  BY <1>0
<1> HIDE DEF f
<1>7. m \in Nat
  BY SMTT(30), <1>0
<1>8. m = Cardinality(SsHolding(f)) /\ w.gauge = Cardinality(SsUsed(f))
  BY SMTT(30), <1>0, <1>1, <1>2, <1>4, <1>5, GoodParts DEF Num
<1> HIDE DEF m
<1>9. d \in SsConnT /\ d.open /\ d.nc = m
  BY <1>0, <1>7 DEF SsConnT
<1> HIDE DEF d
<1>10. ASSUME NEW x \in SsTids PROVE SsFit(f[x], off, x \in {t})
  <2>1. CASE x = t
    BY <1>2, <1>6, <2>1
  <2>2. CASE x # t
    <3>1. SsFit(w.tr[x], off, x \in {})
      BY GoodParts
    <3> QED BY <1>6, <2>2, <3>1 DEF SsFit
  <2> QED BY <2>1, <2>2
<1>11. SsGood(u, off, {t})
  <2> DEFINE one == {t}
  <2>1. \A x \in SsTids : SsFit(f[x], off, x \in one)
    BY <1>10
  <2> SUFFICES SsGood(u, off, one)
    OBVIOUS
  <2> HIDE DEF one
  <2> QED BY <1>0, <1>4, <1>8, <1>9, <2>1, MakeGood
<1>12. u.tr = f /\ u.conn = d
  BY DEF SsMake
<1> HIDE DEF u
<1>13. SsPaged(w, t) = SsReschedule(u, t)
  BY <1>3 DEF SsPaged, v
<1>14. u.tr[t].used
  BY <1>2, <1>6, <1>12
<1>15. SsGood(SsReschedule(u, t), off, {})
  BY <1>11, <1>14, RescheduleGood
<1>16. SsReschedule(u, t).conn = u.conn /\ \A x \in SsTids : x # t
       => SsReschedule(u, t).tr[x] = u.tr[x]
  BY ZenonT(60), <1>11, <1>14, RescheduleGood
<1> QED BY <1>6, <1>9, <1>12, <1>13, <1>15, <1>16

\* Freeing the sessions of a set, one after the other, frees exactly those.
LEMMA FreeAll ==
  ASSUME NEW w, NEW off, SsGood(w, off, {}), NEW S, S \subseteq SsTids,
         \A t \in S : w.tr[t].used
  PROVE  /\ SsGood(SsAll(SsTransFree, w, S), off, {})
         /\ \A t \in SsTids : SsAll(SsTransFree, w, S).tr[t] =
                                IF t \in S THEN SsNoTrans ELSE w.tr[t]
<1> DEFINE none == {}
<1>1. PICK f : WalkRuns(FALSE, w, S, f) /\ SsAll(SsTransFree, w, S) = f[S]
  BY AllRuns
<1> DEFINE Q(U) == /\ SsGood(f[U], off, none)
                   /\ \A t \in SsTids : f[U].tr[t] = IF t \in U
                       THEN SsNoTrans ELSE w.tr[t]
           G == {U \in SUBSET S : Q(U)}
<1>2. Q({})
  BY <1>1 DEF WalkRuns
<1>3. ASSUME NEW U \in SUBSET S, U # {}, \A t \in U : U \ {t} \in G
      PROVE  U \in G
  <2>1. PICK t \in U : f[U] = SsOp(FALSE, f[U \ {t}], t)
    BY <1>1, <1>3 DEF WalkRuns
  <2> DEFINE v == f[U \ {t}]
             V == U \ {t}
  <2>2. f[U] = SsTransFree(v, t)
    BY <2>1 DEF SsOp
  <2>3. Q(V)
    BY <1>3
  <2>4. t \in SsTids /\ t \notin V /\ \A x : x # t => (x \in V <=> x \in U)
    OBVIOUS
  <2>5. SsGood(v, off, none) /\ v.tr[t].used
    BY <2>3, <2>4
  <2> HIDE DEF none
  <2>6. SsGood(SsTransFree(v, t), off, none)
        /\ SsTransFree(v, t).tr = [v.tr EXCEPT ![t] = SsNoTrans]
    BY <2>4, <2>5, TransFreeGood
  <2>7. v.tr \in [SsTids -> SsTrans]
    BY <2>5, GoodParts
  <2>8. \A x \in SsTids : v.tr[x] = IF x \in V THEN SsNoTrans ELSE w.tr[x]
    BY <2>3
  <2> HIDE DEF V, v
  <2>9. \A x \in SsTids : SsTransFree(v, t).tr[x] = IF x \in U
        THEN SsNoTrans ELSE w.tr[x]
    BY <2>4, <2>6, <2>7, <2>8
  <2> QED BY <2>2, <2>6, <2>9
<1>4. IsFiniteSet(S) /\ G \in SUBSET SUBSET S /\ none \in G
  BY <1>2, TidsFinite, FS_Subset
<1>5. S \in G
  <2> HIDE DEF G
  <2>1. {} \in G
    BY <1>4
  <2> HIDE DEF none
  <2> QED BY <1>3, <1>4, <2>1, SubsetInduction
<1> QED BY <1>1, <1>5

\* The paging response keeps order for all sessions that wait for it.
LEMMA PagedAll ==
  ASSUME NEW w, NEW off, SsGood(w, off, {}), NEW S, S \subseteq SsTids,
         \A t \in S : w.tr[t].paging, w.conn.open, ssGuard \/ off
  PROVE  SsGood(SsAll(SsPaged, w, S), off, {})
<1> DEFINE none == {}
<1>1. PICK f : WalkRuns(TRUE, w, S, f) /\ SsAll(SsPaged, w, S) = f[S]
  BY AllRuns
<1> DEFINE Q(U) == /\ SsGood(f[U], off, none) /\ f[U].conn.open
                   /\ \A t \in SsTids : t \notin U => f[U].tr[t] = w.tr[t]
           G == {U \in SUBSET S : Q(U)}
<1>2. Q({})
  BY <1>1 DEF WalkRuns
<1>3. ASSUME NEW U \in SUBSET S, U # {}, \A t \in U : U \ {t} \in G
      PROVE  U \in G
  <2>1. PICK t \in U : f[U] = SsOp(TRUE, f[U \ {t}], t)
    BY <1>1, <1>3 DEF WalkRuns
  <2> DEFINE v == f[U \ {t}]
             V == U \ {t}
  <2>2. f[U] = SsPaged(v, t)
    BY <2>1 DEF SsOp
  <2>3. Q(V)
    BY <1>3
  <2>4. t \in SsTids /\ t \notin V /\ \A x : x # t => (x \in V <=> x \in U)
    OBVIOUS
  <2>5. SsGood(v, off, none) /\ v.conn.open /\ v.tr[t].paging
    BY <2>3, <2>4
  <2>6. SsGood(SsPaged(v, t), off, none) /\ SsPaged(v, t).conn.open
    BY <2>4, <2>5, PagedGood
  <2>7. \A x \in SsTids : x # t => SsPaged(v, t).tr[x] = v.tr[x]
    BY <2>4, <2>5, PagedGood, ZenonT(10), SMTT(30)
  <2>8. \A x \in SsTids : x \notin V => v.tr[x] = w.tr[x]
    BY <2>3
  <2> HIDE DEF V, v
  <2>9. \A x \in SsTids : x \notin U => SsPaged(v, t).tr[x] = w.tr[x]
    BY <2>4, <2>7, <2>8
  <2> HIDE DEF none
  <2> QED BY <2>2, <2>6, <2>9
<1>4. IsFiniteSet(S) /\ G \in SUBSET SUBSET S /\ none \in G
  BY <1>2, TidsFinite, FS_Subset
<1>5. S \in G
  <2> HIDE DEF G
  <2>1. {} \in G
    BY <1>4
  <2> HIDE DEF none
  <2> QED BY <1>3, <1>4, <2>1, SubsetInduction
<1> QED BY <1>1, <1>5

-----------------------------------------------------------------------------
\* The actions of Ss.

\* The inductive invariant of Ss.  Only a change in the VTY switches the
\* guard timer off, and ssOff remembers it.
SsIInv ==
  /\ SsGood(SsW, ssOff, {})
  /\ ssGuard \in BOOLEAN /\ ssOff \in BOOLEAN /\ ssNext \in Nat
  /\ ssGuard \/ ssOff

\* The invariant, in the terms of the functions.
LEMMA Facts ==
  ASSUME SsIInv
  PROVE  /\ SsGood(SsW, ssOff, {}) /\ (ssGuard \/ ssOff) /\ ssNext \in Nat
         /\ SsW.tr = ssTr /\ SsW.conn = ssConn /\ SsW.gauge = ssGauge
         /\ SsW = SsMake(ssTr, ssConn, ssGauge)
         /\ ssTr \in [SsTids -> SsTrans] /\ ssConn \in SsConnT
             /\ ssGauge \in Int
<1>1. SsW.tr = ssTr /\ SsW.conn = ssConn /\ SsW.gauge = ssGauge
      /\ SsW = SsMake(ssTr, ssConn, ssGauge)
  BY DEF SsW, SsMake
<1>2. SsGood(SsW, ssOff, {}) /\ (ssGuard \/ ssOff) /\ ssNext \in Nat
  BY DEF SsIInv
<1> HIDE DEF SsW
<1>3. SsW.tr \in [SsTids -> SsTrans] /\ SsW.conn \in SsConnT
      /\ SsW.gauge \in Int
  BY <1>2, GoodParts
<1> QED BY <1>1, <1>2, <1>3

\* A step to a state in order keeps the invariant.
LEMMA Became ==
  ASSUME SsIInv, NEW new, SsBecome(new), SsGood(new, ssOff, {}),
         UNCHANGED <<ssGuard, ssOff>>, ssNext' \in Nat
  PROVE  SsIInv'
<1>1. ssTr' = new.tr /\ ssConn' = new.conn /\ ssGauge' = new.gauge
  BY DEF SsBecome
<1>2. SsW' = SsMake(new.tr, new.conn, new.gauge)
  BY <1>1 DEF SsW, SsMake
<1>3. SsW' = new
  BY <1>2, GoodParts
<1>4. SsGood(SsW, ssOff, {})'
  <2>1. SsGood(SsW', ssOff', {})
    BY <1>3
  <2> QED BY <2>1
<1> QED BY <1>4 DEF SsIInv

\* A message of the MS keeps the invariant.
LEMMA RcvNcSsStep ==
  ASSUME SsIInv, NEW t \in SsTids, NEW type, NEW ok \in BOOLEAN,
         SsRcvNcSs(t, type, ok)
  PROVE  SsIInv'
<1> DEFINE none == {}
<1>0. SsGood(SsW, ssOff, none) /\ (ssGuard \/ ssOff) /\ ssNext \in Nat
      /\ SsW.tr = ssTr /\ SsW.conn = ssConn
  BY Facts
<1>1. ssConn.open /\ ssNext' \in Nat /\ UNCHANGED <<ssGuard, ssOff>>
  BY <1>0 DEF SsRcvNcSs
<1>2. CASE ssTr[t].used
  <2>1. SsBecome(SsMoHandle(SsW, t, type, ok))
    BY <1>2 DEF SsRcvNcSs
  <2>2. SsGood(SsW, ssOff, {t})
    BY <1>0, GoodWider
  <2>3. SsGood(SsMoHandle(SsW, t, type, ok), ssOff, {})
    BY <1>0, <1>2, <2>2, MoHandleGood
  <2> QED BY <1>1, <2>1, <2>3, Became
<1>3. CASE ~ssTr[t].used /\ type = "REGISTER"
  <2> DEFINE w == SsMoBegin(SsW, t)
  <2>1. SsBecome(SsMoHandle(w, t, type, ok))
    BY <1>3 DEF SsRcvNcSs
  <2>2. SsGood(w, ssOff, {t}) /\ w.tr[t].used
    BY <1>0, <1>1, <1>3, MoBeginGood
  <2> HIDE DEF w
  <2>3. SsGood(SsMoHandle(w, t, type, ok), ssOff, {})
    BY <1>0, <2>2, MoHandleGood
  <2> QED BY <1>1, <2>1, <2>3, Became
<1>4. CASE ~ssTr[t].used /\ type # "REGISTER"
  <2>1. SsBecome(SsPutCm(SsW))
    BY <1>4 DEF SsRcvNcSs
  <2>2. SsGood(SsPutCm(SsW), ssOff, none)
    <3> HIDE DEF none
    <3> QED BY <1>0, PutCmGood
  <2> QED BY <1>1, <2>1, <2>2, Became
<1> QED BY <1>2, <1>3, <1>4

\* A message of the EUSE for a session keeps the invariant.
LEMMA GsupRxStep ==
  ASSUME SsIInv, NEW sid, NEW state, SsGsupRx(sid, state)
  PROVE  SsIInv'
<1>0. SsGood(SsW, ssOff, {}) /\ (ssGuard \/ ssOff) /\ ssNext \in Nat
      /\ SsW.tr = ssTr /\ SsW.conn = ssConn
  BY Facts
<1>1. PICK t \in SsBySid(sid) : SsBecome(SsForward(SsW, t, state))
  BY DEF SsGsupRx
<1>2. t \in SsTids /\ SsW.tr[t].used
  BY <1>0 DEF SsBySid
<1>3. SsGood(SsW, ssOff, {t})
  BY SMTT(30), <1>0, GoodWider
<1>4. SsGood(SsForward(SsW, t, state), ssOff, {})
  BY <1>0, <1>2, <1>3, ForwardGood
<1>5. UNCHANGED <<ssGuard, ssOff>> /\ ssNext' \in Nat
  BY <1>0 DEF SsGsupRx
<1> QED BY <1>1, <1>4, <1>5, Became

\* An error from the HLR keeps the invariant.
LEMMA GsupErrorStep ==
  ASSUME SsIInv, NEW sid, SsGsupError(sid)
  PROVE  SsIInv'
<1>0. SsGood(SsW, ssOff, {}) /\ (ssGuard \/ ssOff) /\ ssNext \in Nat
      /\ SsW.tr = ssTr /\ SsW.conn = ssConn
  BY Facts
<1>1. PICK t \in SsBySid(sid) : SsBecome(SsTransFree(SsW, t))
  BY DEF SsGsupError
<1>2. t \in SsTids /\ SsW.tr[t].used
  BY <1>0 DEF SsBySid
<1>4. SsGood(SsTransFree(SsW, t), ssOff, {})
  BY <1>0, <1>2, TransFreeGood
<1>5. UNCHANGED <<ssGuard, ssOff>> /\ ssNext' \in Nat
  BY <1>0 DEF SsGsupError
<1> QED BY <1>1, <1>4, <1>5, Became

\* The begin of a session by the EUSE keeps the invariant.
LEMMA GsupBeginStep ==
  ASSUME SsIInv, NEW sid \in SsSids, NEW paged, SsGsupBegin(sid, paged)
  PROVE  SsIInv'
<1>0. SsGood(SsW, ssOff, {}) /\ (ssGuard \/ ssOff) /\ ssNext \in Nat
      /\ SsW.tr = ssTr /\ SsW.conn = ssConn
  BY Facts
<1> DEFINE t == SsAssignTid
<1>1. t \in SsFreeTids
  BY AssignTid DEF SsGsupBegin
<1>2. SsBecome(SsEstablish(SsW, t, sid, paged))
      /\ UNCHANGED <<ssGuard, ssOff>> /\ ssNext' \in Nat
  BY <1>0 DEF SsGsupBegin
<1> HIDE DEF t
<1>3. t \in SsTids /\ ~SsW.tr[t].used
  BY <1>0, <1>1, TidsFinite DEF SsFreeTids
<1>4. sid \in Nat
  BY SsAssumption
<1>5. SsGood(SsEstablish(SsW, t, sid, paged), ssOff, {})
  BY <1>0, <1>3, <1>4, EstablishGood
<1> QED BY <1>2, <1>5, Became

\* The paging response keeps the invariant.
LEMMA PagingResponseStep ==
  ASSUME SsIInv, SsPagingResponse
  PROVE  SsIInv'
<1> DEFINE none == {}
<1>0. SsGood(SsW, ssOff, none) /\ (ssGuard \/ ssOff) /\ ssNext \in Nat
      /\ SsW.tr = ssTr /\ SsW.conn = ssConn
      /\ SsW = SsMake(ssTr, ssConn, ssGauge)
      /\ ssTr \in [SsTids -> SsTrans] /\ ssConn \in SsConnT /\ ssGauge \in Int
  BY Facts
<1> DEFINE w == [SsW EXCEPT !.conn.open = TRUE]
           c == [ssConn EXCEPT !.open = TRUE]
<1>1. SsBecome(SsAll(SsPaged, w, SsPagingSet)) /\ UNCHANGED <<ssGuard, ssOff>>
      /\ ssNext' \in Nat
  BY <1>0 DEF SsPagingResponse
<1>2. w = SsMake(ssTr, c, ssGauge)
  <2>1. SsW = [tr |-> ssTr, conn |-> ssConn, gauge |-> ssGauge]
    BY DEF SsW
  <2>2. w = [SsW EXCEPT !.conn = c]
    BY <2>1
  <2> HIDE DEF c, w
  <2> QED BY <2>1, <2>2 DEF SsMake
<1>3. c \in SsConnT /\ c.open /\ c.nc = ssConn.nc
  BY <1>0 DEF SsConnT
<1> HIDE DEF w, c, none
<1>4. ssConn.nc = Cardinality(SsHolding(ssTr))
      /\ ssGauge = Cardinality(SsUsed(ssTr))
      /\ \A t \in SsTids : SsFit(ssTr[t], ssOff, t \in none)
  BY <1>0 DEF SsGood, SsW
<1>5. SsGood(w, ssOff, none)
  BY <1>0, <1>2, <1>3, <1>4, MakeGood
<1>6. w.conn.open /\ SsPagingSet \subseteq SsTids
      /\ \A t \in SsPagingSet : w.tr[t].paging
  BY <1>2, <1>3 DEF SsMake, SsPagingSet
<1>7. SsGood(SsAll(SsPaged, w, SsPagingSet), ssOff, {})
  BY <1>0, <1>5, <1>6, PagedAll DEF none
<1> DEFINE new == SsAll(SsPaged, w, SsPagingSet)
<1>8. SsBecome(new) /\ SsGood(new, ssOff, {})
  BY <1>1, <1>7
<1> HIDE DEF new
<1> QED BY <1>1, <1>8, Became

\* A step that ends sessions keeps the invariant.
LEMMA FreeStep ==
  ASSUME SsIInv, NEW S, S \subseteq SsTids, \A t \in S : ssTr[t].used,
         SsBecome(SsAll(SsTransFree, SsW, S)),
         UNCHANGED <<ssGuard, ssOff, ssNext>>
  PROVE  SsIInv'
<1>0. SsGood(SsW, ssOff, {}) /\ ssNext \in Nat /\ SsW.tr = ssTr
  BY Facts
<1> DEFINE new == SsAll(SsTransFree, SsW, S)
<1>1. SsGood(new, ssOff, {})
  BY <1>0, FreeAll
<1>2. SsBecome(new)
  OBVIOUS
<1> HIDE DEF new
<1> QED BY <1>0, <1>1, <1>2, Became

\* The loss of the connection keeps the invariant: all its sessions have gone
\* before it does.
LEMMA ConnClosedStep ==
  ASSUME SsIInv, SsConnClosed
  PROVE  SsIInv'
<1>0. SsGood(SsW, ssOff, {}) /\ ssNext \in Nat /\ SsW.tr = ssTr
  BY Facts
<1> DEFINE S == {t \in SsTids : ssTr[t].conn}
           v == SsAll(SsTransFree, SsW, S)
           new == [v EXCEPT !.conn = SsNoConn]
           none == {}
<1>1. SsBecome(new) /\ UNCHANGED <<ssGuard, ssOff>> /\ ssNext' \in Nat
  BY <1>0 DEF SsConnClosed
<1>2. ASSUME NEW t \in S PROVE SsW.tr[t].used
  <2>1. SsFit(ssTr[t], ssOff, t \in {}) /\ ssTr[t].conn
    BY <1>0, GoodParts
  <2> QED BY <1>0, <2>1, ZenonT(60), SMTT(30) DEF SsFit, SsNoTrans
<1>3. S \subseteq SsTids
  OBVIOUS
<1>s. \A t \in SsTids : ssTr[t].conn => t \in S
  OBVIOUS
<1> HIDE DEF S
<1>4. SsGood(v, ssOff, none)
  BY <1>0, <1>2, <1>3, FreeAll
<1>5. \A t \in SsTids : v.tr[t] = IF t \in S THEN SsNoTrans ELSE SsW.tr[t]
  BY SMTT(30), <1>0, <1>2, <1>3, FreeAll
<1> HIDE DEF v, none
<1>6. \A t \in SsTids : ~v.tr[t].conn
  BY <1>0, <1>5, <1>s, ZenonT(60), SMTT(30) DEF SsNoTrans
<1>7. SsHolding(v.tr) = {}
  BY <1>6 DEF SsHolding
<1>8. Cardinality(SsHolding(v.tr)) = 0
  BY <1>7, FS_EmptySet
<1>9. new = SsMake(v.tr, SsNoConn, v.gauge)
  <2>1. v \in [tr : [SsTids -> SsTrans], conn : SsConnT, gauge : Int]
    BY <1>4 DEF SsGood, SsStates
  <2> QED BY <2>1 DEF SsMake
<1>10. SsNoConn \in SsConnT /\ SsNoConn.nc = 0
  BY NoConnTyped DEF SsNoConn
<1>11. SsGood(SsMake(v.tr, SsNoConn, v.gauge), ssOff, none)
  <2>1. v.tr \in [SsTids -> SsTrans] /\ v.gauge \in Int
        /\ v.gauge = Cardinality(SsUsed(v.tr))
        /\ \A t \in SsTids : SsFit(v.tr[t], ssOff, t \in none)
    BY <1>4, GoodParts
  <2> QED BY <1>8, <1>10, <2>1, MakeGood
<1>12. SsGood(new, ssOff, {})
  <2> HIDE DEF new
  <2> QED BY <1>9, <1>11 DEF none
<1> HIDE DEF new
<1> QED BY <1>1, <1>12, Became

\* The guard timer keeps the invariant: it ends the session or was switched
\* off.
LEMMA TimeoutStep ==
  ASSUME SsIInv, NEW t \in SsTids, SsTimeout(t)
  PROVE  SsIInv'
<1> DEFINE none == {}
<1>0. SsGood(SsW, ssOff, none) /\ (ssGuard \/ ssOff) /\ ssNext \in Nat
      /\ SsW.tr = ssTr
      /\ ssTr \in [SsTids -> SsTrans] /\ ssConn \in SsConnT /\ ssGauge \in Int
  BY Facts
<1> HIDE DEF none
<1>u. ssTr[t].used /\ ssTr[t].guard
  <2>1. SsFit(ssTr[t], ssOff, t \in none)
    BY <1>0, GoodParts
  <2> QED BY <2>1 DEF SsFit, SsNoTrans, SsTimeout
<1>1. CASE ssGuard
  <2>1. SsBecome(SsTransFree(SsW, t)) /\ UNCHANGED <<ssGuard, ssOff>>
        /\ ssNext' \in Nat
    BY <1>0, <1>1 DEF SsTimeout
  <2>2. SsGood(SsTransFree(SsW, t), ssOff, {})
    BY <1>0, <1>u, TransFreeGood DEF none
  <2> QED BY <2>1, <2>2, Became
<1>2. CASE ~ssGuard
  <2> DEFINE w == [SsW EXCEPT !.tr[t].guard = FALSE]
             r == [ssTr[t] EXCEPT !.guard = FALSE]
             f == [ssTr EXCEPT ![t] = r]
  <2>1. SsBecome(w) /\ UNCHANGED <<ssGuard, ssOff>> /\ ssNext' \in Nat
    BY <1>0, <1>2 DEF SsTimeout
  <2>2. w = SsMake(f, ssConn, ssGauge)
    <3>1. SsW = [tr |-> ssTr, conn |-> ssConn, gauge |-> ssGauge]
      BY DEF SsW
    <3>2. w = [SsW EXCEPT !.tr = f]
      BY <1>0, <3>1
    <3> HIDE DEF f, w
    <3> QED BY <3>1, <3>2 DEF SsMake
  <2>3. /\ r \in SsTrans /\ r.used = ssTr[t].used /\ r.conn = ssTr[t].conn
        /\ r.paging = ssTr[t].paging /\ r.msg = ssTr[t].msg
    BY <1>0 DEF SsTrans
  <2>4. ssOff
    BY <1>0, <1>2
  <2>5. SsFit(ssTr[t], ssOff, t \in none)
    BY <1>0, GoodParts
  <2>6. SsFit(r, ssOff, t \in none)
    <3> HIDE DEF r
    <3> QED BY <1>u, <2>3, <2>4, <2>5 DEF SsFit
  <2>7. f \in [SsTids -> SsTrans] /\ f[t] = r /\ \A x \in SsTids : x # t
        => f[x] = ssTr[x]
    <3> HIDE DEF r
    <3> QED BY <1>0, <2>3
  <2> HIDE DEF r, f, w
  <2>8. SsHolding(f) = SsHolding(ssTr) /\ SsUsed(f) = SsUsed(ssTr)
    BY <2>3, <2>7 DEF SsHolding, SsUsed
  <2>9. /\ ssConn.nc = Cardinality(SsHolding(ssTr))
           /\ ssGauge = Cardinality(SsUsed(ssTr))
        /\ \A x \in SsTids : SsFit(ssTr[x], ssOff, x \in none)
        /\ ~ssConn.open => ssConn = SsNoConn
    BY <1>0 DEF SsGood, SsW
  <2>10. SsGood(SsMake(f, ssConn, ssGauge), ssOff, none)
    <3>1. \A x \in SsTids : SsFit(f[x], ssOff, x \in none)
      BY <2>6, <2>7, <2>9
    <3> QED BY ZenonT(60), <1>0, <2>7, <2>8, <2>9, <3>1, MakeGood
  <2>11. SsGood(w, ssOff, {})
    BY <2>2, <2>10 DEF none
  <2> QED BY <2>1, <2>11, Became
<1> QED BY <1>1, <1>2

\* A change of the timeout in the VTY keeps the invariant.
LEMMA VtyGuardStep ==
  ASSUME SsIInv, SsVtyGuard
  PROVE  SsIInv'
<1> DEFINE none == {}
<1>0. SsGood(SsW, ssOff, none) /\ ssNext \in Nat
  BY Facts
<1> HIDE DEF none
<1>1. SsW' = SsW /\ ssOff' = TRUE /\ ssGuard' \in BOOLEAN /\ ssNext' = ssNext
  BY DEF SsVtyGuard, SsIInv, SsW
<1>2. ASSUME NEW t \in SsTids PROVE SsFit(SsW.tr[t], TRUE, t \in none)
  <2>1. SsFit(SsW.tr[t], ssOff, t \in none)
    BY <1>0, GoodParts
  <2> QED BY <2>1 DEF SsFit
<1>3. SsGood(SsW, TRUE, none)
  <2> HIDE DEF SsW
  <2> QED BY <1>0, <1>2 DEF SsGood
<1>4. SsGood(SsW', ssOff', {})
  BY <1>1, <1>3 DEF none
<1>5. SsGood(SsW, ssOff, {})'
  BY <1>4
<1> QED BY <1>0, <1>1, <1>5 DEF SsIInv

\* A change of the connection that keeps the uses of the sessions.
LEMMA ConnSet ==
  ASSUME SsIInv, NEW c \in SsConnT, c.open, c.nc = ssConn.nc
  PROVE  SsGood(SsMake(ssTr, c, ssGauge), ssOff, {})
<1> DEFINE none == {}
<1>0. SsGood(SsW, ssOff, none)
      /\ ssTr \in [SsTids -> SsTrans] /\ ssConn \in SsConnT /\ ssGauge \in Int
  BY Facts
<1> HIDE DEF none
<1>1. /\ ssConn.nc = Cardinality(SsHolding(ssTr))
         /\ ssGauge = Cardinality(SsUsed(ssTr))
      /\ \A x \in SsTids : SsFit(ssTr[x], ssOff, x \in none)
  BY <1>0 DEF SsGood, SsW
<1>2. SsGood(SsMake(ssTr, c, ssGauge), ssOff, none)
  BY <1>0, <1>1, MakeGood
<1> QED BY <1>2 DEF none

\* A CM Service Request keeps the invariant.
LEMMA CmServiceStep ==
  ASSUME SsIInv, SsCmService
  PROVE  SsIInv'
<1>0. ssConn \in SsConnT /\ ssNext \in Nat
  BY Facts
<1> DEFINE n == ssConn.cm + 1
           c == [ssConn EXCEPT !.open = TRUE, !.cm = n]
<1>1. n \in 0..SsMaxCm
  BY SMTT(30), <1>0, SsAssumption DEF SsConnT, SsCmService
<1>c. ssConn' = c /\ ssTr' = ssTr /\ ssGauge' = ssGauge
      /\ UNCHANGED <<ssGuard, ssOff, ssNext>>
  BY DEF SsCmService
<1> HIDE DEF n
<1>2. c \in SsConnT /\ c.open /\ c.nc = ssConn.nc
  BY <1>0, <1>1 DEF SsConnT
<1> HIDE DEF c
<1> DEFINE new == SsMake(ssTr, c, ssGauge)
<1>3. SsGood(new, ssOff, {})
  BY <1>2, ConnSet
<1>4. SsBecome(new)
  BY <1>c DEF SsBecome, SsMake
<1> HIDE DEF new
<1> QED BY <1>0, <1>c, <1>3, <1>4, Became

\* Another use of the connection keeps the invariant.
LEMMA OtherUseStep ==
  ASSUME SsIInv, SsOtherUse
  PROVE  SsIInv'
<1>0. ssConn \in SsConnT /\ ssNext \in Nat /\ ssConn.open
  BY Facts DEF SsOtherUse
<1> DEFINE b == ~ssConn.other
           c == [ssConn EXCEPT !.other = b]
           w == [SsW EXCEPT !.conn.other = ~@]
<1>1. b \in BOOLEAN
  OBVIOUS
<1>2. w = SsMake(ssTr, c, ssGauge)
  <2>1. SsW = [tr |-> ssTr, conn |-> ssConn, gauge |-> ssGauge]
    BY DEF SsW
  <2>2. w = [SsW EXCEPT !.conn = c]
    BY <2>1
  <2> HIDE DEF c, w
  <2> QED BY <2>1, <2>2 DEF SsMake
<1>3. SsBecome(SsUnused(w)) /\ UNCHANGED <<ssGuard, ssOff>> /\ ssNext' \in Nat
  BY <1>0 DEF SsOtherUse
<1> HIDE DEF b, w
<1>4. c \in SsConnT /\ c.open /\ c.nc = ssConn.nc
  BY <1>0, <1>1 DEF SsConnT
<1> HIDE DEF c
<1>5. SsGood(w, ssOff, {})
  BY <1>2, <1>4, ConnSet
<1>6. SsGood(SsUnused(w), ssOff, {})
  BY <1>5, UnusedGood
<1> QED BY <1>3, <1>6, Became

\* Initially there is no session.
LEMMA SsInitially ==
  ASSUME SsInit
  PROVE  SsIInv
<1> DEFINE f == [t \in SsTids |-> SsNoTrans]
           none == {}
<1>1. f \in [SsTids -> SsTrans] /\ \A t \in SsTids : f[t] = SsNoTrans
  BY NoTransFits
<1>2. SsW = SsMake(f, SsNoConn, 0)
  BY DEF SsInit, SsW, SsMake
<1> HIDE DEF f, none
<1>3. SsHolding(f) = {} /\ SsUsed(f) = {}
  BY <1>1 DEF SsHolding, SsUsed, SsNoTrans
<1>4. Cardinality(SsHolding(f)) = 0 /\ Cardinality(SsUsed(f)) = 0
  BY <1>3, FS_EmptySet
<1>5. SsNoConn \in SsConnT /\ SsNoConn.nc = 0
  BY NoConnTyped DEF SsNoConn
<1>6. \A t \in SsTids : SsFit(f[t], ssOff, t \in none)
  BY <1>1, NoTransFits
<1>7. SsGood(SsMake(f, SsNoConn, 0), ssOff, none)
  BY SMTT(30), <1>1, <1>4, <1>5, <1>6, MakeGood
<1>8. SsGood(SsW, ssOff, {})
  BY <1>2, <1>7 DEF none
<1> QED BY <1>8 DEF SsIInv, SsInit

\* A stuttering step keeps the invariant.
LEMMA SsStutters ==
  ASSUME SsIInv, UNCHANGED ssVars
  PROVE  SsIInv'
<1>1. SsW' = SsW /\ UNCHANGED <<ssGuard, ssOff, ssNext>>
  BY DEF SsW, ssVars
<1>2. SsGood(SsW', ssOff', {})
  BY <1>1 DEF SsIInv
<1>3. SsGood(SsW, ssOff, {})'
  BY <1>2
<1> QED BY <1>1, <1>3 DEF SsIInv

\* Every step of the SS code keeps the invariant.
LEMMA SsStep ==
  ASSUME SsIInv, SsNext
  PROVE  SsIInv'
<1>p. SsPagingSet \subseteq SsTids /\ \A t \in SsPagingSet : ssTr[t].used
  <2>0. SsGood(SsW, ssOff, {}) /\ SsW.tr = ssTr
    BY Facts
  <2>1. \A t \in SsTids : SsFit(ssTr[t], ssOff, t \in {})
    BY <2>0, GoodParts
  <2> QED BY <2>1, ZenonT(60), SMTT(30) DEF SsFit, SsNoTrans, SsPagingSet
<1>1. ASSUME NEW t \in SsTids,
             NEW type \in {"REGISTER", "FACILITY", "RELEASE_COMPLETE"},
             NEW ok \in BOOLEAN, SsRcvNcSs(t, type, ok)
      PROVE  SsIInv'
  BY <1>1, RcvNcSsStep
<1>2. ASSUME NEW sid, NEW state, SsGsupRx(sid, state)
      PROVE  SsIInv'
  BY <1>2, GsupRxStep
<1>3. ASSUME NEW sid, SsGsupError(sid)
      PROVE  SsIInv'
  BY <1>3, GsupErrorStep
<1>4. ASSUME NEW sid \in SsSids, NEW paged \in BOOLEAN, SsGsupBegin(sid, paged)
      PROVE  SsIInv'
  BY <1>4, GsupBeginStep
<1>5. CASE SsPagingResponse
  BY <1>5, PagingResponseStep
<1>6. CASE SsPagingExpired
  <2>1. SsBecome(SsAll(SsTransFree, SsW, SsPagingSet))
        /\ UNCHANGED <<ssGuard, ssOff, ssNext>>
    BY <1>6 DEF SsPagingExpired
  <2> QED BY <1>p, <2>1, FreeStep
<1>7. ASSUME NEW t \in SsTids, SsTimeout(t)
      PROVE  SsIInv'
  BY ZenonT(60), <1>7, TimeoutStep
<1>8. CASE SsVtyGuard
  BY <1>8, VtyGuardStep
<1>9. CASE SsCmService
  BY <1>9, CmServiceStep
<1>10. CASE SsOtherUse
  BY <1>10, OtherUseStep
<1>11. CASE SsConnClosed
  BY <1>11, ConnClosedStep
<1>12. CASE SsVsubDiscarded
  <2> DEFINE S == {t \in SsTids : ssTr[t].used}
  <2>1. SsBecome(SsAll(SsTransFree, SsW, S))
        /\ UNCHANGED <<ssGuard, ssOff, ssNext>>
    BY <1>12 DEF SsVsubDiscarded
  <2>2. S \subseteq SsTids /\ \A t \in S : ssTr[t].used
    OBVIOUS
  <2> HIDE DEF S
  <2> QED BY <2>1, <2>2, FreeStep
<1> QED BY ZenonT(60), <1>1, <1>2, <1>3, <1>4, <1>5, <1>6, <1>7, <1>8, <1>9, <1>10, <1>11,
    <1>12 DEF SsNext

\* What the invariant says.
LEMMA SsImplies ==
  ASSUME SsIInv
  PROVE  SsAttended /\ SsTypeOK
<1>0. /\ SsGood(SsW, ssOff, {}) /\ SsW.tr = ssTr /\ SsW.conn = ssConn
         /\ SsW.gauge = ssGauge
      /\ ssConn \in SsConnT /\ ssGauge \in Int
  BY Facts
<1>1. /\ ssConn.nc = Cardinality(SsHolding(ssTr))
         /\ ssGauge = Cardinality(SsUsed(ssTr))
      /\ \A t \in SsTids : SsFit(ssTr[t], ssOff, t \in {})
      /\ ~ssConn.open => ssConn = SsNoConn
  BY <1>0 DEF SsGood
<1>2. SsAttended
  BY <1>1 DEF SsFit, SsAttended, SsHolding, SsUsed
<1>3. ssConn.nc \in 0..Cardinality(SsTids)
  <2>1. SsHolding(ssTr) \subseteq SsTids
    BY DEF SsHolding
  <2>2. Cardinality(SsHolding(ssTr)) <= Cardinality(SsTids)
        /\ Cardinality(SsTids) \in Nat
    BY <2>1, TidsFinite, FS_Subset, FS_CardinalityType
  <2> QED BY <1>0, <1>1, <2>2, ZenonT(60), SMTT(30) DEF SsConnT
<1>4. SsTypeOK
  <2>1. \A t \in SsTids : ssTr[t] \in SsTrans
        /\ (~ssTr[t].used => ssTr[t] = SsNoTrans)
    BY <1>1 DEF SsFit
  <2>2. ssConn \in [open : BOOLEAN, cm : 0..SsMaxCm,
        nc : 0..Cardinality(SsTids), other : BOOLEAN]
    BY <1>0, <1>3 DEF SsConnT
  <2> QED BY <1>0, <1>1, <2>1, <2>2 DEF SsTypeOK, SsTrans, SsIInv
<1> QED BY <1>2, <1>4

\* The inductive invariant of Ss, for any number of transaction ids, messages
\* and changes in the VTY.
THEOREM SessionsKept == SsSpec => []SsIInv
<1>1. SsInit => SsIInv
  BY SsInitially
<1>2. SsIInv /\ [SsNext]_ssVars => SsIInv'
  BY SsStep, SsStutters
<1> QED BY <1>1, <1>2, PTL DEF SsSpec

\* A session is never left to itself, however the MS, the EUSE, paging, the
\* guard timer, the loss of the connection and the VTY interleave: it holds
\* the connection once, with its guard timer running, or is paged for with
\* the message that ss_paging_cb() asserts, and the gauge counts it
\* (gsm0911_rcv_nc_ss(), gsm0911_gsup_rx(), ss_paging_cb(), trans_free()).
THEOREM SessionsAttended == SsSpec => []SsAttended
<1>1. SsIInv => SsAttended
  BY SsImplies
<1> QED BY <1>1, SessionsKept, PTL

\* The variables of Ss keep their types, and a freed transaction leaves
\* nothing behind (trans_free()).
THEOREM SessionTypes == SsSpec => []SsTypeOK
<1>1. SsIInv => SsTypeOK
  BY SsImplies
<1> QED BY <1>1, SessionsKept, PTL

-----------------------------------------------------------------------------
\* The functions of CallLeg.

\* The states of a leg.
ClStages == {"ESTABLISHING", "ESTABLISHED", "RELEASING", "gone"}
\* The values of a stream.
ClRtpT ==
  [st : {"NULL", "UNINITIALIZED", "ESTABLISHING", "ESTABLISHED"},
   ci : BOOLEAN, local : BOOLEAN, remote : BOOLEAN, rsent : BOOLEAN,
   codecs : BOOLEAN, csent : BOOLEAN, mode : 0..1, msent : BOOLEAN,
   osmux : BOOLEAN, cid : BOOLEAN, osent : BOOLEAN]
\* The values of the connections at the MGW.
ClCis == [ClDirs -> {"none", "up", "dlcx"}]
\* The values of the requests in flight.
ClReqs == [ClDirs -> Seq({"CRCX", "MDCX"})]
\* The values of a leg that is passed through the functions.
ClStates ==
  [state : ClStages, rtp : [ClDirs -> ClRtpT], ep : BOOLEAN,
   ci : ClCis, req : ClReqs,
   told : Nat, done : BOOLEAN, clients : Int, lost : BOOLEAN]

\* What holds of a leg at every call: a connection at the MGW is up exactly
\* while its stream has it, and there is none without the endpoint.
ClHeld(w) ==
  /\ w \in ClStates
  /\ \A d \in ClDirs : /\ w.ci[d] = "up" <=> w.rtp[d].ci
                       /\ w.ci[d] # "none" => w.ep
                       /\ w.rtp[d].st = "NULL" => w.rtp[d] = ClNoRtp
                       /\ Len(w.req[d]) <= ClMaxQueue + 1

\* A leg before its release: the parent was not told, and there is a client
\* for the endpoint.
ClFirm(w) ==
  /\ ClHeld(w) /\ w.state \in {"ESTABLISHING", "ESTABLISHED"}
  /\ ~w.lost /\ w.told = 0 /\ w.clients = (IF w.ep THEN 1 ELSE 0)

\* It also has the endpoint when it has a stream.  ClFirm without this is the
\* leg whose endpoint is gone, on the way to call_leg_release().
ClRuns(w) == ClFirm(w) /\ \A d \in ClDirs : w.rtp[d].st # "NULL" => w.ep

\* A leg after its release: the parent was told once and the streams are
\* gone; the client is put back with the endpoint, unless the leg gave up on
\* it.
ClOver(w) ==
  /\ ClHeld(w) /\ w.told = 1 /\ \A d \in ClDirs : w.rtp[d] = ClNoRtp
  /\ \/ w.state = "RELEASING" /\ w.ep /\ ~w.lost /\ w.clients = 1
     \/ w.state = "gone" /\ ~w.ep /\ w.clients = (IF w.lost THEN 1 ELSE 0)

\* A leg between two events.
ClGood(w) == ClRuns(w) \/ ClOver(w)

\* No stream is a stream without a connection.
LEMMA NoRtpTyped == ClNoRtp \in ClRtpT /\ ClNoRtp.st = "NULL" /\ ~ClNoRtp.ci
BY SMTT(30) DEF ClNoRtp, ClRtpT

\* What stays of a leg when only its streams and connections change.
ClSame(v, w) ==
  /\ v.state = w.state /\ v.ep = w.ep /\ v.told = w.told /\ v.done = w.done
  /\ v.clients = w.clients /\ v.lost = w.lost

\* A leg with other streams, connections and requests.
ClWith(w, f, g, h) == [w EXCEPT !.rtp = f, !.ci = g, !.req = h]

\* What that leg is.
LEMMA WithIs ==
  ASSUME NEW w \in ClStates, NEW f \in [ClDirs -> ClRtpT],
         NEW g \in ClCis,
         NEW h \in ClReqs
  PROVE  /\ ClWith(w, f, g, h) \in ClStates /\ ClSame(ClWith(w, f, g, h), w)
         /\ ClWith(w, f, g, h).rtp = f /\ ClWith(w, f, g, h).ci = g
         /\ ClWith(w, f, g, h).req = h
BY DEF ClWith, ClStates, ClSame

\* rtp_stream_fsm_cleanup() lets the connection go with its stream.
LEMMA StreamGoneKeeps ==
  ASSUME NEW w, ClHeld(w), NEW d \in ClDirs
  PROVE  LET v == ClStreamGone(w, d)
         IN  /\ ClHeld(v) /\ ClSame(v, w) /\ v.rtp[d] = ClNoRtp
             /\ \A e \in ClDirs : e # d => v.rtp[e] = w.rtp[e]
<1> DEFINE v == ClStreamGone(w, d)
           f == [w.rtp EXCEPT ![d] = ClNoRtp]
           g == IF w.rtp[d].ci THEN [w.ci EXCEPT ![d] = "dlcx"] ELSE w.ci
           h == IF w.rtp[d].ci THEN [w.req EXCEPT ![d] = <<>>] ELSE w.req
<1>0. w \in ClStates
  BY DEF ClHeld
<1>1. /\ w.rtp \in [ClDirs -> ClRtpT] /\ w.ci \in ClCis
      /\ w.req \in ClReqs
  BY <1>0 DEF ClStates
<1>2. v = ClWith(w, f, g, h)
  BY <1>0 DEF ClStreamGone, ClWith, ClStates
<1>3. f \in [ClDirs -> ClRtpT] /\ f[d] = ClNoRtp /\ \A e \in ClDirs : e # d
      => f[e] = w.rtp[e]
  BY <1>1, NoRtpTyped
<1>4. /\ g \in ClCis
      /\ g[d] = IF w.rtp[d].ci THEN "dlcx" ELSE w.ci[d]
      /\ \A e \in ClDirs : e # d => g[e] = w.ci[e]
  BY <1>1 DEF ClCis
<1>5. h \in ClReqs
  BY <1>1, ZenonT(60), SMTT(30) DEF ClReqs
<1>6. \A e \in ClDirs : Len(h[e]) <= ClMaxQueue + 1
  <2> TAKE e \in ClDirs
  <2>1. Len(w.req[e]) <= ClMaxQueue + 1
    BY DEF ClHeld
  <2>2. h[e] = IF w.rtp[d].ci /\ e = d THEN <<>> ELSE w.req[e]
    BY <1>1 DEF ClReqs
  <2>3. Len(<<>>) = 0
    OBVIOUS
  <2> HIDE DEF h
  <2> QED BY SMTT(30), <2>1, <2>2, <2>3, ClAssumption
<1> HIDE DEF v, f, g, h
<1>7. /\ v \in ClStates /\ ClSame(v, w) /\ v.rtp = f /\ v.ci = g /\ v.req = h
  <2>1. f \in [ClDirs -> ClRtpT] /\ g \in ClCis
    BY <1>3, <1>4
  <2>2. /\ ClWith(w, f, g, h) \in ClStates /\ ClSame(ClWith(w, f, g, h), w)
        /\ ClWith(w, f, g, h).rtp = f /\ ClWith(w, f, g, h).ci = g
        /\ ClWith(w, f, g, h).req = h
    BY <1>0, <1>5, <2>1, WithIs, ZenonT(10), SMTT(30)
  <2> QED BY <1>2, <2>2
<1>8. \A e \in ClDirs : /\ v.ci[e] = "up" <=> v.rtp[e].ci
                        /\ v.ci[e] # "none" => v.ep
                        /\ v.rtp[e].st = "NULL" => v.rtp[e] = ClNoRtp
  BY <1>3, <1>4, <1>7, NoRtpTyped, ZenonT(60), SMTT(30) DEF ClHeld, ClSame
<1>9. ClHeld(v)
  BY <1>6, <1>7, <1>8 DEF ClHeld
<1> QED BY <1>3, <1>7, <1>9 DEF v

\* call_leg_release() takes a leg over, once.
LEMMA ReleaseKeeps ==
  ASSUME NEW w, ClFirm(w)
  PROVE  ClOver(ClRelease(w))
<1> DEFINE u == [w EXCEPT !.told = @ + 1, !.state = "RELEASING"]
           x == ClStreamGone(u, "RTP_TO_RAN")
           y == ClStreamGone(x, "RTP_TO_CN")
<1>1. ClRelease(w) = IF y.ep THEN y ELSE [y EXCEPT !.state = "gone"]
  BY DEF ClRelease, ClFirm, ClReleased, ClReleasingOnenter, ClTryFinish
<1>0. w \in ClStates /\ w.told = 0
  BY DEF ClFirm, ClHeld
<1>m. w.told + 1 = 1
  BY <1>0
<1>u. u = [w EXCEPT !.told = 1, !.state = "RELEASING"]
  BY <1>m
<1> HIDE DEF u
<1>2. /\ u \in ClStates /\ u.told = 1 /\ u.state = "RELEASING"
         /\ u.rtp = w.rtp /\ u.ci = w.ci
      /\ u.req = w.req /\ u.ep = w.ep /\ u.clients = w.clients
          /\ u.lost = w.lost
  BY <1>0, <1>u DEF ClStates, ClStages
<1>3. ClHeld(u)
  BY ZenonT(60), <1>2 DEF ClHeld, ClFirm
<1>d. "RTP_TO_RAN" \in ClDirs /\ "RTP_TO_CN" \in ClDirs
      /\ \A d \in ClDirs : d = "RTP_TO_RAN" \/ d = "RTP_TO_CN"
  BY DEF ClDirs
<1>4. ClHeld(x) /\ ClSame(x, u) /\ x.rtp["RTP_TO_RAN"] = ClNoRtp
  BY <1>3, <1>d, StreamGoneKeeps
<1> HIDE DEF x
<1>5. ClHeld(y) /\ ClSame(y, x) /\ y.rtp["RTP_TO_CN"] = ClNoRtp
      /\ y.rtp["RTP_TO_RAN"] = ClNoRtp
  BY <1>4, <1>d, StreamGoneKeeps
<1> HIDE DEF y
<1>6. /\ y.state = "RELEASING" /\ y.told = 1 /\ ~y.lost /\ y.ep = w.ep
      /\ y.clients = (IF y.ep THEN 1 ELSE 0)
  BY <1>2, <1>4, <1>5 DEF ClSame, ClFirm
<1>7. \A d \in ClDirs : y.rtp[d] = ClNoRtp
  BY <1>5, <1>d
<1>8. CASE y.ep
  BY <1>1, <1>5, <1>6, <1>7, <1>8 DEF ClOver
<1>9. CASE ~y.ep
  <2> DEFINE v == [y EXCEPT !.state = "gone"]
  <2>1. /\ v \in ClStates /\ v.state = "gone" /\ v.told = y.told
           /\ v.rtp = y.rtp /\ v.ci = y.ci
        /\ v.req = y.req /\ v.ep = y.ep /\ v.clients = y.clients
            /\ v.lost = y.lost
    BY <1>5 DEF ClHeld, ClStates, ClStages
  <2>2. ClRelease(w) = v
    BY <1>1, <1>9
  <2> HIDE DEF v
  <2>3. ClHeld(v)
    BY ZenonT(60), <1>5, <2>1 DEF ClHeld
  <2> QED BY ZenonT(60), <1>6, <1>7, <1>9, <2>1, <2>2, <2>3 DEF ClOver
<1> QED BY <1>8, <1>9

\* call_leg_mgw_endpoint_gone() puts the client back, and leaves no
\* connection.
LEMMA EndpointGoneKeeps ==
  ASSUME NEW w, ClHeld(w)
  PROVE  LET v == ClEndpointGone(w)
         IN  /\ ClHeld(v) /\ ~v.ep /\ v.clients = w.clients - 1
             /\ v.state = w.state /\ v.told = w.told /\ v.lost = w.lost
             /\ \A d \in ClDirs : w.rtp[d] = ClNoRtp => v.rtp[d] = ClNoRtp
<1> DEFINE v == ClEndpointGone(w)
           f == [d \in ClDirs |-> [w.rtp[d] EXCEPT !.ci = FALSE]]
           g == [d \in ClDirs |-> "none"]
           h == [d \in ClDirs |-> <<>>]
           n == w.clients - 1
<1>0. w \in ClStates
  BY DEF ClHeld
<1>r. \A r \in ClRtpT : /\ [r EXCEPT !.ci = FALSE] \in ClRtpT
                         /\ ~[r EXCEPT !.ci = FALSE].ci
                             /\ [r EXCEPT !.ci = FALSE].st = r.st
  BY DEF ClRtpT
<1>s. w.rtp \in [ClDirs -> ClRtpT]
  BY <1>0 DEF ClStates
<1>1. f \in [ClDirs -> ClRtpT] /\ \A d \in ClDirs : ~f[d].ci
      /\ f[d].st = w.rtp[d].st
  BY <1>r, <1>s
<1>n. [ClNoRtp EXCEPT !.ci = FALSE] = ClNoRtp
  <2>1. \A r \in ClRtpT : r.ci = FALSE => [r EXCEPT !.ci = FALSE] = r
    BY DEF ClRtpT
  <2>2. ClNoRtp.ci = FALSE
    BY DEF ClNoRtp
  <2> QED BY <2>1, <2>2, NoRtpTyped
<1>2. \A d \in ClDirs : w.rtp[d] = ClNoRtp => f[d] = ClNoRtp
  BY <1>n
<1>3. g \in ClCis /\ \A d \in ClDirs : g[d] = "none"
  BY DEF ClCis
<1>4. h \in ClReqs /\ \A d \in ClDirs : Len(h[d]) = 0
  BY DEF ClReqs
<1>5. n \in Int
  BY SMTT(30), <1>0 DEF ClStates
<1>6. v = [w EXCEPT !.clients = n, !.ep = FALSE, !.ci = g, !.req = h,
      !.rtp = f]
  BY <1>0 DEF ClEndpointGone, ClStates
<1> HIDE DEF f, g, h, n, v
<1>7. /\ v \in ClStates /\ v.clients = n /\ ~v.ep /\ v.ci = g /\ v.req = h
         /\ v.rtp = f
      /\ v.state = w.state /\ v.told = w.told /\ v.lost = w.lost
  BY <1>0, <1>1, <1>3, <1>4, <1>5, <1>6 DEF ClStates
<1>8. ClHeld(v)
  <2>1. \A d \in ClDirs : w.rtp[d].st = "NULL" => w.rtp[d] = ClNoRtp
    BY DEF ClHeld
  <2> QED BY <1>1, <1>2, <1>3, <1>4, <1>7, <2>1, ClAssumption, ZenonT(60), SMTT(30) DEF ClHeld
<1> QED BY <1>2, <1>7, <1>8 DEF v, n

\* A leg in RELEASING ends when its endpoint is gone.
LEMMA TryFinishKeeps ==
  ASSUME NEW w, ClHeld(w), ~w.ep, w.told = 1,
         \A d \in ClDirs : w.rtp[d] = ClNoRtp,
         w.clients = 0, ~w.lost
  PROVE  ClOver(ClTryFinish(w))
<1> DEFINE v == [w EXCEPT !.state = "gone"]
<1>1. /\ v \in ClStates /\ v.state = "gone" /\ v.told = w.told
         /\ v.rtp = w.rtp /\ v.ci = w.ci
      /\ v.req = w.req /\ v.ep = w.ep /\ v.clients = w.clients
          /\ v.lost = w.lost
  BY DEF ClHeld, ClStates, ClStages
<1>2. ClTryFinish(w) = v
  BY DEF ClTryFinish
<1> HIDE DEF v
<1>3. ClHeld(v)
  BY <1>1 DEF ClHeld
<1> QED BY <1>1, <1>2, <1>3 DEF ClOver

\* So the end of the endpoint takes the leg over, in whichever state it
\* comes.
LEMMA EndpointGoneEvKeeps ==
  ASSUME NEW w, ClGood(w), w.ep
  PROVE  ClOver(ClEndpointGoneEv(w))
<1> DEFINE v == ClEndpointGone(w)
<1>0. ClHeld(w) /\ ~w.lost /\ w.clients = 1
  BY DEF ClGood, ClRuns, ClFirm, ClOver
<1>1. /\ ClHeld(v) /\ ~v.ep /\ v.clients = w.clients - 1
      /\ v.state = w.state /\ v.told = w.told /\ v.lost = w.lost
      /\ \A d \in ClDirs : w.rtp[d] = ClNoRtp => v.rtp[d] = ClNoRtp
  BY <1>0, EndpointGoneKeeps
<1> HIDE DEF v
<1>2. CASE ClOver(w)
  <2>1. ClEndpointGoneEv(w) = ClTryFinish(v)
    BY <1>2 DEF ClEndpointGoneEv, ClOver, ClReleased, v
  <2>2. v.clients = 0
    BY <1>0, <1>1
  <2> QED BY <1>0, <1>1, <1>2, <2>1, <2>2, TryFinishKeeps, ZenonT(60), SMTT(30) DEF ClOver
<1>3. CASE ClRuns(w)
  <2>1. ClEndpointGoneEv(w) = ClRelease(v)
    BY <1>3 DEF ClEndpointGoneEv, ClRuns, ClFirm, ClReleased, v
  <2>2. v.clients = 0
    BY <1>0, <1>1
  <2>3. ClFirm(v)
    BY <1>0, <1>1, <1>3, <2>2 DEF ClFirm, ClRuns
  <2> QED BY <2>1, <2>3, ReleaseKeeps
<1> QED BY <1>2, <1>3 DEF ClGood

\* A running leg with a stream in direction d and at most n requests for it.
ClAct(w, d, n) == ClRuns(w) /\ w.ep /\ w.rtp[d].st # "NULL"
    /\ Len(w.req[d]) <= n

\* The leg with another stream in direction d.
ClPut(w, d, r) == [w EXCEPT !.rtp = [w.rtp EXCEPT ![d] = r]]

\* The types of its pieces.
LEMMA ActTyped ==
  ASSUME NEW w, NEW d \in ClDirs, NEW n, ClAct(w, d, n)
  PROVE  /\ w \in ClStates /\ w.rtp \in [ClDirs -> ClRtpT]
            /\ w.rtp[d] \in ClRtpT
         /\ w.ci \in ClCis /\ w.req \in ClReqs /\ ClHeld(w)
BY DEF ClAct, ClRuns, ClFirm, ClHeld, ClStates

\* A stream with the same connection may take its place.
LEMMA PutKeeps ==
  ASSUME NEW w, NEW d \in ClDirs, NEW n, ClAct(w, d, n), NEW r \in ClRtpT,
         r.ci = w.rtp[d].ci, r.st # "NULL"
  PROVE  ClAct(ClPut(w, d, r), d, n) /\ ClPut(w, d, r).rtp[d] = r
<1> DEFINE f == [w.rtp EXCEPT ![d] = r]
           v == ClPut(w, d, r)
<1>0. w \in ClStates /\ w.rtp \in [ClDirs -> ClRtpT] /\ ClHeld(w)
  BY ActTyped
<1>1. f \in [ClDirs -> ClRtpT] /\ f[d] = r /\ \A e \in ClDirs : e # d
      => f[e] = w.rtp[e]
  BY <1>0
<1>2. v = [w EXCEPT !.rtp = f]
  BY DEF ClPut
<1> HIDE DEF f, v
<1>3. v \in ClStates /\ v.rtp = f /\ v.ci = w.ci /\ v.req = w.req
      /\ ClSame(v, w)
  BY ZenonT(60), <1>0, <1>1, <1>2 DEF ClStates, ClSame
<1>4. ClHeld(v)
  BY <1>0, <1>1, <1>3, ZenonT(60), SMTT(30) DEF ClHeld, ClSame
<1>5. ClFirm(v) /\ v.ep
  BY <1>3, <1>4 DEF ClAct, ClRuns, ClFirm, ClSame
<1>6. ClRuns(v)
  BY <1>5 DEF ClRuns
<1> QED BY <1>1, <1>3, <1>5, <1>6 DEF ClAct, v

\* The setters of a stream keep the leg running: rtp_stream_set_mode(),
\* rtp_stream_set_codecs(), rtp_stream_set_remote_addr(),
\* rtp_stream_set_remote_osmux_cid().
LEMMA SettersKeep ==
  ASSUME NEW w, NEW d \in ClDirs, NEW n, ClAct(w, d, n)
  PROVE  /\ \A mode \in 0..1 : ClAct(ClSetMode(w, d, mode), d, n)
         /\ \A new \in BOOLEAN : /\ ClAct(ClSetCodecs(w, d, new), d, n)
                                 /\ ClAct(ClSetRemoteAddr(w, d, new), d, n)
         /\ ClAct(ClSetOsmuxCid(w, d), d, n)
         /\ ClAct([w EXCEPT !.rtp[d].osmux = TRUE, !.rtp[d].cid = FALSE], d, n)
         /\ ClAct([w EXCEPT !.rtp[d].st = "ESTABLISHED"], d, n)
         /\ ClAct([w EXCEPT !.rtp[d].st = "ESTABLISHING"], d, n)
         /\ ClAct([w EXCEPT !.rtp[d].local = TRUE], d, n)
<1> DEFINE r == w.rtp[d]
           s == ClReopen(r)
<1>0. w \in ClStates /\ w.rtp \in [ClDirs -> ClRtpT] /\ r \in ClRtpT
      /\ r.st # "NULL"
  BY ActTyped DEF ClAct
<1>1. s \in {"UNINITIALIZED", "ESTABLISHING", "ESTABLISHED"}
  BY <1>0 DEF ClReopen, ClRtpT
<1>2. ASSUME NEW mode \in 0..1 PROVE ClAct(ClSetMode(w, d, mode), d, n)
  <2> DEFINE q == [r EXCEPT !.st = s, !.msent = FALSE, !.mode = mode]
  <2>1. CASE r.mode = mode
    BY <2>1 DEF ClSetMode
  <2>2. CASE r.mode # mode
    <3>1. ClSetMode(w, d, mode) = ClPut(w, d, q)
      BY <1>0, <2>2 DEF ClSetMode, ClPut, ClStates
    <3> HIDE DEF s
    <3>2. q \in ClRtpT /\ q.ci = w.rtp[d].ci /\ q.st # "NULL"
      BY <1>0, <1>1 DEF ClRtpT
    <3> HIDE DEF q
    <3> QED BY <3>1, <3>2, PutKeeps, ZenonT(10), SMTT(30)
  <2> QED BY <2>1, <2>2
<1>3. ASSUME NEW new \in BOOLEAN PROVE ClAct(ClSetCodecs(w, d, new), d, n)
  <2> DEFINE q == [r EXCEPT !.st = s, !.codecs = TRUE, !.csent = FALSE]
  <2>1. CASE ~new
    BY <2>1 DEF ClSetCodecs
  <2>2. CASE new
    <3>1. ClSetCodecs(w, d, new) = ClPut(w, d, q)
      BY <1>0, <2>2 DEF ClSetCodecs, ClPut, ClStates
    <3> HIDE DEF s
    <3>2. q \in ClRtpT /\ q.ci = w.rtp[d].ci /\ q.st # "NULL"
      BY <1>0, <1>1 DEF ClRtpT
    <3> HIDE DEF q
    <3> QED BY <3>1, <3>2, PutKeeps, ZenonT(10), SMTT(30)
  <2> QED BY <2>1, <2>2
<1>4. ASSUME NEW new \in BOOLEAN PROVE ClAct(ClSetRemoteAddr(w, d, new), d, n)
  <2> DEFINE q == [r EXCEPT !.st = s, !.remote = TRUE, !.rsent = FALSE]
  <2>1. CASE ~new
    BY <2>1 DEF ClSetRemoteAddr
  <2>2. CASE new
    <3>1. ClSetRemoteAddr(w, d, new) = ClPut(w, d, q)
      BY <1>0, <2>2 DEF ClSetRemoteAddr, ClPut, ClStates
    <3> HIDE DEF s
    <3>2. q \in ClRtpT /\ q.ci = w.rtp[d].ci /\ q.st # "NULL"
      BY <1>0, <1>1 DEF ClRtpT
    <3> HIDE DEF q
    <3> QED BY SMTT(30), <3>1, <3>2, PutKeeps
  <2> QED BY <2>1, <2>2
<1>5. ClAct(ClSetOsmuxCid(w, d), d, n)
  <2> DEFINE q == [r EXCEPT !.st = s, !.cid = TRUE, !.osent = FALSE]
  <2>1. ClSetOsmuxCid(w, d) = ClPut(w, d, q)
    BY ZenonT(60), <1>0 DEF ClSetOsmuxCid, ClPut, ClStates
  <2> HIDE DEF s
  <2>2. q \in ClRtpT /\ q.ci = w.rtp[d].ci /\ q.st # "NULL"
    BY <1>0, <1>1 DEF ClRtpT
  <2> HIDE DEF q
  <2> QED BY <2>1, <2>2, PutKeeps, ZenonT(10), SMTT(30)
<1>6. ClAct([w EXCEPT !.rtp[d].osmux = TRUE, !.rtp[d].cid = FALSE], d, n)
  <2> DEFINE q == [r EXCEPT !.osmux = TRUE, !.cid = FALSE]
             v == [w EXCEPT !.rtp[d].osmux = TRUE, !.rtp[d].cid = FALSE]
  <2>1. v = ClPut(w, d, q)
    BY <1>0 DEF ClPut, ClStates
  <2>2. q \in ClRtpT /\ q.ci = w.rtp[d].ci /\ q.st # "NULL"
    BY <1>0 DEF ClRtpT
  <2>3. ClAct(v, d, n)
    <3> HIDE DEF q, v
    <3> QED BY <2>1, <2>2, PutKeeps
  <2> QED BY <2>3
<1>7. ASSUME NEW st \in {"ESTABLISHED", "ESTABLISHING"}
      PROVE  ClAct([w EXCEPT !.rtp[d].st = st], d, n)
  <2> DEFINE q == [r EXCEPT !.st = st]
             v == [w EXCEPT !.rtp[d].st = st]
  <2>1. v = ClPut(w, d, q)
    BY <1>0 DEF ClPut, ClStates
  <2>2. q \in ClRtpT /\ q.ci = w.rtp[d].ci /\ q.st # "NULL"
    BY <1>0 DEF ClRtpT
  <2>3. ClAct(v, d, n)
    <3> HIDE DEF q, v
    <3> QED BY <2>1, <2>2, PutKeeps
  <2> QED BY <2>3
<1>8. ClAct([w EXCEPT !.rtp[d].local = TRUE], d, n)
  <2> DEFINE q == [r EXCEPT !.local = TRUE]
             v == [w EXCEPT !.rtp[d].local = TRUE]
  <2>1. v = ClPut(w, d, q)
    BY <1>0 DEF ClPut, ClStates
  <2>2. q \in ClRtpT /\ q.ci = w.rtp[d].ci /\ q.st # "NULL"
    BY <1>0 DEF ClRtpT
  <2>3. ClAct(v, d, n)
    <3> HIDE DEF q, v
    <3> QED BY <2>1, <2>2, PutKeeps
  <2> QED BY <2>3
<1>9. /\ ClAct([w EXCEPT !.rtp[d].st = "ESTABLISHED"], d, n)
      /\ ClAct([w EXCEPT !.rtp[d].st = "ESTABLISHING"], d, n)
  BY <1>7
<1> QED BY ZenonT(60), <1>2, <1>3, <1>4, <1>5, <1>6, <1>8, <1>9

\* A request to the MGW is one more request in flight.
LEMMA DoVerbKeeps ==
  ASSUME NEW w, NEW d \in ClDirs, NEW n \in Nat, n <= ClMaxQueue,
         ClAct(w, d, n),
         NEW verb \in {"CRCX", "MDCX"}
  PROVE  ClAct(ClDoVerb(w, d, verb), d, n + 1)
<1> DEFINE r == w.rtp[d]
           v == ClDoVerb(w, d, verb)
<1>0. /\ w \in ClStates /\ w.rtp \in [ClDirs -> ClRtpT] /\ r \in ClRtpT
         /\ r.st # "NULL"
      /\ w.req \in ClReqs /\ w.ci \in ClCis /\ ClHeld(w) /\ Len(w.req[d]) <= n
  BY ActTyped DEF ClAct
<1>l. w.req[d] \in Seq({"CRCX", "MDCX"}) /\ Len(w.req[d]) \in Nat
  BY <1>0, ZenonT(60), SMTT(30) DEF ClReqs
<1>1. CASE ~r.ci
  <2>1. v = w
    BY <1>1 DEF ClDoVerb
  <2>2. Len(w.req[d]) <= n + 1
    BY <1>0, <1>l, ZenonT(10), SMTT(30)
  <2> QED BY <2>1, <2>2 DEF ClAct
<1>2. CASE r.ci
  <2> DEFINE c1 == r.csent \/ r.codecs
             c2 == r.rsent \/ r.remote
             c3 == r.osent \/ (r.osmux /\ r.cid)
             q == [r EXCEPT !.csent = @ \/ r.codecs, !.rsent = @ \/ r.remote,
                            !.msent = TRUE, !.osent = @ \/ (r.osmux /\ r.cid)]
             h == [w.req EXCEPT ![d] = Append(w.req[d], verb)]
             f == [w.rtp EXCEPT ![d] = q]
  <2>1. c1 \in BOOLEAN /\ c2 \in BOOLEAN /\ c3 \in BOOLEAN
    OBVIOUS
  <2>2. v = [w EXCEPT !.req = h, !.rtp = f]
    <3>1. v = [w EXCEPT !.req[d] = Append(@, verb), !.rtp[d] = q]
      BY <1>2 DEF ClDoVerb
    <3> HIDE DEF q, v
    <3> QED BY <1>0, <3>1 DEF ClStates
  <2>a. q = [r EXCEPT !.csent = c1, !.rsent = c2, !.msent = TRUE, !.osent = c3]
    BY <1>0 DEF ClRtpT
  <2> HIDE DEF c1, c2, c3, q
  <2>3. q \in ClRtpT /\ q.ci = r.ci /\ q.st = r.st
    BY ZenonT(60), <1>0, <2>1, <2>a DEF ClRtpT
  <2> HIDE DEF q
  <2>4. f \in [ClDirs -> ClRtpT] /\ f[d] = q /\ \A e \in ClDirs : e # d
        => f[e] = w.rtp[e]
    BY <1>0, <2>3
  <2>5. /\ h \in ClReqs /\ Len(h[d]) = Len(w.req[d]) + 1
        /\ \A e \in ClDirs : e # d => h[e] = w.req[e]
    BY <1>0, <1>l, ZenonT(60), SMTT(30) DEF ClReqs
  <2> HIDE DEF f, h, v
  <2>6. v \in ClStates /\ v.rtp = f /\ v.ci = w.ci /\ v.req = h /\ ClSame(v, w)
    BY <1>0, <2>2, <2>4, <2>5 DEF ClStates, ClSame
  <2>7. \A e \in ClDirs : Len(v.req[e]) <= ClMaxQueue + 1
    BY <1>0, <1>l, <2>5, <2>6, ClAssumption, ZenonT(60), SMTT(30) DEF ClHeld
  <2>8. ClHeld(v)
    BY <1>0, <2>3, <2>4, <2>6, <2>7, ZenonT(60), SMTT(30) DEF ClHeld, ClSame
  <2>9. ClFirm(v) /\ v.ep
    BY <2>6, <2>8 DEF ClAct, ClRuns, ClFirm, ClSame
  <2>10. ClRuns(v)
    BY <2>9 DEF ClRuns
  <2>11. Len(v.req[d]) <= n + 1
    BY SMTT(30), <1>0, <1>l, <2>5, <2>6
  <2>12. v.rtp[d].st # "NULL"
    BY <1>0, <2>3, <2>4, <2>6
  <2> QED BY <2>9, <2>10, <2>11, <2>12 DEF ClAct, v
<1> QED BY <1>1, <1>2

\* rtp_stream_commit() keeps the leg running.
LEMMA CommitKeeps ==
  ASSUME NEW w, NEW d \in ClDirs, NEW n \in Nat, n <= ClMaxQueue,
         ClAct(w, d, n)
  PROVE  ClAct(ClCommit(w, d), d, n + 1)
<1>1. ClAct(w, d, n + 1)
  <2>1. w.req[d] \in Seq({"CRCX", "MDCX"})
    BY ActTyped DEF ClReqs
  <2>2. Len(w.req[d]) <= n + 1
    BY SMTT(30), <2>1 DEF ClAct
  <2> QED BY <2>2 DEF ClAct
<1>2. ClAct(ClDoVerb(w, d, "MDCX"), d, n + 1)
  BY DoVerbKeeps
<1> QED BY <1>1, <1>2 DEF ClCommit

\* So does CALL_LEG_EV_RTP_STREAM_ESTABLISHED,
LEMMA StreamEstablishedKeeps ==
  ASSUME NEW w, NEW d \in ClDirs, NEW n, ClAct(w, d, n)
  PROVE  /\ ClAct(ClStreamEstablished(w), d, n)
         /\ ClStreamEstablished(w).req = w.req
<1> DEFINE v == [w EXCEPT !.state = "ESTABLISHED", !.done = TRUE]
<1>0. w \in ClStates /\ ClHeld(w)
  BY ActTyped
<1>1. /\ v \in ClStates /\ v.rtp = w.rtp /\ v.ci = w.ci /\ v.req = w.req
      /\ v.state = "ESTABLISHED" /\ v.ep = w.ep /\ v.told = w.told
      /\ v.clients = w.clients /\ v.lost = w.lost
  BY <1>0 DEF ClStates, ClStages
<1>2. ClStreamEstablished(w) = v \/ ClStreamEstablished(w) = w
  BY DEF ClStreamEstablished
<1> HIDE DEF v
<1>3. ClHeld(v)
  BY ZenonT(60), <1>0, <1>1 DEF ClHeld
<1>4. ClAct(v, d, n)
  BY <1>1, <1>3, ZenonT(60), SMTT(30) DEF ClAct, ClRuns, ClFirm
<1> QED BY <1>1, <1>2, <1>4

\* check_established(),
LEMMA CheckEstablishedKeeps ==
  ASSUME NEW w, NEW d \in ClDirs, NEW n, ClAct(w, d, n)
  PROVE  ClAct(ClCheckEstablished(w, d), d, n)
<1> DEFINE u == [w EXCEPT !.rtp[d].st = "ESTABLISHED"]
<1>1. ClAct(u, d, n)
  BY SettersKeep
<1>2. ClCheckEstablished(w, d) = ClStreamEstablished(u)
      \/ ClCheckEstablished(w, d) = w
  BY DEF ClCheckEstablished
<1> HIDE DEF u
<1>3. ClAct(ClStreamEstablished(u), d, n)
  BY <1>1, StreamEstablishedKeeps
<1> QED BY <1>2, <1>3

\* and the answer to a CRCX.
LEMMA CrcxOkKeeps ==
  ASSUME NEW w, NEW d \in ClDirs, NEW n \in Nat, n <= ClMaxQueue,
         ClAct(w, d, n)
  PROVE  ClRuns(ClCrcxOk(w, d))
<1> DEFINE u == [w EXCEPT !.rtp[d].local = TRUE]
           v == ClCheckEstablished(u, d)
<1>1. ClAct(u, d, n)
  BY SettersKeep
<1>2. ClCrcxOk(w, d) = ClDoVerb(v, d, "MDCX") \/ ClCrcxOk(w, d) = v
  BY DEF ClCrcxOk
<1> HIDE DEF u
<1>3. ClAct(v, d, n)
  BY <1>1, CheckEstablishedKeeps
<1> HIDE DEF v
<1>4. ClAct(ClDoVerb(v, d, "MDCX"), d, n + 1)
  BY <1>3, DoVerbKeeps
<1> QED BY <1>2, <1>3, <1>4 DEF ClAct

\* call_leg_ensure_rtp_alloc() takes a client for the endpoint if the leg has
\* none.
LEMMA EnsureRtpAllocKeeps ==
  ASSUME NEW w, NEW d \in ClDirs, NEW n, ClRuns(w), Len(w.req[d]) <= n
  PROVE  ClAct(ClEnsureRtpAlloc(w, d), d, n)
<1>0. /\ w \in ClStates /\ ClHeld(w) /\ ClFirm(w)
         /\ w.rtp \in [ClDirs -> ClRtpT]
      /\ w.clients \in Int /\ w.ep \in BOOLEAN
  BY DEF ClRuns, ClFirm, ClHeld, ClStates
<1>1. CASE w.rtp[d].st # "NULL"
  BY <1>1 DEF ClEnsureRtpAlloc, ClAct, ClRuns
<1>2. CASE w.rtp[d].st = "NULL"
  <2> DEFINE q == [ClNoRtp EXCEPT !.st = "UNINITIALIZED"]
             f == [w.rtp EXCEPT ![d] = q]
             v == ClEnsureRtpAlloc(w, d)
  <2>1. q \in ClRtpT /\ q.st = "UNINITIALIZED" /\ ~q.ci
    BY NoRtpTyped DEF ClRtpT
  <2>2. w.rtp[d] = ClNoRtp /\ ~w.rtp[d].ci
    BY <1>0, <1>2, NoRtpTyped DEF ClHeld
  <2>3. v = [w EXCEPT !.ep = TRUE, !.clients = 1, !.rtp = f]
    <3>1. CASE w.ep
      <4>1. w.clients = 1 /\ w.ep = TRUE
        BY <1>0, <3>1 DEF ClFirm
      <4>2. v = [w EXCEPT !.rtp[d] = q]
        BY <1>2, <3>1 DEF ClEnsureRtpAlloc
      <4>3. w = [w EXCEPT !.ep = TRUE, !.clients = 1]
        BY <1>0, <4>1 DEF ClStates
      <4> HIDE DEF q, v
      <4> QED BY <1>0, <4>1, <4>2, <4>3 DEF ClStates
    <3>2. CASE ~w.ep
      <4>1. w.clients = 0 /\ w.clients + 1 = 1
        BY SMTT(30), <1>0, <3>2 DEF ClFirm
      <4>2. v = [[w EXCEPT !.ep = TRUE, !.clients = 1] EXCEPT !.rtp[d] = q]
        BY <1>2, <3>2, <4>1 DEF ClEnsureRtpAlloc
      <4> HIDE DEF q, v
      <4> QED BY <1>0, <4>2 DEF ClStates
    <3> QED BY <3>1, <3>2
  <2> HIDE DEF q
  <2>4. f \in [ClDirs -> ClRtpT] /\ f[d] = q /\ \A e \in ClDirs : e # d
        => f[e] = w.rtp[e]
    BY <1>0, <2>1
  <2> HIDE DEF f, v
  <2>5. /\ v \in ClStates /\ v.ep /\ v.clients = 1 /\ v.rtp = f /\ v.ci = w.ci
           /\ v.req = w.req
        /\ v.state = w.state /\ v.told = w.told /\ v.lost = w.lost
    <3>1. f \in [ClDirs -> ClRtpT]
      BY <2>4
    <3>2. v \in ClStates
      <4>1. ASSUME NEW u \in ClStates, NEW x \in [ClDirs -> ClRtpT],
                   NEW e \in BOOLEAN, NEW c \in Int
            PROVE  [u EXCEPT !.ep = e, !.clients = c, !.rtp = x] \in ClStates
        BY <4>1 DEF ClStates
      <4>2. w \in ClStates /\ 1 \in Int /\ TRUE \in BOOLEAN
        BY <1>0, ZenonT(60), SMTT(30) DEF ClHeld
      <4> QED BY ZenonT(60), <2>3, <3>1, <4>1, <4>2
    <3>3. v.ep = TRUE
      BY <1>0, <2>3 DEF ClStates
    <3>4. /\ v.clients = 1 /\ v.rtp = f /\ v.ci = w.ci /\ v.req = w.req
          /\ v.state = w.state /\ v.told = w.told /\ v.lost = w.lost
      BY ZenonT(60), <1>0, <2>3 DEF ClStates
    <3> QED BY <3>2, <3>3, <3>4
  <2>6. ClHeld(v)
    BY <1>0, <2>1, <2>2, <2>4, <2>5, ZenonT(60), SMTT(30) DEF ClHeld
  <2>7. ClFirm(v)
    BY <1>0, <2>5, <2>6 DEF ClFirm
  <2> QED BY <2>1, <2>4, <2>5, <2>7 DEF ClAct, ClRuns, v
<1> QED BY <1>1, <1>2

\* The leg with a connection for direction d.
ClConnected(w, d) == [w EXCEPT !.rtp[d].ci = TRUE, !.ci[d] = "up"]

\* It has the endpoint the connection needs.
LEMMA ConnectedKeeps ==
  ASSUME NEW w, NEW d \in ClDirs, NEW n, ClAct(w, d, n)
  PROVE  ClAct(ClConnected(w, d), d, n)
<1> DEFINE q == [w.rtp[d] EXCEPT !.ci = TRUE]
           f == [w.rtp EXCEPT ![d] = q]
           g == [w.ci EXCEPT ![d] = "up"]
           v == ClConnected(w, d)
<1>0. /\ w \in ClStates /\ w.rtp \in [ClDirs -> ClRtpT] /\ w.rtp[d] \in ClRtpT
      /\ w.ci \in ClCis /\ w.req \in ClReqs /\ ClHeld(w) /\ w.ep
          /\ w.rtp[d].st # "NULL"
  BY ActTyped DEF ClAct
<1>1. q \in ClRtpT /\ q.ci /\ q.st = w.rtp[d].st
  BY <1>0 DEF ClRtpT
<1>2. v = [w EXCEPT !.rtp = f, !.ci = g]
  BY <1>0 DEF ClConnected, ClStates
<1> HIDE DEF q
<1>3. f \in [ClDirs -> ClRtpT] /\ f[d] = q /\ \A e \in ClDirs : e # d
      => f[e] = w.rtp[e]
  BY <1>0, <1>1
<1>4. g \in ClCis /\ g[d] = "up" /\ \A e \in ClDirs : e # d => g[e] = w.ci[e]
  BY <1>0 DEF ClCis
<1> HIDE DEF f, g, v
<1>5. v \in ClStates /\ v.rtp = f /\ v.ci = g /\ v.req = w.req /\ ClSame(v, w)
  BY ZenonT(60), <1>0, <1>2, <1>3, <1>4 DEF ClStates, ClSame
<1>6. ClHeld(v)
  BY <1>0, <1>1, <1>3, <1>4, <1>5, ZenonT(60), SMTT(30) DEF ClHeld, ClSame
<1>7. ClFirm(v) /\ v.ep
  BY <1>5, <1>6 DEF ClAct, ClRuns, ClFirm, ClSame
<1> QED BY ZenonT(60), <1>0, <1>1, <1>3, <1>5, <1>7 DEF ClAct, ClRuns, v

\* rtp_stream_ensure_ci() keeps the leg running.
LEMMA StreamEnsureCiKeeps ==
  ASSUME NEW w, NEW d \in ClDirs, NEW n \in Nat, n <= ClMaxQueue,
         ClAct(w, d, n),
         NEW room \in BOOLEAN
  PROVE  ClRuns(ClStreamEnsureCi(w, d, room))
<1> DEFINE u == [w EXCEPT !.rtp[d].st = "ESTABLISHING"]
           x == ClConnected(u, d)
<1>1. ClAct(u, d, n)
  BY SettersKeep
<1>2. ClStreamEnsureCi(w, d, room) \in {ClCommit(w, d), u, ClDoVerb(x, d,
      "CRCX")}
  BY DEF ClStreamEnsureCi, ClConnected
<1> HIDE DEF u
<1>3. ClAct(x, d, n)
  BY <1>1, ConnectedKeeps
<1> HIDE DEF x
<1>4. ClAct(ClDoVerb(x, d, "CRCX"), d, n + 1)
  BY <1>3, DoVerbKeeps
<1>5. ClAct(ClCommit(w, d), d, n + 1)
  BY CommitKeeps
<1> QED BY ZenonT(60), <1>1, <1>2, <1>4, <1>5 DEF ClAct

-----------------------------------------------------------------------------
\* The actions of CallLeg.

\* The inductive invariant of CallLeg.
ClIInv == ClGood(ClW) /\ clUse \in BOOLEAN

\* A step to a good leg keeps the invariant.
LEMMA ClBecame ==
  ASSUME clUse \in BOOLEAN, NEW new, ClGood(new), ClBecome(new)
  PROVE  ClIInv'
<1>1. new \in ClStates
  BY DEF ClGood, ClRuns, ClFirm, ClOver, ClHeld
<1>2. ClW' = [state |-> new.state, rtp |-> new.rtp, ep |-> new.ep,
      ci |-> new.ci,
              req |-> new.req, told |-> new.told, done |-> new.done,
              clients |-> new.clients, lost |-> new.lost]
  BY DEF ClW, ClBecome
<1>3. ClW' = new
  BY <1>1, <1>2 DEF ClStates
<1>4. ClGood(ClW')
  BY <1>3
<1>5. clUse' = clUse
  BY DEF ClBecome
<1>6. ClGood(ClW)'
  BY <1>4
<1> QED BY <1>5, <1>6 DEF ClIInv

\* The record is the state.
LEMMA ClFields ==
  /\ ClW.state = clState /\ ClW.rtp = clRtp /\ ClW.ep = clEp /\ ClW.ci = clCi
      /\ ClW.req = clReq
  /\ ClW.told = clTold /\ ClW.done = clDone /\ ClW.clients = clClients
      /\ ClW.lost = clLost
BY DEF ClW

\* call_leg_ensure_ci() keeps the invariant.
LEMMA EnsureCiStep ==
  ASSUME ClIInv, NEW d \in ClDirs, NEW mode \in 0..1, NEW codecs \in BOOLEAN,
         NEW addr \in BOOLEAN, NEW room \in BOOLEAN,
             ClEnsureCi(d, mode, codecs, addr, room)
  PROVE  ClIInv'
<1> DEFINE n == ClMaxQueue
           w1 == ClEnsureRtpAlloc(ClW, d)
           w2 == ClSetMode(w1, d, mode)
           w3 == IF d = "RTP_TO_RAN" /\ clUse
                 THEN [w2 EXCEPT !.rtp[d].osmux = TRUE, !.rtp[d].cid = FALSE]
                 ELSE w2
           w4 == ClSetCodecs(w3, d, codecs)
           w5 == ClSetRemoteAddr(w4, d, addr)
<1>0. n \in Nat /\ n <= ClMaxQueue
  BY SMTT(30), ClAssumption
<1>1. ClBecome(ClStreamEnsureCi(w5, d, room)) /\ ~ClReleased(ClW)
      /\ Len(clReq[d]) < ClMaxQueue
  BY DEF ClEnsureCi
<1>2. ClRuns(ClW)
  BY <1>1 DEF ClIInv, ClGood, ClOver, ClReleased
<1>3. ClW.req[d] \in Seq({"CRCX", "MDCX"}) /\ ClW.req = clReq
  BY <1>2, ClFields DEF ClRuns, ClFirm, ClHeld, ClStates, ClReqs
<1>4. Len(ClW.req[d]) <= n
  BY SMTT(30), <1>0, <1>1, <1>3
<1> HIDE DEF n
<1>5. ClAct(w1, d, n)
  BY <1>2, <1>4, EnsureRtpAllocKeeps
<1> HIDE DEF w1
<1>6. ClAct(w2, d, n)
  BY <1>5, SettersKeep
<1> HIDE DEF w2
<1>7. ClAct(w3, d, n)
  BY <1>6, SettersKeep
<1> HIDE DEF w3
<1>8. ClAct(w4, d, n)
  BY <1>7, SettersKeep
<1> HIDE DEF w4
<1>9. ClAct(w5, d, n)
  BY <1>8, SettersKeep
<1> HIDE DEF w5
<1>10. ClRuns(ClStreamEnsureCi(w5, d, room))
  BY <1>0, <1>9, StreamEnsureCiKeeps
<1> QED BY <1>1, <1>10, ClBecame DEF ClGood, ClIInv

\* A release by the parent keeps the invariant, also a second one.
LEMMA ParentReleaseStep ==
  ASSUME ClIInv, ClParentRelease
  PROVE  ClIInv'
<1>1. CASE ClRuns(ClW)
  <2>1. ClOver(ClRelease(ClW))
    BY <1>1, ReleaseKeeps DEF ClRuns
  <2> QED BY <2>1, ClBecame DEF ClGood, ClIInv, ClParentRelease
<1>2. CASE ClOver(ClW)
  <2>1. ClRelease(ClW) = ClW
    BY <1>2 DEF ClOver, ClRelease, ClReleased
  <2>2. ClBecome(ClW)
    BY <2>1 DEF ClParentRelease
  <2> QED BY <2>2, ClBecame DEF ClIInv
<1> QED BY <1>1, <1>2 DEF ClIInv, ClGood

\* The Osmux CID of the BSC keeps the invariant.
LEMMA RxOsmuxCidStep ==
  ASSUME ClIInv, ClRxOsmuxCid
  PROVE  ClIInv'
<1> DEFINE d == "RTP_TO_RAN"
           n == ClMaxQueue
           u == ClSetOsmuxCid(ClW, d)
<1>0. d \in ClDirs /\ n \in Nat /\ n <= ClMaxQueue
  BY ClAssumption DEF ClDirs
<1>1. ClBecome(ClCommit(u, d)) /\ clRtp[d].osmux /\ Len(clReq[d]) < ClMaxQueue
  BY DEF ClRxOsmuxCid
<1> HIDE DEF d
<1>2. ClW.rtp = clRtp /\ ClW.req = clReq
  BY ClFields
<1>3. ClRuns(ClW)
  BY SMTT(60), <1>0, <1>1, <1>2 DEF ClIInv, ClGood, ClOver, ClNoRtp
<1>4. ClW.req[d] \in Seq({"CRCX", "MDCX"})
  BY ZenonT(60), <1>0, <1>3 DEF ClRuns, ClFirm, ClHeld, ClStates, ClReqs
<1>5. ClW.rtp[d].st # "NULL"
  BY <1>0, <1>1, <1>2, <1>3, ZenonT(60), SMTT(30) DEF ClRuns, ClFirm, ClHeld, ClNoRtp
<1>6. Len(ClW.req[d]) <= n
  BY <1>0, <1>1, <1>2, <1>4, ZenonT(10), SMTT(30)
<1> HIDE DEF n
<1>7. ClAct(ClW, d, n)
  BY <1>0, <1>3, <1>5, <1>6 DEF ClAct, ClRuns
<1>8. ClAct(u, d, n)
  BY <1>0, <1>7, SettersKeep
<1> HIDE DEF u
<1>9. ClAct(ClCommit(u, d), d, n + 1)
  BY <1>0, <1>8, CommitKeeps
<1> QED BY <1>1, <1>9, ClBecame DEF ClAct, ClGood, ClIInv

\* Taking the answer off the queue keeps a leg what it is.
LEMMA AnsweredKeeps ==
  ASSUME ClIInv, NEW d \in ClDirs, clReq[d] # <<>>
  PROVE  LET v == ClAnswered(ClW, d)
         IN  /\ ClGood(v) /\ v.rtp = clRtp /\ v.state = clState
             /\ ClRuns(ClW) <=> ClRuns(v)
             /\ Len(v.req[d]) <= ClMaxQueue
<1> DEFINE v == ClAnswered(ClW, d)
           h == [clReq EXCEPT ![d] = Tail(clReq[d])]
<1>0. ClHeld(ClW) /\ ClW \in ClStates /\ ClW.req = clReq /\ ClW.rtp = clRtp
      /\ ClW.state = clState
  BY ClFields DEF ClIInv, ClGood, ClRuns, ClFirm, ClOver, ClHeld
<1>1. clReq \in ClReqs /\ clReq[d] \in Seq({"CRCX", "MDCX"})
      /\ Len(clReq[d]) <= ClMaxQueue + 1
  BY <1>0 DEF ClStates, ClReqs, ClHeld
<1>2. v = [ClW EXCEPT !.req = h]
  BY <1>0 DEF ClAnswered
<1>3. /\ Tail(clReq[d]) \in Seq({"CRCX", "MDCX"})
      /\ Len(Tail(clReq[d])) = Len(clReq[d]) - 1
  BY SMTT(30), <1>1
<1>4. h \in ClReqs /\ h[d] = Tail(clReq[d]) /\ \A e \in ClDirs : e # d
      => h[e] = clReq[e]
  BY <1>1, <1>3 DEF ClReqs
<1> HIDE DEF h, v
<1>w. ASSUME NEW w \in ClStates, v = [w EXCEPT !.req = h]
      PROVE  v \in ClStates /\ v.req = h /\ v.rtp = w.rtp /\ v.ci = w.ci
             /\ ClSame(v, w)
  BY <1>4, <1>w DEF ClStates, ClSame
<1>5. v \in ClStates /\ v.req = h /\ v.rtp = ClW.rtp /\ v.ci = ClW.ci
      /\ ClSame(v, ClW)
  BY <1>0, <1>2, <1>w
<1>6. Len(h[d]) <= ClMaxQueue /\ Len(h[d]) <= ClMaxQueue + 1
  BY SMTT(30), <1>1, <1>3, <1>4, ClAssumption
<1>7. ClHeld(v)
  <2>1. \A e \in ClDirs : Len(v.req[e]) <= ClMaxQueue + 1
    BY <1>0, <1>4, <1>5, <1>6 DEF ClHeld
  <2> QED BY ZenonT(30), <1>0, <1>5, <2>1 DEF ClHeld, ClSame
<1>8. ClRuns(ClW) <=> ClRuns(v)
  BY <1>0, <1>5, <1>7 DEF ClRuns, ClFirm, ClSame
<1>9. ClOver(ClW) => ClOver(v)
  BY <1>5, <1>7 DEF ClOver, ClSame
<1>10. ClGood(v)
  BY <1>8, <1>9 DEF ClIInv, ClGood
<1> QED BY ZenonT(60), <1>0, <1>5, <1>6, <1>8, <1>10 DEF v, ClSame

\* An answer of the MGW keeps the invariant, also one that comes when the
\* stream no longer waits for it.
LEMMA MgwStep ==
  ASSUME ClIInv, NEW d \in ClDirs
  PROVE  (ClMgwOk(d) \/ ClMgwFail(d)) => ClIInv'
<1> DEFINE v == ClAnswered(ClW, d)
           n == ClMaxQueue
<1>a. ASSUME clReq[d] # <<>>
      PROVE  /\ ClGood(v) /\ v.rtp = clRtp
             /\ clRtp[d].st = "ESTABLISHING" => ClAct(v, d, n) /\ ClRuns(v)
  <2>1. /\ ClGood(v) /\ v.rtp = clRtp /\ v.state = clState
        /\ Len(v.req[d]) <= ClMaxQueue
    BY <1>a, AnsweredKeeps
  <2> HIDE DEF v
  <2>2. clRtp[d].st = "ESTABLISHING" => ClRuns(v)
    <3>1. ClOver(v) => v.rtp[d].st = "NULL"
      BY NoRtpTyped DEF ClOver
    <3> QED BY <2>1, <3>1 DEF ClGood
  <2>3. ClRuns(v) /\ clRtp[d].st = "ESTABLISHING" => ClAct(v, d, n)
    <3>1. ClRuns(v) /\ clRtp[d].st = "ESTABLISHING"
          => v.ep /\ v.rtp[d].st # "NULL"
      BY <2>1 DEF ClRuns
    <3> QED BY <2>1, <3>1 DEF ClAct
  <2> QED BY <2>1, <2>2, <2>3
<1>0. n \in Nat /\ n <= ClMaxQueue
  BY SMTT(30), ClAssumption
<1>1. CASE ClMgwOk(d)
  <2>1. clReq[d] # <<>>
    BY <1>1 DEF ClMgwOk
  <2> DEFINE new == CASE clRtp[d].st # "ESTABLISHING" -> v
                      [] clRtp[d].st = "ESTABLISHING"
                          /\ Head(clReq[d]) = "CRCX" ->
                           ClCrcxOk(v, d)
                      [] OTHER -> ClCheckEstablished(v, d)
  <2>2. ClBecome(new)
    BY <1>1 DEF ClMgwOk
  <2>3. ClGood(new)
    <3>1. CASE clRtp[d].st # "ESTABLISHING"
      BY <1>a, <2>1, <3>1
    <3>2. CASE clRtp[d].st = "ESTABLISHING" /\ Head(clReq[d]) = "CRCX"
      <4>1. new = ClCrcxOk(v, d)
        BY <3>2
      <4>2. ClAct(v, d, n)
        BY <1>a, <2>1, <3>2
      <4> HIDE DEF v, new, n
      <4> QED BY ZenonT(60), <1>0, <4>1, <4>2, CrcxOkKeeps DEF ClGood
    <3>3. CASE clRtp[d].st = "ESTABLISHING" /\ Head(clReq[d]) # "CRCX"
      <4>1. new = ClCheckEstablished(v, d)
        BY <3>3
      <4>2. ClAct(v, d, n)
        BY <1>a, <2>1, <3>3
      <4> HIDE DEF v, new, n
      <4> QED BY <4>1, <4>2, CheckEstablishedKeeps DEF ClGood, ClAct
    <3> QED BY <3>1, <3>2, <3>3
  <2> HIDE DEF new
  <2> QED BY <2>2, <2>3, ClBecame DEF ClIInv
<1>2. CASE ClMgwFail(d)
  <2>1. clReq[d] # <<>>
    BY ZenonT(60), <1>2 DEF ClMgwFail
  <2>2. CASE clRtp[d].st # "ESTABLISHING"
    <3>1. ClBecome(v)
      BY <1>2, <2>2 DEF ClMgwFail
    <3>2. ClGood(v)
      BY ZenonT(60), <1>a, <2>1
    <3> HIDE DEF v
    <3> QED BY <3>1, <3>2, ClBecame DEF ClIInv
  <2>3. CASE clRtp[d].st = "ESTABLISHING"
    <3> DEFINE x == ClStreamGone(v, d)
    <3>1. ClBecome(ClRelease(x))
      BY <1>2, <2>3 DEF ClMgwFail
    <3>2. ClFirm(v)
      BY <1>a, <2>1, <2>3 DEF ClRuns
    <3> HIDE DEF v
    <3>3. ClHeld(x) /\ ClSame(x, v)
      BY ZenonT(60), <3>2, StreamGoneKeeps DEF ClFirm
    <3> HIDE DEF x
    <3>4. ClFirm(x)
      BY <3>2, <3>3 DEF ClFirm, ClSame
    <3>5. ClGood(ClRelease(x))
      BY <3>4, ReleaseKeeps DEF ClGood
    <3> QED BY ZenonT(60), <3>1, <3>5, ClBecame DEF ClIInv
  <2> QED BY <2>2, <2>3
<1> QED BY <1>1, <1>2

\* A deleted connection keeps the invariant, also the last one, with which
\* the endpoint goes.
LEMMA DlcxDoneStep ==
  ASSUME ClIInv, NEW d \in ClDirs, ClDlcxDone(d)
  PROVE  ClIInv'
<1> DEFINE v == [ClW EXCEPT !.ci[d] = "none"]
           g == [clCi EXCEPT ![d] = "none"]
<1>0. /\ ClHeld(ClW) /\ ClW \in ClStates /\ ClW.ci = clCi /\ clCi[d] = "dlcx"
         /\ ClW.ep = clEp
      /\ clCi \in ClCis
  BY ClFields DEF ClIInv, ClGood, ClRuns, ClFirm, ClOver, ClHeld, ClDlcxDone,
      ClStates
<1>1. v = [ClW EXCEPT !.ci = g]
  BY <1>0
<1>2. g \in ClCis /\ g[d] = "none" /\ \A e \in ClDirs : e # d => g[e] = clCi[e]
  BY <1>0 DEF ClCis
<1>b. ClBecome(IF \A e \in ClDirs : v.ci[e] = "none"
      THEN ClEndpointGoneEv(v) ELSE v)
  BY DEF ClDlcxDone
<1> HIDE DEF g, v
<1>w. ASSUME NEW w \in ClStates, v = [w EXCEPT !.ci = g]
      PROVE  v \in ClStates /\ v.ci = g /\ v.rtp = w.rtp /\ v.req = w.req
             /\ ClSame(v, w)
  BY <1>2, <1>w DEF ClStates, ClSame
<1>3. v \in ClStates /\ v.ci = g /\ v.rtp = ClW.rtp /\ v.req = ClW.req
      /\ ClSame(v, ClW)
  BY ZenonT(60), <1>0, <1>1, <1>w
<1>4. ClHeld(v)
  BY <1>0, <1>2, <1>3, ZenonT(60), SMTT(30) DEF ClHeld, ClSame
<1>5. ClGood(v)
  BY <1>3, <1>4 DEF ClIInv, ClGood, ClRuns, ClFirm, ClOver, ClSame
<1>6. v.ep
  BY <1>0, <1>3 DEF ClHeld, ClSame
<1>7. ClGood(ClEndpointGoneEv(v))
  BY <1>5, <1>6, EndpointGoneEvKeeps DEF ClGood
<1> QED BY ZenonT(60), <1>b, <1>5, <1>7, ClBecame DEF ClIInv

\* The end of the endpoint keeps the invariant.
LEMMA MgwGoneStep ==
  ASSUME ClIInv, ClMgwGone
  PROVE  ClIInv'
<1>1. ClGood(ClW) /\ ClW.ep
  BY ClFields DEF ClIInv, ClMgwGone
<1>2. ClGood(ClEndpointGoneEv(ClW))
  BY <1>1, EndpointGoneEvKeeps DEF ClGood
<1> QED BY <1>2, ClBecame DEF ClIInv, ClMgwGone

\* The timer of a stream keeps the invariant.
LEMMA StreamTimeoutStep ==
  ASSUME ClIInv, NEW d \in ClDirs, ClStreamTimeout(d)
  PROVE  ClIInv'
<1> DEFINE x == ClStreamGone(ClW, d)
<1>1. ClBecome(ClRelease(x)) /\ clRtp[d].st = "ESTABLISHING"
  BY DEF ClStreamTimeout, ClStreamExpire
<1>2. ClRuns(ClW)
  BY SMTT(30), <1>1, ClFields DEF ClIInv, ClGood, ClOver, ClNoRtp
<1>3. ClHeld(x) /\ ClSame(x, ClW)
  BY <1>2, StreamGoneKeeps DEF ClRuns, ClFirm
<1> HIDE DEF x
<1>4. ClFirm(x)
  BY <1>2, <1>3 DEF ClRuns, ClFirm, ClSame
<1>5. ClGood(ClRelease(x))
  BY <1>4, ReleaseKeeps DEF ClGood
<1> QED BY <1>1, <1>5, ClBecame DEF ClIInv

\* The timer of the leg keeps the invariant: the client is lost, and the leg
\* says so.
LEMMA LegTimeoutStep ==
  ASSUME ClIInv, ClLegTimeout
  PROVE  ClIInv'
<1> DEFINE g == [d \in ClDirs |-> "none"]
           v == [ClW EXCEPT !.state = "gone", !.lost = TRUE, !.ep = FALSE,
               !.ci = g]
<1>1. ClBecome(v) /\ clState = "RELEASING"
  BY DEF ClLegTimeout
<1>2. ClOver(ClW) /\ ClW.state = "RELEASING" /\ ClW \in ClStates
  BY <1>1, ClFields DEF ClIInv, ClGood, ClRuns, ClFirm, ClOver, ClHeld
<1>3. g \in ClCis /\ \A d \in ClDirs : g[d] = "none"
  BY DEF ClCis
<1>w. ASSUME NEW w \in ClStates,
             v = [w EXCEPT !.state = "gone", !.lost = TRUE, !.ep = FALSE,
                 !.ci = g]
      PROVE  /\ v \in ClStates /\ v.ci = g /\ v.rtp = w.rtp /\ v.req = w.req
                /\ v.state = "gone"
             /\ v.clients = w.clients /\ v.told = w.told /\ v.lost = TRUE
                 /\ ~v.ep
  <2> HIDE DEF g, v
  <2> QED BY <1>3, <1>w DEF ClStates, ClStages
<1>4. /\ v \in ClStates /\ v.ci = g /\ v.rtp = ClW.rtp /\ v.req = ClW.req
         /\ v.state = "gone"
      /\ v.clients = ClW.clients /\ v.told = ClW.told /\ v.lost = TRUE /\ ~v.ep
  BY <1>2, <1>w
<1> HIDE DEF g, v
<1>5. ClHeld(v)
  BY ZenonT(60), <1>2, <1>3, <1>4, NoRtpTyped DEF ClHeld, ClOver
<1>6. ClOver(v)
  BY <1>2, <1>4, <1>5 DEF ClOver
<1> QED BY <1>1, <1>6, ClBecame DEF ClIInv, ClGood

\* Initially the leg has nothing.
LEMMA ClInitially ==
  ASSUME ClInit
  PROVE  ClIInv
<1> DEFINE f == [d \in ClDirs |-> ClNoRtp]
           g == [d \in ClDirs |-> "none"]
           h == [d \in ClDirs |-> <<>>]
<1>1. f \in [ClDirs -> ClRtpT] /\ \A d \in ClDirs : f[d] = ClNoRtp
  BY NoRtpTyped
<1>2. g \in ClCis /\ \A d \in ClDirs : g[d] = "none"
  BY DEF ClCis
<1>3. h \in ClReqs /\ \A d \in ClDirs : h[d] = <<>>
  BY DEF ClReqs
<1>4. clRtp = f /\ clCi = g /\ clReq = h
  BY DEF ClInit
<1> HIDE DEF f, g, h
<1>5. ClW \in ClStates
  <2>1. /\ clState \in ClStages /\ clEp \in BOOLEAN /\ clDone \in BOOLEAN
           /\ clLost \in BOOLEAN
    BY DEF ClInit, ClStages
  <2>2. clTold \in Nat /\ clClients \in Int
    BY DEF ClInit
  <2> QED BY ZenonT(60), <1>1, <1>2, <1>3, <1>4, <2>1, <2>2 DEF ClW, ClStates
<1>6. \A d \in ClDirs : Len(ClW.req[d]) <= ClMaxQueue + 1
  BY SMTT(60), <1>3, <1>4, ClFields, ClAssumption
<1>7. ClHeld(ClW)
  BY ZenonT(30), <1>1, <1>2, <1>4, <1>5, <1>6, NoRtpTyped, ClFields DEF ClHeld
<1>8. ClRuns(ClW)
  BY ZenonT(30), <1>1, <1>4, <1>7, NoRtpTyped, ClFields DEF ClRuns, ClFirm, ClInit
<1>9. clUse \in BOOLEAN
  BY ClAssumption DEF ClInit
<1> QED BY <1>8, <1>9 DEF ClIInv, ClGood

\* Every step of the leg keeps the invariant.
LEMMA ClStep ==
  ASSUME ClIInv, ClNext
  PROVE  ClIInv'
BY EnsureCiStep, ParentReleaseStep, RxOsmuxCidStep, MgwStep, DlcxDoneStep,
    MgwGoneStep,
   StreamTimeoutStep, LegTimeoutStep DEF ClNext

\* A stuttering step keeps the invariant.
LEMMA ClStutters ==
  ASSUME ClIInv, UNCHANGED clVars
  PROVE  ClIInv'
<1>1. ClW' = ClW /\ clUse' = clUse
  BY DEF clVars, ClW
<1>2. ClGood(ClW)'
  BY <1>1 DEF ClIInv
<1> QED BY <1>1, <1>2 DEF ClIInv

\* What the invariant says.
LEMMA ClImplies ==
  ASSUME ClIInv
  PROVE  ClGivenBack /\ ClTypeOK
<1>1. ClHeld(ClW) /\ ClW \in ClStates
  BY DEF ClIInv, ClGood, ClRuns, ClFirm, ClOver, ClHeld
<1>2. ClW.told = (IF ClReleased(ClW) THEN 1 ELSE 0)
  BY DEF ClIInv, ClGood, ClRuns, ClFirm, ClOver, ClReleased
<1>3. ClW.clients
      = (IF ClW.ep \/ (ClW.lost /\ ClW.state = "gone") THEN 1 ELSE 0)
  BY <1>1 DEF ClIInv, ClGood, ClRuns, ClFirm, ClOver, ClStates
<1>4. ClGivenBack
  BY ZenonT(60), <1>1, <1>2, <1>3, ClFields DEF ClGivenBack, ClHeld
<1>5. \A d \in ClDirs : Len(clReq[d]) <= ClMaxQueue + 1
  BY <1>1, ClFields DEF ClHeld
<1>6. clClients \in 0..1
  BY SMTT(60), <1>3, ClFields
<1>7. ClTypeOK
  BY <1>1, <1>5, <1>6, ClFields DEF ClTypeOK, ClStates, ClStages, ClRtpT,
      ClCis, ClIInv
<1> QED BY <1>4, <1>7

\* The inductive invariant of CallLeg, for any bound on the requests in
\* flight.
THEOREM LegsKept == ClSpec => []ClIInv
<1>1. ClInit => ClIInv
  BY ClInitially
<1>2. ClIInv /\ [ClNext]_clVars => ClIInv'
  BY ZenonT(30), ClStep, ClStutters
<1> QED BY <1>1, <1>2, PTL DEF ClSpec

\* What a leg takes is given back once, whichever of a stream, the endpoint,
\* a timer and the parent ends it, in any order and however often: the parent
\* is told once, a connection at the MGW is its stream's or being deleted,
\* and the pool of MGCP clients counts the endpoints in use
\* (call_leg_release(), rtp_stream_fsm_cleanup(),
\* call_leg_mgw_endpoint_gone()).
THEOREM LegsGivenBack == ClSpec => []ClGivenBack
<1>1. ClIInv => ClGivenBack
  BY ClImplies
<1> QED BY <1>1, LegsKept, PTL

\* The variables of CallLeg keep their types; in particular an endpoint never
\* takes a second client.
THEOREM LegTypes == ClSpec => []ClTypeOK
<1>1. ClIInv => ClTypeOK
  BY ClImplies
<1> QED BY <1>1, LegsKept, PTL
=============================================================================
