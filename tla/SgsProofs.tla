----------------------------- MODULE SgsProofs ------------------------------
(***************************************************************************)
(* Proofs about the SGs side: SgsPersist, for any number of subscribers,   *)
(* MMEs and pending operations (the pending list, what a flush makes of    *)
(* the table, and that the table follows the VLR), and SgsLink, for any    *)
(* number of connections, MMEs, addresses and subscribers.                 *)
(*                                                                         *)
(* ApplyFirst is recursive over the list. RowUntouched and RowWritten say  *)
(* in closed form what it makes of one row, by an argument on the least    *)
(* position where the form would fail (LeastNat); nothing after them       *)
(* unfolds the recursion.                                                  *)
(***************************************************************************)
EXTENDS SgsPersist, SgsLink, WellFoundedInduction, TLAPS

(* The first-order prover first: most steps instantiate lemmas.            *)
USE ZenonT(10), SMTT(30)

-----------------------------------------------------------------------------
(* SgsPersist.                                                             *)

(* The part of the state the list's invariant is about.                    *)
ListInv ==
  /\ queue \in Seq(PendingOps)
  /\ UniquePending
  /\ TimerGuardsQueue

-----------------------------------------------------------------------------
(* The loop of a flush.                                                    *)

(* A nonempty set of naturals has a least element: the form of induction the*)
(* arguments over the positions of the pending list use.                   *)
LEMMA LeastNat ==
  ASSUME NEW S \in SUBSET Nat, S # {}
  PROVE  \E n \in S : \A m \in S : n <= m
<1> DEFINE R == OpToRel(<, Nat)
<1>1. IsWellFoundedOn(R, Nat)
  BY NatLessThanWellFounded
<1>2. \A x, y \in Nat : x < y => <<x, y>> \in R
  BY DEF OpToRel
<1> HIDE DEF R
<1>3. \E x \in S : \A y \in S : ~ (<<y, x>> \in R)
  BY <1>1, WFMin
<1>4. PICK n \in S : \A y \in S : ~ (<<y, n>> \in R)
  BY <1>3
<1>5. ASSUME NEW m \in S PROVE n <= m
  <2>1. m \in Nat /\ n \in Nat
    OBVIOUS
  <2>2. ~(m < n)
    BY <1>2, <1>4, <2>1
  <2> QED BY <2>1, <2>2
<1> QED BY <1>5

(* The equation the loop of sgs_persist_flush() solves: f[k] is the table  *)
(* after the first k operations.                                           *)
Flush(q, n, failed, rows, f) ==
  f = [k \in 0..n |-> IF k = 0 THEN rows
        ELSE IF k \in failed THEN f[k - 1] ELSE Apply(q[k], f[k - 1])]


(* The loop of sgs_persist_flush() has a state of the table for every      *)
(* position of the list: the recursion of ApplyFirst is well founded.      *)
LEMMA FlushExists ==
  ASSUME NEW q, NEW n \in Nat, NEW failed, NEW rows
  PROVE  \E f : Flush(q, n, failed, rows, f)
<1> DEFINE Bad == {m \in Nat : ~ \E f : Flush(q, m, failed, rows, f)}
<1> SUFFICES Bad = {}
  OBVIOUS
<1> SUFFICES ASSUME Bad # {} PROVE FALSE
  OBVIOUS
<1>1. PICK m \in Bad : \A l \in Bad : m <= l
  <2>1. Bad \in SUBSET Nat
    OBVIOUS
  <2> HIDE DEF Bad
  <2> QED BY <2>1, LeastNat
<1>2. CASE m = 0
  <2> DEFINE g == [k \in 0..0 |-> rows]
  <2>1. Flush(q, m, failed, rows, g)
    BY <1>2 DEF Flush
  <2> QED BY <1>1, <2>1
<1>3. CASE m # 0
  <2>1. m - 1 \in Nat /\ m - 1 \notin Bad
    BY <1>1, <1>3
  <2>2. PICK g : Flush(q, m - 1, failed, rows, g)
    BY <2>1
  <2> DEFINE last == IF m \in failed THEN g[m - 1] ELSE Apply(q[m], g[m - 1])
             h == [k \in 0..m |-> IF k = m THEN last ELSE g[k]]
  <2>3. h = [k \in 0..m |-> IF k = 0 THEN rows
               ELSE IF k \in failed THEN h[k - 1] ELSE Apply(q[k], h[k - 1])]
    <3>1. \A k \in 0..(m - 1) : h[k] = g[k]
      BY <2>1
    <3>2. h[m] = last /\ h[m - 1] = g[m - 1]
      BY <2>1
    <3>3. \A k \in 0..(m - 1) : g[k] = IF k = 0 THEN rows
               ELSE IF k \in failed THEN g[k - 1] ELSE Apply(q[k], g[k - 1])
      BY <2>2 DEF Flush
    <3>4. \A k \in 0..m : h[k] = IF k = 0 THEN rows
               ELSE IF k \in failed THEN h[k - 1] ELSE Apply(q[k], h[k - 1])
      <4> SUFFICES ASSUME NEW k \in 0..m
                   PROVE h[k] = IF k = 0 THEN rows
               ELSE IF k \in failed THEN h[k - 1] ELSE Apply(q[k], h[k - 1])
        OBVIOUS
      <4>0. h[m] = IF m \in failed THEN g[m - 1] ELSE Apply(q[m], g[m - 1])
        BY <3>2
      <4> HIDE DEF h, last
      <4>1. CASE k = m
        BY <1>3, <3>2, <4>0, <4>1
      <4>2. CASE k # m
        <5>1. k \in 0..(m - 1) /\ (k # 0 => k - 1 \in 0..(m - 1))
          BY <2>1, <4>2
        <5> QED BY <3>1, <3>3, <5>1
      <4> QED BY <4>1, <4>2
    <3>5. h = [k \in 0..m |-> h[k]]
      OBVIOUS
    <3> HIDE DEF h
    <3> QED BY <3>4, <3>5
  <2>4. Flush(q, m, failed, rows, h)
    BY <2>3 DEF Flush
  <2> QED BY <1>1, <2>4
<1> QED BY <1>2, <1>3

(* What ApplyFirst computes, as the run of the loop: from the table it     *)
(* starts with, one operation at a time, the failed ones skipped.          *)
LEMMA FlushRuns ==
  ASSUME NEW q, NEW n \in Nat, NEW failed, NEW rows
  PROVE  \E f : /\ ApplyFirst(q, n, failed, rows) = f[n]
                /\ f[0] = rows
                /\ \A k \in 1..n :
                     f[k] = IF k \in failed THEN f[k - 1]
                            ELSE Apply(q[k], f[k - 1])
<1> DEFINE f == CHOOSE f : Flush(q, n, failed, rows, f)
<1>1. Flush(q, n, failed, rows, f)
  BY FlushExists
<1>2. ApplyFirst(q, n, failed, rows) = f[n]
  BY DEF ApplyFirst, Flush
<1> HIDE DEF f
<1>3. f[0] = rows
  BY <1>1 DEF Flush
<1>4. \A k \in 1..n : f[k] = IF k \in failed THEN f[k - 1]
                            ELSE Apply(q[k], f[k - 1])
  BY SMTT(30), <1>1 DEF Flush
<1> QED BY <1>2, <1>3, <1>4

(* What one operation does to the row of one IMSI.                         *)
LEMMA ApplyRow ==
  ASSUME NEW p \in PendingOps, NEW rows \in Rows
  PROVE  /\ Apply(p, rows) \in Rows
         /\ \A i \in Imsis :
              Apply(p, rows)[i] =
                IF p.op = "DEL_MME"
                    THEN (IF rows[i] = p.mme THEN None ELSE rows[i])
                ELSE IF p.imsi = i THEN p.mme ELSE rows[i]
<1>1. CASE p.op = "UPSERT"
  <2>1. p.imsi \in Imsis /\ p.mme \in Mmes
    BY <1>1 DEF PendingOps
  <2>2. Apply(p, rows) = [rows EXCEPT ![p.imsi] = p.mme]
    BY <1>1 DEF Apply
  <2> QED BY <1>1, <2>1, <2>2 DEF Rows
<1>2. CASE p.op = "DEL_IMSI"
  <2>1. p.imsi \in Imsis /\ p.mme = None
    BY <1>2 DEF PendingOps
  <2>2. Apply(p, rows) = [rows EXCEPT ![p.imsi] = None]
    BY <1>2 DEF Apply
  <2> QED BY <1>2, <2>1, <2>2 DEF Rows
<1>3. CASE p.op = "DEL_MME"
  <2>2. Apply(p, rows) = DropMme(p.mme, rows)
    BY <1>3 DEF Apply
  <2> QED BY <1>3, <2>2 DEF Rows, DropMme
<1> QED BY <1>1, <1>2, <1>3 DEF PendingOps

(* Every table the loop goes through is a table.                           *)
LEMMA RowsKept ==
  ASSUME NEW q, NEW n \in Nat, NEW failed, NEW rows \in Rows, NEW f,
         \A k \in 1..n : q[k] \in PendingOps,
         f[0] = rows,
         \A k \in 1..n : f[k] = IF k \in failed THEN f[k - 1]
                                ELSE Apply(q[k], f[k - 1])
  PROVE  \A k \in 0..n : f[k] \in Rows
<1> DEFINE Bad == {m \in Nat : m <= n /\ f[m] \notin Rows}
<1> SUFFICES Bad = {}
  BY SMTT(30)
<1> SUFFICES ASSUME Bad # {} PROVE FALSE
  OBVIOUS
<1>1. PICK m \in Bad : \A l \in Bad : m <= l
  <2>1. Bad \in SUBSET Nat
    OBVIOUS
  <2> HIDE DEF Bad
  <2> QED BY <2>1, LeastNat
<1>2. m # 0 /\ m \in 1..n
  BY SMTT(30), <1>1
<1>3. m - 1 \in Nat /\ m - 1 <= n /\ m - 1 \notin Bad
  BY SMTT(30), <1>1, <1>2
<1>4. f[m - 1] \in Rows
  BY <1>3
<1>5. f[m] \in Rows
  BY ZenonT(60), <1>2, <1>4, ApplyRow
<1> QED BY <1>1, <1>5

(* A flush, whole or cut short, whatever fails in it, leaves a table.      *)
LEMMA ApplyFirstRows ==
  ASSUME NEW q \in Seq(PendingOps), NEW n \in 0..Len(q), NEW failed,
         NEW rows \in Rows
  PROVE  ApplyFirst(q, n, failed, rows) \in Rows
<1>1. n \in Nat /\ \A k \in 1..n : q[k] \in PendingOps
  OBVIOUS
<1>2. PICK f : /\ ApplyFirst(q, n, failed, rows) = f[n]
                /\ f[0] = rows
                /\ \A k \in 1..n :
                     f[k] = IF k \in failed THEN f[k - 1]
                            ELSE Apply(q[k], f[k - 1])
  BY <1>1, FlushRuns, SMTT(30)
<1>3. \A k \in 0..n : f[k] \in Rows
  BY <1>1, <1>2, RowsKept
<1> QED BY SMTT(30), <1>1, <1>2, <1>3

(* At most one entry per IMSI, of any list; UniquePending is Unique(queue).*)
Unique(q) ==
  \A j, k \in DOMAIN q :
    q[j].op # "DEL_MME" /\ q[k].op # "DEL_MME"
      /\ q[j].imsi = q[k].imsi => j = k

(* What becomes of a row with MME m that stands after position k, by       *)
(* position n: gone if the deletion of m is between them.                  *)
Survives(q, k, n, m) ==
  IF \E j \in 1..n : k < j /\ q[j] = DelMme(m) THEN None ELSE m

(* How the fate of a row grows by one position of the list.                *)
LEMMA MmeGone ==
  ASSUME NEW q \in Seq(PendingOps), NEW k \in 0..Len(q), NEW n \in 1..Len(q),
         k < n,
         NEW m \in Mmes \cup {None}
  PROVE  Survives(q, k, n, m) =
           IF q[n].op = "DEL_MME" /\ q[n].mme = Survives(q, k, n - 1, m)
           THEN None ELSE Survives(q, k, n - 1, m)
<1>1. q[n] \in PendingOps
  OBVIOUS
<1>2. q[n] = DelMme(m) <=> q[n].op = "DEL_MME" /\ q[n].mme = m
  BY SMTT(30), <1>1 DEF DelMme, PendingOps
<1>3. q[n].op = "DEL_MME" => q[n].mme # None
  BY <1>1, NoneAssumption DEF PendingOps
<1>4. (\E j \in 1..n : k < j /\ q[j] = DelMme(m))
       <=> q[n] = DelMme(m) \/ (\E j \in 1..(n-1) : k < j /\ q[j] = DelMme(m))
  <2> DEFINE D(j) == q[j] = DelMme(m)
  <2>1. D(n) <=> q[n] = DelMme(m)
    OBVIOUS
  <2> HIDE DEF D
  <2>2. (\E j \in 1..n : k < j /\ D(j))
        <=> D(n) \/ (\E j \in 1..(n-1) : k < j /\ D(j))
    OBVIOUS
  <2> QED BY <2>1, <2>2 DEF D
<1> DEFINE E1 == \E j \in 1..n : k < j /\ q[j] = DelMme(m)
           E0 == \E j \in 1..(n-1) : k < j /\ q[j] = DelMme(m)
<1>5. Survives(q, k, n, m) = (IF E1 THEN None ELSE m)
      /\ Survives(q, k, n - 1, m) = (IF E0 THEN None ELSE m)
  BY DEF Survives
<1>6. E1 <=> (q[n] = DelMme(m) \/ E0)
  BY <1>4
<1> HIDE DEF E1, E0
<1> QED BY <1>2, <1>3, <1>5, <1>6

(* f is the run of the loop over the first n operations, none failing.     *)
IsRun(q, n, rows, f) ==
  f[0] = rows /\ \A k \in 1..n : f[k] = Apply(q[k], f[k - 1])

(* The run of the loop when no operation fails.                            *)
LEMMA RunExists ==
  ASSUME NEW q \in Seq(PendingOps), NEW n \in 0..Len(q), NEW rows \in Rows
  PROVE  \E f : /\ ApplyFirst(q, n, {}, rows) = f[n]
                /\ IsRun(q, n, rows, f)
                /\ \A k \in 0..n : f[k] \in Rows
<1> DEFINE none == {}
<1>1. n \in Nat /\ (\A k \in 1..n : q[k] \in PendingOps)
      /\ \A k : k \notin none
  OBVIOUS
<1> HIDE DEF none
<1>2. PICK f : /\ ApplyFirst(q, n, none, rows) = f[n]
                /\ f[0] = rows
                /\ \A k \in 1..n :
                     f[k] = IF k \in none THEN f[k - 1]
                            ELSE Apply(q[k], f[k - 1])
  BY <1>1, FlushRuns, SMTT(30)
<1>3. \A k \in 0..n : f[k] \in Rows
  BY <1>1, <1>2, RowsKept
<1>4. IsRun(q, n, rows, f)
  BY <1>1, <1>2 DEF IsRun
<1> QED BY <1>2, <1>3, <1>4 DEF none

(* An IMSI without a pending entry of its own among the first n keeps its  *)
(* row, unless the deletion of its MME is among them.                      *)
LEMMA RowUntouched ==
  ASSUME NEW q \in Seq(PendingOps), NEW n \in 0..Len(q), NEW rows \in Rows,
         NEW i \in Imsis, \A k \in PlacesOf(q, i) : k > n
  PROVE  ApplyFirst(q, n, {}, rows)[i] = Survives(q, 0, n, rows[i])
<1>1. PICK f : /\ ApplyFirst(q, n, {}, rows) = f[n]
                /\ IsRun(q, n, rows, f)
                /\ \A k \in 0..n : f[k] \in Rows
  BY RunExists
<1> DEFINE Bad == {m \in Nat : m <= n /\ f[m][i] # Survives(q, 0, m, rows[i])}
<1> SUFFICES Bad = {}
  BY SMTT(30), <1>1
<1> SUFFICES ASSUME Bad # {} PROVE FALSE
  OBVIOUS
<1>2. PICK m \in Bad : \A l \in Bad : m <= l
  <2>1. Bad \in SUBSET Nat
    OBVIOUS
  <2> HIDE DEF Bad
  <2> QED BY <2>1, LeastNat
<1>3. m # 0
  <2>1. f[0][i] = rows[i] /\ Survives(q, 0, 0, rows[i]) = rows[i]
    BY SMTT(30), <1>1 DEF IsRun, Survives
  <2> QED BY <1>2, <2>1
<1>4. m \in 1..n /\ m - 1 \in Nat /\ m - 1 <= n /\ m - 1 \notin Bad
      /\ m - 1 \in 0..n /\ m \in 1..Len(q)
  BY SMTT(30), <1>2, <1>3
<1>5. f[m - 1][i] = Survives(q, 0, m - 1, rows[i])
  BY <1>4
<1>6. f[m] = Apply(q[m], f[m - 1]) /\ f[m - 1] \in Rows /\ q[m] \in PendingOps
  BY SMTT(30), <1>1, <1>4 DEF IsRun
<1>7. q[m].op = "DEL_MME" \/ q[m].imsi # i
  BY SMTT(30), <1>4 DEF PlacesOf
<1>8. f[m][i] = IF q[m].op = "DEL_MME" /\ f[m - 1][i] = q[m].mme
                THEN None ELSE f[m - 1][i]
  BY SMTT(30), <1>6, <1>7, ApplyRow
<1>9. rows[i] \in Mmes \cup {None}
  BY DEF Rows
<1>10. f[m][i] = Survives(q, 0, m, rows[i])
  BY SMTT(30), <1>4, <1>5, <1>8, <1>9, MmeGone
<1> QED BY <1>2, <1>10

(* An IMSI with a pending entry of its own ends with what that entry       *)
(* writes, unless the deletion of that MME stands later in the list.       *)
LEMMA RowWritten ==
  ASSUME NEW q \in Seq(PendingOps), Unique(q), NEW n \in 0..Len(q),
         NEW rows \in Rows,
         NEW i \in Imsis, NEW k \in PlacesOf(q, i), k <= n
  PROVE  ApplyFirst(q, n, {}, rows)[i] = Survives(q, k, n, q[k].mme)
<1>1. PICK f : /\ ApplyFirst(q, n, {}, rows) = f[n]
                /\ IsRun(q, n, rows, f)
                /\ \A j \in 0..n : f[j] \in Rows
  BY RunExists
<1>k. k \in 1..n /\ k \in 1..Len(q) /\ k \in 0..Len(q) /\ q[k] \in PendingOps
      /\ q[k].op # "DEL_MME" /\ q[k].imsi = i
  BY DEF PlacesOf
<1>v. q[k].mme \in Mmes \cup {None}
  BY <1>k DEF PendingOps
<1> DEFINE Bad == {m \in Nat : k <= m /\ m <= n
           /\ f[m][i] # Survives(q, k, m, q[k].mme)}
<1> SUFFICES Bad = {}
  BY SMTT(30), <1>1, <1>k
<1> SUFFICES ASSUME Bad # {} PROVE FALSE
  OBVIOUS
<1>2. PICK m \in Bad : \A l \in Bad : m <= l
  <2>1. Bad \in SUBSET Nat
    OBVIOUS
  <2> HIDE DEF Bad
  <2> QED BY <2>1, LeastNat
<1>m. m \in Nat /\ k <= m /\ m <= n /\ m \in 1..n /\ m \in 1..Len(q)
      /\ m - 1 \in 0..n
  BY SMTT(30), <1>2, <1>k
<1>6. f[m] = Apply(q[m], f[m - 1]) /\ f[m - 1] \in Rows /\ q[m] \in PendingOps
  BY SMTT(30), <1>1, <1>m DEF IsRun
<1>3. m # k
  <2> SUFFICES ASSUME m = k PROVE FALSE
    OBVIOUS
  <2>1. f[m][i] = q[k].mme
    BY SMTT(30), <1>6, <1>k, ApplyRow
  <2>2. ~ \E j \in 1..m : k < j /\ q[j] = DelMme(q[k].mme)
    BY <1>m, <1>k
  <2>3. Survives(q, k, m, q[k].mme) = q[k].mme
    BY <2>2 DEF Survives
  <2> QED BY <1>2, <2>1, <2>3
<1>4. m - 1 \in Nat /\ k <= m - 1 /\ m - 1 <= n /\ m - 1 \notin Bad /\ k < m
  BY SMTT(30), <1>2, <1>3, <1>m, <1>k
<1>5. f[m - 1][i] = Survives(q, k, m - 1, q[k].mme)
  BY <1>4
<1>7. q[m].op = "DEL_MME" \/ q[m].imsi # i
  BY <1>m, <1>k, <1>3 DEF Unique
<1>8. f[m][i] = IF q[m].op = "DEL_MME" /\ f[m - 1][i] = q[m].mme
                THEN None ELSE f[m - 1][i]
  BY SMTT(30), <1>6, <1>7, ApplyRow
<1>10. f[m][i] = Survives(q, k, m, q[k].mme)
  BY SMTT(30), <1>4, <1>5, <1>8, <1>v, <1>k, <1>m, MmeGone
<1> QED BY <1>2, <1>10

-----------------------------------------------------------------------------
(* What the operations on the list change of the outcome.                  *)

(* Coalescing changes or adds exactly one place of the list, the one place *)
(* of that IMSI, and keeps one entry per IMSI (sgs_persist_find_imsi(),    *)
(* sgs_vlr_persist_vsub(), sgs_vlr_persist_forget()).                      *)
LEMMA CoalesceShape ==
  ASSUME NEW q \in Seq(PendingOps), Unique(q), NEW p \in PendingOps,
         p.op # "DEL_MME"
  PROVE  \E k \in 1..(Len(q) + 1) :
           /\ PlacesOf(q, p.imsi) \subseteq {k}
           /\ Coalesce(q, p) \in Seq(PendingOps)
           /\ Unique(Coalesce(q, p))
           /\ Len(q) <= Len(Coalesce(q, p))
               /\ Len(Coalesce(q, p)) <= Len(q) + 1
           /\ k <= Len(Coalesce(q, p))
           /\ Coalesce(q, p)[k] = p
           /\ \A j \in 1..Len(Coalesce(q, p)) :
                j # k => j \in 1..Len(q) /\ Coalesce(q, p)[j] = q[j]
           /\ k \in 1..Len(q) => q[k].op # "DEL_MME" /\ q[k].imsi = p.imsi
<1>1. CASE PlacesOf(q, p.imsi) = {}
  <2>1. Coalesce(q, p) = Append(q, p)
    BY <1>1 DEF Coalesce
  <2>2. \A j \in 1..Len(q) : q[j].op # "DEL_MME" => q[j].imsi # p.imsi
    BY <1>1 DEF PlacesOf
  <2> DEFINE u == Append(q, p)
  <2>3. /\ u \in Seq(PendingOps) /\ Len(u) = Len(q) + 1 /\ u[Len(q) + 1] = p
        /\ \A j \in 1..Len(q) : u[j] = q[j]
    OBVIOUS
  <2>4. DOMAIN u = 1..(Len(q) + 1) /\ DOMAIN q = 1..Len(q) /\ Len(q) \in Nat
    OBVIOUS
  <2> HIDE DEF u
  <2>5. Unique(u)
    <3> SUFFICES ASSUME NEW j \in 1..(Len(q) + 1), NEW k \in 1..(Len(q) + 1),
                        u[j].op # "DEL_MME"
                            /\ u[k].op # "DEL_MME", u[j].imsi = u[k].imsi
                 PROVE j = k
      BY <2>4 DEF Unique
    <3>1. CASE j \in 1..Len(q) /\ k \in 1..Len(q)
      BY <2>3, <2>4, <3>1 DEF Unique
    <3>2. CASE j = Len(q) + 1 /\ k \in 1..Len(q)
      BY <2>2, <2>3, <3>2
    <3>3. CASE k = Len(q) + 1 /\ j \in 1..Len(q)
      BY <2>2, <2>3, <3>3
    <3>4. CASE k = Len(q) + 1 /\ j = Len(q) + 1
      BY <3>4
    <3> QED BY <2>4, <3>1, <3>2, <3>3, <3>4
  <2> DEFINE e == Len(q) + 1
  <2>6. e \in 1..(Len(q) + 1) /\ e \notin 1..Len(q)
        /\ \A j \in 1..(Len(q) + 1) : j # e => j \in 1..Len(q)
    BY <2>4
  <2>7. Coalesce(q, p) = u
    BY <2>1 DEF u
  <2>8. /\ PlacesOf(q, p.imsi) \subseteq {e} 
        /\ Len(q) <= Len(u) /\ Len(u) <= Len(q) + 1 /\ e <= Len(u) /\ u[e] = p
        /\ \A j \in 1..Len(u) : j # e => j \in 1..Len(q) /\ u[j] = q[j]
        /\ e \in 1..Len(q) => q[e].op # "DEL_MME" /\ q[e].imsi = p.imsi
    BY SMTT(30), <1>1, <2>3, <2>4, <2>6
  <2> HIDE DEF e
  <2> QED BY <2>3, <2>5, <2>6, <2>7, <2>8
<1>2. CASE PlacesOf(q, p.imsi) # {}
  <2>1. PICK k \in PlacesOf(q, p.imsi) : TRUE
    BY <1>2
  <2>2. \A j \in PlacesOf(q, p.imsi) : j = k
    BY <2>1 DEF PlacesOf, Unique
  <2>3. Coalesce(q, p) = [q EXCEPT ![k] = p]
    <3> DEFINE first == CHOOSE n \in PlacesOf(q, p.imsi) :
                          \A j \in PlacesOf(q, p.imsi) : n <= j
    <3>1. k \in 1..Len(q)
      BY <2>1 DEF PlacesOf
    <3>2. \A j \in PlacesOf(q, p.imsi) : k <= j
      BY <2>2, <3>1
    <3>3. first \in PlacesOf(q, p.imsi)
      BY <2>1, <3>2
    <3>4. first = k
      BY <2>2, <3>3
    <3> QED
      BY <1>2, <3>4 DEF Coalesce
  <2>4. k \in 1..Len(q) /\ q[k].op # "DEL_MME" /\ q[k].imsi = p.imsi
    BY <2>1 DEF PlacesOf
  <2> DEFINE u == [q EXCEPT ![k] = p]
  <2>5. /\ u \in Seq(PendingOps) /\ Len(u) = Len(q) /\ u[k] = p
        /\ \A j \in 1..Len(q) : j # k => u[j] = q[j]
    BY <2>4
  <2>6. DOMAIN u = 1..Len(q) /\ DOMAIN q = 1..Len(q) /\ Len(q) \in Nat
    BY <2>4
  <2> HIDE DEF u
  <2>7. Unique(u)
    BY SMTT(30), <2>4, <2>5, <2>6 DEF Unique
  <2>8. Coalesce(q, p) = u
    BY <2>3 DEF u
  <2>9. k \in 1..(Len(q) + 1) /\ PlacesOf(q, p.imsi) \subseteq {k}
    <3>1. k \in 1..(Len(q) + 1)
      BY <2>4, <2>6
    <3>2. PlacesOf(q, p.imsi) \subseteq {k}
      BY <2>2
    <3> QED BY <3>1, <3>2
  <2>10. /\ Len(q) <= Len(u) /\ Len(u) <= Len(q) + 1 /\ k <= Len(u)
         /\ \A j \in 1..Len(u) : j # k => j \in 1..Len(q) /\ u[j] = q[j]
    BY <2>4, <2>5, <2>6
  <2> QED BY <2>4, <2>5, <2>7, <2>8, <2>9, <2>10
<1> QED
  BY <1>1, <1>2

(* Coalescing an operation of one IMSI leaves the outcome of every other   *)
(* IMSI as it was.                                                         *)
LEMMA CoalesceOther ==
  ASSUME NEW q \in Seq(PendingOps), Unique(q), NEW p \in PendingOps,
         p.op # "DEL_MME", NEW i \in Imsis, i # p.imsi, NEW rows \in Rows
  PROVE  ApplyAll(Coalesce(q, p), {}, rows)[i] = ApplyAll(q, {}, rows)[i]
<1> DEFINE u == Coalesce(q, p)
<1>1. PICK k \in 1..(Len(q) + 1) :
           /\ PlacesOf(q, p.imsi) \subseteq {k}
           /\ u \in Seq(PendingOps)
           /\ Unique(u)
           /\ Len(q) <= Len(u) /\ Len(u) <= Len(q) + 1
           /\ k <= Len(u)
           /\ u[k] = p
           /\ \A j \in 1..Len(u) :
                j # k => j \in 1..Len(q) /\ u[j] = q[j]
           /\ k \in 1..Len(q) => q[k].op # "DEL_MME" /\ q[k].imsi = p.imsi
  BY CoalesceShape
<1> HIDE DEF u
<1>2. Len(q) \in Nat /\ Len(u) \in Nat /\ DOMAIN q = 1..Len(q)
      /\ DOMAIN u = 1..Len(u)
  BY <1>1
<1>3. PlacesOf(u, i) = PlacesOf(q, i)
  <2>1. ASSUME NEW j, j \in PlacesOf(u, i) PROVE j \in PlacesOf(q, i)
    BY <1>1, <1>2, <2>1 DEF PlacesOf
  <2>2. ASSUME NEW j, j \in PlacesOf(q, i) PROVE j \in PlacesOf(u, i)
    BY SMTT(30), <1>1, <1>2, <2>2 DEF PlacesOf
  <2> QED BY <2>1, <2>2
<1>4. ASSUME NEW a, NEW m
             PROVE Survives(u, a, Len(u), m) = Survives(q, a, Len(q), m)
  <2>1. ASSUME NEW j \in 1..Len(u), u[j] = DelMme(m)
        PROVE j \in 1..Len(q) /\ q[j] = DelMme(m)
    BY SMTT(30), <1>1, <2>1 DEF DelMme
  <2>2. ASSUME NEW j \in 1..Len(q), q[j] = DelMme(m)
        PROVE j \in 1..Len(u) /\ u[j] = DelMme(m)
    <3>1. j # k
      BY <1>1, <2>2 DEF DelMme
    <3> QED BY SMTT(30), <1>1, <1>2, <2>2, <3>1
  <2>3. (\E j \in 1..Len(u) : a < j /\ u[j] = DelMme(m))
        <=> (\E j \in 1..Len(q) : a < j /\ q[j] = DelMme(m))
    BY <2>1, <2>2
  <2> QED BY <2>3 DEF Survives
<1>5. CASE PlacesOf(q, i) = {}
  <2>1. ApplyFirst(q, Len(q), {}, rows)[i] = Survives(q, 0, Len(q), rows[i])
    BY SMTT(30), <1>2, <1>5, RowUntouched
  <2>2. ApplyFirst(u, Len(u), {}, rows)[i] = Survives(u, 0, Len(u), rows[i])
    BY SMTT(30), <1>1, <1>2, <1>3, <1>5, RowUntouched
  <2> QED BY <1>4, <2>1, <2>2 DEF ApplyAll, u
<1>6. ASSUME NEW l \in PlacesOf(q, i)
             PROVE ApplyAll(u, {}, rows)[i] = ApplyAll(q, {}, rows)[i]
  <2>1. l \in 1..Len(q) /\ l \in 1..Len(u) /\ l <= Len(q) /\ l <= Len(u)
        /\ l # k
    BY SMTT(30), <1>1, <1>2, <1>3 DEF PlacesOf
  <2>2. ApplyFirst(q, Len(q), {}, rows)[i] = Survives(q, l, Len(q), q[l].mme)
    BY SMTT(30), <1>2, <2>1, RowWritten
  <2>3. ApplyFirst(u, Len(u), {}, rows)[i] = Survives(u, l, Len(u), u[l].mme)
    BY SMTT(30), <1>1, <1>2, <1>3, <2>1, RowWritten
  <2>4. u[l] = q[l]
    BY <1>1, <2>1
  <2> QED BY <1>4, <2>2, <2>3, <2>4 DEF ApplyAll
<1> QED BY <1>5, <1>6 DEF u

(* After coalescing, the outcome of the IMSI is the operation's row, unless*)
(* its place stands before the deletion of that MME.                       *)
LEMMA CoalesceOwn ==
  ASSUME NEW q \in Seq(PendingOps), Unique(q), NEW p \in PendingOps,
         p.op # "DEL_MME", NEW rows \in Rows
  PROVE  ApplyAll(Coalesce(q, p), {}, rows)[p.imsi] =
           IF StandsBeforeReset(Coalesce(q, p), p.imsi, p.mme)
               THEN None ELSE p.mme
<1> DEFINE u == Coalesce(q, p)
<1>1. PICK k \in 1..(Len(q) + 1) :
           /\ u \in Seq(PendingOps)
           /\ Unique(u)
           /\ k <= Len(u)
           /\ u[k] = p
  BY CoalesceShape
<1> HIDE DEF u
<1>0. p.imsi \in Imsis
  BY DEF PendingOps
<1>2. Len(q) \in Nat /\ Len(u) \in Nat /\ DOMAIN u = 1..Len(u)
  BY <1>1
<1>3. k \in PlacesOf(u, p.imsi) /\ \A j \in PlacesOf(u, p.imsi) : j = k
  BY SMTT(30), <1>1, <1>2 DEF PlacesOf, Unique
<1>4. ApplyFirst(u, Len(u), {}, rows)[p.imsi]
      = Survives(u, k, Len(u), u[k].mme)
  BY SMTT(30), <1>0, <1>1, <1>2, <1>3, RowWritten
<1>5. StandsBeforeReset(u, p.imsi, p.mme)
      <=> \E j \in 1..Len(u) : k < j /\ u[j] = DelMme(p.mme)
  BY <1>2, <1>3 DEF StandsBeforeReset
<1> QED BY <1>1, <1>4, <1>5 DEF Survives, ApplyAll, u

(* Appending the deletion of an MME (sgs_vlr_persist_forget_mme()) removes *)
(* the outcomes with that MME and no other.                                *)
LEMMA AppendReset ==
  ASSUME NEW q \in Seq(PendingOps), Unique(q), NEW m \in Mmes,
         NEW rows \in Rows, NEW i \in Imsis
  PROVE  ApplyAll(Append(q, DelMme(m)), {}, rows)[i] =
           IF ApplyAll(q, {}, rows)[i] = m
               THEN None ELSE ApplyAll(q, {}, rows)[i]
<1> DEFINE u == Append(q, DelMme(m))
<1>0. DelMme(m) \in PendingOps /\ DelMme(m).op = "DEL_MME" /\ DelMme(m).mme = m
  BY DEF DelMme, PendingOps
<1>1. /\ u \in Seq(PendingOps) /\ Len(u) = Len(q) + 1 /\ u[Len(u)] = DelMme(m)
      /\ \A j \in 1..Len(q) : u[j] = q[j]
      /\ Len(q) \in Nat /\ DOMAIN q = 1..Len(q) /\ DOMAIN u = 1..Len(u)
  BY <1>0
<1> HIDE DEF u
<1>2. Unique(u) /\ PlacesOf(u, i) = PlacesOf(q, i)
  <2>1. ASSUME NEW j \in 1..Len(u), u[j].op # "DEL_MME"
               PROVE j \in 1..Len(q) /\ u[j] = q[j]
    BY <1>0, <1>1, <2>1
  <2>2. Unique(u)
    BY ZenonT(60), <1>1, <2>1 DEF Unique
  <2>3. ASSUME NEW j, j \in PlacesOf(u, i) PROVE j \in PlacesOf(q, i)
    BY <1>1, <2>1, <2>3 DEF PlacesOf
  <2>4. ASSUME NEW j, j \in PlacesOf(q, i) PROVE j \in PlacesOf(u, i)
    BY SMTT(30), <1>1, <2>4 DEF PlacesOf
  <2> QED BY <2>2, <2>3, <2>4
<1>3. ASSUME NEW a \in 0..Len(q), NEW v \in Mmes \cup {None}
      PROVE Survives(u, a, Len(u), v) =
              IF Survives(q, a, Len(q), v) = m
                  THEN None ELSE Survives(q, a, Len(q), v)
  <2>1. Survives(u, a, Len(q), v) = Survives(q, a, Len(q), v)
    <3>1. (\E j \in 1..Len(q) : a < j /\ u[j] = DelMme(v))
          <=> (\E j \in 1..Len(q) : a < j /\ q[j] = DelMme(v))
      BY <1>1
    <3> QED BY <3>1 DEF Survives
  <2>2. a \in 0..Len(u) /\ Len(u) \in 1..Len(u) /\ a < Len(u)
        /\ Len(u) - 1 = Len(q)
    BY <1>1
  <2>3. Survives(u, a, Len(u), v) =
           IF u[Len(u)].op = "DEL_MME"
               /\ u[Len(u)].mme = Survives(u, a, Len(u) - 1, v)
           THEN None ELSE Survives(u, a, Len(u) - 1, v)
    BY <1>1, <2>2, MmeGone
  <2> QED BY <1>0, <1>1, <2>1, <2>2, <2>3
<1>5. CASE PlacesOf(q, i) = {}
  <2>0. rows[i] \in Mmes \cup {None}
    BY DEF Rows
  <2>1. ApplyFirst(q, Len(q), {}, rows)[i] = Survives(q, 0, Len(q), rows[i])
    BY SMTT(30), <1>1, <1>5, RowUntouched
  <2>2. ApplyFirst(u, Len(u), {}, rows)[i] = Survives(u, 0, Len(u), rows[i])
    BY SMTT(30), <1>1, <1>2, <1>5, RowUntouched
  <2>3. 0 \in 0..Len(q)
    BY SMTT(30), <1>1
  <2> QED BY <1>3, <2>0, <2>1, <2>2, <2>3 DEF ApplyAll, u
<1>6. ASSUME NEW l \in PlacesOf(q, i)
      PROVE ApplyAll(u, {}, rows)[i] = 
              IF ApplyAll(q, {}, rows)[i] = m
                  THEN None ELSE ApplyAll(q, {}, rows)[i]
  <2>1. l \in 1..Len(q) /\ l \in 0..Len(q) /\ l <= Len(q) /\ l <= Len(u)
    BY <1>1 DEF PlacesOf
  <2>0. q[l].mme \in Mmes \cup {None}
    BY <2>1 DEF PendingOps
  <2>2. ApplyFirst(q, Len(q), {}, rows)[i] = Survives(q, l, Len(q), q[l].mme)
    BY SMTT(30), <1>1, <2>1, RowWritten
  <2>3. ApplyFirst(u, Len(u), {}, rows)[i] = Survives(u, l, Len(u), u[l].mme)
    BY SMTT(30), <1>1, <1>2, <2>1, RowWritten
  <2>4. u[l] = q[l]
    BY <1>1, <2>1
  <2> QED BY <1>3, <2>0, <2>1, <2>2, <2>3, <2>4 DEF ApplyAll
<1> QED BY <1>5, <1>6 DEF u

(* With nothing pending a flush leaves the table as it is.                 *)
LEMMA NothingPending ==
  ASSUME NEW rows \in Rows, NEW failed
  PROVE  ApplyAll(<<>>, failed, rows) = rows
<1>1. PICK f : ApplyFirst(<<>>, 0, failed, rows) = f[0] /\ f[0] = rows
  BY SMTT(30), FlushRuns
<1> QED BY <1>1 DEF ApplyAll

(* Coalescing a row operation keeps the list well formed, with one entry   *)
(* per IMSI.                                                               *)
LEMMA CoalesceUnique ==
  ASSUME NEW q \in Seq(PendingOps), NEW p \in PendingOps,
         p.op # "DEL_MME", Unique(q)
  PROVE  Coalesce(q, p) \in Seq(PendingOps) /\ Unique(Coalesce(q, p))
BY CoalesceShape

(* Every step of the persistence code keeps the list's invariant.          *)
LEMMA ListInvStep == ListInv /\ [Next]_vars => ListInv'
<1> SUFFICES ASSUME ListInv, [Next]_vars PROVE ListInv'
  OBVIOUS
<1> USE DEF ListInv
<1>1. ASSUME NEW i \in Imsis, NEW m \in Mmes, NEW ok \in BOOLEAN,
             PersistVsub(i, m, ok)
      PROVE ListInv'
  <2>1. Upsert(i, m) \in PendingOps /\ Upsert(i, m).op # "DEL_MME"
    BY DEF Upsert, PendingOps
  <2>2. CASE queue' = Coalesce(queue, Upsert(i, m)) /\ timer'
               /\ persist /\ batched /\ UNCHANGED <<persist, batched>>
    <3>1. queue' \in Seq(PendingOps) /\ UniquePending'
      BY <2>1, <2>2, CoalesceUnique DEF UniquePending, Unique
    <3> QED
      BY <2>2, <3>1 DEF TimerGuardsQueue
  <2>3. CASE UNCHANGED <<queue, timer, persist, batched>>
    BY <2>3 DEF UniquePending, TimerGuardsQueue
  <2> QED
    BY <1>1, <2>2, <2>3 DEF PersistVsub, Enqueue
<1>2. ASSUME NEW i \in Imsis, NEW ok \in BOOLEAN, PersistForget(i, ok)
      PROVE ListInv'
  <2>1. DelImsi(i) \in PendingOps /\ DelImsi(i).op # "DEL_MME"
    BY DEF DelImsi, PendingOps
  <2>2. CASE queue' = Coalesce(queue, DelImsi(i)) /\ timer'
               /\ persist /\ batched /\ UNCHANGED <<persist, batched>>
    <3>1. queue' \in Seq(PendingOps) /\ UniquePending'
      BY <2>1, <2>2, CoalesceUnique DEF UniquePending, Unique
    <3> QED
      BY <2>2, <3>1 DEF TimerGuardsQueue
  <2>3. CASE UNCHANGED <<queue, timer, persist, batched>>
    BY <2>3 DEF UniquePending, TimerGuardsQueue
  <2> QED
    BY <1>2, <2>2, <2>3 DEF PersistForget, Enqueue
<1>3. ASSUME NEW m \in Mmes, NEW ok \in BOOLEAN, PersistForgetMme(m, ok)
      PROVE ListInv'
  <2>1. DelMme(m) \in PendingOps /\ DelMme(m).op = "DEL_MME"
    BY DEF DelMme, PendingOps
  <2>2. CASE queue' = Append(queue, DelMme(m)) /\ timer'
               /\ persist /\ batched /\ UNCHANGED <<persist, batched>>
    <3>1. queue' \in Seq(PendingOps) /\ UniquePending'
      BY SMTT(30), <2>1, <2>2 DEF UniquePending
    <3> QED
      BY <2>2, <3>1 DEF TimerGuardsQueue
  <2>3. CASE UNCHANGED <<queue, timer, persist, batched>>
    BY <2>3 DEF UniquePending, TimerGuardsQueue
  <2> QED
    BY <1>3, <2>2, <2>3 DEF PersistForgetMme, Enqueue
<1>4. ASSUME queue' = <<>> PROVE ListInv'
  BY SMTT(30), <1>4 DEF UniquePending, TimerGuardsQueue
<1>5. ASSUME NEW failed, NEW committed, PersistFlush(failed, committed)
      PROVE ListInv'
  BY <1>4, <1>5 DEF PersistFlush, FlushQueue
<1>6. CASE VtyNoPersist
  BY <1>4, <1>6 DEF VtyNoPersist
<1>7. CASE VtyPersist
  BY <1>7 DEF VtyPersist, UniquePending, TimerGuardsQueue
<1>8. ASSUME NEW on \in BOOLEAN, NEW failed, NEW committed,
             VtyPersistBatch(on, failed, committed)
      PROVE ListInv'
  <2>1. CASE persist /\ queue # <<>> /\ ~on
    BY <1>4, <1>8, <2>1 DEF VtyPersistBatch, FlushQueue
  <2>2. CASE ~(persist /\ queue # <<>> /\ ~on)
    <3>1. UNCHANGED <<queue, timer, persist>> /\ batched' = on
      BY <1>8, <2>2 DEF VtyPersistBatch
    <3> QED
      BY <2>2, <3>1 DEF UniquePending, TimerGuardsQueue
  <2> QED
    BY <2>1, <2>2
<1>9. ASSUME NEW n, NEW expired, NEW on, CrashRestart(n, expired, on)
      PROVE ListInv'
  BY <1>4, <1>9 DEF CrashRestart
<1>10. CASE UNCHANGED vars
  BY <1>10 DEF vars, UniquePending, TimerGuardsQueue
<1> QED
  BY <1>1, <1>2, <1>3, <1>5, <1>6, <1>7, <1>8, <1>9, <1>10 DEF Next

-----------------------------------------------------------------------------
(* The table follows the VLR.                                              *)

(* The table q leads rows to follows the associations a, for the IMSIs not *)
(* in d: it has the association or nothing, and exactly the association for*)
(* those not in o.                                                         *)
Follows(q, rows, a, d, o) ==
  \A i \in Imsis \ d :
    /\ ApplyAll(q, {}, rows)[i] \in {a[i], None}
    /\ i \notin o => ApplyAll(q, {}, rows)[i] = a[i]

(* The inductive invariant of NeverResurrects and FlushConverges, together *)
(* with ListInv.                                                           *)
TableInv ==
  /\ assoc \in Rows /\ db \in Rows
  /\ Follows(queue, db, assoc, dirty, overtaken)

(* An LU accept keeps the table following the VLR (sgs_vlr_persist_vsub()).*)
LEMMA VsubFollows ==
  ASSUME ListInv, TableInv, NEW i \in Imsis, NEW m \in Mmes,
         NEW ok \in BOOLEAN,
         PersistVsub(i, m, ok)
  PROVE  TableInv'
<1>0. Unique(queue) /\ queue \in Seq(PendingOps)
  BY DEF ListInv, UniquePending, Unique
<1>1. assoc' = [assoc EXCEPT ![i] = m] /\ assoc \in Rows /\ db \in Rows
  BY DEF PersistVsub, TableInv
<1>2. assoc' \in Rows /\ assoc'[i] = m /\ \A j \in Imsis : j # i
      => assoc'[j] = assoc[j]
  BY <1>1 DEF Rows
<1>3. \A j \in Imsis \ dirty :
        /\ ApplyAll(queue, {}, db)[j] \in {assoc[j], None}
        /\ j \notin overtaken => ApplyAll(queue, {}, db)[j] = assoc[j]
  BY DEF TableInv, Follows
<1>4. CASE dirty' = dirty \cup {i} /\ UNCHANGED <<db, queue>>
           /\ overtaken' \in {overtaken, overtaken \ {i}}
  <2>1. ASSUME NEW j \in Imsis \ dirty'
        PROVE  /\ ApplyAll(queue', {}, db')[j] \in {assoc'[j], None}
               /\ j \notin overtaken'
                   => ApplyAll(queue', {}, db')[j] = assoc'[j]
    <3>1. j \in Imsis \ dirty /\ j # i
      BY <1>4, <2>1
    <3>2. queue' = queue /\ db' = db /\ assoc'[j] = assoc[j]
          /\ (j \notin overtaken' => j \notin overtaken)
      BY <1>2, <1>4, <3>1
    <3> QED BY <1>3, <3>1, <3>2
  <2> QED BY <1>1, <1>2, <1>4, <2>1 DEF TableInv, Follows
<1>5. CASE /\ persist /\ ~batched /\ ok
           /\ db' = [db EXCEPT ![i] = m] /\ dirty' = dirty \ {i}
           /\ overtaken' = overtaken \ {i} /\ queue' = queue
  <2>1. queue = <<>>
    BY <1>5 DEF ListInv, TimerGuardsQueue
  <2>2. db' \in Rows /\ db'[i] = m /\ \A j \in Imsis : j # i => db'[j] = db[j]
    BY <1>1, <1>5 DEF Rows
  <2>3. ApplyAll(queue, {}, db) = db /\ ApplyAll(queue', {}, db') = db'
    BY <1>1, <1>5, <2>1, <2>2, NothingPending
  <2>4. ASSUME NEW j \in Imsis \ dirty'
        PROVE  /\ ApplyAll(queue', {}, db')[j] \in {assoc'[j], None}
               /\ j \notin overtaken'
                   => ApplyAll(queue', {}, db')[j] = assoc'[j]
    <3>1. CASE j = i
      BY <1>2, <2>2, <2>3, <3>1
    <3>2. CASE j # i
      <4>1. j \in Imsis \ dirty /\ (j \notin overtaken' => j \notin overtaken)
        BY <1>5, <3>2
      <4>2. assoc'[j] = assoc[j] /\ db'[j] = db[j]
        BY <1>2, <2>2, <3>2
      <4>3. db[j] \in {assoc[j], None} /\ (j \notin overtaken => db[j] = assoc[j])
        BY <1>3, <2>3, <4>1
      <4> QED BY <2>3, <4>1, <4>2, <4>3
    <3> QED BY <3>1, <3>2
  <2> QED BY <1>2, <2>2, <2>4 DEF TableInv, Follows
<1>6. CASE /\ queue' = Coalesce(queue, Upsert(i, m)) /\ db' = db
              /\ dirty' = dirty \ {i}
           /\ overtaken' = IF StandsBeforeReset(queue', i, m)
                        THEN overtaken \cup {i} ELSE overtaken \ {i}
  <2> DEFINE p == Upsert(i, m)
  <2>1. p \in PendingOps /\ p.op # "DEL_MME" /\ p.imsi = i /\ p.mme = m
    BY DEF Upsert, PendingOps
  <2> HIDE DEF p
  <2>2. queue' = Coalesce(queue, p)
    BY <1>6 DEF p
  <2>3. ApplyAll(queue', {}, db)[i] = IF StandsBeforeReset(queue', i, m)
        THEN None ELSE m
    BY <1>0, <1>1, <2>1, <2>2, CoalesceOwn
  <2>4. \A j \in Imsis : j # i
        => ApplyAll(queue', {}, db)[j] = ApplyAll(queue, {}, db)[j]
    BY <1>0, <1>1, <2>1, <2>2, CoalesceOther
  <2>5. ASSUME NEW j \in Imsis \ dirty'
        PROVE  /\ ApplyAll(queue', {}, db)[j] \in {assoc'[j], None}
               /\ j \notin overtaken'
                   => ApplyAll(queue', {}, db)[j] = assoc'[j]
    <3>1. CASE j = i
      BY <1>2, <1>6, <2>3, <3>1
    <3>2. CASE j # i
      <4>1. j \in Imsis \ dirty /\ (j \notin overtaken' => j \notin overtaken)
        BY <1>6, <3>2
      <4> QED BY <1>2, <1>3, <2>4, <3>2, <4>1
    <3> QED BY <3>1, <3>2
  <2> QED BY <1>1, <1>2, <1>6, <2>5 DEF TableInv, Follows
<1> QED
  BY <1>4, <1>5, <1>6 DEF PersistVsub, Enqueue

(* So does forgetting one IMSI (sgs_vlr_persist_forget()).                 *)
LEMMA ForgetFollows ==
  ASSUME ListInv, TableInv, NEW i \in Imsis, NEW ok \in BOOLEAN,
         PersistForget(i, ok)
  PROVE  TableInv'
<1>0. Unique(queue) /\ queue \in Seq(PendingOps)
  BY DEF ListInv, UniquePending, Unique
<1>1. assoc' = [assoc EXCEPT ![i] = None] /\ assoc \in Rows /\ db \in Rows
  BY DEF PersistForget, TableInv
<1>2. assoc' \in Rows /\ assoc'[i] = None /\ \A j \in Imsis : j # i
      => assoc'[j] = assoc[j]
  BY <1>1 DEF Rows
<1>3. \A j \in Imsis \ dirty :
        /\ ApplyAll(queue, {}, db)[j] \in {assoc[j], None}
        /\ j \notin overtaken => ApplyAll(queue, {}, db)[j] = assoc[j]
  BY DEF TableInv, Follows
<1>4. CASE dirty' = dirty \cup {i} /\ UNCHANGED <<db, queue>>
           /\ overtaken' \in {overtaken, overtaken \ {i}}
  <2>1. ASSUME NEW j \in Imsis \ dirty'
        PROVE  /\ ApplyAll(queue', {}, db')[j] \in {assoc'[j], None}
               /\ j \notin overtaken'
                   => ApplyAll(queue', {}, db')[j] = assoc'[j]
    <3>1. j \in Imsis \ dirty /\ j # i
      BY <1>4, <2>1
    <3>2. queue' = queue /\ db' = db /\ assoc'[j] = assoc[j]
          /\ (j \notin overtaken' => j \notin overtaken)
      BY <1>2, <1>4, <3>1
    <3> QED BY <1>3, <3>1, <3>2
  <2> QED BY <1>1, <1>2, <1>4, <2>1 DEF TableInv, Follows
<1>5. CASE /\ persist /\ ~batched /\ ok
           /\ db' = [db EXCEPT ![i] = None] /\ dirty' = dirty \ {i}
           /\ overtaken' = overtaken \ {i} /\ queue' = queue
  <2>1. queue = <<>>
    BY <1>5 DEF ListInv, TimerGuardsQueue
  <2>2. db' \in Rows /\ db'[i] = None /\ \A j \in Imsis : j # i
        => db'[j] = db[j]
    BY <1>1, <1>5 DEF Rows
  <2>3. ApplyAll(queue, {}, db) = db /\ ApplyAll(queue', {}, db') = db'
    BY <1>1, <1>5, <2>1, <2>2, NothingPending
  <2>4. ASSUME NEW j \in Imsis \ dirty'
        PROVE  /\ ApplyAll(queue', {}, db')[j] \in {assoc'[j], None}
               /\ j \notin overtaken'
                   => ApplyAll(queue', {}, db')[j] = assoc'[j]
    <3>1. CASE j = i
      BY <1>2, <2>2, <2>3, <3>1
    <3>2. CASE j # i
      <4>1. j \in Imsis \ dirty /\ (j \notin overtaken' => j \notin overtaken)
        BY <1>5, <3>2
      <4>2. assoc'[j] = assoc[j] /\ db'[j] = db[j]
        BY <1>2, <2>2, <3>2
      <4>3. db[j] \in {assoc[j], None} /\ (j \notin overtaken => db[j] = assoc[j])
        BY <1>3, <2>3, <4>1
      <4> QED BY <2>3, <4>1, <4>2, <4>3
    <3> QED BY <3>1, <3>2
  <2> QED BY <1>2, <2>2, <2>4 DEF TableInv, Follows
<1>6. CASE /\ queue' = Coalesce(queue, DelImsi(i)) /\ db' = db
              /\ dirty' = dirty \ {i}
           /\ overtaken' = overtaken \ {i}
  <2> DEFINE p == DelImsi(i)
  <2>1. p \in PendingOps /\ p.op # "DEL_MME" /\ p.imsi = i /\ p.mme = None
    BY DEF DelImsi, PendingOps
  <2> HIDE DEF p
  <2>2. queue' = Coalesce(queue, p)
    BY <1>6 DEF p
  <2>3. ApplyAll(queue', {}, db)[i] = None
    BY <1>0, <1>1, <2>1, <2>2, CoalesceOwn
  <2>4. \A j \in Imsis : j # i
        => ApplyAll(queue', {}, db)[j] = ApplyAll(queue, {}, db)[j]
    BY <1>0, <1>1, <2>1, <2>2, CoalesceOther
  <2>5. ASSUME NEW j \in Imsis \ dirty'
        PROVE  /\ ApplyAll(queue', {}, db)[j] \in {assoc'[j], None}
               /\ j \notin overtaken'
                   => ApplyAll(queue', {}, db)[j] = assoc'[j]
    <3>1. CASE j = i
      BY <1>2, <1>6, <2>3, <3>1
    <3>2. CASE j # i
      <4>1. j \in Imsis \ dirty /\ (j \notin overtaken' => j \notin overtaken)
        BY <1>6, <3>2
      <4> QED BY <1>2, <1>3, <2>4, <3>2, <4>1
    <3> QED BY <3>1, <3>2
  <2> QED BY <1>1, <1>2, <1>6, <2>5 DEF TableInv, Follows
<1> QED
  BY <1>4, <1>5, <1>6 DEF PersistForget, Enqueue

(* So does forgetting an MME (sgs_vlr_persist_forget_mme()): an IMSI it    *)
(* serves whose upsert was overtaken is in step again.                     *)
LEMMA ForgetMmeFollows ==
  ASSUME ListInv, TableInv, NEW m \in Mmes, NEW ok \in BOOLEAN,
         PersistForgetMme(m, ok)
  PROVE  TableInv'
<1>0. Unique(queue) /\ queue \in Seq(PendingOps)
  BY DEF ListInv, UniquePending, Unique
<1> DEFINE served == {i \in Imsis : assoc[i] = m}
<1>1. assoc' = DropMme(m, assoc) /\ assoc \in Rows /\ db \in Rows
  BY DEF PersistForgetMme, TableInv
<1>2. assoc' \in Rows
      /\ \A j \in Imsis : assoc'[j] = IF assoc[j] = m THEN None ELSE assoc[j]
  BY <1>1 DEF Rows, DropMme
<1>3. \A j \in Imsis \ dirty :
        /\ ApplyAll(queue, {}, db)[j] \in {assoc[j], None}
        /\ j \notin overtaken => ApplyAll(queue, {}, db)[j] = assoc[j]
  BY DEF TableInv, Follows
<1>m. m # None
  BY NoneAssumption
<1>4. CASE ~persist /\ dirty' = dirty \cup served
           /\ UNCHANGED <<db, queue, overtaken>>
  <2>1. ASSUME NEW j \in Imsis \ dirty'
        PROVE  /\ ApplyAll(queue', {}, db')[j] \in {assoc'[j], None}
               /\ j \notin overtaken'
                   => ApplyAll(queue', {}, db')[j] = assoc'[j]
    <3>1. j \in Imsis \ dirty /\ assoc[j] # m
      BY <1>4, <2>1
    <3>2. queue' = queue /\ db' = db /\ assoc'[j] = assoc[j]
          /\ overtaken' = overtaken
      BY <1>2, <1>4, <3>1
    <3> QED BY <1>3, <3>1, <3>2
  <2> QED BY <1>1, <1>2, <1>4, <2>1 DEF TableInv, Follows
<1>5. CASE /\ persist /\ ~batched
           /\ db' = (IF ok THEN DropMme(m, db) ELSE db)
           /\ dirty' = (IF ok
               THEN dirty ELSE dirty \cup {i \in Imsis : db[i] = m})
           /\ overtaken' = overtaken \ served /\ queue' = queue
  <2>1. queue = <<>>
    BY <1>5 DEF ListInv, TimerGuardsQueue
  <2>2. db' \in Rows /\ \A j \in Imsis : db'[j] = IF ok
        /\ db[j] = m THEN None ELSE db[j]
    BY <1>1, <1>5 DEF Rows, DropMme
  <2>3. ApplyAll(queue, {}, db) = db /\ ApplyAll(queue', {}, db') = db'
    BY <1>1, <1>5, <2>1, <2>2, NothingPending
  <2>4. ASSUME NEW j \in Imsis \ dirty'
        PROVE  /\ ApplyAll(queue', {}, db')[j] \in {assoc'[j], None}
               /\ j \notin overtaken'
                   => ApplyAll(queue', {}, db')[j] = assoc'[j]
    <3>1. j \in Imsis \ dirty /\ (ok \/ db[j] # m)
      BY <1>5, <2>4
    <3>2. j \notin overtaken' => j \notin overtaken \/ assoc[j] = m
      BY <1>5
    <3>3. db[j] \in {assoc[j], None}
          /\ (j \notin overtaken => db[j] = assoc[j])
      BY <1>3, <2>3, <3>1
    <3> QED BY <1>2, <1>m, <2>2, <2>3, <3>1, <3>2, <3>3
  <2> QED BY <1>2, <2>2, <2>4 DEF TableInv, Follows
<1>6. CASE /\ queue' = Append(queue, DelMme(m)) /\ db' = db /\ dirty' = dirty
           /\ overtaken' = overtaken \ served
  <2>2. \A j \in Imsis : ApplyAll(queue', {}, db)[j] =
           IF ApplyAll(queue, {}, db)[j] = m
               THEN None ELSE ApplyAll(queue, {}, db)[j]
    BY SMTT(30), <1>0, <1>1, <1>6, AppendReset
  <2>4. ASSUME NEW j \in Imsis \ dirty'
        PROVE  /\ ApplyAll(queue', {}, db)[j] \in {assoc'[j], None}
               /\ j \notin overtaken'
                   => ApplyAll(queue', {}, db)[j] = assoc'[j]
    <3>1. j \in Imsis \ dirty
      BY <1>6, <2>4
    <3>2. j \notin overtaken' => j \notin overtaken \/ assoc[j] = m
      BY <1>6
    <3> QED BY <1>2, <1>3, <1>m, <2>2, <3>1, <3>2
  <2> QED BY <1>1, <1>2, <1>6, <2>4 DEF TableInv, Follows
<1> QED
  BY <1>4, <1>5, <1>6 DEF PersistForgetMme, Enqueue

(* So does a flush, whichever writes fail and whether it commits or not    *)
(* (sgs_persist_flush()).                                                  *)
LEMMA FlushFollows ==
  ASSUME ListInv, TableInv, NEW failed, NEW committed \in BOOLEAN,
         FlushQueue(failed, committed), UNCHANGED <<assoc, overtaken>>
  PROVE  TableInv'
<1> DEFINE done == IF committed THEN ApplyAll(queue, failed, db) ELSE db
           goal == ApplyAll(queue, {}, db)
<1>1. /\ db' = done /\ queue' = <<>> /\ assoc' = assoc
         /\ overtaken' = overtaken
      /\ dirty' = dirty \cup {i \in Imsis : done[i] # goal[i]}
      /\ assoc \in Rows /\ db \in Rows /\ queue \in Seq(PendingOps)
  BY DEF FlushQueue, TableInv, ListInv
<1>2. done \in Rows
  <2>1. Len(queue) \in 0..Len(queue)
    BY <1>1
  <2>2. ApplyFirst(queue, Len(queue), failed, db) \in Rows
    BY <1>1, <2>1, ApplyFirstRows
  <2> QED BY <1>1, <2>2 DEF ApplyAll
<1>3. \A j \in Imsis \ dirty :
        /\ goal[j] \in {assoc[j], None}
        /\ j \notin overtaken => goal[j] = assoc[j]
  BY DEF TableInv, Follows
<1> HIDE DEF done, goal
<1>4. ApplyAll(queue', {}, db') = done
  BY <1>1, <1>2, NothingPending
<1>5. ASSUME NEW j \in Imsis \ dirty'
      PROVE  /\ ApplyAll(queue', {}, db')[j] \in {assoc'[j], None}
             /\ j \notin overtaken' => ApplyAll(queue', {}, db')[j] = assoc'[j]
  BY <1>1, <1>3, <1>4
<1> QED BY <1>1, <1>2, <1>5 DEF TableInv, Follows

(* So does switching persistence off with operations pending.              *)
LEMMA VtyNoPersistFollows ==
  ASSUME ListInv, TableInv, VtyNoPersist
  PROVE  TableInv'
<1> DEFINE goal == ApplyAll(queue, {}, db)
<1>1. /\ db' = db /\ queue' = <<>> /\ assoc' = assoc /\ overtaken' = overtaken
      /\ dirty' = dirty \cup {i \in Imsis : goal[i] # db[i]}
      /\ assoc \in Rows /\ db \in Rows
  BY DEF VtyNoPersist, TableInv, ListInv
<1>3. \A j \in Imsis \ dirty :
        /\ goal[j] \in {assoc[j], None}
        /\ j \notin overtaken => goal[j] = assoc[j]
  BY DEF TableInv, Follows
<1> HIDE DEF goal
<1>4. ApplyAll(queue', {}, db') = db
  BY <1>1, NothingPending
<1>5. ASSUME NEW j \in Imsis \ dirty'
      PROVE  /\ ApplyAll(queue', {}, db')[j] \in {assoc'[j], None}
             /\ j \notin overtaken' => ApplyAll(queue', {}, db')[j] = assoc'[j]
  BY <1>1, <1>3, <1>4
<1> QED BY <1>1, <1>5 DEF TableInv, Follows

(* So does a crash at any point of a flush, and the restart after it       *)
(* (sgs_iface_restore_assocs()).                                           *)
LEMMA RestartFollows ==
  ASSUME ListInv, TableInv, NEW n \in 0..Len(queue),
         NEW expired \in SUBSET Imsis,
         NEW on \in BOOLEAN, CrashRestart(n, expired, on)
  PROVE  TableInv'
<1> DEFINE found == ApplyFirst(queue, n, {}, db)
           kept == [i \in Imsis |-> IF i \in expired THEN None ELSE found[i]]
           gone == [i \in Imsis |-> None]
<1>1. /\ db' = (IF on THEN kept ELSE found)
      /\ assoc' = (IF on THEN kept ELSE gone)
      /\ queue' = <<>>
      /\ dirty' = (IF on THEN {} ELSE {i \in Imsis : found[i] # None})
      /\ assoc \in Rows /\ db \in Rows /\ queue \in Seq(PendingOps)
  BY DEF CrashRestart, TableInv, ListInv
<1>2. found \in Rows
  BY <1>1, ApplyFirstRows
<1>3. kept \in Rows /\ gone \in Rows /\ \A i \in Imsis : gone[i] = None
  BY <1>2 DEF Rows
<1> HIDE DEF found, kept, gone
<1>4. db' \in Rows /\ assoc' \in Rows
  BY <1>1, <1>2, <1>3
<1>5. ApplyAll(queue', {}, db') = db'
  BY <1>1, <1>4, NothingPending
<1>6. ASSUME NEW j \in Imsis \ dirty'
      PROVE  /\ ApplyAll(queue', {}, db')[j] \in {assoc'[j], None}
             /\ j \notin overtaken' => ApplyAll(queue', {}, db')[j] = assoc'[j]
  <2>1. CASE on
    BY <1>1, <1>5, <2>1
  <2>2. CASE ~on
    BY <1>1, <1>3, <1>5, <2>2
  <2> QED BY <2>1, <2>2
<1> QED BY <1>4, <1>6 DEF TableInv, Follows

(* Every step of the persistence code keeps the table following the VLR.   *)
LEMMA TableInvStep == ListInv /\ TableInv /\ [Next]_vars => TableInv'
<1> SUFFICES ASSUME ListInv, TableInv, [Next]_vars PROVE TableInv'
  OBVIOUS
<1>1. ASSUME NEW i \in Imsis, NEW m \in Mmes, NEW ok \in BOOLEAN,
             PersistVsub(i, m, ok)
      PROVE TableInv'
  BY <1>1, VsubFollows
<1>2. ASSUME NEW i \in Imsis, NEW ok \in BOOLEAN, PersistForget(i, ok)
      PROVE TableInv'
  BY <1>2, ForgetFollows
<1>3. ASSUME NEW m \in Mmes, NEW ok \in BOOLEAN, PersistForgetMme(m, ok)
      PROVE TableInv'
  BY <1>3, ForgetMmeFollows
<1>4. ASSUME NEW failed \in SUBSET DOMAIN queue, NEW committed \in BOOLEAN,
             PersistFlush(failed, committed)
      PROVE TableInv'
  BY <1>4, FlushFollows DEF PersistFlush
<1>5. CASE VtyNoPersist
  BY <1>5, VtyNoPersistFollows
<1>6. CASE VtyPersist
  BY <1>6 DEF VtyPersist, TableInv, Follows
<1>7. ASSUME NEW on \in BOOLEAN, NEW failed \in SUBSET DOMAIN queue,
             NEW committed \in BOOLEAN, VtyPersistBatch(on, failed, committed)
      PROVE TableInv'
  <2>1. CASE FlushQueue(failed, committed)
    BY <1>7, <2>1, FlushFollows DEF VtyPersistBatch
  <2>2. CASE UNCHANGED <<db, queue, timer, dirty>>
    <3>1. UNCHANGED <<assoc, overtaken>>
      BY <1>7 DEF VtyPersistBatch
    <3> QED BY <2>2, <3>1 DEF TableInv, Follows
  <2> QED BY <1>7, <2>1, <2>2 DEF VtyPersistBatch
<1>8. ASSUME NEW n \in 0..Len(queue), NEW expired \in SUBSET Imsis,
             NEW on \in BOOLEAN, CrashRestart(n, expired, on)
      PROVE TableInv'
  BY <1>8, RestartFollows
<1>9. CASE UNCHANGED vars
  BY <1>9 DEF vars, TableInv, Follows
<1> QED
  BY <1>1, <1>2, <1>3, <1>4, <1>5, <1>6, <1>7, <1>8, <1>9 DEF Next

(* The invariants hold at startup: no row, no association.                 *)
LEMMA TableInit == Init => ListInv /\ TableInv
<1> SUFFICES ASSUME Init PROVE ListInv /\ TableInv
  OBVIOUS
<1>1. ListInv
  BY SMTT(30) DEF Init, ListInv, UniquePending, TimerGuardsQueue
<1>2. assoc \in Rows /\ db \in Rows /\ assoc = db /\ queue = <<>>
  BY DEF Init, Rows
<1>3. ApplyAll(queue, {}, db) = db
  BY <1>2, NothingPending
<1>4. Follows(queue, db, assoc, dirty, overtaken)
  BY <1>2, <1>3 DEF Follows
<1> QED BY <1>1, <1>2, <1>4 DEF TableInv

(* The pending list always has at most one entry per IMSI, so the place of *)
(* an entry relative to the MME deletions alone decides the row.           *)
THEOREM PendingIsUnique == Spec => []UniquePending
<1>1. Init => ListInv
  BY SMTT(30) DEF Init, ListInv, UniquePending, TimerGuardsQueue
<1>2. ListInv => UniquePending
  BY DEF ListInv
<1> QED
  BY <1>1, <1>2, ListInvStep, PTL DEF Spec

(* No pending operation is ever left without a running flush timer, across *)
(* every VTY change, failed write, crash and restart.                      *)
THEOREM PendingIsTimed == Spec => []TimerGuardsQueue
<1>1. Init => ListInv
  BY SMTT(30) DEF Init, ListInv, UniquePending, TimerGuardsQueue
<1>2. ListInv => TimerGuardsQueue
  BY DEF ListInv
<1> QED
  BY <1>1, <1>2, ListInvStep, PTL DEF Spec

(* A flush never brings back an association the VLR dropped or moved,      *)
(* however the operations coalesced, whichever writes failed, and wherever *)
(* a crash cut a flush short: the row that the pending operations lead to  *)
(* is the association in memory or none, unless a write for the IMSI was   *)
(* refused, lost or ignored.                                               *)
THEOREM AssociationsNotResurrected == Spec => []NeverResurrects
<1>1. ListInv /\ TableInv => NeverResurrects
  BY DEF TableInv, Follows, NeverResurrects
<1> QED
  BY <1>1, TableInit, ListInvStep, TableInvStep, PTL DEF Spec

(* A flush leaves exactly the VLR's association, but for the IMSIs whose   *)
(* write was refused and those whose upsert was coalesced into a place     *)
(* before the deletion of the rows of its own MME.                         *)
THEOREM FlushesConverge == Spec => []FlushConverges
<1>1. ListInv /\ TableInv => FlushConverges
  BY DEF TableInv, Follows, FlushConverges
<1> QED
  BY <1>1, TableInit, ListInvStep, TableInvStep, PTL DEF Spec

-----------------------------------------------------------------------------
(* SgsLink.                                                                *)

SlConnFns == [SlConns -> [open : BOOLEAN, dying : BOOLEAN,
    mme : SlNames \cup {SlNone},
                      ip : SlIps \cup {SlNone}, named : BOOLEAN]]
SlMmeFns == [SlNames -> [conn : SlConns \cup {SlNone},
                     fsm : {"NULL", "WAIT_ACK", "COMPLETE"},
                     left : 0..SlNs11, reset : BOOLEAN]]
SlSubFns == [SlSubs -> [st : {"NULL", "LU", "ASSOCIATED"},
    mme : SlNames \cup {SlNone}]]

\* The types, and the links: every connection and context that point somewhere
\* point to each other.
Good(w) ==
  /\ w \in [conn : SlConnFns, mme : SlMmeFns, sub : SlSubFns]
  /\ \A c \in SlConns : ~w.conn[c].open => w.conn[c] = SlNoConn
  /\ \A n \in SlNames : w.mme[n].conn # SlNone =>
                          w.conn[w.mme[n].conn].open
                              /\ w.conn[w.mme[n].conn].mme = n
  /\ \A c \in SlConns : w.conn[c].mme # SlNone => w.mme[w.conn[c].mme].conn = c

Stale(w) ==
  \A c \in SlConns : w.conn[c].named
      => w.conn[c].mme # SlNone \/ w.conn[c].dying

First(w) == \A s \in SlSubs : w.sub[s].st # "NULL" =>
                                w.sub[s].mme \in SlNames
                                    /\ w.mme[w.sub[s].mme].reset

Sent(w, gsup) == \A n \in SlNames : gsup /\ w.mme[n].conn # SlNone
    => w.mme[n].reset

\* The reset procedure leaves its initial state only with RESET-INDICATION.
Tried(w) == \A n \in SlNames : w.mme[n].fsm # "NULL" => w.mme[n].reset

\* The inductive invariant.
SlIInv ==
  /\ slGsup \in BOOLEAN /\ Good(SlW) /\ Stale(SlW) /\ First(SlW) /\ Tried(SlW)
  /\ Sent(SlW, slGsup)

\* sgs_mme_detach_connection() takes both pointers of the connection away.
LEMMA DetachGood ==
  ASSUME NEW w, Good(w), NEW c \in SlConns
  PROVE  /\ Good(SlDetach(w, c))
         /\ SlDetach(w, c).sub = w.sub
         /\ SlDetach(w, c).conn = [w.conn EXCEPT ![c].mme = SlNone]
         /\ \A n \in SlNames :
              /\ SlDetach(w, c).mme[n].reset = w.mme[n].reset
              /\ SlDetach(w, c).mme[n].fsm = w.mme[n].fsm
              /\ SlDetach(w, c).mme[n].conn =
                   IF w.mme[n].conn = c THEN SlNone ELSE w.mme[n].conn
<1> DEFINE n == w.conn[c].mme
<1>0. w.conn[c] \in [open : BOOLEAN, dying : BOOLEAN,
      mme : SlNames \cup {SlNone},
                     ip : SlIps \cup {SlNone}, named : BOOLEAN]
  BY DEF Good, SlConnFns
<1>1. CASE n = SlNone
  <2>1. SlDetach(w, c) = w
    BY <1>1 DEF SlDetach
  <2>2. w.conn = [w.conn EXCEPT ![c].mme = SlNone]
    BY ZenonT(60), <1>0, <1>1 DEF Good, SlConnFns
  <2>3. \A x \in SlNames : w.mme[x].conn # c
    BY SMTT(30), <1>1, SlAssumption DEF Good
  <2>. QED
    BY <2>1, <2>2, <2>3
<1>2. CASE n # SlNone
  <2>1. n \in SlNames /\ w.mme[n].conn = c
    BY <1>0, <1>2 DEF Good
  <2>2. SlDetach(w, c) = [w EXCEPT !.conn = [w.conn EXCEPT ![c].mme = SlNone],
                                   !.mme = [w.mme EXCEPT ![n].conn = SlNone]]
    BY <1>2, <2>1 DEF SlDetach, Good
  <2>3. \A x \in SlNames : x # n => w.mme[x].conn # c
    BY SMTT(30), <2>1, SlAssumption DEF Good
  <2>4. w.conn[c].open
    BY SMTT(30), <2>1, SlAssumption DEF Good
  <2>5. \A d \in SlConns : d # c => w.conn[d].mme # n
    BY <1>2, <2>1 DEF Good
  <2>. DEFINE r == SlDetach(w, c)
  <2>6. r.conn = [w.conn EXCEPT ![c].mme = SlNone] /\ r.sub = w.sub
        /\ r.mme = [w.mme EXCEPT ![n].conn = SlNone]
    BY <2>2 DEF Good
  <2>7. r \in [conn : SlConnFns, mme : SlMmeFns, sub : SlSubFns]
    <3>1. [w.conn EXCEPT ![c].mme = SlNone] \in SlConnFns
      BY SMTT(30) DEF Good, SlConnFns
    <3>2. [w.mme EXCEPT ![n].conn = SlNone] \in SlMmeFns
      BY SMTT(30), <2>1 DEF Good, SlMmeFns
    <3>. QED
      BY <2>2, <3>1, <3>2 DEF Good
  <2>8. \A x \in SlNames : r.mme[x].reset = w.mme[x].reset
        /\ r.mme[x].fsm = w.mme[x].fsm
          /\ r.mme[x].conn = IF w.mme[x].conn = c
              THEN SlNone ELSE w.mme[x].conn
    BY SMTT(30), <2>6, <2>1, <2>3 DEF Good, SlMmeFns
  <2>9. r.conn[c].mme = SlNone /\ \A d \in SlConns : d # c
        => r.conn[d] = w.conn[d]
    BY SMTT(30), <2>6, <1>0 DEF Good, SlConnFns
  <2>13. r.conn[c].open
    BY SMTT(30), <2>6, <2>4, <1>0 DEF Good, SlConnFns
  <2>10. \A d \in SlConns : ~r.conn[d].open => r.conn[d] = SlNoConn
    BY <2>9, <2>13 DEF Good
  <2>11. ASSUME NEW x \in SlNames, r.mme[x].conn # SlNone
         PROVE  r.conn[r.mme[x].conn].open /\ r.conn[r.mme[x].conn].mme = x
    <3>1. w.mme[x].conn # c /\ r.mme[x].conn = w.mme[x].conn
      BY <2>8, <2>11
    <3>2. w.mme[x].conn \in SlConns
      BY <3>1, <2>11 DEF Good, SlMmeFns
    <3>. QED
      BY SMTT(30), <2>9, <3>1, <3>2, <2>11 DEF Good
  <2>12. ASSUME NEW d \in SlConns, r.conn[d].mme # SlNone
         PROVE  r.mme[r.conn[d].mme].conn = d
    <3>1. d # c /\ r.conn[d] = w.conn[d]
      BY <2>9, <2>12
    <3>2. w.conn[d].mme \in SlNames
      BY SMTT(30), <3>1, <2>12 DEF Good, SlConnFns
    <3>. QED
      BY ZenonT(60), <2>8, <3>1, <3>2, <2>12 DEF Good
  <2>. QED
    BY <2>6, <2>7, <2>8, <2>10, <2>11, <2>12 DEF Good
<1>. QED
  BY <1>1, <1>2

\* sgs_conn_closed_cb() leaves a consistent state behind and touches no reset.
LEMMA ClosedGood ==
  ASSUME NEW w, Good(w), Stale(w), First(w), NEW gsup \in BOOLEAN,
         Sent(w, gsup),
         NEW c \in SlConns
  PROVE  /\ Good(SlClosed(w, c)) /\ Stale(SlClosed(w, c))
            /\ First(SlClosed(w, c))
         /\ Sent(SlClosed(w, c), gsup)
         /\ \A n \in SlNames : /\ SlClosed(w, c).mme[n].fsm = w.mme[n].fsm
                               /\ SlClosed(w, c).mme[n].reset = w.mme[n].reset
<1> DEFINE d == SlDetach(w, c)
           r == SlClosed(w, c)
<1>1. /\ Good(d) /\ d.sub = w.sub /\ d.conn = [w.conn EXCEPT ![c].mme = SlNone]
      /\ \A n \in SlNames : /\ d.mme[n].reset = w.mme[n].reset
                            /\ d.mme[n].fsm = w.mme[n].fsm
                            /\ d.mme[n].conn = IF w.mme[n].conn = c THEN SlNone
                                               ELSE w.mme[n].conn
  BY SMTT(30), DetachGood
<1>2. r.conn = [d.conn EXCEPT ![c] = SlNoConn] /\ r.mme = d.mme
      /\ r.sub = d.sub
      /\ r \in [conn : SlConnFns, mme : SlMmeFns, sub : SlSubFns]
  <2>1. SlNoConn \in [open : BOOLEAN, dying : BOOLEAN,
        mme : SlNames \cup {SlNone},
                      ip : SlIps \cup {SlNone}, named : BOOLEAN]
    BY DEF SlNoConn
  <2>2. [d.conn EXCEPT ![c] = SlNoConn] \in SlConnFns
    BY <1>1, <2>1 DEF Good, SlConnFns
  <2>3. r = [d EXCEPT !.conn = [d.conn EXCEPT ![c] = SlNoConn]]
    BY <1>1 DEF SlClosed, Good
  <2>. QED
    BY <1>1, <2>2, <2>3 DEF Good
<1>3. r.conn[c] = SlNoConn /\ \A e \in SlConns : e # c => r.conn[e] = w.conn[e]
  BY SMTT(60), <1>1, <1>2 DEF Good, SlConnFns
<1>4. \A n \in SlNames : d.mme[n].conn # c
  BY SMTT(30), <1>1, SlAssumption DEF Good
<1>5. SlNoConn.mme = SlNone /\ ~SlNoConn.named
  BY DEF SlNoConn
<1>6. \A e \in SlConns : e # c => d.conn[e] = w.conn[e]
  BY ZenonT(30), <1>1 DEF Good, SlConnFns
<1>7. Good(r)
  <2>1. \A e \in SlConns : ~r.conn[e].open => r.conn[e] = SlNoConn
    BY <1>3 DEF Good
  <2>2. ASSUME NEW n \in SlNames, r.mme[n].conn # SlNone
        PROVE  r.conn[r.mme[n].conn].open /\ r.conn[r.mme[n].conn].mme = n
    <3>1. r.mme[n].conn \in SlConns /\ r.mme[n].conn # c
      BY <1>2, <1>4, <2>2 DEF SlMmeFns
    <3>. QED
      BY SMTT(60), <1>1, <1>2, <1>3, <1>6, <2>2, <3>1 DEF Good
  <2>3. ASSUME NEW e \in SlConns, r.conn[e].mme # SlNone
        PROVE  r.mme[r.conn[e].mme].conn = e
    BY SMTT(30), <1>1, <1>2, <1>3, <1>5, <1>6, <2>3 DEF Good
  <2>. QED
    BY <1>2, <2>1, <2>2, <2>3 DEF Good
<1>8. Stale(r)
  BY <1>3, <1>5 DEF Stale
<1>9. First(r)
  BY SMTT(30), <1>1, <1>2 DEF First
<1>10. Sent(r, gsup)
  BY ZenonT(60), <1>1, <1>2 DEF Sent
<1>. QED
  BY <1>1, <1>2, <1>7, <1>8, <1>9, <1>10

\* Dropping the associations with an MME keeps everything else.
LEMMA DropGood ==
  ASSUME NEW w, Good(w), NEW n \in SlNames
  PROVE  /\ Good(SlDropAssocs(w, n))
         /\ SlDropAssocs(w, n).conn = w.conn /\ SlDropAssocs(w, n).mme = w.mme
         /\ \A s \in SlSubs :
              /\ SlDropAssocs(w, n).sub[s].mme = w.sub[s].mme
              /\ SlDropAssocs(w, n).sub[s].st =
                   IF w.sub[s].mme = n THEN "NULL" ELSE w.sub[s].st
<1> DEFINE r == SlDropAssocs(w, n)
           f == [s \in SlSubs |-> IF w.sub[s].mme = n
                                    THEN [w.sub[s] EXCEPT !.st = "NULL"]
                                        ELSE w.sub[s]]
<1>1. r.conn = w.conn /\ r.mme = w.mme /\ r.sub = f /\ r = [w EXCEPT !.sub = f]
  BY DEF SlDropAssocs, Good
<1>2. f \in SlSubFns
  BY SMTT(30) DEF Good, SlSubFns
<1>3. \A s \in SlSubs : /\ f[s].mme = w.sub[s].mme
                        /\ f[s].st = IF w.sub[s].mme = n
                            THEN "NULL" ELSE w.sub[s].st
  BY SMTT(30) DEF Good, SlSubFns
<1>4. r \in [conn : SlConnFns, mme : SlMmeFns, sub : SlSubFns]
  BY <1>1, <1>2 DEF Good
<1>. QED
  BY SMTT(30), <1>1, <1>3, <1>4 DEF Good
\* START-RESET marks the MME as reset after dropping what it was associated with.
LEMMA StartGood ==
  ASSUME NEW w, Good(w), NEW n \in SlNames
  PROVE  /\ Good(SlStartReset(w, n)) /\ SlStartReset(w, n).conn = w.conn
         /\ SlStartReset(w, n).sub = SlDropAssocs(w, n).sub
         /\ SlStartReset(w, n).mme[n].conn = w.mme[n].conn
         /\ SlStartReset(w, n).mme[n].reset
         /\ SlStartReset(w, n).mme[n].fsm = "WAIT_ACK"
         /\ \A x \in SlNames : x # n => SlStartReset(w, n).mme[x] = w.mme[x]
<1> DEFINE d == SlDropAssocs(w, n)
           r == SlStartReset(w, n)
           g == [w.mme[n] EXCEPT !.fsm = "WAIT_ACK", !.left = SlNs11,
               !.reset = TRUE]
           f == [w.mme EXCEPT ![n] = g]
<1>1. Good(d) /\ d.conn = w.conn /\ d.mme = w.mme
  BY DropGood
<1>2. w.mme[n] \in [conn : SlConns \cup {SlNone}, fsm : {"NULL", "WAIT_ACK",
      "COMPLETE"},
                    left : 0..SlNs11, reset : BOOLEAN]
  BY DEF Good, SlMmeFns
<1>9. g \in [conn : SlConns \cup {SlNone}, fsm : {"NULL", "WAIT_ACK",
      "COMPLETE"},
             left : 0..SlNs11, reset : BOOLEAN]
      /\ g.conn = w.mme[n].conn /\ g.reset = TRUE /\ g.fsm = "WAIT_ACK"
  <2>1. SlNs11 \in 0..SlNs11
    BY SlAssumption
  <2>2. g \in [conn : SlConns \cup {SlNone}, fsm : {"NULL", "WAIT_ACK",
        "COMPLETE"},
               left : 0..SlNs11, reset : BOOLEAN]
    BY <1>2, <2>1, Zenon
  <2>3. g.conn = w.mme[n].conn /\ g.fsm = "WAIT_ACK"
    BY <1>2
  <2>4. g.reset = TRUE
    BY <1>2, Zenon
  <2>. QED
    BY <2>2, <2>3, <2>4
<1>3. r = [d EXCEPT !.mme = f]
  BY <1>1 DEF SlStartReset
<1>4. f \in SlMmeFns
  BY <1>9 DEF Good, SlMmeFns
<1>5. /\ f[n].conn = w.mme[n].conn /\ f[n].reset /\ f[n].fsm = "WAIT_ACK"
      /\ \A x \in SlNames : x # n => f[x] = w.mme[x]
  BY <1>9 DEF Good, SlMmeFns
<1>6. r.conn = w.conn /\ r.mme = f /\ r.sub = d.sub
      /\ r \in [conn : SlConnFns, mme : SlMmeFns, sub : SlSubFns]
  BY <1>1, <1>3, <1>4 DEF Good
<1>7. \A x \in SlNames : f[x].conn = w.mme[x].conn
  BY <1>5
<1>8. Good(r)
  <2>1. ASSUME NEW c \in SlConns, w.conn[c].mme # SlNone
        PROVE  f[w.conn[c].mme].conn = c
    <3>1. w.conn[c].mme \in SlNames
      BY <2>1 DEF Good, SlConnFns
    <3>. QED
      BY <1>7, <2>1, <3>1 DEF Good
  <2>. QED
    BY SMTT(30), <1>6, <1>7, <2>1 DEF Good
<1>. QED
  BY <1>5, <1>6, <1>8

\* sgs_mme_maybe_vlr_reset() makes up for a reset that is still due.
LEMMA MaybeGood ==
  ASSUME NEW w, Good(w), Stale(w), First(w), Tried(w), NEW n \in SlNames,
         NEW gsup \in BOOLEAN,
         \A x \in SlNames : x # n /\ gsup /\ w.mme[x].conn # SlNone
             => w.mme[x].reset
  PROVE  LET r == SlMaybeVlrReset(w, n, gsup)
         IN /\ Good(r) /\ Stale(r) /\ First(r) /\ Tried(r) /\ Sent(r, gsup)
            /\ r.conn = w.conn
            /\ \A x \in SlNames : w.mme[x].fsm = "COMPLETE"
                => r.mme[x].fsm = "COMPLETE"
            /\ gsup /\ w.mme[n].conn # SlNone => r.mme[n].reset
<1> DEFINE r == SlMaybeVlrReset(w, n, gsup)
<1>1. CASE w.mme[n].conn # SlNone /\ w.mme[n].fsm = "NULL" /\ gsup
  <2>1. r = SlStartReset(w, n)
    BY <1>1 DEF SlMaybeVlrReset
  <2>2. /\ Good(r) /\ r.conn = w.conn /\ r.sub = SlDropAssocs(w, n).sub
        /\ r.mme[n].conn = w.mme[n].conn /\ r.mme[n].reset
            /\ r.mme[n].fsm = "WAIT_ACK"
        /\ \A x \in SlNames : x # n => r.mme[x] = w.mme[x]
    BY SMTT(30), <2>1, StartGood
  <2>3. \A s \in SlSubs : /\ r.sub[s].mme = w.sub[s].mme
                          /\ r.sub[s].st = IF w.sub[s].mme = n THEN "NULL"
                                           ELSE w.sub[s].st
    BY SMTT(30), <2>2, DropGood
  <2>4. First(r)
    BY SMTT(30), <2>2, <2>3 DEF First
  <2>5. Stale(r)
    BY <2>2 DEF Stale
  <2>6. Tried(r) /\ Sent(r, gsup)
    BY <2>2 DEF Tried, Sent
  <2>. QED
    BY <1>1, <2>2, <2>4, <2>5, <2>6
<1>2. CASE ~(w.mme[n].conn # SlNone /\ w.mme[n].fsm = "NULL" /\ gsup)
  <2>1. r = w
    BY <1>2 DEF SlMaybeVlrReset
  <2>2. gsup /\ w.mme[n].conn # SlNone => w.mme[n].reset
    BY ZenonT(60), <1>2 DEF Tried
  <2>. QED
    BY <2>1, <2>2 DEF Sent
<1>. QED
  BY <1>1, <1>2
\* What a context needs before a connection can become its own.
Free(w, c, n) ==
  /\ w.mme[n].conn \in {SlNone, c}
  /\ w.conn[c].open /\ w.conn[c].mme \in {SlNone, n}

Bound(w, c, n) == [w EXCEPT !.mme[n].conn = c,
                            !.conn[c] = [@ EXCEPT !.mme = n, !.named = TRUE]]

\* Both pointers are set at once.
LEMMA BoundGood ==
  ASSUME NEW w, Good(w), Stale(w), First(w), Tried(w), NEW c \in SlConns,
         NEW n \in SlNames, Free(w, c, n)
  PROVE  /\ Good(Bound(w, c, n)) /\ Stale(Bound(w, c, n))
            /\ First(Bound(w, c, n))
         /\ Tried(Bound(w, c, n))
         /\ \A x \in SlNames :
              /\ Bound(w, c, n).mme[x].fsm = w.mme[x].fsm
              /\ Bound(w, c, n).mme[x].reset = w.mme[x].reset
              /\ x # n => Bound(w, c, n).mme[x].conn = w.mme[x].conn
         /\ Bound(w, c, n).mme[n].conn = c
<1> DEFINE r == Bound(w, c, n)
           h == [w.conn[c] EXCEPT !.mme = n, !.named = TRUE]
           g == [w.conn EXCEPT ![c] = h]
           f == [w.mme EXCEPT ![n].conn = c]
<1>1. w.conn[c] \in [open : BOOLEAN, dying : BOOLEAN,
      mme : SlNames \cup {SlNone},
                     ip : SlIps \cup {SlNone}, named : BOOLEAN]
  BY DEF Good, SlConnFns
<1>2. h \in [open : BOOLEAN, dying : BOOLEAN, mme : SlNames \cup {SlNone},
             ip : SlIps \cup {SlNone}, named : BOOLEAN]
  BY <1>1, Zenon
<1>3. h.mme = n
  BY <1>1
<1>4. h.open
  <2>1. h.open = w.conn[c].open
    BY <1>1, Zenon
  <2>. QED
    BY <2>1 DEF Free
<1>5. g \in SlConnFns /\ g[c] = h /\ \A e \in SlConns : e # c
      => g[e] = w.conn[e]
  BY ZenonT(60), <1>2 DEF Good, SlConnFns
<1>6. f \in SlMmeFns /\ f[n].conn = c
  BY SMTT(30) DEF Good, SlMmeFns
<1>7. \A x \in SlNames : f[x].fsm = w.mme[x].fsm /\ (x # n => f[x] = w.mme[x])
  BY SMTT(30) DEF Good, SlMmeFns
<1>8. \A x \in SlNames : f[x].reset = w.mme[x].reset
  BY SMTT(30) DEF Good, SlMmeFns
<1>9. r.conn = g /\ r.mme = f /\ r.sub = w.sub
      /\ r \in [conn : SlConnFns, mme : SlMmeFns, sub : SlSubFns]
  BY <1>5, <1>6 DEF Bound, Good
<1>10. SlNone # n /\ SlNone # c
  BY SlAssumption
<1>11. Good(r)
  <2>1. \A e \in SlConns : ~g[e].open => g[e] = SlNoConn
    BY <1>4, <1>5 DEF Good
  <2>2. ASSUME NEW x \in SlNames, f[x].conn # SlNone
        PROVE  g[f[x].conn].open /\ g[f[x].conn].mme = x
    <3>1. CASE x = n
      BY <1>3, <1>4, <1>5, <1>6, <3>1
    <3>2. CASE x # n
      <4>1. f[x].conn = w.mme[x].conn /\ f[x].conn \in SlConns
        BY <1>6, <1>7, <2>2, <3>2 DEF SlMmeFns
      <4>2. w.conn[f[x].conn].open /\ w.conn[f[x].conn].mme = x
        BY <4>1, <2>2 DEF Good
      <4>3. f[x].conn # c
        BY <4>2, <3>2, SlAssumption DEF Free
      <4>. QED
        BY <4>1, <4>2, <4>3, <1>5
    <3>. QED
      BY <3>1, <3>2
  <2>3. ASSUME NEW e \in SlConns, g[e].mme # SlNone
        PROVE  f[g[e].mme].conn = e
    <3>1. CASE e = c
      BY <1>3, <1>5, <1>6, <3>1
    <3>2. CASE e # c
      <4>1. g[e] = w.conn[e] /\ w.conn[e].mme \in SlNames
        BY SMTT(30), <1>5, <2>3, <3>2 DEF Good, SlConnFns
      <4>2. w.mme[w.conn[e].mme].conn = e /\ e # SlNone
        BY <4>1, <2>3, SlAssumption DEF Good
      <4>3. w.conn[e].mme # n
        BY <4>2, <3>2 DEF Free
      <4>. QED
        BY <4>1, <4>2, <4>3, <1>7
    <3>. QED
      BY <3>1, <3>2
  <2>. QED
    BY SMTT(30), <1>9, <2>1, <2>2, <2>3 DEF Good
<1>12. Stale(r)
  <2>1. ASSUME NEW e \in SlConns, g[e].named
        PROVE  g[e].mme # SlNone \/ g[e].dying
    BY <1>3, <1>5, <1>10, <2>1 DEF Stale
  <2>. QED
    BY <1>9, <2>1 DEF Stale
<1>13. First(r) /\ Tried(r)
  BY ZenonT(60), <1>7, <1>8, <1>9 DEF First, Tried
<1>. QED
  BY <1>6, <1>7, <1>8, <1>9, <1>11, <1>12, <1>13

\* State q is w after the MME's context let go of its old connection.
LetGo(w, q, old, n) ==
  /\ Good(q) /\ Stale(q) /\ First(q) /\ Tried(q)
  /\ q.mme[n].conn = SlNone
  /\ \A e \in SlConns : e # old => q.conn[e] = w.conn[e]
  /\ \A x \in SlNames : /\ q.mme[x].fsm = w.mme[x].fsm
                        /\ q.mme[x].reset = w.mme[x].reset
                        /\ x # n => q.mme[x].conn = w.mme[x].conn

\* The link that is replaced is detached and will be destroyed.
LEMMA ReplaceGood ==
  ASSUME NEW w, Good(w), Stale(w), First(w), Tried(w), NEW n \in SlNames,
         NEW old \in SlConns, w.mme[n].conn = old
  PROVE  LetGo(w, SlScheduleDestroy(SlDetach(w, old), old), old, n)
<1> DEFINE d == SlDetach(w, old)
           q == SlScheduleDestroy(d, old)
           g == [d.conn EXCEPT ![old].dying = TRUE]
<1>1. w.conn[old].open /\ w.conn[old].mme = n /\ old # SlNone
  BY SlAssumption DEF Good
<1>2. Good(d)
  BY DetachGood
<1>3. d.sub = w.sub /\ d.conn = [w.conn EXCEPT ![old].mme = SlNone]
  BY ZenonT(60), DetachGood
<1>4. \A x \in SlNames : /\ d.mme[x].reset = w.mme[x].reset
                         /\ d.mme[x].fsm = w.mme[x].fsm
                         /\ d.mme[x].conn = IF w.mme[x].conn = old THEN SlNone
                                            ELSE w.mme[x].conn
  BY ZenonT(60), DetachGood
<1>5. \A x \in SlNames : x # n => w.mme[x].conn # old
  BY <1>1 DEF Good
<1>6. w.conn[old] \in [open : BOOLEAN, dying : BOOLEAN,
      mme : SlNames \cup {SlNone},
                       ip : SlIps \cup {SlNone}, named : BOOLEAN]
  BY DEF Good, SlConnFns
<1>7. d.conn[old].mme = SlNone /\ \A e \in SlConns : e # old
      => d.conn[e] = w.conn[e]
  BY SMTT(30), <1>3, <1>6 DEF Good, SlConnFns
<1>8. d.conn[old].open
  BY SMTT(30), <1>1, <1>3, <1>6 DEF Good, SlConnFns
<1>9. d.conn \in SlConnFns
  BY <1>2 DEF Good
<1>10. d.conn[old] \in [open : BOOLEAN, dying : BOOLEAN,
       mme : SlNames \cup {SlNone},
                        ip : SlIps \cup {SlNone}, named : BOOLEAN]
  BY <1>9 DEF SlConnFns
<1> DEFINE h == [d.conn[old] EXCEPT !.dying = TRUE]
<1>11. h \in [open : BOOLEAN, dying : BOOLEAN, mme : SlNames \cup {SlNone},
              ip : SlIps \cup {SlNone}, named : BOOLEAN]
  BY <1>10, Zenon
<1>12. h.mme = SlNone /\ h.dying = TRUE /\ h.open = d.conn[old].open
  <2>1. h.mme = SlNone
    BY <1>7, <1>10
  <2>2. h.dying = TRUE /\ h.open = d.conn[old].open
    BY <1>10, Zenon
  <2>. QED
    BY <2>1, <2>2
<1>13. g \in SlConnFns /\ g[old] = h /\ \A e \in SlConns : e # old
       => g[e] = d.conn[e]
  BY <1>9, <1>11 DEF SlConnFns
<1>14. q.conn = g /\ q.mme = d.mme /\ q.sub = d.sub
       /\ q \in [conn : SlConnFns, mme : SlMmeFns, sub : SlSubFns]
  BY <1>2, <1>13 DEF SlScheduleDestroy, Good
<1>15. Good(q)
  <2>0. /\ \A e \in SlConns : ~d.conn[e].open => d.conn[e] = SlNoConn
        /\ \A x \in SlNames :
             d.mme[x].conn # SlNone => /\ d.conn[d.mme[x].conn].open
                                       /\ d.conn[d.mme[x].conn].mme = x
        /\ \A e \in SlConns : d.conn[e].mme # SlNone => d.mme[d.conn[e].mme].conn = e
        /\ \A x \in SlNames : d.mme[x].conn \in SlConns \cup {SlNone}
    <3>1. d.mme \in SlMmeFns
      BY <1>2 DEF Good
    <3>. QED
      BY <1>2, <3>1 DEF Good, SlMmeFns
  <2>. HIDE DEF d, g, h, q
  <2>1. \A e \in SlConns : ~g[e].open => g[e] = SlNoConn
    BY ZenonT(60), <1>8, <1>12, <1>13, <2>0
  <2>2. ASSUME NEW x \in SlNames, d.mme[x].conn # SlNone
        PROVE  g[d.mme[x].conn].open /\ g[d.mme[x].conn].mme = x
    <3>1. PICK e \in SlConns : e = d.mme[x].conn
      BY <2>0, <2>2
    <3>2. d.conn[e].open /\ d.conn[e].mme = x
      BY <2>0, <2>2, <3>1
    <3>3. e # old
      BY <1>7, <2>2, <3>2, SlAssumption
    <3>4. g[e] = d.conn[e]
      BY <1>13, <3>3
    <3>. QED
      BY <3>1, <3>2, <3>4
  <2>3. ASSUME NEW e \in SlConns, g[e].mme # SlNone
        PROVE  d.mme[g[e].mme].conn = e
    <3>1. e # old
      BY <1>12, <1>13, <2>3
    <3>2. g[e] = d.conn[e]
      BY <1>13, <3>1
    <3>. QED
      BY <2>0, <2>3, <3>2
  <2>4. /\ \A e \in SlConns : ~q.conn[e].open => q.conn[e] = SlNoConn
        /\ \A x \in SlNames :
             q.mme[x].conn # SlNone => /\ q.conn[q.mme[x].conn].open
                                       /\ q.conn[q.mme[x].conn].mme = x
        /\ \A e \in SlConns : q.conn[e].mme # SlNone => q.mme[q.conn[e].mme].conn = e
    BY ZenonT(60), <1>14, <2>1, <2>2, <2>3
  <2>. QED
    BY <1>14, <2>4 DEF Good
<1>16. Stale(q)
  <2>1. ASSUME NEW e \in SlConns, g[e].named
               PROVE g[e].mme # SlNone \/ g[e].dying
    BY <1>7, <1>12, <1>13, <2>1 DEF Stale
  <2>. QED
    BY <1>14, <2>1 DEF Stale
<1>17. First(q) /\ Tried(q)
  BY SMTT(30), <1>3, <1>4, <1>14 DEF First, Tried
<1>. QED
  BY SMTT(30), <1>4, <1>5, <1>7, <1>13, <1>14, <1>15, <1>16, <1>17 DEF LetGo

\* sgs_mme_fqdn_received() up to the reset: the old link is let go first.
LEMMA AdoptGood ==
  ASSUME NEW w, Good(w), Stale(w), First(w), Tried(w), NEW c \in SlConns,
         NEW n \in SlNames, w.conn[c].open, w.conn[c].mme \in {SlNone, n}
  PROVE  /\ Good(SlAdopt(w, c, n)) /\ Stale(SlAdopt(w, c, n))
            /\ First(SlAdopt(w, c, n))
         /\ Tried(SlAdopt(w, c, n))
         /\ \A x \in SlNames :
              /\ SlAdopt(w, c, n).mme[x].fsm = w.mme[x].fsm
              /\ SlAdopt(w, c, n).mme[x].reset = w.mme[x].reset
              /\ x # n => SlAdopt(w, c, n).mme[x].conn = w.mme[x].conn
         /\ SlAdopt(w, c, n).mme[n].conn = c
<1>1. CASE w.mme[n].conn \in {SlNone, c}
  <2>1. SlAdopt(w, c, n) = Bound(w, c, n) /\ Free(w, c, n)
    BY <1>1 DEF SlAdopt, Bound, Free
  <2>. QED
    BY SMTT(30), <2>1, BoundGood
<1>2. CASE w.mme[n].conn \notin {SlNone, c}
  <2>1. PICK old \in SlConns : w.mme[n].conn = old
    BY <1>2 DEF Good, SlMmeFns
  <2> DEFINE q == SlScheduleDestroy(SlDetach(w, old), old)
  <2>a. LetGo(w, q, old, n)
    BY <2>1, ReplaceGood
  <2>2. /\ Good(q) /\ Stale(q) /\ First(q) /\ Tried(q)
        /\ q.mme[n].conn = SlNone
        /\ \A e \in SlConns : e # old => q.conn[e] = w.conn[e]
        /\ \A x \in SlNames : /\ q.mme[x].fsm = w.mme[x].fsm
                              /\ q.mme[x].reset = w.mme[x].reset
                              /\ x # n => q.mme[x].conn = w.mme[x].conn
    BY <2>a DEF LetGo
  <2>3. Free(q, c, n)
    BY <1>2, <2>1, <2>2 DEF Free
  <2>4. SlAdopt(w, c, n) = Bound(q, c, n)
    BY <1>2, <2>1 DEF SlAdopt, Bound
  <2>5. /\ Good(Bound(q, c, n)) /\ Stale(Bound(q, c, n))
           /\ First(Bound(q, c, n))
        /\ Tried(Bound(q, c, n))
        /\ \A x \in SlNames :
             /\ Bound(q, c, n).mme[x].fsm = q.mme[x].fsm
             /\ Bound(q, c, n).mme[x].reset = q.mme[x].reset
             /\ x # n => Bound(q, c, n).mme[x].conn = q.mme[x].conn
        /\ Bound(q, c, n).mme[n].conn = c
    BY SMTT(30), <2>2, <2>3, BoundGood
  <2>. QED
    BY SMTT(30), <2>2, <2>4, <2>5
<1>. QED
  BY <1>1, <1>2
\* Whatever keeps the pointers of the contexts keeps the links.
LEMMA MmeOnly ==
  ASSUME NEW w, Good(w), NEW f \in SlMmeFns,
         \A x \in SlNames : f[x].conn = w.mme[x].conn
  PROVE  Good([w EXCEPT !.mme = f])
<1> DEFINE r == [w EXCEPT !.mme = f]
<1>1. r.conn = w.conn /\ r.mme = f
      /\ r \in [conn : SlConnFns, mme : SlMmeFns, sub : SlSubFns]
  BY DEF Good
<1>2. ASSUME NEW c \in SlConns, w.conn[c].mme # SlNone
      PROVE  f[w.conn[c].mme].conn = c
  <2>1. w.conn[c].mme \in SlNames
    BY <1>2 DEF Good, SlConnFns
  <2>. QED
    BY <1>2, <2>1 DEF Good
<1>. QED
  BY ZenonT(60), <1>1, <1>2 DEF Good

\* The subscribers take no part in the links.
LEMMA SubOnly ==
  ASSUME NEW w, Good(w), NEW g \in SlSubFns
  PROVE  Good([w EXCEPT !.sub = g])
BY DEF Good

\* The next state of an action that assigns a record.
LEMMA Becomes ==
  ASSUME NEW w, Good(w), SlBecome(w)
  PROVE  SlW' = w
<1>1. w = [conn |-> w.conn, mme |-> w.mme, sub |-> w.sub]
  BY DEF Good
<1>. QED
  BY <1>1 DEF SlBecome, SlW

\* A name on a readable connection: the links and the resets stay in order.
LEMMA FqdnGood ==
  ASSUME SlIInv, NEW c \in SlConns, NEW n \in SlNames, SlReadable(c, n)
  PROVE  LET r == SlFqdnReceived(SlW, c, n)
         IN /\ Good(r) /\ Stale(r) /\ First(r) /\ Tried(r) /\ Sent(r, slGsup)
            /\ \A x \in SlNames : SlW.mme[x].fsm = "COMPLETE"
                => r.mme[x].fsm = "COMPLETE"
            /\ slGsup => r.mme[n].reset
<1> DEFINE a == SlAdopt(SlW, c, n)
<1>1. SlW.conn[c].open /\ SlW.conn[c].mme \in {SlNone, n}
  BY DEF SlReadable, SlW
<1>2. /\ Good(a) /\ Stale(a) /\ First(a) /\ Tried(a)
      /\ \A x \in SlNames : /\ a.mme[x].fsm = SlW.mme[x].fsm
                            /\ a.mme[x].reset = SlW.mme[x].reset
                            /\ x # n => a.mme[x].conn = SlW.mme[x].conn
      /\ a.mme[n].conn = c
  BY SMTT(30), <1>1, AdoptGood DEF SlIInv
<1>3. \A x \in SlNames : x # n /\ slGsup /\ a.mme[x].conn # SlNone
      => a.mme[x].reset
  BY <1>2 DEF SlIInv, Sent
<1>4. slGsup \in BOOLEAN /\ c # SlNone
  BY SlAssumption DEF SlIInv
<1> DEFINE r == SlMaybeVlrReset(a, n, slGsup)
<1>5. /\ Good(r) /\ Stale(r) /\ First(r) /\ Tried(r) /\ Sent(r, slGsup)
      /\ \A x \in SlNames : a.mme[x].fsm = "COMPLETE"
          => r.mme[x].fsm = "COMPLETE"
      /\ slGsup /\ a.mme[n].conn # SlNone => r.mme[n].reset
  BY SMTT(30), <1>2, <1>3, <1>4, MaybeGood
<1>6. SlFqdnReceived(SlW, c, n) = r
  BY DEF SlFqdnReceived
<1>. QED
  BY <1>2, <1>4, <1>5, <1>6
\* What a step must not do to an acknowledged reset.
Kept == \A x \in SlNames : slMme[x].fsm = "COMPLETE"
    => slMme'[x].fsm = "COMPLETE"

\* A step that assigns a record with all the properties.
LEMMA AllGood ==
  ASSUME SlIInv, NEW w, Good(w), Stale(w), First(w), Tried(w), Sent(w, slGsup),
         \A x \in SlNames : SlW.mme[x].fsm = "COMPLETE"
             => w.mme[x].fsm = "COMPLETE",
         SlBecome(w), UNCHANGED slGsup
  PROVE  SlIInv' /\ Kept
<1>1. SlW' = w
  BY Becomes
<1>2. Good(SlW') /\ Stale(SlW') /\ First(SlW') /\ Tried(SlW')
      /\ Sent(SlW', slGsup')
  BY <1>1
<1>3. Kept
  BY DEF SlBecome, SlW, Kept
<1>4. slGsup' \in BOOLEAN
  BY DEF SlIInv
<1>. QED
  BY <1>2, <1>3, <1>4 DEF SlIInv, Good, Stale, First, Tried, Sent

\* A new connection, and the ones it makes superfluous.
LEMMA AcceptInv ==
  ASSUME SlIInv, NEW c \in SlConns, NEW ip \in SlIps,
         NEW dead \in SUBSET SlConns,
         SlAccept(c, ip, dead)
  PROVE  SlIInv' /\ Kept
<1> DEFINE new == [SlNoConn EXCEPT !.open = TRUE, !.ip = ip]
           rep == SlReplaced(ip, dead)
           R == [open : BOOLEAN, dying : BOOLEAN, mme : SlNames \cup {SlNone},
                 ip : SlIps \cup {SlNone}, named : BOOLEAN]
<1>1. new \in R /\ new.mme = SlNone /\ new.named = FALSE /\ new.open = TRUE
  BY DEF SlNoConn
<1>2. \A d \in SlConns : slConn[d] \in R
  BY ZenonT(60) DEF SlIInv, Good, SlW, SlConnFns
<1>3. \A d \in rep : slConn[d].open
  BY DEF SlReplaced
<1>4. slConn' = [d \in SlConns |-> IF d = c THEN new
                                   ELSE IF d \in rep
                                       THEN [slConn[d] EXCEPT !.dying = TRUE]
                                   ELSE slConn[d]]
  BY DEF SlAccept
<1>5. \A d \in SlConns : [slConn[d] EXCEPT !.dying = TRUE] \in R
  BY <1>2, Zenon
<1>6. slConn' \in SlConnFns
  BY SMTT(30), <1>1, <1>2, <1>4, <1>5 DEF SlConnFns
<1>7. \A d \in SlConns :
      /\ [slConn[d] EXCEPT !.dying = TRUE].mme = slConn[d].mme
                         /\ [slConn[d] EXCEPT !.dying = TRUE].open
                             = slConn[d].open
                         /\ [slConn[d] EXCEPT !.dying = TRUE].dying = TRUE
  BY <1>2, Zenon
<1>8. slConn[c].mme = SlNone
  BY SMTT(30) DEF SlAccept, SlIInv, Good, SlW, SlNoConn
<1>9. \A d \in SlConns : slConn'[d].mme = slConn[d].mme
  BY <1>1, <1>4, <1>7, <1>8
<1>10. \A d \in SlConns : slConn[d].open => slConn'[d].open
  BY <1>1, <1>4, <1>7
<1>11. slMme' = slMme /\ slSub' = slSub /\ slGsup' = slGsup
  BY DEF SlAccept
<1>12. Good(SlW')
  <2>1. SlW' \in [conn : SlConnFns, mme : SlMmeFns, sub : SlSubFns]
    BY <1>6, <1>11 DEF SlIInv, Good, SlW
  <2>2. ASSUME NEW d \in SlConns, ~slConn'[d].open PROVE slConn'[d] = SlNoConn
    BY ZenonT(30), <1>1, <1>3, <1>4, <1>7, <2>2 DEF SlIInv, Good, SlW
  <2>3. ASSUME NEW n \in SlNames, slMme[n].conn # SlNone
        PROVE  slConn'[slMme[n].conn].open /\ slConn'[slMme[n].conn].mme = n
    <3>1. slMme[n].conn \in SlConns
      BY <2>3 DEF SlIInv, Good, SlW, SlMmeFns
    <3>. QED
      BY <1>9, <1>10, <2>3, <3>1 DEF SlIInv, Good, SlW
  <2>4. ASSUME NEW d \in SlConns, slConn'[d].mme # SlNone
        PROVE  slMme[slConn'[d].mme].conn = d
    BY ZenonT(60), <1>9, <2>4 DEF SlIInv, Good, SlW
  <2>. QED
    BY <1>11, <2>1, <2>2, <2>3, <2>4 DEF Good, SlW
<1>13. Stale(SlW')
  <2>1. ASSUME NEW d \in SlConns, slConn'[d].named
        PROVE  slConn'[d].mme # SlNone \/ slConn'[d].dying
    <3>1. CASE d = c
      BY <1>1, <1>4, <2>1, <3>1
    <3>2. CASE d # c /\ d \in rep
      BY <1>4, <1>7, <3>2
    <3>3. CASE d # c /\ d \notin rep
      BY <1>4, <2>1, <3>3 DEF SlIInv, Stale, SlW
    <3>. QED
      BY <3>1, <3>2, <3>3
  <2>. QED
    BY <2>1 DEF Stale, SlW
<1>14. First(SlW') /\ Tried(SlW') /\ Sent(SlW', slGsup')
  BY <1>11 DEF SlIInv, First, Tried, Sent, SlW
<1>15. slGsup' \in BOOLEAN /\ Kept
  BY <1>11 DEF SlIInv, Kept
<1>. QED
  BY <1>12, <1>13, <1>14, <1>15 DEF SlIInv, Good, Stale, First, Tried, Sent
\* Messages that give a name.
LEMMA RxInv ==
  ASSUME SlIInv, NEW c \in SlConns, NEW n \in SlNames,
         \/ SlRxResetInd(c, n)
         \/ SlRxResetAck(c, n)
         \/ \E s \in SlSubs : SlRxLocUpdReq(c, n, s) \/ SlRxDetInd(c, n, s)
  PROVE  SlIInv' /\ Kept
<1> DEFINE r == SlFqdnReceived(SlW, c, n)
<1>1. SlReadable(c, n) /\ UNCHANGED slGsup
  BY DEF SlRxResetInd, SlRxResetAck, SlAcked, SlRxLocUpdReq, SlRxDetInd
<1>2. /\ Good(r) /\ Stale(r) /\ First(r) /\ Tried(r) /\ Sent(r, slGsup)
      /\ \A x \in SlNames : SlW.mme[x].fsm = "COMPLETE"
          => r.mme[x].fsm = "COMPLETE"
      /\ slGsup => r.mme[n].reset
  BY <1>1, FqdnGood
<1> HIDE DEF r
<1>3. CASE SlRxResetInd(c, n)
  <2> DEFINE w == SlDropAssocs(r, n)
  <2>1. SlBecome(w)
    BY <1>3 DEF SlRxResetInd, r
  <2>2. /\ Good(w) /\ w.conn = r.conn /\ w.mme = r.mme
        /\ \A s \in SlSubs : /\ w.sub[s].mme = r.sub[s].mme
                             /\ w.sub[s].st = IF r.sub[s].mme = n THEN "NULL"
                                              ELSE r.sub[s].st
    BY SMTT(30), <1>2, DropGood
  <2>3. Stale(w) /\ First(w) /\ Tried(w) /\ Sent(w, slGsup)
    BY <1>2, <2>2 DEF Stale, First, Tried, Sent
  <2>. QED
    BY <1>1, <1>2, <2>1, <2>2, <2>3, AllGood
<1>4. CASE SlRxResetAck(c, n)
  <2>1. CASE r.mme[n].fsm = "WAIT_ACK"
    <3> DEFINE f == [r.mme EXCEPT ![n].fsm = "COMPLETE"]
               w == [r EXCEPT !.mme = f]
    <3>1. SlBecome(w)
      <4>1. SlBecome([r EXCEPT !.mme[n].fsm = "COMPLETE"])
        BY <1>4, <2>1 DEF SlRxResetAck, SlAcked, r
      <4>. QED
        BY <4>1
    <3>2. /\ f \in SlMmeFns /\ f[n].fsm = "COMPLETE"
          /\ \A x \in SlNames : x # n => f[x] = r.mme[x]
      BY SMTT(30), <1>2 DEF Good, SlMmeFns
    <3>3. f[n].conn = r.mme[n].conn /\ f[n].reset = r.mme[n].reset
      BY SMTT(30), <1>2 DEF Good, SlMmeFns
    <3>4. \A x \in SlNames : f[x].conn = r.mme[x].conn
          /\ (r.mme[x].reset => f[x].reset)
      BY <3>2, <3>3
    <3>5. Good(w)
      BY <1>2, <3>2, <3>4, MmeOnly
    <3>6. w.conn = r.conn /\ w.mme = f /\ w.sub = r.sub
      BY <1>2 DEF Good
    <3>7. r.mme[n].reset
      BY <1>2, <2>1 DEF Tried
    <3>8. Stale(w) /\ First(w)
      BY <1>2, <3>4, <3>6 DEF Stale, First
    <3>9. Tried(w) /\ Sent(w, slGsup)
      BY SMTT(30), <1>2, <3>2, <3>4, <3>6, <3>7 DEF Tried, Sent
    <3>10. \A x \in SlNames : SlW.mme[x].fsm = "COMPLETE"
           => w.mme[x].fsm = "COMPLETE"
      BY SMTT(30), <1>2, <3>2, <3>6
    <3>. QED
      BY <1>1, <3>1, <3>5, <3>8, <3>9, <3>10, AllGood
  <2>2. CASE r.mme[n].fsm # "WAIT_ACK"
    <3>1. SlBecome(r)
      BY <1>4, <2>2 DEF SlRxResetAck, SlAcked, r
    <3>. QED
      BY <1>1, <1>2, <3>1, AllGood
  <2>. QED
    BY <2>1, <2>2
<1>5. ASSUME NEW s \in SlSubs, NEW v,
             v \in [st : {"NULL", "LU", "ASSOCIATED"},
                 mme : SlNames \cup {SlNone}],
             v.st # "NULL" => v.mme \in SlNames /\ r.mme[v.mme].reset,
             SlBecome([r EXCEPT !.sub = [r.sub EXCEPT ![s] = v]])
      PROVE  SlIInv' /\ Kept
  <2> DEFINE g == [r.sub EXCEPT ![s] = v]
             w == [r EXCEPT !.sub = g]
  <2>1. g \in SlSubFns /\ g[s] = v /\ \A t \in SlSubs : t # s
        => g[t] = r.sub[t]
    BY <1>2, <1>5 DEF Good, SlSubFns
  <2>2. Good(w)
    BY <1>2, <2>1, SubOnly
  <2>3. w.conn = r.conn /\ w.mme = r.mme /\ w.sub = g
    BY <1>2 DEF Good
  <2>4. Stale(w) /\ Tried(w) /\ Sent(w, slGsup)
    BY <1>2, <2>3 DEF Stale, Tried, Sent
  <2>5. First(w)
    BY SMTT(30), <1>2, <1>5, <2>1, <2>3 DEF First
  <2>. QED
    BY <1>1, <1>2, <1>5, <2>2, <2>3, <2>4, <2>5, AllGood
<1>6. ASSUME NEW s \in SlSubs, SlRxLocUpdReq(c, n, s)
      PROVE  SlIInv' /\ Kept
  <2>1. CASE slGsup
    <3> DEFINE v == [st |-> "LU", mme |-> n]
    <3>1. SlBecome([r EXCEPT !.sub = [r.sub EXCEPT ![s] = v]])
      BY <1>6, <2>1 DEF SlRxLocUpdReq, r
    <3>2. v \in [st : {"NULL", "LU", "ASSOCIATED"},
          mme : SlNames \cup {SlNone}]
          /\ (v.st # "NULL" => v.mme \in SlNames /\ r.mme[v.mme].reset)
      BY <1>2, <2>1
    <3> HIDE DEF v
    <3>. QED
      BY <1>5, <3>1, <3>2
  <2>2. CASE ~slGsup
    <3>1. SlBecome(r)
      BY <1>6, <2>2 DEF SlRxLocUpdReq, r
    <3>. QED
      BY <1>1, <1>2, <3>1, AllGood
  <2>. QED
    BY <2>1, <2>2
<1>7. ASSUME NEW s \in SlSubs, SlRxDetInd(c, n, s)
      PROVE  SlIInv' /\ Kept
  <2> DEFINE v == [r.sub[s] EXCEPT !.st = "NULL"]
  <2>1. SlBecome([r EXCEPT !.sub = [r.sub EXCEPT ![s] = v]])
    BY <1>7 DEF SlRxDetInd, r
  <2>2. v \in [st : {"NULL", "LU", "ASSOCIATED"}, mme : SlNames \cup {SlNone}]
        /\ v.st = "NULL"
    BY SMTT(30), <1>2 DEF Good, SlSubFns
  <2> HIDE DEF v
  <2>. QED
    BY <1>5, <2>1, <2>2
<1>. QED
  BY <1>3, <1>4, <1>6, <1>7

\* The HLR's answer, and Ts11.
LEMMA TimersInv ==
  ASSUME SlIInv,
         \/ \E s \in SlSubs, accepted \in BOOLEAN : SlLuEnds(s, accepted)
         \/ \E n \in SlNames : SlTs11Timeout(n)
  PROVE  SlIInv' /\ Kept
<1>1. ASSUME NEW s \in SlSubs, NEW accepted \in BOOLEAN, SlLuEnds(s, accepted)
      PROVE  SlIInv' /\ Kept
  <2> DEFINE w == [SlW EXCEPT !.sub = slSub']
  <2>1. slSub \in SlSubFns /\ Good(SlW)
    BY DEF SlIInv, Good, SlW
  <2>2. /\ slSub' \in SlSubFns /\ slSub'[s].mme = slSub[s].mme
           /\ slSub[s].st # "NULL"
        /\ \A t \in SlSubs : t # s => slSub'[t] = slSub[t]
    BY <1>1, <2>1 DEF SlLuEnds, SlSubFns
  <2>3. Good(w)
    BY <2>1, <2>2, SubOnly
  <2>4. SlBecome(w) /\ UNCHANGED slGsup /\ w.conn = slConn /\ w.mme = slMme
        /\ w.sub = slSub'
    BY <1>1 DEF SlLuEnds, SlBecome, SlW
  <2>5. Stale(w) /\ Tried(w) /\ Sent(w, slGsup)
    BY <2>4 DEF SlIInv, Stale, Tried, Sent, SlW
  <2>6. First(w)
    BY <2>2, <2>4 DEF SlIInv, First, SlW
  <2>7. SlW.mme = slMme
    BY DEF SlW
  <2> HIDE DEF w
  <2>. QED
    BY <2>3, <2>4, <2>5, <2>6, <2>7, AllGood
<1>2. ASSUME NEW n \in SlNames, SlTs11Timeout(n)
      PROVE  SlIInv' /\ Kept
  <2> DEFINE w == [SlW EXCEPT !.mme = slMme']
  <2>1. slMme \in SlMmeFns /\ Good(SlW) /\ slMme[n].fsm = "WAIT_ACK"
    BY <1>2 DEF SlIInv, Good, SlW, SlTs11Timeout
  <2>2. /\ slMme' \in SlMmeFns /\ slMme'[n].conn = slMme[n].conn
        /\ \A x \in SlNames : x # n => slMme'[x] = slMme[x]
    <3> DEFINE R == [conn : SlConns \cup {SlNone},
                     fsm : {"NULL", "WAIT_ACK", "COMPLETE"}, left : 0..SlNs11,
                     reset : BOOLEAN]
    <3>1. slMme[n] \in R
      BY <2>1 DEF SlMmeFns
    <3>2. CASE slMme[n].left >= 1
      <4>1. slMme' = [slMme EXCEPT ![n] = [slMme[n] EXCEPT !.left
            = slMme[n].left - 1]]
        BY <1>2, <3>2 DEF SlTs11Timeout
      <4>2. slMme[n].left - 1 \in 0..SlNs11
        BY SMTT(30), <3>1, <3>2, SlAssumption
      <4>3. [slMme[n] EXCEPT !.left = slMme[n].left - 1] \in R
        BY <3>1, <4>2, Zenon
      <4>4. [slMme[n] EXCEPT !.left = slMme[n].left - 1].conn = slMme[n].conn
        BY <3>1
      <4>. QED
        BY <2>1, <4>1, <4>3, <4>4 DEF SlMmeFns
    <3>3. CASE ~(slMme[n].left >= 1)
      <4>1. slMme' = [slMme EXCEPT ![n] = [slMme[n] EXCEPT !.fsm = "NULL"]]
        BY <1>2, <3>3 DEF SlTs11Timeout
      <4>2. [slMme[n] EXCEPT !.fsm = "NULL"] \in R
            /\ [slMme[n] EXCEPT !.fsm = "NULL"].conn = slMme[n].conn
        BY <3>1
      <4>. QED
        BY <2>1, <4>1, <4>2 DEF SlMmeFns
    <3>. QED
      BY <3>2, <3>3
  <2>3. slMme'[n].reset = slMme[n].reset
    BY <1>2, <2>1 DEF SlTs11Timeout, SlMmeFns
  <2>4. \A x \in SlNames : slMme'[x].conn = slMme[x].conn
                           /\ (slMme[x].reset => slMme'[x].reset)
    BY <2>2, <2>3
  <2>5. Good(w)
    BY <2>1, <2>2, <2>4, MmeOnly DEF SlW
  <2>6. SlBecome(w) /\ UNCHANGED slGsup /\ w.conn = slConn /\ w.mme = slMme'
        /\ w.sub = slSub
    BY <1>2 DEF SlTs11Timeout, SlBecome, SlW
  <2>7. Stale(w) /\ First(w)
    BY <2>4, <2>6 DEF SlIInv, Stale, First, SlW
  <2>8. slMme[n].reset
    BY <2>1 DEF SlIInv, Tried, SlW
  <2>9. Tried(w) /\ Sent(w, slGsup)
    BY <2>2, <2>4, <2>6, <2>8 DEF SlIInv, Tried, Sent, SlW
  <2>10. \A x \in SlNames : SlW.mme[x].fsm = "COMPLETE"
         => w.mme[x].fsm = "COMPLETE"
    BY <2>1, <2>2, <2>6 DEF SlW
  <2> HIDE DEF w
  <2>. QED
    BY <2>5, <2>6, <2>7, <2>9, <2>10, AllGood
<1>. QED
  BY <1>1, <1>2
\* When GSUP comes up, all resets that are due are made up for.
LEMMA GsupInv ==
  ASSUME SlIInv, SlGsupUp \/ SlGsupDown
  PROVE  SlIInv' /\ Kept
<1>1. CASE SlGsupUp
  <2> DEFINE due == {n \in SlNames : slMme[n].conn # SlNone
             /\ slMme[n].fsm = "NULL"}
             w == [[SlW EXCEPT !.mme = slMme'] EXCEPT !.sub = slSub']
             S(n) == SlStartReset(SlW, n)
  <2>1. slMme \in SlMmeFns /\ slSub \in SlSubFns /\ Good(SlW)
    BY DEF SlIInv, Good, SlW
  <2>2. \A n \in SlNames : /\ Good(S(n)) /\ S(n).mme[n].conn = slMme[n].conn
                           /\ S(n).mme[n].reset /\ S(n).mme[n].fsm = "WAIT_ACK"
    BY ZenonT(60), <2>1, StartGood DEF SlW
  <2>3. \A n \in SlNames : S(n).mme[n] \in [conn : SlConns \cup {SlNone},
                             fsm : {"NULL", "WAIT_ACK", "COMPLETE"},
                             left : 0..SlNs11, reset : BOOLEAN]
    BY ZenonT(60), <2>2 DEF Good, SlMmeFns
  <2> HIDE DEF S
  <2>4. slMme' = [n \in SlNames |-> IF n \in due
        THEN S(n).mme[n] ELSE slMme[n]]
    BY <1>1 DEF SlGsupUp, S
  <2>5. slSub' = [s \in SlSubs |-> IF slSub[s].mme \in due
                                     THEN [slSub[s] EXCEPT !.st = "NULL"]
                                         ELSE slSub[s]]
    BY <1>1 DEF SlGsupUp
  <2>6. slMme' \in SlMmeFns
    BY <2>1, <2>3, <2>4 DEF SlMmeFns
  <2>7. slSub' \in SlSubFns
    BY ZenonT(60), <2>1, <2>5 DEF SlSubFns
  <2>8. \A s \in SlSubs : /\ slSub'[s].mme = slSub[s].mme
                          /\ slSub'[s].st # "NULL" => slSub[s].st # "NULL"
    BY <2>1, <2>5 DEF SlSubFns
  <2>9. \A n \in SlNames : n \in due => slMme'[n].conn = slMme[n].conn
                             /\ slMme'[n].reset /\ slMme'[n].fsm = "WAIT_ACK"
    BY <2>2, <2>4
  <2>10. \A n \in SlNames : n \notin due => slMme'[n] = slMme[n]
    BY <2>4
  <2>11. \A n \in SlNames : slMme'[n].conn = slMme[n].conn
                            /\ (slMme[n].reset => slMme'[n].reset)
    BY <2>9, <2>10
  <2>12. Good([SlW EXCEPT !.mme = slMme'])
    BY <2>1, <2>6, <2>11, MmeOnly DEF SlW
  <2>13. Good(w)
    BY <2>7, <2>12, SubOnly
  <2>14. slConn' = slConn /\ slGsup' = TRUE
    BY <1>1 DEF SlGsupUp
  <2>15. SlW' = w
    <3>1. w = [conn |-> slConn, mme |-> slMme', sub |-> slSub']
      <4>1. [SlW EXCEPT !.mme = slMme']
            = [conn |-> slConn, mme |-> slMme', sub |-> slSub]
        BY DEF SlW
      <4>2. [[conn |-> slConn, mme |-> slMme',
            sub |-> slSub] EXCEPT !.sub = slSub']
              = [conn |-> slConn, mme |-> slMme', sub |-> slSub']
        OBVIOUS
      <4>. QED
        BY <4>1, <4>2
    <3>. QED
      BY <2>14, <3>1 DEF SlW
  <2>16. Stale(SlW')
    BY <2>14 DEF SlIInv, Stale, SlW
  <2>17. First(SlW')
    BY <2>8, <2>11 DEF SlIInv, First, SlW
  <2>18. Tried(SlW')
    BY <2>9, <2>10 DEF SlIInv, Tried, SlW
  <2>19. Sent(SlW', slGsup')
    <3>1. ASSUME NEW n \in SlNames, slMme'[n].conn # SlNone
                 PROVE slMme'[n].reset
      <4>1. CASE n \in due
        BY <2>9, <4>1
      <4>2. CASE n \notin due
        <5>1. slMme[n].fsm # "NULL"
          BY <2>10, <3>1, <4>2
        <5>2. slMme[n].reset
          BY <5>1 DEF SlIInv, Tried, SlW
        <5>. QED
          BY <2>11, <5>2
      <4>. QED
        BY <4>1, <4>2
    <3>. QED
      BY <3>1 DEF Sent, SlW
  <2>20. Kept
    BY <2>10 DEF Kept
  <2> HIDE DEF w
  <2>21. Good(SlW')
    BY <2>13, <2>15
  <2>. QED
    BY <2>14, <2>16, <2>17, <2>18, <2>19, <2>20, <2>21
       DEF SlIInv, Good, Stale, First, Tried, Sent
<1>2. CASE SlGsupDown
  <2>1. SlW' = SlW /\ slGsup' = FALSE /\ slMme' = slMme
    BY <1>2 DEF SlGsupDown, SlW
  <2>2. Good(SlW') /\ Stale(SlW') /\ First(SlW') /\ Tried(SlW')
        /\ Sent(SlW', slGsup')
    BY <2>1 DEF SlIInv, Sent
  <2>3. Kept
    BY <2>1 DEF Kept
  <2>. QED
    BY <2>1, <2>2, <2>3 DEF SlIInv, Good, Stale, First, Tried, Sent
<1>. QED
  BY <1>1, <1>2

\* The inductive invariant holds initially.
LEMMA InitInv == SlInit => SlIInv
<1> SUFFICES ASSUME SlInit PROVE SlIInv
  OBVIOUS
<1>1. SlW \in [conn : SlConnFns, mme : SlMmeFns, sub : SlSubFns]
  <2>1. slConn \in SlConnFns
    BY DEF SlInit, SlNoConn, SlConnFns
  <2>2. slMme \in SlMmeFns
    BY SlAssumption DEF SlInit, SlMmeFns
  <2>3. slSub \in SlSubFns
    BY DEF SlInit, SlSubFns
  <2>. QED
    BY <2>1, <2>2, <2>3 DEF SlW
<1>2. Good(SlW)
  BY <1>1 DEF SlInit, Good, SlW, SlNoConn
<1>3. Stale(SlW) /\ First(SlW) /\ Tried(SlW) /\ Sent(SlW, slGsup)
      /\ slGsup \in BOOLEAN
  BY DEF SlInit, Stale, First, Tried, Sent, SlW, SlNoConn
<1>. QED
  BY <1>2, <1>3 DEF SlIInv

\* Every step keeps it and no step undoes an acknowledged reset.
LEMMA StepInv == SlIInv /\ [SlNext]_slVars => SlIInv' /\ [Kept]_slVars
<1> SUFFICES ASSUME SlIInv, [SlNext]_slVars PROVE SlIInv' /\ [Kept]_slVars
  OBVIOUS
<1>1. ASSUME NEW c \in SlConns, SlLost(c) \/ SlDestroyTimeout(c)
      PROVE  SlIInv' /\ Kept
  <2>1. SlBecome(SlClosed(SlW, c)) /\ UNCHANGED slGsup
    BY <1>1 DEF SlLost, SlDestroyTimeout
  <2> DEFINE w == SlClosed(SlW, c)
  <2>2. /\ Good(w) /\ Stale(w) /\ First(w) /\ Sent(w, slGsup)
        /\ \A n \in SlNames : /\ w.mme[n].fsm = SlW.mme[n].fsm
                              /\ w.mme[n].reset = SlW.mme[n].reset
    BY ClosedGood DEF SlIInv
  <2>3. Tried(w)
    BY <2>2 DEF SlIInv, Tried
  <2>. QED
    BY <2>1, <2>2, <2>3, AllGood
<1>2. CASE UNCHANGED slVars
  BY <1>2 DEF SlIInv, slVars, Good, Stale, First, Tried, Sent, SlW
<1>3. CASE SlNext
  BY <1>1, <1>3, AcceptInv, RxInv, TimersInv, GsupInv DEF SlNext
<1>. QED
  BY <1>2, <1>3

\* The properties of the module follow from the inductive invariant.
LEMMA IInvImplies ==
  SlIInv => SlTypeOK /\ SlLinked /\ SlStaleCloses /\ SlResetSent
      /\ SlResetFirst
<1> SUFFICES ASSUME SlIInv
             PROVE  SlTypeOK /\ SlLinked /\ SlStaleCloses /\ SlResetSent
                    /\ SlResetFirst
  OBVIOUS
<1>1. SlTypeOK
  BY DEF SlIInv, Good, SlW, SlTypeOK, SlConnFns, SlMmeFns, SlSubFns
<1>2. SlLinked
  BY DEF SlIInv, Good, SlW, SlLinked
<1>3. SlStaleCloses /\ SlResetSent /\ SlResetFirst
  BY DEF SlIInv, Stale, First, Sent, SlW, SlStaleCloses, SlResetSent,
      SlResetFirst
<1>. QED
  BY <1>1, <1>2, <1>3

\* For any number of connections, MMEs and subscribers: the state keeps its types
\* and a closed connection (sgs_conn_closed_cb()) leaves nothing behind.
THEOREM LinkTypes == SlSpec => []SlTypeOK
<1>. QED
  BY InitInv, StepInv, IInvImplies, PTL DEF SlSpec

\* sgs_mme_fqdn_received() and sgs_conn_closed_cb() keep the pointers between
\* connections and MME contexts mutual, for any number of them.
THEOREM LinksMutual == SlSpec => []SlLinked
<1>. QED
  BY InitInv, StepInv, IInvImplies, PTL DEF SlSpec

\* A link that was replaced is always on its way to be closed.
THEOREM StaleLinksClose == SlSpec => []SlStaleCloses
<1>. QED
  BY InitInv, StepInv, IInvImplies, PTL DEF SlSpec

\* No order of GSUP and MME links leaves an MME without RESET-INDICATION
\* (sgs_mme_maybe_vlr_reset(), sgs_gsup_link_changed()).
THEOREM ResetNotForgotten == SlSpec => []SlResetSent
<1>. QED
  BY InitInv, StepInv, IInvImplies, PTL DEF SlSpec

\* No association or LU is older than the RESET-INDICATION to its MME.
THEOREM ResetComesFirst == SlSpec => []SlResetFirst
<1>. QED
  BY InitInv, StepInv, IInvImplies, PTL DEF SlSpec

\* An acknowledged VLR reset is never repeated (sgs_mme_maybe_vlr_reset()).
THEOREM CompleteIsFinal == SlSpec => SlCompleteStays
<1>1. [Kept]_slVars => [\A n \in SlNames : slMme[n].fsm = "COMPLETE"
                                             => slMme'[n].fsm
                                                 = "COMPLETE"]_slVars
  BY DEF Kept
<1>. QED
  BY InitInv, StepInv, <1>1, PTL DEF SlSpec, SlCompleteStays
=============================================================================
