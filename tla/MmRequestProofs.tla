-------------------------- MODULE MmRequestProofs --------------------------
(***************************************************************************)
(* Proofs about MmConn, second part: the link between a connection and the *)
(* record, the start of a procedure, the end of an authentication session, *)
(* and the requests of the MS.                                             *)
(***************************************************************************)
EXTENDS MmProcProofs

(* The first-order prover first: most steps instantiate lemmas.            *)
USE ZenonT(10), SMTT(30)

-----------------------------------------------------------------------------
(* The link between a connection and the record.                           *)

(* MSC_A_EV_CN_CLOSE to a connection without the subscriber cancels        *)
(* nothing.                                                                *)
LEMMA CnCloseAlone ==
  ASSUME NEW w \in WType, NEW c \in Conns, ~w.conn[c].vsub
  PROVE  LET v == CnClose(w, c)
         IN /\ v \in WType /\ SubQuiet(w.sub, v.sub)
            /\ v.sub.lu_fsm = w.sub.lu_fsm /\ v.sub.auth_fsm = w.sub.auth_fsm
            /\ \A d \in Conns \ {c} : v.conn[d] = w.conn[d]
            /\ v.conn[c].vsub = w.conn[c].vsub /\ v.conn[c].lu = w.conn[c].lu
            /\ v.conn[c].parq = w.conn[c].parq /\ v.conn[c].auth = w.conn[c].auth
            /\ v.conn[c].st \in InRelease \cup {"none"}
            /\ v.conn[c].st = "none" => v.conn[c] = w.conn[c]
  <1> DEFINE u == Evaluated(w, {c})
             v == CnClose(w, c)
  <1>1. CASE c \in LiveConns(w)
    <2>1. /\ u \in WType /\ u.conn = w.conn /\ SubQuiet(w.sub, u.sub)
          /\ u.sub.lu_fsm = w.sub.lu_fsm /\ u.sub.auth_fsm = w.sub.auth_fsm
      BY EvaluatedIs
    <2>2. v = Release(u, c)
      BY <1>1 DEF CnClose
    <2> HIDE DEF u, v
    <2>3. v = Close(u, {c})
      BY <2>1, <2>2 DEF Release
    <2>4. /\ v \in WType /\ SubQuiet(u.sub, v.sub)
          /\ v.sub.lu_fsm = u.sub.lu_fsm /\ v.sub.auth_fsm = u.sub.auth_fsm
          /\ \A d \in Conns \ {c} : v.conn[d] = u.conn[d]
          /\ v.conn[c].st = "RELEASING" /\ v.conn[c].vsub = u.conn[c].vsub
          /\ v.conn[c].lu = u.conn[c].lu
          /\ v.conn[c].parq = u.conn[c].parq /\ v.conn[c].auth = u.conn[c].auth
      BY SMTT(30), <2>1, <2>3, CloseIs
    <2>5. SubQuiet(w.sub, v.sub)
      BY <2>1, <2>4 DEF SubQuiet
    <2> QED BY <2>1, <2>4, <2>5 DEF v, InRelease
  <1>2. CASE c \notin LiveConns(w)
    <2>1. v = w
      BY <1>2 DEF CnClose
    <2> HIDE DEF v
    <2> QED BY <1>2, <2>1 DEF LiveConns, v, SubQuiet
  <1> HIDE DEF v
  <1> QED BY <1>1, <1>2 DEF v

(* What SetVsub() and Assoc() leave of the record.                         *)
SameFsms(s, t) ==
  /\ t.lu_fsm = s.lu_fsm /\ t.parq_fsm = s.parq_fsm /\ t.auth_fsm = s.auth_fsm
  /\ t.classmark = s.classmark

(* And of the connection they are about: all but its subscriber.           *)
SameButVsub(r, q) ==
  /\ q.st = r.st /\ q.ran = r.ran /\ q.l3 = r.l3 /\ q.lu = r.lu /\ q.parq = r.parq
  /\ q.auth = r.auth /\ q.cmd = r.cmd /\ q.authed = r.authed /\ q.use = r.use

(* And once a connection r has the subscriber.                             *)
Associated(r, q) ==
  /\ q.st = IF r.st = "VALIDATE_L3" THEN "AUTH_CIPH" ELSE r.st
  /\ q.vsub /\ q.ran = r.ran /\ q.l3 = r.l3 /\ q.lu = r.lu /\ q.parq = r.parq
  /\ q.cmd = r.cmd /\ q.authed = r.authed /\ q.use = r.use

(* msub_set_vsub(): at the end the two links point to each other, and the  *)
(* connection that had the subscriber is in release.                       *)
LEMMA SetVsubIs ==
  ASSUME NEW w \in WType, NEW P, NEW S, Pointers(w, P, S), NEW c \in Conns,
         w.conn[c].st # "none", \A d \in S : w.conn[d].st # "none"
  PROVE  LET v == SetVsub(w, c)
         IN /\ v \in WType /\ SameFsms(w.sub, v.sub) /\ SameButVsub(w.conn[c], v.conn[c])
            /\ \A d \in Conns \ {c} : \/ v.conn[d] = w.conn[d]
                                      \/ v.conn[d].st \in InRelease
            /\ Associable(w, c) => v.conn[c].vsub /\ Pointers(v, P, {})
            /\ ~Associable(w, c) => v = w
  <1> DEFINE o == w.sub.msc_msub
             v == SetVsub(w, c)
  <1>0. /\ w.sub \in SubType /\ None \notin Conns /\ w.conn \in [Conns -> ConnType]
        /\ \A d \in Conns : w.conn[d] \in ConnType
    BY Parts
  <1>00. o \in Conns \cup {None} /\ w.sub.msc_msub = o
    BY <1>0 DEF SubType
  <1> HIDE DEF o
  <1>1. CASE w.conn[c].vsub
    <2>1. v = w
      BY <1>1 DEF SetVsub
    <2>2. o = c
      BY <1>00, <1>1 DEF Pointers, Pointed
    <2>3. Pointers(w, P, {})
      BY <1>00, <1>1, <2>2 DEF Pointers, Pointed
    <2> HIDE DEF v
    <2> QED BY <1>1, <2>1, <2>3 DEF v, SameFsms, SameButVsub, Associable
  <1>2. CASE ~w.conn[c].vsub /\ ~Replaces(w, c)
    <2>1. v = w
      BY <1>2 DEF SetVsub
    <2> HIDE DEF v
    <2> QED BY <1>2, <2>1 DEF v, SameFsms, SameButVsub, Associable
  <1>3. CASE ~w.conn[c].vsub /\ Replaces(w, c)
    <2> DEFINE qo == [w.conn[o] EXCEPT !.vsub = FALSE]
               so == [w.sub EXCEPT !.msc_msub = IF w.conn[o].vsub THEN None ELSE @]
               x == [w EXCEPT !.conn = [w.conn EXCEPT ![o] = qo], !.sub = so]
               y == IF o \in {None, c} THEN w ELSE CnClose(x, o)
               q == [y.conn[c] EXCEPT !.vsub = TRUE]
               s == [y.sub EXCEPT !.msc_msub = c]
               f == [y.conn EXCEPT ![c] = q]
    <2>1. v = [y EXCEPT !.conn = f, !.sub = s]
      BY SMTT(30), <1>3 DEF SetVsub, o
    <2>0. /\ o \in {None, c} => y = w
          /\ o \notin {None, c} => y = CnClose(x, o)
      OBVIOUS
    <2> HIDE DEF y, x
    <2>2. /\ y \in WType /\ SameFsms(w.sub, y.sub) /\ y.conn[c] = w.conn[c]
          /\ \A d \in Conns \ {c} :
               /\ y.conn[d].lu = w.conn[d].lu /\ y.conn[d].parq = w.conn[d].parq
               /\ y.conn[d].auth = w.conn[d].auth /\ ~y.conn[d].vsub
               /\ y.conn[d] = w.conn[d] \/ y.conn[d].st \in InRelease
      <3>1. CASE o \in {None, c}
        <4>1. y = w
          BY <2>0, <3>1
        <4>2. \A d \in Conns \ {c} : ~w.conn[d].vsub
          BY SMTT(30), <1>0, <1>00, <3>1 DEF Pointers, Pointed
        <4> QED BY <4>1, <4>2 DEF SameFsms
      <3>2. CASE o \notin {None, c}
        <4>1. o \in Conns /\ w.conn[o] \in ConnType /\ o # c
          BY <1>0, <1>00, <3>2
        <4>2. w.conn[o].st # "none"
          BY SMTT(30), <1>00, <4>1 DEF Pointers, Pointed, NoConn
        <4>3. qo \in ConnType /\ ~qo.vsub /\ qo.lu = w.conn[o].lu /\ qo.st = w.conn[o].st
              /\ qo.parq = w.conn[o].parq /\ qo.auth = w.conn[o].auth
          BY Zenon, <4>1 DEF ConnType
        <4>4. so \in SubType /\ SameFsms(w.sub, so)
          BY ZenonT(30), <1>0 DEF SubType, SameFsms
        <4>5. y = CnClose(x, o)
          BY <2>0, <3>2
        <4> DEFINE fo == [w.conn EXCEPT ![o] = qo]
        <4> HIDE DEF qo, so
        <4>6. fo \in [Conns -> ConnType] /\ fo[o] = qo
              /\ \A d \in Conns \ {o} : fo[d] = w.conn[d]
          BY <1>0, <4>1, <4>3
        <4>7. x = [w EXCEPT !.conn = fo, !.sub = so]
          BY DEF x
        <4> HIDE DEF fo
        <4>8. x \in WType /\ x.conn = fo /\ x.sub = so
          BY Zenon, <4>4, <4>6, <4>7 DEF WType
        <4>9. ~x.conn[o].vsub
          BY <4>3, <4>6, <4>8
        <4>10. /\ y \in WType /\ SubQuiet(x.sub, y.sub)
               /\ y.sub.lu_fsm = x.sub.lu_fsm /\ y.sub.auth_fsm = x.sub.auth_fsm
               /\ \A d \in Conns \ {o} : y.conn[d] = x.conn[d]
               /\ y.conn[o].vsub = x.conn[o].vsub /\ y.conn[o].lu = x.conn[o].lu
               /\ y.conn[o].parq = x.conn[o].parq /\ y.conn[o].auth = x.conn[o].auth
               /\ y.conn[o].st \in InRelease \cup {"none"}
               /\ y.conn[o].st = "none" => y.conn[o] = x.conn[o]
          BY ZenonT(30), <4>1, <4>5, <4>8, <4>9, CnCloseAlone
        <4>11. SameFsms(w.sub, y.sub)
          BY <4>4, <4>8, <4>10 DEF SameFsms, SubQuiet
        <4>12. y.conn[c] = w.conn[c]
          BY <4>1, <4>6, <4>8, <4>10
        <4>13. y.conn[o].st \in InRelease
          BY ZenonT(60), <4>2, <4>3, <4>6, <4>8, <4>10
        <4>14. ASSUME NEW d \in Conns \ {c}
               PROVE  /\ y.conn[d].lu = w.conn[d].lu /\ y.conn[d].parq = w.conn[d].parq
                      /\ y.conn[d].auth = w.conn[d].auth /\ ~y.conn[d].vsub
                      /\ y.conn[d] = w.conn[d] \/ y.conn[d].st \in InRelease
          <5>1. CASE d = o
            BY <4>3, <4>6, <4>8, <4>10, <4>13, <5>1
          <5>2. CASE d # o
            <6>1. y.conn[d] = w.conn[d]
              BY <4>6, <4>8, <4>10, <5>2
            <6>2. ~w.conn[d].vsub
              BY ZenonT(60), <1>00, <5>2 DEF Pointers, Pointed
            <6> QED BY <6>1, <6>2
          <5> QED BY <5>1, <5>2
        <4> QED BY <4>10, <4>11, <4>12, <4>14
      <3> QED BY <3>1, <3>2
    <2>3. y.conn \in [Conns -> ConnType] /\ y.sub \in SubType /\ y.conn[c] \in ConnType
      BY <2>2, Parts
    <2>4. q \in ConnType /\ SameButVsub(w.conn[c], q) /\ q.vsub
      BY Zenon, <2>2, <2>3 DEF ConnType, SameButVsub
    <2>5. s \in SubType /\ SameFsms(w.sub, s) /\ s.msc_msub = c
      BY <2>2, <2>3 DEF SubType, SameFsms
    <2> HIDE DEF q, s
    <2>6. f \in [Conns -> ConnType] /\ f[c] = q /\ \A d \in Conns \ {c} : f[d] = y.conn[d]
      BY <2>3, <2>4
    <2> HIDE DEF f, v
    <2>7. v \in WType /\ v.conn = f /\ v.sub = s
      BY Zenon, <2>1, <2>2, <2>5, <2>6 DEF WType
    <2>8. \A d \in Conns :
            /\ v.conn[d].lu = w.conn[d].lu /\ v.conn[d].parq = w.conn[d].parq
            /\ v.conn[d].auth = w.conn[d].auth
            /\ v.conn[d].vsub <=> d = c
            /\ v.conn[d].st = "none" => v.conn[d] = w.conn[d]
      <3> TAKE d \in Conns
      <3>1. CASE d = c
        BY <2>4, <2>6, <2>7, <3>1 DEF SameButVsub
      <3>2. CASE d # c
        BY ZenonT(60), <2>2, <2>6, <2>7, <3>2 DEF InRelease
      <3> QED BY <3>1, <3>2
    <2>9. Pointers(v, P, {})
      <3>1. v.sub.lu_fsm = w.sub.lu_fsm /\ v.sub.parq_fsm = w.sub.parq_fsm
            /\ v.sub.auth_fsm = w.sub.auth_fsm /\ v.sub.msc_msub = c
        BY <2>5, <2>7 DEF SameFsms
      <3>2. AuthPointer(v)
        <4>1. AuthPointer(w)
          BY DEF Pointers
        <4> QED BY SMTT(30), <2>8, <3>1, <4>1, AuthCarries
      <3>3. ASSUME NEW d \in Conns PROVE Pointed(v.conn[d], v.sub, d, P, {})
        <4>1. Pointed(w.conn[d], w.sub, d, P, S)
          BY DEF Pointers
        <4> DEFINE r == w.conn[d]
                   t == v.conn[d]
        <4>2. /\ t.lu = r.lu /\ t.parq = r.parq /\ (t.vsub <=> d = c)
              /\ t.st = "none" => t = r
          BY <2>8
        <4>3. Pointed(r, w.sub, d, P, S)
          BY <4>1
        <4> HIDE DEF r, t
        <4>4. Pointed(t, v.sub, d, P, {})
          BY <3>1, <4>2, <4>3 DEF Pointed
        <4> QED BY <4>4 DEF t
      <3> QED BY <3>2, <3>3 DEF Pointers
    <2>10. \A d \in Conns \ {c} : v.conn[d] = w.conn[d] \/ v.conn[d].st \in InRelease
      BY <2>2, <2>6, <2>7
    <2> QED BY <1>3, <2>4, <2>5, <2>6, <2>7, <2>9, <2>10 DEF v, Associable
  <1> HIDE DEF v
  <1> QED BY <1>1, <1>2, <1>3 DEF v

(* msc_vlr_subscr_assoc().                                                 *)
LEMMA AssocKeeps ==
  ASSUME NEW w \in WType, NEW P, NEW S, Pointers(w, P, S), NEW c \in Conns,
         w.conn[c].st # "none", \A d \in S : w.conn[d].st # "none",
         Associable(w, c), AllSettled(w, {c})
  PROVE  LET v == Assoc(w, c)
         IN /\ v \in WType /\ SameFsms(w.sub, v.sub) /\ Pointers(v, P, {})
            /\ AllSettled(v, {c}) /\ Associated(w.conn[c], v.conn[c])
  <1> DEFINE r == w.conn[c]
             u == SetVsub(w, c)
             v == Assoc(w, c)
  <1>1. /\ u \in WType /\ SameFsms(w.sub, u.sub) /\ SameButVsub(r, u.conn[c])
        /\ \A d \in Conns \ {c} : u.conn[d] = w.conn[d] \/ u.conn[d].st \in InRelease
        /\ u.conn[c].vsub /\ Pointers(u, P, {})
    BY SetVsubIs
  <1> HIDE DEF u
  <1>2. AllSettled(u, {c})
    <2> SUFFICES ASSUME NEW d \in Conns \ {c} PROVE Settled(u.conn[d], u.sub.classmark)
      BY DEF AllSettled
    <2>1. CASE u.conn[d] = w.conn[d]
      BY <1>1, <2>1 DEF AllSettled, SameFsms
    <2>2. CASE u.conn[d].st \in InRelease
      BY <2>2, ReleasedSettled
    <2> QED BY <1>1, <2>1, <2>2
  <1>3. CASE u.conn[c].st = "VALIDATE_L3"
    <2> DEFINE q == [u.conn[c] EXCEPT !.st = "AUTH_CIPH"]
    <2>1. v = [u EXCEPT !.conn = [u.conn EXCEPT ![c] = q]]
      BY <1>3 DEF Assoc, St, u
    <2>2. /\ q \in ConnType /\ q.st = "AUTH_CIPH" /\ q.lu = u.conn[c].lu
          /\ q.vsub = u.conn[c].vsub /\ q.parq = u.conn[c].parq /\ q.auth = u.conn[c].auth
          /\ q.ran = u.conn[c].ran /\ q.l3 = u.conn[c].l3 /\ q.cmd = u.conn[c].cmd
          /\ q.authed = u.conn[c].authed /\ q.use = u.conn[c].use
      <3>1. u.conn[c] \in ConnType
        BY <1>1, Parts
      <3> QED BY <3>1 DEF ConnType, ConnStates, Establishing
    <2> HIDE DEF q, v
    <2>3. /\ v \in WType /\ v.sub = u.sub /\ v.conn[c] = q
          /\ \A d \in Conns \ {c} : v.conn[d] = u.conn[d]
          /\ Pointers(v, P, {})
      <3>1. /\ v \in WType /\ v.sub = u.sub /\ v.conn[c] = q
            /\ \A d \in Conns \ {c} : v.conn[d] = u.conn[d]
        BY SMTT(30), <1>1, <2>1, <2>2, ConnIs
      <3>2. q.st # "none"
        BY <2>2
      <3>3. Pointers(v, P, {})
        BY Zenon, <1>1, <2>1, <2>2, <3>2, ConnKeeps
      <3> QED BY <3>1, <3>3
    <2>4. AllSettled(v, {c})
      BY <1>2, <2>3 DEF AllSettled
    <2>5. Associated(r, q)
      BY <1>1, <1>3, <2>2 DEF Associated, SameButVsub
    <2> QED BY <1>1, <2>3, <2>4, <2>5 DEF v
  <1>4. CASE u.conn[c].st # "VALIDATE_L3"
    <2>1. v = u
      BY <1>4 DEF Assoc, u
    <2> HIDE DEF v
    <2>2. Associated(r, u.conn[c])
      BY <1>1, <1>4 DEF Associated, SameButVsub
    <2> QED BY <1>1, <1>2, <2>1, <2>2 DEF v
  <1> HIDE DEF v
  <1> QED BY <1>3, <1>4 DEF v

(* A session that loses its PARQ to a newer one is still pointed to.       *)
LEMMA OrphanKeeps ==
  ASSUME NEW w \in WType, NEW P, NEW S, Pointers(w, P, S), NEW c \in Conns,
         w.conn[c].st # "none"
  PROVE  LET v == Orphan(w, c)
         IN /\ v \in WType /\ Pointers(v, P, S)
            /\ v.sub.lu_fsm = w.sub.lu_fsm /\ v.sub.parq_fsm = w.sub.parq_fsm
            /\ v.sub.msc_msub = w.sub.msc_msub /\ v.sub.classmark = w.sub.classmark
            /\ \A d \in Conns \ {c} : v.conn[d] = w.conn[d]
            /\ Base(w.conn[c], v.conn[c]) /\ v.conn[c].lu = w.conn[c].lu
            /\ v.conn[c].parq = w.conn[c].parq
  <1> DEFINE r == w.conn[c]
             a == [r.auth EXCEPT !["old"] = r.auth["parq"], !["parq"] = "none"]
             q == [r EXCEPT !.auth = a]
             f == [w.conn EXCEPT ![c] = q]
             t == IF w.sub.auth_fsm = <<c, "parq">> THEN <<c, "old">> ELSE w.sub.auth_fsm
             s == [w.sub EXCEPT !.auth_fsm = t]
             v == Orphan(w, c)
  <1>1. r \in ConnType /\ w.conn \in [Conns -> ConnType] /\ w.sub \in SubType
        /\ None \notin Conns
    BY Parts
  <1>2. CASE r.auth["parq"] = "none"
    <2>1. v = w
      BY <1>2 DEF Orphan
    <2> HIDE DEF v
    <2> QED BY <2>1 DEF v, Base
  <1>3. CASE r.auth["parq"] # "none"
    <2>1. v = [w EXCEPT !.conn = f, !.sub = s]
      BY <1>3 DEF Orphan
    <2>2. a \in [Parents -> AuthStates] /\ a["old"] # "none" /\ a["lu"] = r.auth["lu"]
      BY <1>1, <1>3 DEF ConnType, AuthStates, Parents
    <2> HIDE DEF a
    <2>3. q \in ConnType /\ Base(r, q) /\ q.lu = r.lu /\ q.parq = r.parq /\ q.auth = a
      BY <1>1, <2>2 DEF ConnType, Base
    <2>4. t \in (Conns \X Parents) \cup {None}
      BY <1>1 DEF SubType, Parents
    <2> HIDE DEF t
    <2>5. s \in SubType /\ s.auth_fsm = t /\ s.lu_fsm = w.sub.lu_fsm
          /\ s.parq_fsm = w.sub.parq_fsm /\ s.msc_msub = w.sub.msc_msub
          /\ s.classmark = w.sub.classmark
      BY <1>1, <2>4 DEF SubType
    <2> HIDE DEF q, s
    <2>6. f \in [Conns -> ConnType] /\ f[c] = q /\ \A d \in Conns \ {c} : f[d] = w.conn[d]
      BY <1>1, <2>3
    <2> HIDE DEF f, v
    <2>7. v \in WType /\ v.conn = f /\ v.sub = s
      BY <2>1, <2>5, <2>6 DEF WType
    <2>8. \A d \in Conns : /\ v.conn[d].lu = w.conn[d].lu /\ v.conn[d].parq = w.conn[d].parq
                           /\ v.conn[d].vsub = w.conn[d].vsub
                           /\ v.conn[d].st = "none" => v.conn[d] = w.conn[d]
      <3> TAKE d \in Conns
      <3>1. CASE d = c
        BY <2>3, <2>6, <2>7, <3>1 DEF Base
      <3>2. CASE d # c
        BY <2>6, <2>7, <3>2
      <3> QED BY <3>1, <3>2
    <2>9. AuthPointer(v)
      <3> SUFFICES ASSUME NEW b \in Conns, NEW k \in Parents, t # None, t = <<b, k>>
                   PROVE  v.conn[b].auth[k] # "none"
        BY <2>5, <2>7 DEF AuthPointer
      <3>1. CASE w.sub.auth_fsm = <<c, "parq">>
        <4>1. <<b, k>> = <<c, "old">>
          BY <3>1 DEF t
        <4>2. b = c /\ k = "old"
          BY <4>1
        <4> QED BY <2>2, <2>3, <2>6, <2>7, <4>2
      <3>2. CASE w.sub.auth_fsm # <<c, "parq">>
        <4>1. w.sub.auth_fsm = <<b, k>> /\ w.sub.auth_fsm # None
          BY <3>2 DEF t
        <4>2. AuthPointer(w)
          BY DEF Pointers
        <4>3. w.conn[b].auth[k] # "none"
          BY <4>1, <4>2 DEF AuthPointer
        <4>4. CASE b = c
          <5>1. k \in {"lu", "old"}
            BY <3>2, <4>1, <4>4 DEF Parents
          <5>2. a[k] # "none"
            BY <2>2, <4>3, <4>4, <5>1
          <5> QED BY <2>3, <2>6, <2>7, <4>4, <5>2
        <4>5. CASE b # c
          <5>1. v.conn[b] = w.conn[b]
            BY <2>6, <2>7, <4>5
          <5> QED BY <4>3, <5>1
        <4> QED BY <4>4, <4>5
      <3> QED BY <3>1, <3>2
    <2>10. ASSUME NEW d \in Conns PROVE Pointed(v.conn[d], v.sub, d, P, S)
      <3>1. Pointed(w.conn[d], w.sub, d, P, S)
        BY DEF Pointers
      <3> DEFINE p == w.conn[d]
                 y == v.conn[d]
      <3>2. /\ y.lu = p.lu /\ y.parq = p.parq /\ y.vsub = p.vsub
            /\ y.st = "none" => y = p
        BY <2>8
      <3>3. Pointed(p, w.sub, d, P, S) /\ v.sub = s
        BY <2>7, <3>1
      <3> HIDE DEF p, y
      <3>4. Pointed(y, v.sub, d, P, S)
        BY <2>5, <3>2, <3>3 DEF Pointed
      <3> QED BY <3>4 DEF y
    <2>12. Pointers(v, P, S)
      BY <2>9, <2>10 DEF Pointers
    <2> QED BY <2>3, <2>5, <2>6, <2>7, <2>12 DEF v
  <1> QED BY <1>2, <1>3

-----------------------------------------------------------------------------
(* The start of a procedure.                                               *)

(* The connection of a request that starts a procedure: it is new, or its  *)
(* classmark is awaited, or the request crossed its release.               *)
Entry(r, m) ==
  /\ r.st \notin {"none", "AUTH_CIPH"} \cup Accepted
  /\ r.st = "VALIDATE_L3" =>
       /\ ~r.vsub /\ r.lu = "none" /\ r.parq = "none" /\ ~r.cmd
       /\ r.l3 = "LU" => r.use.lu > 0
       /\ r.l3 = "PAG" => r.use.pag > 0
       /\ r.l3 # "REEST" => r.use.tr = 0
  /\ r.st = "WAIT_CLASSMARK_UPDATE" =>
       /\ r.vsub /\ r.ran = "A" /\ ~m /\ ~r.cmd
       /\ r.l3 = "LU" => r.use.lu > 0
       /\ r.l3 = "PAG" => r.use.pag > 0
       /\ r.lu = "WAIT_CIPH" \/ r.parq = "WAIT_CIPH"
       /\ r.use.tr # 0 => r.parq = "WAIT_CIPH"
       /\ AuthRequired(r) => r.authed

(* A release of others leaves such a connection such a one.                *)
LEMMA QuietEntry ==
  ASSUME NEW r, NEW q, NEW m, Quiet(r, q), Entry(r, m)
  PROVE  Entry(q, m)
  <1>1. CASE q.st \in InRelease
    BY <1>1 DEF Entry, InRelease, Accepted
  <1>2. CASE q.st \notin InRelease
    <2>1. /\ q.st = r.st /\ q.l3 = r.l3 /\ q.cmd = r.cmd /\ q.ran = r.ran
          /\ q.authed = r.authed /\ q.use = r.use /\ q.lu = r.lu /\ q.parq = r.parq
          /\ q.vsub = r.vsub
      BY <1>2 DEF Quiet
    <2> QED BY <2>1 DEF Entry, AuthRequired
  <1> QED BY <1>1, <1>2

(* A connection in release is such a one.                                  *)
LEMMA ReleasedEntry ==
  ASSUME NEW r, NEW m, r.st \in InRelease
  PROVE  Entry(r, m)
  BY DEF Entry, InRelease, Accepted

(* Once such a connection r has an LU, and then the subscriber, its LU can *)
(* take its first step: p is r with its LU, q is p with the subscriber.    *)
LEMMA EntryLu ==
  ASSUME NEW r, NEW p, NEW q, NEW m, Entry(r, m), r.l3 = "LU", r.lu = "none",
         Base(r, p), p.lu = "WAIT_IMEISV", p.parq = r.parq, Associated(p, q)
  PROVE  LuMid(q, m) /\ Settled(q, m) /\ q.lu = "WAIT_IMEISV"
  <1>1. /\ q.st = IF r.st = "VALIDATE_L3" THEN "AUTH_CIPH" ELSE r.st
        /\ q.vsub /\ q.ran = r.ran /\ q.l3 = "LU" /\ q.parq = r.parq
        /\ q.cmd = r.cmd /\ q.authed = r.authed /\ q.use = r.use
        /\ q.lu = "WAIT_IMEISV"
    BY DEF Base, Associated
  <1>2. LuMid(q, m)
    <2>1. CASE r.st = "VALIDATE_L3"
      <3>1. /\ ~r.cmd /\ r.use.lu > 0 /\ r.use.tr = 0 /\ r.parq = "none"
        BY <2>1 DEF Entry
      <3> QED BY SMTT(30), <1>1, <2>1, <3>1 DEF LuMid, Core, Establishing, Accepted, ParqPost
    <2>2. CASE r.st = "WAIT_CLASSMARK_UPDATE"
      <3>1. /\ ~r.cmd /\ r.use.lu > 0 /\ r.ran = "A" /\ ~m
            /\ r.parq = "WAIT_CIPH" /\ (AuthRequired(r) => r.authed)
        BY <2>2 DEF Entry
      <3> QED BY <1>1, <2>2, <3>1
              DEF LuMid, Core, Establishing, Accepted, ParqPending, AuthRequired
    <2>3. CASE r.st \notin {"VALIDATE_L3", "WAIT_CLASSMARK_UPDATE"}
      <3>1. q.st \notin Establishing \cup Accepted
        BY <1>1, <2>3 DEF Entry, Establishing
      <3> QED BY <3>1 DEF LuMid, Core
    <2> QED BY <2>1, <2>2, <2>3
  <1>3. Settled(q, m)
    BY <1>1, <1>2 DEF LuMid, Settled, LuPost
  <1> QED BY <1>1, <1>2, <1>3

(* The same for a PARQ that is about to start.                             *)
LEMMA EntryParq ==
  ASSUME NEW r, NEW p, NEW q, NEW m, Entry(r, m), r.parq \notin ParqPending,
         Base(r, p), p.lu = r.lu, p.parq = r.parq, Associated(p, q)
  PROVE  ParqMid(q, m) /\ q.st # "none"
  <1>1. /\ q.st = IF r.st = "VALIDATE_L3" THEN "AUTH_CIPH" ELSE r.st
        /\ q.vsub /\ q.ran = r.ran /\ q.l3 = r.l3 /\ q.lu = r.lu /\ q.parq = r.parq
        /\ q.cmd = r.cmd /\ q.authed = r.authed /\ q.use = r.use
    BY DEF Base, Associated
  <1>2. ParqMid(q, m)
    <2>1. CASE r.st = "VALIDATE_L3"
      <3>1. /\ ~r.cmd /\ r.lu = "none" /\ (r.l3 = "LU" => r.use.lu > 0)
            /\ (r.l3 = "PAG" => r.use.pag > 0 /\ r.use.tr = 0)
        BY <2>1 DEF Entry
      <3> QED BY <1>1, <2>1, <3>1 DEF ParqMid, Core, Establishing, Accepted, LuPost
    <2>2. CASE r.st = "WAIT_CLASSMARK_UPDATE"
      <3>1. r.parq # "WAIT_CIPH"
        BY DEF ParqPending
      <3>2. /\ ~r.cmd /\ r.lu = "WAIT_CIPH" /\ (r.l3 = "LU" => r.use.lu > 0)
            /\ (r.l3 = "PAG" => r.use.pag > 0) /\ r.use.tr = 0
            /\ r.ran = "A" /\ ~m /\ (AuthRequired(r) => r.authed)
        BY <2>2, <3>1 DEF Entry
      <3> QED BY <1>1, <2>2, <3>2
              DEF ParqMid, Core, Establishing, Accepted, AuthRequired
    <2>3. CASE r.st \notin {"VALIDATE_L3", "WAIT_CLASSMARK_UPDATE"}
      <3>1. q.st \notin Establishing \cup Accepted
        BY <1>1, <2>3 DEF Entry, Establishing
      <3> QED BY <3>1 DEF ParqMid, Core
    <2> QED BY <2>1, <2>2, <2>3
  <1> QED BY <1>1, <1>2 DEF Entry

(* _lu_fsm_associate_vsub() and lu_fsm_idle().                             *)
LEMMA LuStartKeeps ==
  ASSUME NEW w \in WType, Pointers(w, {}, {}), NEW c \in Conns, AllSettled(w, {c}),
         Entry(w.conn[c], w.sub.classmark), w.conn[c].l3 = "LU", NEW reuse \in BOOLEAN
  PROVE  LET v == LuStart(w, c, reuse)
         IN v \in WType /\ Pointers(v, {}, {}) /\ AllSettled(v, {})
  <1> DEFINE old == w.sub.lu_fsm
             w1 == IF old = None THEN w ELSE LuFailure(w, old)
             r == w1.conn[c]
             q == [r EXCEPT !.lu = "WAIT_IMEISV"]
             s == [w1.sub EXCEPT !.lu_fsm = c, !.dataconf = FALSE]
             f == [w1.conn EXCEPT ![c] = q]
             w2 == [w1 EXCEPT !.sub.lu_fsm = c, !.sub.dataconf = FALSE,
                              !.conn[c].lu = "WAIT_IMEISV"]
             x == Assoc(w2, c)
             t == [x.sub EXCEPT !.msc_conn_ref = c]
             w3 == [x EXCEPT !.sub = t]
             v == LuStart(w, c, reuse)
  <1>0. w.sub.lu_fsm = old
    OBVIOUS
  <1>2. v = IF cfg.imei = "early" THEN w3 ELSE LuNode1(w3, c, reuse)
    BY DEF LuStart
  <1>20. /\ old = None => w1 = w
         /\ old # None => w1 = LuFailure(w, old)
    OBVIOUS
  <1> HIDE DEF old, w1, v
  <1>1. /\ w1 \in WType /\ Pointers(w1, {}, {}) /\ AllSettled(w1, {c})
        /\ w1.sub.lu_fsm = None /\ Entry(r, w1.sub.classmark) /\ r.l3 = "LU"
    <2>1. CASE old = None
      <3>1. w1 = w
        BY <1>20, <2>1
      <3> QED BY <1>0, <2>1, <3>1
    <2>2. CASE old # None
      <3>1. old \in Conns /\ w.conn[old].st # "none"
        BY SMTT(30), <1>0, <2>2, Parts DEF SubType, Pointers, Pointed, NoConn
      <3>2. w1 = LuFailure(w, old)
        BY <1>20, <2>2
      <3>3. /\ w1 \in WType /\ Pointers(w1, {}, {}) /\ AllSettled(w1, {c} \ {old})
            /\ SubQuiet(w.sub, w1.sub) /\ w1.sub.lu_fsm = None
            /\ \A d \in Conns \ {old} : Quiet(w.conn[d], w1.conn[d])
            /\ w1.conn[old].st \in InRelease /\ w1.conn[old].l3 = w.conn[old].l3
        BY <1>0, <3>1, <3>2, LuFailureKeeps
      <3>4. AllSettled(w1, {c})
        BY <3>3 DEF AllSettled
      <3>5. Entry(r, w1.sub.classmark) /\ r.l3 = "LU"
        <4>1. CASE old = c
          BY <3>3, <4>1, ReleasedEntry
        <4>2. CASE old # c
          <5>1. Quiet(w.conn[c], r) /\ w1.sub.classmark = w.sub.classmark
            BY <3>3, <4>2 DEF SubQuiet
          <5>2. r.l3 = "LU"
            BY <5>1 DEF Quiet
          <5> QED BY <5>1, <5>2, QuietEntry
        <4> QED BY <4>1, <4>2
      <3> QED BY <3>3, <3>4, <3>5
    <2> QED BY <2>1, <2>2
  <1>3. /\ w1.conn \in [Conns -> ConnType] /\ w1.sub \in SubType /\ r \in ConnType
        /\ None \notin Conns
    BY <1>1, Parts
  <1>4. q \in ConnType /\ Base(r, q) /\ q.lu = "WAIT_IMEISV" /\ q.parq = r.parq
        /\ q.auth = r.auth
    BY <1>3 DEF ConnType, LuStates, Base
  <1>5. s \in SubType /\ s.lu_fsm = c /\ s.parq_fsm = w1.sub.parq_fsm
        /\ s.auth_fsm = w1.sub.auth_fsm /\ s.msc_msub = w1.sub.msc_msub
        /\ s.classmark = w1.sub.classmark
    BY <1>3 DEF SubType
  <1>50. w2 = [w1 EXCEPT !.conn = f, !.sub = s]
    BY <1>1, <1>3 DEF WType, SubType
  <1> HIDE DEF q, s
  <1>6. f \in [Conns -> ConnType] /\ f[c] = q /\ \A d \in Conns \ {c} : f[d] = w1.conn[d]
    BY <1>3, <1>4
  <1> HIDE DEF f, w2
  <1>7. w2 \in WType /\ w2.conn = f /\ w2.sub = s
    BY <1>1, <1>5, <1>6, <1>50 DEF WType
  <1>8. \A d \in Conns : w1.conn[d].lu = "none"
    BY ZenonT(60), <1>1, <1>3 DEF Pointers, Pointed
  <1>9. Pointers(w2, {}, {})
    <2>1. \A d \in Conns : /\ w2.conn[d].lu # "none" <=> d = c
                           /\ w2.conn[d].parq = w1.conn[d].parq
                           /\ w2.conn[d].vsub = w1.conn[d].vsub
                           /\ w2.conn[d].auth = w1.conn[d].auth
                           /\ w2.conn[d].st = "none" => w2.conn[d] = w1.conn[d]
      <3> TAKE d \in Conns
      <3>1. CASE d = c
        BY <1>1, <1>4, <1>6, <1>7, <3>1 DEF Base, Entry
      <3>2. CASE d # c
        BY <1>6, <1>7, <1>8, <3>2
      <3> QED BY <3>1, <3>2
    <2>2. /\ w2.sub.lu_fsm = c /\ w2.sub.parq_fsm = w1.sub.parq_fsm
          /\ w2.sub.auth_fsm = w1.sub.auth_fsm /\ w2.sub.msc_msub = w1.sub.msc_msub
      BY <1>5, <1>7
    <2>3. AuthPointer(w2)
      <3>1. AuthPointer(w1)
        BY <1>1 DEF Pointers
      <3> QED BY ZenonT(30), <2>1, <2>2, <3>1, AuthCarries
    <2>4. ASSUME NEW d \in Conns PROVE Pointed(w2.conn[d], w2.sub, d, {}, {})
      <3>1. Pointed(w1.conn[d], w1.sub, d, {}, {})
        BY <1>1 DEF Pointers
      <3> DEFINE y == w1.conn[d]
                 z == w2.conn[d]
      <3>2. /\ z.lu # "none" <=> d = c
            /\ z.parq = y.parq /\ z.vsub = y.vsub /\ (z.st = "none" => z = y)
        BY <2>1
      <3>3. Pointed(y, w1.sub, d, {}, {})
        BY <3>1
      <3> HIDE DEF y, z
      <3>4. Pointed(z, w2.sub, d, {}, {})
        BY <2>2, <3>2, <3>3 DEF Pointed
      <3> QED BY <3>4 DEF z
    <2> QED BY <2>3, <2>4 DEF Pointers
  <1>10. AllSettled(w2, {c})
    BY <1>1, <1>5, <1>6, <1>7 DEF AllSettled
  <1>11. w2.conn[c] = q /\ q.st # "none" /\ q.l3 = "LU" /\ Associable(w2, c)
    <2>1. r.st # "none" /\ r.l3 = "LU"
      BY <1>1 DEF Entry
    <2>2. w2.conn[c] = q /\ q.st # "none" /\ q.l3 = "LU"
      BY <1>4, <1>6, <1>7, <2>1 DEF Base
    <2> QED BY <2>2 DEF Associable, Replaces
  <1>12. /\ x \in WType /\ SameFsms(w2.sub, x.sub) /\ Pointers(x, {}, {})
         /\ AllSettled(x, {c}) /\ Associated(q, x.conn[c])
    <2> DEFINE E == {}
    <2>1. Pointers(w2, E, E) /\ \A d \in E : w2.conn[d].st # "none"
      BY <1>9
    <2> HIDE DEF E
    <2>2. /\ x \in WType /\ SameFsms(w2.sub, x.sub) /\ Pointers(x, E, {})
          /\ AllSettled(x, {c}) /\ Associated(w2.conn[c], x.conn[c])
      BY <1>7, <1>10, <1>11, <2>1, AssocKeeps
    <2> HIDE DEF x
    <2> QED BY <1>11, <2>2 DEF E
  <1> HIDE DEF x
  <1>13. t \in SubType /\ t.lu_fsm = x.sub.lu_fsm /\ t.parq_fsm = x.sub.parq_fsm
         /\ t.auth_fsm = x.sub.auth_fsm /\ t.msc_msub = x.sub.msc_msub
         /\ t.classmark = x.sub.classmark
    BY ZenonT(30), <1>12, Parts DEF SubType
  <1> HIDE DEF t
  <1>14. w3 \in WType /\ Pointers(w3, {}, {}) /\ w3.conn = x.conn /\ w3.sub = t
    BY <1>12, <1>13, RecordKeeps
  <1> HIDE DEF w3
  <1>15. AllSettled(w3, {c})
    BY <1>12, <1>13, <1>14 DEF AllSettled
  <1>16. LuMid(w3.conn[c], w3.sub.classmark) /\ Settled(w3.conn[c], w3.sub.classmark)
         /\ w3.conn[c].lu = "WAIT_IMEISV"
    <2>1. w3.sub.classmark = w1.sub.classmark
      BY <1>5, <1>7, <1>12, <1>13, <1>14 DEF SameFsms
    <2>2. r.lu = "none" /\ w3.conn[c] = x.conn[c]
      BY <1>8, <1>14
    <2> QED BY ZenonT(30), <1>1, <1>4, <1>12, <2>1, <2>2, EntryLu
  <1>18. CASE cfg.imei = "early"
    <2>1. v = w3
      BY <1>2, <1>18
    <2>2. AllSettled(w3, {})
      BY <1>15, <1>16 DEF AllSettled
    <2> QED BY <1>14, <2>1, <2>2 DEF v
  <1>19. CASE cfg.imei # "early"
    <2>1. v = LuNode1(w3, c, reuse) /\ w3.conn[c].lu # "none"
      BY <1>2, <1>16, <1>19
    <2> QED BY <1>14, <1>15, <1>16, <2>1, LuNode1Keeps DEF v
  <1> QED BY <1>18, <1>19

(* proc_arq_vlr_fn_init(): the PARQ it starts is the only one.             *)
LEMMA ParqStartKeeps ==
  ASSUME NEW w \in WType, NEW S, Pointers(w, {}, S), NEW c \in Conns, AllSettled(w, {c}),
         Entry(w.conn[c], w.sub.classmark), NEW reuse \in BOOLEAN,
         \A d \in S : d \in Conns /\ d = w.sub.msc_msub /\ w.conn[d].st \in InRelease
  PROVE  LET v == ParqStart(w, c, reuse)
         IN v \in WType /\ Pointers(v, {}, {}) /\ AllSettled(v, {})
  <1> DEFINE old == w.sub.parq_fsm
             w1 == IF old # None /\ w.conn[old].parq \in ParqPending
                     THEN ParqFailed(w, old) ELSE w
             u == Orphan(w1, c)
             s == [u.sub EXCEPT !.parq_fsm = c, !.msc_conn_ref = c]
             w2 == [u EXCEPT !.sub.parq_fsm = c, !.sub.msc_conn_ref = c]
             v == ParqStart(w, c, reuse)
  <1>0. w.sub.parq_fsm = old
    OBVIOUS
  <1>2. v = IF Associable(w2, c) THEN ParqPostImsi(Assoc(w2, c), c, reuse)
                                 ELSE ParqFailed(w2, c)
    BY DEF ParqStart
  <1>20. /\ ~(old # None /\ w.conn[old].parq \in ParqPending) => w1 = w
         /\ old # None /\ w.conn[old].parq \in ParqPending => w1 = ParqFailed(w, old)
    OBVIOUS
  <1> HIDE DEF old, w1, v
  <1>1. /\ w1 \in WType /\ Pointers(w1, {}, S) /\ AllSettled(w1, {c})
        /\ Entry(w1.conn[c], w1.sub.classmark)
        /\ \A d \in Conns : w1.conn[d].parq \notin ParqPending
        /\ \A d \in S : d \in Conns /\ d = w1.sub.msc_msub /\ w1.conn[d].st \in InRelease
    <2>1. CASE ~(old # None /\ w.conn[old].parq \in ParqPending)
      <3>1. w1 = w
        BY <1>20, <2>1
      <3>2. \A d \in Conns : w.conn[d].parq \notin ParqPending
        BY SMTT(30), <1>0, <2>1, Parts DEF Pointers, Pointed
      <3> QED BY <3>1, <3>2
    <2>2. CASE old # None /\ w.conn[old].parq \in ParqPending
      <3>1. old \in Conns /\ w.conn[old].st # "none"
        BY SMTT(30), <1>0, <2>2, Parts DEF SubType, Pointers, Pointed, NoConn, ParqPending
      <3>2. w1 = ParqFailed(w, old)
        BY <1>20, <2>2
      <3>3. /\ w1 \in WType /\ AllSettled(w1, {c} \ {old})
            /\ SubQuiet(w.sub, w1.sub)
            /\ \A d \in Conns \ {old} : Quiet(w.conn[d], w1.conn[d])
            /\ w1.conn[old].st \in InRelease /\ w1.conn[old].parq = "DONE"
        BY ZenonT(60), <1>0, <3>1, <3>2, ParqFailedKeeps
      <3>4. Pointers(w1, {} \ {old}, S) /\ {} \ {old} = {}
        BY <1>0, <3>1, <3>2, ParqFailedKeeps
      <3>5. AllSettled(w1, {c})
        BY <3>3 DEF AllSettled
      <3>6. w1.sub.classmark = w.sub.classmark /\ w1.sub.msc_msub = w.sub.msc_msub
        BY <3>3 DEF SubQuiet
      <3>7. Entry(w1.conn[c], w1.sub.classmark)
        <4>1. CASE old = c
          BY <3>3, <4>1, ReleasedEntry
        <4>2. CASE old # c
          <5>1. Quiet(w.conn[c], w1.conn[c])
            BY <3>3, <4>2
          <5> QED BY <3>6, <5>1, QuietEntry
        <4> QED BY <4>1, <4>2
      <3>8. ASSUME NEW d \in Conns PROVE w1.conn[d].parq \notin ParqPending
        <4>1. CASE d = old
          BY <3>3, <4>1 DEF ParqPending
        <4>2. CASE d # old
          <5>1. Quiet(w.conn[d], w1.conn[d])
            BY <3>3, <4>2
          <5>2. w.conn[d].parq \notin ParqPending
            BY <1>0, <4>2 DEF Pointers, Pointed
          <5> QED BY <5>1, <5>2 DEF Quiet, ParqPending
        <4> QED BY <4>1, <4>2
      <3>9. ASSUME NEW d \in S PROVE w1.conn[d].st \in InRelease
        <4>1. CASE d = old
          BY <3>3, <4>1
        <4>2. CASE d # old
          <5>1. Quiet(w.conn[d], w1.conn[d]) /\ w.conn[d].st \in InRelease
            BY <3>3, <4>2
          <5> QED BY <5>1 DEF Quiet
        <4> QED BY <4>1, <4>2
      <3> QED BY <3>3, <3>4, <3>5, <3>6, <3>7, <3>8, <3>9
    <2> QED BY <2>1, <2>2
  <1>3. w1.conn[c].st # "none"
    BY <1>1 DEF Entry
  <1>4. /\ u \in WType /\ Pointers(u, {}, S)
        /\ u.sub.lu_fsm = w1.sub.lu_fsm /\ u.sub.parq_fsm = w1.sub.parq_fsm
        /\ u.sub.msc_msub = w1.sub.msc_msub /\ u.sub.classmark = w1.sub.classmark
        /\ \A d \in Conns \ {c} : u.conn[d] = w1.conn[d]
        /\ Base(w1.conn[c], u.conn[c]) /\ u.conn[c].lu = w1.conn[c].lu
        /\ u.conn[c].parq = w1.conn[c].parq
    BY ZenonT(60), <1>1, <1>3, OrphanKeeps
  <1> HIDE DEF u
  <1>5. s \in SubType /\ s.parq_fsm = c /\ s.lu_fsm = u.sub.lu_fsm
        /\ s.auth_fsm = u.sub.auth_fsm /\ s.msc_msub = u.sub.msc_msub
        /\ s.classmark = u.sub.classmark
    <2>1. u.sub \in SubType
      BY <1>4, Parts
    <2> QED BY <2>1 DEF SubType
  <1>50. w2 = [u EXCEPT !.sub = s]
    BY <1>4 DEF WType, SubType
  <1> HIDE DEF s, w2
  <1>6. w2 \in WType /\ w2.conn = u.conn /\ w2.sub = s
    BY <1>4, <1>5, <1>50 DEF WType
  <1>7. \A d \in Conns : w2.conn[d].parq \notin ParqPending
    BY <1>1, <1>4, <1>6
  <1>8. Pointers(w2, {c}, S)
    <2>1. Pointers(u, {}, S)
      BY <1>4
    <2>2. /\ w2.conn = u.conn /\ w2.sub.parq_fsm = c /\ w2.sub.lu_fsm = u.sub.lu_fsm
          /\ w2.sub.auth_fsm = u.sub.auth_fsm /\ w2.sub.msc_msub = u.sub.msc_msub
      BY <1>5, <1>6
    <2>3. AuthPointer(w2)
      BY <2>1, <2>2, AuthCarries DEF Pointers
    <2>4. ASSUME NEW d \in Conns PROVE Pointed(w2.conn[d], w2.sub, d, {c}, S)
      <3> DEFINE y == u.conn[d]
      <3>1. Pointed(y, u.sub, d, {}, S)
        BY <2>1 DEF Pointers
      <3>2. w2.conn[d] = y /\ y.parq \notin ParqPending
        BY <1>7, <2>2
      <3> HIDE DEF y
      <3>3. Pointed(y, w2.sub, d, {c}, S)
        BY <2>2, <3>1, <3>2 DEF Pointed
      <3> QED BY <3>2, <3>3
    <2> QED BY <2>3, <2>4 DEF Pointers
  <1>9. AllSettled(w2, {c}) /\ w2.sub.classmark = w1.sub.classmark
    BY ZenonT(60), <1>1, <1>4, <1>5, <1>6 DEF AllSettled
  <1>10. /\ Base(w1.conn[c], w2.conn[c]) /\ w2.conn[c].lu = w1.conn[c].lu
         /\ w2.conn[c].parq = w1.conn[c].parq
    BY <1>4, <1>6
  <1>11. w2.conn[c].st # "none"
    BY <1>3, <1>10 DEF Base
  <1>12. \A d \in S : d = w2.sub.msc_msub /\ w2.conn[d].st \in InRelease
    BY SMTT(30), <1>1, <1>4, <1>5, <1>6 DEF Base
  <1>13. w2.sub.parq_fsm = c
    BY <1>5, <1>6
  <1>14. CASE Associable(w2, c)
    <2> DEFINE x == Assoc(w2, c)
    <2>1. v = ParqPostImsi(x, c, reuse)
      BY <1>2, <1>14
    <2>2. \A d \in S : w2.conn[d].st # "none"
      BY <1>12 DEF InRelease
    <2>3. /\ x \in WType /\ SameFsms(w2.sub, x.sub) /\ AllSettled(x, {c})
          /\ Associated(w2.conn[c], x.conn[c])
      BY <1>6, <1>8, <1>9, <1>11, <1>14, <2>2, AssocKeeps
    <2>4. Pointers(x, {c}, {})
      BY <1>6, <1>8, <1>9, <1>11, <1>14, <2>2, AssocKeeps
    <2> HIDE DEF x
    <2>5. x.sub.classmark = w1.sub.classmark /\ x.sub.parq_fsm = c
      BY <1>9, <1>13, <2>3 DEF SameFsms
    <2>6. ParqMid(x.conn[c], x.sub.classmark) /\ x.conn[c].st # "none"
      BY <1>1, <1>10, <2>3, <2>5, EntryParq
    <2> QED BY <2>1, <2>3, <2>4, <2>5, <2>6, ParqPostImsiKeeps DEF v
  <1>15. CASE ~Associable(w2, c)
    <2>1. S = {}
      BY <1>12, <1>15 DEF Associable, Replaces
    <2>2. v = ParqFailed(w2, c) /\ Pointers(w2, {c}, {})
      BY <1>2, <1>8, <1>15, <2>1
    <2>3. v \in WType /\ AllSettled(v, {c} \ {c})
      BY <1>6, <1>9, <1>11, <1>13, <2>2, ParqFailedKeeps
    <2>4. Pointers(v, {c} \ {c}, {})
      BY <1>6, <1>9, <1>11, <1>13, <2>2, ParqFailedKeeps
    <2>5. {c} \ {c} = {}
      OBVIOUS
    <2> QED BY <2>3, <2>4, <2>5 DEF v
  <1> QED BY <1>14, <1>15

-----------------------------------------------------------------------------
(* Helpers of the requests.                                                *)

(* MSC_A_EV_CN_CLOSE settles the connection it is sent to.                 *)
LEMMA CloseSettles ==
  ASSUME NEW w \in WType, NEW P, NEW S, Pointers(w, P, S), NEW c \in Conns,
         w.conn[c].st # "none", NEW X, AllSettled(w, X)
  PROVE  LET v == CnClose(w, c)
         IN /\ v \in WType /\ Pointers(v, P, S) /\ AllSettled(v, X \ {c})
            /\ AllQuiet(w, v) /\ v.conn[c].st \in InRelease
  <1> DEFINE v == CnClose(w, c)
  <1>1. /\ v \in WType /\ Pointers(v, P, S) /\ AllQuiet(w, v)
        /\ v.conn[c].st \in InRelease \cup {"none"}
    BY CnCloseKeeps
  <1> HIDE DEF v
  <1>2. v.conn[c].st \in InRelease
    <2>1. Quiet(w.conn[c], v.conn[c])
      BY <1>1 DEF AllQuiet
    <2> QED BY <1>1, <2>1 DEF Quiet
  <1>3. AllSettled(v, X)
    BY <1>1, AllQuietSettled
  <1>4. Settled(v.conn[c], v.sub.classmark)
    BY <1>2 DEF Settled, Core, InRelease, Establishing, Accepted
  <1>5. AllSettled(v, X \ {c})
    BY <1>3, <1>4 DEF AllSettled
  <1> QED BY <1>1, <1>2, <1>5 DEF v

(* A request with an identity that the VLR does not know.                  *)
LEMMA ParqUnknownKeeps ==
  ASSUME NEW w \in WType, Pointers(w, {}, {}), NEW c \in Conns, AllSettled(w, {c}),
         w.conn[c].st # "none"
  PROVE  LET v == ParqUnknown(w, c)
         IN v \in WType /\ Pointers(v, {}, {}) /\ AllSettled(v, {})
  <1> DEFINE r == w.conn[c]
             q == [r EXCEPT !.parq = "DONE"]
             u == IF r.parq = "none" THEN ParqState(w, c, "DONE") ELSE w
             v == ParqUnknown(w, c)
  <1>1. v = CnClose(u, c)
    BY DEF ParqUnknown
  <1>2. u \in WType /\ Pointers(u, {}, {}) /\ AllSettled(u, {c}) /\ u.conn[c].st # "none"
    <2>1. CASE r.parq = "none"
      <3>0. r \in ConnType
        BY Parts
      <3>1. u = [w EXCEPT !.conn = [w.conn EXCEPT ![c] = q]]
        BY <2>1 DEF ParqState
      <3>2. q \in ConnType /\ Base(r, q) /\ q.lu = r.lu /\ q.parq = "DONE" /\ q.auth = r.auth
        BY <3>0 DEF ConnType, ParqStates, Base
      <3> HIDE DEF q, u
      <3>3. /\ u \in WType /\ u.sub = w.sub /\ u.conn[c] = q
            /\ \A d \in Conns \ {c} : u.conn[d] = w.conn[d]
        BY SMTT(30), <3>1, <3>2, ConnIs
      <3>4. \A d \in Conns :
              /\ u.conn[d].lu = w.conn[d].lu
              /\ w.conn[d].parq # "none" => u.conn[d].parq # "none"
              /\ u.conn[d].parq \in ParqPending => w.conn[d].parq \in ParqPending
              /\ u.conn[d].auth = w.conn[d].auth
              /\ u.conn[d].vsub = w.conn[d].vsub
              /\ u.conn[d].st = "none" => u.conn[d] = w.conn[d]
        <4> TAKE d \in Conns
        <4>1. CASE d = c
          BY <3>2, <3>3, <4>1 DEF Base, ParqPending
        <4>2. CASE d # c
          BY <3>3, <4>2
        <4> QED BY <4>1, <4>2
      <3>5. Pointers(u, {}, {})
        BY SMTT(30), <3>3, <3>4, PointersCarry
      <3>6. AllSettled(u, {c})
        BY <3>3 DEF AllSettled
      <3> QED BY <3>2, <3>3, <3>5, <3>6 DEF Base
    <2>2. CASE r.parq # "none"
      <3>1. u = w
        BY <2>2
      <3> HIDE DEF u
      <3> QED BY <3>1
    <2> QED BY <2>1, <2>2
  <1> HIDE DEF u, v
  <1>3. v \in WType /\ AllSettled(v, {c} \ {c})
    BY <1>1, <1>2, CloseSettles
  <1>4. Pointers(v, {}, {}) /\ {c} \ {c} = {}
    BY <1>1, <1>2, CloseSettles
  <1> QED BY <1>3, <1>4 DEF v

(* osmo_fsm_inst_term() of the record's PARQ.                              *)
LEMMA TermParqKeeps ==
  ASSUME NEW w \in WType, Pointers(w, {}, {}), NEW X, AllSettled(w, X)
  PROVE  LET v == TermParq(w)
         IN /\ v \in WType /\ Pointers(v, {}, {}) /\ AllSettled(v, X)
            /\ v.sub.msc_msub = w.sub.msc_msub /\ v.sub.classmark = w.sub.classmark
            /\ \A d \in Conns : \/ Quiet(w.conn[d], v.conn[d])
                                \/ /\ d = w.sub.parq_fsm /\ v.conn[d].st \in InRelease
                                   /\ v.conn[d].vsub = w.conn[d].vsub
  <1> DEFINE p == w.sub.parq_fsm
             r == w.conn[p]
             a == [r.auth EXCEPT !["parq"] = "none"]
             q == [r EXCEPT !.parq = "none", !.auth = a]
             f == [w.conn EXCEPT ![p] = q]
             s == [w.sub EXCEPT !.parq_fsm = None,
                                !.auth_fsm = IF r.auth["parq"] # "none" THEN None ELSE @]
             u == [conn |-> f, sub |-> s]
             v == TermParq(w)
  <1>1. w.conn \in [Conns -> ConnType] /\ w.sub \in SubType /\ None \notin Conns
    BY Parts
  <1>2. CASE p = None
    <2>1. v = w
      BY <1>2 DEF TermParq
    <2> HIDE DEF v
    <2> QED BY <2>1, QuietTrans DEF v
  <1>3. CASE p # None
    <2>1. p \in Conns /\ r \in ConnType /\ r.st # "none"
      BY SMTT(30), <1>1, <1>3 DEF SubType, Pointers, Pointed, NoConn
    <2>2. a \in [Parents -> AuthStates] /\ a["parq"] = "none"
          /\ \A k \in Parents \ {"parq"} : a[k] = r.auth[k]
      BY <2>1 DEF ConnType, Parents, AuthStates
    <2>3. v = CnClose(u, p)
      BY <1>3, <2>1 DEF TermParq, ConnType
    <2> HIDE DEF a
    <2>4. q \in ConnType /\ Base(r, q) /\ q.lu = r.lu /\ q.parq = "none" /\ q.auth = a
      BY <2>1, <2>2 DEF ConnType, ParqStates, Base
    <2>5. s \in SubType /\ s.lu_fsm = w.sub.lu_fsm /\ s.parq_fsm = None
          /\ s.auth_fsm = (IF r.auth["parq"] # "none" THEN None ELSE w.sub.auth_fsm)
          /\ s.msc_msub = w.sub.msc_msub /\ s.classmark = w.sub.classmark
      BY ZenonT(60), <1>1 DEF SubType
    <2> HIDE DEF q, s
    <2>6. f \in [Conns -> ConnType] /\ f[p] = q /\ \A d \in Conns \ {p} : f[d] = w.conn[d]
      BY <1>1, <2>1, <2>4
    <2> HIDE DEF f
    <2>7. u \in WType /\ u.conn = f /\ u.sub = s
      BY <2>5, <2>6, Made
    <2> HIDE DEF u, v
    <2>8. \A d \in Conns : /\ u.conn[d].lu = w.conn[d].lu /\ u.conn[d].vsub = w.conn[d].vsub
                           /\ u.conn[d].parq \notin ParqPending
                           /\ u.conn[d].st = "none" => u.conn[d] = w.conn[d]
      <3> TAKE d \in Conns
      <3>1. CASE d = p
        BY <2>1, <2>4, <2>6, <2>7, <3>1 DEF Base, ParqPending
      <3>2. CASE d # p
        <4>1. w.conn[d].parq \notin ParqPending
          BY <3>2 DEF Pointers, Pointed
        <4> QED BY <2>6, <2>7, <3>2, <4>1
      <3> QED BY <3>1, <3>2
    <2>9. Pointers(u, {}, {})
      <3>1. AuthPointer(u)
        <4>1. CASE u.sub.auth_fsm = None
          BY <4>1, AuthNone
        <4>2. CASE u.sub.auth_fsm # None
          <5>1. u.sub.auth_fsm = w.sub.auth_fsm /\ r.auth["parq"] = "none"
            BY <2>5, <2>7, <4>2
          <5>2. AuthPointer(w)
            BY DEF Pointers
          <5>3. \A d \in Conns, k \in Parents :
                  w.conn[d].auth[k] # "none" => u.conn[d].auth[k] # "none"
            <6> TAKE d \in Conns, k \in Parents
            <6>1. CASE d = p
              BY <2>2, <2>4, <2>6, <2>7, <5>1, <6>1
            <6>2. CASE d # p
              BY <2>6, <2>7, <6>2
            <6> QED BY <6>1, <6>2
          <5> QED BY <5>1, <5>2, <5>3, AuthCarries
        <4> QED BY <4>1, <4>2
      <3>2. ASSUME NEW d \in Conns PROVE Pointed(u.conn[d], u.sub, d, {}, {})
        <4>1. Pointed(w.conn[d], w.sub, d, {}, {})
          BY DEF Pointers
        <4>2. u.sub.lu_fsm = w.sub.lu_fsm /\ u.sub.msc_msub = w.sub.msc_msub
              /\ u.sub.parq_fsm = None
          BY <2>5, <2>7
        <4> QED BY <1>1, <2>8, <4>1, <4>2 DEF Pointed
      <3> QED BY <3>1, <3>2 DEF Pointers
    <2>10. AllSettled(u, X \cup {p})
      BY <2>5, <2>6, <2>7 DEF AllSettled
    <2>11. u.conn[p].st # "none"
      BY <2>1, <2>4, <2>6, <2>7 DEF Base
    <2>12. /\ v \in WType /\ AllSettled(v, (X \cup {p}) \ {p})
           /\ AllQuiet(u, v) /\ v.conn[p].st \in InRelease
      BY ZenonT(60), <2>1, <2>3, <2>7, <2>9, <2>10, <2>11, CloseSettles
    <2>13. Pointers(v, {}, {})
      BY <2>1, <2>3, <2>7, <2>9, <2>10, <2>11, CloseSettles
    <2>14. AllSettled(v, X)
      BY <2>12 DEF AllSettled
    <2>15. v.sub.msc_msub = w.sub.msc_msub /\ v.sub.classmark = w.sub.classmark
      BY <2>5, <2>7, <2>12 DEF AllQuiet, SubQuiet
    <2>16. ASSUME NEW d \in Conns
           PROVE  \/ Quiet(w.conn[d], v.conn[d])
                  \/ /\ d = p /\ v.conn[d].st \in InRelease
                     /\ v.conn[d].vsub = w.conn[d].vsub
      <3>1. Quiet(u.conn[d], v.conn[d])
        BY <2>12 DEF AllQuiet
      <3>2. CASE d = p
        BY <2>8, <2>12, <3>1, <3>2 DEF Quiet
      <3>3. CASE d # p
        BY <2>6, <2>7, <3>1, <3>3
      <3> QED BY <3>2, <3>3
    <2> QED BY <2>12, <2>13, <2>14, <2>15, <2>16 DEF v
  <1> QED BY <1>2, <1>3

-----------------------------------------------------------------------------
(* The end of a session.                                                   *)

(* The state between two events: what every handler starts from and has to *)
(* come back to.                                                           *)
Good(w) == w \in WType /\ Pointers(w, {}, {}) /\ AllSettled(w, {})

SessionEnd(w, c, k) == [w EXCEPT !.conn[c].auth[k] = "none", !.sub.auth_fsm = None]

(* auth_fsm_cleanup(): the session ends and the record points to none.     *)
LEMMA SessionEndIs ==
  ASSUME NEW w \in WType, NEW P, NEW S, Pointers(w, P, S), NEW c \in Conns,
         w.conn[c].st # "none", NEW k \in Parents
  PROVE  LET v == SessionEnd(w, c, k)
         IN /\ v \in WType /\ Pointers(v, P, S)
            /\ v.sub.classmark = w.sub.classmark /\ v.sub.parq_fsm = w.sub.parq_fsm
            /\ v.sub.lu_fsm = w.sub.lu_fsm
            /\ \A d \in Conns \ {c} : v.conn[d] = w.conn[d]
            /\ Base(w.conn[c], v.conn[c]) /\ v.conn[c].lu = w.conn[c].lu
            /\ v.conn[c].parq = w.conn[c].parq
  <1> DEFINE r == w.conn[c]
             a == [r.auth EXCEPT ![k] = "none"]
             q == [r EXCEPT !.auth = a]
             f == [w.conn EXCEPT ![c] = q]
             s == [w.sub EXCEPT !.auth_fsm = None]
             v == SessionEnd(w, c, k)
  <1>1. r \in ConnType /\ w.conn \in [Conns -> ConnType] /\ w.sub \in SubType
        /\ None \notin Conns
    BY Parts
  <1>2. a \in [Parents -> AuthStates]
    BY <1>1 DEF ConnType, AuthStates
  <1>3. v = [w EXCEPT !.conn = f, !.sub = s]
    BY <1>1 DEF SessionEnd
  <1> HIDE DEF a
  <1>4. q \in ConnType /\ Base(r, q) /\ q.lu = r.lu /\ q.parq = r.parq
    BY <1>1, <1>2 DEF ConnType, Base
  <1>5. s \in SubType /\ s.lu_fsm = w.sub.lu_fsm /\ s.parq_fsm = w.sub.parq_fsm
        /\ s.auth_fsm = None /\ s.msc_msub = w.sub.msc_msub
        /\ s.classmark = w.sub.classmark
    BY <1>1 DEF SubType
  <1> HIDE DEF q, s
  <1>6. f \in [Conns -> ConnType] /\ f[c] = q /\ \A d \in Conns \ {c} : f[d] = w.conn[d]
    BY <1>1, <1>4
  <1> HIDE DEF f
  <1>7. v \in WType /\ v.conn = f /\ v.sub = s
    BY <1>3, <1>5, <1>6 DEF WType
  <1> HIDE DEF v
  <1>8. Pointers(v, P, S)
    <2>1. \A d \in Conns : /\ v.conn[d].lu = w.conn[d].lu /\ v.conn[d].vsub = w.conn[d].vsub
                           /\ v.conn[d].parq = w.conn[d].parq
                           /\ v.conn[d].st = "none" => v.conn[d] = w.conn[d]
      <3> TAKE d \in Conns
      <3>1. CASE d = c
        BY <1>4, <1>6, <1>7, <3>1 DEF Base
      <3>2. CASE d # c
        BY <1>6, <1>7, <3>2
      <3> QED BY <3>1, <3>2
    <2>2. AuthPointer(v)
      BY <1>5, <1>7, AuthNone
    <2>3. ASSUME NEW d \in Conns PROVE Pointed(v.conn[d], v.sub, d, P, S)
      <3>1. Pointed(w.conn[d], w.sub, d, P, S)
        BY DEF Pointers
      <3>2. v.sub.lu_fsm = w.sub.lu_fsm /\ v.sub.parq_fsm = w.sub.parq_fsm
            /\ v.sub.msc_msub = w.sub.msc_msub
        BY <1>5, <1>7
      <3> QED BY <2>1, <3>1, <3>2 DEF Pointed
    <2> QED BY <2>2, <2>3 DEF Pointers
  <1> QED BY <1>4, <1>5, <1>6, <1>7, <1>8 DEF v

(* auth_fsm_term(): the LU or the PARQ goes on, if it still waits.         *)
LEMMA AuthEndKeeps ==
  ASSUME NEW w, Good(w), NEW c \in Conns, NEW k \in Parents,
         w.conn[c].auth[k] # "none", NEW result,
         result = "passed" /\ w.conn[c].st \in Establishing => w.conn[c].authed
  PROVE  Good(AuthEnd(w, c, k, result))
  <1> DEFINE r == w.conn[c]
             m == w.sub.classmark
             u == SessionEnd(w, c, k)
             q == u.conn[c]
             luOk == result = "passed" \/ (result = "no_info" /\ ~AuthRequired(r) /\ ~Required)
             parqOk == result = "passed" \/ (result = "no_info" /\ ~AuthRequired(r))
             v == AuthEnd(w, c, k, result)
  <1> SUFFICES Good(v)
    OBVIOUS
  <1>0. w \in WType /\ Pointers(w, {}, {}) /\ AllSettled(w, {})
    BY DEF Good
  <1>1. r \in ConnType /\ r.st # "none" /\ Settled(r, m)
    BY SMTT(30), <1>0, Parts DEF Pointers, Pointed, NoConn, AllSettled
  <1>2. /\ u \in WType /\ Pointers(u, {}, {})
        /\ u.sub.classmark = m /\ u.sub.parq_fsm = w.sub.parq_fsm
        /\ \A d \in Conns \ {c} : u.conn[d] = w.conn[d]
        /\ Base(r, q) /\ q.lu = r.lu /\ q.parq = r.parq
    BY SMTT(30), <1>0, <1>1, SessionEndIs
  <1>3. v = CASE k = "lu" /\ r.lu = "WAIT_AUTH" ->
                   IF luOk THEN LuPostAuth(u, c) ELSE LuFailure(u, c)
              [] k = "parq" /\ r.parq = "WAIT_AUTH" ->
                   IF parqOk THEN ParqNode2(u, c) ELSE ParqFailed(u, c)
              [] OTHER -> u
    BY DEF AuthEnd, SessionEnd
  <1> HIDE DEF u, v
  <1>4. Settled(q, m) /\ AllSettled(u, {}) /\ AllSettled(u, {c})
    <2>1. Settled(q, m)
      BY ZenonT(60), <1>1, <1>2 DEF Base, Settled, Core, AuthRequired
    <2> QED BY <1>0, <1>2, <2>1 DEF AllSettled
  <1>5. luOk \/ parqOk => (q.st \in Establishing /\ AuthRequired(q) => q.authed)
    BY <1>2 DEF Base, AuthRequired
  <1> HIDE DEF luOk, parqOk
  <1>6. CASE k = "lu" /\ r.lu = "WAIT_AUTH"
    <2>1. v = IF luOk THEN LuPostAuth(u, c) ELSE LuFailure(u, c)
      BY <1>3, <1>6
    <2>2. CASE luOk
      <3>1. LuMid(q, m)
        BY <1>2, <1>4, <1>6 DEF Settled, LuMid, LuPost
      <3> QED BY ZenonT(60), <1>2, <1>4, <1>5, <1>6, <2>1, <2>2, <3>1, LuPostAuthKeeps DEF Good
    <2>3. CASE ~luOk
      <3>1. v = LuFailure(u, c) /\ q.st # "none"
        BY <1>1, <1>2, <2>1, <2>3 DEF Base
      <3>2. v \in WType /\ Pointers(v, {}, {}) /\ AllSettled(v, {} \ {c})
        BY <1>2, <1>4, <3>1, LuFailureKeeps
      <3> QED BY <3>2 DEF Good, AllSettled
    <2> QED BY <2>2, <2>3
  <1>7. CASE k = "parq" /\ r.parq = "WAIT_AUTH"
    <2>1. v = IF parqOk THEN ParqNode2(u, c) ELSE ParqFailed(u, c)
      BY <1>3, <1>7
    <2>2. u.sub.parq_fsm = c /\ q.st # "none"
      BY <1>0, <1>1, <1>2, <1>7 DEF Pointers, Pointed, ParqPending, Base
    <2>3. CASE parqOk
      <3>1. ParqMid(q, m)
        BY SMTT(30), <1>1, <1>2, <1>4, <1>7 DEF Settled, ParqMid, ParqPost, ConnType, UseType, Base
      <3>2. Pointers(u, {c}, {})
        BY <1>2 DEF Pointers, Pointed
      <3> QED BY ZenonT(60), <1>2, <1>4, <1>5, <1>7, <2>1, <2>2, <2>3, <3>1, <3>2,
                 ParqNode2Keeps DEF Good
    <2>4. CASE ~parqOk
      <3>1. v = ParqFailed(u, c)
        BY <2>1, <2>4
      <3>2. v \in WType /\ Pointers(v, {} \ {c}, {}) /\ AllSettled(v, {} \ {c})
        BY <1>2, <1>4, <2>2, <3>1, ParqFailedKeeps
      <3>3. {} \ {c} = {}
        OBVIOUS
      <3> QED BY <3>2, <3>3 DEF Good
    <2> QED BY <2>3, <2>4
  <1>8. CASE ~(k = "lu" /\ r.lu = "WAIT_AUTH") /\ ~(k = "parq" /\ r.parq = "WAIT_AUTH")
    <2>1. v = u
      BY ZenonT(60), <1>3, <1>8
    <2> QED BY <1>2, <1>4, <2>1 DEF Good
  <1> QED BY <1>6, <1>7, <1>8

-----------------------------------------------------------------------------
(* Requests of the MS.                                                     *)

(* A connection that a message of the MS can come on: between two events,  *)
(* or just made by its Complete Layer 3.                                   *)
Ready(r, m) ==
  IF r.st = "VALIDATE_L3"
    THEN ~r.vsub /\ r.lu = "none" /\ r.parq = "none" /\ ~r.cmd /\ r.use = NoUse
    ELSE r.st # "none" /\ Settled(r, m)

(* q is r once a request counted its use and said what it is for.          *)
Request(r, q) ==
  /\ q.st = r.st /\ q.ran = r.ran /\ q.vsub = r.vsub
  /\ q.lu = r.lu /\ q.parq = r.parq /\ q.auth = r.auth
  /\ q.cmd = r.cmd /\ q.authed = r.authed
  /\ q.use.tr = r.use.tr \/ (q.l3 = "REEST" /\ q.st = "VALIDATE_L3")
  /\ q.l3 = "LU" => q.use.lu > 0
  /\ q.l3 = "PAG" => q.use.pag > 0

(* An initial request that is not refused at once counts a use and is      *)
(* remembered as what the connection is for.                               *)
LEMMA RequestIs ==
  ASSUME NEW w \in WType, Pointers(w, {}, {}), NEW c \in Conns, AllSettled(w, {c}),
         Ready(w.conn[c], w.sub.classmark),
         w.conn[c].st \notin {"AUTH_CIPH"} \cup Accepted, NEW q \in ConnType,
         Request(w.conn[c], q)
  PROVE  LET v == Set(w, c, q)
         IN /\ v \in WType /\ Pointers(v, {}, {}) /\ AllSettled(v, {c})
            /\ v.conn[c] = q /\ v.sub = w.sub /\ Entry(v.conn[c], v.sub.classmark)
            /\ \A d \in Conns \ {c} : v.conn[d] = w.conn[d]
  <1> DEFINE r == w.conn[c]
             m == w.sub.classmark
             v == Set(w, c, q)
  <1>0. v = [w EXCEPT !.conn = [w.conn EXCEPT ![c] = q]]
    BY DEF Set
  <1>1. r \in ConnType /\ r.st # "none"
    BY Parts DEF Ready
  <1> HIDE DEF v
  <1>2. /\ v \in WType /\ v.sub = w.sub /\ v.conn[c] = q
        /\ \A d \in Conns \ {c} : v.conn[d] = w.conn[d]
        /\ Pointers(v, {}, {})
    BY SMTT(30), <1>0, <1>1, ConnKeeps DEF Request
  <1>3. AllSettled(v, {c})
    BY <1>2 DEF AllSettled
  <1>4. Entry(q, m)
    <2>1. CASE r.st = "VALIDATE_L3"
      BY <2>1 DEF Entry, Ready, NoUse, Accepted, Request
    <2>2. CASE r.st = "WAIT_CLASSMARK_UPDATE"
      <3>1. Settled(r, m)
        BY <2>2 DEF Ready
      <3>2. r.use.tr \in Nat /\ q.use.tr = r.use.tr
        BY SMTT(30), <1>1, <2>2, ConnAssumption DEF ConnType, UseType, Request
      <3> QED BY <2>2, <3>1, <3>2 DEF Entry, Settled, Core, Establishing, Accepted,
                                      LuPost, ParqPost, AuthRequired, Request
    <2>3. CASE r.st \notin Establishing
      BY <1>1, <2>3 DEF Entry, Establishing, Request
    <2> QED BY <2>1, <2>2, <2>3 DEF Establishing
  <1> QED BY <1>2, <1>3, <1>4 DEF v

(* mm_rx_loc_upd_req()                                                     *)
LEMMA RxLocUpdReqKeeps ==
  ASSUME NEW w \in WType, Pointers(w, {}, {}), NEW c \in Conns, AllSettled(w, {c}),
         Ready(w.conn[c], w.sub.classmark), w.conn[c].use.lu < MaxUse,
         NEW reuse \in BOOLEAN
  PROVE  Good(RxLocUpdReq(w, c, reuse))
  <1> DEFINE r == w.conn[c]
             b == [r.use EXCEPT !.lu = r.use.lu + 1]
             q == [r EXCEPT !.l3 = "LU", !.use = b]
             u == Set(w, c, q)
             v == RxLocUpdReq(w, c, reuse)
  <1> SUFFICES Good(v)
    OBVIOUS
  <1>0. r \in ConnType /\ w.conn \in [Conns -> ConnType]
    BY Parts
  <1>1. CASE r.st \in {"AUTH_CIPH"} \cup Accepted
    <2>1. v = w
      BY <1>1 DEF RxLocUpdReq
    <2>2. Settled(r, w.sub.classmark)
      BY <1>1 DEF Ready, Accepted
    <2> HIDE DEF v
    <2> QED BY <2>1, <2>2 DEF Good, AllSettled
  <1>2. CASE r.st \notin {"AUTH_CIPH"} \cup Accepted
    <2>1. v = LuStart([w EXCEPT !.conn[c].l3 = "LU", !.conn[c].use.lu = @ + 1], c, reuse)
      BY <1>2 DEF RxLocUpdReq
    <2>2. [w EXCEPT !.conn[c].l3 = "LU", !.conn[c].use.lu = @ + 1] = u
      BY ZenonT(60), <1>0 DEF ConnType, WType, Set
    <2>3. b \in UseType /\ b.tr = r.use.tr /\ b.lu > 0
      BY SMTT(30), <1>0, ConnAssumption DEF ConnType, UseType
    <2>4. v = LuStart(u, c, reuse)
      BY <2>1, <2>2
    <2> HIDE DEF b, v
    <2>5. /\ q \in ConnType /\ q.st = r.st /\ q.ran = r.ran /\ q.vsub = r.vsub
          /\ q.lu = r.lu /\ q.parq = r.parq /\ q.auth = r.auth
          /\ q.cmd = r.cmd /\ q.authed = r.authed /\ q.use = b /\ q.l3 = "LU"
      BY <1>0, <2>3 DEF ConnType, Messages
    <2> HIDE DEF q
    <2>r. Request(r, q)
      BY <2>3, <2>5 DEF Request
    <2>6. /\ u \in WType /\ Pointers(u, {}, {}) /\ AllSettled(u, {c})
          /\ u.conn[c] = q /\ Entry(u.conn[c], u.sub.classmark)
      BY <1>2, <2>5, <2>r, RequestIs
    <2> HIDE DEF u
    <2>7. v \in WType /\ Pointers(v, {}, {}) /\ AllSettled(v, {})
      BY <2>4, <2>5, <2>6, LuStartKeeps
    <2> QED BY <2>7 DEF Good
  <1> QED BY <1>1, <1>2

(* gsm48_rx_mm_serv_req()                                                  *)
LEMMA RxServReqKeeps ==
  ASSUME NEW w \in WType, Pointers(w, {}, {}), NEW c \in Conns, AllSettled(w, {c}),
         Ready(w.conn[c], w.sub.classmark), w.conn[c].use.cm < MaxUse,
         NEW known \in BOOLEAN, NEW reuse \in BOOLEAN
  PROVE  Good(RxServReq(w, c, known, reuse))
  <1> DEFINE r == w.conn[c]
             b == [r.use EXCEPT !.cm = r.use.cm + 1]
             q == [r EXCEPT !.l3 = "CM", !.use = b]
             n == [r EXCEPT !.l3 = "CM"]
             u == Set(w, c, q)
             x == Set(w, c, n)
             v == RxServReq(w, c, known, reuse)
  <1> SUFFICES Good(v)
    OBVIOUS
  <1>0. r \in ConnType /\ w.conn \in [Conns -> ConnType] /\ r.st # "none"
    BY Parts DEF Ready
  <1>1. [w EXCEPT !.conn[c].l3 = "CM", !.conn[c].use.cm = @ + 1] = u
    BY <1>0 DEF ConnType, WType, Set
  <1>2. [w EXCEPT !.conn[c].l3 = "CM"] = x
    BY DEF Set
  <1>3. v = CASE r.st = "AUTH_CIPH" -> w
              [] r.st \in Accepted -> (IF known THEN u ELSE x)
              [] OTHER -> (IF known THEN ParqStart(u, c, reuse) ELSE ParqUnknown(u, c))
    BY SMTT(30), <1>1, <1>2 DEF RxServReq
  <1>4. b \in UseType /\ b.tr = r.use.tr
    BY SMTT(30), <1>0, ConnAssumption DEF ConnType, UseType
  <1> HIDE DEF b, v
  <1>5. /\ q \in ConnType /\ q.st = r.st /\ q.ran = r.ran /\ q.vsub = r.vsub
        /\ q.lu = r.lu /\ q.parq = r.parq /\ q.auth = r.auth
        /\ q.cmd = r.cmd /\ q.authed = r.authed /\ q.use = b /\ q.l3 = "CM"
    BY <1>0, <1>4 DEF ConnType, Messages
  <1>6. /\ n \in ConnType /\ n.st = r.st /\ n.ran = r.ran /\ n.vsub = r.vsub
        /\ n.lu = r.lu /\ n.parq = r.parq /\ n.auth = r.auth /\ n.authed = r.authed
    BY <1>0, <1>4 DEF ConnType, Messages
  <1> HIDE DEF q, n
  <1>r. Request(r, q)
    BY <1>4, <1>5 DEF Request
  <1>7. CASE r.st = "AUTH_CIPH"
    <2>1. v = w /\ Settled(r, w.sub.classmark)
      BY <1>3, <1>7 DEF Ready, Accepted
    <2> QED BY <2>1 DEF Good, AllSettled
  <1>8. CASE r.st \in Accepted
    <2>1. Settled(r, w.sub.classmark)
      BY <1>8 DEF Ready, Accepted
    <2>2. Settled(q, w.sub.classmark) /\ Settled(n, w.sub.classmark)
      BY <1>5, <1>6, <1>8, <2>1 DEF Settled, Core, Accepted, Establishing, AuthRequired
    <2>3. /\ u \in WType /\ u.sub = w.sub /\ u.conn[c] = q /\ Pointers(u, {}, {})
          /\ \A d \in Conns \ {c} : u.conn[d] = w.conn[d]
      BY SMTT(30), <1>0, <1>5, ConnKeeps DEF Set
    <2>4. /\ x \in WType /\ x.sub = w.sub /\ x.conn[c] = n /\ Pointers(x, {}, {})
          /\ \A d \in Conns \ {c} : x.conn[d] = w.conn[d]
      BY SMTT(30), <1>0, <1>6, ConnKeeps DEF Set
    <2>5. v = u \/ v = x
      BY <1>3, <1>8 DEF Accepted
    <2> HIDE DEF u, x
    <2> QED BY <2>2, <2>3, <2>4, <2>5 DEF Good, AllSettled
  <1>9. CASE r.st \notin {"AUTH_CIPH"} \cup Accepted
    <2>1. v = IF known THEN ParqStart(u, c, reuse) ELSE ParqUnknown(u, c)
      BY <1>3, <1>9
    <2>2. /\ u \in WType /\ Pointers(u, {}, {}) /\ AllSettled(u, {c})
          /\ u.conn[c] = q /\ Entry(u.conn[c], u.sub.classmark)
      BY <1>5, <1>9, <1>r, RequestIs
    <2> HIDE DEF u
    <2>3. v \in WType /\ Pointers(v, {}, {}) /\ AllSettled(v, {})
      <3>1. CASE known
        BY SMTT(30), <2>1, <2>2, <3>1, ParqStartKeeps
      <3>2. CASE ~known
        BY <1>0, <1>5, <2>1, <2>2, <3>2, ParqUnknownKeeps
      <3> QED BY <3>1, <3>2
    <2> QED BY <2>3 DEF Good
  <1> QED BY <1>7, <1>8, <1>9

(* gsm48_rx_rr_pag_resp(): the use is put again when the access request    *)
(* failed at once.                                                         *)
LEMMA RxPagRespKeeps ==
  ASSUME NEW w \in WType, Pointers(w, {}, {}), NEW c \in Conns, AllSettled(w, {c}),
         Ready(w.conn[c], w.sub.classmark), w.conn[c].use.pag < MaxUse,
         NEW known \in BOOLEAN, NEW reuse \in BOOLEAN
  PROVE  Good(RxPagResp(w, c, known, reuse))
  <1> DEFINE r == w.conn[c]
             b == [r.use EXCEPT !.pag = r.use.pag + 1]
             q == [r EXCEPT !.l3 = "PAG", !.use = b]
             u == Set(w, c, q)
             x == IF known THEN ParqStart(u, c, reuse) ELSE ParqUnknown(u, c)
             v == RxPagResp(w, c, known, reuse)
  <1> SUFFICES Good(v)
    OBVIOUS
  <1>0. r \in ConnType /\ w.conn \in [Conns -> ConnType] /\ r.st # "none"
    BY Parts DEF Ready
  <1>1. [w EXCEPT !.conn[c].l3 = "PAG", !.conn[c].use.pag = @ + 1] = u
    BY <1>0 DEF ConnType, WType, Set
  <1>2. v = IF r.st \in {"AUTH_CIPH"} \cup Accepted THEN w
            ELSE IF x.conn[c].vsub \/ x.conn[c].use.pag = 0 THEN x
            ELSE [x EXCEPT !.conn[c].use.pag = @ - 1]
    <2> DEFINE y == [w EXCEPT !.conn[c].l3 = "PAG", !.conn[c].use.pag = @ + 1]
               z == IF known THEN ParqStart(y, c, reuse) ELSE ParqUnknown(y, c)
    <2>1. v = IF w.conn[c].st \in {"AUTH_CIPH"} \cup Accepted THEN w
              ELSE IF z.conn[c].vsub \/ z.conn[c].use.pag = 0 THEN z
              ELSE [z EXCEPT !.conn[c].use.pag = @ - 1]
      BY DEF RxPagResp
    <2>2. y = u
      BY <1>1
    <2> HIDE DEF y, u
    <2>3. z = x
      BY <2>2
    <2> HIDE DEF v, x, z
    <2> QED BY <2>1, <2>3
  <1>3. b \in UseType /\ b.tr = r.use.tr /\ b.pag > 0
    BY SMTT(30), <1>0, ConnAssumption DEF ConnType, UseType
  <1> HIDE DEF b, v
  <1>4. /\ q \in ConnType /\ q.st = r.st /\ q.ran = r.ran /\ q.vsub = r.vsub
        /\ q.lu = r.lu /\ q.parq = r.parq /\ q.auth = r.auth
        /\ q.cmd = r.cmd /\ q.authed = r.authed /\ q.use = b /\ q.l3 = "PAG"
    BY <1>0, <1>3 DEF ConnType, Messages
  <1> HIDE DEF q
  <1>r. Request(r, q)
    BY <1>3, <1>4 DEF Request
  <1>5. CASE r.st \in {"AUTH_CIPH"} \cup Accepted
    <2>1. v = w
      BY <1>2, <1>5
    <2>2. Settled(r, w.sub.classmark)
      BY <1>5 DEF Ready, Accepted
    <2> QED BY <2>1, <2>2 DEF Good, AllSettled
  <1>6. CASE r.st \notin {"AUTH_CIPH"} \cup Accepted
    <2>1. /\ u \in WType /\ Pointers(u, {}, {}) /\ AllSettled(u, {c})
          /\ u.conn[c] = q /\ Entry(u.conn[c], u.sub.classmark)
      BY ZenonT(60), <1>4, <1>6, <1>r, RequestIs
    <2> HIDE DEF u
    <2>2. x \in WType /\ Pointers(x, {}, {}) /\ AllSettled(x, {})
      <3>1. CASE known
        BY SMTT(30), <2>1, <3>1, ParqStartKeeps
      <3>2. CASE ~known
        BY <1>0, <1>4, <2>1, <3>2, ParqUnknownKeeps
      <3> QED BY <3>1, <3>2
    <2> HIDE DEF x
    <2>3. CASE x.conn[c].vsub \/ x.conn[c].use.pag = 0
      BY <1>2, <1>6, <2>2, <2>3 DEF Good
    <2>4. CASE ~x.conn[c].vsub /\ x.conn[c].use.pag # 0
      <3> DEFINE t == x.conn[c]
                 e == [t.use EXCEPT !.pag = t.use.pag - 1]
                 p == [t EXCEPT !.use = e]
                 y == [x EXCEPT !.conn = [x.conn EXCEPT ![c] = p]]
      <3>1. v = [x EXCEPT !.conn[c].use.pag = @ - 1]
        BY <1>2, <1>6, <2>4
      <3>2. t \in ConnType /\ x.conn \in [Conns -> ConnType] /\ Settled(t, x.sub.classmark)
        BY <2>2, Parts DEF AllSettled
      <3>3. t.st \notin Establishing \cup Accepted \cup {"none"}
        <4>1. t.st # "none"
          <5>1. t.st = "none" => t = NoConn
            BY <2>2 DEF Pointers, Pointed
          <5>2. NoConn.use.pag = 0
            BY DEF NoConn, NoUse
          <5> QED BY <2>4, <5>1, <5>2
        <4> QED BY <2>4, <3>2, <4>1 DEF Settled, Core
      <3>4. v = y
        BY <3>1
      <3>5. e \in UseType
        <4>1. t.use \in UseType /\ t.use.pag # 0
          BY <2>4, <3>2 DEF ConnType
        <4> HIDE DEF t
        <4> QED BY SMTT(30), <4>1, ConnAssumption DEF UseType
      <3> HIDE DEF e
      <3>6. /\ p \in ConnType /\ p.st = t.st /\ p.vsub = t.vsub
            /\ p.lu = t.lu /\ p.parq = t.parq /\ p.auth = t.auth
        BY <3>2, <3>5 DEF ConnType
      <3> HIDE DEF p
      <3>7. /\ y \in WType /\ y.sub = x.sub /\ y.conn[c] = p
            /\ \A d \in Conns \ {c} : y.conn[d] = x.conn[d]
            /\ Pointers(y, {}, {})
        BY <2>2, <3>3, <3>6, ConnKeeps
      <3> HIDE DEF y
      <3>8. Settled(p, x.sub.classmark)
        BY <3>3, <3>6 DEF Settled, Core
      <3> QED BY <2>2, <3>4, <3>7, <3>8 DEF Good, AllSettled
    <2> QED BY <2>3, <2>4
  <1> QED BY <1>5, <1>6

(* ConnIs and ConnKeeps for Set().                                         *)
LEMMA SetIs ==
  ASSUME NEW w \in WType, NEW c \in Conns, NEW r \in ConnType
  PROVE  /\ Set(w, c, r) \in WType /\ Set(w, c, r).sub = w.sub
         /\ Set(w, c, r).conn[c] = r
         /\ \A d \in Conns \ {c} : Set(w, c, r).conn[d] = w.conn[d]
  BY SMTT(30), ConnIs DEF Set

(* One connection changes, and none of its FSMs: the pointers still agree. *)
LEMMA SetKeeps ==
  ASSUME NEW w \in WType, NEW P, NEW S, Pointers(w, P, S),
         NEW c \in Conns, NEW r \in ConnType,
         r.lu = w.conn[c].lu, r.parq = w.conn[c].parq, r.auth = w.conn[c].auth,
         r.vsub = w.conn[c].vsub, r.st # "none"
  PROVE  Pointers(Set(w, c, r), P, S)
  BY ConnKeeps DEF Set

PutTrans(w, c) == [w EXCEPT !.conn[c].use.tr = @ - 1]
TakenOff(w, c) == [w EXCEPT !.conn[c].vsub = FALSE]

(* The put of a transaction's use.                                         *)
LEMMA PutTransIs ==
  ASSUME NEW w \in WType, Pointers(w, {}, {}), NEW X, AllSettled(w, X), NEW c \in Conns,
         w.conn[c].use.tr > 0
  PROVE  LET u == PutTrans(w, c)
         IN /\ u \in WType /\ Pointers(u, {}, {}) /\ AllSettled(u, X) /\ u.sub = w.sub
            /\ \A d \in Conns \ {c} : u.conn[d] = w.conn[d]
            /\ u.conn[c].st = w.conn[c].st /\ u.conn[c].vsub = w.conn[c].vsub
            /\ w.conn[c].st # "none"
  <1> DEFINE u == PutTrans(w, c)
             r == w.conn[c]
             b == [r.use EXCEPT !.tr = r.use.tr - 1]
             q == [r EXCEPT !.use = b]
  <1>1. r \in ConnType /\ w.conn \in [Conns -> ConnType]
    BY Parts
  <1>2. r.st # "none"
    <2>1. r.st = "none" => r = NoConn
      BY DEF Pointers, Pointed
    <2>2. ~(NoConn.use.tr > 0)
      BY DEF NoConn, NoUse
    <2> QED BY <2>1, <2>2
  <1>3. u = Set(w, c, q)
    BY DEF PutTrans, Set
  <1> HIDE DEF u
  <1>4. b \in UseType /\ b.lu = r.use.lu /\ b.pag = r.use.pag /\ b.tr = r.use.tr - 1
        /\ r.use.tr \in Nat
    <2>1. r.use \in UseType /\ r.use.tr > 0
      BY <1>1 DEF ConnType
    <2> HIDE DEF r
    <2> QED BY SMTT(30), <2>1, ConnAssumption DEF UseType
  <1> HIDE DEF b
  <1>5. /\ q \in ConnType /\ q.st = r.st /\ q.ran = r.ran /\ q.vsub = r.vsub
        /\ q.lu = r.lu /\ q.parq = r.parq /\ q.auth = r.auth
        /\ q.cmd = r.cmd /\ q.authed = r.authed /\ q.use = b /\ q.l3 = r.l3
    BY <1>1, <1>4 DEF ConnType
  <1> HIDE DEF q
  <1>6. /\ u \in WType /\ u.sub = w.sub /\ u.conn[c] = q /\ Pointers(u, {}, {})
        /\ \A d \in Conns \ {c} : u.conn[d] = w.conn[d]
    BY <1>2, <1>3, <1>5, SetIs, SetKeeps
  <1>7. Settled(r, w.sub.classmark) => Settled(q, w.sub.classmark)
    BY SMTT(30), <1>4, <1>5 DEF Settled, Core, AuthRequired
  <1>8. AllSettled(u, X)
    BY ZenonT(60), <1>6, <1>7 DEF AllSettled
  <1> QED BY <1>2, <1>5, <1>6, <1>8 DEF u

(* The previous connection of a re-established call loses its subscriber   *)
(* by hand: the record still points to it.                                 *)
LEMMA TakenOffIs ==
  ASSUME NEW w \in WType, Pointers(w, {}, {}), NEW X, AllSettled(w, X), NEW c \in Conns,
         w.sub.msc_msub = c, w.conn[c].st # "none"
  PROVE  LET u == TakenOff(w, c)
         IN /\ u \in WType /\ Pointers(u, {}, {c}) /\ AllSettled(u, X \cup {c})
            /\ u.sub = w.sub /\ u.conn[c].st = w.conn[c].st
            /\ \A d \in Conns \ {c} : u.conn[d] = w.conn[d]
  <1> DEFINE u == TakenOff(w, c)
             r == w.conn[c]
             q == [r EXCEPT !.vsub = FALSE]
  <1>1. r \in ConnType /\ w.conn \in [Conns -> ConnType] /\ w.sub \in SubType
    BY Parts
  <1>2. u = Set(w, c, q)
    BY DEF TakenOff, Set
  <1> HIDE DEF u
  <1>3. /\ q \in ConnType /\ q.st = r.st /\ ~q.vsub
        /\ q.lu = r.lu /\ q.parq = r.parq /\ q.auth = r.auth
    BY <1>1 DEF ConnType
  <1> HIDE DEF q
  <1>4. /\ u \in WType /\ u.sub = w.sub /\ u.conn[c] = q
        /\ \A d \in Conns \ {c} : u.conn[d] = w.conn[d]
    BY ZenonT(60), <1>2, <1>3, SetIs
  <1>5. AllSettled(u, X \cup {c})
    BY <1>4 DEF AllSettled
  <1>6. \A d \in Conns : /\ u.conn[d].lu = w.conn[d].lu /\ u.conn[d].parq = w.conn[d].parq
                         /\ u.conn[d].auth = w.conn[d].auth
                         /\ u.conn[d].vsub => w.conn[d].vsub
                         /\ u.conn[d].vsub \/ d = c \/ ~w.conn[d].vsub
                         /\ u.conn[d].st = "none" => u.conn[d] = w.conn[d]
    <2> TAKE d \in Conns
    <2>1. CASE d = c
      BY <1>3, <1>4, <2>1
    <2>2. CASE d # c
      BY <1>4, <2>2
    <2> QED BY <2>1, <2>2
  <1>7. Pointers(u, {}, {c})
    <2>1. AuthPointer(u)
      <3>1. AuthPointer(w)
        BY DEF Pointers
      <3> QED BY ZenonT(60), <1>4, <1>6, <3>1, AuthCarries
    <2>2. ASSUME NEW d \in Conns PROVE Pointed(u.conn[d], u.sub, d, {}, {c})
      <3>1. Pointed(w.conn[d], w.sub, d, {}, {})
        BY DEF Pointers
      <3> QED BY <1>4, <1>6, <3>1 DEF Pointed
    <2> QED BY <2>1, <2>2 DEF Pointers
  <1> QED BY <1>3, <1>4, <1>5, <1>7 DEF u

(* gsm48_rx_cm_reest_req() with a call to move.                            *)
LEMMA RxCmReestReqKeeps ==
  ASSUME NEW w \in WType, Pointers(w, {}, {}), NEW c \in Conns, AllSettled(w, {c}),
         Ready(w.conn[c], w.sub.classmark), w.conn[c].st = "VALIDATE_L3",
         w.sub.msc_msub # None, w.conn[w.sub.msc_msub].use.tr > 0, NEW reuse \in BOOLEAN
  PROVE  Good(RxCmReestReq(w, c, TRUE, reuse))
  <1> DEFINE prev == w.sub.msc_msub
             r == w.conn[c]
             b == [r.use EXCEPT !.tr = 1]
             q == [r EXCEPT !.l3 = "REEST", !.use = b]
             u == Set(w, c, q)
             w1 == [w EXCEPT !.conn[c].l3 = "REEST"]
             w2 == [w1 EXCEPT !.conn[c].use.tr = 1, !.conn[prev].use.tr = @ - 1]
             t == TermParq(w2)
             w3 == TakenOff(t, prev)
             x == CnClose(w3, prev)
             v == RxCmReestReq(w, c, TRUE, reuse)
  <1> SUFFICES Good(v)
    OBVIOUS
  <1>0. r \in ConnType /\ w.conn \in [Conns -> ConnType] /\ w.sub \in SubType
        /\ r.st # "none" /\ None \notin Conns
    BY Parts
  <1>1. prev \in Conns /\ w.conn[prev].vsub /\ prev # c
    BY <1>0 DEF SubType, Pointers, Pointed, Ready
  <1>2. v = ParqStart(x, c, reuse)
    BY DEF RxCmReestReq, TakenOff
  <1>3. b \in UseType
    BY SMTT(30), <1>0, ConnAssumption DEF ConnType, UseType
  <1>4. w2 = PutTrans(u, prev)
    <2>3. [w1 EXCEPT !.conn[c].use.tr = 1] = u
      BY <1>0 DEF Set, ConnType, WType
    <2>4. w2 = [[w1 EXCEPT !.conn[c].use.tr = 1] EXCEPT !.conn[prev].use.tr = @ - 1]
      BY <1>0, <1>1 DEF WType
    <2> HIDE DEF u, w1, w2
    <2> QED BY <2>3, <2>4 DEF PutTrans
  <1> HIDE DEF b, v, x
  <1>5. q \in ConnType /\ Request(r, q) /\ q.st = "VALIDATE_L3" /\ q.parq = "none"
    BY <1>0, <1>3 DEF ConnType, Messages, Request, Ready
  <1> HIDE DEF q
  <1>6. /\ u \in WType /\ Pointers(u, {}, {}) /\ AllSettled(u, {c})
        /\ u.conn[c] = q /\ u.sub = w.sub /\ Entry(u.conn[c], u.sub.classmark)
        /\ \A d \in Conns \ {c} : u.conn[d] = w.conn[d]
    <2>1. r.st \notin {"AUTH_CIPH"} \cup Accepted
      BY DEF Accepted
    <2> QED BY <1>5, <2>1, RequestIs
  <1> HIDE DEF u, w2
  <1>7. /\ w2 \in WType /\ Pointers(w2, {}, {}) /\ AllSettled(w2, {c}) /\ w2.sub = w.sub
        /\ w2.conn[c] = q /\ w2.conn[prev].st # "none"
    <2>1. u.conn[prev].use.tr > 0
      BY <1>1, <1>6
    <2>2. /\ w2 \in WType /\ Pointers(w2, {}, {}) /\ AllSettled(w2, {c}) /\ w2.sub = u.sub
          /\ \A d \in Conns \ {prev} : w2.conn[d] = u.conn[d]
          /\ w2.conn[prev].st # "none"
      BY SMTT(30), <1>1, <1>4, <1>6, <2>1, PutTransIs
    <2> QED BY <1>1, <1>6, <2>2
  <1>8. /\ t \in WType /\ Pointers(t, {}, {}) /\ AllSettled(t, {c})
        /\ t.sub.msc_msub = prev /\ t.sub.classmark = w.sub.classmark
        /\ \A d \in Conns : \/ Quiet(w2.conn[d], t.conn[d])
                            \/ /\ d = w2.sub.parq_fsm /\ t.conn[d].st \in InRelease
                               /\ t.conn[d].vsub = w2.conn[d].vsub
    BY <1>7, TermParqKeeps
  <1> HIDE DEF t, w3
  <1>9. Entry(t.conn[c], t.sub.classmark)
    <2>1. w2.sub.parq_fsm # c
      <3>1. w2.sub.parq_fsm = c => w2.conn[c].parq # "none"
        BY <1>7 DEF Pointers, Pointed
      <3> QED BY <1>0, <1>5, <1>7, <3>1
    <2>2. Quiet(q, t.conn[c])
      BY <1>7, <1>8, <2>1
    <2> QED BY <1>6, <1>8, <2>2, QuietEntry
  <1>10. t.conn[prev].st # "none"
    BY <1>1, <1>7, <1>8 DEF Quiet, InRelease
  <1>11. /\ w3 \in WType /\ Pointers(w3, {}, {prev}) /\ AllSettled(w3, {c} \cup {prev})
         /\ w3.sub = t.sub /\ w3.conn[prev].st # "none" /\ w3.conn[c] = t.conn[c]
    <2>1. w3 = TakenOff(t, prev)
      BY DEF w3
    <2> DEFINE X == {c}
    <2>2. AllSettled(t, X)
      BY <1>8
    <2> HIDE DEF prev, X
    <2>3. /\ w3 \in WType /\ Pointers(w3, {}, {prev}) /\ AllSettled(w3, X \cup {prev})
          /\ w3.sub = t.sub /\ w3.conn[prev].st = t.conn[prev].st
          /\ \A d \in Conns \ {prev} : w3.conn[d] = t.conn[d]
      <3>1. t \in WType /\ Pointers(t, {}, {}) /\ prev \in Conns /\ t.sub.msc_msub = prev
        BY <1>1, <1>8
      <3>2. w3 \in WType /\ Pointers(w3, {}, {prev}) /\ AllSettled(w3, X \cup {prev})
        BY ZenonT(60), <1>10, <2>1, <2>2, <3>1, TakenOffIs
      <3>3. w3.sub = t.sub /\ w3.conn[prev].st = t.conn[prev].st
        BY <1>10, <2>1, <2>2, <3>1, TakenOffIs
      <3>4. \A d \in Conns \ {prev} : w3.conn[d] = t.conn[d]
        BY ZenonT(60), <1>10, <2>1, <2>2, <3>1, TakenOffIs
      <3> QED BY <3>2, <3>3, <3>4
    <2> QED BY <1>1, <1>10, <2>3 DEF X
  <1>12. /\ x \in WType /\ Pointers(x, {}, {prev}) /\ AllSettled(x, ({c} \cup {prev}) \ {prev})
         /\ AllQuiet(w3, x) /\ x.conn[prev].st \in InRelease
    BY <1>1, <1>11, CloseSettles DEF x
  <1>13. AllSettled(x, {c})
    BY <1>1, <1>12 DEF AllSettled
  <1>14. Entry(x.conn[c], x.sub.classmark) /\ x.sub.msc_msub = prev
    <2>1. Quiet(w3.conn[c], x.conn[c]) /\ SubQuiet(w3.sub, x.sub)
      BY <1>12 DEF AllQuiet
    <2>2. Entry(w3.conn[c], x.sub.classmark)
      BY <1>9, <1>11, <2>1 DEF SubQuiet
    <2> QED BY ZenonT(60), <1>8, <1>11, <2>1, <2>2, QuietEntry DEF SubQuiet
  <1>15. v \in WType /\ Pointers(v, {}, {}) /\ AllSettled(v, {})
    <2> DEFINE S == {prev}
    <2>1. Pointers(x, {}, S)
      BY <1>12
    <2>2. \A d \in S : d \in Conns /\ d = x.sub.msc_msub /\ x.conn[d].st \in InRelease
      BY <1>1, <1>12, <1>14
    <2> HIDE DEF S, prev
    <2> QED BY ZenonT(60), <1>2, <1>12, <1>13, <1>14, <2>1, <2>2, ParqStartKeeps
  <1> QED BY <1>15 DEF Good

(* gsm48_rx_mm_imsi_detach_ind()                                           *)
LEMMA RxImsiDetachIndKeeps ==
  ASSUME NEW w \in WType, Pointers(w, {}, {}), NEW c \in Conns, AllSettled(w, {c}),
         w.conn[c].st # "none"
  PROVE  Good(RxImsiDetachInd(w, c))
  <1> DEFINE x == SetVsub(w, c)
             s == [x.sub EXCEPT !.is_paging = FALSE]
             y == [x EXCEPT !.sub = s]
             z == SubDetach(y)
             v == RxImsiDetachInd(w, c)
  <1> SUFFICES Good(v)
    OBVIOUS
  <1>1. v = CnClose(SubDetach([x EXCEPT !.sub.is_paging = FALSE]), c)
    BY DEF RxImsiDetachInd
  <1>2. y = [x EXCEPT !.sub.is_paging = FALSE]
    OBVIOUS
  <1>3. v = CnClose(z, c)
    BY <1>1, <1>2
  <1>4. /\ x \in WType /\ Pointers(x, {}, {}) /\ AllSettled(x, {c}) /\ x.conn[c].st # "none"
    <2>1. /\ x \in WType /\ SameFsms(w.sub, x.sub) /\ SameButVsub(w.conn[c], x.conn[c])
          /\ \A d \in Conns \ {c} : \/ x.conn[d] = w.conn[d]
                                    \/ x.conn[d].st \in InRelease
      BY SMTT(30), SetVsubIs
    <2>2. Pointers(x, {}, {})
      <3>1. Associable(w, c) => Pointers(x, {}, {})
        BY SMTT(30), SetVsubIs
      <3>2. ~Associable(w, c) => x = w
        BY SMTT(30), SetVsubIs
      <3> HIDE DEF x
      <3> QED BY <3>1, <3>2
    <2> HIDE DEF x
    <2>3. AllSettled(x, {c})
      <3>1. \A d \in Conns \ {c} : x.conn[d].st \in InRelease
                                      => Settled(x.conn[d], x.sub.classmark)
        BY DEF Settled, Core, InRelease, Establishing, Accepted
      <3> QED BY <2>1, <3>1 DEF AllSettled, SameFsms
    <2> QED BY <2>1, <2>2, <2>3 DEF SameButVsub
  <1> HIDE DEF x, v
  <1>5. /\ s \in SubType /\ s.lu_fsm = x.sub.lu_fsm /\ s.parq_fsm = x.sub.parq_fsm
        /\ s.auth_fsm = x.sub.auth_fsm /\ s.msc_msub = x.sub.msc_msub
        /\ s.classmark = x.sub.classmark
    <2>1. x.sub \in SubType
      BY <1>4, Parts
    <2> QED BY <2>1 DEF SubType
  <1> HIDE DEF s
  <1>6. y \in WType /\ Pointers(y, {}, {}) /\ y.conn = x.conn /\ y.sub = s
    BY <1>4, <1>5, RecordKeeps
  <1> HIDE DEF y
  <1>7. AllSettled(y, {c})
    BY <1>4, <1>5, <1>6 DEF AllSettled
  <1>8. z \in WType /\ Pointers(z, {}, {}) /\ AllQuiet(y, z)
    BY <1>6, DetachKeeps
  <1> HIDE DEF z
  <1>9. AllSettled(z, {c}) /\ z.conn[c].st # "none"
    <2>1. AllSettled(z, {c})
      BY <1>7, <1>8, AllQuietSettled
    <2>2. Quiet(x.conn[c], z.conn[c])
      BY <1>6, <1>8 DEF AllQuiet
    <2> QED BY <1>4, <2>1, <2>2 DEF Quiet, InRelease
  <1>10. v \in WType /\ Pointers(v, {}, {}) /\ AllSettled(v, {c} \ {c})
    BY <1>3, <1>8, <1>9, CloseSettles
  <1> QED BY <1>10 DEF Good, AllSettled
=============================================================================
