---------------------------- MODULE MmConnProofs ----------------------------
(***************************************************************************)
(* Proofs about MmConn, third part: every action keeps the invariant, and  *)
(* what follows, for any number of connections and any configuration: the  *)
(* types, the agreement of the record's pointers with the FSMs at work,    *)
(* that a connection being established has a procedure deciding on it, and *)
(* that an accepted one was authenticated.                                 *)
(***************************************************************************)
EXTENDS MmRequestProofs

(* The first-order prover first: most steps instantiate lemmas.            *)
USE ZenonT(10), SMTT(30)

-----------------------------------------------------------------------------
(* The uses of a connection.                                               *)

(* The put of the use that a handler held.                                 *)
LEMMA UnusedGood ==
  ASSUME NEW w, Good(w), NEW c \in Conns
  PROVE  Good(Unused(w, c))
  <1> DEFINE v == Unused(w, c)
  <1>0. w \in WType /\ Pointers(w, {}, {}) /\ AllSettled(w, {})
    BY DEF Good
  <1>1. v \in WType /\ Pointers(v, {}, {}) /\ AllQuiet(w, v)
    BY <1>0, UnusedKeeps
  <1> HIDE DEF v
  <1>2. AllSettled(v, {})
    BY <1>0, <1>1, AllQuietSettled
  <1> QED BY <1>1, <1>2 DEF Good, v

(* A re-establishment without a call is refused: the new connection, of no *)
(* use to anyone, is released.                                             *)
LEMMA ReestRefused ==
  ASSUME NEW w \in WType, Pointers(w, {}, {}), NEW c \in Conns, AllSettled(w, {c}),
         Ready(w.conn[c], w.sub.classmark), w.conn[c].st = "VALIDATE_L3",
         NEW reuse \in BOOLEAN
  PROVE  Good(Unused(RxCmReestReq(w, c, FALSE, reuse), c))
  <1> DEFINE r == w.conn[c]
             q == [r EXCEPT !.l3 = "REEST"]
             u == RxCmReestReq(w, c, FALSE, reuse)
             v == Unused(u, c)
  <1> SUFFICES Good(v)
    OBVIOUS
  <1>0. r \in ConnType
    BY Parts
  <1>1. u = Set(w, c, q)
    BY DEF RxCmReestReq, Set
  <1>2. /\ q \in ConnType /\ q.st = "VALIDATE_L3" /\ q.use = NoUse /\ q.vsub = r.vsub
        /\ q.lu = r.lu /\ q.parq = r.parq /\ q.auth = r.auth
    BY <1>0 DEF ConnType, Messages, Ready
  <1> HIDE DEF q, u
  <1>3. /\ u \in WType /\ u.sub = w.sub /\ u.conn[c] = q
        /\ \A d \in Conns \ {c} : u.conn[d] = w.conn[d]
    BY <1>1, <1>2, SetIs
  <1>4. Pointers(u, {}, {})
    BY <1>1, <1>2, SetKeeps
  <1>5. AllSettled(u, {c})
    BY <1>3 DEF AllSettled
  <1>6. Total(q) = 0
    BY <1>2 DEF Total, NoUse
  <1>7. v \in WType /\ Pointers(v, {}, {}) /\ AllQuiet(u, v) /\ v.conn[c].st \in InRelease
    BY <1>2, <1>3, <1>4, <1>6, UnusedKeeps
  <1> HIDE DEF v
  <1>8. AllSettled(v, {c})
    BY <1>5, <1>7, AllQuietSettled
  <1>9. Settled(v.conn[c], v.sub.classmark)
    BY <1>7 DEF Settled, Core, InRelease, Establishing, Accepted
  <1> QED BY <1>7, <1>8, <1>9 DEF Good, AllSettled

(* msc_a_up_l3() and the put that follows it.                              *)
LEMMA UpL3Keeps ==
  ASSUME NEW w \in WType, Pointers(w, {}, {}), NEW c \in Conns, AllSettled(w, {c}),
         Ready(w.conn[c], w.sub.classmark), NEW m \in Messages,
         m = "LU" => w.conn[c].use.lu < MaxUse,
         m = "CM" => w.conn[c].use.cm < MaxUse,
         m = "PAG" => w.conn[c].use.pag < MaxUse,
         NEW known \in BOOLEAN, NEW reuse \in BOOLEAN,
         m = "REEST" => /\ w.conn[c].st = "VALIDATE_L3"
                        /\ known => /\ w.sub.msc_msub # None
                                    /\ w.conn[w.sub.msc_msub].use.tr > 0
  PROVE  Good(Unused(UpL3(w, c, m, known, reuse), c))
  <1> DEFINE u == UpL3(w, c, m, known, reuse)
  <1> SUFFICES Good(Unused(u, c))
    OBVIOUS
  <1>0. w.conn[c].st # "none"
    BY DEF Ready
  <1>1. CASE m = "LU"
    <2>1. u = RxLocUpdReq(w, c, reuse)
      BY <1>1 DEF UpL3
    <2> HIDE DEF u
    <2> QED BY <1>1, <2>1, RxLocUpdReqKeeps, UnusedGood
  <1>2. CASE m = "CM"
    <2>1. u = RxServReq(w, c, known, reuse)
      BY <1>2 DEF UpL3
    <2> HIDE DEF u
    <2> QED BY <1>2, <2>1, RxServReqKeeps, UnusedGood
  <1>3. CASE m = "PAG"
    <2>1. u = RxPagResp(w, c, known, reuse)
      BY <1>3 DEF UpL3
    <2> HIDE DEF u
    <2> QED BY <1>3, <2>1, RxPagRespKeeps, UnusedGood
  <1>4. CASE m = "REEST"
    <2>1. u = RxCmReestReq(w, c, known, reuse)
      BY <1>4 DEF UpL3
    <2> HIDE DEF u
    <2>2. CASE known
      <3>1. u = RxCmReestReq(w, c, TRUE, reuse)
        BY <2>1, <2>2
      <3> QED BY <1>4, <2>2, <3>1, RxCmReestReqKeeps, UnusedGood
    <2>3. CASE ~known
      <3>1. u = RxCmReestReq(w, c, FALSE, reuse)
        BY <2>1, <2>3
      <3> QED BY <1>4, <3>1, ReestRefused
    <2> QED BY <2>2, <2>3
  <1>5. CASE m = "DETACH"
    <2>1. u = IF known THEN RxImsiDetachInd(w, c) ELSE CnClose(w, c)
      BY <1>5 DEF UpL3
    <2> HIDE DEF u
    <2>2. CASE known
      BY <1>0, <2>1, <2>2, RxImsiDetachIndKeeps, UnusedGood
    <2>3. CASE ~known
      <3>1. u = CnClose(w, c)
        BY <2>1, <2>3
      <3>2. u \in WType /\ Pointers(u, {}, {}) /\ AllSettled(u, {c} \ {c})
        BY <1>0, <3>1, CloseSettles
      <3>3. Good(u)
        BY <3>2 DEF Good, AllSettled
      <3> QED BY <3>3, UnusedGood
    <2> QED BY <2>2, <2>3
  <1> QED BY <1>1, <1>2, <1>3, <1>4, <1>5 DEF Messages

-----------------------------------------------------------------------------
(* The actions.                                                            *)

(* A handler that comes back to a good state keeps the invariant.          *)
LEMMA BecomeKeeps ==
  ASSUME IInv, NEW v, Good(v), Become(v)
  PROVE  IInv'
  <1>1. v \in WType /\ Pointers(v, {}, {}) /\ AllSettled(v, {})
    BY DEF Good
  <1>2. v = [conn |-> v.conn, sub |-> v.sub]
    BY <1>1 DEF WType
  <1>3. w0' = v /\ cfg' = cfg
    BY <1>2 DEF w0, Become
  <1>4. (cfg \in Configs)' /\ (w0 \in WType)'
    BY <1>1, <1>3 DEF IInv
  <1>5. Pointers(w0, {}, {})'
    BY <1>1, <1>3 DEF Pointers, Pointed
  <1>6. AllSettled(w0, {})'
    BY ZenonT(60), <1>1, <1>3 DEF AllSettled, Settled, Core, AuthRequired
  <1> QED BY <1>4, <1>5, <1>6 DEF IInv

(* The state before a handler.                                             *)
LEMMA IInvGood ==
  ASSUME IInv
  PROVE  /\ Good(w0) /\ w0 \in WType /\ Pointers(w0, {}, {}) /\ AllSettled(w0, {})
         /\ w0.conn = conn /\ w0.sub = sub /\ cfg \in ConfigType
         /\ sub \in SubType /\ None \notin Conns
         /\ \A c \in Conns : /\ conn[c] \in ConnType /\ Settled(conn[c], sub.classmark)
                             /\ conn[c].st = "none" => conn[c] = NoConn
  <1>1. Good(w0) /\ w0 \in WType /\ Pointers(w0, {}, {}) /\ AllSettled(w0, {})
    BY DEF IInv, Good
  <1>2. w0.conn = conn /\ w0.sub = sub
    BY DEF w0
  <1>3. cfg \in ConfigType
    BY ConnAssumption DEF IInv
  <1>4. sub \in SubType /\ None \notin Conns /\ \A c \in Conns : conn[c] \in ConnType
    BY <1>1, <1>2, Parts
  <1> HIDE DEF w0
  <1>5. \A c \in Conns : /\ Settled(conn[c], sub.classmark)
                         /\ conn[c].st = "none" => conn[c] = NoConn
    BY <1>1, <1>2 DEF AllSettled, Pointers, Pointed
  <1> QED BY <1>1, <1>2, <1>3, <1>4, <1>5

(* Complete Layer 3 and later messages of the MS.                          *)
LEMMA OpenKeeps ==
  ASSUME IInv, NEW c \in Conns, Open(c)
  PROVE  IInv'
  <1>1. PICK ran \in cfg.rans, m \in cfg.first, reuse \in Reuses :
          \E known \in Knowns(m) :
            LET r == [NoConn EXCEPT !.st = "VALIDATE_L3", !.ran = ran]
            IN /\ conn[c].st = "none"
               /\ BecomeUsed(UpL3(Set(w0, c, r), c, m, known, reuse), c)
    BY DEF Open
  <1>2. PICK known \in Knowns(m) :
          LET r == [NoConn EXCEPT !.st = "VALIDATE_L3", !.ran = ran]
          IN /\ conn[c].st = "none"
             /\ BecomeUsed(UpL3(Set(w0, c, r), c, m, known, reuse), c)
    BY <1>1
  <1> DEFINE r == [NoConn EXCEPT !.st = "VALIDATE_L3", !.ran = ran]
             u == Set(w0, c, r)
  <1>3. /\ ran \in {"A", "Iu"} /\ m \in Messages /\ reuse \in BOOLEAN /\ known \in BOOLEAN
        /\ m = "REEST" /\ known => sub.msc_msub # None /\ conn[sub.msc_msub].use.tr > 0
    BY IInvGood DEF ConfigType, Reuses, Knowns, Messages
  <1>4. /\ r \in ConnType /\ r.st = "VALIDATE_L3" /\ r.use = NoUse /\ ~r.vsub /\ ~r.cmd
        /\ r.lu = "none" /\ r.parq = "none" /\ r.auth = NoConn.auth /\ r.vsub = NoConn.vsub
        /\ r.lu = NoConn.lu /\ r.parq = NoConn.parq
    <2>1. NoUse \in UseType
      BY ConnAssumption DEF NoUse, UseType
    <2>2. [k \in Parents |-> "none"] \in [Parents -> AuthStates]
      BY DEF AuthStates
    <2>3. NoConn \in ConnType
      BY <2>1, <2>2 DEF NoConn, ConnType, ConnStates, LuStates, ParqStates
    <2>4. /\ NoConn.use = NoUse /\ ~NoConn.vsub /\ ~NoConn.cmd
          /\ NoConn.lu = "none" /\ NoConn.parq = "none"
      BY DEF NoConn
    <2> QED BY <1>3, <2>3, <2>4 DEF ConnType, ConnStates, Establishing
  <1>5. conn[c] = NoConn /\ w0.conn[c] = NoConn
    BY <1>2, IInvGood
  <1>6. BecomeUsed(UpL3(u, c, m, known, reuse), c)
    BY <1>2
  <1> HIDE DEF r
  <1>7. /\ u \in WType /\ u.sub = sub /\ u.conn[c] = r
        /\ \A d \in Conns \ {c} : u.conn[d] = conn[d]
    BY SMTT(30), <1>4, IInvGood, SetIs
  <1>8. Pointers(u, {}, {})
    BY <1>4, <1>5, IInvGood, SetKeeps
  <1>9. AllSettled(u, {c})
    BY <1>7, IInvGood DEF AllSettled
  <1> HIDE DEF u
  <1>10. Ready(u.conn[c], u.sub.classmark)
    BY <1>4, <1>7 DEF Ready
  <1>11. u.conn[c].use.lu < MaxUse /\ u.conn[c].use.cm < MaxUse /\ u.conn[c].use.pag < MaxUse
    BY SMTT(30), <1>4, <1>7, ConnAssumption DEF NoUse
  <1>12. m = "REEST" => /\ u.conn[c].st = "VALIDATE_L3"
                        /\ known => /\ u.sub.msc_msub # None
                                    /\ u.conn[u.sub.msc_msub].use.tr > 0
    <2>1. sub.msc_msub # None => sub.msc_msub \in Conns
      BY IInvGood DEF SubType
    <2>2. sub.msc_msub # c
      <3>1. sub.msc_msub = c => conn[c].vsub
        BY ZenonT(30), IInvGood DEF Pointers, Pointed
      <3> QED BY <1>5, <3>1 DEF NoConn
    <2> QED BY <1>3, <1>4, <1>7, <2>1, <2>2
  <1>13. Good(Unused(UpL3(u, c, m, known, reuse), c))
    BY ZenonT(60), <1>3, <1>7, <1>8, <1>9, <1>10, <1>11, <1>12, UpL3Keeps
  <1> QED BY <1>6, <1>13, BecomeKeeps DEF BecomeUsed

(* A later message on a connection that exists, also one in release.       *)
LEMMA LateL3Keeps ==
  ASSUME IInv, NEW c \in Conns, LateL3(c)
  PROVE  IInv'
  <1>1. PICK m \in cfg.late, reuse \in Reuses :
          \E known \in Knowns(m) :
            /\ conn[c].st \notin {"none", "RELEASED"}
            /\ m = "LU" => conn[c].use.lu < MaxUse
            /\ m = "CM" => conn[c].use.cm < MaxUse
            /\ m = "PAG" => conn[c].use.pag < MaxUse
            /\ BecomeUsed(UpL3(w0, c, m, known, reuse), c)
    BY DEF LateL3
  <1>2. PICK known \in Knowns(m) :
            /\ conn[c].st \notin {"none", "RELEASED"}
            /\ m = "LU" => conn[c].use.lu < MaxUse
            /\ m = "CM" => conn[c].use.cm < MaxUse
            /\ m = "PAG" => conn[c].use.pag < MaxUse
            /\ BecomeUsed(UpL3(w0, c, m, known, reuse), c)
    BY <1>1
  <1>3. m \in Messages \ {"REEST"} /\ reuse \in BOOLEAN /\ known \in BOOLEAN
    BY IInvGood DEF ConfigType, Reuses, Knowns, Messages
  <1>4. Ready(conn[c], sub.classmark)
    <2>1. Settled(conn[c], sub.classmark)
      BY IInvGood
    <2> QED BY <1>2, <2>1 DEF Ready, Settled, Core, Establishing
  <1>5. AllSettled(w0, {c})
    BY IInvGood DEF AllSettled
  <1>6. w0 \in WType /\ Pointers(w0, {}, {}) /\ w0.conn = conn /\ w0.sub = sub
    BY IInvGood
  <1> HIDE DEF w0
  <1>7. Good(Unused(UpL3(w0, c, m, known, reuse), c))
    BY <1>2, <1>3, <1>4, <1>5, <1>6, UpL3Keeps
  <1> QED BY <1>2, <1>7, BecomeKeeps DEF BecomeUsed

(* A connection that was challenged answers, right or not: the session     *)
(* that the record points to ends, and only the session of the connection  *)
(* that answered can let a connection go on.                               *)
LEMMA RxAuthRespKeeps ==
  ASSUME IInv, NEW c \in Conns, NEW right \in BOOLEAN, RxAuthResp(c, right)
  PROVE  IInv'
  <1> DEFINE a == sub.auth_fsm
             r == conn[c]
             q == [r EXCEPT !.chal = FALSE]
             z == w0.conn[c].authed \/ right
             p == [r EXCEPT !.chal = FALSE, !.authed = z]
             s == [sub EXCEPT !.sec_ctx = right]
             f == [conn EXCEPT ![c] = p]
             u == [w0 EXCEPT !.conn = f, !.sub = s]
             result == IF right THEN "passed" ELSE "failed"
  <1>0. r \in ConnType /\ conn \in [Conns -> ConnType] /\ sub \in SubType
        /\ Settled(r, sub.classmark) /\ r.vsub
    BY IInvGood, Parts DEF RxAuthResp
  <1>1. r.st # "none"
    <2>1. ~NoConn.vsub
      BY DEF NoConn
    <2> QED BY <1>0, <2>1, IInvGood
  <1>z. z \in BOOLEAN /\ (r.authed => z) /\ (right => z)
    BY <1>0, IInvGood DEF ConnType
  <1>2. CASE a = None \/ conn[a[1]].auth[a[2]] # "WAIT_RESP"
    <2>1. Become([w0 EXCEPT !.conn[c].chal = FALSE])
      BY <1>2 DEF RxAuthResp
    <2>2. [w0 EXCEPT !.conn[c].chal = FALSE] = Set(w0, c, q)
      BY DEF Set, w0
    <2>3. /\ q \in ConnType /\ q.vsub = r.vsub /\ q.lu = r.lu /\ q.parq = r.parq
          /\ q.auth = r.auth /\ q.st = r.st /\ q.ran = r.ran /\ q.l3 = r.l3
          /\ q.cmd = r.cmd /\ q.authed = r.authed /\ q.use = r.use
      BY <1>0 DEF ConnType
    <2>4. Become(Set(w0, c, q))
      BY <2>1, <2>2
    <2> HIDE DEF q
    <2> DEFINE v == Set(w0, c, q)
    <2>5. /\ v \in WType /\ v.sub = sub /\ v.conn[c] = q
          /\ \A d \in Conns \ {c} : v.conn[d] = conn[d]
      BY SMTT(30), <2>3, IInvGood, SetIs
    <2>6. Pointers(v, {}, {})
      BY <1>1, <2>3, IInvGood, SetKeeps
    <2> HIDE DEF v
    <2>7. Settled(q, sub.classmark)
      BY ZenonT(60), <1>0, <2>3 DEF Settled, Core, AuthRequired
    <2>8. AllSettled(v, {})
      BY <2>5, <2>7, IInvGood DEF AllSettled
    <2>9. Good(v) /\ Become(v)
      BY <2>4, <2>5, <2>6, <2>8 DEF Good, v
    <2> QED BY <2>9, BecomeKeeps
  <1>3. CASE ~(a = None \/ conn[a[1]].auth[a[2]] # "WAIT_RESP")
    <2> DEFINE b == a[1]
               k == a[2]
    <2>1. BecomeUsed(AuthEnd([w0 EXCEPT !.conn[c].chal = FALSE,
                                        !.conn[c].authed = @ \/ right,
                                        !.sub.sec_ctx = right], b, k, result), c)
      BY <1>3 DEF RxAuthResp
    <2>2. [w0 EXCEPT !.conn[c].chal = FALSE, !.conn[c].authed = @ \/ right,
                     !.sub.sec_ctx = right] = u
      <3>1. [w0 EXCEPT !.conn[c].chal = FALSE, !.conn[c].authed = @ \/ right,
                       !.sub.sec_ctx = right]
              = [w0 EXCEPT !.conn[c].chal = FALSE, !.conn[c].authed = z,
                           !.sub.sec_ctx = right]
        OBVIOUS
      <3> HIDE DEF z
      <3>2. [w0 EXCEPT !.conn[c].chal = FALSE, !.conn[c].authed = z,
                       !.sub.sec_ctx = right] = u
        <4> DEFINE p0 == [w0.conn[c] EXCEPT !.chal = FALSE, !.authed = z]
                   f0 == [w0.conn EXCEPT ![c] = p0]
                   s0 == [w0.sub EXCEPT !.sec_ctx = right]
        <4>1. w0 \in WType /\ w0.conn = conn /\ w0.sub = sub
          BY IInvGood
        <4> HIDE DEF w0
        <4>2. [w0 EXCEPT !.conn[c].chal = FALSE, !.conn[c].authed = z,
                         !.sub.sec_ctx = right] = [w0 EXCEPT !.conn = f0, !.sub = s0]
          <5> DEFINE g == [w0.conn EXCEPT ![c].chal = FALSE, ![c].authed = z]
          <5>1. [w0 EXCEPT !.conn[c].chal = FALSE, !.conn[c].authed = z,
                           !.sub.sec_ctx = right] = [w0 EXCEPT !.conn = g, !.sub = s0]
            BY <4>1 DEF WType
          <5>2. g = f0
            BY <1>0, <4>1 DEF ConnType
          <5> HIDE DEF g, f0, s0
          <5> QED BY <5>1, <5>2
        <4> QED BY <4>1, <4>2
      <3> QED BY <3>1, <3>2
    <2>3. b \in Conns /\ k \in Parents /\ conn[b].auth[k] = "WAIT_RESP"
      BY <1>0, <1>3 DEF SubType
    <2>4. BecomeUsed(AuthEnd(u, b, k, result), c)
      BY <2>1, <2>2
    <2> HIDE DEF z
    <2>5. /\ p \in ConnType /\ p.vsub = r.vsub /\ p.lu = r.lu /\ p.parq = r.parq
          /\ p.auth = r.auth /\ p.st = r.st /\ p.ran = r.ran /\ p.l3 = r.l3
          /\ p.cmd = r.cmd /\ p.use = r.use /\ p.authed = z
      BY <1>0, <1>z DEF ConnType
    <2>6. (r.authed => p.authed) /\ (right => p.authed)
      BY <1>z, <2>5
    <2>7. /\ s \in SubType /\ s.lu_fsm = sub.lu_fsm /\ s.parq_fsm = sub.parq_fsm
          /\ s.auth_fsm = sub.auth_fsm /\ s.msc_msub = sub.msc_msub
          /\ s.classmark = sub.classmark
      BY <1>0 DEF SubType
    <2> HIDE DEF p, s, b, k
    <2>8. /\ u \in WType /\ u.sub = s /\ u.conn[c] = p
          /\ \A d \in Conns \ {c} : u.conn[d] = conn[d]
      <3>1. f \in [Conns -> ConnType] /\ f[c] = p /\ \A d \in Conns \ {c} : f[d] = conn[d]
        BY <1>0, <2>5
      <3>2. w0 \in WType
        BY IInvGood
      <3> HIDE DEF f, w0
      <3>3. u \in WType /\ u.sub = s /\ u.conn = f
        BY <2>7, <3>1, <3>2 DEF WType
      <3> QED BY <3>1, <3>3
    <2> HIDE DEF u
    <2>9. \A d \in Conns : /\ u.conn[d].lu = conn[d].lu /\ u.conn[d].parq = conn[d].parq
                           /\ u.conn[d].auth = conn[d].auth /\ u.conn[d].vsub = conn[d].vsub
                           /\ u.conn[d].st = "none" => u.conn[d] = conn[d]
      <3> TAKE d \in Conns
      <3>1. CASE d = c
        BY <1>1, <2>5, <2>8, <3>1
      <3>2. CASE d # c
        BY <2>8, <3>2
      <3> QED BY <3>1, <3>2
    <2>10. Pointers(u, {}, {})
      <3>1. w0 \in WType /\ Pointers(w0, {}, {}) /\ w0.conn = conn /\ w0.sub = sub
        BY IInvGood
      <3> HIDE DEF w0
      <3> QED BY SMTT(30), <2>7, <2>8, <2>9, <3>1, PointersCarry
    <2>11. Settled(p, sub.classmark)
      BY <1>0, <2>5, <2>6 DEF Settled, Core, AuthRequired
    <2>12. Good(u)
      BY <2>7, <2>8, <2>10, <2>11, IInvGood DEF AllSettled, Good
    <2>13. u.conn[b].auth[k] # "none"
      BY <2>3, <2>9
    <2>14. ASSUME right, u.conn[b].st \in Establishing
           PROVE  u.conn[b].authed
      <3>1. Settled(u.conn[b], u.sub.classmark)
        BY <2>3, <2>12 DEF Good, AllSettled
      <3>2. u.conn[b].vsub
        BY <2>14, <3>1 DEF Settled, Core
      <3>3. b = c
        BY SMTT(30), <1>0, <2>3, <2>9, <2>10, <3>2 DEF Pointers, Pointed
      <3> QED BY <2>6, <2>8, <2>14, <3>3
    <2>15. Good(AuthEnd(u, b, k, result))
      BY <2>3, <2>12, <2>13, <2>14, AuthEndKeeps
    <2> QED BY <2>4, <2>15, UnusedGood, BecomeKeeps DEF BecomeUsed
  <1> QED BY <1>2, <1>3

(* The answers to the identity request and to the TMSI go to the LU.       *)
LEMMA LuAnswersKeep ==
  ASSUME IInv, NEW c \in Conns, RxIdRespImeisv(c) \/ RxTmsiReallocCompl(c)
  PROVE  IInv'
  <1> DEFINE l == sub.lu_fsm
  <1>0. /\ w0 \in WType /\ Pointers(w0, {}, {}) /\ AllSettled(w0, {})
        /\ w0.conn = conn /\ w0.sub = sub /\ sub \in SubType
    BY IInvGood
  <1> HIDE DEF w0
  <1>1. CASE RxIdRespImeisv(c)
    <2>1. /\ l \in Conns /\ conn[l].lu = "WAIT_IMEISV"
          /\ BecomeUsed(LuState(w0, l, "WAIT_HLR_CHECK_IMEI_EARLY"), c)
      BY <1>0, <1>1 DEF RxIdRespImeisv, SubType
    <2>2. Good(LuState(w0, l, "WAIT_HLR_CHECK_IMEI_EARLY"))
      <3> DEFINE s == "WAIT_HLR_CHECK_IMEI_EARLY"
      <3>1. s \in LuStates \ {"none"} /\ s \notin LuPost
        BY DEF LuStates, LuPost
      <3> HIDE DEF s, l
      <3>2. Good(LuState(w0, l, s))
        BY <1>0, <2>1, <3>1, LuStepKeeps DEF Good
      <3> QED BY <3>2 DEF s
    <2> QED BY <2>1, <2>2, UnusedGood, BecomeKeeps DEF BecomeUsed
  <1>2. CASE RxTmsiReallocCompl(c)
    <2>1. /\ l \in Conns /\ conn[l].lu = "WAIT_TMSI_CNF" /\ BecomeUsed(LuSuccess(w0, l), c)
      BY <1>0, <1>2 DEF RxTmsiReallocCompl, SubType
    <2>2. conn[l].lu \in LuPost \ {"WAIT_CIPH"}
      BY <2>1 DEF LuPost
    <2>3. Good(LuSuccess(w0, l))
      BY <1>0, <2>1, <2>2, LuSuccessKeeps DEF Good
    <2> QED BY <2>1, <2>3, UnusedGood, BecomeKeeps DEF BecomeUsed
  <1> QED BY <1>1, <1>2

-----------------------------------------------------------------------------
(* Pieces of the remaining handlers.                                       *)

(* The end of a connection: the record forgets it, and nothing it points   *)
(* to is gone.                                                             *)
LEMMA TermKeeps ==
  ASSUME NEW w, Good(w), NEW c \in Conns
  PROVE  Good(Term(w, c))
  <1> DEFINE r == w.conn[c]
             f == [w.conn EXCEPT ![c] = NoConn]
             forget(p) == IF p = c THEN None ELSE p
             s == [w.sub EXCEPT
                     !.lu_fsm = forget(@), !.parq_fsm = forget(@),
                     !.auth_fsm = IF \E k \in Parents : r.auth[k] # "none"
                                    THEN None ELSE @,
                     !.msc_conn_ref = forget(@),
                     !.msc_msub = IF r.vsub THEN forget(@) ELSE @]
             v == Term(w, c)
  <1> SUFFICES Good(v)
    OBVIOUS
  <1>0. w \in WType /\ Pointers(w, {}, {}) /\ AllSettled(w, {})
    BY DEF Good
  <1>1. r \in ConnType /\ w.conn \in [Conns -> ConnType] /\ w.sub \in SubType
        /\ None \notin Conns
    BY <1>0, Parts
  <1>2. v = [conn |-> f, sub |-> s]
    BY DEF Term
  <1>3. NoConn \in ConnType
    <2>1. NoUse \in UseType
      BY ConnAssumption DEF NoUse, UseType
    <2>2. [k \in Parents |-> "none"] \in [Parents -> AuthStates]
      BY DEF AuthStates
    <2> QED BY <2>1, <2>2 DEF NoConn, ConnType, ConnStates, LuStates, ParqStates
  <1>4. /\ s \in SubType /\ s.lu_fsm = forget(w.sub.lu_fsm)
        /\ s.parq_fsm = forget(w.sub.parq_fsm)
        /\ s.auth_fsm = (IF \E k \in Parents : r.auth[k] # "none" THEN None
                         ELSE w.sub.auth_fsm)
        /\ s.msc_msub = (IF r.vsub THEN forget(w.sub.msc_msub) ELSE w.sub.msc_msub)
        /\ s.classmark = w.sub.classmark
    <2> DEFINE l == forget(w.sub.lu_fsm)
               p == forget(w.sub.parq_fsm)
               a == IF \E k \in Parents : r.auth[k] # "none" THEN None ELSE w.sub.auth_fsm
               n == forget(w.sub.msc_conn_ref)
               m == IF r.vsub THEN forget(w.sub.msc_msub) ELSE w.sub.msc_msub
    <2>1. s = [w.sub EXCEPT !.lu_fsm = l, !.parq_fsm = p, !.auth_fsm = a,
                            !.msc_conn_ref = n, !.msc_msub = m]
      OBVIOUS
    <2>2. l \in Conns \cup {None} /\ p \in Conns \cup {None} /\ n \in Conns \cup {None}
      BY <1>1 DEF SubType
    <2>3. a \in (Conns \X Parents) \cup {None}
      BY <1>1 DEF SubType
    <2>4. m \in Conns \cup {None}
      BY <1>1 DEF SubType
    <2> HIDE DEF s, l, p, a, n, m
    <2>5. s \in SubType /\ s.lu_fsm = l /\ s.parq_fsm = p /\ s.auth_fsm = a
          /\ s.msc_msub = m /\ s.classmark = w.sub.classmark
      BY <1>1, <2>1, <2>2, <2>3, <2>4 DEF SubType
    <2> QED BY <2>5 DEF l, p, a, m
  <1> HIDE DEF s
  <1>5. f \in [Conns -> ConnType] /\ f[c] = NoConn /\ \A d \in Conns \ {c} : f[d] = w.conn[d]
    BY <1>1, <1>3
  <1> HIDE DEF f
  <1>6. v \in WType /\ v.conn = f /\ v.sub = s
    BY SMTT(30), <1>2, <1>4, <1>5, Made
  <1> HIDE DEF v
  <1>7. Pointers(v, {}, {})
    <2>1. AuthPointer(v)
      <3>1. CASE v.sub.auth_fsm = None
        BY <3>1, AuthNone
      <3>2. CASE v.sub.auth_fsm # None
        <4>1. v.sub.auth_fsm = w.sub.auth_fsm /\ \A j \in Parents : r.auth[j] = "none"
          BY <1>4, <1>6, <3>2
        <4>2. AuthPointer(w)
          BY <1>0 DEF Pointers
        <4>3. \A d \in Conns, k \in Parents :
                w.conn[d].auth[k] # "none" => v.conn[d].auth[k] # "none"
          <5> TAKE d \in Conns, k \in Parents
          <5>1. CASE d = c
            BY <4>1, <5>1
          <5>2. CASE d # c
            BY <1>5, <1>6, <5>2
          <5> QED BY <5>1, <5>2
        <4> QED BY <4>1, <4>2, <4>3, AuthCarries
      <3> QED BY <3>1, <3>2
    <2>2. ASSUME NEW d \in Conns PROVE Pointed(v.conn[d], v.sub, d, {}, {})
      <3>0. Pointed(w.conn[d], w.sub, d, {}, {}) /\ None \notin Conns
        BY <1>0, Parts DEF Pointers
      <3>1. CASE d = c
        <4>1. v.conn[d] = NoConn
          BY <1>5, <1>6, <3>1
        <4>2. v.sub.msc_msub # d /\ v.sub.lu_fsm # d /\ v.sub.parq_fsm # d
          BY ZenonT(60), <1>1, <1>4, <1>6, <3>0, <3>1 DEF Pointed
        <4> QED BY SMTT(30), <4>1, <4>2 DEF NoConn, ParqPending, Pointed
      <3>2. CASE d # c
        <4>1. v.conn[d] = w.conn[d]
          BY <1>5, <1>6, <3>2
        <4>2. (v.sub.msc_msub = d) = (w.sub.msc_msub = d)
          BY <1>1, <1>4, <1>6, <3>2
        <4>3. (w.sub.lu_fsm = d) = (v.sub.lu_fsm = d)
          BY <1>4, <1>6, <3>0, <3>2
        <4>4. (w.sub.parq_fsm = d) = (v.sub.parq_fsm = d)
          BY <1>4, <1>6, <3>0, <3>2
        <4> QED BY ZenonT(60), <3>0, <4>1, <4>2, <4>3, <4>4 DEF Pointed
      <3> QED BY <3>1, <3>2
    <2> QED BY <2>1, <2>2 DEF Pointers
  <1>8. AllSettled(v, {})
    <2>1. Settled(NoConn, w.sub.classmark)
      BY DEF NoConn, Settled, Core, Establishing, Accepted
    <2>2. \A d \in Conns : Settled(v.conn[d], v.sub.classmark)
      BY <1>0, <1>4, <1>5, <1>6, <2>1 DEF AllSettled
    <2> QED BY <2>2 DEF AllSettled
  <1> QED BY <1>6, <1>7, <1>8 DEF Good

(* Entering RELEASED.                                                      *)
LEMMA ReleasedKeeps ==
  ASSUME NEW w, Good(w), NEW c \in Conns, w.conn[c].st = "RELEASING"
  PROVE  Good(Released(w, c))
  <1> DEFINE r == w.conn[c]
             b == [r.use EXCEPT !.wcc = 0]
             q == [r EXCEPT !.st = "RELEASED", !.use = b]
             u == Set(w, c, q)
             v == Released(w, c)
  <1>0. w \in WType /\ Pointers(w, {}, {}) /\ AllSettled(w, {}) /\ r \in ConnType
    BY Parts DEF Good
  <1>1. [w EXCEPT !.conn[c].st = "RELEASED", !.conn[c].use.wcc = 0] = u
    BY <1>0 DEF Set, WType, ConnType
  <1>2. b \in UseType
    BY SMTT(30), <1>0 DEF ConnType, UseType
  <1>3. v = Term(u, c) \/ v = u
    <2> DEFINE y == [w EXCEPT !.conn[c].st = "RELEASED", !.conn[c].use.wcc = 0]
    <2>1. v = IF Total(y.conn[c]) = 0 THEN Term(y, c) ELSE y
      BY DEF Released
    <2>2. y = u
      BY <1>1
    <2> HIDE DEF y, u, v
    <2> QED BY <2>1, <2>2
  <1> HIDE DEF b
  <1>4. /\ q \in ConnType /\ q.st = "RELEASED" /\ q.vsub = r.vsub
        /\ q.lu = r.lu /\ q.parq = r.parq /\ q.auth = r.auth
    BY <1>0, <1>2 DEF ConnType, ConnStates, InRelease
  <1> HIDE DEF q
  <1>5. u \in WType /\ u.sub = w.sub /\ u.conn[c] = q /\ \A d \in Conns \ {c} : u.conn[d] = w.conn[d]
    BY ZenonT(30), <1>0, <1>4, SetIs
  <1>6. Pointers(u, {}, {})
    BY <1>0, <1>4, SetKeeps
  <1> HIDE DEF u
  <1>7. Settled(q, u.sub.classmark)
    BY <1>4 DEF Settled, Core, Establishing, Accepted
  <1>8. Good(u)
    BY ZenonT(60), <1>0, <1>5, <1>6, <1>7 DEF Good, AllSettled
  <1>9. Good(Term(u, c))
    BY <1>8, TermKeeps
  <1> HIDE DEF v
  <1> QED BY <1>3, <1>8, <1>9 DEF v

(* Closing, releasing or failing the LU of a connection between two events.*)
LEMMA CloseGood ==
  ASSUME NEW w, Good(w), NEW c \in Conns, w.conn[c].st # "none"
  PROVE  Good(CnClose(w, c)) /\ Good(Release(w, c)) /\ Good(LuFailure(w, c))
  <1>0. w \in WType /\ Pointers(w, {}, {}) /\ AllSettled(w, {})
    BY DEF Good
  <1>1. Good(CnClose(w, c))
    <2> DEFINE v == CnClose(w, c)
    <2>1. v \in WType /\ Pointers(v, {}, {}) /\ AllSettled(v, {} \ {c})
      BY <1>0, CloseSettles
    <2> HIDE DEF v
    <2>2. Good(v)
      BY <2>1 DEF Good, AllSettled
    <2> QED BY <2>2 DEF v
  <1>2. Good(Release(w, c))
    <2> DEFINE v == Release(w, c)
    <2>1. v \in WType /\ Pointers(v, {}, {}) /\ AllQuiet(w, v)
      BY <1>0, ReleaseKeeps
    <2> HIDE DEF v
    <2>2. Good(v)
      BY <1>0, <2>1, AllQuietSettled DEF Good
    <2> QED BY <2>2 DEF v
  <1>3. Good(LuFailure(w, c))
    <2> DEFINE v == LuFailure(w, c)
    <2>1. v \in WType /\ Pointers(v, {}, {}) /\ AllSettled(v, {} \ {c})
      BY <1>0, LuFailureKeeps
    <2> HIDE DEF v
    <2>2. Good(v)
      BY <2>1 DEF Good, AllSettled
    <2> QED BY <2>2 DEF v
  <1> QED BY <1>1, <1>2, <1>3

(* An FSM at work has a connection.                                        *)
LEMMA WorkHasConn ==
  ASSUME NEW w, Good(w), NEW c \in Conns
  PROVE  /\ w.conn[c].lu # "none" => w.conn[c].st # "none"
         /\ w.conn[c].parq # "none" => w.conn[c].st # "none"
         /\ w.conn[c].vsub => w.conn[c].st # "none"
         /\ w.conn[c].cmd => w.conn[c].st # "none"
  <1>1. w.conn[c].st = "none" => w.conn[c] = NoConn
    BY DEF Good, Pointers, Pointed
  <1>2. NoConn.lu = "none" /\ NoConn.parq = "none" /\ ~NoConn.vsub /\ ~NoConn.cmd
    BY DEF NoConn
  <1> QED BY <1>1, <1>2

(* vlr_subscr_detach()                                                     *)
LEMMA DetachGood ==
  ASSUME NEW w, Good(w)
  PROVE  Good(SubDetach(w))
  <1> DEFINE v == SubDetach(w)
  <1>0. w \in WType /\ Pointers(w, {}, {}) /\ AllSettled(w, {})
    BY DEF Good
  <1>1. v \in WType /\ Pointers(v, {}, {}) /\ AllQuiet(w, v)
    BY <1>0, DetachKeeps
  <1> HIDE DEF v
  <1>2. Good(v)
    BY <1>0, <1>1, AllQuietSettled DEF Good
  <1> QED BY <1>2 DEF v

(* Only the record changes, and none of its pointers or its classmark.     *)
LEMMA RecordGood ==
  ASSUME NEW w, Good(w), NEW s \in SubType,
         s.lu_fsm = w.sub.lu_fsm, s.parq_fsm = w.sub.parq_fsm,
         s.auth_fsm = w.sub.auth_fsm, s.msc_msub = w.sub.msc_msub,
         s.classmark = w.sub.classmark
  PROVE  LET v == [w EXCEPT !.sub = s]
         IN Good(v) /\ v.conn = w.conn /\ v.sub = s
  <1> DEFINE v == [w EXCEPT !.sub = s]
  <1>0. w \in WType /\ Pointers(w, {}, {}) /\ AllSettled(w, {})
    BY DEF Good
  <1>1. v \in WType /\ Pointers(v, {}, {}) /\ v.conn = w.conn /\ v.sub = s
    BY <1>0, RecordKeeps
  <1> HIDE DEF v
  <1>2. Good(v)
    BY <1>0, <1>1 DEF Good, AllSettled
  <1> QED BY <1>1, <1>2 DEF v

(* One connection changes, and none of its FSMs: it has to stay settled.   *)
LEMMA SetGood ==
  ASSUME NEW w, Good(w), NEW c \in Conns, NEW r \in ConnType,
         r.lu = w.conn[c].lu, r.parq = w.conn[c].parq, r.auth = w.conn[c].auth,
         r.vsub = w.conn[c].vsub, r.st # "none", Settled(r, w.sub.classmark)
  PROVE  Good(Set(w, c, r))
  <1> DEFINE v == Set(w, c, r)
  <1>0. w \in WType /\ Pointers(w, {}, {}) /\ AllSettled(w, {})
    BY DEF Good
  <1>1. v \in WType /\ v.sub = w.sub /\ v.conn[c] = r /\ \A d \in Conns \ {c} : v.conn[d] = w.conn[d]
    BY <1>0, SetIs
  <1>2. Pointers(v, {}, {})
    BY <1>0, SetKeeps
  <1> HIDE DEF v
  <1>3. Good(v)
    BY <1>0, <1>1, <1>2 DEF Good, AllSettled
  <1> QED BY <1>3 DEF v

-----------------------------------------------------------------------------
(* Messages of the RAN and the HLR.                                        *)

(* vlr_subscr_rx_ciph_res(), when no connection waits for a classmark.     *)
NoneWaits(w) == \A d \in Conns : w.conn[d].st # "WAIT_CLASSMARK_UPDATE"

(* The LU that waits for the cipher command's answer goes on or fails.     *)
LEMMA CiphResLuKeeps ==
  ASSUME NEW w, Good(w), NoneWaits(w), NEW ok \in BOOLEAN
  PROVE  Good(CiphResLu(w, ok)) /\ NoneWaits(CiphResLu(w, ok))
  <1> DEFINE l == w.sub.lu_fsm
             v == CiphResLu(w, ok)
  <1> SUFFICES Good(v) /\ NoneWaits(v)
    OBVIOUS
  <1>0. w \in WType /\ Pointers(w, {}, {}) /\ AllSettled(w, {})
    BY DEF Good
  <1>1. CASE l = None \/ w.conn[l].lu # "WAIT_CIPH"
    <2>1. v = w
      BY <1>1 DEF CiphResLu
    <2> HIDE DEF v
    <2> QED BY <2>1
  <1>2. CASE ~(l = None \/ w.conn[l].lu # "WAIT_CIPH")
    <2>1. l \in Conns /\ w.conn[l].lu = "WAIT_CIPH"
      <3>1. w.sub \in SubType
        BY <1>0, Parts
      <3> QED BY <1>2, <3>1 DEF SubType
    <2>2. w.conn[l].st # "none"
      BY <2>1, WorkHasConn
    <2>3. CASE ok
      <3> DEFINE s == "WAIT_HLR_UPD"
      <3>1. v = LuState(w, l, s)
        BY <1>2, <2>3 DEF CiphResLu
      <3>2. s \in LuStates \ {"none"} /\ "WAIT_CIPH" \in LuPost
        BY DEF LuStates, LuPost
      <3>3. w.conn[l].st # "WAIT_CLASSMARK_UPDATE"
        BY <2>1 DEF NoneWaits
      <3> HIDE DEF s, v, l
      <3>4. /\ v \in WType /\ Pointers(v, {}, {}) /\ AllSettled(v, {})
            /\ \A d \in Conns : v.conn[d].st = w.conn[d].st
        BY ZenonT(60), <1>0, <2>1, <3>1, <3>2, <3>3, LuStepKeeps
      <3> QED BY <3>4 DEF Good, NoneWaits
    <2>4. CASE ~ok
      <3>1. v = LuFailure(w, l)
        BY <1>2, <2>4 DEF CiphResLu
      <3> HIDE DEF v, l
      <3>2. /\ \A d \in Conns \ {l} : Quiet(w.conn[d], v.conn[d])
            /\ v.conn[l].st \in InRelease
        BY <1>0, <2>1, <2>2, <3>1, LuFailureKeeps
      <3>3. NoneWaits(v)
        BY ZenonT(60), <2>1, <3>2 DEF NoneWaits, Quiet, InRelease
      <3>4. Good(v)
        BY <2>1, <2>2, <3>1, CloseGood
      <3> QED BY <3>3, <3>4
    <2> QED BY <2>3, <2>4
  <1> QED BY <1>1, <1>2

(* And so does the access request that waits for it.                       *)
LEMMA CiphResParqKeeps ==
  ASSUME NEW w, Good(w), NoneWaits(w), NEW ok \in BOOLEAN
  PROVE  Good(CiphResParq(w, ok))
  <1> DEFINE p == w.sub.parq_fsm
             r == w.conn[p]
             v == CiphResParq(w, ok)
  <1> SUFFICES Good(v)
    OBVIOUS
  <1>0. w \in WType /\ Pointers(w, {}, {}) /\ AllSettled(w, {})
    BY DEF Good
  <1>1. CASE p = None \/ r.parq # "WAIT_CIPH"
    <2>1. v = w
      BY <1>1 DEF CiphResParq
    <2> HIDE DEF v
    <2> QED BY <2>1
  <1>2. CASE ~(p = None \/ r.parq # "WAIT_CIPH")
    <2>1. p \in Conns /\ r.parq = "WAIT_CIPH" /\ w.sub.parq_fsm = p
      <3>1. w.sub \in SubType
        BY <1>0, Parts
      <3> QED BY <1>2, <3>1 DEF SubType
    <2>2. r.st # "none" /\ r.st # "WAIT_CLASSMARK_UPDATE"
      BY <2>1, WorkHasConn DEF NoneWaits
    <2>3. Settled(r, w.sub.classmark)
      BY <1>0, <2>1 DEF AllSettled
    <2>4. v = IF ok THEN ParqPostCiph(w, p) ELSE ParqFailed(w, p)
      BY <1>2 DEF CiphResParq
    <2> HIDE DEF v, p
    <2>5. CASE ok
      <3>1. Pointers(w, {p}, {}) /\ AllSettled(w, {p})
        BY <1>0 DEF Pointers, Pointed, AllSettled
      <3>2. ParqMid(r, w.sub.classmark)
        BY <2>2, <2>3 DEF ParqMid, Settled
      <3>3. r.st \in Establishing /\ AuthRequired(r) => r.authed
        BY <2>1, <2>3 DEF Settled, ParqPost
      <3>4. v \in WType /\ Pointers(v, {}, {}) /\ AllSettled(v, {})
        BY ZenonT(60), <1>0, <2>1, <2>2, <2>4, <2>5, <3>1, <3>2, <3>3, ParqPostCiphKeeps
      <3> QED BY <3>4 DEF Good
    <2>6. CASE ~ok
      <3>1. v = ParqFailed(w, p)
        BY <2>4, <2>6
      <3>2. v \in WType /\ Pointers(v, {} \ {p}, {}) /\ AllSettled(v, {} \ {p})
        BY <1>0, <2>1, <2>2, <3>1, ParqFailedKeeps
      <3>3. {} \ {p} = {}
        OBVIOUS
      <3> QED BY <3>2, <3>3 DEF Good
    <2> QED BY <2>5, <2>6
  <1> QED BY <1>1, <1>2

(* The answer to a cipher command.                                         *)
LEMMA CipherModeResultKeeps ==
  ASSUME IInv, NEW c \in Conns, NEW ok \in BOOLEAN, CipherModeResult(c, ok)
  PROVE  IInv'
  <1> DEFINE r == conn[c]
             q == [r EXCEPT !.cmd = FALSE]
             u == Set(w0, c, q)
  <1>0. /\ Good(w0) /\ w0.conn = conn /\ w0.sub = sub /\ r \in ConnType
        /\ Settled(r, sub.classmark) /\ r.cmd
    BY IInvGood DEF CipherModeResult
  <1>1. [w0 EXCEPT !.conn[c].cmd = FALSE] = u
    BY DEF Set, w0
  <1>2. BecomeUsed(IF r.vsub THEN CiphResParq(CiphResLu(u, ok), ok) ELSE u, c)
    BY <1>1 DEF CipherModeResult
  <1>3. /\ q \in ConnType /\ q.vsub = r.vsub /\ q.lu = r.lu /\ q.parq = r.parq
        /\ q.auth = r.auth /\ q.st = r.st /\ q.ran = r.ran /\ q.l3 = r.l3
        /\ ~q.cmd /\ q.authed = r.authed /\ q.use = r.use
    BY <1>0 DEF ConnType
  <1> HIDE DEF q, w0
  <1>4. r.st # "none"
    BY <1>0, WorkHasConn
  <1>5. Settled(q, sub.classmark)
    BY <1>0, <1>3 DEF Settled, Core, AuthRequired
  <1>6. Good(u)
    BY <1>0, <1>3, <1>4, <1>5, SetGood
  <1>7. r.vsub => NoneWaits(u)
    <2> SUFFICES ASSUME r.vsub, NEW d \in Conns, u.conn[d].st = "WAIT_CLASSMARK_UPDATE"
                 PROVE  FALSE
      BY DEF NoneWaits
    <2>1. u.sub = sub /\ u.conn[c] = q
      BY SMTT(30), <1>0, <1>3, SetIs DEF Good
    <2> HIDE DEF u
    <2>2. Settled(u.conn[d], sub.classmark)
      BY <1>6, <2>1 DEF Good, AllSettled
    <2>3. u.conn[d].vsub
      BY <2>2 DEF Settled, Core, Establishing
    <2>4. d = c
      <3>1. u.conn[c].vsub
        BY <1>3, <2>1
      <3>2. \A e \in Conns : u.conn[e].vsub => u.sub.msc_msub = e
        BY <1>6 DEF Good, Pointers, Pointed
      <3> QED BY <2>3, <3>1, <3>2
    <2>5. r.st = "WAIT_CLASSMARK_UPDATE"
      BY <1>3, <2>1, <2>4
    <2> QED BY <1>0, <2>5 DEF Settled, Core, Establishing
  <1> HIDE DEF u
  <1>8. Good(IF r.vsub THEN CiphResParq(CiphResLu(u, ok), ok) ELSE u)
    BY <1>6, <1>7, CiphResLuKeeps, CiphResParqKeeps
  <1> QED BY <1>2, <1>8, UnusedGood, BecomeKeeps DEF BecomeUsed

(* The awaited classmark: no other connection waits for it.                *)
LEMMA ClassmarkUpdateKeeps ==
  ASSUME IInv, NEW c \in Conns, ClassmarkUpdate(c)
  PROVE  IInv'
  <1> DEFINE r == conn[c]
             b == w0.sub.classmark \/ conn[c].vsub
             s == [sub EXCEPT !.classmark = b]
             n == [r EXCEPT !.st = "AUTH_CIPH"]
             q == [n EXCEPT !.cmd = TRUE]
             w1 == [w0 EXCEPT !.sub.classmark = @ \/ conn[c].vsub]
             w2 == St(w1, c, "AUTH_CIPH")
             u == [w2 EXCEPT !.conn[c].cmd = TRUE]
             sent == conn[c].vsub /\ sub.last_tuple /\ cfg.a5
             x == [w0 EXCEPT !.sub = s]
  <1>0. /\ w0 \in WType /\ Pointers(w0, {}, {}) /\ AllSettled(w0, {})
        /\ w0.conn = conn /\ w0.sub = sub /\ r \in ConnType /\ sub \in SubType
        /\ Settled(r, sub.classmark) /\ r.st = "WAIT_CLASSMARK_UPDATE"
        /\ conn \in [Conns -> ConnType]
    BY IInvGood, Parts DEF ClassmarkUpdate
  <1>1. BecomeUsed(IF sent THEN u ELSE Release(w2, c), c)
    BY DEF ClassmarkUpdate
  <1>2. r.vsub /\ b = TRUE
    BY <1>0 DEF Settled, Core, Establishing
  <1>3. w1 = x
    <2>1. w1 = [w0 EXCEPT !.sub.classmark = b]
      OBVIOUS
    <2> HIDE DEF b
    <2> QED BY <1>0, <2>1
  <1>4. w2 = Set(x, c, n)
    <2>1. w2 = Set(w1, c, [w1.conn[c] EXCEPT !.st = "AUTH_CIPH"])
      BY DEF Set, St
    <2>2. w1.conn = conn
      BY SMTT(30), <1>0
    <2> HIDE DEF w1, w2, x
    <2> QED BY <1>3, <2>1, <2>2
  <1>5. /\ s \in SubType /\ s.lu_fsm = sub.lu_fsm /\ s.parq_fsm = sub.parq_fsm
        /\ s.auth_fsm = sub.auth_fsm /\ s.msc_msub = sub.msc_msub /\ s.classmark = TRUE
    <2> HIDE DEF b
    <2> QED BY <1>0, <1>2 DEF SubType
  <1> HIDE DEF s, b, w0
  <1>6. x \in WType /\ Pointers(x, {}, {}) /\ x.conn = conn /\ x.sub = s
    BY <1>0, <1>5, RecordKeeps
  <1> HIDE DEF x
  <1>7. /\ n \in ConnType /\ n.vsub = r.vsub /\ n.lu = r.lu /\ n.parq = r.parq
        /\ n.auth = r.auth /\ n.st = "AUTH_CIPH" /\ n.ran = r.ran /\ n.l3 = r.l3
        /\ n.authed = r.authed /\ n.use = r.use
    BY <1>0 DEF ConnType, ConnStates, Establishing
  <1>8. /\ q \in ConnType /\ q.vsub = r.vsub /\ q.lu = r.lu /\ q.parq = r.parq
        /\ q.auth = r.auth /\ q.st = "AUTH_CIPH" /\ q.ran = r.ran /\ q.l3 = r.l3
        /\ q.authed = r.authed /\ q.use = r.use
    BY <1>7 DEF ConnType
  <1>9. u = Set(w2, c, [w2.conn[c] EXCEPT !.cmd = TRUE])
    BY DEF Set
  <1> HIDE DEF w2, w1, n, u
  <1>10. /\ w2 \in WType /\ w2.sub = s /\ w2.conn[c] = n
         /\ \A d \in Conns \ {c} : w2.conn[d] = conn[d]
    BY ZenonT(60), <1>4, <1>6, <1>7, SetIs
  <1>11. Pointers(w2, {}, {})
    BY ZenonT(60), <1>4, <1>6, <1>7, SetKeeps
  <1>12. AllSettled(w2, {c})
    <2> SUFFICES ASSUME NEW d \in Conns \ {c} PROVE Settled(conn[d], TRUE)
      BY <1>5, <1>10 DEF AllSettled
    <2>1. Settled(conn[d], sub.classmark)
      BY IInvGood
    <2>2. ~conn[d].vsub
      BY <1>0, <1>2 DEF Pointers, Pointed
    <2> QED BY <2>1, <2>2 DEF Settled, Core
  <1>13. CASE sent
    <2>1. u = Set(w2, c, q)
      BY <1>9, <1>10
    <2>2. BecomeUsed(u, c)
      BY <1>1, <1>13
    <2> HIDE DEF q
    <2>3. /\ u \in WType /\ u.sub = s /\ u.conn[c] = q
          /\ \A d \in Conns \ {c} : u.conn[d] = w2.conn[d]
      BY ZenonT(60), <1>8, <1>10, <2>1, SetIs
    <2>4. Pointers(u, {}, {})
      BY ZenonT(60), <1>7, <1>8, <1>10, <1>11, <2>1, SetKeeps
    <2>5. Settled(q, TRUE)
      BY <1>0, <1>8 DEF Settled, Core, AuthRequired, Establishing, Accepted
    <2>6. Good(u)
      BY ZenonT(60), <1>5, <1>10, <1>12, <2>3, <2>4, <2>5 DEF Good, AllSettled
    <2> QED BY <2>2, <2>6, UnusedGood, BecomeKeeps DEF BecomeUsed
  <1>14. CASE ~sent
    <2> DEFINE v == Release(w2, c)
    <2>1. BecomeUsed(v, c)
      BY <1>1, <1>14
    <2>2. v \in WType /\ Pointers(v, {}, {}) /\ AllQuiet(w2, v) /\ v.conn[c].st = "RELEASING"
      BY <1>7, <1>10, <1>11, ReleaseKeeps
    <2> HIDE DEF v
    <2>3. AllSettled(v, {c})
      BY <1>12, <2>2, AllQuietSettled
    <2>4. Settled(v.conn[c], v.sub.classmark)
      BY <2>2 DEF Settled, Core, Establishing, Accepted
    <2>5. Good(v)
      BY <2>2, <2>3, <2>4 DEF Good, AllSettled
    <2> QED BY <2>1, <2>5, UnusedGood, BecomeKeeps DEF BecomeUsed
  <1> QED BY <1>13, <1>14

(* Messages of the RAN.                                                    *)
LEMMA FromRanKeeps ==
  ASSUME IInv, NEW c \in Conns, FromRan(c)
  PROVE  IInv'
  <1>0. Good(w0) /\ w0.conn = conn
    BY IInvGood
  <1>1. CASE ClassmarkUpdate(c)
    BY <1>1, ClassmarkUpdateKeeps
  <1>2. CASE ClearRequest(c)
    <2>1. w0.conn[c].st # "none" /\ Become(CnClose(w0, c))
      BY <1>2 DEF ClearRequest, LiveConns
    <2>2. Good(CnClose(w0, c))
      BY <1>0, <2>1, CloseGood
    <2> QED BY <2>1, <2>2, BecomeKeeps
  <1>3. CASE ClearComplete(c)
    <2>1. CASE conn[c].st = "RELEASING" /\ Become(Released(w0, c))
      <3>1. Good(Released(w0, c))
        BY <1>0, <2>1, ReleasedKeeps
      <3> QED BY <2>1, <3>1, BecomeKeeps
    <2>2. CASE c \in LiveConns(w0) /\ Become(Release(w0, c))
      <3>1. w0.conn[c].st # "none"
        BY <2>2 DEF LiveConns
      <3>2. Good(Release(w0, c))
        BY <1>0, <3>1, CloseGood
      <3> QED BY <2>2, <3>2, BecomeKeeps
    <2> QED BY <1>3, <2>1, <2>2 DEF ClearComplete
  <1>4. CASE \E ok \in BOOLEAN : CipherModeResult(c, ok)
    BY <1>4, CipherModeResultKeeps
  <1> QED BY <1>1, <1>2, <1>3, <1>4 DEF FromRan

(* The tuples of the HLR: the session goes on, and the challenge is sent   *)
(* on the connection that the record refers to.                            *)
LEMMA TuplesKeep ==
  ASSUME IInv, sub.auth_fsm # None,
         conn[sub.auth_fsm[1]].auth[sub.auth_fsm[2]] = "WAIT_AI",
         NEW T \in SUBSET LiveConns(w0)
  PROVE  LET c == sub.auth_fsm[1]
             k == sub.auth_fsm[2]
             w1 == [w0 EXCEPT !.conn[c].auth[k] = "WAIT_RESP", !.sub.last_tuple = TRUE]
         IN Good([w1 EXCEPT !.conn = [d \in Conns |->
                    IF d \in T THEN [w1.conn[d] EXCEPT !.chal = TRUE] ELSE w1.conn[d]]])
  <1> DEFINE c == sub.auth_fsm[1]
             k == sub.auth_fsm[2]
             r == conn[c]
             a == [r.auth EXCEPT ![k] = "WAIT_RESP"]
             q == [r EXCEPT !.auth = a]
             f == [conn EXCEPT ![c] = q]
             s == [sub EXCEPT !.last_tuple = TRUE]
             w1 == [w0 EXCEPT !.conn[c].auth[k] = "WAIT_RESP", !.sub.last_tuple = TRUE]
             g == [d \in Conns |->
                     IF d \in T THEN [w1.conn[d] EXCEPT !.chal = TRUE] ELSE w1.conn[d]]
             v == [w1 EXCEPT !.conn = g]
  <1> SUFFICES Good(v)
    OBVIOUS
  <1>0. /\ w0 \in WType /\ Pointers(w0, {}, {}) /\ AllSettled(w0, {})
        /\ w0.conn = conn /\ w0.sub = sub /\ sub \in SubType
        /\ conn \in [Conns -> ConnType] /\ Good(w0)
    BY IInvGood, Parts
  <1>1. c \in Conns /\ k \in Parents /\ r \in ConnType /\ r.auth[k] = "WAIT_AI"
    BY <1>0 DEF SubType
  <1>2. r.st # "none"
    <2>1. r.st = "none" => r = NoConn
      BY <1>1, IInvGood
    <2>2. NoConn.auth[k] = "none"
      BY <1>1 DEF NoConn
    <2> QED BY <1>1, <2>1, <2>2
  <1>3. a \in [Parents -> AuthStates] /\ \A j \in Parents : r.auth[j] # "none" => a[j] # "none"
    BY <1>1 DEF ConnType, AuthStates
  <1>4. w1 = [w0 EXCEPT !.conn = f, !.sub = s]
    BY <1>0, <1>1
  <1> HIDE DEF a, c, k, w0
  <1>5. /\ q \in ConnType /\ q.vsub = r.vsub /\ q.lu = r.lu /\ q.parq = r.parq
        /\ q.auth = a /\ q.st = r.st /\ q.ran = r.ran /\ q.l3 = r.l3
        /\ q.cmd = r.cmd /\ q.authed = r.authed /\ q.use = r.use
    BY <1>1, <1>3 DEF ConnType
  <1>6. /\ s \in SubType /\ s.lu_fsm = sub.lu_fsm /\ s.parq_fsm = sub.parq_fsm
        /\ s.auth_fsm = sub.auth_fsm /\ s.msc_msub = sub.msc_msub
        /\ s.classmark = sub.classmark
    BY <1>0 DEF SubType
  <1> HIDE DEF q, s
  <1>7. f \in [Conns -> ConnType] /\ f[c] = q /\ \A d \in Conns \ {c} : f[d] = conn[d]
    BY <1>0, <1>1, <1>5
  <1> HIDE DEF f
  <1>8. w1 \in WType /\ w1.conn = f /\ w1.sub = s
    BY <1>0, <1>4, <1>6, <1>7 DEF WType
  <1> HIDE DEF w1
  <1>9. \A d \in Conns : /\ f[d].vsub = conn[d].vsub /\ f[d].lu = conn[d].lu
                         /\ f[d].parq = conn[d].parq /\ f[d].st = conn[d].st
                         /\ \A j \in Parents : conn[d].auth[j] # "none" => f[d].auth[j] # "none"
                         /\ f[d].ran = conn[d].ran /\ f[d].l3 = conn[d].l3
                         /\ f[d].cmd = conn[d].cmd /\ f[d].authed = conn[d].authed
                         /\ f[d].use = conn[d].use /\ (f[d].st = "none" => f[d] = conn[d])
    <2> TAKE d \in Conns
    <2>1. CASE d = c
      BY <1>2, <1>3, <1>5, <1>7, <2>1
    <2>2. CASE d # c
      BY <1>7, <2>2
    <2> QED BY <2>1, <2>2
  <1>10. \A d \in Conns :
           /\ g[d] \in ConnType /\ g[d].vsub = f[d].vsub /\ g[d].lu = f[d].lu
           /\ g[d].parq = f[d].parq /\ g[d].st = f[d].st /\ g[d].auth = f[d].auth
           /\ g[d].ran = f[d].ran /\ g[d].l3 = f[d].l3
           /\ g[d].cmd = f[d].cmd /\ g[d].authed = f[d].authed
           /\ g[d].use = f[d].use /\ (f[d].st = "none" => g[d] = f[d])
    <2> TAKE d \in Conns
    <2>1. f[d] \in ConnType /\ g[d] = IF d \in T THEN [f[d] EXCEPT !.chal = TRUE] ELSE f[d]
      BY <1>7, <1>8
    <2>2. d \in T => f[d].st # "none"
      BY SMTT(30), <1>0, <1>9 DEF LiveConns
    <2> HIDE DEF g
    <2>3. CASE d \in T
      <3>1. g[d] = [f[d] EXCEPT !.chal = TRUE]
        BY <2>1, <2>3
      <3> QED BY <2>1, <2>2, <2>3, <3>1 DEF ConnType
    <2>4. CASE d \notin T
      BY <2>1, <2>4
    <2> QED BY <2>3, <2>4
  <1>11. g \in [Conns -> ConnType]
    BY <1>10
  <1> HIDE DEF g
  <1>12. v \in WType /\ v.conn = g /\ v.sub = s
    BY <1>8, <1>11 DEF WType
  <1> HIDE DEF v
  <1>13. Pointers(v, {}, {})
    <2>1. \A d \in Conns :
           /\ v.conn[d].lu # "none" <=> w0.conn[d].lu # "none"
           /\ w0.conn[d].parq # "none" => v.conn[d].parq # "none"
           /\ v.conn[d].parq \in ParqPending => w0.conn[d].parq \in ParqPending
           /\ \A j \in Parents : w0.conn[d].auth[j] # "none" => v.conn[d].auth[j] # "none"
           /\ v.conn[d].vsub = w0.conn[d].vsub
           /\ v.conn[d].st = "none" => v.conn[d] = w0.conn[d]
      BY SMTT(30), <1>0, <1>9, <1>10, <1>12
    <2> QED BY SMTT(30), <1>0, <1>6, <1>12, <2>1, PointersCarry
  <1>14. \A d \in Conns : Settled(v.conn[d], v.sub.classmark)
    <2> TAKE d \in Conns
    <2>1. Settled(conn[d], sub.classmark)
      BY IInvGood
    <2> QED BY SMTT(30), <1>6, <1>9, <1>10, <1>12, <2>1 DEF Settled, Core, AuthRequired
  <1> QED BY <1>12, <1>13, <1>14 DEF Good, AllSettled

(* The HLR's answer to a request for tuples, or none.                      *)
LEMMA SendAuthInfoResultKeeps ==
  ASSUME IInv, NEW ok \in {"tuples", "no_info", "failed"}, SendAuthInfoResult(ok)
  PROVE  IInv'
  <1> DEFINE c == sub.auth_fsm[1]
             k == sub.auth_fsm[2]
             to == {sub.msc_conn_ref} \cap LiveConns(w0)
             w1 == [w0 EXCEPT !.conn[c].auth[k] = "WAIT_RESP", !.sub.last_tuple = TRUE]
             v == [w1 EXCEPT !.conn = [d \in Conns |->
                    IF d \in to THEN [w1.conn[d] EXCEPT !.chal = TRUE] ELSE w1.conn[d]]]
  <1>1. /\ sub.auth_fsm # None /\ conn[c].auth[k] = "WAIT_AI"
        /\ Become(CASE ok = "tuples" -> v [] OTHER -> AuthEnd(w0, c, k, ok))
    BY DEF SendAuthInfoResult
  <1>2. CASE ok = "tuples"
    <2>1. Good(v)
      BY ZenonT(60), <1>1, TuplesKeep
    <2>2. Become(v)
      BY <1>1, <1>2
    <2> HIDE DEF v
    <2> QED BY ZenonT(60), <2>1, <2>2, BecomeKeeps
  <1>3. CASE ok # "tuples"
    <2>1. Become(AuthEnd(w0, c, k, ok)) /\ ok # "passed"
      BY <1>1, <1>3
    <2>2. c \in Conns /\ k \in Parents /\ w0.conn[c].auth[k] # "none" /\ Good(w0)
      BY <1>1, IInvGood DEF SubType
    <2> HIDE DEF c, k, w0
    <2>3. Good(AuthEnd(w0, c, k, ok))
      BY <2>1, <2>2, AuthEndKeeps
    <2> QED BY <2>1, <2>3, BecomeKeeps
  <1> QED BY <1>2, <1>3

(* The HLR's answer to an update of the location goes to the LU.           *)
LEMMA UpdateLocationResultKeeps ==
  ASSUME IInv, NEW ok \in BOOLEAN, UpdateLocationResult(ok)
  PROVE  IInv'
  <1> DEFINE l == sub.lu_fsm
             s == [sub EXCEPT !.dataconf = ok, !.loc_conf = ok]
             u == [w0 EXCEPT !.sub = s]
  <1>0. /\ Good(w0) /\ w0.conn = conn /\ w0.sub = sub /\ sub \in SubType
    BY IInvGood
  <1>1. [w0 EXCEPT !.sub.dataconf = ok, !.sub.loc_conf = ok] = u
    BY <1>0 DEF w0, SubType
  <1>2. l \in Conns /\ conn[l].lu = "WAIT_HLR_UPD"
    BY <1>0 DEF UpdateLocationResult, SubType
  <1>3. Become(IF ~ok THEN LuFailure(u, l)
               ELSE IF cfg.imei = "late" THEN LuState(u, l, "WAIT_IMEI")
               ELSE LuPostImei(u, l))
    BY <1>1 DEF UpdateLocationResult
  <1>4. /\ s \in SubType /\ s.lu_fsm = sub.lu_fsm /\ s.parq_fsm = sub.parq_fsm
        /\ s.auth_fsm = sub.auth_fsm /\ s.msc_msub = sub.msc_msub
        /\ s.classmark = sub.classmark
    BY ZenonT(60), <1>0 DEF SubType
  <1> HIDE DEF s, w0, l
  <1>5. Good(u) /\ u.conn = conn
    BY <1>0, <1>4, RecordGood
  <1> HIDE DEF u
  <1>6. u.conn[l].lu \in LuPost \ {"WAIT_CIPH"} /\ u.conn[l].st # "none"
    BY <1>2, <1>5, WorkHasConn DEF LuPost
  <1>7. u \in WType /\ Pointers(u, {}, {}) /\ AllSettled(u, {})
    BY <1>5 DEF Good
  <1>8. Good(LuFailure(u, l))
    BY ZenonT(60), <1>2, <1>5, <1>6, CloseGood
  <1>9. Good(LuPostImei(u, l))
    BY ZenonT(60), <1>2, <1>6, <1>7, LuPostImeiKeeps DEF Good
  <1>10. Good(LuState(u, l, "WAIT_IMEI"))
    <2> DEFINE t == "WAIT_IMEI"
    <2>1. t \in LuStates \ {"none"} /\ u.conn[l].lu # "none"
      BY <1>6 DEF LuStates, LuPost
    <2> HIDE DEF t
    <2>2. Good(LuState(u, l, t))
      BY ZenonT(60), <1>2, <1>6, <1>7, <2>1, LuStepKeeps DEF Good
    <2> QED BY <2>2 DEF t
  <1> QED BY ZenonT(60), <1>3, <1>8, <1>9, <1>10, BecomeKeeps

(* And so does its answer to the check of an IMEI.                         *)
LEMMA CheckImeiResultKeeps ==
  ASSUME IInv, NEW ok \in BOOLEAN, CheckImeiResult(ok)
  PROVE  IInv'
  <1> DEFINE l == sub.lu_fsm
             r == conn[l]
  <1>1. PICK reuse \in Reuses :
          /\ l # None /\ r.lu \in {"WAIT_HLR_CHECK_IMEI_EARLY", "WAIT_IMEI"}
          /\ Become(IF ~ok THEN LuFailure(w0, l)
                    ELSE IF r.lu = "WAIT_IMEI" THEN LuPostImei(w0, l)
                    ELSE LuNode1(w0, l, reuse))
    BY DEF CheckImeiResult
  <1>2. /\ Good(w0) /\ w0.conn = conn /\ w0.sub = sub /\ l \in Conns
        /\ w0 \in WType /\ Pointers(w0, {}, {}) /\ AllSettled(w0, {})
        /\ Settled(r, sub.classmark)
    BY <1>1, IInvGood DEF SubType
  <1> HIDE DEF w0, l
  <1>3. r.st # "none"
    BY <1>1, <1>2, WorkHasConn
  <1>4. Good(LuFailure(w0, l))
    BY <1>2, <1>3, CloseGood
  <1>5. r.lu = "WAIT_IMEI" => Good(LuPostImei(w0, l))
    <2>1. "WAIT_IMEI" \in LuPost \ {"WAIT_CIPH"}
      BY DEF LuPost
    <2> QED BY <1>2, <2>1, LuPostImeiKeeps DEF Good
  <1>6. ASSUME r.lu # "WAIT_IMEI" PROVE Good(LuNode1(w0, l, reuse))
    <2>1. LuMid(r, sub.classmark) /\ r.lu # "none"
      BY <1>1, <1>2, <1>6 DEF LuMid, Settled, LuPost
    <2>2. AllSettled(w0, {l}) /\ reuse \in BOOLEAN
      BY <1>2 DEF AllSettled, Reuses
    <2> QED BY ZenonT(60), <1>2, <2>1, <2>2, LuNode1Keeps DEF Good
  <1> QED BY ZenonT(60), <1>1, <1>4, <1>5, <1>6, BecomeKeeps

(* Messages of the HLR.                                                    *)
LEMMA FromHlrKeeps ==
  ASSUME IInv, FromHlr
  PROVE  IInv'
  <1>1. CASE \E ok \in {"tuples", "no_info", "failed"} : SendAuthInfoResult(ok)
    BY <1>1, SendAuthInfoResultKeeps
  <1>2. CASE \E ok \in BOOLEAN : UpdateLocationResult(ok) \/ CheckImeiResult(ok)
    BY <1>2, UpdateLocationResultKeeps, CheckImeiResultKeeps
  <1>3. CASE CancelLocation \/ ExpireLu
    <2>1. Become(SubDetach(w0))
      BY <1>3 DEF CancelLocation, ExpireLu
    <2> QED BY ZenonT(60), <2>1, IInvGood, DetachGood, BecomeKeeps
  <1> QED BY <1>1, <1>2, <1>3 DEF FromHlr

(* Timers.                                                                 *)
LEMMA TimersKeep ==
  ASSUME IInv, NEW c \in Conns, Timers(c)
  PROVE  IInv'
  <1>0. /\ Good(w0) /\ w0.conn = conn /\ w0.sub = sub /\ Settled(conn[c], sub.classmark)
        /\ conn[c] \in ConnType
    BY IInvGood
  <1> HIDE DEF w0
  <1>1. CASE TimerX1(c)
    <2>1. conn[c].st # "none" /\ Become(CnClose(w0, c))
      BY <1>1 DEF TimerX1, Establishing
    <2>2. Good(CnClose(w0, c))
      BY <1>0, <2>1, CloseGood
    <2> QED BY <2>1, <2>2, BecomeKeeps
  <1>2. CASE TimerX2(c)
    <2>1. CASE conn[c].st = "RELEASING" /\ Become(Released(w0, c))
      BY ZenonT(60), <1>0, <2>1, ReleasedKeeps, BecomeKeeps
    <2>2. CASE conn[c].st = "RELEASED" /\ Become(Term(w0, c))
      BY <1>0, <2>2, TermKeeps, BecomeKeeps
    <2> QED BY <1>2, <2>1, <2>2 DEF TimerX2
  <1>3. CASE LuTimeout(c)
    <2>1. conn[c].lu # "none" /\ Become(LuFailure(w0, c))
      BY <1>3 DEF LuTimeout
    <2>2. conn[c].st # "none"
      BY <1>0, <2>1, WorkHasConn
    <2>3. Good(LuFailure(w0, c))
      BY <1>0, <2>2, CloseGood
    <2> QED BY <2>1, <2>3, BecomeKeeps
  <1>4. CASE UpdLocTimeout(c)
    <2> DEFINE r == conn[c]
               v == ParqPostVlr(w0, c)
    <2>1. r.parq = "WAIT_UPD_LOC_CHILD" /\ Become(v)
      BY <1>4 DEF UpdLocTimeout
    <2>2. r.st # "none"
      BY ZenonT(60), <1>0, <2>1, WorkHasConn
    <2>3. sub.parq_fsm = c
      BY ZenonT(60), <1>0, <2>1 DEF Good, Pointers, Pointed, ParqPending
    <2>4. w0 \in WType /\ Pointers(w0, {c}, {}) /\ AllSettled(w0, {c})
      BY <1>0 DEF Good, Pointers, Pointed, AllSettled
    <2>5. ParqMid(r, sub.classmark)
      <3>1. r.use.tr \in Nat
        BY SMTT(30), <1>0, ConnAssumption DEF ConnType, UseType
      <3> QED BY SMTT(30), <1>0, <2>1, <3>1 DEF ParqMid, Settled
    <2>6. r.st \in Establishing /\ AuthRequired(r) => r.authed
      BY <1>0, <2>1 DEF Settled, ParqPost
    <2>7. v \in WType /\ Pointers(v, {}, {}) /\ AllSettled(v, {})
      BY <1>0, <2>2, <2>3, <2>4, <2>5, <2>6, ParqPostVlrKeeps
    <2> HIDE DEF v
    <2> QED BY <2>1, <2>7, BecomeKeeps DEF Good
  <1>5. CASE \E k \in Parents : AuthTimeout(c, k)
    <2>1. PICK k \in Parents :
            conn[c].auth[k] # "none" /\ Become(AuthEnd(w0, c, k, "failed"))
      BY <1>5 DEF AuthTimeout
    <2> DEFINE result == "failed"
    <2>2. result # "passed" /\ Become(AuthEnd(w0, c, k, result))
      BY <2>1
    <2> HIDE DEF result
    <2>3. Good(AuthEnd(w0, c, k, result))
      BY ZenonT(60), <1>0, <2>1, <2>2, AuthEndKeeps
    <2> QED BY <2>2, <2>3, BecomeKeeps
  <1> QED BY ZenonT(60), <1>1, <1>2, <1>3, <1>4, <1>5 DEF Timers, MscATimer

(* A transaction begins on an accepted connection.                         *)
LEMMA TransBegins ==
  ASSUME NEW w, Good(w), NEW c \in Conns, w.conn[c].st \in Accepted,
         NEW q \in ConnType, NEW b, q = [w.conn[c] EXCEPT !.st = "COMMUNICATING", !.use = b]
  PROVE  Good(Set(w, c, q))
  <1> DEFINE r == w.conn[c]
  <1>1. r \in ConnType /\ Settled(r, w.sub.classmark)
    BY Parts DEF Good, AllSettled
  <1>2. /\ q.vsub = r.vsub /\ q.lu = r.lu /\ q.parq = r.parq
        /\ q.auth = r.auth /\ q.st = "COMMUNICATING" /\ q.ran = r.ran
        /\ q.authed = r.authed
    BY <1>1 DEF ConnType
  <1>3. Settled(q, w.sub.classmark)
    BY <1>1, <1>2 DEF Settled, Core, Accepted, Establishing, AuthRequired
  <1> QED BY <1>2, <1>3, SetGood

(* The service of a CM Service Request begins.                             *)
LEMMA MoTransKeeps ==
  ASSUME IInv, NEW c \in Conns, MoTrans(c)
  PROVE  IInv'
  <1> DEFINE r == conn[c]
             b == [r.use EXCEPT !.tr = r.use.tr + 1, !.cm = r.use.cm - 1]
             q == [r EXCEPT !.st = "COMMUNICATING", !.use = b]
             v == [AddTrans(w0, c) EXCEPT !.conn[c].use.cm = @ - 1]
  <1>0. /\ Good(w0) /\ w0 \in WType /\ w0.conn = conn /\ r \in ConnType
        /\ conn \in [Conns -> ConnType]
    BY IInvGood, Parts
  <1>1. /\ r.st \in Accepted /\ r.use.cm > 0 /\ r.use.tr < MaxUse /\ Become(v)
    BY DEF MoTrans
  <1>2. v = Set(w0, c, q)
    <2> DEFINE e == [r.use EXCEPT !.tr = r.use.tr + 1]
               y == [r EXCEPT !.st = "COMMUNICATING", !.use = e]
    <2>1. AddTrans(w0, c) = Set(w0, c, y)
      BY ZenonT(60), <1>0 DEF AddTrans, Set, w0, ConnType
    <2>2. [Set(w0, c, y) EXCEPT !.conn[c].use.cm = @ - 1] = Set(w0, c, q)
      <3> DEFINE S == Set(w0, c, y)
                 z == [y EXCEPT !.use = [e EXCEPT !.cm = e.cm - 1]]
      <3>1. S.conn[c] = y /\ y.use = e
        BY <1>0 DEF Set, w0, ConnType
      <3>2. [S EXCEPT !.conn[c].use.cm = @ - 1]
              = Set(S, c, [S.conn[c] EXCEPT !.use.cm = @ - 1])
        BY DEF Set
      <3>3. [S.conn[c] EXCEPT !.use.cm = @ - 1] = z
        <4> HIDE DEF S, y, e
        <4> QED BY <3>1
      <3>4. z = q
        <4>1. e.cm = r.use.cm /\ r.use \in UseType
          BY <1>0 DEF ConnType, UseType
        <4>2. [e EXCEPT !.cm = r.use.cm - 1] = b
          BY <4>1 DEF UseType
        <4>3. z = [y EXCEPT !.use = b]
          BY <4>1, <4>2
        <4> HIDE DEF b, e, z
        <4> QED BY <1>0, <4>3 DEF ConnType
      <3>5. \A x : Set(S, c, x) = Set(w0, c, x)
        BY <1>0 DEF Set, w0
      <3> HIDE DEF S, z, q, y
      <3>6. [S EXCEPT !.conn[c].use.cm = @ - 1] = Set(w0, c, q)
        BY ZenonT(60), <3>2, <3>3, <3>4, <3>5
      <3> QED BY <3>6 DEF S
    <2> QED BY <2>1, <2>2
  <1>3. b \in UseType
    <2>1. r.use \in UseType
      BY <1>0 DEF ConnType
    <2>2. r.use.cm > 0 /\ r.use.tr < MaxUse
      BY DEF MoTrans
    <2> DEFINE i == r.use.tr + 1
               j == r.use.cm - 1
    <2> HIDE DEF r
    <2>3. i \in 0..MaxUse /\ j \in 0..MaxUse
      BY SMTT(60), <2>1, <2>2, ConnAssumption DEF UseType
    <2>4. b = [r.use EXCEPT !.tr = i, !.cm = j]
      OBVIOUS
    <2> HIDE DEF i, j, b
    <2> QED BY <2>1, <2>3, <2>4 DEF UseType
  <1> HIDE DEF b, v, w0
  <1>4. q \in ConnType
    BY <1>0, <1>3 DEF ConnType, ConnStates, Accepted
  <1>5. q = [w0.conn[c] EXCEPT !.st = "COMMUNICATING", !.use = b]
    BY <1>0
  <1> HIDE DEF q
  <1>6. Good(Set(w0, c, q))
    BY <1>0, <1>1, <1>4, <1>5, TransBegins
  <1> QED BY ZenonT(60), <1>1, <1>2, <1>6, BecomeKeeps

(* A call or an SMS for the subscriber: on its connection, or by paging.   *)
LEMMA MtRequestKeeps ==
  ASSUME IInv, MtRequest
  PROVE  IInv'
  <1> DEFINE valid == {c \in Conns : conn[c].vsub /\ conn[c].st \in Accepted}
  <1>0. /\ Good(w0) /\ w0 \in WType /\ w0.conn = conn /\ w0.sub = sub /\ sub \in SubType
        /\ conn \in [Conns -> ConnType]
    BY IInvGood, Parts
  <1>1. ASSUME NEW c \in valid, conn[c].use.tr < MaxUse, Become(AddTrans(w0, c))
        PROVE  IInv'
    <2> DEFINE r == conn[c]
               b == [r.use EXCEPT !.tr = r.use.tr + 1]
               q == [r EXCEPT !.st = "COMMUNICATING", !.use = b]
    <2>1. c \in Conns /\ r.st \in Accepted /\ r \in ConnType
      BY <1>0
    <2>2. AddTrans(w0, c) = Set(w0, c, q)
      BY ZenonT(60), <1>0, <2>1 DEF AddTrans, Set, w0, ConnType
    <2>3. b \in UseType
      <3>1. r.use \in UseType
        BY <2>1 DEF ConnType
      <3> HIDE DEF r
      <3> QED BY SMTT(30), <1>1, <3>1, ConnAssumption DEF UseType, r
    <2> HIDE DEF b, w0
    <2>4. q \in ConnType
      BY <2>1, <2>3 DEF ConnType, ConnStates, Accepted
    <2>5. q = [w0.conn[c] EXCEPT !.st = "COMMUNICATING", !.use = b]
      BY <1>0
    <2> HIDE DEF q
    <2>6. Good(Set(w0, c, q))
      BY ZenonT(60), <1>0, <2>1, <2>4, <2>5, TransBegins
    <2> QED BY ZenonT(60), <1>1, <2>2, <2>6, BecomeKeeps
  <1>2. ASSUME Become([w0 EXCEPT !.sub.is_paging = TRUE])
        PROVE  IInv'
    <2> DEFINE s == [sub EXCEPT !.is_paging = TRUE]
    <2>1. [w0 EXCEPT !.sub.is_paging = TRUE] = [w0 EXCEPT !.sub = s]
      BY <1>0 DEF w0
    <2>2. /\ s \in SubType /\ s.lu_fsm = sub.lu_fsm /\ s.parq_fsm = sub.parq_fsm
          /\ s.auth_fsm = sub.auth_fsm /\ s.msc_msub = sub.msc_msub
          /\ s.classmark = sub.classmark
      BY ZenonT(60), <1>0 DEF SubType
    <2> HIDE DEF s, w0
    <2>3. Good([w0 EXCEPT !.sub = s])
      BY <1>0, <2>2, RecordGood
    <2> QED BY ZenonT(60), <1>2, <2>1, <2>3, BecomeKeeps
  <1> QED BY <1>1, <1>2 DEF MtRequest

(* The page goes unanswered.                                               *)
LEMMA PagingTimeoutKeeps ==
  ASSUME IInv, PagingTimeout
  PROVE  IInv'
  <1> DEFINE s == [sub EXCEPT !.is_paging = FALSE]
  <1>0. Good(w0) /\ w0.sub = sub /\ sub \in SubType
    BY IInvGood
  <1>1. Become([w0 EXCEPT !.sub = s])
    <2>1. [w0 EXCEPT !.sub.is_paging = FALSE] = [w0 EXCEPT !.sub = s]
      BY <1>0 DEF w0
    <2> QED BY <2>1 DEF PagingTimeout
  <1>2. /\ s \in SubType /\ s.lu_fsm = sub.lu_fsm /\ s.parq_fsm = sub.parq_fsm
        /\ s.auth_fsm = sub.auth_fsm /\ s.msc_msub = sub.msc_msub
        /\ s.classmark = sub.classmark
    BY ZenonT(60), <1>0 DEF SubType
  <1> HIDE DEF s, w0
  <1>3. Good([w0 EXCEPT !.sub = s])
    BY <1>0, <1>2, RecordGood
  <1> QED BY <1>1, <1>3, BecomeKeeps

(* A transaction ends, and with the last use the connection.               *)
LEMMA TransDoneKeeps ==
  ASSUME IInv, NEW c \in Conns, TransDone(c)
  PROVE  IInv'
  <1> DEFINE u == PutTrans(w0, c)
  <1>0. /\ w0 \in WType /\ Pointers(w0, {}, {}) /\ AllSettled(w0, {}) /\ w0.conn = conn
    BY IInvGood
  <1>1. conn[c].use.tr > 0 /\ BecomeUsed(u, c)
    BY DEF TransDone, PutTrans
  <1>2. u \in WType /\ Pointers(u, {}, {}) /\ AllSettled(u, {})
    <2> HIDE DEF w0
    <2> QED BY <1>0, <1>1, PutTransIs
  <1> HIDE DEF u
  <1>3. Good(u)
    BY <1>2 DEF Good
  <1> QED BY ZenonT(60), <1>1, <1>3, UnusedGood, BecomeKeeps DEF BecomeUsed

-----------------------------------------------------------------------------
(* The invariant of the specification, and what it implies.                *)

(* It holds at the start.                                                  *)
LEMMA InitInv == Init => IInv
  <1> SUFFICES ASSUME Init PROVE IInv
    OBVIOUS
  <1>1. NoConn \in ConnType
    <2>1. NoUse \in UseType
      BY SMTT(30), ConnAssumption DEF NoUse, UseType
    <2>2. [k \in Parents |-> "none"] \in [Parents -> AuthStates]
      BY DEF AuthStates
    <2> QED BY <2>1, <2>2 DEF NoConn, ConnType, ConnStates, LuStates, ParqStates
  <1>2. /\ sub \in SubType /\ sub.lu_fsm = None /\ sub.parq_fsm = None
        /\ sub.auth_fsm = None /\ sub.msc_msub = None
    BY DEF Init, SubType
  <1>3. conn \in [Conns -> ConnType] /\ \A c \in Conns : conn[c] = NoConn
    BY <1>1 DEF Init
  <1>4. w0 \in WType /\ w0.conn = conn /\ w0.sub = sub
    BY <1>2, <1>3, Made DEF w0
  <1> HIDE DEF w0
  <1>5. Pointers(w0, {}, {})
    <2>1. AuthPointer(w0)
      BY <1>2, <1>4, AuthNone
    <2>2. ASSUME NEW c \in Conns PROVE Pointed(w0.conn[c], w0.sub, c, {}, {})
      BY SMTT(30), <1>2, <1>3, <1>4, ConnAssumption DEF Pointed, NoConn, ParqPending
    <2> QED BY <2>1, <2>2 DEF Pointers
  <1>6. \A m : Settled(NoConn, m)
    BY DEF NoConn, Settled, Core, Establishing, Accepted
  <1>7. AllSettled(w0, {})
    BY <1>3, <1>4, <1>6 DEF AllSettled
  <1> QED BY ZenonT(60), <1>4, <1>5, <1>7 DEF IInv, Init

(* Every step keeps it.                                                    *)
LEMMA StepInv == IInv /\ [Next]_vars => IInv'
  <1> SUFFICES ASSUME IInv, [Next]_vars PROVE IInv'
    OBVIOUS
  <1>1. ASSUME NEW c \in Conns, FromMs(c) PROVE IInv'
    BY ZenonT(60), <1>1, OpenKeeps, LateL3Keeps, LuAnswersKeep, RxAuthRespKeeps DEF FromMs
  <1>2. ASSUME NEW c \in Conns, FromRan(c) PROVE IInv'
    BY <1>2, FromRanKeeps
  <1>3. ASSUME NEW c \in Conns, Timers(c) PROVE IInv'
    BY <1>3, TimersKeep
  <1>4. ASSUME NEW c \in Conns, MoTrans(c) \/ TransDone(c) PROVE IInv'
    BY <1>4, MoTransKeeps, TransDoneKeeps
  <1>5. CASE FromHlr \/ PagingTimeout \/ MtRequest
    BY <1>5, FromHlrKeeps, PagingTimeoutKeeps, MtRequestKeeps
  <1>6. CASE UNCHANGED vars
    <2>1. conn' = conn /\ sub' = sub /\ cfg' = cfg
      BY <1>6 DEF vars
    <2>2. Become(w0)
      BY <2>1 DEF Become, w0
    <2> QED BY ZenonT(60), <2>2, IInvGood, BecomeKeeps
  <1> QED BY <1>1, <1>2, <1>3, <1>4, <1>5, <1>6 DEF Next

(* The four properties follow from it.                                     *)
LEMMA InvImplies ==
  IInv => TypeOK /\ PointersAgree /\ DecisionPending /\ AcceptedAuthenticated
  <1> SUFFICES ASSUME IInv
               PROVE  TypeOK /\ PointersAgree /\ DecisionPending /\ AcceptedAuthenticated
    OBVIOUS
  <1>0. /\ w0 \in WType /\ Pointers(w0, {}, {}) /\ w0.conn = conn /\ w0.sub = sub
        /\ sub \in SubType /\ conn \in [Conns -> ConnType]
        /\ \A c \in Conns : Settled(conn[c], sub.classmark)
    BY IInvGood, Parts
  <1> HIDE DEF w0
  <1>1. TypeOK
    BY <1>0 DEF IInv, TypeOK, ConnType, UseType, SubType
  <1>2. PointersAgree
    <2>1. ASSUME NEW c \in Conns PROVE Pointed(conn[c], sub, c, {}, {})
      BY <1>0 DEF Pointers
    <2>2. AuthPointer(w0)
      BY <1>0 DEF Pointers
    <2>3. sub.lu_fsm \in Conns \cup {None} /\ sub.parq_fsm \in Conns \cup {None}
          /\ sub.auth_fsm \in (Conns \X Parents) \cup {None}
      BY <1>0 DEF SubType
    <2>4. /\ sub.lu_fsm # None => conn[sub.lu_fsm].lu # "none"
          /\ sub.parq_fsm # None => conn[sub.parq_fsm].parq # "none"
      BY <2>1, <2>3 DEF Pointed
    <2>5. sub.auth_fsm # None => conn[sub.auth_fsm[1]].auth[sub.auth_fsm[2]] # "none"
      <3> SUFFICES ASSUME sub.auth_fsm # None
                   PROVE  conn[sub.auth_fsm[1]].auth[sub.auth_fsm[2]] # "none"
        OBVIOUS
      <3>1. PICK b \in Conns, k \in Parents : sub.auth_fsm = <<b, k>>
        BY SMTT(30), <2>3
      <3>2. conn[b].auth[k] # "none"
        BY <1>0, <2>2, <3>1 DEF AuthPointer
      <3>3. sub.auth_fsm[1] = b /\ sub.auth_fsm[2] = k
        BY SMTT(30), <3>1
      <3> QED BY <3>2, <3>3
    <2>6. \A c \in Conns : /\ conn[c].lu # "none" => sub.lu_fsm = c
                           /\ conn[c].vsub <=> sub.msc_msub = c
      BY <2>1 DEF Pointed
    <2> QED BY <2>4, <2>5, <2>6 DEF PointersAgree
  <1>3. DecisionPending
    BY <1>0 DEF Settled, Core, DecisionPending
  <1>4. AcceptedAuthenticated
    BY <1>0 DEF Settled, AcceptedAuthenticated
  <1> QED BY ZenonT(60), <1>1, <1>2, <1>3, <1>4

(* The invariant holds throughout.                                         *)
LEMMA InvHolds == Spec => []IInv
  BY InitInv, StepInv, PTL DEF Spec

(* TypeOK: connections, uses and the record keep their types, so no use is *)
(* put more often than it was taken (msc_a_use_cb()), for any number of    *)
(* connections and under any configuration.                                *)
THEOREM TypesKept == Spec => []TypeOK
  BY InvHolds, InvImplies, PTL

(* PointersAgree: lu_fsm, proc_arq_fsm and auth_fsm of the record never    *)
(* point to an FSM that has ended (fsm_lu_cleanup(), proc_arq_fsm_cleanup()*)
(* and auth_fsm_cleanup()), a running LU is the one pointed to, and the    *)
(* subscriber and its connection point to each other (msub_set_vsub()).    *)
THEOREM PointersKept == Spec => []PointersAgree
  BY InvHolds, InvImplies, PTL

(* DecisionPending: no cancel, replacement or failure leaves a connection  *)
(* that is being established without a subscriber or without the LU or     *)
(* access request that will decide on it.                                  *)
THEOREM DecisionsPending == Spec => []DecisionPending
  BY InvHolds, InvImplies, PTL

(* AcceptedAuthenticated: an accepted connection has its subscriber, and   *)
(* where authentication is required a challenge was answered right on this *)
(* very connection, although challenges go to msc_conn_ref and answers to  *)
(* auth_fsm.                                                               *)
THEOREM AcceptedWereAuthenticated == Spec => []AcceptedAuthenticated
  BY InvHolds, InvImplies, PTL
=============================================================================
