---------------------------- MODULE MmProcProofs ----------------------------
(***************************************************************************)
(* Proofs about MmConn, first part: the invariant, the release of          *)
(* connections, and the procedures at work on one (LU, access request).    *)
(*                                                                         *)
(* Handlers nest: a release cancels the procedures of other connections,   *)
(* which release these in turn.  So the invariant is stated for w, the     *)
(* connections and the record at any point inside a handler, as two parts: *)
(* Pointers(w, P, S), and Settled(r, m) for every connection but those that*)
(* the handler is still at work on.                                        *)
(***************************************************************************)
EXTENDS MmConn, TLAPS

(* The first-order prover first: most steps instantiate lemmas.            *)
USE ZenonT(10), SMTT(30)

-----------------------------------------------------------------------------
(* The invariant.                                                          *)

UseType == [lu : 0..MaxUse, cm : 0..MaxUse, pag : 0..MaxUse, tr : 0..MaxUse, wcc : 0..1]

ConnType ==
  [st : ConnStates, ran : {"A", "Iu"}, l3 : {"none"} \cup Messages,
   vsub : BOOLEAN, lu : LuStates, parq : ParqStates, auth : [Parents -> AuthStates],
   chal : BOOLEAN, cmd : BOOLEAN, authed : BOOLEAN, use : UseType]

SubType ==
  [lu_fsm : Conns \cup {None}, parq_fsm : Conns \cup {None},
   auth_fsm : (Conns \X Parents) \cup {None},
   msc_conn_ref : Conns \cup {None}, msc_msub : Conns \cup {None},
   lu_complete : BOOLEAN, loc_conf : BOOLEAN, dataconf : BOOLEAN,
   expire_lu : {"never", "dated"}, sec_ctx : BOOLEAN,
   last_tuple : BOOLEAN, classmark : BOOLEAN, is_paging : BOOLEAN]

WType == [conn : [Conns -> ConnType], sub : SubType]

(* The authentication that the record points to is under way.              *)
AuthPointer(w) ==
  w.sub.auth_fsm # None =>
    \A c \in Conns, k \in Parents :
      w.sub.auth_fsm = <<c, k>> => w.conn[c].auth[k] # "none"

(* The pointers of record s agree with connection r, which is c.           *)
Pointed(r, s, c, P, S) ==
  /\ s.lu_fsm = c <=> r.lu # "none"
  /\ s.parq_fsm = c => r.parq # "none" \/ c \in P
  /\ r.parq \in ParqPending => s.parq_fsm = c
  /\ r.vsub => s.msc_msub = c
  /\ s.msc_msub = c => r.vsub \/ c \in S
  /\ r.st = "none" => r = NoConn

(* The record's pointers and the FSMs agree, at any point inside a handler.*)
(* P has the connection that is pointed to before its PARQ has started, S  *)
(* the one whose subscriber was taken off it by hand.                      *)
Pointers(w, P, S) ==
  /\ AuthPointer(w)
  /\ \A c \in Conns : Pointed(w.conn[c], w.sub, c, P, S)

(* The states of an LU and of a PARQ past a required authentication.       *)
LuPost == {"WAIT_CIPH", "WAIT_HLR_UPD", "WAIT_IMEI", "WAIT_TMSI_CNF"}
ParqPost == {"WAIT_CIPH", "WAIT_UPD_LOC_CHILD"}

(* What a connection r on its way to acceptance has, whatever procedure is *)
(* at work: m says whether the record has a classmark.  Its acceptance can *)
(* put the use it took for an LU or a page, and only a connection whose    *)
(* classmark is unknown waits for it, so it was sent no cipher command.    *)
(* An LU joins a call's re-establishment only while that waits for it.     *)
Core(r, m) ==
  r.st \in Establishing =>
    /\ r.st # "VALIDATE_L3" /\ r.vsub
    /\ r.l3 = "LU" => r.use.lu > 0
    /\ r.l3 = "PAG" => r.use.pag > 0 /\ r.use.tr = 0
    /\ r.cmd => r.ran = "Iu" \/ m
    /\ r.st = "WAIT_CLASSMARK_UPDATE" => r.ran = "A" /\ ~m
    /\ r.st = "AUTH_CIPH" /\ r.use.tr > 0 /\ r.lu # "none" => m

(* A connection between two events.  While the classmark is awaited the    *)
(* procedure that asked for it waits for the cipher command's answer, the  *)
(* PARQ if a re-established call came with it.                             *)
Settled(r, m) ==
  /\ Core(r, m)
  /\ r.st \in Establishing =>
       /\ r.lu # "none" \/ r.parq \in ParqPending
       /\ AuthRequired(r) /\ (r.lu \in LuPost \/ r.parq \in ParqPost) => r.authed
       /\ r.use.tr > 0 => r.parq \in ParqPending
       /\ r.st = "WAIT_CLASSMARK_UPDATE" =>
            /\ r.lu = "WAIT_CIPH" \/ r.parq = "WAIT_CIPH"
            /\ r.use.tr > 0 => r.parq = "WAIT_CIPH"
  /\ r.st \in Accepted => r.vsub /\ (AuthRequired(r) => r.authed)

AllSettled(w, X) ==
  \A c \in Conns \ X : Settled(w.conn[c], w.sub.classmark)

IInv == cfg \in Configs /\ w0 \in WType /\ Pointers(w0, {}, {}) /\ AllSettled(w0, {})

-----------------------------------------------------------------------------
(* What a release does to connections.                                     *)

(* q is r later: as before but for its authentication sessions, or in      *)
(* release; no procedure was started.                                      *)
Quiet(r, q) ==
  /\ q.vsub = r.vsub /\ q.ran = r.ran /\ q.l3 = r.l3 /\ q.lu \in {r.lu, "none"}
  /\ q.parq \in {r.parq, "DONE"} /\ (r.parq = "none" => q.parq = "none")
  /\ \/ q = r
     \/ q.st \in InRelease
     \/ /\ r.st # "none" /\ q.st = r.st /\ q.cmd = r.cmd
        /\ q.authed = r.authed /\ q.use = r.use /\ q.lu = r.lu /\ q.parq = r.parq

(* And what it leaves of the record.                                       *)
SubQuiet(s, t) ==
  /\ t.msc_msub = s.msc_msub /\ t.msc_conn_ref = s.msc_conn_ref
  /\ t.classmark = s.classmark /\ t.sec_ctx = s.sec_ctx
  /\ t.last_tuple = s.last_tuple
  /\ t.lu_fsm \in {s.lu_fsm, None} /\ t.parq_fsm = s.parq_fsm
  /\ t.auth_fsm \in {s.auth_fsm, None}

AllQuiet(w, v) ==
  SubQuiet(w.sub, v.sub) /\ \A d \in Conns : Quiet(w.conn[d], v.conn[d])

(* Being quiet is transitive, and keeps a connection settled.              *)
LEMMA QuietTrans ==
  ASSUME NEW r, NEW q, NEW p
  PROVE  /\ Quiet(r, q) /\ Quiet(q, p) => Quiet(r, p)
         /\ Quiet(r, r)
  <1>1. Quiet(r, q) /\ Quiet(q, p) => Quiet(r, p)
    <2> SUFFICES ASSUME Quiet(r, q), Quiet(q, p) PROVE Quiet(r, p)
      OBVIOUS
    <2>1. CASE q = r \/ p = q
      BY <2>1 DEF Quiet
    <2>2. CASE p.st \in InRelease
      BY <2>2 DEF Quiet
    <2>3. CASE q.st \in InRelease
      BY <2>3 DEF Quiet
    <2> QED BY <2>1, <2>2, <2>3 DEF Quiet
  <1>2. Quiet(r, r)
    BY DEF Quiet
  <1> QED BY <1>1, <1>2

(* A connection that is only released or loses a session stays settled.    *)
LEMMA QuietSettled ==
  ASSUME NEW r, NEW q, NEW m, Quiet(r, q), Settled(r, m)
  PROVE  Settled(q, m)
  <1>1. CASE q.st \in InRelease
    BY <1>1 DEF Settled, Core, Establishing, Accepted, InRelease
  <1>2. CASE q.st \notin InRelease
    <2>1. /\ q.st = r.st /\ q.l3 = r.l3 /\ q.cmd = r.cmd /\ q.ran = r.ran
          /\ q.authed = r.authed /\ q.use = r.use /\ q.lu = r.lu /\ q.parq = r.parq
          /\ q.vsub = r.vsub
      BY <1>2 DEF Quiet
    <2> QED BY <2>1 DEF Settled, Core, AuthRequired
  <1> QED BY <1>1, <1>2

(* The same two facts for all the connections and the record.              *)
LEMMA AllQuietTrans ==
  ASSUME NEW u, NEW v, NEW w, AllQuiet(u, v), AllQuiet(v, w)
  PROVE  AllQuiet(u, w)
  <1>1. \A d \in Conns : Quiet(u.conn[d], w.conn[d])
    BY QuietTrans DEF AllQuiet
  <1>2. SubQuiet(u.sub, w.sub)
    BY DEF AllQuiet, SubQuiet
  <1> QED BY <1>1, <1>2 DEF AllQuiet

(* A release leaves every settled connection settled.                      *)
LEMMA AllQuietSettled ==
  ASSUME NEW v, NEW w, NEW X, AllQuiet(v, w), AllSettled(v, X)
  PROVE  AllSettled(w, X)
  BY QuietSettled DEF AllQuiet, SubQuiet, AllSettled

-----------------------------------------------------------------------------
(* One connection by itself: r before, q after, m whether the record has a *)
(* classmark.                                                              *)

(* Everything but the procedures and their sessions.                       *)
Base(r, q) ==
  /\ q.st = r.st /\ q.ran = r.ran /\ q.l3 = r.l3 /\ q.vsub = r.vsub
  /\ q.chal = r.chal /\ q.cmd = r.cmd /\ q.authed = r.authed /\ q.use = r.use

(* A connection whose LU is about to take its next step.                   *)
LuMid(r, m) ==
  /\ Core(r, m)
  /\ r.st \in Establishing =>
       /\ r.use.tr > 0 => r.parq \in ParqPending
       /\ r.st = "WAIT_CLASSMARK_UPDATE" => r.parq = "WAIT_CIPH"
       /\ AuthRequired(r) /\ r.parq \in ParqPost => r.authed
  /\ r.st \in Accepted => r.vsub /\ (AuthRequired(r) => r.authed)

(* A connection whose PARQ is about to take its next step.                 *)
ParqMid(r, m) ==
  /\ Core(r, m)
  /\ r.st \in Establishing =>
       /\ r.st = "WAIT_CLASSMARK_UPDATE" => r.lu = "WAIT_CIPH" /\ r.use.tr = 0
       /\ AuthRequired(r) /\ r.lu \in LuPost => r.authed
  /\ r.st \in Accepted => r.vsub /\ (AuthRequired(r) => r.authed)

(* What MSC_A_EV_AUTHENTICATED needs of a connection that it accepts.      *)
Acceptable(r) ==
  r.st = "AUTH_CIPH" =>
    /\ r.vsub /\ (AuthRequired(r) => r.authed)
    /\ r.l3 = "LU" => r.use.lu > 0
    /\ r.l3 = "PAG" => r.use.pag > 0 /\ r.use.tr = 0

(* What msc_a_vlr_set_cipher_mode() does to its connection: it sends the   *)
(* command, or the connection waits for the classmark first.               *)
Ciphered(r, q, m) ==
  /\ q.lu = r.lu /\ q.parq = r.parq /\ q.vsub = r.vsub /\ q.ran = r.ran
  /\ q.l3 = r.l3 /\ q.authed = r.authed /\ q.use = r.use
  /\ q.cmd => r.cmd \/ r.ran = "Iu" \/ m
  /\ \/ q.st = r.st
     \/ /\ r.st = "AUTH_CIPH" /\ q.st = "WAIT_CLASSMARK_UPDATE"
        /\ r.ran = "A" /\ ~m

(* A connection in release is settled.                                     *)
LEMMA ReleasedSettled ==
  ASSUME NEW q, NEW m, q.st \in InRelease
  PROVE  Settled(q, m)
  BY DEF Settled, Core, InRelease, Establishing, Accepted

(* A change to the sessions alone leaves a connection settled.             *)
LEMMA BaseSettled ==
  ASSUME NEW r, NEW q, NEW m, Settled(r, m), Base(r, q), q.lu = r.lu, q.parq = r.parq
  PROVE  Settled(q, m)
  BY DEF Settled, Core, Base, AuthRequired

(* A step of its LU settles the connection.                                *)
LEMMA LuMidOn ==
  ASSUME NEW r, NEW q, NEW m, LuMid(r, m), r.lu # "none", Base(r, q), q.lu # "none",
         q.parq = r.parq,
         q.lu \in LuPost => (r.st \in Establishing /\ AuthRequired(r) => r.authed)
  PROVE  Settled(q, m)
  BY DEF Settled, LuMid, Core, Base, AuthRequired

(* So does the wait for the answer to a cipher command.                    *)
LEMMA LuMidCiphered ==
  ASSUME NEW r \in ConnType, NEW p, NEW q, NEW m, LuMid(r, m), r.lu # "none",
         Ciphered(r, p, m), Base(p, q), q.lu = "WAIT_CIPH", q.parq = p.parq,
         r.st \in Establishing /\ AuthRequired(r) => r.authed
  PROVE  Settled(q, m)
  <1>1. CASE p.st = r.st
    BY <1>1 DEF Ciphered, Settled, LuMid, Core, Base, AuthRequired
  <1>2. CASE p.st # r.st
    <2>1. r.st = "AUTH_CIPH" /\ p.st = "WAIT_CLASSMARK_UPDATE" /\ r.ran = "A" /\ ~m
      BY <1>2 DEF Ciphered
    <2>2. r.use.tr \in Nat
      BY SMTT(30), ConnAssumption DEF ConnType, UseType
    <2>3. r.use.tr = 0
      BY <2>1, <2>2 DEF LuMid, Core, Establishing
    <2> QED BY <2>1, <2>3
            DEF Ciphered, Settled, LuMid, Core, Base, AuthRequired, Establishing, Accepted
  <1> QED BY <1>1, <1>2

(* A step of an LU that waits for no cipher command.                       *)
LEMMA LuStepSettled ==
  ASSUME NEW r, NEW q, NEW m, Settled(r, m), r.lu # "none", Base(r, q), q.lu # "none",
         q.parq = r.parq, q.lu \in LuPost => r.lu \in LuPost,
         r.lu = "WAIT_CIPH" => r.st # "WAIT_CLASSMARK_UPDATE"
  PROVE  Settled(q, m)
  BY DEF Settled, Core, Base, AuthRequired

(* The end of an LU past its authentication makes the connection           *)
(* acceptable, or leaves it settled.                                       *)
LEMMA LuDone ==
  ASSUME NEW r, NEW q, NEW m, Settled(r, m), r.lu \in LuPost \ {"WAIT_CIPH"},
         Base(r, q), q.lu = "none", q.parq = r.parq
  PROVE  Acceptable(q) /\ (q.st # "AUTH_CIPH" => Settled(q, m))
  <1>1. Acceptable(q)
    BY DEF Acceptable, Settled, Core, Base, AuthRequired, Establishing
  <1>2. q.st # "AUTH_CIPH" => Settled(q, m)
    BY DEF Settled, Core, Base, AuthRequired, Establishing, LuPost, ParqPending, ParqPost
  <1> QED BY <1>1, <1>2

(* The same for the end of a PARQ.                                         *)
LEMMA ParqDone ==
  ASSUME NEW r, NEW q, NEW m, ParqMid(r, m), Base(r, q), q.lu = r.lu, q.parq = "DONE",
         r.st \in Establishing /\ AuthRequired(r) => r.authed
  PROVE  Acceptable(q) /\ (q.st # "AUTH_CIPH" => Settled(q, m))
  <1>1. Acceptable(q)
    BY DEF Acceptable, ParqMid, Core, Base, AuthRequired, Establishing
  <1>2. ASSUME q.st # "AUTH_CIPH" PROVE Settled(q, m)
    <2>1. q.st \in Establishing => q.st = "WAIT_CLASSMARK_UPDATE" /\ q.use.tr = 0
      BY <1>2 DEF ParqMid, Core, Base, Establishing
    <2> QED BY <2>1 DEF Settled, ParqMid, Core, Base, AuthRequired, LuPost, ParqPost
  <1> QED BY <1>1, <1>2

(* A PARQ that waits leaves its connection settled.                        *)
LEMMA ParqOn ==
  ASSUME NEW r, NEW q, NEW m, ParqMid(r, m), Base(r, q), q.lu = r.lu,
         q.parq \in ParqPending,
         q.parq \in ParqPost => (r.st \in Establishing /\ AuthRequired(r) => r.authed)
  PROVE  Settled(q, m)
  <1>1. r.use.tr > 0 /\ r.st \in Establishing => r.st # "WAIT_CLASSMARK_UPDATE"
    BY DEF ParqMid
  <1> QED BY <1>1 DEF Settled, ParqMid, Core, Base, AuthRequired

(* So does one that waits for the answer to a cipher command.              *)
LEMMA ParqCiphered ==
  ASSUME NEW r, NEW p, NEW q, NEW m, ParqMid(r, m), Ciphered(r, p, m), Base(p, q),
         q.parq = "WAIT_CIPH", q.lu = p.lu,
         r.st \in Establishing /\ AuthRequired(r) => r.authed
  PROVE  Settled(q, m)
  <1>0. "WAIT_CIPH" \in ParqPending
    BY DEF ParqPending
  <1>1. CASE p.st = r.st
    BY <1>0, <1>1 DEF Ciphered, Settled, ParqMid, Core, Base, AuthRequired
  <1>2. CASE p.st # r.st
    <2>1. r.st = "AUTH_CIPH" /\ p.st = "WAIT_CLASSMARK_UPDATE" /\ r.ran = "A" /\ ~m
      BY <1>2 DEF Ciphered
    <2> QED BY <1>0, <2>1
            DEF Ciphered, Settled, ParqMid, Core, Base, AuthRequired, Establishing, Accepted
  <1> QED BY <1>1, <1>2

-----------------------------------------------------------------------------
(* Writing to w.                                                           *)

(* The parts of a typed w.                                                 *)
LEMMA Parts ==
  ASSUME NEW w \in WType
  PROVE  /\ w.conn \in [Conns -> ConnType] /\ w.sub \in SubType
         /\ \A c \in Conns : w.conn[c] \in ConnType
         /\ None \notin Conns
  BY ConnAssumption DEF WType

(* A w made of typed parts.                                                *)
LEMMA Made ==
  ASSUME NEW f \in [Conns -> ConnType], NEW s \in SubType
  PROVE  [conn |-> f, sub |-> s] \in WType
  BY DEF WType

(* The end of an LU FSM.                                                   *)
LEMMA EndLuIs ==
  ASSUME NEW w \in WType, NEW c \in Conns
  PROVE  /\ EndLu(w, c) \in WType
         /\ \A d \in Conns \ {c} : EndLu(w, c).conn[d] = w.conn[d]
         /\ Base(w.conn[c], EndLu(w, c).conn[c])
         /\ EndLu(w, c).conn[c].lu = "none"
         /\ EndLu(w, c).conn[c].parq = w.conn[c].parq
         /\ EndLu(w, c).conn[c].auth["lu"] = "none"
         /\ \A k \in Parents \ {"lu"} : EndLu(w, c).conn[c].auth[k] = w.conn[c].auth[k]
         /\ EndLu(w, c).sub.lu_fsm = IF w.sub.lu_fsm = c THEN None ELSE w.sub.lu_fsm
         /\ EndLu(w, c).sub.auth_fsm = IF w.conn[c].auth["lu"] # "none" THEN None
                                       ELSE w.sub.auth_fsm
         /\ EndLu(w, c).sub.parq_fsm = w.sub.parq_fsm
         /\ SubQuiet(w.sub, EndLu(w, c).sub)
  <1> DEFINE r == w.conn[c]
             a == [r.auth EXCEPT !["lu"] = "none"]
             q == [r EXCEPT !.lu = "none", !.auth = a]
             f == [w.conn EXCEPT ![c] = q]
             s == [w.sub EXCEPT !.lu_fsm = IF @ = c THEN None ELSE @,
                                !.auth_fsm = IF r.auth["lu"] # "none" THEN None ELSE @]
  <1>1. r \in ConnType /\ w.conn \in [Conns -> ConnType] /\ w.sub \in SubType
    BY Parts
  <1>2. a \in [Parents -> AuthStates] /\ a["lu"] = "none"
        /\ \A k \in Parents \ {"lu"} : a[k] = r.auth[k]
    BY <1>1 DEF ConnType, Parents, AuthStates
  <1> HIDE DEF a
  <1>3. q \in ConnType /\ Base(r, q) /\ q.lu = "none" /\ q.parq = r.parq /\ q.auth = a
    BY Zenon, <1>1, <1>2 DEF ConnType, LuStates, Base
  <1>4. s \in SubType /\ SubQuiet(w.sub, s)
        /\ s.lu_fsm = (IF w.sub.lu_fsm = c THEN None ELSE w.sub.lu_fsm)
        /\ s.auth_fsm = (IF r.auth["lu"] # "none" THEN None ELSE w.sub.auth_fsm)
        /\ s.parq_fsm = w.sub.parq_fsm
    BY ZenonT(60), <1>1 DEF SubType, SubQuiet
  <1>5. EndLu(w, c) = [conn |-> f, sub |-> s]
    BY Zenon, <1>1 DEF EndLu, a, ConnType
  <1> HIDE DEF q, s
  <1>6. f \in [Conns -> ConnType] /\ f[c] = q /\ \A d \in Conns \ {c} : f[d] = w.conn[d]
    BY <1>1, <1>3
  <1> HIDE DEF f
  <1>7. EndLu(w, c).conn = f /\ EndLu(w, c).sub = s /\ EndLu(w, c) \in WType
    BY <1>4, <1>5, <1>6, Made
  <1> QED BY <1>2, <1>3, <1>4, <1>6, <1>7

(* The pointed authentication stays under way when none ends.             *)
LEMMA AuthCarries ==
  ASSUME NEW w, NEW v, AuthPointer(w), v.sub.auth_fsm = w.sub.auth_fsm,
         \A c \in Conns, k \in Parents :
           w.conn[c].auth[k] # "none" => v.conn[c].auth[k] # "none"
  PROVE  AuthPointer(v)
  <1> SUFFICES ASSUME NEW c \in Conns, NEW k \in Parents,
                      v.sub.auth_fsm # None, v.sub.auth_fsm = <<c, k>>
               PROVE  v.conn[c].auth[k] # "none"
    BY DEF AuthPointer
  <1> DEFINE t == <<c, k>>
  <1>1. w.sub.auth_fsm # None /\ w.sub.auth_fsm = t => w.conn[c].auth[k] # "none"
    BY DEF AuthPointer
  <1>2. v.sub.auth_fsm # None /\ v.sub.auth_fsm = t
    OBVIOUS
  <1> HIDE DEF t
  <1> QED BY <1>1, <1>2, Zenon

(* And nothing is claimed when none is pointed to.                         *)
LEMMA AuthNone ==
  ASSUME NEW v, v.sub.auth_fsm = None
  PROVE  AuthPointer(v)
  BY DEF AuthPointer

(* The pointers of v agree with its FSMs if those of w do and v differs in *)
(* no way that they are about.                                             *)
LEMMA PointersCarry ==
  ASSUME NEW w, NEW v, NEW P, NEW S, Pointers(w, P, S),
         v.sub.lu_fsm = w.sub.lu_fsm, v.sub.parq_fsm = w.sub.parq_fsm,
         v.sub.auth_fsm = w.sub.auth_fsm, v.sub.msc_msub = w.sub.msc_msub,
         \A d \in Conns :
           /\ v.conn[d].lu # "none" <=> w.conn[d].lu # "none"
           /\ w.conn[d].parq # "none" => v.conn[d].parq # "none"
           /\ v.conn[d].parq \in ParqPending =>
                w.conn[d].parq \in ParqPending \/ w.sub.parq_fsm = d
           /\ \A k \in Parents : w.conn[d].auth[k] # "none" => v.conn[d].auth[k] # "none"
           /\ v.conn[d].vsub = w.conn[d].vsub
           /\ v.conn[d].st = "none" => v.conn[d] = w.conn[d]
  PROVE  Pointers(v, P, S)
  <1>1. AuthPointer(v)
    <2>1. AuthPointer(w)
      BY DEF Pointers
    <2> QED BY <2>1, AuthCarries
  <1>2. ASSUME NEW d \in Conns PROVE Pointed(v.conn[d], v.sub, d, P, S)
    <2>1. Pointed(w.conn[d], w.sub, d, P, S)
      BY DEF Pointers
    <2> DEFINE r == w.conn[d]
               q == v.conn[d]
    <2>2. /\ q.lu # "none" <=> r.lu # "none"
          /\ r.parq # "none" => q.parq # "none"
          /\ q.parq \in ParqPending => r.parq \in ParqPending \/ w.sub.parq_fsm = d
          /\ q.vsub = r.vsub /\ (q.st = "none" => q = r)
      OBVIOUS
    <2>3. Pointed(r, w.sub, d, P, S)
      BY <2>1
    <2> HIDE DEF r, q
    <2>4. Pointed(q, v.sub, d, P, S)
      BY <2>2, <2>3 DEF Pointed
    <2> QED BY <2>4 DEF q
  <1> QED BY <1>1, <1>2 DEF Pointers

(* CancelLu(): no LU is left.                                              *)
LEMMA CancelLuIs ==
  ASSUME NEW w \in WType, NEW P, NEW S, Pointers(w, P, S)
  PROVE  LET u == CancelLu(w)
         IN /\ u \in WType /\ SubQuiet(w.sub, u.sub) /\ u.sub.lu_fsm = None
            /\ AuthPointer(u)
            /\ \A d \in Conns : /\ Base(w.conn[d], u.conn[d]) /\ u.conn[d].lu = "none"
                                /\ u.conn[d].parq = w.conn[d].parq
                                /\ w.conn[d].st = "none" => u.conn[d] = w.conn[d]
  <1> DEFINE l == w.sub.lu_fsm
             u == CancelLu(w)
  <1>1. w.sub \in SubType /\ None \notin Conns /\ \A d \in Conns : w.conn[d] \in ConnType
    BY Parts
  <1>2. CASE l = None
    <2>1. u = w
      BY <1>2 DEF CancelLu
    <2>2. \A d \in Conns : w.conn[d].lu = "none"
      BY <1>1, <1>2 DEF Pointers, Pointed
    <2>3. \A d \in Conns : Base(w.conn[d], w.conn[d])
      BY DEF Base
    <2>4. SubQuiet(w.sub, w.sub)
      BY DEF SubQuiet
    <2> HIDE DEF u
    <2>5. AuthPointer(w)
      BY DEF Pointers, Pointed
    <2> QED BY <1>2, <2>1, <2>2, <2>3, <2>4, <2>5 DEF u
  <1>3. CASE l # None
    <2>1. l \in Conns
      BY <1>1, <1>3 DEF SubType
    <2>2. u = EndLu(w, l)
      BY <1>3 DEF CancelLu
    <2>0. w.sub.lu_fsm = l
      OBVIOUS
    <2> HIDE DEF u, l
    <2>3. /\ u \in WType /\ SubQuiet(w.sub, u.sub) /\ u.sub.lu_fsm = None
          /\ \A d \in Conns \ {l} : u.conn[d] = w.conn[d]
          /\ Base(w.conn[l], u.conn[l]) /\ u.conn[l].lu = "none"
          /\ u.conn[l].parq = w.conn[l].parq
          /\ \A k \in Parents \ {"lu"} : u.conn[l].auth[k] = w.conn[l].auth[k]
          /\ u.sub.auth_fsm = IF w.conn[l].auth["lu"] # "none" THEN None
                              ELSE w.sub.auth_fsm
      BY <2>0, <2>1, <2>2, EndLuIs
    <2>4. w.conn[l].lu # "none" /\ w.conn[l].st # "none"
      BY SMTT(30), <2>0, <2>1 DEF Pointers, Pointed, NoConn
    <2>5. ASSUME NEW d \in Conns
          PROVE  /\ Base(w.conn[d], u.conn[d]) /\ u.conn[d].lu = "none"
                 /\ u.conn[d].parq = w.conn[d].parq
                 /\ w.conn[d].st = "none" => u.conn[d] = w.conn[d]
      <3>1. CASE d = l
        BY <2>3, <2>4, <3>1
      <3>2. CASE d # l
        <4>1. u.conn[d] = w.conn[d]
          BY <2>3, <3>2
        <4>2. w.conn[d].lu = "none"
          BY <2>0, <3>2 DEF Pointers, Pointed
        <4> QED BY <4>1, <4>2 DEF Base
      <3> QED BY <3>1, <3>2
    <2>6. AuthPointer(u)
      <3>1. CASE u.sub.auth_fsm = None
        BY <3>1, AuthNone
      <3>2. CASE u.sub.auth_fsm # None
        <4>1. u.sub.auth_fsm = w.sub.auth_fsm /\ w.conn[l].auth["lu"] = "none"
          BY <2>3, <3>2
        <4>2. \A c \in Conns, k \in Parents :
                w.conn[c].auth[k] # "none" => u.conn[c].auth[k] # "none"
          BY <2>3, <4>1
        <4>3. AuthPointer(w)
          BY DEF Pointers, Pointed
        <4> QED BY <4>1, <4>2, <4>3, AuthCarries
      <3> QED BY <3>1, <3>2
    <2> QED BY <2>3, <2>5, <2>6 DEF u
  <1> QED BY <1>2, <1>3

(* CancelParq(): no PARQ is left at work.                                  *)
LEMMA CancelParqIs ==
  ASSUME NEW u \in WType,
         \A d \in Conns : u.conn[d].parq \in ParqPending => u.sub.parq_fsm = d
  PROVE  LET x == CancelParq(u)
         IN /\ x \in WType /\ x.sub = u.sub
            /\ \A d \in Conns :
                 /\ Base(u.conn[d], x.conn[d]) /\ x.conn[d].lu = u.conn[d].lu
                 /\ x.conn[d].auth = u.conn[d].auth
                 /\ x.conn[d].parq = IF u.conn[d].parq \in ParqPending THEN "DONE"
                                     ELSE u.conn[d].parq
                 /\ u.conn[d].st = "none" /\ u.conn[d].parq = "none"
                      => x.conn[d] = u.conn[d]
  <1> DEFINE p == u.sub.parq_fsm
             r == u.conn[p]
             q == [r EXCEPT !.parq = "DONE"]
             f == [u.conn EXCEPT ![p] = q]
             x == CancelParq(u)
  <1>1. /\ u.sub \in SubType /\ None \notin Conns /\ u.conn \in [Conns -> ConnType]
        /\ \A d \in Conns : u.conn[d] \in ConnType
    BY Parts
  <1>2. CASE p # None /\ r.parq \in ParqPending
    <2>1. p \in Conns /\ r \in ConnType
      BY <1>1, <1>2 DEF SubType
    <2>2. q \in ConnType /\ Base(r, q) /\ q.lu = r.lu /\ q.auth = r.auth /\ q.parq = "DONE"
      BY <2>1 DEF ConnType, ParqStates, Base
    <2>3. x = [u EXCEPT !.conn = f]
      BY <1>2 DEF CancelParq
    <2> HIDE DEF q
    <2>4. f \in [Conns -> ConnType] /\ f[p] = q /\ \A d \in Conns \ {p} : f[d] = u.conn[d]
      BY <1>1, <2>1, <2>2
    <2> HIDE DEF f, x
    <2>5. x \in WType /\ x.conn = f /\ x.sub = u.sub
      BY <2>3, <2>4 DEF WType
    <2>6. ASSUME NEW d \in Conns
          PROVE  /\ Base(u.conn[d], x.conn[d]) /\ x.conn[d].lu = u.conn[d].lu
                 /\ x.conn[d].auth = u.conn[d].auth
                 /\ x.conn[d].parq = IF u.conn[d].parq \in ParqPending THEN "DONE"
                                     ELSE u.conn[d].parq
                 /\ u.conn[d].st = "none" /\ u.conn[d].parq = "none"
                      => x.conn[d] = u.conn[d]
      <3>1. CASE d = p
        BY <1>2, <2>2, <2>4, <2>5, <3>1 DEF ParqPending
      <3>2. CASE d # p
        BY <2>4, <2>5, <3>2 DEF Base
      <3> QED BY <3>1, <3>2
    <2> QED BY <2>5, <2>6 DEF x
  <1>3. CASE ~(p # None /\ r.parq \in ParqPending)
    <2>1. x = u
      BY <1>3 DEF CancelParq
    <2>2. \A d \in Conns : u.conn[d].parq \notin ParqPending
      BY <1>1, <1>3
    <2> HIDE DEF x
    <2> QED BY <2>1, <2>2 DEF x, Base
  <1> QED BY <1>2, <1>3

(* CancelAuth() once no LU and no PARQ waits: the session ends alone.      *)
LEMMA CancelAuthIs ==
  ASSUME NEW x \in WType,
         \A d \in Conns : x.conn[d].lu = "none" /\ x.conn[d].parq \notin ParqPending
  PROVE  LET v == CancelAuth(x)
         IN /\ FailedParent(x) = {}
            /\ v \in WType /\ SubQuiet(x.sub, v.sub) /\ v.sub.auth_fsm = None
            /\ v.sub.lu_fsm = x.sub.lu_fsm
            /\ \A d \in Conns :
                 /\ Base(x.conn[d], v.conn[d]) /\ v.conn[d].lu = x.conn[d].lu
                 /\ v.conn[d].parq = x.conn[d].parq
                 /\ (\A k \in Parents : x.conn[d].auth[k] = "none")
                      /\ AuthPointer(x)
                      => v.conn[d] = x.conn[d]
  <1> DEFINE v == CancelAuth(x)
  <1>1. /\ x.sub \in SubType /\ None \notin Conns /\ x.conn \in [Conns -> ConnType]
        /\ \A d \in Conns : x.conn[d] \in ConnType
    BY Parts
  <1>2. CASE x.sub.auth_fsm = None
    <2>1. v = x /\ FailedParent(x) = {}
      BY <1>2 DEF CancelAuth, FailedParent
    <2> HIDE DEF v
    <2> QED BY <1>2, <2>1 DEF v, Base, SubQuiet
  <1>3. CASE x.sub.auth_fsm # None
    <2>1. PICK c \in Conns, k \in Parents : x.sub.auth_fsm = <<c, k>>
      BY SMTT(30), <1>1, <1>3 DEF SubType
    <2> DEFINE r == x.conn[c]
               a == [r.auth EXCEPT ![k] = "none"]
               q == [r EXCEPT !.auth = a]
               f == [x.conn EXCEPT ![c] = q]
               s == [x.sub EXCEPT !.auth_fsm = None]
    <2>2. FailedParent(x) = {}
      BY SMTT(30), <2>1 DEF FailedParent, ParqPending
    <2>3. v = [x EXCEPT !.conn[c].auth[k] = "none", !.sub.auth_fsm = None]
      BY SMTT(30), <1>3, <2>1, <2>2 DEF CancelAuth
    <2>4. r \in ConnType /\ a \in [Parents -> AuthStates]
      BY <1>1 DEF ConnType, AuthStates
    <2>5. v = [x EXCEPT !.conn = f, !.sub = s]
      BY <2>3
    <2>6. AuthPointer(x) => r.auth[k] # "none"
      BY <1>3, <2>1 DEF AuthPointer
    <2>7. x.conn[c] = r
      OBVIOUS
    <2> HIDE DEF a, r, v
    <2>8. q \in ConnType /\ Base(r, q) /\ q.lu = r.lu /\ q.parq = r.parq
      BY <2>4 DEF ConnType, Base
    <2> HIDE DEF q
    <2>9. f \in [Conns -> ConnType] /\ f[c] = q /\ \A d \in Conns \ {c} : f[d] = x.conn[d]
      BY <1>1, <2>8
    <2>10. s \in SubType /\ SubQuiet(x.sub, s) /\ s.auth_fsm = None
           /\ s.lu_fsm = x.sub.lu_fsm
      BY <1>1 DEF SubType, SubQuiet
    <2> HIDE DEF f, s
    <2>11. v \in WType /\ v.conn = f /\ v.sub = s
      <3>1. v = [conn |-> f, sub |-> s]
        BY <2>5, Zenon DEF WType
      <3> QED BY <2>9, <2>10, <3>1, Made
    <2>12. ASSUME NEW d \in Conns
           PROVE  /\ Base(x.conn[d], v.conn[d]) /\ v.conn[d].lu = x.conn[d].lu
                  /\ v.conn[d].parq = x.conn[d].parq
                  /\ (\A j \in Parents : x.conn[d].auth[j] = "none") /\ AuthPointer(x)
                       => v.conn[d] = x.conn[d]
      <3>1. CASE d = c
        BY <2>6, <2>7, <2>8, <2>9, <2>11, <3>1
      <3>2. CASE d # c
        <4>1. v.conn[d] = x.conn[d]
          BY <2>9, <2>11, <3>2
        <4> QED BY <4>1 DEF Base
      <3> QED BY <3>1, <3>2
    <2> QED BY <2>2, <2>10, <2>11, <2>12 DEF v
  <1> QED BY <1>2, <1>3

(* vlr_subscr_cancel_attach_fsm(): every procedure ends, and the           *)
(* connections it closes are the ones a procedure was deciding on.         *)
LEMMA CancelledIs ==
  ASSUME NEW w \in WType, NEW P, NEW S, Pointers(w, P, S)
  PROVE  LET v == Cancelled(w)
         IN /\ v \in WType /\ SubQuiet(w.sub, v.sub)
            /\ v.sub.lu_fsm = None /\ v.sub.auth_fsm = None
            /\ \A d \in Conns :
                 /\ Base(w.conn[d], v.conn[d]) /\ v.conn[d].lu = "none"
                 /\ v.conn[d].parq = IF w.conn[d].parq \in ParqPending THEN "DONE"
                                     ELSE w.conn[d].parq
                 /\ w.conn[d].st = "none" => v.conn[d] = w.conn[d]
            /\ CancelHits(w) = {d \in LiveConns(w) : \/ w.conn[d].lu # "none"
                                                     \/ w.conn[d].parq \in ParqPending}
  <1> DEFINE u == CancelLu(w)
             x == CancelParq(u)
             v == CancelAuth(x)
  <1>0. w.sub \in SubType /\ None \notin Conns /\ \A d \in Conns : w.conn[d] \in ConnType
    BY Parts
  <1>1. /\ u \in WType /\ SubQuiet(w.sub, u.sub) /\ u.sub.lu_fsm = None
        /\ AuthPointer(u)
        /\ \A d \in Conns : /\ Base(w.conn[d], u.conn[d]) /\ u.conn[d].lu = "none"
                            /\ u.conn[d].parq = w.conn[d].parq
                            /\ w.conn[d].st = "none" => u.conn[d] = w.conn[d]
    BY CancelLuIs
  <1>2. \A d \in Conns : u.conn[d].parq \in ParqPending => u.sub.parq_fsm = d
    BY <1>1 DEF Pointers, Pointed, SubQuiet
  <1> HIDE DEF u
  <1>3. /\ x \in WType /\ x.sub = u.sub
        /\ \A d \in Conns :
             /\ Base(u.conn[d], x.conn[d]) /\ x.conn[d].lu = u.conn[d].lu
             /\ x.conn[d].auth = u.conn[d].auth
             /\ x.conn[d].parq = IF u.conn[d].parq \in ParqPending THEN "DONE"
                                 ELSE u.conn[d].parq
             /\ u.conn[d].st = "none" /\ u.conn[d].parq = "none"
                  => x.conn[d] = u.conn[d]
    BY <1>1, <1>2, CancelParqIs
  <1> HIDE DEF x
  <1>4. \A d \in Conns : x.conn[d].lu = "none" /\ x.conn[d].parq \notin ParqPending
    BY <1>1, <1>3 DEF ParqPending
  <1>5. /\ FailedParent(x) = {}
        /\ v \in WType /\ SubQuiet(x.sub, v.sub) /\ v.sub.auth_fsm = None
        /\ v.sub.lu_fsm = x.sub.lu_fsm
        /\ \A d \in Conns :
             /\ Base(x.conn[d], v.conn[d]) /\ v.conn[d].lu = x.conn[d].lu
             /\ v.conn[d].parq = x.conn[d].parq
             /\ (\A k \in Parents : x.conn[d].auth[k] = "none")
                  /\ AuthPointer(x)
                  => v.conn[d] = x.conn[d]
    BY <1>3, <1>4, CancelAuthIs
  <1> HIDE DEF v
  <1>6. SubQuiet(w.sub, v.sub) /\ v.sub.lu_fsm = None
    BY ZenonT(30), <1>1, <1>3, <1>5 DEF SubQuiet
  <1>7. ASSUME NEW d \in Conns
        PROVE  /\ Base(w.conn[d], v.conn[d]) /\ v.conn[d].lu = "none"
               /\ v.conn[d].parq = IF w.conn[d].parq \in ParqPending THEN "DONE"
                                   ELSE w.conn[d].parq
    <2>1. v.conn[d].lu = "none"
      BY <1>1, <1>3, <1>5
    <2>2. v.conn[d].parq = IF w.conn[d].parq \in ParqPending THEN "DONE"
                           ELSE w.conn[d].parq
      BY <1>1, <1>3, <1>5
    <2>3. Base(w.conn[d], u.conn[d]) /\ Base(u.conn[d], x.conn[d]) /\ Base(x.conn[d], v.conn[d])
      BY <1>1, <1>3, <1>5
    <2>4. Base(w.conn[d], v.conn[d])
      BY <2>3 DEF Base
    <2> QED BY <2>1, <2>2, <2>4
  <1>8. ASSUME NEW d \in Conns, w.conn[d].st = "none" PROVE v.conn[d] = w.conn[d]
    <2>1. w.conn[d] = NoConn /\ u.conn[d] = w.conn[d]
      BY <1>1, <1>8 DEF Pointers, Pointed
    <2>2. x.conn[d] = u.conn[d]
      <3>1. u.conn[d].st = "none" /\ u.conn[d].parq = "none"
        BY <2>1 DEF NoConn
      <3> QED BY <1>3, <3>1
    <2>3. \A k \in Parents : x.conn[d].auth[k] = "none"
      BY <2>1, <2>2 DEF NoConn
    <2>4. AuthPointer(x)
      BY <1>1, <1>3, AuthCarries
    <2> QED BY <1>5, <2>1, <2>2, <2>3, <2>4
  <1>9. CancelHits(w) = {d \in LiveConns(w) : \/ w.conn[d].lu # "none"
                                              \/ w.conn[d].parq \in ParqPending}
    <2> DEFINE A == {w.sub.lu_fsm} \ {None}
               B == {d \in Conns : x.conn[d].parq # u.conn[d].parq}
    <2>1. CancelHits(w) = (A \cup B \cup FailedParent(x)) \cap LiveConns(w)
      BY DEF CancelHits, u, x
    <2>2. \A d \in Conns : d \in A <=> w.conn[d].lu # "none"
      BY <1>0 DEF Pointers, Pointed
    <2>3. \A d \in Conns : d \in B <=> w.conn[d].parq \in ParqPending
      BY <1>1, <1>3 DEF ParqPending
    <2>4. LiveConns(w) \subseteq Conns
      BY DEF LiveConns
    <2> HIDE DEF A, B
    <2> QED BY <1>5, <2>1, <2>2, <2>3, <2>4
  <1>10. Cancelled(w) = v
    BY DEF Cancelled, u, x, v
  <1> QED BY <1>5, <1>6, <1>7, <1>8, <1>9, <1>10

(* msc_a_fsm_releasing_onenter() on the connections C.                     *)
LEMMA CloseIs ==
  ASSUME NEW w \in WType, NEW C \in SUBSET Conns
  PROVE  LET v == Close(w, C)
         IN /\ v \in WType /\ SubQuiet(w.sub, v.sub)
            /\ v.sub.lu_fsm = w.sub.lu_fsm /\ v.sub.auth_fsm = w.sub.auth_fsm
            /\ \A d \in Conns \ C : v.conn[d] = w.conn[d]
            /\ \A d \in C : /\ v.conn[d].st = "RELEASING" /\ v.conn[d].vsub = w.conn[d].vsub
                            /\ v.conn[d].lu = w.conn[d].lu /\ v.conn[d].ran = w.conn[d].ran
                            /\ v.conn[d].l3 = w.conn[d].l3
                            /\ v.conn[d].parq = w.conn[d].parq
                            /\ v.conn[d].auth = w.conn[d].auth
  <1> DEFINE u == [NoUse EXCEPT !.wcc = 1]
             q(d) == [w.conn[d] EXCEPT !.st = "RELEASING", !.use = u]
             f == [d \in Conns |-> IF d \in C THEN q(d) ELSE w.conn[d]]
             s == [w.sub EXCEPT !.expire_lu = IF \E c \in C : w.conn[c].vsub
                                                THEN "dated" ELSE @]
             v == Close(w, C)
  <1>1. /\ w.sub \in SubType /\ \A d \in Conns : w.conn[d] \in ConnType
    BY Parts
  <1>2. u \in UseType
    BY SMTT(30), ConnAssumption DEF UseType, NoUse
  <1> HIDE DEF u
  <1>3. ASSUME NEW d \in Conns
        PROVE  /\ q(d) \in ConnType /\ q(d).st = "RELEASING" /\ q(d).vsub = w.conn[d].vsub
               /\ q(d).lu = w.conn[d].lu /\ q(d).ran = w.conn[d].ran
               /\ q(d).parq = w.conn[d].parq /\ q(d).auth = w.conn[d].auth
               /\ q(d).l3 = w.conn[d].l3
    BY ZenonT(30), <1>1, <1>2 DEF ConnType, ConnStates, InRelease
  <1> HIDE DEF q
  <1>4. f \in [Conns -> ConnType]
    BY <1>1, <1>3
  <1>5. s \in SubType /\ SubQuiet(w.sub, s)
        /\ s.lu_fsm = w.sub.lu_fsm /\ s.auth_fsm = w.sub.auth_fsm
    BY ZenonT(60), <1>1 DEF SubType, SubQuiet
  <1>6. v = [conn |-> f, sub |-> s]
    BY DEF Close, q, u
  <1> HIDE DEF s, v
  <1>7. v \in WType /\ v.conn = f /\ v.sub = s
    BY <1>4, <1>5, <1>6, Made
  <1>8. \A d \in Conns \ C : v.conn[d] = w.conn[d]
    BY <1>7
  <1>9. \A d \in C : v.conn[d] = q(d)
    BY <1>7
  <1> QED BY SMTT(30), <1>3, <1>5, <1>7, <1>8, <1>9 DEF v

(* evaluate_acceptance_outcome(fi, false) is about the page only.          *)
LEMMA EvaluatedIs ==
  ASSUME NEW w \in WType, NEW C
  PROVE  LET v == Evaluated(w, C)
         IN /\ v \in WType /\ v.conn = w.conn /\ SubQuiet(w.sub, v.sub)
            /\ v.sub.lu_fsm = w.sub.lu_fsm /\ v.sub.auth_fsm = w.sub.auth_fsm
  <1> DEFINE b == w.sub.is_paging
                    /\ \A c \in C : ~(/\ w.conn[c].vsub /\ w.conn[c].l3 = "PAG"
                                      /\ w.conn[c].st \in Establishing)
             s == [w.sub EXCEPT !.is_paging = b]
             v == Evaluated(w, C)
  <1>1. w.sub \in SubType
    BY Parts
  <1>2. v = [w EXCEPT !.sub = s]
    BY DEF Evaluated
  <1>3. b \in BOOLEAN
    OBVIOUS
  <1> HIDE DEF b
  <1>4. s \in SubType /\ SubQuiet(w.sub, s)
        /\ s.lu_fsm = w.sub.lu_fsm /\ s.auth_fsm = w.sub.auth_fsm
    BY <1>1, <1>3 DEF SubType, SubQuiet
  <1> HIDE DEF s, v
  <1>5. v \in WType /\ v.conn = w.conn /\ v.sub = s
    BY <1>2, <1>4 DEF WType
  <1> QED BY <1>4, <1>5 DEF v

(* Cancelling with the closing of at least the connections it is about.    *)
LEMMA CancelCloseKeeps ==
  ASSUME NEW w \in WType, NEW P, NEW S, Pointers(w, P, S), NEW H, NEW C \in SUBSET Conns,
         CancelHits(w) \subseteq C, \A d \in C : w.conn[d].st # "none"
  PROVE  LET v == Close(Evaluated(Cancelled(w), H), C)
         IN /\ v \in WType /\ Pointers(v, P, S) /\ AllQuiet(w, v)
            /\ \A d \in C : v.conn[d].st = "RELEASING"
  <1> DEFINE x == Cancelled(w)
             y == Evaluated(x, H)
             v == Close(y, C)
  <1>0. None \notin Conns
    BY Parts
  <1>1. /\ x \in WType /\ SubQuiet(w.sub, x.sub)
        /\ x.sub.lu_fsm = None /\ x.sub.auth_fsm = None
        /\ \A d \in Conns :
             /\ Base(w.conn[d], x.conn[d]) /\ x.conn[d].lu = "none"
             /\ x.conn[d].parq = IF w.conn[d].parq \in ParqPending THEN "DONE"
                                 ELSE w.conn[d].parq
             /\ w.conn[d].st = "none" => x.conn[d] = w.conn[d]
        /\ CancelHits(w) = {d \in LiveConns(w) : \/ w.conn[d].lu # "none"
                                                 \/ w.conn[d].parq \in ParqPending}
    BY CancelledIs
  <1> HIDE DEF x
  <1>2. /\ y \in WType /\ y.conn = x.conn /\ SubQuiet(x.sub, y.sub)
        /\ y.sub.lu_fsm = x.sub.lu_fsm /\ y.sub.auth_fsm = x.sub.auth_fsm
    BY <1>1, EvaluatedIs
  <1> HIDE DEF y
  <1>3. /\ v \in WType /\ SubQuiet(y.sub, v.sub)
        /\ v.sub.lu_fsm = y.sub.lu_fsm /\ v.sub.auth_fsm = y.sub.auth_fsm
        /\ \A d \in Conns \ C : v.conn[d] = x.conn[d]
        /\ \A d \in C : /\ v.conn[d].st = "RELEASING" /\ v.conn[d].vsub = x.conn[d].vsub
                        /\ v.conn[d].lu = x.conn[d].lu /\ v.conn[d].ran = x.conn[d].ran
                        /\ v.conn[d].l3 = x.conn[d].l3
                        /\ v.conn[d].parq = x.conn[d].parq
    <2>1. /\ v \in WType /\ SubQuiet(y.sub, v.sub)
          /\ v.sub.lu_fsm = y.sub.lu_fsm /\ v.sub.auth_fsm = y.sub.auth_fsm
          /\ \A d \in Conns \ C : v.conn[d] = y.conn[d]
          /\ \A d \in C : /\ v.conn[d].st = "RELEASING" /\ v.conn[d].vsub = y.conn[d].vsub
                          /\ v.conn[d].lu = y.conn[d].lu /\ v.conn[d].ran = y.conn[d].ran
                          /\ v.conn[d].l3 = y.conn[d].l3
                          /\ v.conn[d].parq = y.conn[d].parq
      BY ZenonT(30), <1>2, CloseIs
    <2> HIDE DEF v
    <2> QED BY <1>2, <2>1
  <1> HIDE DEF v
  <1>4. SubQuiet(w.sub, v.sub) /\ v.sub.lu_fsm = None /\ v.sub.auth_fsm = None
    BY <1>1, <1>2, <1>3 DEF SubQuiet
  <1>5. ASSUME NEW d \in Conns
        PROVE  /\ v.conn[d].vsub = w.conn[d].vsub /\ v.conn[d].ran = w.conn[d].ran
               /\ v.conn[d].l3 = w.conn[d].l3
               /\ v.conn[d].lu = "none"
               /\ v.conn[d].parq = IF w.conn[d].parq \in ParqPending THEN "DONE"
                                   ELSE w.conn[d].parq
    BY SMTT(30), <1>1, <1>3 DEF Base
  <1>6. ASSUME NEW d \in Conns PROVE Quiet(w.conn[d], v.conn[d])
    <2>1. CASE d \in C
      BY <1>3, <1>5, <2>1 DEF Quiet, InRelease, ParqPending
    <2>2. CASE d \notin C /\ w.conn[d].st = "none"
      BY SMTT(30), <1>1, <1>3, <2>2 DEF Quiet
    <2>3. CASE d \notin C /\ w.conn[d].st \in InRelease
      <3>1. v.conn[d].st \in InRelease
        BY SMTT(30), <1>1, <1>3, <2>3 DEF Base
      <3> QED BY <1>5, <3>1 DEF Quiet, ParqPending
    <2>4. CASE d \notin C /\ w.conn[d].st \notin InRelease \cup {"none"}
      <3>1. w.conn[d].lu = "none" /\ w.conn[d].parq \notin ParqPending
        BY <1>1, <2>4 DEF LiveConns
      <3>2. /\ v.conn[d].st = w.conn[d].st
            /\ v.conn[d].cmd = w.conn[d].cmd
            /\ v.conn[d].authed = w.conn[d].authed /\ v.conn[d].use = w.conn[d].use
        BY SMTT(30), <1>1, <1>3, <2>4 DEF Base
      <3> QED BY <1>5, <2>4, <3>1, <3>2 DEF Quiet
    <2> QED BY <2>1, <2>2, <2>3, <2>4
  <1>7. Pointers(v, P, S)
    <2>1. ASSUME NEW d \in Conns PROVE Pointed(v.conn[d], v.sub, d, P, S)
      <3>1. Pointed(w.conn[d], w.sub, d, P, S)
        BY DEF Pointers
      <3>2. v.sub.msc_msub = w.sub.msc_msub /\ v.sub.parq_fsm = w.sub.parq_fsm
        BY <1>4 DEF SubQuiet
      <3>3. v.conn[d].st = "none" => v.conn[d] = w.conn[d]
        BY SMTT(30), <1>1, <1>3 DEF Base
      <3> DEFINE r == w.conn[d]
                 q == v.conn[d]
      <3>4. /\ q.vsub = r.vsub /\ q.lu = "none" /\ (q.st = "none" => q = r)
            /\ q.parq = IF r.parq \in ParqPending THEN "DONE" ELSE r.parq
        BY <1>5, <3>3
      <3>5. Pointed(r, w.sub, d, P, S)
        BY <3>1
      <3> HIDE DEF r, q
      <3>6. Pointed(q, v.sub, d, P, S)
        BY <1>0, <1>4, <3>2, <3>4, <3>5 DEF Pointed, ParqPending
      <3> QED BY <3>6 DEF q
    <2>2. AuthPointer(v)
      BY <1>4, AuthNone
    <2> QED BY <2>1, <2>2 DEF Pointers
  <1> QED BY <1>3, <1>4, <1>6, <1>7 DEF AllQuiet, v, y, x

(* Entering RELEASING takes connections to release and nowhere else.       *)
LEMMA ReleaseKeeps ==
  ASSUME NEW w \in WType, NEW P, NEW S, Pointers(w, P, S), NEW c \in Conns,
         w.conn[c].st # "none"
  PROVE  LET v == Release(w, c)
         IN /\ v \in WType /\ Pointers(v, P, S) /\ AllQuiet(w, v)
            /\ v.conn[c].st = "RELEASING"
  <1> DEFINE H == CancelHits(w) \ {c}
             v == Release(w, c)
  <1>1. CASE w.conn[c].vsub
    <2>1. CancelHits(w) \subseteq LiveConns(w)
      BY DEF CancelHits
    <2>2. H \cup {c} \in SUBSET Conns /\ \A d \in H \cup {c} : w.conn[d].st # "none"
      BY <2>1 DEF LiveConns
    <2>3. v = Close(Evaluated(Cancelled(w), H), H \cup {c})
      BY <1>1 DEF Release
    <2>4. CancelHits(w) \subseteq H \cup {c}
      OBVIOUS
    <2> HIDE DEF v, H
    <2> QED BY SMTT(30), <2>2, <2>3, <2>4, CancelCloseKeeps DEF v
  <1>2. CASE ~w.conn[c].vsub
    <2>1. v = Close(w, {c})
      BY <1>2 DEF Release
    <2> HIDE DEF v
    <2>2. /\ v \in WType /\ SubQuiet(w.sub, v.sub)
          /\ v.sub.lu_fsm = w.sub.lu_fsm /\ v.sub.auth_fsm = w.sub.auth_fsm
          /\ \A d \in Conns \ {c} : v.conn[d] = w.conn[d]
          /\ v.conn[c].st = "RELEASING" /\ v.conn[c].vsub = w.conn[c].vsub
          /\ v.conn[c].lu = w.conn[c].lu /\ v.conn[c].ran = w.conn[c].ran
          /\ v.conn[c].l3 = w.conn[c].l3
          /\ v.conn[c].parq = w.conn[c].parq /\ v.conn[c].auth = w.conn[c].auth
      BY SMTT(30), <2>1, CloseIs
    <2>3. \A d \in Conns : /\ v.conn[d].vsub = w.conn[d].vsub /\ v.conn[d].lu = w.conn[d].lu
                           /\ v.conn[d].parq = w.conn[d].parq
                           /\ v.conn[d].auth = w.conn[d].auth
                           /\ Quiet(w.conn[d], v.conn[d])
      <3> TAKE d \in Conns
      <3>1. CASE d = c
        BY <2>2, <3>1 DEF Quiet, InRelease
      <3>2. CASE d # c
        BY <2>2, <3>2 DEF Quiet
      <3> QED BY <3>1, <3>2
    <2>4. AllQuiet(w, v)
      BY <2>2, <2>3 DEF AllQuiet
    <2>5. v.sub.msc_msub = w.sub.msc_msub /\ v.sub.parq_fsm = w.sub.parq_fsm
      BY <2>2 DEF SubQuiet
    <2>6. \A d \in Conns : v.conn[d].st = "none" => v.conn[d] = w.conn[d]
      BY <2>2
    <2>7. Pointers(v, P, S)
      BY SMTT(30), <2>2, <2>3, <2>5, <2>6, PointersCarry
    <2> QED BY <2>2, <2>4, <2>7 DEF v
  <1> QED BY <1>1, <1>2

(* So do MSC_A_EV_CN_CLOSE, MSC_A_EV_UNUSED, the cancelling of a record's  *)
(* procedures and its detach.                                              *)
LEMMA CnCloseKeeps ==
  ASSUME NEW w \in WType, NEW P, NEW S, Pointers(w, P, S), NEW c \in Conns
  PROVE  LET v == CnClose(w, c)
         IN /\ v \in WType /\ Pointers(v, P, S) /\ AllQuiet(w, v)
            /\ v.conn[c].st \in InRelease \cup {"none"}
  <1> DEFINE u == Evaluated(w, {c})
             v == CnClose(w, c)
  <1>1. CASE c \in LiveConns(w)
    <2>1. /\ u \in WType /\ u.conn = w.conn /\ SubQuiet(w.sub, u.sub)
          /\ u.sub.lu_fsm = w.sub.lu_fsm /\ u.sub.auth_fsm = w.sub.auth_fsm
      BY EvaluatedIs
    <2>2. v = Release(u, c)
      BY <1>1 DEF CnClose
    <2> HIDE DEF u, v
    <2>3. Pointers(u, P, S)
      <3>1. u.sub.msc_msub = w.sub.msc_msub /\ u.sub.parq_fsm = w.sub.parq_fsm
        BY <2>1 DEF SubQuiet
      <3> QED BY <2>1, <3>1, PointersCarry
    <2>4. u.conn[c].st # "none"
      BY <1>1, <2>1 DEF LiveConns
    <2>5. v \in WType /\ Pointers(v, P, S) /\ AllQuiet(u, v) /\ v.conn[c].st = "RELEASING"
      BY <2>1, <2>2, <2>3, <2>4, ReleaseKeeps
    <2>6. AllQuiet(w, u)
      BY <2>1, QuietTrans DEF AllQuiet
    <2>7. AllQuiet(w, v)
      BY <2>5, <2>6, AllQuietTrans
    <2> QED BY <2>5, <2>7 DEF v, InRelease
  <1>2. CASE c \notin LiveConns(w)
    <2>1. v = w
      BY <1>2 DEF CnClose
    <2> HIDE DEF v
    <2>2. AllQuiet(w, w)
      BY QuietTrans DEF AllQuiet, SubQuiet
    <2> QED BY <1>2, <2>1, <2>2 DEF LiveConns, v
  <1> QED BY <1>1, <1>2

(* The put of the last use: a refused first message is released with it.   *)
LEMMA UnusedKeeps ==
  ASSUME NEW w \in WType, NEW P, NEW S, Pointers(w, P, S), NEW c \in Conns
  PROVE  LET v == Unused(w, c)
         IN /\ v \in WType /\ Pointers(v, P, S) /\ AllQuiet(w, v)
            /\ w.conn[c].st = "VALIDATE_L3" /\ Total(w.conn[c]) = 0
                 => v.conn[c].st \in InRelease
  <1> DEFINE v == Unused(w, c)
  <1>1. CASE /\ w.conn[c].st \in {"VALIDATE_L3", "AUTH_CIPH"} \cup Accepted
             /\ Total(w.conn[c]) = 0
    <2>1. v = Release(w, c)
      BY <1>1 DEF Unused
    <2>2. w.conn[c].st # "none"
      BY <1>1 DEF Accepted
    <2> HIDE DEF v
    <2>3. v \in WType /\ Pointers(v, P, S) /\ AllQuiet(w, v) /\ v.conn[c].st = "RELEASING"
      BY <2>1, <2>2, ReleaseKeeps
    <2> QED BY <2>3 DEF v, InRelease
  <1>2. CASE ~(/\ w.conn[c].st \in {"VALIDATE_L3", "AUTH_CIPH"} \cup Accepted
               /\ Total(w.conn[c]) = 0)
    <2>1. v = w
      BY <1>2 DEF Unused
    <2> HIDE DEF v
    <2>2. AllQuiet(w, w)
      BY QuietTrans DEF AllQuiet, SubQuiet
    <2> QED BY <1>2, <2>1, <2>2 DEF v
  <1> QED BY <1>1, <1>2

-----------------------------------------------------------------------------
(* Steps that start or end no procedure.                                   *)

(* A write to the record alone.                                            *)
LEMMA RecordKeeps ==
  ASSUME NEW w \in WType, NEW P, NEW S, Pointers(w, P, S), NEW s \in SubType,
         s.lu_fsm = w.sub.lu_fsm, s.parq_fsm = w.sub.parq_fsm,
         s.auth_fsm = w.sub.auth_fsm, s.msc_msub = w.sub.msc_msub
  PROVE  LET v == [w EXCEPT !.sub = s]
         IN v \in WType /\ Pointers(v, P, S) /\ v.conn = w.conn /\ v.sub = s
  <1> DEFINE v == [w EXCEPT !.sub = s]
  <1>1. v \in WType /\ v.conn = w.conn /\ v.sub = s
    BY DEF WType
  <1> HIDE DEF v
  <1>2. Pointers(v, P, S)
    BY <1>1, PointersCarry
  <1> QED BY <1>1, <1>2 DEF v

(* A write to one connection.                                              *)
LEMMA ConnIs ==
  ASSUME NEW w \in WType, NEW c \in Conns, NEW r \in ConnType
  PROVE  LET v == [w EXCEPT !.conn = [w.conn EXCEPT ![c] = r]]
         IN /\ v \in WType /\ v.sub = w.sub /\ v.conn[c] = r
            /\ \A d \in Conns \ {c} : v.conn[d] = w.conn[d]
  <1> DEFINE f == [w.conn EXCEPT ![c] = r]
             v == [w EXCEPT !.conn = f]
  <1>1. f \in [Conns -> ConnType] /\ f[c] = r /\ \A d \in Conns \ {c} : f[d] = w.conn[d]
    BY Parts
  <1> HIDE DEF f
  <1>2. v \in WType /\ v.sub = w.sub /\ v.conn = f
    BY <1>1 DEF WType
  <1> HIDE DEF v
  <1>3. v.conn[c] = r /\ \A d \in Conns \ {c} : v.conn[d] = w.conn[d]
    BY <1>1, <1>2
  <1> QED BY <1>2, <1>3 DEF v, f

(* A write to one connection that leaves its procedures alone.             *)
LEMMA ConnKeeps ==
  ASSUME NEW w \in WType, NEW P, NEW S, Pointers(w, P, S),
         NEW c \in Conns, NEW r \in ConnType,
         r.lu = w.conn[c].lu, r.parq = w.conn[c].parq, r.auth = w.conn[c].auth,
         r.vsub = w.conn[c].vsub, r.st # "none"
  PROVE  LET v == [w EXCEPT !.conn = [w.conn EXCEPT ![c] = r]]
         IN /\ v \in WType /\ v.sub = w.sub /\ v.conn[c] = r
            /\ \A d \in Conns \ {c} : v.conn[d] = w.conn[d]
            /\ Pointers(v, P, S)
  <1> DEFINE v == [w EXCEPT !.conn = [w.conn EXCEPT ![c] = r]]
  <1>1. /\ v \in WType /\ v.sub = w.sub /\ v.conn[c] = r
        /\ \A d \in Conns \ {c} : v.conn[d] = w.conn[d]
    BY ConnIs
  <1> HIDE DEF v
  <1>2. \A d \in Conns :
           /\ v.conn[d].lu = w.conn[d].lu /\ w.conn[d].parq = v.conn[d].parq
           /\ v.conn[d].auth = w.conn[d].auth
           /\ v.conn[d].vsub = w.conn[d].vsub
           /\ v.conn[d].st = "none" => v.conn[d] = w.conn[d]
    <2> TAKE d \in Conns
    <2>1. CASE d = c
      BY <1>1, <2>1
    <2>2. CASE d # c
      BY <1>1, <2>2
    <2> QED BY <2>1, <2>2
  <1>3. Pointers(v, P, S)
    BY SMTT(30), <1>1, <1>2, PointersCarry
  <1> QED BY <1>1, <1>3 DEF v

(* Settling the one connection that a handler was at work on.              *)
LEMMA SettleOne ==
  ASSUME NEW w, NEW v, NEW c \in Conns, AllSettled(w, {c}),
         v.sub.classmark = w.sub.classmark,
         \A d \in Conns \ {c} : v.conn[d] = w.conn[d],
         Settled(v.conn[c], v.sub.classmark)
  PROVE  AllSettled(v, {})
  BY DEF AllSettled

(* vlr_subscr_detach() and the cancelling it starts with.                  *)
LEMMA DetachKeeps ==
  ASSUME NEW w \in WType, NEW P, NEW S, Pointers(w, P, S)
  PROVE  LET v == SubDetach(w)
         IN v \in WType /\ Pointers(v, P, S) /\ AllQuiet(w, v)
  <1> DEFINE H == CancelHits(w)
             u == CancelAttachFsm(w)
             s == [u.sub EXCEPT !.lu_complete = FALSE, !.expire_lu = "dated"]
             v == SubDetach(w)
  <1>1. H \in SUBSET Conns /\ \A d \in H : w.conn[d].st # "none"
    BY DEF CancelHits, LiveConns
  <1>2. u = Close(Evaluated(Cancelled(w), H), H)
    BY DEF CancelAttachFsm
  <1> HIDE DEF H, u
  <1>3. u \in WType /\ Pointers(u, P, S) /\ AllQuiet(w, u)
    BY <1>1, <1>2, CancelCloseKeeps DEF H
  <1>4. s \in SubType /\ SubQuiet(u.sub, s) /\ s.auth_fsm = u.sub.auth_fsm
        /\ s.lu_fsm = u.sub.lu_fsm /\ s.parq_fsm = u.sub.parq_fsm
        /\ s.msc_msub = u.sub.msc_msub
    BY ZenonT(60), <1>3, Parts DEF SubType, SubQuiet
  <1>5. v = [u EXCEPT !.sub = s]
    BY Zenon DEF SubDetach, u
  <1> HIDE DEF s, v
  <1>6. v \in WType /\ Pointers(v, P, S) /\ v.conn = u.conn /\ v.sub = s
    BY <1>3, <1>4, <1>5, RecordKeeps
  <1>7. AllQuiet(u, v)
    BY <1>4, <1>6, QuietTrans DEF AllQuiet
  <1> QED BY <1>3, <1>6, <1>7, AllQuietTrans DEF v

-----------------------------------------------------------------------------
(* Acceptance and failure of a connection.                                 *)

(* MSC_A_EV_AUTHENTICATED: the uses it puts were taken, and what it        *)
(* accepts was authenticated where that is required.                       *)
LEMMA AuthenticatedKeeps ==
  ASSUME NEW w \in WType, Pointers(w, {}, {}), NEW c \in Conns, AllSettled(w, {c}),
         Acceptable(w.conn[c]),
         w.conn[c].st # "AUTH_CIPH" => Settled(w.conn[c], w.sub.classmark)
  PROVE  LET v == Authenticated(w, c)
         IN v \in WType /\ Pointers(v, {}, {}) /\ AllSettled(v, {})
  <1> DEFINE r == w.conn[c]
             paged == r.l3 = "PAG" /\ w.sub.is_paging
             st == IF paged \/ r.l3 = "REEST" THEN "COMMUNICATING" ELSE "AUTHENTICATED"
             e == IF w.sub.lu_complete THEN "never" ELSE w.sub.expire_lu
             b == w.sub.is_paging /\ ~paged
             s == [w.sub EXCEPT !.expire_lu = e, !.is_paging = b]
             u == AcceptedUse(r, paged)
             q == [r EXCEPT !.st = st, !.use = u]
             f == [w.conn EXCEPT ![c] = q]
             x == [conn |-> f, sub |-> s]
             v == Authenticated(w, c)
  <1>1. /\ w.sub \in SubType /\ w.conn \in [Conns -> ConnType] /\ r \in ConnType
    BY Parts
  <1>2. CASE r.st # "AUTH_CIPH"
    <2>1. v = w
      BY <1>2 DEF Authenticated
    <2>2. AllSettled(w, {})
      BY <1>2 DEF AllSettled
    <2> HIDE DEF v
    <2> QED BY <2>1, <2>2 DEF v
  <1>3. CASE r.st = "AUTH_CIPH"
    <2>0. /\ r.vsub /\ (AuthRequired(r) => r.authed)
          /\ r.l3 = "LU" => r.use.lu > 0
          /\ r.l3 = "PAG" => r.use.pag > 0 /\ r.use.tr = 0
      BY <1>3 DEF Acceptable
    <2>1. v = Unused(x, c)
      BY Zenon, <1>1, <1>3, <2>0 DEF Authenticated
    <2>2. u \in UseType
      <3>1. r.use \in UseType /\ MaxUse \in Nat /\ MaxUse > 0
        BY SMTT(30), <1>1, ConnAssumption DEF ConnType
      <3>2. CASE r.l3 = "PAG"
        <4>1. u = [r.use EXCEPT !.pag = @ - 1, !.tr = IF paged THEN @ + 1 ELSE @]
          BY <3>2 DEF AcceptedUse
        <4>2. r.use.pag - 1 \in 0..MaxUse /\ r.use.tr + 1 \in 0..MaxUse
          BY SMTT(30), <2>0, <3>1, <3>2 DEF UseType
        <4> HIDE DEF u, paged
        <4> QED BY Zenon, <3>1, <4>1, <4>2 DEF UseType
      <3>3. CASE r.l3 = "LU"
        <4>1. u = [r.use EXCEPT !.lu = @ - 1]
          BY <3>3 DEF AcceptedUse
        <4>2. r.use.lu - 1 \in 0..MaxUse
          BY SMTT(30), <2>0, <3>1, <3>3 DEF UseType
        <4> HIDE DEF u
        <4> QED BY <3>1, <4>1, <4>2 DEF UseType
      <3>4. CASE r.l3 # "PAG" /\ r.l3 # "LU"
        <4>1. u = r.use
          BY <3>4 DEF AcceptedUse
        <4> HIDE DEF u
        <4> QED BY <3>1, <4>1
      <3> QED BY <3>2, <3>3, <3>4
    <2>3. st \in Accepted
      BY DEF Accepted
    <2>4. b \in BOOLEAN /\ e \in {"never", "dated"}
      BY <1>1 DEF SubType
    <2> HIDE DEF u, st, paged, b, e
    <2>5. q \in ConnType /\ q.st = st /\ q.lu = r.lu /\ q.parq = r.parq
          /\ q.auth = r.auth /\ q.vsub = r.vsub /\ q.ran = r.ran /\ q.authed = r.authed
      BY Zenon, <1>1, <2>2, <2>3 DEF ConnType, ConnStates
    <2>6. s \in SubType /\ s.lu_fsm = w.sub.lu_fsm /\ s.parq_fsm = w.sub.parq_fsm
          /\ s.auth_fsm = w.sub.auth_fsm /\ s.msc_msub = w.sub.msc_msub
          /\ s.classmark = w.sub.classmark
      BY ZenonT(30), <1>1, <2>4 DEF SubType
    <2> HIDE DEF q, s
    <2>7. f \in [Conns -> ConnType] /\ f[c] = q /\ \A d \in Conns \ {c} : f[d] = w.conn[d]
      BY <1>1, <2>5
    <2> HIDE DEF f
    <2>8. x \in WType /\ x.conn = f /\ x.sub = s
      BY <2>6, <2>7, Made
    <2> HIDE DEF x
    <2>9. \A d \in Conns :
           /\ x.conn[d].lu = w.conn[d].lu /\ w.conn[d].parq = x.conn[d].parq
           /\ x.conn[d].auth = w.conn[d].auth
           /\ x.conn[d].vsub = w.conn[d].vsub
           /\ x.conn[d].st = "none" => x.conn[d] = w.conn[d]
      <3> TAKE d \in Conns
      <3>1. CASE d = c
        BY <2>3, <2>5, <2>7, <2>8, <3>1 DEF Accepted
      <3>2. CASE d # c
        BY <2>7, <2>8, <3>2
      <3> QED BY <3>1, <3>2
    <2>10. Pointers(x, {}, {})
      BY SMTT(30), <2>6, <2>8, <2>9, PointersCarry
    <2>11. Settled(x.conn[c], x.sub.classmark)
      <3>1. x.conn[c] = q
        BY <2>7, <2>8
      <3>2. Settled(q, x.sub.classmark)
        BY <2>0, <2>3, <2>5 DEF Settled, Core, Accepted, Establishing, AuthRequired
      <3> QED BY <3>1, <3>2
    <2>12. AllSettled(x, {})
      BY <2>6, <2>7, <2>8, <2>11, SettleOne
    <2> HIDE DEF v
    <2>13. v \in WType /\ Pointers(v, {}, {}) /\ AllQuiet(x, v)
      BY <2>1, <2>8, <2>10, UnusedKeeps
    <2> QED BY <2>12, <2>13, AllQuietSettled DEF v
  <1> QED BY <1>2, <1>3

(* The end of an LU FSM leaves the pointers in agreement.                  *)
LEMMA EndLuKeeps ==
  ASSUME NEW w \in WType, NEW P, NEW S, Pointers(w, P, S), NEW c \in Conns,
         w.conn[c].st # "none"
  PROVE  Pointers(EndLu(w, c), P, S)
  <1> DEFINE v == EndLu(w, c)
  <1>1. /\ v \in WType /\ SubQuiet(w.sub, v.sub)
        /\ \A d \in Conns \ {c} : v.conn[d] = w.conn[d]
        /\ Base(w.conn[c], v.conn[c])
        /\ v.conn[c].lu = "none" /\ v.conn[c].parq = w.conn[c].parq
        /\ \A k \in Parents \ {"lu"} : v.conn[c].auth[k] = w.conn[c].auth[k]
        /\ v.sub.lu_fsm = IF w.sub.lu_fsm = c THEN None ELSE w.sub.lu_fsm
        /\ v.sub.auth_fsm = IF w.conn[c].auth["lu"] # "none" THEN None
                            ELSE w.sub.auth_fsm
    BY ZenonT(30), EndLuIs
  <1> HIDE DEF v
  <1>2. AuthPointer(v)
    <2>1. CASE w.conn[c].auth["lu"] # "none"
      BY <1>1, <2>1, AuthNone
    <2>2. CASE w.conn[c].auth["lu"] = "none"
      <3>1. AuthPointer(w) /\ v.sub.auth_fsm = w.sub.auth_fsm
        BY <1>1, <2>2 DEF Pointers
      <3>2. ASSUME NEW d \in Conns, NEW k \in Parents, w.conn[d].auth[k] # "none"
            PROVE  v.conn[d].auth[k] # "none"
        <4>1. CASE d = c
          BY <1>1, <2>2, <3>2, <4>1
        <4>2. CASE d # c
          BY <1>1, <3>2, <4>2
        <4> QED BY <4>1, <4>2
      <3> QED BY <3>1, <3>2, AuthCarries
    <2> QED BY <2>1, <2>2
  <1>3. v.sub.msc_msub = w.sub.msc_msub /\ v.sub.parq_fsm = w.sub.parq_fsm
    BY <1>1 DEF SubQuiet
  <1>4. ASSUME NEW d \in Conns PROVE Pointed(v.conn[d], v.sub, d, P, S)
    <2>0. Pointed(w.conn[d], w.sub, d, P, S) /\ None \notin Conns
      BY Parts DEF Pointers
    <2> DEFINE r == w.conn[d]
               q == v.conn[d]
    <2>1. CASE d = c
      <3>1. /\ v.sub.lu_fsm # d /\ q.lu = "none" /\ q.parq = r.parq
            /\ q.vsub = r.vsub /\ q.st # "none"
        BY <1>1, <2>0, <2>1 DEF Base
      <3>2. Pointed(r, w.sub, d, P, S)
        BY <2>0
      <3> HIDE DEF r, q
      <3>3. Pointed(q, v.sub, d, P, S)
        BY <1>3, <3>1, <3>2 DEF Pointed
      <3> QED BY <3>3 DEF q
    <2>2. CASE d # c
      <3>1. v.sub.lu_fsm = d <=> w.sub.lu_fsm = d
        BY <1>1, <2>0, <2>2
      <3>2. q = r /\ Pointed(r, w.sub, d, P, S)
        BY <1>1, <2>0, <2>2
      <3> HIDE DEF r, q
      <3>3. Pointed(q, v.sub, d, P, S)
        BY <1>3, <3>1, <3>2 DEF Pointed
      <3> QED BY <3>3 DEF q
    <2> QED BY <2>1, <2>2
  <1> QED BY <1>2, <1>4 DEF Pointers, v

(* lu_fsm_failure() ends the LU and releases its connection.               *)
LEMMA LuFailureKeeps ==
  ASSUME NEW w \in WType, NEW P, NEW S, Pointers(w, P, S), NEW c \in Conns,
         w.conn[c].st # "none", NEW X, AllSettled(w, X)
  PROVE  LET v == LuFailure(w, c)
         IN /\ v \in WType /\ Pointers(v, P, S) /\ AllSettled(v, X \ {c})
            /\ SubQuiet(w.sub, v.sub) /\ (w.sub.lu_fsm = c => v.sub.lu_fsm = None)
            /\ \A d \in Conns \ {c} : Quiet(w.conn[d], v.conn[d])
            /\ v.conn[c].st \in InRelease /\ v.conn[c].l3 = w.conn[c].l3
  <1> DEFINE u == EndLu(w, c)
             v == CnClose(u, c)
  <1>1. /\ u \in WType /\ SubQuiet(w.sub, u.sub)
        /\ \A d \in Conns \ {c} : u.conn[d] = w.conn[d]
        /\ Base(w.conn[c], u.conn[c])
        /\ u.sub.lu_fsm = IF w.sub.lu_fsm = c THEN None ELSE w.sub.lu_fsm
    BY ZenonT(60), EndLuIs
  <1>2. Pointers(u, P, S)
    BY EndLuKeeps
  <1> HIDE DEF u
  <1>3. /\ v \in WType /\ Pointers(v, P, S) /\ AllQuiet(u, v)
        /\ v.conn[c].st \in InRelease \cup {"none"}
    BY <1>1, <1>2, CnCloseKeeps
  <1> HIDE DEF v
  <1>4. v.conn[c].st \in InRelease /\ v.conn[c].l3 = w.conn[c].l3
    <2>1. u.conn[c].st # "none" /\ u.conn[c].l3 = w.conn[c].l3
      BY <1>1 DEF Base
    <2>2. Quiet(u.conn[c], v.conn[c])
      BY <1>3 DEF AllQuiet
    <2> QED BY <1>3, <2>1, <2>2 DEF Quiet
  <1>5. SubQuiet(w.sub, v.sub) /\ (w.sub.lu_fsm = c => v.sub.lu_fsm = None)
    BY <1>1, <1>3 DEF AllQuiet, SubQuiet
  <1>6. \A d \in Conns \ {c} : Quiet(w.conn[d], v.conn[d])
    BY <1>1, <1>3 DEF AllQuiet
  <1>7. ASSUME NEW d \in Conns \ (X \ {c}) PROVE Settled(v.conn[d], v.sub.classmark)
    <2>1. CASE d = c
      BY <1>4, <2>1, ReleasedSettled
    <2>2. CASE d # c
      <3>1. Settled(w.conn[d], v.sub.classmark)
        BY <1>5, <2>2 DEF AllSettled, SubQuiet
      <3> QED BY <1>6, <2>2, <3>1, QuietSettled
    <2> QED BY <2>1, <2>2
  <1>8. LuFailure(w, c) = v
    BY DEF LuFailure, u, v
  <1> QED BY <1>3, <1>4, <1>5, <1>6, <1>7, <1>8 DEF AllSettled

-----------------------------------------------------------------------------
(* Location Updating.                                                      *)

(* The LU FSM of a connection changes its state.                           *)
LEMMA LuStateIs ==
  ASSUME NEW w \in WType, NEW P, NEW S, Pointers(w, P, S), NEW c \in Conns,
         w.conn[c].lu # "none", NEW s \in LuStates \ {"none"}
  PROVE  LET v == LuState(w, c, s)
         IN /\ v \in WType /\ v.sub = w.sub /\ Pointers(v, P, S)
            /\ \A d \in Conns \ {c} : v.conn[d] = w.conn[d]
            /\ Base(w.conn[c], v.conn[c]) /\ v.conn[c].lu = s
            /\ v.conn[c].parq = w.conn[c].parq /\ v.conn[c].auth = w.conn[c].auth
  <1> DEFINE r == w.conn[c]
             q == [r EXCEPT !.lu = s]
             v == LuState(w, c, s)
  <1>1. r \in ConnType
    BY Parts
  <1>2. q \in ConnType /\ Base(r, q) /\ q.lu = s /\ q.parq = r.parq /\ q.auth = r.auth
    BY <1>1 DEF ConnType, Base
  <1>3. v = [w EXCEPT !.conn = [w.conn EXCEPT ![c] = q]]
    BY DEF LuState
  <1> HIDE DEF q, v
  <1>4. /\ v \in WType /\ v.sub = w.sub /\ v.conn[c] = q
        /\ \A d \in Conns \ {c} : v.conn[d] = w.conn[d]
    BY ZenonT(30), <1>2, <1>3, ConnIs
  <1>5. r.st # "none"
    BY SMTT(30) DEF Pointers, Pointed, NoConn
  <1>6. \A d \in Conns :
           /\ v.conn[d].lu # "none" <=> w.conn[d].lu # "none"
           /\ w.conn[d].parq = v.conn[d].parq
           /\ v.conn[d].auth = w.conn[d].auth
           /\ v.conn[d].vsub = w.conn[d].vsub
           /\ v.conn[d].st = "none" => v.conn[d] = w.conn[d]
    <2> TAKE d \in Conns
    <2>1. CASE d = c
      BY <1>2, <1>4, <1>5, <2>1 DEF Base
    <2>2. CASE d # c
      BY <1>4, <2>2
    <2> QED BY <2>1, <2>2
  <1>7. Pointers(v, P, S)
    BY SMTT(30), <1>4, <1>6, PointersCarry
  <1> QED BY <1>2, <1>4, <1>7 DEF v

(* msc_a_vlr_set_cipher_mode(): a command, or a wait for the classmark.    *)
LEMMA SetCipherModeIs ==
  ASSUME NEW w \in WType, NEW P, NEW S, Pointers(w, P, S), NEW c \in Conns,
         w.conn[c].st # "none"
  PROVE  LET v == SetCipherMode(w, c)
             r == w.conn[c]
             q == v.conn[c]
         IN /\ v \in WType /\ v.sub = w.sub /\ Pointers(v, P, S)
            /\ \A d \in Conns \ {c} : v.conn[d] = w.conn[d]
            /\ Ciphered(r, q, w.sub.classmark)
  <1> DEFINE r == w.conn[c]
             m == w.sub.classmark
             v == SetCipherMode(w, c)
  <1>1. r \in ConnType
    BY Parts
  <1>2. CASE ~NeedClassmark(w, c)
    <2> DEFINE q == [r EXCEPT !.cmd = TRUE]
    <2>1. /\ q \in ConnType /\ q.lu = r.lu /\ q.parq = r.parq /\ q.vsub = r.vsub
          /\ q.ran = r.ran /\ q.auth = r.auth
          /\ q.l3 = r.l3 /\ q.authed = r.authed /\ q.use = r.use /\ q.st = r.st
      BY Zenon, <1>1 DEF ConnType
    <2>2. v = [w EXCEPT !.conn = [w.conn EXCEPT ![c] = q]]
      BY <1>2 DEF SetCipherMode
    <2> HIDE DEF q, v
    <2>3. /\ v \in WType /\ v.sub = w.sub /\ v.conn[c] = q
          /\ \A d \in Conns \ {c} : v.conn[d] = w.conn[d]
          /\ Pointers(v, P, S)
      BY SMTT(30), <2>1, <2>2, ConnKeeps
    <2>4. r.ran = "Iu" \/ m
      BY <1>1, <1>2 DEF NeedClassmark, ConnType
    <2> HIDE DEF r, m
    <2>5. Ciphered(r, q, m)
      BY <2>1, <2>4 DEF Ciphered
    <2> QED BY <2>3, <2>5 DEF v, r, m
  <1>3. CASE NeedClassmark(w, c) /\ r.st = "AUTH_CIPH"
    <2> DEFINE q == [r EXCEPT !.st = "WAIT_CLASSMARK_UPDATE"]
    <2>1. /\ q \in ConnType /\ q.lu = r.lu /\ q.parq = r.parq /\ q.vsub = r.vsub
          /\ q.ran = r.ran /\ q.auth = r.auth /\ q.cmd = r.cmd
          /\ q.l3 = r.l3 /\ q.authed = r.authed /\ q.use = r.use
          /\ q.st = "WAIT_CLASSMARK_UPDATE"
      BY <1>1 DEF ConnType, ConnStates, Establishing
    <2>2. v = [w EXCEPT !.conn = [w.conn EXCEPT ![c] = q]]
      BY <1>3 DEF SetCipherMode, St
    <2> HIDE DEF q, v
    <2>3. /\ v \in WType /\ v.sub = w.sub /\ v.conn[c] = q
          /\ \A d \in Conns \ {c} : v.conn[d] = w.conn[d]
          /\ Pointers(v, P, S)
      BY SMTT(30), <2>1, <2>2, ConnKeeps
    <2>4. r.ran = "A" /\ ~m /\ r.st = "AUTH_CIPH"
      BY <1>3 DEF NeedClassmark
    <2> HIDE DEF r, m
    <2>5. Ciphered(r, q, m)
      BY <2>1, <2>4 DEF Ciphered
    <2> QED BY <2>3, <2>5 DEF v, r, m
  <1>4. CASE NeedClassmark(w, c) /\ r.st # "AUTH_CIPH"
    <2>1. v = w
      BY <1>4 DEF SetCipherMode
    <2> HIDE DEF v, r, m
    <2>2. Ciphered(r, r, m)
      BY DEF Ciphered
    <2> QED BY <2>1, <2>2 DEF v, r, m
  <1> HIDE DEF v, r, m
  <1> QED BY <1>2, <1>3, <1>4 DEF v, r, m

(* vlr_loc_upd_post_auth() once a required authentication has passed.      *)
LEMMA LuPostAuthKeeps ==
  ASSUME NEW w \in WType, Pointers(w, {}, {}), NEW c \in Conns, AllSettled(w, {c}),
         w.conn[c].lu # "none", LuMid(w.conn[c], w.sub.classmark),
         w.conn[c].st \in Establishing /\ AuthRequired(w.conn[c]) => w.conn[c].authed
  PROVE  LET v == LuPostAuth(w, c)
         IN v \in WType /\ Pointers(v, {}, {}) /\ AllSettled(v, {})
  <1> DEFINE v == LuPostAuth(w, c)
             go == ~CmcSmcAttempted(w.conn[c]) \/ (~w.sub.sec_ctx /\ ~Required)
             ci == w.sub.sec_ctx /\ CanCipher(w, c)
  <1>0. w.conn[c].st # "none"
    BY SMTT(30) DEF Pointers, Pointed, NoConn
  <1>1. CASE go
    <2>1. v = LuState(w, c, "WAIT_HLR_UPD")
      BY <1>1 DEF LuPostAuth
    <2>2. "WAIT_HLR_UPD" \in LuStates \ {"none"}
      BY DEF LuStates
    <2> HIDE DEF v
    <2>3. /\ v \in WType /\ v.sub = w.sub /\ Pointers(v, {}, {})
          /\ \A d \in Conns \ {c} : v.conn[d] = w.conn[d]
          /\ Base(w.conn[c], v.conn[c]) /\ v.conn[c].lu = "WAIT_HLR_UPD"
          /\ v.conn[c].parq = w.conn[c].parq
      BY SMTT(30), <2>1, <2>2, LuStateIs
    <2>4. Settled(v.conn[c], v.sub.classmark)
      BY <2>3, LuMidOn
    <2>5. AllSettled(v, {})
      BY <2>3, <2>4, SettleOne
    <2> QED BY <2>3, <2>5 DEF v
  <1>2. CASE ~go /\ ci
    <2> DEFINE u == SetCipherMode(w, c)
    <2>1. v = LuState(u, c, "WAIT_CIPH")
      BY <1>2 DEF LuPostAuth
    <2>2. "WAIT_CIPH" \in LuStates \ {"none"}
      BY DEF LuStates
    <2>3. /\ u \in WType /\ u.sub = w.sub /\ Pointers(u, {}, {})
          /\ \A d \in Conns \ {c} : u.conn[d] = w.conn[d]
          /\ Ciphered(w.conn[c], u.conn[c], w.sub.classmark)
      BY <1>0, SetCipherModeIs
    <2> HIDE DEF u, v
    <2>4. /\ v \in WType /\ v.sub = u.sub /\ Pointers(v, {}, {})
          /\ \A d \in Conns \ {c} : v.conn[d] = u.conn[d]
          /\ Base(u.conn[c], v.conn[c]) /\ v.conn[c].lu = "WAIT_CIPH"
          /\ v.conn[c].parq = u.conn[c].parq
      <3>1. u.conn[c].lu # "none"
        BY <2>3 DEF Ciphered
      <3> QED BY SMTT(30), <2>1, <2>2, <2>3, <3>1, LuStateIs
    <2>5. Settled(v.conn[c], v.sub.classmark)
      <3>1. w.conn[c] \in ConnType
        BY Parts
      <3> QED BY <2>3, <2>4, <3>1, LuMidCiphered
    <2>6. AllSettled(v, {})
      <3>1. \A d \in Conns \ {c} : v.conn[d] = w.conn[d]
        BY <2>3, <2>4
      <3> QED BY <2>3, <2>4, <2>5, <3>1, SettleOne
    <2> QED BY <2>4, <2>6 DEF v
  <1>3. CASE ~go /\ ~ci
    <2>1. v = LuFailure(w, c)
      BY <1>3 DEF LuPostAuth
    <2> HIDE DEF v
    <2>2. v \in WType /\ Pointers(v, {}, {}) /\ AllSettled(v, {c} \ {c})
      BY Zenon, <1>0, <2>1, LuFailureKeeps
    <2>3. {c} \ {c} = {}
      OBVIOUS
    <2> QED BY <2>2, <2>3 DEF v
  <1> HIDE DEF v
  <1> QED BY <1>1, <1>2, <1>3 DEF v

(* auth_fsm_start(): the record points to a session that is at work.       *)
LEMMA StartAuthIs ==
  ASSUME NEW w \in WType, NEW P, NEW S, Pointers(w, P, S), NEW c \in Conns,
         w.conn[c].st # "none", NEW k \in Parents
  PROVE  LET v == StartAuth(w, c, k)
         IN /\ v \in WType /\ v.sub.classmark = w.sub.classmark /\ Pointers(v, P, S)
            /\ \A d \in Conns \ {c} : v.conn[d] = w.conn[d]
            /\ Base(w.conn[c], v.conn[c]) /\ v.conn[c].lu = w.conn[c].lu
            /\ v.conn[c].parq = w.conn[c].parq
  <1> DEFINE r == w.conn[c]
             a == [r.auth EXCEPT ![k] = "WAIT_AI"]
             q == [r EXCEPT !.auth = a]
             f == [w.conn EXCEPT ![c] = q]
             s == [w.sub EXCEPT !.auth_fsm = <<c, k>>]
             v == StartAuth(w, c, k)
  <1>1. r \in ConnType /\ w.conn \in [Conns -> ConnType] /\ w.sub \in SubType
        /\ None \notin Conns
    BY Parts
  <1>2. a \in [Parents -> AuthStates] /\ a[k] = "WAIT_AI"
    BY <1>1 DEF ConnType, AuthStates
  <1>3. v = [w EXCEPT !.conn = f, !.sub = s]
    BY DEF StartAuth
  <1> HIDE DEF a
  <1>4. q \in ConnType /\ Base(r, q) /\ q.lu = r.lu /\ q.parq = r.parq /\ q.auth = a
    BY <1>1, <1>2 DEF ConnType, Base
  <1>5. s \in SubType /\ s.auth_fsm = <<c, k>> /\ s.lu_fsm = w.sub.lu_fsm
        /\ s.parq_fsm = w.sub.parq_fsm /\ s.msc_msub = w.sub.msc_msub
        /\ s.classmark = w.sub.classmark
    BY <1>1 DEF SubType
  <1> HIDE DEF q, s
  <1>6. f \in [Conns -> ConnType] /\ f[c] = q /\ \A d \in Conns \ {c} : f[d] = w.conn[d]
    BY <1>1, <1>4
  <1> HIDE DEF f, v
  <1>7. v \in WType /\ v.conn = f /\ v.sub = s
    BY Zenon, <1>3, <1>5, <1>6 DEF WType
  <1>8. \A d \in Conns : /\ v.conn[d].lu = w.conn[d].lu /\ v.conn[d].parq = w.conn[d].parq
                         /\ v.conn[d].vsub = w.conn[d].vsub /\ v.conn[d].st = w.conn[d].st
                         /\ v.conn[d].st = "none" => v.conn[d] = w.conn[d]
    <2> TAKE d \in Conns
    <2>1. CASE d = c
      BY <1>4, <1>6, <1>7, <2>1 DEF Base
    <2>2. CASE d # c
      BY <1>6, <1>7, <2>2
    <2> QED BY <2>1, <2>2
  <1>9. AuthPointer(v)
    <2>1. v.sub.auth_fsm = <<c, k>> /\ v.conn[c].auth[k] # "none"
      BY <1>2, <1>4, <1>5, <1>6, <1>7
    <2> QED BY <2>1 DEF AuthPointer
  <1>10. ASSUME NEW d \in Conns PROVE Pointed(v.conn[d], v.sub, d, P, S)
    <2>1. Pointed(w.conn[d], w.sub, d, P, S)
      BY DEF Pointers
    <2> DEFINE p == w.conn[d]
               t == v.conn[d]
    <2>2. /\ t.lu = p.lu /\ t.parq = p.parq /\ t.vsub = p.vsub
          /\ t.st = "none" => t = p
      BY <1>8
    <2>3. Pointed(p, w.sub, d, P, S)
      BY <2>1
    <2>4. v.sub = s
      BY <1>7
    <2> HIDE DEF p, t
    <2>5. Pointed(t, v.sub, d, P, S)
      BY <1>5, <2>2, <2>3, <2>4 DEF Pointed
    <2> QED BY <2>5 DEF t
  <1>12. Pointers(v, P, S)
    BY <1>9, <1>10 DEF Pointers
  <1> QED BY <1>4, <1>5, <1>6, <1>7, <1>12 DEF v

(* vlr_loc_upd_node1(): only what needs no authentication goes on.         *)
LEMMA LuNode1Keeps ==
  ASSUME NEW w \in WType, Pointers(w, {}, {}), NEW c \in Conns, AllSettled(w, {c}),
         w.conn[c].lu # "none", LuMid(w.conn[c], w.sub.classmark), NEW reuse \in BOOLEAN
  PROVE  LET v == LuNode1(w, c, reuse)
         IN v \in WType /\ Pointers(v, {}, {}) /\ AllSettled(v, {})
  <1> DEFINE v == LuNode1(w, c, reuse)
  <1>1. CASE NeedAuth(w, c, reuse)
    <2> DEFINE u == LuState(w, c, "WAIT_AUTH")
    <2>1. v = StartAuth(u, c, "lu")
      BY <1>1 DEF LuNode1
    <2>2. "WAIT_AUTH" \in LuStates \ {"none"} /\ "lu" \in Parents
      BY DEF LuStates, Parents
    <2>3. /\ u \in WType /\ u.sub = w.sub /\ Pointers(u, {}, {})
          /\ \A d \in Conns \ {c} : u.conn[d] = w.conn[d]
          /\ Base(w.conn[c], u.conn[c]) /\ u.conn[c].lu = "WAIT_AUTH"
          /\ u.conn[c].parq = w.conn[c].parq
      BY SMTT(30), <2>2, LuStateIs
    <2> HIDE DEF u, v
    <2>4. u.conn[c].st # "none"
      BY SMTT(30), <2>3 DEF Pointers, Pointed, NoConn
    <2>5. /\ v \in WType /\ v.sub.classmark = u.sub.classmark /\ Pointers(v, {}, {})
          /\ \A d \in Conns \ {c} : v.conn[d] = u.conn[d]
          /\ Base(u.conn[c], v.conn[c]) /\ v.conn[c].lu = u.conn[c].lu
          /\ v.conn[c].parq = u.conn[c].parq
      BY SMTT(30), <2>1, <2>2, <2>3, <2>4, StartAuthIs
    <2>6. Settled(v.conn[c], v.sub.classmark)
      <3>1. Base(w.conn[c], v.conn[c]) /\ v.conn[c].lu = "WAIT_AUTH"
            /\ v.conn[c].parq = w.conn[c].parq /\ v.sub.classmark = w.sub.classmark
        BY <2>3, <2>5 DEF Base
      <3>2. "WAIT_AUTH" \notin LuPost
        BY DEF LuPost
      <3> QED BY <3>1, <3>2, LuMidOn
    <2>7. \A d \in Conns \ {c} : v.conn[d] = w.conn[d]
      BY <2>3, <2>5
    <2>8. AllSettled(v, {})
      BY <2>3, <2>5, <2>6, <2>7, SettleOne
    <2> QED BY <2>5, <2>8 DEF v
  <1>2. CASE ~NeedAuth(w, c, reuse)
    <2>1. v = LuPostAuth(w, c) /\ ~AuthRequired(w.conn[c])
      BY <1>2 DEF LuNode1, NeedAuth
    <2> HIDE DEF v
    <2> QED BY <2>1, LuPostAuthKeeps DEF v
  <1> QED BY <1>1, <1>2

(* A step of an LU that is waiting for no cipher command's answer.         *)
LEMMA LuStepKeeps ==
  ASSUME NEW w \in WType, Pointers(w, {}, {}), NEW c \in Conns, AllSettled(w, {}),
         w.conn[c].lu # "none", NEW s \in LuStates \ {"none"},
         s \in LuPost => w.conn[c].lu \in LuPost,
         w.conn[c].lu = "WAIT_CIPH" => w.conn[c].st # "WAIT_CLASSMARK_UPDATE"
  PROVE  LET v == LuState(w, c, s)
         IN /\ v \in WType /\ Pointers(v, {}, {}) /\ AllSettled(v, {})
            /\ v.sub = w.sub /\ \A d \in Conns : v.conn[d].st = w.conn[d].st
  <1> DEFINE v == LuState(w, c, s)
  <1>1. /\ v \in WType /\ v.sub = w.sub /\ Pointers(v, {}, {})
        /\ \A d \in Conns \ {c} : v.conn[d] = w.conn[d]
        /\ Base(w.conn[c], v.conn[c]) /\ v.conn[c].lu = s
        /\ v.conn[c].parq = w.conn[c].parq
    BY SMTT(30), LuStateIs
  <1> HIDE DEF v
  <1>2. Settled(w.conn[c], w.sub.classmark) /\ AllSettled(w, {c})
    BY DEF AllSettled
  <1>3. Settled(v.conn[c], v.sub.classmark)
    BY <1>1, <1>2, LuStepSettled
  <1>4. AllSettled(v, {})
    BY <1>1, <1>2, <1>3, SettleOne
  <1>5. \A d \in Conns : v.conn[d].st = w.conn[d].st
    BY <1>1 DEF Base
  <1> QED BY <1>1, <1>4, <1>5 DEF v

(* vlr_lu_compl_fsm_success() and lu_fsm_success().                        *)
LEMMA LuSuccessKeeps ==
  ASSUME NEW w \in WType, Pointers(w, {}, {}), NEW c \in Conns, AllSettled(w, {}),
         w.conn[c].lu \in LuPost \ {"WAIT_CIPH"}
  PROVE  LET v == LuSuccess(w, c)
         IN v \in WType /\ Pointers(v, {}, {}) /\ AllSettled(v, {})
  <1> DEFINE s == [w.sub EXCEPT !.lu_complete = TRUE]
             u == [w EXCEPT !.sub = s]
             x == EndLu(u, c)
             v == LuSuccess(w, c)
  <1>1. s \in SubType /\ s.auth_fsm = w.sub.auth_fsm /\ s.lu_fsm = w.sub.lu_fsm
        /\ s.parq_fsm = w.sub.parq_fsm /\ s.msc_msub = w.sub.msc_msub
        /\ s.classmark = w.sub.classmark
    BY ZenonT(60), Parts DEF SubType
  <1>2. v = Authenticated(x, c)
    BY DEF LuSuccess
  <1> HIDE DEF s
  <1>3. u \in WType /\ Pointers(u, {}, {}) /\ u.conn = w.conn /\ u.sub = s
    BY <1>1, RecordKeeps
  <1> HIDE DEF u
  <1>4. u.conn[c].st # "none"
    BY SMTT(30), <1>3 DEF Pointers, Pointed, NoConn, LuPost
  <1>5. /\ x \in WType /\ SubQuiet(u.sub, x.sub)
        /\ \A d \in Conns \ {c} : x.conn[d] = u.conn[d]
        /\ Base(u.conn[c], x.conn[c])
        /\ x.conn[c].lu = "none" /\ x.conn[c].parq = u.conn[c].parq
    BY ZenonT(60), <1>3, EndLuIs
  <1>6. Pointers(x, {}, {})
    BY <1>3, <1>4, EndLuKeeps
  <1> HIDE DEF x, v
  <1>7. Settled(w.conn[c], w.sub.classmark)
    BY DEF AllSettled
  <1>8. x.sub.classmark = w.sub.classmark
    BY <1>1, <1>3, <1>5 DEF SubQuiet
  <1>9. AllSettled(x, {c})
    BY <1>3, <1>5, <1>8 DEF AllSettled
  <1>10. /\ Acceptable(x.conn[c])
         /\ x.conn[c].st # "AUTH_CIPH" => Settled(x.conn[c], x.sub.classmark)
    BY <1>3, <1>5, <1>7, <1>8, LuDone
  <1> QED BY <1>2, <1>5, <1>6, <1>9, <1>10, AuthenticatedKeeps DEF v

(* The end of the IMEI check: the TMSI is confirmed first, or the LU is    *)
(* over.                                                                   *)
LEMMA LuPostImeiKeeps ==
  ASSUME NEW w \in WType, Pointers(w, {}, {}), NEW c \in Conns, AllSettled(w, {}),
         w.conn[c].lu \in LuPost \ {"WAIT_CIPH"}
  PROVE  LET v == LuPostImei(w, c)
         IN v \in WType /\ Pointers(v, {}, {}) /\ AllSettled(v, {})
  <1> DEFINE v == LuPostImei(w, c)
  <1>1. CASE cfg.tmsi
    <2>1. v = LuState(w, c, "WAIT_TMSI_CNF")
      BY <1>1 DEF LuPostImei
    <2>2. "WAIT_TMSI_CNF" \in LuStates \ {"none"} /\ w.conn[c].lu # "none"
          /\ w.conn[c].lu # "WAIT_CIPH" /\ w.conn[c].lu \in LuPost
      BY DEF LuStates, LuPost
    <2> HIDE DEF v
    <2> QED BY ZenonT(60), <2>1, <2>2, LuStepKeeps DEF v
  <1>2. CASE ~cfg.tmsi
    <2>1. v = LuSuccess(w, c)
      BY <1>2 DEF LuPostImei
    <2> HIDE DEF v
    <2> QED BY <2>1, LuSuccessKeeps DEF v
  <1> QED BY <1>1, <1>2

-----------------------------------------------------------------------------
(* Access requests.                                                        *)

(* The PARQ that the record points to changes its state.                   *)
LEMMA ParqStateIs ==
  ASSUME NEW w \in WType, NEW P, NEW S, Pointers(w, P, S), NEW c \in Conns,
         w.conn[c].st # "none", w.sub.parq_fsm = c, NEW s \in ParqStates \ {"none"}
  PROVE  LET v == ParqState(w, c, s)
         IN /\ v \in WType /\ v.sub = w.sub /\ Pointers(v, P \ {c}, S)
            /\ \A d \in Conns \ {c} : v.conn[d] = w.conn[d]
            /\ Base(w.conn[c], v.conn[c]) /\ v.conn[c].parq = s
            /\ v.conn[c].lu = w.conn[c].lu /\ v.conn[c].auth = w.conn[c].auth
  <1> DEFINE r == w.conn[c]
             q == [r EXCEPT !.parq = s]
             v == ParqState(w, c, s)
  <1>1. r \in ConnType
    BY Parts
  <1>2. q \in ConnType /\ Base(r, q) /\ q.parq = s /\ q.lu = r.lu /\ q.auth = r.auth
    BY <1>1 DEF ConnType, Base
  <1>3. v = [w EXCEPT !.conn = [w.conn EXCEPT ![c] = q]]
    BY DEF ParqState
  <1> HIDE DEF q, v
  <1>4. /\ v \in WType /\ v.sub = w.sub /\ v.conn[c] = q
        /\ \A d \in Conns \ {c} : v.conn[d] = w.conn[d]
    BY SMTT(30), <1>2, <1>3, ConnIs
  <1>6. \A d \in Conns :
           /\ v.conn[d].lu = w.conn[d].lu
           /\ w.conn[d].parq # "none" => v.conn[d].parq # "none"
           /\ v.conn[d].parq \in ParqPending =>
                w.conn[d].parq \in ParqPending \/ w.sub.parq_fsm = d
           /\ v.conn[d].auth = w.conn[d].auth
           /\ v.conn[d].vsub = w.conn[d].vsub
           /\ v.conn[d].st = "none" => v.conn[d] = w.conn[d]
    <2> TAKE d \in Conns
    <2>1. CASE d = c
      BY <1>2, <1>4, <2>1 DEF Base
    <2>2. CASE d # c
      BY <1>4, <2>2
    <2> QED BY <2>1, <2>2
  <1>7. Pointers(v, P, S)
    BY SMTT(30), <1>4, <1>6, PointersCarry
  <1>8. v.conn[c].parq # "none"
    BY <1>2, <1>4
  <1>9. Pointers(v, P \ {c}, S)
    BY <1>7, <1>8 DEF Pointers, Pointed
  <1> QED BY <1>2, <1>4, <1>9 DEF v

(* The same when the handler is at work on that PARQ and on nothing else.  *)
LEMMA ParqStateOwn ==
  ASSUME NEW w \in WType, NEW c \in Conns, Pointers(w, {c}, {}),
         w.conn[c].st # "none", w.sub.parq_fsm = c, NEW s \in ParqStates \ {"none"}
  PROVE  LET v == ParqState(w, c, s)
         IN /\ v \in WType /\ v.sub = w.sub /\ Pointers(v, {}, {})
            /\ \A d \in Conns \ {c} : v.conn[d] = w.conn[d]
            /\ Base(w.conn[c], v.conn[c]) /\ v.conn[c].parq = s
            /\ v.conn[c].lu = w.conn[c].lu /\ v.conn[c].auth = w.conn[c].auth
  <1> DEFINE P == {c}
             S == {}
             v == ParqState(w, c, s)
  <1>1. Pointers(w, P, S) /\ P \ {c} = {}
    OBVIOUS
  <1> HIDE DEF P, S
  <1>2. v \in WType /\ v.sub = w.sub
    BY SMTT(30), <1>1, ParqStateIs
  <1>3. Pointers(v, P \ {c}, S)
    BY Zenon, <1>1, ParqStateIs
  <1>4. \A d \in Conns \ {c} : v.conn[d] = w.conn[d]
    BY SMTT(30), <1>1, ParqStateIs
  <1>5. Base(w.conn[c], v.conn[c])
    BY <1>1, ParqStateIs
  <1>6. v.conn[c].parq = s
    BY SMTT(30), <1>1, ParqStateIs
  <1>7. v.conn[c].lu = w.conn[c].lu /\ v.conn[c].auth = w.conn[c].auth
    BY SMTT(30), <1>1, ParqStateIs
  <1> HIDE DEF v
  <1> QED BY <1>1, <1>2, <1>3, <1>4, <1>5, <1>6, <1>7 DEF v, S

(* A failed PARQ releases its connection.                                  *)
LEMMA ParqFailedKeeps ==
  ASSUME NEW w \in WType, NEW P, NEW S, Pointers(w, P, S), NEW c \in Conns,
         w.conn[c].st # "none", w.sub.parq_fsm = c, NEW X, AllSettled(w, X)
  PROVE  LET v == ParqFailed(w, c)
         IN /\ v \in WType /\ Pointers(v, P \ {c}, S) /\ AllSettled(v, X \ {c})
            /\ SubQuiet(w.sub, v.sub)
            /\ \A d \in Conns \ {c} : Quiet(w.conn[d], v.conn[d])
            /\ v.conn[c].st \in InRelease /\ v.conn[c].parq = "DONE"
  <1> DEFINE u == ParqState(w, c, "DONE")
             v == CnClose(u, c)
  <1>0. "DONE" \in ParqStates \ {"none"}
    BY DEF ParqStates
  <1>1. /\ u \in WType /\ u.sub = w.sub /\ Pointers(u, P \ {c}, S)
        /\ \A d \in Conns \ {c} : u.conn[d] = w.conn[d]
        /\ Base(w.conn[c], u.conn[c]) /\ u.conn[c].parq = "DONE"
    BY SMTT(30), <1>0, ParqStateIs
  <1> HIDE DEF u
  <1>2. /\ v \in WType /\ Pointers(v, P \ {c}, S) /\ AllQuiet(u, v)
        /\ v.conn[c].st \in InRelease \cup {"none"}
    BY <1>1, CnCloseKeeps
  <1> HIDE DEF v
  <1>3. v.conn[c].st \in InRelease /\ v.conn[c].parq = "DONE"
    <2>1. u.conn[c].st # "none"
      BY <1>1 DEF Base
    <2>2. Quiet(u.conn[c], v.conn[c])
      BY <1>2 DEF AllQuiet
    <2> QED BY <1>1, <1>2, <2>1, <2>2 DEF Quiet
  <1>4. SubQuiet(w.sub, v.sub)
    BY <1>1, <1>2 DEF AllQuiet
  <1>5. \A d \in Conns \ {c} : Quiet(w.conn[d], v.conn[d])
    BY <1>1, <1>2 DEF AllQuiet
  <1>6. ASSUME NEW d \in Conns \ (X \ {c}) PROVE Settled(v.conn[d], v.sub.classmark)
    <2>1. CASE d = c
      BY <1>3, <2>1, ReleasedSettled
    <2>2. CASE d # c
      <3>1. Settled(w.conn[d], v.sub.classmark)
        BY <1>4, <2>2 DEF AllSettled, SubQuiet
      <3> QED BY <1>5, <2>2, <3>1, QuietSettled
    <2> QED BY <2>1, <2>2
  <1>7. ParqFailed(w, c) = v
    BY DEF ParqFailed, u, v
  <1> QED BY <1>2, <1>3, <1>4, <1>5, <1>6, <1>7 DEF AllSettled

(* A PARQ that passes accepts its connection.                              *)
LEMMA ParqPassedKeeps ==
  ASSUME NEW w \in WType, NEW c \in Conns, Pointers(w, {c}, {}), AllSettled(w, {c}),
         w.conn[c].st # "none", w.sub.parq_fsm = c,
         ParqMid(w.conn[c], w.sub.classmark),
         w.conn[c].st \in Establishing /\ AuthRequired(w.conn[c]) => w.conn[c].authed
  PROVE  LET v == ParqPassed(w, c)
         IN v \in WType /\ Pointers(v, {}, {}) /\ AllSettled(v, {})
  <1> DEFINE u == ParqState(w, c, "DONE")
             v == ParqPassed(w, c)
  <1>0. "DONE" \in ParqStates \ {"none"} /\ {c} \ {c} = {}
    BY DEF ParqStates
  <1>1. /\ u \in WType /\ u.sub = w.sub /\ Pointers(u, {}, {})
        /\ \A d \in Conns \ {c} : u.conn[d] = w.conn[d]
        /\ Base(w.conn[c], u.conn[c]) /\ u.conn[c].parq = "DONE"
        /\ u.conn[c].lu = w.conn[c].lu
    <2>1. Pointers(u, {c} \ {c}, {})
      BY <1>0, ParqStateIs
    <2> QED BY SMTT(60), <1>0, <2>1, ParqStateIs
  <1>2. v = Authenticated(u, c)
    BY DEF ParqPassed
  <1> HIDE DEF u, v
  <1>3. AllSettled(u, {c})
    BY <1>1 DEF AllSettled
  <1>4. /\ Acceptable(u.conn[c])
        /\ u.conn[c].st # "AUTH_CIPH" => Settled(u.conn[c], u.sub.classmark)
    BY <1>1, ParqDone
  <1> QED BY <1>1, <1>2, <1>3, <1>4, AuthenticatedKeeps DEF v

(* _proc_arq_vlr_post_vlr() and the ones before it, once a required        *)
(* authentication has passed.                                              *)
LEMMA ParqPostVlrKeeps ==
  ASSUME NEW w \in WType, NEW c \in Conns, Pointers(w, {c}, {}), AllSettled(w, {c}),
         w.conn[c].st # "none", w.sub.parq_fsm = c,
         ParqMid(w.conn[c], w.sub.classmark),
         w.conn[c].st \in Establishing /\ AuthRequired(w.conn[c]) => w.conn[c].authed
  PROVE  LET v == ParqPostVlr(w, c)
         IN v \in WType /\ Pointers(v, {}, {}) /\ AllSettled(v, {})
  <1> DEFINE v == ParqPostVlr(w, c)
  <1>1. CASE w.sub.dataconf
    <2>1. v = ParqPassed(w, c)
      BY <1>1 DEF ParqPostVlr
    <2> HIDE DEF v
    <2> QED BY <2>1, ParqPassedKeeps DEF v
  <1>2. CASE ~w.sub.dataconf
    <2>1. v = ParqFailed(w, c)
      BY <1>2 DEF ParqPostVlr
    <2> HIDE DEF v
    <2>2. v \in WType /\ Pointers(v, {c} \ {c}, {}) /\ AllSettled(v, {c} \ {c})
      BY Zenon, <2>1, ParqFailedKeeps
    <2>3. {c} \ {c} = {}
      OBVIOUS
    <2> QED BY <2>2, <2>3 DEF v
  <1> QED BY <1>1, <1>2

(* A PARQ that goes on to wait.                                            *)
LEMMA ParqWaits ==
  ASSUME NEW w \in WType, NEW c \in Conns, Pointers(w, {c}, {}), AllSettled(w, {c}),
         w.conn[c].st # "none", w.sub.parq_fsm = c,
         ParqMid(w.conn[c], w.sub.classmark), NEW s \in ParqPending,
         s \in ParqPost /\ w.conn[c].st \in Establishing /\ AuthRequired(w.conn[c])
           => w.conn[c].authed
  PROVE  LET v == ParqState(w, c, s)
         IN /\ v \in WType /\ Pointers(v, {}, {}) /\ AllSettled(v, {})
            /\ v.conn[c].st = w.conn[c].st /\ v.sub = w.sub
  <1> DEFINE v == ParqState(w, c, s)
  <1>0. s \in ParqStates \ {"none"} /\ {c} \ {c} = {}
    BY DEF ParqStates, ParqPending
  <1>1. /\ v \in WType /\ v.sub = w.sub
        /\ \A d \in Conns \ {c} : v.conn[d] = w.conn[d]
        /\ Base(w.conn[c], v.conn[c]) /\ v.conn[c].parq = s
        /\ v.conn[c].lu = w.conn[c].lu
        /\ Pointers(v, {}, {})
    <2>1. Pointers(v, {c} \ {c}, {})
      BY <1>0, ParqStateIs
    <2> QED BY SMTT(30), <1>0, <2>1, ParqStateIs
  <1> HIDE DEF v
  <1>2. Settled(v.conn[c], v.sub.classmark)
    BY <1>1, ParqOn
  <1>3. AllSettled(v, {})
    BY <1>1, <1>2, SettleOne
  <1> QED BY <1>0, <1>1, <1>3 DEF v, Base

(* _proc_arq_vlr_node2_post_ciph().                                        *)
LEMMA ParqPostCiphKeeps ==
  ASSUME NEW w \in WType, NEW c \in Conns, Pointers(w, {c}, {}), AllSettled(w, {c}),
         w.conn[c].st # "none", w.sub.parq_fsm = c,
         ParqMid(w.conn[c], w.sub.classmark),
         w.conn[c].st \in Establishing /\ AuthRequired(w.conn[c]) => w.conn[c].authed
  PROVE  LET v == ParqPostCiph(w, c)
         IN v \in WType /\ Pointers(v, {}, {}) /\ AllSettled(v, {})
  <1> DEFINE v == ParqPostCiph(w, c)
  <1>1. CASE w.sub.loc_conf
    <2>1. v = ParqPostVlr(w, c)
      BY <1>1 DEF ParqPostCiph
    <2> HIDE DEF v
    <2> QED BY <2>1, ParqPostVlrKeeps DEF v
  <1>2. CASE ~w.sub.loc_conf
    <2>1. v = ParqState(w, c, "WAIT_UPD_LOC_CHILD")
      BY <1>2 DEF ParqPostCiph
    <2>2. "WAIT_UPD_LOC_CHILD" \in ParqPending
      BY DEF ParqPending
    <2> HIDE DEF v
    <2> QED BY SMTT(30), <2>1, <2>2, ParqWaits DEF v
  <1> QED BY <1>1, <1>2

(* _proc_arq_vlr_node2(): a cipher command may have to wait for the        *)
(* classmark, and then the PARQ is what waits.                             *)
LEMMA ParqNode2Keeps ==
  ASSUME NEW w \in WType, NEW c \in Conns, Pointers(w, {c}, {}), AllSettled(w, {c}),
         w.conn[c].st # "none", w.sub.parq_fsm = c,
         ParqMid(w.conn[c], w.sub.classmark),
         w.conn[c].st \in Establishing /\ AuthRequired(w.conn[c]) => w.conn[c].authed
  PROVE  LET v == ParqNode2(w, c)
         IN v \in WType /\ Pointers(v, {}, {}) /\ AllSettled(v, {})
  <1> DEFINE v == ParqNode2(w, c)
             go == ~CmcSmcAttempted(w.conn[c]) \/ (~w.sub.sec_ctx /\ ~Required)
             ci == w.sub.sec_ctx /\ CanCipher(w, c)
  <1>0. {c} \ {c} = {}
    OBVIOUS
  <1>1. CASE go
    <2>1. v = ParqPostCiph(w, c)
      BY <1>1 DEF ParqNode2
    <2> HIDE DEF v
    <2> QED BY <2>1, ParqPostCiphKeeps DEF v
  <1>2. CASE ~go /\ ci
    <2> DEFINE u == SetCipherMode(w, c)
    <2>1. v = ParqState(u, c, "WAIT_CIPH")
      BY <1>2 DEF ParqNode2
    <2>2. "WAIT_CIPH" \in ParqStates \ {"none"}
      BY DEF ParqStates, ParqPending
    <2>3. /\ u \in WType /\ u.sub = w.sub /\ Pointers(u, {c}, {})
          /\ \A d \in Conns \ {c} : u.conn[d] = w.conn[d]
          /\ Ciphered(w.conn[c], u.conn[c], w.sub.classmark)
      BY SetCipherModeIs
    <2> HIDE DEF u, v
    <2>4. u.conn[c].st # "none" /\ u.sub.parq_fsm = c
      BY <2>3 DEF Ciphered
    <2>5. /\ v \in WType /\ v.sub = u.sub /\ Pointers(v, {}, {})
          /\ \A d \in Conns \ {c} : v.conn[d] = u.conn[d]
          /\ Base(u.conn[c], v.conn[c]) /\ v.conn[c].parq = "WAIT_CIPH"
          /\ v.conn[c].lu = u.conn[c].lu
      BY SMTT(30), <2>1, <2>2, <2>3, <2>4, ParqStateOwn
    <2>6. Settled(v.conn[c], v.sub.classmark)
      BY <2>3, <2>5, ParqCiphered
    <2>7. AllSettled(v, {})
      <3>1. \A d \in Conns \ {c} : v.conn[d] = w.conn[d]
        BY <2>3, <2>5
      <3> QED BY <2>3, <2>5, <2>6, <3>1, SettleOne
    <2> QED BY <2>5, <2>7 DEF v
  <1>3. CASE ~go /\ ~ci
    <2>1. v = ParqFailed(w, c)
      BY <1>3 DEF ParqNode2
    <2> HIDE DEF v
    <2>2. v \in WType /\ Pointers(v, {c} \ {c}, {}) /\ AllSettled(v, {c} \ {c})
      BY Zenon, <2>1, ParqFailedKeeps
    <2> QED BY <1>0, <2>2 DEF v
  <1> HIDE DEF v
  <1> QED BY <1>1, <1>2, <1>3 DEF v

(* _proc_arq_vlr_post_imsi(): only what needs no authentication goes on.   *)
LEMMA ParqPostImsiKeeps ==
  ASSUME NEW w \in WType, NEW c \in Conns, Pointers(w, {c}, {}), AllSettled(w, {c}),
         w.conn[c].st # "none", w.sub.parq_fsm = c,
         ParqMid(w.conn[c], w.sub.classmark), NEW reuse \in BOOLEAN
  PROVE  LET v == ParqPostImsi(w, c, reuse)
         IN v \in WType /\ Pointers(v, {}, {}) /\ AllSettled(v, {})
  <1> DEFINE v == ParqPostImsi(w, c, reuse)
  <1>1. CASE NeedAuth(w, c, reuse)
    <2> DEFINE u == ParqState(w, c, "WAIT_AUTH")
    <2>1. v = StartAuth(u, c, "parq")
      BY <1>1 DEF ParqPostImsi
    <2>2. "WAIT_AUTH" \in ParqPending /\ "WAIT_AUTH" \notin ParqPost /\ "parq" \in Parents
      BY DEF ParqPending, Parents, ParqPost
    <2>3. /\ u \in WType /\ Pointers(u, {}, {}) /\ AllSettled(u, {})
          /\ u.conn[c].st = w.conn[c].st
      BY <2>2, ParqWaits
    <2> HIDE DEF u, v
    <2>4. u.conn[c].st # "none"
      BY <2>3
    <2>5. /\ v \in WType /\ v.sub.classmark = u.sub.classmark /\ Pointers(v, {}, {})
          /\ \A d \in Conns \ {c} : v.conn[d] = u.conn[d]
          /\ Base(u.conn[c], v.conn[c]) /\ v.conn[c].lu = u.conn[c].lu
          /\ v.conn[c].parq = u.conn[c].parq
      BY SMTT(30), <2>1, <2>2, <2>3, <2>4, StartAuthIs
    <2>6. Settled(v.conn[c], v.sub.classmark)
      <3>1. Settled(u.conn[c], v.sub.classmark)
        BY <2>3, <2>5 DEF AllSettled
      <3> QED BY <2>5, <3>1, BaseSettled
    <2>7. AllSettled(v, {})
      <3>1. AllSettled(u, {c})
        BY <2>3 DEF AllSettled
      <3> QED BY <2>5, <2>6, <3>1, SettleOne
    <2> QED BY <2>5, <2>7 DEF v
  <1>2. CASE ~NeedAuth(w, c, reuse)
    <2>1. v = ParqNode2(w, c) /\ ~AuthRequired(w.conn[c])
      BY <1>2 DEF ParqPostImsi, NeedAuth
    <2> HIDE DEF v
    <2> QED BY <2>1, ParqNode2Keeps DEF v
  <1> QED BY <1>1, <1>2
=============================================================================
