------------------------------- MODULE MmConn -------------------------------
(***************************************************************************)
(* The A and Iu connections of one subscriber: the msc_a FSM, the link     *)
(* between a connection and the VLR record (msub), Location Updating,      *)
(* access requests (PARQ) and the authentication sessions they start       *)
(* (msc_a.c, msub.c, gsm_04_08.c, paging.c, vlr_lu_fsm.c,                  *)
(* vlr_access_req_fsm.c, and what vlr.c does with their FSMs).             *)
(*                                                                         *)
(* A handler is an operator on w = [conn, sub], the connections and the    *)
(* VLR record; it performs the FSM dispatches that the event loop nests in *)
(* it, so each action is one message or timer.  Left out: the life of the  *)
(* record itself (VlrSubscr), the inside of an authentication session      *)
(* (VlrAuth), merging of identities, group call services, handover.        *)
(***************************************************************************)
EXTENDS Naturals, FiniteSets

CONSTANTS Conns,    \* the connections that can be open at the same time
          None,     \* no connection
          Configs,  \* the configurations to start from, see ConfigType
          MaxUse    \* bound on the uses of one kind per connection

Messages == {"LU", "CM", "PAG", "REEST", "DETACH"}

ConfigType == [auth : BOOLEAN,                   \* authentication required
               ciph : {"no", "may", "must"},     \* encryption a5 / uea
               tmsi : BOOLEAN,                   \* assign-tmsi
               imei : {"no", "early", "late"},   \* check-imei-rqd
               a5   : BOOLEAN,                   \* the MS has a permitted A5
               rans : SUBSET {"A", "Iu"},        \* the networks the MS uses
               first : SUBSET Messages,   \* what the MS opens a connection with
               late : SUBSET (Messages \ {"REEST"})]
                 \* what the MS sends on a connection it already has

ASSUME ConnAssumption ==
  /\ IsFiniteSet(Conns) /\ None \notin Conns
  /\ Configs \subseteq ConfigType /\ MaxUse \in Nat \ {0}

VARIABLES conn,   \* conn[c]: the msc_a, its msub's vsub, its VLR FSMs
          sub,    \* the VLR record
          cfg     \* the configuration, fixed at the start
vars == <<conn, sub, cfg>>

w0 == [conn |-> conn, sub |-> sub]

-----------------------------------------------------------------------------
(* State.                                                                  *)

Establishing == {"VALIDATE_L3", "AUTH_CIPH", "WAIT_CLASSMARK_UPDATE"}
Accepted == {"AUTHENTICATED", "COMMUNICATING"}
InRelease == {"RELEASING", "RELEASED"}
ConnStates == {"none"} \cup Establishing \cup Accepted \cup InRelease

LuStates == {"none", "WAIT_IMEISV", "WAIT_HLR_CHECK_IMEI_EARLY", "WAIT_AUTH",
             "WAIT_CIPH", "WAIT_HLR_UPD", "WAIT_IMEI", "WAIT_TMSI_CNF"}
ParqPending == {"WAIT_AUTH", "WAIT_CIPH", "WAIT_UPD_LOC_CHILD"}
ParqStates == {"none", "DONE"} \cup ParqPending

\* An authentication session is named by its connection and its parent: the
\* LU, the newest PARQ, or a PARQ that a newer one replaced.
Parents == {"lu", "parq", "old"}
AuthStates == {"none", "WAIT_AI", "WAIT_RESP"}

NoUse == [lu |-> 0, cm |-> 0, pag |-> 0, tr |-> 0, wcc |-> 0]

\* No connection, and what msc_a_alloc() and msub_alloc() start from: no FSM
\* children, no subscriber, nothing challenged, commanded or answered yet.
NoConn == [st |-> "none", ran |-> "A", l3 |-> "none", vsub |-> FALSE,
           lu |-> "none", parq |-> "none",
           auth |-> [k \in Parents |-> "none"],
           chal |-> FALSE, cmd |-> FALSE, authed |-> FALSE, use |-> NoUse]

Total(r) == r.use.lu + r.use.cm + r.use.pag + r.use.tr + r.use.wcc

LiveConns(w) == {c \in Conns : w.conn[c].st \notin InRelease \cup {"none"}}

Set(w, c, r) == [w EXCEPT !.conn[c] = r]
St(w, c, s) == [w EXCEPT !.conn[c].st = s]

Attempted == cfg.ciph # "no"
Required == cfg.ciph = "must"
AuthRequired(r) == r.ran = "Iu" \/ cfg.auth
\* is_cmc_smc_to_be_attempted()
CmcSmcAttempted(r) == r.ran = "Iu" \/ Attempted

-----------------------------------------------------------------------------
(* Release of connections, and the cancelling of VLR FSMs nested in it.    *)

\* Mutant: fsm_lu_cleanup() leaves vsub->lu_fsm.
MutEndLu(w, c) ==
  [w EXCEPT !.conn[c].lu = "none", !.conn[c].auth["lu"] = "none",
            !.sub.auth_fsm = IF w.conn[c].auth["lu"] # "none" THEN None ELSE @]

\* The end of an LU FSM with its authentication child: fsm_lu_cleanup() clears
\* the record's pointer if it is this LU's, auth_fsm_cleanup() always.
EndLu(w, c) ==
  [conn |-> [w.conn EXCEPT ![c].lu = "none", ![c].auth["lu"] = "none"],
   sub  |-> [w.sub EXCEPT !.lu_fsm = IF @ = c THEN None ELSE @,
                          !.auth_fsm = IF w.conn[c].auth["lu"] # "none"
                                         THEN None ELSE @]]

\* evaluate_acceptance_outcome(fi, false): when the connections C fail to be
\* established, the paging they answered has failed.
Evaluated(w, C) ==
  [w EXCEPT !.sub.is_paging =
     @ /\ \A c \in C : ~(/\ w.conn[c].vsub /\ w.conn[c].l3 = "PAG"
                         /\ w.conn[c].st \in Establishing)]

\* Mutant: LU expiry is not enabled again.
MutClose(w, C) ==
  [w EXCEPT !.conn = [c \in Conns |->
     IF c \in C THEN [w.conn[c] EXCEPT !.st = "RELEASING",
                        !.use = [NoUse EXCEPT !.wcc = 1]]
                ELSE w.conn[c]]]

\* msc_a_fsm_releasing_onenter() but for the cancelling, on the connections C:
\* calls and transactions are closed, the leftover uses cancelled and Clear
\* Complete awaited.
Close(w, C) ==
  [conn |-> [c \in Conns |->
               IF c \in C THEN [w.conn[c] EXCEPT !.st = "RELEASING",
                                  !.use = [NoUse EXCEPT !.wcc = 1]]
                          ELSE w.conn[c]],
   sub  |-> [w.sub EXCEPT !.expire_lu = IF \E c \in C : w.conn[c].vsub
                                          THEN "dated" ELSE @]]

\* The connection whose FSM is to fail when the session auth_fsm is terminated.
FailedParent(w) ==
  IF w.sub.auth_fsm = None THEN {}
  ELSE LET c == w.sub.auth_fsm[1]
           k == w.sub.auth_fsm[2]
       IN IF \/ k = "lu" /\ w.conn[c].lu = "WAIT_AUTH"
             \/ k = "parq" /\ w.conn[c].parq = "WAIT_AUTH"
            THEN {c} ELSE {}

\* vlr_subscr_cancel_attach_fsm(): the LU, then the PARQ, then the
\* authentication session that the record points to, whichever connection they
\* are of.  The parent of a session that is terminated fails.
CancelLu(w) == IF w.sub.lu_fsm = None THEN w ELSE EndLu(w, w.sub.lu_fsm)

\* Mutant: the PARQ is not cancelled.
MutCancelParq(w) == w

CancelParq(w) ==
  IF w.sub.parq_fsm # None /\ w.conn[w.sub.parq_fsm].parq \in ParqPending
    THEN [w EXCEPT !.conn[w.sub.parq_fsm].parq = "DONE"] ELSE w

CancelAuth(w) ==
  IF w.sub.auth_fsm = None THEN w
  ELSE LET c == w.sub.auth_fsm[1]
           k == w.sub.auth_fsm[2]
           ended == [w EXCEPT !.conn[c].auth[k] = "none", !.sub.auth_fsm = None]
       IN IF c \notin FailedParent(w) THEN ended
          ELSE IF k = "lu" THEN EndLu(ended, c)
          ELSE [ended EXCEPT !.conn[c].parq = "DONE"]

Cancelled(w) == CancelAuth(CancelParq(CancelLu(w)))

\* Mutant: the cancelled FSMs do not tell their connections.
MutCancelHits(w) == {}

\* The connections that CN_CLOSE reaches while the FSMs are cancelled.
CancelHits(w) ==
  LET w1 == CancelLu(w)
      w2 == CancelParq(w1)
  IN (({w.sub.lu_fsm} \ {None})
        \cup {c \in Conns : w2.conn[c].parq # w1.conn[c].parq}
        \cup FailedParent(w2)) \cap LiveConns(w)

CancelAttachFsm(w) ==
  LET hits == CancelHits(w) IN Close(Evaluated(Cancelled(w), hits), hits)

\* Entering RELEASING.
Release(w, c) ==
  LET hits == CancelHits(w) \ {c}
  IN IF w.conn[c].vsub THEN Close(Evaluated(Cancelled(w), hits), hits \cup {c})
                       ELSE Close(w, {c})

\* MSC_A_EV_CN_CLOSE and MSC_A_EV_MO_CLOSE.
CnClose(w, c) ==
  IF c \in LiveConns(w) THEN Release(Evaluated(w, {c}), c) ELSE w

\* Mutant: AUTHENTICATED does not take MSC_A_EV_UNUSED.
MutUnused(w, c) ==
  IF /\ w.conn[c].st \in {"VALIDATE_L3", "AUTH_CIPH", "COMMUNICATING"}
     /\ Total(w.conn[c]) = 0
    THEN Release(w, c) ELSE w

\* MSC_A_EV_UNUSED at the end of a handler that used c, or of its last use.
\* WAIT_CLASSMARK_UPDATE does not take the event.
Unused(w, c) ==
  IF /\ w.conn[c].st \in {"VALIDATE_L3", "AUTH_CIPH"} \cup Accepted
     /\ Total(w.conn[c]) = 0
    THEN Release(w, c) ELSE w

\* The end of msc_a and its msub: the FSM children end without telling their
\* parent, the record forgets this connection.  (A reference to a connection
\* that is gone finds nothing: msc_a_from_conn_ref().)
Term(w, c) ==
  LET r == w.conn[c]
      forget(p) == IF p = c THEN None ELSE p
  IN [conn |-> [w.conn EXCEPT ![c] = NoConn],
      sub  |-> [w.sub EXCEPT
                  !.lu_fsm = forget(@), !.parq_fsm = forget(@),
                  !.auth_fsm = IF \E k \in Parents : r.auth[k] # "none"
                                 THEN None ELSE @,
                  !.msc_conn_ref = forget(@),
                  !.msc_msub = IF r.vsub THEN forget(@) ELSE @]]

\* Entering RELEASED: with no use left the connection ends.
Released(w, c) ==
  LET w1 == [w EXCEPT !.conn[c].st = "RELEASED", !.conn[c].use.wcc = 0]
  IN IF Total(w1.conn[c]) = 0 THEN Term(w1, c) ELSE w1

-----------------------------------------------------------------------------
(* Acceptance of a connection, and its link with the record.               *)

\* What evaluate_acceptance_outcome(fi, true) does to the uses: the request that
\* paged takes the place of the page, an LU is over.
AcceptedUse(r, paged) ==
  CASE r.l3 = "PAG" -> [r.use EXCEPT !.pag = @ - 1,
                                     !.tr = IF paged THEN @ + 1 ELSE @]
    [] r.l3 = "LU"  -> [r.use EXCEPT !.lu = @ - 1]
    [] OTHER        -> r.use

\* MSC_A_EV_AUTHENTICATED, in AUTH_CIPH only: LU expiry is suspended and the
\* outcome evaluated.  A paged or a re-established call makes the connection
\* COMMUNICATING at once.
Authenticated(w, c) ==
  LET r == w.conn[c]
      paged == r.l3 = "PAG" /\ w.sub.is_paging
      st == IF paged \/ r.l3 = "REEST" THEN "COMMUNICATING" ELSE "AUTHENTICATED"
      sub1 == [w.sub EXCEPT
                 !.expire_lu = IF w.sub.lu_complete THEN "never" ELSE @,
                 !.is_paging = @ /\ ~paged]
  IN IF r.st # "AUTH_CIPH" THEN w
     ELSE IF ~r.vsub THEN Unused(St(w, c, "AUTHENTICATED"), c)
     ELSE Unused([conn |-> [w.conn EXCEPT ![c].st = st,
                                          ![c].use = AcceptedUse(r, paged)],
                  sub |-> sub1], c)

\* msub_set_vsub(): the connection that has the subscriber is replaced when it
\* is in release, on Iu, or the new one is for an LU.  It loses the subscriber
\* before it is released.
Replaces(w, c) ==
  LET o == w.sub.msc_msub
  IN \/ o \in {None, c}
     \/ w.conn[o].st \in InRelease
     \/ w.conn[o].ran = "Iu"
     \/ w.conn[c].l3 = "LU"

SetVsub(w, c) ==
  LET o == w.sub.msc_msub
      w1 == IF o \in {None, c} THEN w
            ELSE CnClose([w EXCEPT !.conn[o].vsub = FALSE,
                                   !.sub.msc_msub = IF w.conn[o].vsub
                                                      THEN None ELSE @], o)
  IN IF w.conn[c].vsub \/ ~Replaces(w, c) THEN w
     ELSE [w1 EXCEPT !.conn[c].vsub = TRUE, !.sub.msc_msub = c]

Associable(w, c) == w.conn[c].vsub \/ Replaces(w, c)

\* msc_vlr_subscr_assoc() when it does not fail: MSC_A_EV_COMPLETE_LAYER_3_OK
\* takes VALIDATE_L3 to AUTH_CIPH.
Assoc(w, c) ==
  LET w1 == SetVsub(w, c)
  IN IF w1.conn[c].st = "VALIDATE_L3" THEN St(w1, c, "AUTH_CIPH") ELSE w1

\* auth_fsm_start(): the record points to the new session.  Tuples that the
\* record still has are an answer of the HLR that comes at once.
StartAuth(w, c, k) ==
  [w EXCEPT !.conn[c].auth[k] = "WAIT_AI", !.sub.auth_fsm = <<c, k>>]

\* msc_a_vlr_set_cipher_mode(): on A the classmark may have to be asked for.
NeedClassmark(w, c) == w.conn[c].ran = "A" /\ ~w.sub.classmark

CanCipher(w, c) ==
  /\ w.conn[c].vsub /\ w.sub.last_tuple
  /\ NeedClassmark(w, c) \/ cfg.a5

SetCipherMode(w, c) ==
  IF ~NeedClassmark(w, c) THEN [w EXCEPT !.conn[c].cmd = TRUE]
  ELSE IF w.conn[c].st = "AUTH_CIPH" THEN St(w, c, "WAIT_CLASSMARK_UPDATE")
  ELSE w

-----------------------------------------------------------------------------
(* Location Updating (vlr_lu_fsm.c).                                       *)

\* lu_fsm_failure(), and a timeout of the LU FSM or its children.
LuFailure(w, c) == CnClose(EndLu(w, c), c)

\* vlr_lu_compl_fsm_success() and lu_fsm_success().
LuSuccess(w, c) ==
  Authenticated(EndLu([w EXCEPT !.sub.lu_complete = TRUE], c), c)

LuState(w, c, s) == [w EXCEPT !.conn[c].lu = s]

\* vlr_loc_upd_post_auth(): cipher, or go on to the HLR.
LuPostAuth(w, c) ==
  IF ~CmcSmcAttempted(w.conn[c]) \/ (~w.sub.sec_ctx /\ ~Required)
    THEN LuState(w, c, "WAIT_HLR_UPD")
  ELSE IF w.sub.sec_ctx /\ CanCipher(w, c)
    THEN LuState(SetCipherMode(w, c), c, "WAIT_CIPH")
  ELSE LuFailure(w, c)

\* Mutant: a key that can be reused stands for a required authentication.
MutNeedAuth(w, c, reuse) == (AuthRequired(w.conn[c]) \/ Attempted) /\ ~reuse

\* vlr_loc_upd_node1(); reuse says whether auth_try_reuse_tuple() finds the
\* tuple of the key the MS announced.
NeedAuth(w, c, reuse) == AuthRequired(w.conn[c]) \/ (Attempted /\ ~reuse)

LuNode1(w, c, reuse) ==
  IF NeedAuth(w, c, reuse)
    THEN StartAuth(LuState(w, c, "WAIT_AUTH"), c, "lu") ELSE LuPostAuth(w, c)

\* lu_compl_vlr_wait_subscr_pres(), lu_compl_vlr_wait_imei(): after the IMEI.
LuPostImei(w, c) ==
  IF cfg.tmsi THEN LuState(w, c, "WAIT_TMSI_CNF") ELSE LuSuccess(w, c)

\* _lu_fsm_associate_vsub() and lu_fsm_idle(): an LU in progress is replaced.
LuStart(w, c, reuse) ==
  LET old == w.sub.lu_fsm
      w1 == IF old = None THEN w ELSE LuFailure(w, old)
      w2 == [w1 EXCEPT !.sub.lu_fsm = c, !.sub.dataconf = FALSE,
                       !.conn[c].lu = "WAIT_IMEISV"]
      w3 == [Assoc(w2, c) EXCEPT !.sub.msc_conn_ref = c]
  IN IF cfg.imei = "early" THEN w3 ELSE LuNode1(w3, c, reuse)

-----------------------------------------------------------------------------
(* Access requests (vlr_access_req_fsm.c).                                 *)

ParqState(w, c, s) == [w EXCEPT !.conn[c].parq = s]

\* proc_arq_fsm_done() and proc_arq_vlr_dispatch_result().
ParqFailed(w, c) == CnClose(ParqState(w, c, "DONE"), c)
ParqPassed(w, c) == Authenticated(ParqState(w, c, "DONE"), c)

ParqPostVlr(w, c) ==
  IF w.sub.dataconf THEN ParqPassed(w, c) ELSE ParqFailed(w, c)

ParqPostCiph(w, c) ==
  IF w.sub.loc_conf THEN ParqPostVlr(w, c)
                    ELSE ParqState(w, c, "WAIT_UPD_LOC_CHILD")

ParqNode2(w, c) ==
  IF ~CmcSmcAttempted(w.conn[c]) \/ (~w.sub.sec_ctx /\ ~Required)
    THEN ParqPostCiph(w, c)
  ELSE IF w.sub.sec_ctx /\ CanCipher(w, c)
    THEN ParqState(SetCipherMode(w, c), c, "WAIT_CIPH")
  ELSE ParqFailed(w, c)

ParqPostImsi(w, c, reuse) ==
  IF NeedAuth(w, c, reuse)
    THEN StartAuth(ParqState(w, c, "WAIT_AUTH"), c, "parq") ELSE ParqNode2(w, c)

\* A newer PARQ of the same connection leaves the session of the older one.
Orphan(w, c) ==
  IF w.conn[c].auth["parq"] = "none" THEN w
  ELSE [w EXCEPT
          !.conn[c].auth = [@ EXCEPT !["old"] = w.conn[c].auth["parq"],
                                     !["parq"] = "none"],
          !.sub.auth_fsm = IF @ = <<c, "parq">> THEN <<c, "old">> ELSE @]

\* proc_arq_vlr_fn_init(): a PARQ in progress is failed, and the record points
\* to this PARQ and its connection before the connection is associated.
ParqStart(w, c, reuse) ==
  LET old == w.sub.parq_fsm
      w1 == IF old # None /\ w.conn[old].parq \in ParqPending
              THEN ParqFailed(w, old) ELSE w
      w2 == [Orphan(w1, c) EXCEPT !.sub.parq_fsm = c, !.sub.msc_conn_ref = c]
  IN IF Associable(w2, c) THEN ParqPostImsi(Assoc(w2, c), c, reuse)
                          ELSE ParqFailed(w2, c)

\* The same for an identity the VLR does not know.
ParqUnknown(w, c) ==
  CnClose(IF w.conn[c].parq = "none" THEN ParqState(w, c, "DONE") ELSE w, c)

-----------------------------------------------------------------------------
(* The end of an authentication session.                                   *)

\* auth_fsm_term(): the record's pointer is cleared, whatever it points to,
\* and the parent goes on if it still waits.
AuthEnd(w, c, k, result) ==
  LET r == w.conn[c]
      w1 == [w EXCEPT !.conn[c].auth[k] = "none", !.sub.auth_fsm = None]
      luOk == result = "passed" \/ (result = "no_info" /\ ~AuthRequired(r) /\ ~Required)
      parqOk == result = "passed" \/ (result = "no_info" /\ ~AuthRequired(r))
  IN CASE k = "lu" /\ r.lu = "WAIT_AUTH" ->
            IF luOk THEN LuPostAuth(w1, c) ELSE LuFailure(w1, c)
       [] k = "parq" /\ r.parq = "WAIT_AUTH" ->
            IF parqOk THEN ParqNode2(w1, c) ELSE ParqFailed(w1, c)
       [] OTHER -> w1

-----------------------------------------------------------------------------
(* Messages of the MS.                                                     *)

\* mm_rx_loc_upd_req()
RxLocUpdReq(w, c, reuse) ==
  IF w.conn[c].st \in {"AUTH_CIPH"} \cup Accepted THEN w
  ELSE LuStart([w EXCEPT !.conn[c].l3 = "LU", !.conn[c].use.lu = @ + 1], c, reuse)

\* gsm48_rx_mm_serv_req(): on an accepted connection the service is added, or
\* refused when the identity is another one.
RxServReq(w, c, known, reuse) ==
  LET w1 == [w EXCEPT !.conn[c].l3 = "CM", !.conn[c].use.cm = @ + 1]
  IN CASE w.conn[c].st = "AUTH_CIPH" -> w
       [] w.conn[c].st \in Accepted ->
            IF known THEN w1 ELSE [w EXCEPT !.conn[c].l3 = "CM"]
       [] OTHER -> IF known THEN ParqStart(w1, c, reuse) ELSE ParqUnknown(w1, c)

\* Mutant: the use is put although a forced release has removed it.
MutRxPagResp(w, c, known, reuse) ==
  LET w1 == [w EXCEPT !.conn[c].l3 = "PAG", !.conn[c].use.pag = @ + 1]
      w2 == IF known THEN ParqStart(w1, c, reuse) ELSE ParqUnknown(w1, c)
  IN IF w.conn[c].st \in {"AUTH_CIPH"} \cup Accepted THEN w
     ELSE IF w2.conn[c].vsub THEN w2
     ELSE [w2 EXCEPT !.conn[c].use.pag = @ - 1]

\* gsm48_rx_rr_pag_resp()
RxPagResp(w, c, known, reuse) ==
  LET w1 == [w EXCEPT !.conn[c].l3 = "PAG", !.conn[c].use.pag = @ + 1]
      w2 == IF known THEN ParqStart(w1, c, reuse) ELSE ParqUnknown(w1, c)
  IN IF w.conn[c].st \in {"AUTH_CIPH"} \cup Accepted THEN w
     ELSE IF w2.conn[c].vsub \/ w2.conn[c].use.pag = 0 THEN w2
     ELSE [w2 EXCEPT !.conn[c].use.pag = @ - 1]

\* osmo_fsm_inst_term() of the record's PARQ: its session ends with it, and
\* its connection is closed.
TermParq(w) ==
  LET p == w.sub.parq_fsm
      r == w.conn[p]
  IN IF p = None THEN w
     ELSE CnClose([conn |-> [w.conn EXCEPT ![p].parq = "none",
                                           ![p].auth["parq"] = "none"],
                   sub |-> [w.sub EXCEPT !.parq_fsm = None,
                              !.auth_fsm = IF r.auth["parq"] # "none"
                                             THEN None ELSE @]], p)

\* gsm48_rx_cm_reest_req() with the call of the previous connection: the call
\* moves, the previous PARQ ends, the subscriber is taken off the previous
\* connection and that is released.  Without one the request is refused.
RxCmReestReq(w, c, call, reuse) ==
  LET prev == w.sub.msc_msub
      w1 == [w EXCEPT !.conn[c].l3 = "REEST"]
      w2 == [w1 EXCEPT !.conn[c].use.tr = 1, !.conn[prev].use.tr = @ - 1]
      w3 == [TermParq(w2) EXCEPT !.conn[prev].vsub = FALSE]
  IN IF ~call \/ prev = None THEN w1
     ELSE ParqStart(CnClose(w3, prev), c, reuse)

\* vlr_subscr_detach(), as far as connections are concerned.
SubDetach(w) ==
  LET w1 == CancelAttachFsm(w)
  IN [w1 EXCEPT !.sub.lu_complete = FALSE, !.sub.expire_lu = "dated"]

\* gsm48_rx_mm_imsi_detach_ind()
RxImsiDetachInd(w, c) ==
  CnClose(SubDetach([SetVsub(w, c) EXCEPT !.sub.is_paging = FALSE]), c)

\* msc_a_up_l3(): what each message does to the connection it came on.
UpL3(w, c, m, known, reuse) ==
  CASE m = "LU"     -> RxLocUpdReq(w, c, reuse)
    [] m = "CM"     -> RxServReq(w, c, known, reuse)
    [] m = "PAG"    -> RxPagResp(w, c, known, reuse)
    [] m = "REEST"  -> RxCmReestReq(w, c, known, reuse)
    [] m = "DETACH" -> IF known THEN RxImsiDetachInd(w, c) ELSE CnClose(w, c)

-----------------------------------------------------------------------------
(* Actions.  A handler ends with the put of the use it held on c.          *)

Become(w) == conn' = w.conn /\ sub' = w.sub /\ UNCHANGED cfg
BecomeUsed(w, c) == Become(Unused(w, c))

Reuses == {reuse \in BOOLEAN : reuse => sub.last_tuple}

\* Whether the identity is known; for a re-establishment, whether the
\* connection it is about has a call.
Knowns(m) == CASE m = "LU" -> {TRUE}
               [] m = "REEST" -> {call \in BOOLEAN : call =>
                    sub.msc_msub # None /\ conn[sub.msc_msub].use.tr > 0}
               [] OTHER -> BOOLEAN

\* Complete Layer 3: a new connection with its first message.
Open(c) ==
  \E ran \in cfg.rans, m \in cfg.first, reuse \in Reuses : \E known \in Knowns(m) :
    LET r == [NoConn EXCEPT !.st = "VALIDATE_L3", !.ran = ran]
    IN /\ conn[c].st = "none"
       /\ BecomeUsed(UpL3(Set(w0, c, r), c, m, known, reuse), c)

\* A message on a connection that exists, also one that crosses its release.
LateL3(c) ==
  \E m \in cfg.late, reuse \in Reuses : \E known \in Knowns(m) :
    /\ conn[c].st \notin {"none", "RELEASED"}
    /\ m = "LU" => conn[c].use.lu < MaxUse
    /\ m = "CM" => conn[c].use.cm < MaxUse
    /\ m = "PAG" => conn[c].use.pag < MaxUse
    /\ BecomeUsed(UpL3(w0, c, m, known, reuse), c)

\* AUTHENTICATION RESPONSE or FAILURE on a connection that was challenged: it
\* goes to the session that the record points to.
RxAuthResp(c, right) ==
  LET a == sub.auth_fsm
      w1 == [w0 EXCEPT !.conn[c].chal = FALSE, !.conn[c].authed = @ \/ right,
                       !.sub.sec_ctx = right]
  IN /\ conn[c].vsub /\ conn[c].chal /\ conn[c].st # "RELEASED"
     /\ IF a = None \/ conn[a[1]].auth[a[2]] # "WAIT_RESP"
          THEN Become([w0 EXCEPT !.conn[c].chal = FALSE])
          ELSE BecomeUsed(AuthEnd(w1, a[1], a[2],
                                  IF right THEN "passed" ELSE "failed"), c)

\* ID RESPONSE with the IMEI or IMEISV, TMSI REALLOCATION COMPLETE: they go to
\* the LU that the record points to.
RxIdRespImeisv(c) ==
  LET l == sub.lu_fsm
  IN /\ conn[c].vsub /\ conn[c].st # "RELEASED" /\ l # None
     /\ conn[l].lu = "WAIT_IMEISV"
     /\ BecomeUsed(LuState(w0, l, "WAIT_HLR_CHECK_IMEI_EARLY"), c)

RxTmsiReallocCompl(c) ==
  LET l == sub.lu_fsm
  IN /\ conn[c].vsub /\ conn[c].st # "RELEASED" /\ l # None
     /\ conn[l].lu = "WAIT_TMSI_CNF"
     /\ BecomeUsed(LuSuccess(w0, l), c)

-----------------------------------------------------------------------------
(* Messages of the RAN.                                                    *)

\* vlr_subscr_rx_ciph_res(): the LU and the PARQ of the record, if they wait.
CiphResLu(w, ok) ==
  LET l == w.sub.lu_fsm
  IN IF l = None THEN w
     ELSE IF w.conn[l].lu # "WAIT_CIPH" THEN w
     ELSE IF ok THEN LuState(w, l, "WAIT_HLR_UPD") ELSE LuFailure(w, l)

CiphResParq(w, ok) ==
  LET p == w.sub.parq_fsm
  IN IF p = None THEN w
     ELSE IF w.conn[p].parq # "WAIT_CIPH" THEN w
     ELSE IF ok THEN ParqPostCiph(w, p) ELSE ParqFailed(w, p)

CipherModeResult(c, ok) ==
  /\ conn[c].cmd /\ conn[c].st # "RELEASED"
  /\ LET w1 == [w0 EXCEPT !.conn[c].cmd = FALSE]
     IN BecomeUsed(IF conn[c].vsub THEN CiphResParq(CiphResLu(w1, ok), ok)
                                   ELSE w1, c)

\* msc_a_up_classmark_update(): the awaited Cipher Mode Command, or release.
ClassmarkUpdate(c) ==
  LET w1 == [w0 EXCEPT !.sub.classmark = @ \/ conn[c].vsub]
      w2 == St(w1, c, "AUTH_CIPH")
      sent == conn[c].vsub /\ sub.last_tuple /\ cfg.a5
  IN /\ conn[c].st = "WAIT_CLASSMARK_UPDATE"
     /\ BecomeUsed(IF sent THEN [w2 EXCEPT !.conn[c].cmd = TRUE]
                           ELSE Release(w2, c), c)

ClearRequest(c) == c \in LiveConns(w0) /\ Become(CnClose(w0, c))

ClearComplete(c) ==
  \/ conn[c].st = "RELEASING" /\ Become(Released(w0, c))
  \/ c \in LiveConns(w0) /\ Become(Release(w0, c))

-----------------------------------------------------------------------------
(* Messages of the HLR; they find the record by its IMSI.                  *)

\* vlr_subscr_handle_sai_res(): with tuples the challenge is sent on the
\* connection that the record refers to, if that is not in release.
SendAuthInfoResult(ok) ==
  /\ sub.auth_fsm # None
  /\ LET c == sub.auth_fsm[1]
         k == sub.auth_fsm[2]
         w1 == [w0 EXCEPT !.conn[c].auth[k] = "WAIT_RESP",
                          !.sub.last_tuple = TRUE]
         to == {sub.msc_conn_ref} \cap LiveConns(w0)
     IN /\ conn[c].auth[k] = "WAIT_AI"
        /\ Become(CASE ok = "tuples" ->
                         [w1 EXCEPT !.conn = [d \in Conns |-> IF d \in to
                             THEN [w1.conn[d] EXCEPT !.chal = TRUE]
                             ELSE w1.conn[d]]]
                    [] OTHER -> AuthEnd(w0, c, k, ok))

\* vlr_subscr_handle_lu_res(), vlr_subscr_handle_lu_err(): only an LU is told.
UpdateLocationResult(ok) ==
  LET l == sub.lu_fsm
      w1 == [w0 EXCEPT !.sub.dataconf = ok, !.sub.loc_conf = ok]
  IN /\ l # None /\ conn[l].lu = "WAIT_HLR_UPD"
     /\ Become(IF ~ok THEN LuFailure(w1, l)
               ELSE IF cfg.imei = "late" THEN LuState(w1, l, "WAIT_IMEI")
               ELSE LuPostImei(w1, l))

\* vlr_subscr_handle_check_imei()
CheckImeiResult(ok) ==
  \E reuse \in Reuses :
    LET l == sub.lu_fsm
    IN /\ l # None
       /\ conn[l].lu \in {"WAIT_HLR_CHECK_IMEI_EARLY", "WAIT_IMEI"}
       /\ Become(IF ~ok THEN LuFailure(w0, l)
                 ELSE IF conn[l].lu = "WAIT_IMEI" THEN LuPostImei(w0, l)
                 ELSE LuNode1(w0, l, reuse))

\* vlr_subscr_handle_cancel_req(), and a sweep that finds the record due.
CancelLocation == Become(SubDetach(w0))
ExpireLu == sub.expire_lu = "dated" /\ Become(SubDetach(w0))

-----------------------------------------------------------------------------
(* Timers.                                                                 *)

\* Mutant: WAIT_CLASSMARK_UPDATE does not keep the timer.
MutTimerX1(c) ==
  /\ conn[c].st \in {"AUTH_CIPH", "AUTHENTICATED"}
  /\ Become(CnClose(w0, c))

\* X1 while the connection is being established or has no transaction, then
\* X2 for each step of the release.
TimerX1(c) ==
  /\ conn[c].st \in Establishing \cup {"AUTHENTICATED"}
  /\ Become(CnClose(w0, c))

TimerX2(c) ==
  \/ conn[c].st = "RELEASING" /\ Become(Released(w0, c))
  \/ conn[c].st = "RELEASED" /\ Become(Term(w0, c))

MscATimer(c) == TimerX1(c) \/ TimerX2(c)

AuthTimeout(c, k) ==
  conn[c].auth[k] # "none" /\ Become(AuthEnd(w0, c, k, "failed"))

\* fsm_lu_timer_cb(), lu_compl_vlr_timeout() and the timer of upd_hlr_vlr_fsm.
LuTimeout(c) == conn[c].lu # "none" /\ Become(LuFailure(w0, c))

\* The timer of a PARQ's upd_hlr_vlr_fsm counts as its result.
UpdLocTimeout(c) ==
  conn[c].parq = "WAIT_UPD_LOC_CHILD" /\ Become(ParqPostVlr(w0, c))

PagingTimeout == sub.is_paging /\ Become([w0 EXCEPT !.sub.is_paging = FALSE])

-----------------------------------------------------------------------------
(* Transactions.                                                           *)

AddTrans(w, c) == [w EXCEPT !.conn[c].st = "COMMUNICATING",
                            !.conn[c].use.tr = @ + 1]

\* The service that a CM Service Request asked for.
MoTrans(c) ==
  /\ conn[c].st \in Accepted /\ conn[c].use.cm > 0 /\ conn[c].use.tr < MaxUse
  /\ Become([AddTrans(w0, c) EXCEPT !.conn[c].use.cm = @ - 1])

\* An MT call or SMS: on the subscriber's accepted connection, else by paging.
MtRequest ==
  LET valid == {c \in Conns : conn[c].vsub /\ conn[c].st \in Accepted}
  IN \/ \E c \in valid : conn[c].use.tr < MaxUse /\ Become(AddTrans(w0, c))
     \/ /\ valid = {} /\ ~sub.is_paging
        /\ Become([w0 EXCEPT !.sub.is_paging = TRUE])

TransDone(c) ==
  /\ conn[c].use.tr > 0
  /\ BecomeUsed([w0 EXCEPT !.conn[c].use.tr = @ - 1], c)

-----------------------------------------------------------------------------
Init ==
  /\ cfg \in Configs
  /\ conn = [c \in Conns |-> NoConn]
  /\ \E attached \in BOOLEAN :
       sub = [lu_fsm |-> None, parq_fsm |-> None, auth_fsm |-> None,
              msc_conn_ref |-> None, msc_msub |-> None,
              lu_complete |-> attached, loc_conf |-> attached,
              dataconf |-> attached, expire_lu |-> "dated",
              sec_ctx |-> FALSE, last_tuple |-> FALSE, classmark |-> FALSE,
              is_paging |-> FALSE]

FromMs(c) ==
  \/ Open(c) \/ LateL3(c) \/ RxIdRespImeisv(c) \/ RxTmsiReallocCompl(c)
  \/ \E right \in BOOLEAN : RxAuthResp(c, right)

FromRan(c) ==
  \/ ClassmarkUpdate(c) \/ ClearRequest(c) \/ ClearComplete(c)
  \/ \E ok \in BOOLEAN : CipherModeResult(c, ok)

FromHlr ==
  \/ \E ok \in {"tuples", "no_info", "failed"} : SendAuthInfoResult(ok)
  \/ \E ok \in BOOLEAN : UpdateLocationResult(ok) \/ CheckImeiResult(ok)
  \/ CancelLocation \/ ExpireLu

Timers(c) ==
  \/ MscATimer(c) \/ LuTimeout(c) \/ UpdLocTimeout(c)
  \/ \E k \in Parents : AuthTimeout(c, k)

Next ==
  \/ \E c \in Conns : FromMs(c) \/ FromRan(c) \/ Timers(c) \/ MoTrans(c) \/ TransDone(c)
  \/ FromHlr \/ PagingTimeout \/ MtRequest

Spec == Init /\ [][Next]_vars

\* The event loop runs the timer of a connection's FSM when it is due.
FairSpec == Spec /\ \A c \in Conns : WF_vars(MscATimer(c))

-----------------------------------------------------------------------------
(* Properties.                                                             *)

\* The connections, their uses and the record keep their types: no use is put
\* more often than it was taken (msc_a_use_cb()).
TypeOK ==
  /\ cfg \in Configs
  /\ conn \in [Conns ->
       [st : ConnStates, ran : {"A", "Iu"}, l3 : {"none"} \cup Messages,
        vsub : BOOLEAN, lu : LuStates, parq : ParqStates,
        auth : [Parents -> AuthStates],
        chal : BOOLEAN, cmd : BOOLEAN, authed : BOOLEAN,
        use : [lu : 0..MaxUse, cm : 0..MaxUse, pag : 0..MaxUse,
               tr : 0..MaxUse, wcc : 0..1]]]
  /\ sub \in [lu_fsm : Conns \cup {None}, parq_fsm : Conns \cup {None},
              auth_fsm : (Conns \X Parents) \cup {None},
              msc_conn_ref : Conns \cup {None}, msc_msub : Conns \cup {None},
              lu_complete : BOOLEAN, loc_conf : BOOLEAN, dataconf : BOOLEAN,
              expire_lu : {"never", "dated"}, sec_ctx : BOOLEAN,
              last_tuple : BOOLEAN, classmark : BOOLEAN, is_paging : BOOLEAN]

\* The record and the connections agree on who is at work: lu_fsm, proc_arq_fsm
\* and auth_fsm never point to an FSM that has ended, across three cleanup
\* functions, callers that overwrite the pointers and replaced connections; an
\* LU that runs is the one the record points to, so that HLR answers reach it;
\* and msub->vsub and vsub->msc_msub point to each other (msub_set_vsub(), and
\* gsm48_rx_cm_reest_req() which clears one of the two by hand).
PointersAgree ==
  /\ sub.lu_fsm # None => conn[sub.lu_fsm].lu # "none"
  /\ sub.parq_fsm # None => conn[sub.parq_fsm].parq # "none"
  /\ sub.auth_fsm # None => conn[sub.auth_fsm[1]].auth[sub.auth_fsm[2]] # "none"
  /\ \A c \in Conns : conn[c].lu # "none" => sub.lu_fsm = c
  /\ \A c \in Conns : conn[c].vsub <=> sub.msc_msub = c

\* A connection that is being established has its subscriber and a procedure
\* that will decide on it: no cancel, replacement or failure of a procedure
\* leaves the connection in AUTH_CIPH without one.
DecisionPending ==
  \A c \in Conns : conn[c].st \in Establishing =>
    conn[c].vsub /\ (conn[c].lu # "none" \/ conn[c].parq \in ParqPending)

\* An accepted connection has its subscriber, and where authentication is
\* required the MS on this very connection has answered a challenge right,
\* although challenges go to msc_conn_ref and answers to auth_fsm.
AcceptedAuthenticated ==
  \A c \in Conns : conn[c].st \in Accepted =>
    conn[c].vsub /\ (AuthRequired(conn[c]) => conn[c].authed)

\* LU expiry is suspended only while the subscriber has a connection that is
\* not in release; "The LU expiry timer will restart once the connection is
\* closed" (msc_a_fsm_authenticated_enter()), replacements included.
ExpiryResumes ==
  sub.expire_lu = "never" =>
    \E c \in Conns : conn[c].vsub /\ c \in LiveConns(w0)

\* A connection that is not in release is in use, and in COMMUNICATING, which no
\* timer watches, by a transaction or for the one its CM Service Request was
\* accepted for: so the last put has released it.  Two exceptions come from
\* WAIT_CLASSMARK_UPDATE, which does not take MSC_A_EV_UNUSED: a call that ends
\* during its re-establishment leaves an unused connection until X1, and a CM
\* Service Request taken while it holds up an LU or a page makes
\* evaluate_acceptance_outcome() leave their use behind.
LiveIsUsed ==
  \A c \in LiveConns(w0) :
    /\ Total(conn[c]) = 0 => conn[c].st = "WAIT_CLASSMARK_UPDATE"
    /\ conn[c].st = "COMMUNICATING" =>
         \/ conn[c].use.tr + conn[c].use.cm > 0
         \/ conn[c].l3 = "CM" /\ conn[c].use.lu + conn[c].use.pag > 0

\* The release of a connection that has the subscriber leaves none of its VLR
\* FSMs at work ("Cancel all VLR FSMs, if any", msc_a_fsm_releasing_onenter()),
\* but for an access request of a CM Service Request that crossed the release.
ReleaseCancels ==
  \A c \in Conns : conn[c].st \in InRelease /\ conn[c].vsub =>
    /\ conn[c].lu = "none"
    /\ cfg.late = {} => conn[c].parq \notin ParqPending

\* Every LU and access request ends, although a PARQ has no timer and the HLR's
\* answer to its update is not handed to it: X1 and X2 of its connection do it.
ProcedureEnds ==
  \A c \in Conns :
    (conn[c].lu # "none" \/ conn[c].parq \in ParqPending)
      ~> (conn[c].lu = "none" /\ conn[c].parq \notin ParqPending)
=============================================================================
