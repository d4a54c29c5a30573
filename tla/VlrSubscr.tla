------------------------------ MODULE VlrSubscr ------------------------------
(***************************************************************************)
(* The life of a VLR subscriber record (struct vlr_subscr) that attaches   *)
(* through an MME: its use counts, the SGs-UE association FSM, SGs paging  *)
(* (Ts5) and the MSC's paging requests, SGs connections, the LU expiry     *)
(* sweep, the HLR's answers and the loss of the GSUP link.                 *)
(*                                                                         *)
(* A handler is an operator on the record that performs its assignments,   *)
(* gets and puts in order.  Handlers hold a use of their own while they    *)
(* run (vlr_subscr_find_by_imsi(), or an explicit get), so the record can  *)
(* only be freed by the put that ends them: that is Settle().              *)
(***************************************************************************)
EXTENDS Integers, FiniteSets

CONSTANTS
  Subs,              \* subscribers (IMSIs)
  Offered,           \* bound: the MT services in use, of "SMS" and "CC"
  MaxUnconfirmed,    \* SGS_MAX_UNCONFIRMED_PAGES
  SweepCap,          \* VLR_EXPIRE_MAX_PER_TICK
  DrainCap,          \* VLR_GSUP_FAIL_MAX_PER_TICK
  MaxPendingLu,      \* the 4096 of sgs_rx_loc_upd_req()
  IncompleteTicks,   \* VLR_INCOMPLETE_LU_SECS in sweep intervals
  T3212,             \* subscriber expiration in sweep intervals, 0 = off
  X3212,             \* SGs subscriber expiration likewise
  MaxFaults          \* bound: detaches, cancels, resets, paging rejects,
                     \* operator commands, losses of the GSUP link

ASSUME SubsAssumption == IsFiniteSet(Subs) /\ Offered \subseteq {"SMS", "CC"}
ASSUME CapAssumption ==
  /\ MaxUnconfirmed \in Nat /\ SweepCap \in Nat \ {0}
  /\ DrainCap \in Nat \ {0} /\ MaxPendingLu \in Nat \ {0}
ASSUME TimerAssumption ==
  IncompleteTicks \in Nat \ {0} /\ T3212 \in Nat /\ X3212 \in Nat
ASSUME FaultsAssumption == MaxFaults \in Nat

VARIABLES
  vs,         \* the record of each subscriber
  inflight,   \* s_sgs_pag_inflight
  snap,       \* incomplete_snap.sgs_lu of the last sweep
  mmeUp,      \* mme->conn is set
  gsupUp,     \* the GSUP link to the HLR is connected
  draining,   \* gsup_fail_timer is pending
  faults      \* how many of those so far

vars == <<vs, inflight, snap, mmeUp, gsupUp, draining, faults>>

(* expire_lu = VLR_SUBSCRIBER_NO_EXPIRATION; otherwise expire_lu counts    *)
(* the sweep intervals that are left.                                      *)
Never == -1

(* Transactions that page: one MT SMS (gsm411_alloc_mt_trans() allows no   *)
(* second one) and, as a bound, one call.                                  *)
Services == {"SMS", "CC"}

(* VSUB_USE_ATTACHED, _SGS_LU, _SGS_PAGING_REQ, _PAGING, _MSUB and the use *)
(* of each transaction, trans_vsub_use().                                  *)
Tokens == {"attached", "SGs-lu", "SGs-paging-req", "Paging", "active-conn",
           "SMS", "CC"}

SgsStates == {"NULL", "LA_UPD_PRES", "ASSOCIATED"}

(* struct vlr_subscr.  alive: the record exists; st, ts62: SGs-UE FSM and  *)
(* its Ts6-2 timer; tmsi, tmsiNew: tmsi, tmsi_new not GSM_RESERVED_TMSI;   *)
(* lu: lu_complete; conf: conf_by_radio_contact_ind; detached:             *)
(* imsi_detached_flag; sgs: attached_via_ran is EUTRAN-SGs; ts5: Ts5       *)
(* pending; serv: paging_serv_ind; paging: cs.is_paging; ptimer:           *)
(* paging_response_timer pending; reqs: transactions waiting for the page; *)
(* conn: an SGs connection is attached; ctrans: its transactions.          *)
Records ==
  [alive : BOOLEAN, st : SgsStates, ts62 : BOOLEAN, tmsi : BOOLEAN,
   tmsiNew : BOOLEAN, lu : BOOLEAN, conf : BOOLEAN, detached : BOOLEAN,
   sgs : BOOLEAN, exp : {Never} \cup Nat, ts5 : BOOLEAN, serv : Services,
   paging : BOOLEAN, ptimer : BOOLEAN, reqs : SUBSET Services,
   conn : BOOLEAN, ctrans : SUBSET Services, use : [Tokens -> Int]]

(* _vlr_subscr_alloc(): the record before its first get.                   *)
Blank ==
  [alive |-> TRUE, st |-> "NULL", ts62 |-> FALSE, tmsi |-> FALSE,
   tmsiNew |-> FALSE, lu |-> FALSE, conf |-> FALSE, detached |-> FALSE,
   sgs |-> FALSE, exp |-> IncompleteTicks, ts5 |-> FALSE, serv |-> "SMS",
   paging |-> FALSE, ptimer |-> FALSE, reqs |-> {}, conn |-> FALSE,
   ctrans |-> {}, use |-> [t \in Tokens |-> 0]]

(* No record for this IMSI.                                                *)
Absent == [Blank EXCEPT !.alive = FALSE]

-----------------------------------------------------------------------------
(* Use counts.                                                             *)

Get(v, t) == [v EXCEPT !.use[t] = @ + 1]
Put(v, t) == [v EXCEPT !.use[t] = @ - 1]

(* trans_free() of the transactions in K.                                  *)
FreeTrans(v, K) ==
  [v EXCEPT !.use = [t \in Tokens |-> v.use[t] - IF t \in K THEN 1 ELSE 0]]

Total(v) == v.use["attached"] + v.use["SGs-lu"] + v.use["SGs-paging-req"]
              + v.use["Paging"] + v.use["active-conn"] + v.use["SMS"]
              + v.use["CC"]

(* vlr_subscr_use_cb(): the last put frees the record, vlr_subscr_free().  *)
Settle(v) == IF Total(v) <= 0 THEN Absent ELSE v

(* sgs_pag_inflight_dec() n times.                                         *)
Decrement(i, n) == IF i >= n THEN i - n ELSE 0

(* How often vlr_sgs_pag_stop() decrements for a record, for a set of them.*)
Stops(v) == IF v.ts5 THEN 1 ELSE 0
StopsOf(S) == Cardinality({s \in S : vs[s].ts5})

-----------------------------------------------------------------------------
(* Paging and connections.                                                 *)

(* paging_expired(): paging_concludes() without a connection; the waiting  *)
(* transactions are freed.                                                 *)
PagingExpired(v) ==
  LET f == FreeTrans(v, v.reqs)
  IN [(IF v.paging THEN Put(f, "Paging") ELSE f)
        EXCEPT !.ptimer = FALSE, !.reqs = {}, !.paging = FALSE]

(* paging_response(): they go on on the connection.                        *)
PagingAnswered(v) ==
  [(IF v.paging THEN Put(v, "Paging") ELSE v)
     EXCEPT !.ptimer = FALSE, !.ctrans = @ \cup v.reqs, !.reqs = {},
            !.paging = FALSE]

(* Mutant: stopping Ts5 keeps its use.                                     *)
MutPagStop(v) == [v EXCEPT !.ts5 = FALSE]

(* vlr_sgs_pag_stop(); the caller decrements inflight by Stops(v).         *)
PagStop(v) ==
  IF v.ts5 THEN [Put(v, "SGs-paging-req") EXCEPT !.ts5 = FALSE] ELSE v

(* Mutant: the cap on pages of unconfirmed subscribers is not checked.     *)
MutCanPage(v, k, n) ==
  /\ ~v.detached /\ mmeUp /\ ~v.ts5
  /\ v.st = "NULL" => ~v.conf

(* sgs_iface_paging_cb() sends a page while n are in flight.               *)
CanPage(v, k, n) ==
  /\ ~v.detached
  /\ k = "SMS" /\ ~v.conf /\ ~v.ts5 => n < MaxUnconfirmed
  /\ v.st = "NULL" => ~v.conf
  /\ mmeUp
  /\ ~v.ts5

(* vlr_sgs_pag() with no Ts5 pending; the caller increments inflight.      *)
Paged(v, k) ==
  [Get(v, "SGs-paging-req") EXCEPT !.ts5 = TRUE, !.serv = k]

(* vlr_subscr_enable_expire_lu().                                          *)
EnableExpire(v) == [v EXCEPT !.exp = T3212]

(* subscr_conn_toss(): the connection loses its subscriber first, so its   *)
(* release leaves the expiry alone.                                        *)
Toss(v) ==
  IF v.conn
  THEN [FreeTrans(Put(v, "active-conn"), v.ctrans)
          EXCEPT !.conn = FALSE, !.ctrans = {}]
  ELSE v

(* An SGs connection that is not tossed passes RELEASING and RELEASED at   *)
(* once: msc_a_fsm_releasing_onenter(), msub_fsm_cleanup().                *)
Release(v) == Toss(EnableExpire(v))

(* subscr_conn_allocate_sgs() up to AUTHENTICATED.                         *)
OpenConn(v) ==
  LET o == Get(Toss(v), "active-conn")
  IN [o EXCEPT !.conn = TRUE, !.sgs = TRUE,
               !.exp = IF o.lu THEN Never ELSE @]

-----------------------------------------------------------------------------
(* The SGs-UE FSM.                                                         *)

(* Mutant: the confirmed radio contact is kept.                            *)
MutToNullConf(v) ==
  LET n == [v EXCEPT !.st = "NULL", !.ts62 = FALSE, !.tmsiNew = FALSE]
  IN PagStop(IF n.paging THEN PagingExpired(n) ELSE n)

(* to_null(); the caller decrements inflight by Stops(v).                  *)
ToNull(v) ==
  LET n == [v EXCEPT !.st = "NULL", !.ts62 = FALSE, !.conf = FALSE,
                     !.tmsiNew = FALSE]
  IN PagStop(IF n.paging THEN PagingExpired(n) ELSE n)

(* respawn_paging() while n pages are in flight, and n afterwards.         *)
RespawnPaging(v, n) ==
  LET w == PagStop(v)
  IN IF v.ts5 /\ CanPage(w, v.serv, Decrement(n, 1)) THEN Paged(w, v.serv) ELSE w

(* Mutant: the page that is replaced stays counted.                        *)
MutRespawnInflight(v, w, n) == n + Stops(w)

RespawnInflight(v, w, n) == Decrement(n, Stops(v)) + Stops(w)

(* perform_lu() that sends the request to the HLR.                         *)
PerformLu(v) ==
  [v EXCEPT !.tmsiNew = IF v.tmsi THEN @ ELSE TRUE, !.st = "LA_UPD_PRES",
            !.ts62 = FALSE]

(* vlr_sgs_lu_release().                                                   *)
LuRelease(v) == IF v.use["SGs-lu"] > 0 THEN Put(v, "SGs-lu") ELSE v

(* vlr_subscr_keep_incomplete_expiry().                                    *)
KeepIncompleteExpiry(v) ==
  IF v.lu THEN v ELSE [v EXCEPT !.exp = IncompleteTicks]

(* vlr_subscr_expire().                                                    *)
Expire(v) == IF v.lu THEN [Put(v, "attached") EXCEPT !.lu = FALSE] ELSE v

(* SGS_UE_E_RX_DETACH_IND_FROM_UE / _FROM_MME, in every state.             *)
DetachInd(v) ==
  LET d == [v EXCEPT !.detached = TRUE]
  IN ToNull(IF v.lu THEN [d EXCEPT !.exp = Never] ELSE KeepIncompleteExpiry(d))

(* SGS_UE_E_TX_LU_ACCEPT in LA_UPD_PRES.                                   *)
TxLuAccept(v, n) ==
  LET a == IF v.lu THEN v ELSE [Get(v, "attached") EXCEPT !.lu = TRUE]
      r == [a EXCEPT !.conf = TRUE, !.detached = FALSE, !.sgs = TRUE]
  IN [(IF v.tmsiNew THEN r ELSE RespawnPaging(r, n))
        EXCEPT !.st = "ASSOCIATED", !.ts62 = v.tmsiNew]

(* The expiry that vlr_sgs_loc_update_acc_sent() chooses.                  *)
AccExpiry == IF X3212 # 0 THEN X3212 ELSE IF T3212 = 0 THEN Never ELSE T3212

(* sgs_tx_loc_upd_resp_cb() with an accept.                                *)
AccSent(v, n) == LuRelease([TxLuAccept(v, n) EXCEPT !.exp = AccExpiry])

(* The same with a reject: only LA_UPD_PRES handles SGS_UE_E_TX_LU_REJECT. *)
RejSent(v) == LuRelease(IF v.st = "LA_UPD_PRES" THEN ToNull(v) ELSE v)

(* vlr_subscr_detach().                                                    *)
Detach(v) ==
  Settle(KeepIncompleteExpiry(Expire(DetachInd(LuRelease(v)))))

(* vlr_subscr_discard_incomplete(): it leaves the SGs-UE FSM alone.        *)
DiscardIncomplete(v) ==
  LET d == [PagStop(LuRelease(v)) EXCEPT !.detached = TRUE]
  IN IF Total(d) > 0 THEN KeepIncompleteExpiry(d) ELSE Absent

-----------------------------------------------------------------------------
(* Messages of the MME.                                                    *)

Update(s, v) == vs' = [vs EXCEPT ![s] = v]

(* vlr_subscr_find_or_create_by_imsi(VSUB_USE_SGS_LU), after the handler   *)
(* of the message has tossed a lingering connection.                       *)
LuSubscr(v) ==
  LET t == IF v.alive THEN Settle(Toss(v)) ELSE v
  IN Get(IF t.alive THEN t ELSE Blank, "SGs-lu")

(* The expiry at the end of vlr_sgs_loc_update(): a retry never prolongs   *)
(* that of an incomplete record, unless X3212 is set.                      *)
LuExpiry(v) ==
  IF X3212 # 0 THEN X3212
  ELSE IF ~v.lu /\ (v.exp = Never \/ v.exp > IncompleteTicks)
       THEN IncompleteTicks
       ELSE v.exp

(* sgs_rx_loc_upd_req() that is not rejected at once, on a link that has   *)
(* named its MME (other messages need no name).  sent: the TMSI was        *)
(* allocated and the request went to the HLR.  If it did not, the reject   *)
(* puts the only use of a new record and vlr_sgs_loc_update() goes on with *)
(* a freed one: what it still writes is lost with it.                      *)
RxLocUpdReq(s, sent) ==
  LET v == LuSubscr(vs[s])
      rejected == RejSent(ToNull(v))
      w == IF sent THEN PerformLu(v) ELSE rejected
  IN /\ mmeUp /\ gsupUp /\ snap < MaxPendingLu
     /\ IF v.st = "LA_UPD_PRES"
        THEN Update(s, Settle(Put(v, "SGs-lu"))) /\ UNCHANGED inflight
        ELSE /\ Update(s, Settle([w EXCEPT !.exp = LuExpiry(w)]))
             /\ inflight' = IF sent THEN inflight
                            ELSE Decrement(inflight, Stops(v))
     /\ UNCHANGED <<snap, mmeUp, gsupUp, draining, faults>>

(* A detach, cancel, reset, paging reject, operator command or loss of the *)
(* GSUP link, within the bound.                                            *)
Fault == faults < MaxFaults /\ faults' = faults + 1

(* sgs_rx_imsi_det_ind(), vlr_sgs_imsi_detach().                           *)
RxImsiDetInd(s, implicit) ==
  /\ vs[s].alive
  /\ ~(implicit /\ vs[s].st = "NULL")
  /\ Update(s, Settle(Expire(DetachInd(vs[s]))))
  /\ inflight' = Decrement(inflight, Stops(vs[s]))
  /\ Fault /\ UNCHANGED <<snap, mmeUp, gsupUp, draining>>

(* sgs_rx_eps_det_ind(), vlr_sgs_eps_detach().                             *)
RxEpsDetInd(s) ==
  LET d == DetachInd(vs[s])
  IN /\ vs[s].alive
     /\ Update(s, Settle(IF d.exp = Never THEN EnableExpire(d) ELSE d))
     /\ inflight' = Decrement(inflight, Stops(vs[s]))
     /\ Fault /\ UNCHANGED <<snap, mmeUp, gsupUp, draining>>

(* sgs_rx_reset_ind(), vlr_sgs_reset_mme().                                *)
RxResetInd ==
  /\ vs' = [s \in Subs |-> IF vs[s].alive THEN Settle(ToNull(vs[s])) ELSE vs[s]]
  /\ inflight' = Decrement(inflight, StopsOf(Subs))
  /\ Fault /\ UNCHANGED <<snap, mmeUp, gsupUp, draining>>

(* sgs_rx_pag_rej(): the event, vlr_sgs_pag_stop(), then paging_expired(). *)
RxPagRej(s, userBusy) ==
  LET v == vs[s]
      f == IF userBusy \/ v.st = "NULL" THEN v ELSE ToNull(v)
  IN /\ v.alive
     /\ Update(s, Settle(PagingExpired(PagStop(f))))
     /\ inflight' = Decrement(inflight, Stops(v))
     /\ Fault /\ UNCHANGED <<snap, mmeUp, gsupUp, draining>>

(* sgs_rx_ue_unr(): only Ts5 is stopped.                                   *)
RxUeUnreachable(s) ==
  /\ vs[s].alive
  /\ Update(s, Settle(PagStop(vs[s])))
  /\ inflight' = Decrement(inflight, Stops(vs[s]))
  /\ UNCHANGED <<snap, mmeUp, gsupUp, draining, faults>>

(* sgs_rx_tmsi_reall_cmpl(): handled in ASSOCIATED only.                   *)
RxTmsiReallCmpl(s) ==
  LET v == vs[s]
      t == [v EXCEPT !.tmsi = TRUE, !.tmsiNew = FALSE]
      w == IF v.tmsiNew THEN RespawnPaging(t, inflight) ELSE v
  IN /\ v.alive /\ v.st = "ASSOCIATED"
     /\ Update(s, Settle([w EXCEPT !.ts62 = FALSE]))
     /\ inflight' = IF v.tmsiNew THEN RespawnInflight(v, w, inflight)
                    ELSE inflight
     /\ UNCHANGED <<snap, mmeUp, gsupUp, draining, faults>>

(* SGS_UE_E_RX_SERVICE_REQ.                                                *)
ServiceReq(v) ==
  IF v.st = "NULL" THEN [v EXCEPT !.st = "ASSOCIATED", !.conf = TRUE] ELSE v

(* The connection of a paging response: without a waiting transaction it   *)
(* is unused and released at once.                                         *)
AnswerOnSgs(v) ==
  LET a == PagingAnswered(OpenConn(v))
  IN IF a.ctrans = {} THEN Release(a) ELSE a

(* sgs_rx_service_req(); k: the service indicator, "none" if it is missing *)
(* or invalid.                                                             *)
RxServiceReq(s, k) ==
  LET v == vs[s]
      q == ServiceReq(v)
      acked == v.ts5 /\ k \in Services
      p == PagStop(q)
  IN /\ v.alive
     /\ Update(s, IF ~acked THEN q
                  ELSE Settle(IF k = "CC" THEN p ELSE AnswerOnSgs(p)))
     /\ inflight' = IF acked THEN Decrement(inflight, 1) ELSE inflight
     /\ UNCHANGED <<snap, mmeUp, gsupUp, draining, faults>>

(* sgs_rx_csfb_ind().                                                      *)
RxCsfbInd(s) ==
  /\ vs[s].alive
  /\ Update(s, Settle(Toss(vs[s])))
  /\ UNCHANGED <<inflight, snap, mmeUp, gsupUp, draining, faults>>

(* sgs_rx_ul_ud(); sms: the message starts a mobile originated SMS.        *)
RxUlUd(s, sms) ==
  LET c == IF vs[s].conn THEN vs[s] ELSE OpenConn(vs[s])
  IN /\ vs[s].alive /\ vs[s].st = "ASSOCIATED"
     /\ Update(s, IF sms /\ "SMS" \notin c.ctrans
                  THEN [Get(c, "SMS") EXCEPT !.ctrans = @ \cup {"SMS"}]
                  ELSE c)
     /\ UNCHANGED <<inflight, snap, mmeUp, gsupUp, draining, faults>>

-----------------------------------------------------------------------------
(* Mobile terminated transactions.                                         *)

(* trans_alloc() for an attached subscriber, then the connection or        *)
(* paging_request_start(); a transaction that cannot page is freed.        *)
MtRequest(s, k) ==
  LET v == vs[s]
      t == Get(v, k)
      w == [t EXCEPT !.reqs = @ \cup {k}]
      page == ~v.conn /\ ~v.paging /\ v.sgs /\ CanPage(v, k, inflight)
  IN /\ v.alive /\ v.lu
     /\ k \notin v.reqs \cup v.ctrans
     /\ \/ v.conn /\ Update(s, [t EXCEPT !.ctrans = @ \cup {k}])
        \/ ~v.conn /\ v.paging /\ Update(s, w)
        \/ page /\ Update(s, [Get(Paged(w, k), "Paging")
                                EXCEPT !.paging = TRUE, !.ptimer = TRUE])
     /\ inflight' = IF page THEN inflight + 1 ELSE inflight
     /\ UNCHANGED <<snap, mmeUp, gsupUp, draining, faults>>

(* trans_free() of a transaction that waits for the page.                  *)
MtAbort(s, k) ==
  /\ k \in vs[s].reqs
  /\ Update(s, Settle([FreeTrans(vs[s], {k}) EXCEPT !.reqs = @ \ {k}]))
  /\ UNCHANGED <<inflight, snap, mmeUp, gsupUp, draining, faults>>

(* trans_free() of a transaction on the connection; the last one leaves it *)
(* unused and MSC_A_EV_UNUSED releases it.                                 *)
TransDone(s, k) ==
  LET d == [FreeTrans(vs[s], {k}) EXCEPT !.ctrans = @ \ {k}]
  IN /\ k \in vs[s].ctrans
     /\ Update(s, Settle(IF d.ctrans = {} THEN Release(d) ELSE d))
     /\ UNCHANGED <<inflight, snap, mmeUp, gsupUp, draining, faults>>

(* The connection is closed: the timer that runs in AUTHENTICATED,         *)
(* msc_a_release_cn() or msc_a_release_mo().                               *)
ConnClose(s) ==
  /\ vs[s].conn
  /\ Update(s, Settle(Release(vs[s])))
  /\ UNCHANGED <<inflight, snap, mmeUp, gsupUp, draining, faults>>

-----------------------------------------------------------------------------
(* Timers.                                                                 *)

(* Ts5_timeout_cb().                                                       *)
Ts5Timeout(s) ==
  LET v == vs[s]
      e == IF v.paging THEN PagingExpired(v) ELSE v
  IN /\ v.ts5
     /\ Update(s, Settle([Put(e, "SGs-paging-req") EXCEPT !.ts5 = FALSE]))
     /\ inflight' = Decrement(inflight, 1)
     /\ UNCHANGED <<snap, mmeUp, gsupUp, draining, faults>>

(* Mutant: the timer does nothing once Ts5 was stopped.                    *)
MutPagingTimeout(s) ==
  /\ vs[s].ptimer /\ vs[s].ts5
  /\ Update(s, Settle(PagingExpired(vs[s])))
  /\ UNCHANGED <<inflight, snap, mmeUp, gsupUp, draining, faults>>

(* paging_response_timer_cb().                                             *)
PagingTimeout(s) ==
  /\ vs[s].ptimer
  /\ Update(s, Settle(PagingExpired(vs[s])))
  /\ UNCHANGED <<inflight, snap, mmeUp, gsupUp, draining, faults>>

(* sgs_ue_fsm_timer_cb().                                                  *)
Ts62Timeout(s) ==
  /\ vs[s].ts62
  /\ Update(s, [vs[s] EXCEPT !.ts62 = FALSE, !.tmsi = FALSE, !.tmsiNew = FALSE])
  /\ UNCHANGED <<inflight, snap, mmeUp, gsupUp, draining, faults>>

(* Mutant: the sweep looks at dated records only.                          *)
MutExpired(v) == v.alive /\ v.exp = 0

(* Whether the sweep acts on a record: it is due, or it is incomplete and  *)
(* has no expiry.                                                          *)
Expired(v) == v.alive /\ (v.exp = 0 \/ (~v.lu /\ v.exp = Never))

Aged(v) == IF v.alive /\ v.exp > 0 THEN [v EXCEPT !.exp = @ - 1] ELSE v

Swept(v) == IF v.lu THEN Detach(v) ELSE DiscardIncomplete(v)

(* vlr_subscr_expire_lu(), one interval later; S are the records it        *)
(* reaches before the cap.  Without any record the census is not renewed.  *)
ExpireLu(S) ==
  LET old == [s \in Subs |-> Aged(vs[s])]
      due == {s \in Subs : Expired(old[s])}
  IN /\ \E s \in Subs : vs[s].alive
     /\ S \subseteq due
     /\ S = due \/ Cardinality(S) = SweepCap
     /\ Cardinality(S) <= SweepCap
     /\ vs' = [s \in Subs |-> IF s \in S THEN Swept(old[s]) ELSE old[s]]
     /\ inflight' = Decrement(inflight, StopsOf(S))
     /\ snap' = Cardinality({s \in Subs : vs[s].alive /\ ~vs[s].lu
                                            /\ vs[s].use["SGs-lu"] > 0})
     /\ UNCHANGED <<mmeUp, gsupUp, draining, faults>>

-----------------------------------------------------------------------------
(* The HLR and the links.                                                  *)

(* vlr_subscr_handle_lu_res() with an SGs LU in progress.                  *)
HlrLuResult(s) ==
  LET a == AccSent(vs[s], inflight)
  IN /\ gsupUp /\ vs[s].alive /\ vs[s].st = "LA_UPD_PRES"
     /\ Update(s, a)
     /\ inflight' = IF vs[s].tmsiNew THEN inflight
                    ELSE RespawnInflight(vs[s], a, inflight)
     /\ UNCHANGED <<snap, mmeUp, gsupUp, draining, faults>>

(* vlr_subscr_handle_lu_err().                                             *)
HlrLuError(s) ==
  /\ gsupUp /\ vs[s].alive /\ vs[s].st = "LA_UPD_PRES"
  /\ Update(s, Settle(RejSent(vs[s])))
  /\ inflight' = Decrement(inflight, Stops(vs[s]))
  /\ UNCHANGED <<snap, mmeUp, gsupUp, draining, faults>>

(* vlr_subscr_handle_cancel_req().                                         *)
HlrCancel(s) ==
  /\ gsupUp /\ vs[s].alive
  /\ Update(s, Detach(vs[s]))
  /\ inflight' = Decrement(inflight, Stops(vs[s]))
  /\ Fault /\ UNCHANGED <<snap, mmeUp, gsupUp, draining>>

(* vlr_gsup_on_down(), vlr_gsup_on_up().                                   *)
GsupDown ==
  /\ gsupUp
  /\ gsupUp' = FALSE /\ draining' = TRUE
  /\ Fault /\ UNCHANGED <<vs, inflight, snap, mmeUp>>

GsupUp ==
  /\ ~gsupUp
  /\ gsupUp' = TRUE /\ draining' = FALSE
  /\ UNCHANGED <<vs, inflight, snap, mmeUp, faults>>

(* Mutant: the timer is not restarted for the rest.                        *)
MutGsupFailPending(S) ==
  LET waiting == {s \in Subs : vs[s].alive /\ vs[s].st = "LA_UPD_PRES"}
  IN /\ draining /\ ~gsupUp
     /\ S \subseteq waiting
     /\ S = waiting \/ Cardinality(S) = DrainCap
     /\ Cardinality(S) <= DrainCap
     /\ vs' = [s \in Subs |->
                 IF s \in S THEN Settle(KeepIncompleteExpiry(RejSent(vs[s])))
                 ELSE vs[s]]
     /\ inflight' = Decrement(inflight, StopsOf(S))
     /\ draining' = FALSE
     /\ UNCHANGED <<snap, mmeUp, gsupUp, faults>>

(* vlr_gsup_fail_pending_cb(): S are the records it reaches; more than the *)
(* cap restart the timer.                                                  *)
GsupFailPending(S) ==
  LET waiting == {s \in Subs : vs[s].alive /\ vs[s].st = "LA_UPD_PRES"}
  IN /\ draining /\ ~gsupUp
     /\ S \subseteq waiting
     /\ S = waiting \/ Cardinality(S) = DrainCap
     /\ Cardinality(S) <= DrainCap
     /\ vs' = [s \in Subs |->
                 IF s \in S THEN Settle(KeepIncompleteExpiry(RejSent(vs[s])))
                 ELSE vs[s]]
     /\ inflight' = Decrement(inflight, StopsOf(S))
     /\ draining' = (S # waiting)
     /\ UNCHANGED <<snap, mmeUp, gsupUp, faults>>

(* The operator's commands.  set_sub_expire(), ena_subscr_expire().        *)
SubExpire(s) ==
  /\ vs[s].alive
  /\ Update(s, Settle(Expire(vs[s])))
  /\ Fault /\ UNCHANGED <<inflight, snap, mmeUp, gsupUp, draining>>

(* set_subscriber_disconnect(), api_disconnect_subscriber().               *)
SubscriberDisconnect(s) ==
  /\ vs[s].alive
  /\ Update(s, Settle(Expire(IF vs[s].conn THEN Release(vs[s]) ELSE vs[s])))
  /\ Fault /\ UNCHANGED <<inflight, snap, mmeUp, gsupUp, draining>>

(* The SGs link of the MME comes and goes.                                 *)
MmeLink ==
  /\ mmeUp' = ~mmeUp
  /\ UNCHANGED <<vs, inflight, snap, gsupUp, draining, faults>>

-----------------------------------------------------------------------------

(* sgs_restore_one() of a persisted association that has not expired; the  *)
(* row holds the expiry chosen when its LU was accepted.                   *)
Restored(tmsi, exp) ==
  [Get(Blank, "attached") EXCEPT !.tmsi = tmsi, !.sgs = TRUE, !.lu = TRUE,
                                 !.exp = exp]

RowExpiries == IF AccExpiry = Never THEN {Never} ELSE 1 .. AccExpiry

Init ==
  /\ vs \in [Subs -> {Absent} \cup
                      {Restored(t, e) : t \in BOOLEAN, e \in RowExpiries}]
  /\ inflight = 0 /\ snap = 0 /\ faults = 0
  /\ mmeUp = FALSE /\ gsupUp = FALSE /\ draining = FALSE

MmeMessage(s) ==
  \/ \E sent \in BOOLEAN : RxLocUpdReq(s, sent)
  \/ \E implicit \in BOOLEAN : RxImsiDetInd(s, implicit)
  \/ RxEpsDetInd(s)
  \/ \E userBusy \in BOOLEAN : RxPagRej(s, userBusy)
  \/ RxUeUnreachable(s)
  \/ RxTmsiReallCmpl(s)
  \/ \E k \in Services \cup {"none"} : RxServiceReq(s, k)
  \/ RxCsfbInd(s)
  \/ \E sms \in BOOLEAN : RxUlUd(s, sms)

Transactions(s) ==
  \/ \E k \in Offered : MtRequest(s, k)
  \/ \E k \in Services : MtAbort(s, k) \/ TransDone(s, k)
  \/ ConnClose(s)

Timers(s) == Ts5Timeout(s) \/ PagingTimeout(s) \/ Ts62Timeout(s)

Hlr(s) == HlrLuResult(s) \/ HlrLuError(s) \/ HlrCancel(s)

Operator(s) == SubExpire(s) \/ SubscriberDisconnect(s)

Global ==
  \/ RxResetInd \/ GsupDown \/ GsupUp \/ MmeLink
  \/ \E S \in SUBSET Subs : ExpireLu(S) \/ GsupFailPending(S)

Next ==
  \/ \E s \in Subs : \/ MmeMessage(s) \/ Transactions(s)
                     \/ Timers(s) \/ Hlr(s) \/ Operator(s)
  \/ Global

Spec == Init /\ [][Next]_vars

(* The event loop runs every armed timer, and connections do not stay open *)
(* for ever.  Nothing is assumed of the MME, the HLR or the links.         *)
Fairness ==
  /\ \A s \in Subs : /\ WF_vars(Ts5Timeout(s)) /\ WF_vars(PagingTimeout(s))
                     /\ WF_vars(Ts62Timeout(s)) /\ WF_vars(ConnClose(s))
  /\ WF_vars(\E S \in SUBSET Subs : ExpireLu(S))
  /\ WF_vars(\E S \in SUBSET Subs : GsupFailPending(S))

FairSpec == Spec /\ Fairness

(* As FairSpec, with an MME that repeats a rejected LU.                    *)
RetrySpec == FairSpec /\ \A s \in Subs : SF_vars(RxLocUpdReq(s, TRUE))

-----------------------------------------------------------------------------
(* Properties.                                                             *)

(* The variables have their types and an absent record is empty.           *)
TypeOK ==
  /\ vs \in [Subs -> Records]
  /\ \A s \in Subs : ~vs[s].alive => vs[s] = Absent
  /\ inflight \in Nat /\ snap \in Nat /\ faults \in 0 .. MaxFaults
  /\ mmeUp \in BOOLEAN /\ gsupUp \in BOOLEAN /\ draining \in BOOLEAN

One(b) == IF b THEN 1 ELSE 0

Balanced(v) ==
  /\ v.use["attached"] = One(v.lu)
  /\ v.use["SGs-lu"] >= 0
  /\ v.use["SGs-paging-req"] = One(v.ts5)
  /\ v.use["Paging"] = One(v.paging)
  /\ v.use["active-conn"] = One(v.conn)
  /\ \A k \in Services : v.use[k] = One(k \in v.reqs) + One(k \in v.ctrans)

(* Every get of vlr_subscr_get() is balanced by one put whatever the order *)
(* of page, timeout, reject, LU, detach and sweep: each use count says     *)
(* whether what it stands for exists, and a record without any is gone.    *)
UseBalance == \A s \in Subs : Balanced(vs[s]) /\ (vs[s].alive <=> Total(vs[s]) > 0)

(* s_sgs_pag_inflight, which limits the pages of unconfirmed subscribers,  *)
(* is the number of running Ts5 timers: it neither leaks nor saturates.    *)
InflightExact == inflight = Cardinality({s \in Subs : vs[s].ts5})

(* What an association leaves behind does not change how the next one is   *)
(* paged: a TMSI that the MME has not acknowledged is watched by Ts6-2 as  *)
(* long as the association stands and given up with it, and without one    *)
(* the radio contact is never confirmed, or later MT SMS would be refused  *)
(* a page in SGs-NULL for ever (to_null()).                                *)
AssocFlags ==
  \A s \in Subs : /\ vs[s].ts62 <=> vs[s].st = "ASSOCIATED" /\ vs[s].tmsiNew
                  /\ vs[s].st = "NULL" => ~vs[s].tmsiNew /\ ~vs[s].conf

(* No more unconfirmed subscribers are paged for SMS at once than the cap: *)
(* a new page beyond it is for a call or a confirmed subscriber.           *)
PageCapped ==
  [][\A s \in Subs :
       vs'[s].ts5 /\ ~vs[s].ts5 /\ inflight >= MaxUnconfirmed
         => vs'[s].serv = "CC" \/ vs'[s].conf]_vars

(* While the GSUP link is down the timer that fails the LUs in progress    *)
(* (vlr_gsup_fail_pending_cb()) stops only when none is left, although it  *)
(* handles a bounded number per tick and the MME starts new ones between.  *)
DrainComplete ==
  [][draining /\ ~draining' /\ ~gsupUp'
       => \A s \in Subs : vs'[s].st # "LA_UPD_PRES"]_vars

(* A record whose LU never completed goes away or completes, although the  *)
(* MME retries and uses were left over (vlr_subscr_expire_lu()); a         *)
(* connection may keep it in use meanwhile.                                *)
IncompleteGone ==
  \A s \in Subs : (vs[s].alive /\ ~vs[s].lu) ~> (~vs[s].alive \/ vs[s].lu \/ vs[s].conn)

(* Every page ends: answered, rejected or timed out.                       *)
PagingEnds == \A s \in Subs : vs[s].paging ~> ~vs[s].paging

-----------------------------------------------------------------------------
(* Statements of comments in the code.                                     *)

(* vlr_sgs_loc_update(): a missing answer of the HLR cannot leak.  An LU   *)
(* in progress, whose retries are ignored as duplicates, ends; while a     *)
(* connection is open the expiry is suspended.                             *)
LuEnds ==
  \A s \in Subs :
    vs[s].st = "LA_UPD_PRES" ~> (vs[s].st # "LA_UPD_PRES" \/ vs[s].conn)

(* sgs_rx_loc_upd_req(): "too many LUs already waiting on HLR: reject this *)
(* one so the MME retries later".  LUs are not rejected for ever because   *)
(* of a census, in which the LUs waiting at an earlier sweep were counted. *)
CongestionEnds == snap >= MaxPendingLu ~> snap < MaxPendingLu

=============================================================================
