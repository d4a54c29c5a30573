-------------------------------- MODULE Sms --------------------------------
(***************************************************************************)
(* Short messages: the MT delivery queue (sms_queue.c) over the SMS table  *)
(* of the database (db.c), the SMS transactions of the subscribers         *)
(* (gsm_04_11.c), SMS over GSUP (gsm_04_11_gsup.c) and SUBMIT-SM from SMPP *)
(* (smpp_msc.c).                                                           *)
(*                                                                         *)
(* A stored message is a row of smDb.  A gsm_sms_pending is an entry of    *)
(* the list smPend; it names a row and the subscriber it is for.  Each     *)
(* subscriber has at most one MT transaction (smMt) and one MO transaction *)
(* (smMo).  The CP and RP layers (libosmogsm's SMC and SMR) are external:  *)
(* a transaction waits for the MS ("data"), for paging ("page"), or, on    *)
(* the MO side, for the SMSC ("wait") or the last CP-ACK ("ack").          *)
(*                                                                         *)
(* Handlers are operators on a record w of the variables.  Addresses and   *)
(* text are left out: the MSISDNs are 1..SmN, in the order of strcmp().    *)
(***************************************************************************)
EXTENDS Integers, Sequences, FiniteSets, FiniteSetsExt, SequencesExt

CONSTANTS
    SmN,            \* number of subscribers; 1..SmN are their MSISDNs
    SmMaxSms,       \* bound on the rows stored
    SmAttempts,     \* deliver_attempts up to which a row is read (9)
    SmConfigs,      \* the configurations, records [gsup, max, fail, del, subs,
                    \* env]: sms_over_gsup, max_pending, max_fail,
                    \* delete_delivered, the subscribers that show up, and
                    \* what else happens: "mo", "esme", "time", "operator"
    SmMaxFaults     \* bound on operator commands and restarts

VARIABLES
    smDb,       \* table SMS: row -> [st, dest, att, exp]
    smPend,     \* gsm_sms_queue.pending_sms
    smLast,     \* gsm_sms_queue.last_msisdn; 0: empty
    smPush,     \* the push_queue timer is pending
    smResend,   \* the resend_pending timer is pending
    smSub,      \* subscriber -> [lu, paging, conn, mmts]
    smMt,       \* subscriber -> its MT transaction [st, sms, rsp, mm]
    smMo,       \* subscriber -> its MO transaction [st, mr]
    smOpen,     \* subscriber -> MT-forwardSM requests not answered yet
    smSubmit,   \* subscriber -> forward-mode SUBMIT-SM not answered yet
    smFaults,   \* operator commands and restarts so far
    smCfg       \* the configuration, constant

smVars == <<smDb, smPend, smLast, smPush, smResend, smSub, smMt, smMo,
            smOpen, smSubmit, smFaults, smCfg>>

SmSubs == 1..SmN
SmRows == 1..SmMaxSms

\* What a transaction carries: no gsm_sms (0), a row, the empty gsm_sms
\* that sms_from_result() returns when the receiver is not attached, or a
\* message an ESME submitted in forward mode, which is in no table.
SmBlank == SmMaxSms + 1
SmEsme == SmMaxSms + 2

SmNoMt == [st |-> "none", sms |-> 0, rsp |-> FALSE, mm |-> FALSE]
SmNoMo == [st |-> "none", mr |-> 0]
SmNoRow == [st |-> "free", dest |-> 1, att |-> 0, exp |-> FALSE]

SmW == [db |-> smDb, pend |-> smPend, last |-> smLast, push |-> smPush,
        resend |-> smResend, sub |-> smSub, mt |-> smMt, mo |-> smMo,
        open |-> smOpen, submit |-> smSubmit]

SmBecome(new) == \E w \in {new} :
    /\ smDb' = w.db /\ smPend' = w.pend /\ smLast' = w.last
    /\ smPush' = w.push /\ smResend' = w.resend /\ smSub' = w.sub
    /\ smMt' = w.mt /\ smMo' = w.mo /\ smOpen' = w.open
    /\ smSubmit' = w.submit /\ UNCHANGED smCfg

SmInit ==
    /\ smDb = [i \in SmRows |-> SmNoRow]
    /\ smPend = <<>> /\ smLast = 0 /\ smPush = FALSE /\ smResend = FALSE
    /\ smSub = [s \in SmSubs |-> [lu |-> FALSE, paging |-> FALSE,
                                  conn |-> FALSE, mmts |-> FALSE]]
    /\ smMt = [s \in SmSubs |-> SmNoMt]
    /\ smMo = [s \in SmSubs |-> SmNoMo]
    /\ smOpen = [s \in SmSubs |-> 0]
    /\ smSubmit = [s \in SmSubs |-> 0]
    /\ smFaults = 0
    /\ smCfg \in SmConfigs

-----------------------------------------------------------------------------
\* The table SMS.

SmExists(w, i) == w.db[i].st \in {"unsent", "sent"}
SmUnsent(w) == {i \in SmRows : w.db[i].st = "unsent"}

\* db_sms_store(): ids grow (AUTOINCREMENT).  Fails when there is no row
\* left, which stands for an SQL error.
SmFreeRows(w) == {i \in SmRows : w.db[i].st = "free"}
SmStore(w, d) ==
    [w EXCEPT !.db[Min(SmFreeRows(w))] =
        [st |-> "unsent", dest |-> d, att |-> 0, exp |-> FALSE]]

SmDelete(w, ids) ==
    [w EXCEPT !.db = [i \in SmRows |->
        IF i \in ids /\ SmExists(w, i) THEN [@[i] EXCEPT !.st = "gone"]
                                       ELSE @[i]]]

SmMarkDelivered(w, i) == [w EXCEPT !.db[i].st = "sent"]

\* db_sms_inc_deliver_attempts(); the count stops where it makes no
\* difference any more.
SmIncAttempts(w, i) ==
    IF i \in SmRows /\ SmExists(w, i) /\ w.db[i].att <= SmAttempts
    THEN [w EXCEPT !.db[i].att = @ + 1] ELSE w

\* db_sms_get_unsent_for_subscr(vsub, INT_MAX): 0 for NULL.
SmUnsentFor(w, s) ==
    LET R == {i \in SmUnsent(w) : w.db[i].dest = s}
    IN IF w.sub[s].lu /\ R # {} THEN Min(R) ELSE 0

\* db_sms_get_next_unsent_rr_msisdn(): the next MSISDN that has a message,
\* and its first one.
SmNextRow(w, last) ==
    LET R == {i \in SmUnsent(w) : w.db[i].dest > last
                                  /\ w.db[i].att <= SmAttempts}
        D == {w.db[i].dest : i \in R}
    IN IF R = {} THEN 0 ELSE Min({i \in R : w.db[i].dest = Min(D)})

\* db_sms_delete_oldest_expired_message(); all rows have the same validity
\* period, so the oldest row has the lowest id.
SmDeleteOldestExpired(w) ==
    LET R == {i \in SmRows : SmExists(w, i)}
    IN IF R # {} /\ w.db[Min(R)].exp THEN SmDelete(w, {Min(R)}) ELSE w

-----------------------------------------------------------------------------
\* The list of pending messages.

SmPendIds(w) == {w.pend[k].id : k \in 1..Len(w.pend)}
SmPendSubs(w) == {w.pend[k].sub : k \in 1..Len(w.pend)}
SmPendOf(w, i) == CHOOSE k \in 1..Len(w.pend) : w.pend[k].id = i

SmPendingFrom(w, i) ==
    [w EXCEPT !.pend = Append(@, [id |-> i, sub |-> w.db[i].dest,
                                  failed |-> 0, resend |-> FALSE])]

SmPendingFree(w, i) ==
    [w EXCEPT !.pend = SelectSeq(@, LAMBDA p : p.id # i)]

SmTrigger(w) == [w EXCEPT !.push = TRUE]

SmPendingResend(w, i) ==
    [w EXCEPT !.pend[SmPendOf(w, i)].resend = TRUE, !.resend = TRUE]

SmPendingFailed(w, i) ==
    LET w1 == [w EXCEPT !.pend[SmPendOf(w, i)].failed = @ + 1]
    IN IF w1.pend[SmPendOf(w1, i)].failed < smCfg.fail
       THEN SmPendingResend(w1, i) ELSE SmPendingFree(w1, i)

\* smpp_sms_cb(): the SUBMIT-SM response of a message in forward mode.
SmTellEsme(w, s, m) ==
    IF m = SmEsme THEN [w EXCEPT !.submit[s] = @ - 1] ELSE w

\* S_SMS_UNKNOWN_ERROR and S_SMS_MEM_EXCEEDED at smpp_sms_cb() and
\* sms_sms_cb(); nothing sets paging_result.
SmError(w, s, m) ==
    LET w1 == SmTellEsme(w, s, m)
    IN IF m \in SmPendIds(w1)
       THEN SmDeleteOldestExpired(SmPendingFailed(w1, m)) ELSE w1

SmMemExceeded(w, s, m) ==
    LET w1 == SmTellEsme(w, s, m)
    IN IF m \in SmPendIds(w1)
       THEN SmDeleteOldestExpired(SmTrigger(SmPendingFree(w1, m))) ELSE w1

-----------------------------------------------------------------------------
\* Transactions.

SmOnConn(w, s) == w.mt[s].st = "data" \/ w.mo[s].st # "none"

\* gsm411_handle_mmts_ind()
SmMmtsInd(w, s) ==
    IF w.mt[s].mm = w.sub[s].mmts THEN w
    ELSE [w EXCEPT !.sub[s].mmts = w.mt[s].mm]

\* gsm411_gsup_mt_fwd_sm_res() and gsm411_gsup_mt_fwd_sm_err()
SmMtFwdAnswer(w, s) ==
    [w EXCEPT !.open[s] = @ - 1, !.mt[s].rsp = FALSE]

\* The MMTS use ends with the last SMS transaction of the connection.
SmPutMmts(w, s) == IF SmOnConn(w, s) THEN w ELSE [w EXCEPT !.sub[s].mmts = FALSE]

\* trans_free() and _gsm411_sms_trans_free() of the MT transaction; rel: the
\* connection is in release, where the message is discarded silently.
SmMutFreeMt(w, s, rel) ==
    LET t == w.mt[s]
        w2 == [w EXCEPT !.mt[s] = SmNoMt]
        w3 == IF t.sms = 0 \/ (t.st = "data" /\ rel) THEN w2
              ELSE SmError(w2, s, t.sms)
    IN IF t.st = "data" THEN SmPutMmts(w3, s) ELSE w3
SmFreeMt(w, s, rel) ==
    LET t == w.mt[s]
        w1 == IF smCfg.gsup /\ t.rsp THEN SmMtFwdAnswer(w, s) ELSE w
        w2 == [w1 EXCEPT !.mt[s] = SmNoMt]
        w3 == IF t.sms = 0 \/ (t.st = "data" /\ rel) THEN w2
              ELSE SmError(w2, s, t.sms)
    IN IF t.st = "data" THEN SmPutMmts(w3, s) ELSE w3

SmFreeMo(w, s) == SmPutMmts([w EXCEPT !.mo[s] = SmNoMo], s)

\* gsm411_alloc_mt_trans(): one SMS transaction per subscriber, MO included.
SmBusy(w, s) == w.mt[s].st # "none" \/ w.mo[s].st # "none"

\* gsm411_trans_init() of an MT transaction: on the connection, if any.
SmTransInit(w, s, m, mm) ==
    [w EXCEPT !.mt[s] = [st |-> IF w.sub[s].conn THEN "data" ELSE "page",
                         sms |-> m, rsp |-> FALSE, mm |-> mm]]

\* paging_request_start(): joins the paging that runs, or pages (pg: the
\* subscribers for which that succeeds).
SmCanPage(w, s, pg) == w.sub[s].paging \/ s \in pg

\* gsm411_mmsms_est_req()
SmEstReq(w, s, pg) ==
    CASE w.mt[s].st = "data" -> w
      [] w.mt[s].st = "page" /\ SmCanPage(w, s, pg) ->
           [w EXCEPT !.sub[s].paging = TRUE]
      [] OTHER -> SmFreeMt(w, s, FALSE)

\* gsm411_send_sms(): a busy subscriber's message is freed and stays in the
\* table, without any signal.
SmSend(w, s, m, pg) ==
    IF SmBusy(w, s) THEN w
    ELSE SmEstReq(SmIncAttempts(SmTransInit(w, s, m, FALSE), m), s, pg)

\* gsm411_send_rp_data(): no transaction afterwards if it fails.
SmSendRpData(w, s, mm, pg) ==
    LET w1 == SmEstReq(SmTransInit(w, s, 0, mm), s, pg)
    IN IF w1.mt[s].st = "none" THEN w1
       ELSE [IF w1.mt[s].st = "data" THEN SmMmtsInd(w1, s) ELSE w1
             EXCEPT !.mt[s].rsp = TRUE]

-----------------------------------------------------------------------------
\* The queue.

\* smsq_take_next_sms(): the next recipient after last that is attached and
\* has a message; the row (0: none) and the new last_msisdn.
RECURSIVE SmTakeNext(_, _, _, _)
SmTakeNext(w, last, started, wrapped) ==
    LET i == SmNextRow(w, last)
    IN CASE wrapped = 2 \/ (wrapped = 1 /\ last >= started) ->
              [id |-> 0, last |-> last]
         [] OTHER ->
              IF i = 0 THEN SmTakeNext(w, 0, started, wrapped + 1)
              ELSE IF ~w.sub[w.db[i].dest].lu
                   THEN SmTakeNext(w, w.db[i].dest, started, wrapped)
                   ELSE [id |-> i, last |-> w.db[i].dest]

\* The loop of sms_submit_pending(); first: the first subscriber seen.
RECURSIVE SmSubmitLoop(_, _, _, _)
SmSubmitLoop(w, left, first, pg) ==
    LET t == SmTakeNext(w, w.last, w.last, 0)
        w1 == [w EXCEPT !.last = t.last]
        s == w.db[t.id].dest
        f == IF first = 0 THEN s ELSE first
        Again(v, l) == IF l > 0 THEN SmSubmitLoop(v, l, f, pg) ELSE v
    IN CASE t.id = 0 -> w1
         [] t.id # 0 /\ first = s -> w1
         [] t.id # 0 /\ first # s /\ s \in SmPendSubs(w1) -> Again(w1, left)
         [] OTHER -> Again(SmSend(SmPendingFrom(w1, t.id), s, t.id, pg),
                           left - 1)

SmSubmitPending(w, pg) ==
    SmSubmitLoop(w, smCfg.max - Len(w.pend), 0, pg)

SmSendNext(w, s, pg) ==
    LET i == SmUnsentFor(w, s)
    IN IF i = 0 THEN SmSubmitPending(w, pg)
       ELSE SmSend(SmPendingFrom(w, i), s, i, pg)

\* sub_ready_for_sm(), on S_SUBSCR_ATTACHED
SmReadyForSm(w, s, pg) ==
    LET i == SmUnsentFor(w, s)
    IN IF s \in SmPendSubs(w) \/ i = 0 THEN w
       ELSE SmSend(SmPendingFrom(w, i), s, i, pg)

\* S_SMS_DELIVERED at smpp_sms_cb() and sms_sms_cb()
SmMutDelivered(w, s, m, pg) ==
    IF m \notin SmPendIds(w) THEN SmTellEsme(w, s, m)
    ELSE LET w1 == IF smCfg.del THEN SmDelete(w, {m}) ELSE SmMarkDelivered(w, m)
         IN SmDeleteOldestExpired(SmSubmitPending(w1, pg))
SmDelivered(w, s, m, pg) ==
    IF m \notin SmPendIds(w) THEN SmTellEsme(w, s, m)
    ELSE LET w1 == IF smCfg.del THEN SmDelete(w, {m}) ELSE SmMarkDelivered(w, m)
         IN SmDeleteOldestExpired(SmSendNext(SmPendingFree(w1, m), s, pg))

\* One entry of the list in sms_resend_pending()
SmResendOne(w, i, pg) ==
    LET k == SmPendOf(w, i)
        s == w.pend[k].sub
    IN CASE i \notin SmPendIds(w) \/ ~w.pend[k].resend -> w
         [] ~SmExists(w, i) -> SmTrigger(SmPendingFree(w, i))
         [] OTHER -> SmSend([w EXCEPT !.pend[k].resend = FALSE], s,
                            IF w.sub[s].lu THEN i ELSE SmBlank, pg)

SmResendPending(w, pg) ==
    FoldLeft(LAMBDA v, p : SmResendOne(v, p.id, pg), w, w.pend)

-----------------------------------------------------------------------------
\* Connections and paging.

\* evaluate_acceptance_outcome() with the connection accepted: a paging
\* response concludes the paging, then S_SUBSCR_ATTACHED.
SmPagingResponse(w, s) ==
    LET w1 == [w EXCEPT !.sub[s].paging = FALSE]
    IN IF w.mt[s].st = "page"
       THEN SmMmtsInd([w1 EXCEPT !.mt[s].st = "data"], s) ELSE w1

SmAccept(s, why, pg) ==
    /\ ~smSub[s].conn /\ s \in smCfg.subs
    /\ why \in {"LU", "CM", "PAGING_RESP"}
    /\ why # "LU" => smSub[s].lu
    /\ LET w1 == [SmW EXCEPT !.sub[s].conn = TRUE, !.sub[s].lu = TRUE]
           w2 == IF why = "PAGING_RESP" /\ smSub[s].paging
                 THEN SmPagingResponse(w1, s) ELSE w1
       IN SmBecome(SmReadyForSm(w2, s, pg))
    /\ UNCHANGED smFaults

\* paging_response_timer_cb() and paging_expired(): mmsms_paging_cb() with no
\* connection unplugs the transaction from the SMC and the SMR and frees it.
SmUnpage(w, s) ==
    LET m == w.mt[s].sms
        w1 == [w EXCEPT !.mt[s].sms = 0]
    IN SmFreeMt(IF m = 0 THEN w1 ELSE SmError(w1, s, m), s, FALSE)

SmExpirePaging(w, s) ==
    LET w1 == [w EXCEPT !.sub[s].paging = FALSE]
    IN IF w.mt[s].st = "page" THEN SmUnpage(w1, s) ELSE w1

SmPagingExpired(s) ==
    /\ smSub[s].paging
    /\ SmBecome(SmExpirePaging(SmW, s))
    /\ UNCHANGED smFaults

\* trans_conn_closed() for a connection in release
SmConnClosed(s) ==
    /\ smSub[s].conn
    /\ LET w1 == IF smMt[s].st = "data" THEN SmFreeMt(SmW, s, TRUE) ELSE SmW
           w2 == IF smMo[s].st # "none" THEN SmFreeMo(w1, s) ELSE w1
       IN SmBecome([w2 EXCEPT !.sub[s].conn = FALSE])
    /\ UNCHANGED smFaults

\* gsm48_rx_mm_imsi_detach_ind() ends the paging first.
SmDetach(s) ==
    /\ smSub[s].lu
    /\ LET w1 == IF smSub[s].paging THEN SmExpirePaging(SmW, s) ELSE SmW
       IN SmBecome([w1 EXCEPT !.sub[s].lu = FALSE])
    /\ UNCHANGED smFaults

-----------------------------------------------------------------------------
\* MT transactions.

\* RP-ACK: the SMR passes the report up before it asks for the release, so
\* the transaction is still listed while S_SMS_DELIVERED is handled.
SmRxRpAck(s, pg) ==
    /\ smMt[s].st = "data"
    /\ LET m == smMt[s].sms
           w1 == IF smCfg.gsup THEN SmMtFwdAnswer(SmW, s)
                 ELSE [SmDelivered(SmW, s, m, pg) EXCEPT !.mt[s].sms = 0]
       IN SmBecome(SmFreeMt(w1, s, FALSE))
    /\ UNCHANGED smFaults

SmRxRpError(s, mem) ==
    /\ smMt[s].st = "data"
    /\ LET m == smMt[s].sms
           w1 == IF smCfg.gsup THEN SmMtFwdAnswer(SmW, s)
                 ELSE [IF mem THEN SmMemExceeded(SmW, s, m)
                              ELSE SmError(SmW, s, m) EXCEPT !.mt[s].sms = 0]
       IN SmBecome(SmFreeMt(w1, s, FALSE))
    /\ UNCHANGED smFaults

\* TR1N, or TC1 after its last repetition, or a CP-ERROR: MMSMS-REL-REQ.
SmMtTimeout(s) ==
    /\ smMt[s].st \in {"page", "data"}
    /\ SmBecome(SmFreeMt(SmW, s, FALSE))
    /\ UNCHANGED smFaults

\* gsm411_sapi_n_reject(): a transaction of SMS over GSUP has no gsm_sms and
\* is left alone.
SmSapiReject(s) ==
    /\ smMt[s].st = "data" /\ smMt[s].sms # 0
    /\ LET w1 == SmError(SmW, s, smMt[s].sms)
       IN SmBecome(SmFreeMt([w1 EXCEPT !.mt[s].sms = 0], s, FALSE))
    /\ UNCHANGED smFaults

-----------------------------------------------------------------------------
\* MO transactions.

\* A new MO transaction; CP-DATA on it is the implicit CP-ACK of the others.
SmMoNew(w, s, st, mr) ==
    [SmFreeMo(w, s) EXCEPT !.mo[s] = [st |-> st, mr |-> mr]]

\* gsm340_rx_tpdu() and sms_route_mt_sms(): the TPDU is refused, handed to
\* an ESME, or stored for a local subscriber.
SmRxTpdu(w, s, d, out) ==
    CASE out = "error" -> SmMoNew(w, s, "ack", 0)
      [] out = "esme" -> SmMoNew(w, s, "wait", 0)
      [] OTHER -> SmTrigger(SmStore(SmMoNew(w, s, "ack", 0), d))

\* gsm411_rx_rp_ud(): over GSUP the transaction waits for the SMSC; else
\* RP-ACK or RP-ERROR follows, or waits for the ESME.
SmRxRpUd(w, s, d, out, mr) ==
    IF smCfg.gsup THEN SmMoNew(w, s, "wait", mr) ELSE SmRxTpdu(w, s, d, out)

SmRxRpData(s, d, out, mr) ==
    /\ "mo" \in smCfg.env /\ smSub[s].conn
    /\ IF smCfg.gsup THEN out = "store" ELSE mr = 0
    /\ (out = "store" /\ ~smCfg.gsup) => SmFreeRows(SmW) # {}
    /\ SmBecome(SmRxRpUd(SmW, s, d, out, mr))
    /\ UNCHANGED smFaults

\* RP-SMMA
SmRxRpSmma(s, mr) ==
    /\ "mo" \in smCfg.env /\ smSub[s].conn
    /\ ~smCfg.gsup => mr = 0
    /\ SmBecome(IF smCfg.gsup THEN SmMoNew(SmW, s, "wait", mr)
                ELSE SmTrigger(SmMoNew(SmW, s, "ack", mr)))
    /\ UNCHANGED smFaults

\* The response of the SMSC at gsm411_gsup_mo_handler().  The transaction is
\* looked up by SM-RP-MR, MT transactions included: theirs is the lowest
\* unused one, 0.
SmMoAnswer(s) ==
    /\ smCfg.gsup /\ smMo[s].st = "wait"
    /\ ~(smMt[s].st # "none" /\ smMo[s].mr = 0)
    /\ SmBecome([SmW EXCEPT !.mo[s].st = "ack"])
    /\ UNCHANGED smFaults

\* DELIVER-SM-RESP of the ESME: smpp_cmd_ack(), smpp_cmd_err()
SmEsmeAnswer(s) ==
    /\ ~smCfg.gsup /\ smMo[s].st = "wait"
    /\ SmBecome([SmW EXCEPT !.mo[s].st = "ack"])
    /\ UNCHANGED smFaults

\* The last CP-ACK, or a timer of the SMC or the SMR
SmMoEnd(s) ==
    /\ smMo[s].st # "none"
    /\ SmBecome(SmFreeMo(SmW, s))
    /\ UNCHANGED smFaults

-----------------------------------------------------------------------------
\* Requests from the SMSC and from ESMEs.

\* gsm411_gsup_mt_handler(): a request that cannot be sent is answered with
\* an error at once.
SmMtForward(s, mm, pg) ==
    /\ smCfg.gsup /\ smOpen[s] < 2 /\ s \in smCfg.subs
    /\ LET w1 == SmSendRpData(SmW, s, mm, pg)
           ok == ~SmBusy(SmW, s) /\ w1.mt[s].st # "none"
       IN SmBecome(IF ok THEN [w1 EXCEPT !.open[s] = @ + 1] ELSE SmW)
    /\ UNCHANGED smFaults

\* handle_smpp_submit(): stored, or forwarded at once with the response left
\* to smpp_sms_cb().
SmSubmitStore(s) ==
    /\ ~smCfg.gsup /\ SmFreeRows(SmW) # {} /\ s \in smCfg.subs
    /\ SmBecome(SmTrigger(SmStore(SmW, s)))
    /\ UNCHANGED smFaults

SmSubmitForward(s, pg) ==
    /\ "esme" \in smCfg.env /\ smSubmit[s] = 0 /\ s \in smCfg.subs
    /\ SmBecome(SmSend([SmW EXCEPT !.submit[s] = @ + 1], s, SmEsme, pg))
    /\ UNCHANGED smFaults

-----------------------------------------------------------------------------
\* Timers, the operator, time and restarts.

SmPushTimer(pg) ==
    /\ smPush
    /\ SmBecome(SmSubmitPending([SmW EXCEPT !.push = FALSE], pg))
    /\ UNCHANGED smFaults

SmResendTimer(pg) ==
    /\ smResend
    /\ SmBecome(SmResendPending([SmW EXCEPT !.resend = FALSE], pg))
    /\ UNCHANGED smFaults

\* The validity periods are equal, so rows expire in the order of their ids.
SmExpire(i) ==
    /\ "time" \in smCfg.env /\ SmExists(SmW, i) /\ ~smDb[i].exp
    /\ \A j \in 1..(i - 1) : SmExists(SmW, j) => smDb[j].exp
    /\ SmBecome([SmW EXCEPT !.db[i].exp = TRUE])
    /\ UNCHANGED smFaults

SmFault == /\ "operator" \in smCfg.env /\ smFaults < SmMaxFaults
           /\ smFaults' = smFaults + 1

\* "sms-queue clear" and "subscriber ... sms delete-all".  "... pending-send",
\* "sms send pending" and "sms delete expired" never find a row: they pass
\* UINT_MAX, which is -1 in the int max_failed.
SmVtyClear == SmFault /\ smPend # <<>> /\ SmBecome([SmW EXCEPT !.pend = <<>>])

SmVtyDeleteAll(s) ==
    /\ SmFault
    /\ SmBecome(SmDelete(SmW, {i \in SmRows : smDb[i].dest = s}))

\* A restart: the table stays, sms_queue_start() reads it after
\* sgs_iface_restore_assocs() has restored the subscribers R.
SmRestart(R, pg) ==
    /\ SmFault
    /\ R \subseteq {s \in SmSubs : smSub[s].lu}
    /\ SmBecome(SmSubmitPending(
         [SmW EXCEPT !.pend = <<>>, !.last = 0, !.push = FALSE,
            !.resend = FALSE, !.mt = [s \in SmSubs |-> SmNoMt],
            !.mo = [s \in SmSubs |-> SmNoMo], !.open = [s \in SmSubs |-> 0],
            !.submit = [s \in SmSubs |-> 0],
            !.sub = [s \in SmSubs |-> [lu |-> s \in R, paging |-> FALSE,
                                       conn |-> FALSE, mmts |-> FALSE]]], pg))

-----------------------------------------------------------------------------
\* gsm411_rx_rl_report(), gsm411_rx_rl_data() and gsm411_gsup_rx()
SmRlReport(s) == \/ \E pg \in SUBSET SmSubs : SmRxRpAck(s, pg)
                 \/ \E mem \in BOOLEAN : SmRxRpError(s, mem)

SmRlData(s) ==
    \E mr \in 0..1 :
        \/ \E d \in smCfg.subs, out \in {"esme", "error", "store"} :
             SmRxRpData(s, d, out, mr)
        \/ SmRxRpSmma(s, mr)

SmGsupRx(s) == \/ \E mm \in BOOLEAN, pg \in SUBSET SmSubs : SmMtForward(s, mm, pg)
               \/ SmMoAnswer(s)

SmNext ==
    \/ \E s \in SmSubs, pg \in SUBSET SmSubs :
         \/ \E why \in {"LU", "CM", "PAGING_RESP"} : SmAccept(s, why, pg)
         \/ SmSubmitForward(s, pg)
    \/ \E s \in SmSubs :
         \/ SmRlReport(s) \/ SmRlData(s) \/ SmGsupRx(s)
         \/ SmPagingExpired(s) \/ SmConnClosed(s) \/ SmDetach(s)
         \/ SmMtTimeout(s) \/ SmSapiReject(s)
         \/ SmEsmeAnswer(s) \/ SmMoEnd(s)
         \/ SmSubmitStore(s) \/ SmVtyDeleteAll(s)
    \/ \E pg \in SUBSET SmSubs :
         \/ SmPushTimer(pg) \/ SmResendTimer(pg)
         \/ \E R \in SUBSET SmSubs : SmRestart(R, pg)
    \/ \E i \in SmRows : SmExpire(i)
    \/ SmVtyClear

SmSpec == SmInit /\ [][SmNext]_smVars

\* The timers run: T-4 of the paging, TR1N and TC1 of a transaction; for the
\* queue also its own two and those that end an MO transaction.
SmFair ==
    \A s \in SmSubs : WF_smVars(SmPagingExpired(s)) /\ WF_smVars(SmMtTimeout(s))
SmQueueFair ==
    /\ \A s \in SmSubs : WF_smVars(SmMoEnd(s))
    /\ WF_smVars(\E pg \in SUBSET SmSubs : SmPushTimer(pg))
    /\ WF_smVars(\E pg \in SUBSET SmSubs : SmResendTimer(pg))

-----------------------------------------------------------------------------
\* Properties.

\* The types of the variables.
SmTypeOK ==
    /\ smDb \in [SmRows -> [st : {"free", "unsent", "sent", "gone"},
                            dest : SmSubs, att : 0..(SmAttempts + 1),
                            exp : BOOLEAN]]
    /\ \A k \in 1..Len(smPend) :
         smPend[k] \in [id : SmRows, sub : SmSubs, failed : 0..(smCfg.fail - 1),
                        resend : BOOLEAN]
    /\ smLast \in 0..SmN /\ smPush \in BOOLEAN /\ smResend \in BOOLEAN
    /\ smSub \in [SmSubs -> [lu : BOOLEAN, paging : BOOLEAN, conn : BOOLEAN,
                             mmts : BOOLEAN]]
    /\ smMt \in [SmSubs -> [st : {"none", "page", "data"}, sms : 0..SmEsme,
                            rsp : BOOLEAN, mm : BOOLEAN]]
    /\ smMo \in [SmSubs -> [st : {"none", "wait", "ack"}, mr : 0..1]]
    /\ smOpen \in [SmSubs -> 0..2] /\ smSubmit \in [SmSubs -> 0..1]
    /\ smFaults \in 0..SmMaxFaults /\ smCfg \in SmConfigs

\* A message is in one hand at most: the list never holds two messages for one
\* subscriber nor one message twice (what sms_send_next() asserts before it adds
\* another, and sms_subscriber_find_pending() relies on), and one recorded as
\* delivered is in no entry and no transaction that would send it again.
SmSentOnce ==
    /\ \A j, k \in 1..Len(smPend) :
         j # k => smPend[j].id # smPend[k].id /\ smPend[j].sub # smPend[k].sub
    /\ \A i \in SmRows : smDb[i].st = "sent" =>
         i \notin SmPendIds(SmW) /\ \A s \in SmSubs : smMt[s].sms # i

\* Every MT-forwardSM request of the SMSC is answered once: the requests not
\* answered are exactly the ones a transaction still has to answer.
SmForwardAnswered ==
    \A s \in SmSubs : smOpen[s] = (IF smMt[s].rsp THEN 1 ELSE 0)

\* Every MT transaction ends, paged or not, and so does the use
\* MSC_A_USE_SMS_MMTS that keeps a connection for more messages, unless an MO
\* transaction is still on it (the leak _gsm411_sms_trans_free() describes).
SmTransEnds ==
    \A s \in SmSubs : /\ smMt[s].st # "none" ~> smMt[s].st = "none"
                      /\ smSub[s].mmts ~> (~smSub[s].mmts \/ smMo[s].st # "none")

\* A pending message is tried again and again until it leaves the list: it
\* never stays there with no transaction and no resend ahead of it (struct
\* gsm_sms_pending: "While this object exists in RAM, we are regularly
\* attempting to deliver the related SMS").
SmTried(i) ==
    \/ \E k \in 1..Len(smPend) : smPend[k].id = i /\ smPend[k].resend
    \/ \E s \in SmSubs : smMt[s].sms \in {i, SmBlank}
SmPendingTried ==
    \A i \in SmRows : i \in SmPendIds(SmW) ~> (SmTried(i) \/ i \notin SmPendIds(SmW))
=============================================================================
