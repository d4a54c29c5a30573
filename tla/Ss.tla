--------------------------------- MODULE Ss ---------------------------------
(***************************************************************************)
(* Call independent supplementary services and USSD of one subscriber      *)
(* (gsm_09_11.c): sessions between the MS and an external USSD entity      *)
(* (EUSE) behind the HLR, the connection they use, paging, and the guard   *)
(* timer of each session.  Contents of the Facility IE are left out; a     *)
(* message either has one that is long enough or not.                      *)
(***************************************************************************)
EXTENDS Integers, FiniteSets

CONSTANTS
  SsMtN,      \* how many transaction ids trans_assign_trans_id() gives out
  SsMoTids,   \* transaction ids of the MS
  SsSids,     \* session ids the EUSE begins sessions with
  SsMaxCm,    \* bound: CM Service Requests for SS that are pending
  SsMaxMsgs,  \* bound: messages of the MS and of the EUSE
  SsMaxVty    \* bound: changes of the guard timeout in the VTY

\* The ids of the EUSE are not those of new_callref.
ASSUME SsAssumption ==
  /\ SsMtN \in Nat \ {0} /\ SsMoTids \subseteq Nat /\ IsFiniteSet(SsMoTids)
  /\ \A t \in SsMoTids : t >= SsMtN
  /\ SsMaxMsgs \in Nat /\ SsMaxCm \in Nat /\ SsMaxVty \in Nat
  /\ SsSids \subseteq Nat /\ SsSids \cap (0..SsMaxMsgs) = {}

VARIABLES
  ssTr,     \* the TRANS_USSD transactions by transaction id
  ssConn,   \* the MSC-A role: open, uses CM_SERVICE_SS, NC_SS and others
  ssGauge,  \* MSC_STAT_ACTIVE_NC_SS
  ssNext,   \* new_callref
  ssGuard,  \* net->ncss_guard_timeout > 0
  ssOff,    \* whether the guard timeout was ever 0
  ssMsgs, ssVty  \* budgets

ssVars == <<ssTr, ssConn, ssGauge, ssNext, ssGuard, ssOff, ssMsgs, ssVty>>

SsMtTids == 0..(SsMtN - 1)
SsTids == SsMtTids \cup SsMoTids
SsNoTrans ==
  [used |-> FALSE, sid |-> 0, conn |-> FALSE, paging |-> FALSE, msg |-> FALSE,
   guard |-> FALSE]
SsNoConn == [open |-> FALSE, cm |-> 0, nc |-> 0, other |-> FALSE]

-----------------------------------------------------------------------------
(* A state is passed through the functions as a record.                    *)

SsW == [tr |-> ssTr, conn |-> ssConn, gauge |-> ssGauge]

SsBecome(new) ==
  \E w \in {new} : ssTr' = w.tr /\ ssConn' = w.conn /\ ssGauge' = w.gauge

\* msc_a_put(): a connection without uses is released.
SsUnused(w) ==
  IF w.conn.cm = 0 /\ w.conn.nc = 0 /\ ~w.conn.other
    THEN [w EXCEPT !.conn = SsNoConn] ELSE w

\* An earlier CM Service Request for SS has concluded.
SsPutCm(w) ==
  IF w.conn.cm > 0 THEN SsUnused([w EXCEPT !.conn.cm = @ - 1]) ELSE w

\* trans_free() and _gsm911_nc_ss_trans_free()
SsTransFree(w, t) ==
  LET c  == w.tr[t].conn
      w1 == [w EXCEPT !.tr[t] = SsNoTrans, !.gauge = @ - 1]
  IN IF c THEN SsUnused([w1 EXCEPT !.conn.nc = @ - 1]) ELSE w1

\* (Re)schedule the inactivity timer.
SsReschedule(w, t) == IF ssGuard THEN [w EXCEPT !.tr[t].guard = TRUE] ELSE w

-----------------------------------------------------------------------------
(* The MS.                                                                 *)

\* gsm0911_rcv_nc_ss(): a REGISTER on an unused transaction id begins a session.
SsMoBegin(w, t) ==
  SsPutCm([w EXCEPT !.tr[t] = [SsNoTrans EXCEPT !.used = TRUE, !.sid = ssNext,
                                                !.conn = TRUE],
                    !.gauge = @ + 1, !.conn.nc = @ + 1])

\* gsm0911_rcv_nc_ss(): a message whose Facility IE is missing ends the session;
\* the EUSE is told of RELEASE COMPLETE only.
SsMoHandle(w, t, type, ok) ==
  LET w1 == SsReschedule(w, t)
  IN IF ~ok \/ type = "RELEASE_COMPLETE" THEN SsTransFree(w1, t) ELSE w1

SsRcvNcSs(t, type, ok) ==
  /\ ssConn.open /\ ssMsgs > 0
  /\ LET new == ~ssTr[t].used
     IN /\ SsBecome(IF ~new THEN SsMoHandle(SsW, t, type, ok)
                    ELSE IF type = "REGISTER"
                      THEN SsMoHandle(SsMoBegin(SsW, t), t, type, ok)
                    ELSE SsPutCm(SsW))
        /\ ssNext' = IF new /\ type = "REGISTER" THEN ssNext + 1 ELSE ssNext
  /\ ssMsgs' = ssMsgs - 1
  /\ UNCHANGED <<ssGuard, ssOff, ssVty>>

-----------------------------------------------------------------------------
(* The EUSE.                                                               *)

\* trans_find_by_callref()
SsBySid(sid) == {t \in SsTids : ssTr[t].used /\ ssTr[t].sid = sid}

SsFreeTids == {t \in SsMtTids : ~ssTr[t].used}

\* trans_assign_trans_id(): the first free one in a circle that begins at the
\* highest one in use.
SsAssignTid ==
  LET h    == CHOOSE t \in SsMtTids : /\ t \notin SsFreeTids \/ t = 0
                                     /\ \A u \in SsMtTids \ SsFreeTids : t >= u
      free == {i \in SsMtTids : (h + i) % SsMtN \in SsFreeTids}
  IN (h + CHOOSE i \in free : \A j \in free : i <= j) % SsMtN

\* gsm0911_gsup_rx() for a session: a message the MS cannot be sent is only
\* answered by an error, and does not end the session.
SsForward(w, t, state) ==
  LET w1 == SsReschedule(w, t)
  IN IF state = "END" /\ w1.tr[t].conn THEN SsTransFree(w1, t) ELSE w1

\* establish_nc_ss_trans(): on the connection there is, or by paging, which may
\* fail to start.
SsEstablish(w, t, sid, paged) ==
  LET w1 == [w EXCEPT !.tr[t] = [SsNoTrans EXCEPT !.used = TRUE, !.sid = sid],
                      !.gauge = @ + 1]
  IN IF w.conn.open
       THEN SsForward([w1 EXCEPT !.tr[t].conn = TRUE, !.conn.nc = @ + 1], t, "BEGIN")
     ELSE IF paged THEN [w1 EXCEPT !.tr[t].paging = TRUE, !.tr[t].msg = TRUE]
     ELSE SsTransFree(w1, t)

\* gsm0911_gsup_rx(), a message of the session
SsGsupRx(sid, state) ==
  /\ ssMsgs > 0 /\ ssMsgs' = ssMsgs - 1
  /\ \E t \in SsBySid(sid) : SsBecome(SsForward(SsW, t, state))
  /\ UNCHANGED <<ssNext, ssGuard, ssOff, ssVty>>

\* gsm0911_gsup_rx(), an error from the HLR or the EUSE
SsGsupError(sid) ==
  /\ ssMsgs > 0 /\ ssMsgs' = ssMsgs - 1
  /\ \E t \in SsBySid(sid) : SsBecome(SsTransFree(SsW, t))
  /\ UNCHANGED <<ssNext, ssGuard, ssOff, ssVty>>

\* gsm0911_gsup_rx(), BEGIN of a session that there is not.  Any other message
\* is answered by an error and changes nothing.
SsGsupBegin(sid, paged) ==
  /\ ssMsgs > 0 /\ ssMsgs' = ssMsgs - 1
  /\ SsBySid(sid) = {} /\ SsFreeTids # {}
  /\ (\E t \in SsTids : ssTr[t].paging) => paged
  /\ SsBecome(SsEstablish(SsW, SsAssignTid, sid, paged))
  /\ UNCHANGED <<ssNext, ssGuard, ssOff, ssVty>>

-----------------------------------------------------------------------------
(* Paging, the guard timer and the connection.                             *)

\* Mutant: the guard timer is not started with the session.
SsMutPaged(w, t) ==
  [w EXCEPT !.tr[t].conn = TRUE, !.tr[t].paging = FALSE, !.tr[t].msg = FALSE,
            !.conn.nc = @ + 1]

\* ss_paging_cb() with a connection: the stored message is sent.
SsPaged(w, t) ==
  SsReschedule([w EXCEPT !.tr[t].conn = TRUE, !.tr[t].paging = FALSE,
                         !.tr[t].msg = FALSE, !.conn.nc = @ + 1], t)

\* A function applied to all sessions of a set: paging_concludes() and
\* trans_conn_closed() walk through them.
SsAll(Op(_, _), w, S) ==
  LET walk[U \in SUBSET S] ==
        IF U = {} THEN w
        ELSE LET t == CHOOSE u \in U : \A v \in U : u >= v
             IN Op(walk[U \ {t}], t)
  IN walk[S]

SsPagingSet == {t \in SsTids : ssTr[t].paging}

\* paging_response()
SsPagingResponse ==
  /\ SsPagingSet # {} /\ ~ssConn.open
  /\ SsBecome(SsAll(SsPaged, [SsW EXCEPT !.conn.open = TRUE], SsPagingSet))
  /\ UNCHANGED <<ssNext, ssGuard, ssOff, ssMsgs, ssVty>>

\* ss_paging_cb() without a connection: the EUSE is told.
SsPagingExpired ==
  /\ SsPagingSet # {}
  /\ SsBecome(SsAll(SsTransFree, SsW, SsPagingSet))
  /\ UNCHANGED <<ssNext, ssGuard, ssOff, ssMsgs, ssVty>>

\* Mutant: the session is left to the answer of the MS.
SsMutTimeout(t) ==
  /\ ssTr[t].guard
  /\ SsBecome(IF ssTr[t].conn \/ ~ssGuard
                THEN [SsW EXCEPT !.tr[t].guard = FALSE] ELSE SsTransFree(SsW, t))
  /\ UNCHANGED <<ssNext, ssGuard, ssOff, ssMsgs, ssVty>>

\* ncss_session_timeout_handler(): nothing if it has been switched off.
SsTimeout(t) ==
  /\ ssTr[t].guard
  /\ SsBecome(IF ssGuard THEN SsTransFree(SsW, t)
              ELSE [SsW EXCEPT !.tr[t].guard = FALSE])
  /\ UNCHANGED <<ssNext, ssGuard, ssOff, ssMsgs, ssVty>>

\* "ncss guard-timeout" in the VTY
SsVtyGuard ==
  /\ ssVty > 0 /\ ssVty' = ssVty - 1
  /\ ssGuard' = ~ssGuard /\ ssOff' = TRUE
  /\ UNCHANGED <<ssTr, ssConn, ssGauge, ssNext, ssMsgs>>

\* A CM Service Request for SS is accepted, on a new or on the same connection.
SsCmService ==
  /\ ssConn.cm < SsMaxCm
  /\ ssConn' = [ssConn EXCEPT !.open = TRUE, !.cm = @ + 1]
  /\ UNCHANGED <<ssTr, ssGauge, ssNext, ssGuard, ssOff, ssMsgs, ssVty>>

\* Another service begins or ends to use the connection.
SsOtherUse ==
  /\ ssConn.open
  /\ SsBecome(SsUnused([SsW EXCEPT !.conn.other = ~@]))
  /\ UNCHANGED <<ssNext, ssGuard, ssOff, ssMsgs, ssVty>>

\* trans_conn_closed(): the connection is lost and its sessions with it.
SsConnClosed ==
  /\ ssConn.open
  /\ SsBecome([SsAll(SsTransFree, SsW, {t \in SsTids : ssTr[t].conn})
                 EXCEPT !.conn = SsNoConn])
  /\ UNCHANGED <<ssNext, ssGuard, ssOff, ssMsgs, ssVty>>

\* trans_free_for_vsub(): the record of the subscriber is discarded for another,
\* after the paging has been made to expire.
SsVsubDiscarded ==
  /\ \E t \in SsTids : ssTr[t].used
  /\ SsBecome(SsAll(SsTransFree, SsW, {t \in SsTids : ssTr[t].used}))
  /\ UNCHANGED <<ssNext, ssGuard, ssOff, ssMsgs, ssVty>>

-----------------------------------------------------------------------------
SsInit ==
  /\ ssTr = [t \in SsTids |-> SsNoTrans]
  /\ ssConn = SsNoConn /\ ssGauge = 0 /\ ssNext = 1
  /\ ssGuard = TRUE /\ ssOff = FALSE
  /\ ssMsgs = SsMaxMsgs /\ ssVty = SsMaxVty

SsNext ==
  \/ \E t \in SsTids, type \in {"REGISTER", "FACILITY", "RELEASE_COMPLETE"},
        ok \in BOOLEAN : SsRcvNcSs(t, type, ok)
  \/ \E sid \in SsSids \cup 1..SsMaxMsgs :
       \/ \E state \in {"BEGIN", "CONTINUE", "END", "NONE"} :
            SsGsupRx(sid, state)
       \/ SsGsupError(sid)
  \/ \E sid \in SsSids, paged \in BOOLEAN : SsGsupBegin(sid, paged)
  \/ SsPagingResponse
  \/ SsPagingExpired
  \/ \E t \in SsTids : SsTimeout(t)
  \/ SsVtyGuard
  \/ SsCmService
  \/ SsOtherUse
  \/ SsConnClosed
  \/ SsVsubDiscarded

SsSpec == SsInit /\ [][SsNext]_ssVars

\* The event loop runs every timer.
SsFair ==
  /\ \A t \in SsTids : WF_ssVars(SsTimeout(t))
  /\ WF_ssVars(SsPagingExpired)

-----------------------------------------------------------------------------
(* Properties.                                                             *)

\* The state stays within its types; a freed transaction leaves nothing behind.
SsTypeOK ==
  /\ \A t \in SsTids :
       /\ ssTr[t] \in [used : BOOLEAN, sid : Nat, conn : BOOLEAN, paging : BOOLEAN,
                       msg : BOOLEAN, guard : BOOLEAN]
       /\ ~ssTr[t].used => ssTr[t] = SsNoTrans
  /\ ssConn \in [open : BOOLEAN, cm : 0..SsMaxCm, nc : 0..Cardinality(SsTids),
                 other : BOOLEAN]
  /\ ~ssConn.open => ssConn = SsNoConn
  /\ ssGauge \in Int /\ ssNext \in Nat /\ ssGuard \in BOOLEAN /\ ssOff \in BOOLEAN

\* A session is never left to itself: it has a connection, which it holds once
\* and whose guard timer runs unless the timeout was switched off, or is paged
\* for with the message that ss_paging_cb() asserts and sends; and however
\* sessions end, the gauge of active ones counts them (trans_free()).
SsAttended ==
  /\ \A t \in SsTids : ssTr[t].used =>
       /\ ssTr[t].conn # ssTr[t].paging
       /\ ssTr[t].paging => ssTr[t].msg
       /\ ssTr[t].conn => ssTr[t].guard \/ ssOff
  /\ ssConn.nc = Cardinality({t \in SsTids : ssTr[t].conn})
  /\ ssGauge = Cardinality({t \in SsTids : ssTr[t].used})

\* A session ends when the MS and the EUSE fall silent, by its guard timer or by
\* the paging timer, whatever state they left it in.
SsEnds == \A t \in SsTids : ssTr[t].used ~> (~ssTr[t].used \/ ssOff)
=============================================================================
