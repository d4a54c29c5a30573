---------------------------- MODULE CallControl ----------------------------
(***************************************************************************)
(* The calls of one subscriber: the CC transactions (gsm_04_08_cc.c,       *)
(* transaction.c), their interface to the call router MNCC, and the radio  *)
(* channel assignment of the connection they share (msc_a.c).              *)
(*                                                                         *)
(* A handler is an operator on w, the record of the variables below; it    *)
(* performs the calls the event loop nests in it, so each action is one    *)
(* message, MGW answer or timer.  A transaction is named by its callref.   *)
(* Message contents, causes and codec lists are left out: where the code   *)
(* branches on them, the outcome is an input of the action.  The inside of *)
(* a call leg is CallLeg, the establishment of a connection MmConn.        *)
(***************************************************************************)
EXTENDS Integers, FiniteSets, FiniteSetsExt

CONSTANTS CcMoCalls,   \* the callrefs that the MSC gives out, bit 31 set
          CcMtCalls,   \* the callrefs that MNCC gives out
          CcConfigs,   \* what ccCfg may be
          CcNone,      \* no call
          CcTids,      \* the transaction ids of mobile terminated calls (7)
          CcMaxLeaks   \* bound on the calls refused because of a busy MS

CcCalls == CcMoCalls \cup CcMtCalls

ASSUME CcAssumption ==
  /\ IsFiniteSet(CcCalls) /\ CcNone \notin CcCalls
  /\ CcMoCalls \cap CcMtCalls = {}
  /\ CcConfigs \subseteq [waiting : BOOLEAN, calls : SUBSET CcCalls, other : BOOLEAN]
  /\ CcTids \in Nat \ {0} /\ CcMaxLeaks \in Nat

VARIABLES ccCalls,  \* ccCalls[c]: the transaction of callref c
          ccConn,   \* the connection (msc_a), its call leg and assignment
          ccMncc,   \* ccMncc[c]: what MNCC believes about callref c
          ccVsub,   \* the uses that CC holds of the VLR record
          ccStat,   \* MSC_STAT_ACTIVE_CALLS
          ccLeaks,  \* how often a busy subscriber's use was not put back
          ccUb,     \* a freed transaction was used: anything may follow
          ccCfg     \* call_waiting, the callrefs in play and whether other services
                    \* come to use the connection, fixed at the start
ccVars == <<ccCalls, ccConn, ccMncc, ccVsub, ccStat, ccLeaks, ccUb, ccCfg>>

CcStates == {"FREE", "NULL", "INITIATED", "MO_CALL_PROC", "CALL_DELIVERED",
             "CALL_PRESENT", "CALL_RECEIVED", "CONNECT_REQUEST",
             "MO_TERM_CALL_CONF", "ACTIVE", "DISCONNECT_REQ", "DISCONNECT_IND",
             "RELEASE_REQ", "MO_ORIG_MODIFY", "MO_TERM_MODIFY", "CONNECT_IND"}
CcTimers == {"none", "T301", "T303", "T306", "T308", "T310", "T313", "T323"}
CcMoTi == CcTids      \* the one transaction id the MS itself uses
CcNoTi == CcTids + 1  \* TRANS_ID_UNASSIGNED

CcNoTrans == [st |-> "FREE", tm |-> "none", second |-> FALSE, guard |-> FALSE,
              conn |-> FALSE, paging |-> FALSE, ref |-> FALSE, init |-> FALSE,
              ti |-> CcNoTi, setup |-> FALSE, asg |-> FALSE]
CcNoConn == [up |-> FALSE, cm |-> FALSE, other |-> FALSE, uses |-> 0,
             active |-> CcNone, leg |-> FALSE, cn |-> "no", ran |-> "no",
             for |-> CcNone, pend |-> FALSE]

CcW == [calls |-> ccCalls, conn |-> ccConn, mncc |-> ccMncc, vsub |-> ccVsub,
        stat |-> ccStat, leaks |-> ccLeaks, ub |-> ccUb]

CcLive(w, c) == w.calls[c].st # "FREE"

-----------------------------------------------------------------------------
(* State changes and messages to MNCC.                                     *)

\* new_cc_state() with count_statistics().
CcNewState(w, c, s) ==
  [w EXCEPT !.calls[c].st = s,
            !.calls[c].guard = IF s = "ACTIVE" THEN FALSE ELSE @,
            !.stat = @ + (IF s = "ACTIVE" /\ w.calls[c].st # s THEN 1 ELSE 0)
                       - (IF w.calls[c].st = "ACTIVE" /\ s # "ACTIVE"
                            THEN 1 ELSE 0)]

CcTimer(w, c, t) == [w EXCEPT !.calls[c].tm = t]

CcFinal == {"REL_IND", "REL_CNF", "REJ_IND"}

\* mncc_recvmsg() for a transaction: its callref, if it still has one, tells
\* MNCC which call is meant.  A message for a call that MNCC takes to have
\* ended, other than the one that opens a call, is a stray.
CcToMncc(w, c, m) ==
  [w EXCEPT !.calls[c].init = TRUE,
            !.mncc[c] = IF ~w.calls[c].ref THEN @
                        ELSE IF @ \in {"idle", "stray"} /\ m # "SETUP_IND"
                               THEN "stray"
                        ELSE IF m \in CcFinal THEN "idle" ELSE "open"]

\* mncc_release_ind()
CcReleaseInd(w, c) ==
  CcToMncc(w, c, IF w.calls[c].st = "RELEASE_REQ" THEN "REL_CNF" ELSE "REL_IND")

CcDropRef(w, c) == [w EXCEPT !.calls[c].ref = FALSE]

-----------------------------------------------------------------------------
(* The end of a transaction and of the connection.                         *)

\* Mutant: a transaction whose callref was dropped keeps its use of the record.
CcMutTransFree(w, c) ==
  LET r  == w.calls[c]
      w1 == IF r.ref /\ r.init THEN CcReleaseInd(w, c) ELSE w
      w2 == CcNewState(w1, c, "NULL")
  IN [w2 EXCEPT !.calls[c] = CcNoTrans, !.vsub = IF r.ref THEN @ - 1 ELSE @,
                !.mncc[c] = IF @ = "new" THEN "idle" ELSE @,
                !.conn.uses = IF r.conn THEN @ - 1 ELSE @,
                !.conn.active = IF r.conn /\ @ = c THEN CcNone ELSE @]

\* trans_free() with _gsm48_cc_trans_free(), up to the connection's last use.
\* The RELEASE that it sends to the MS leaves no trace: the timer it starts is
\* stopped again.
CcTransFree(w, c) ==
  LET r  == w.calls[c]
      w1 == IF r.ref /\ r.init THEN CcReleaseInd(w, c) ELSE w
      w2 == CcNewState(w1, c, "NULL")
  IN [w2 EXCEPT !.calls[c] = CcNoTrans, !.vsub = @ - 1,
                !.mncc[c] = IF @ = "new" THEN "idle" ELSE @,
                !.conn.uses = IF r.conn THEN @ - 1 ELSE @,
                !.conn.active = IF r.conn /\ @ = c THEN CcNone ELSE @]

CcFreeAll(w, C) == FoldSet(LAMBDA c, v : CcTransFree(v, c), w, C)

CcNoLeg(w) == [w EXCEPT !.conn.leg = FALSE, !.conn.cn = "no",
                        !.conn.ran = "no", !.conn.for = CcNone]

\* Mutant: the assignment timer keeps running.
CcMutConnRelease(w) ==
  LET w1 == CcNoLeg(w)
      w2 == CcFreeAll(w1, {c \in CcCalls : w1.calls[c].conn})
  IN [w2 EXCEPT !.conn = [CcNoConn EXCEPT !.uses = w2.conn.uses, !.pend = w2.conn.pend]]

\* msc_a_fsm_releasing_onenter(): the assignment timer and the call leg first,
\* then trans_conn_closed() frees every transaction of the connection.
CcConnRelease(w) ==
  LET w1 == CcNoLeg([w EXCEPT !.conn.pend = FALSE])
      w2 == CcFreeAll(w1, {c \in CcCalls : w1.calls[c].conn})
  IN [w2 EXCEPT !.conn = [CcNoConn EXCEPT !.uses = w2.conn.uses]]

\* msc_a_put(): the connection is released with its last use.
CcPut(w) ==
  IF w.conn.up /\ w.conn.uses = 0 /\ ~w.conn.cm /\ ~w.conn.other
    THEN CcConnRelease(w) ELSE w

CcFree(w, c) == CcPut(CcTransFree(w, c))

-----------------------------------------------------------------------------
(* Call leg and assignment.  in.mgw: an MGW endpoint can be had; in.fit: the *)
(* codecs fit and the Assignment Command can be sent.                      *)

\* call_leg_ensure_ci() for one side: a stream that does not exist yet is
\* created for this transaction and asked of the MGW.
CcEnsureCi(w, side, c) ==
  IF side = "cn"
    THEN IF w.conn.cn # "no" THEN w
         ELSE [w EXCEPT !.conn.cn = "wait", !.conn.for = c]
    ELSE IF w.conn.ran # "no" THEN w ELSE [w EXCEPT !.conn.ran = "wait"]

\* A transaction starts an assignment on a connection without call leg
\* addresses: the part of msc_a_start_assignment() that a waiting call meets.
CcStartFresh(w, c, mgw) ==
  LET w1 == [w EXCEPT !.conn.active = c, !.conn.leg = TRUE, !.calls[c].asg = FALSE]
  IN IF mgw THEN CcEnsureCi(CcEnsureCi(w1, "cn", c), "ran", c) ELSE w1

\* find_waiting_call()
CcWaiting(w) ==
  {c \in CcCalls : w.calls[c].conn /\ w.conn.active # c}

\* MSC_EV_CALL_LEG_TERM in state COMMUNICATING: the leg is gone, its call is
\* freed, a waiting call takes over.
CcLegTerm(w, mgw) ==
  LET w1 == CcNoLeg(w)
      w2 == IF w1.conn.active = CcNone THEN w1 ELSE CcTransFree(w1, w1.conn.active)
  IN IF CcWaiting(w2) = {} THEN w2
     ELSE CcStartFresh(w2, CHOOSE c \in CcWaiting(w2) : TRUE, mgw)

\* msc_a_abort_assignment(), without the final msc_a_put().
CcAbort(w, c, mgw) ==
  LET w1 == [w EXCEPT !.conn.pend = FALSE, !.conn.for = CcNone]
      w2 == IF c = CcNone THEN w1 ELSE CcTransFree(w1, c)
  IN IF w2.conn.leg THEN CcLegTerm(w2, mgw) ELSE w2

\* msc_a_tx_assignment_cmd()
CcTxAssignment(w, in) ==
  IF w.conn.pend THEN w
  ELSE IF w.conn.active = CcNone
         THEN IF w.conn.leg THEN CcLegTerm(w, in.mgw) ELSE w
  ELSE IF in.fit /\ w.conn.ran # "no" THEN [w EXCEPT !.conn.pend = TRUE]
  ELSE CcAbort(w, w.conn.active, in.mgw)

\* msc_a_start_assignment(); the result is an error if no stream can be had.
CcStartAssignment(w, c, in) ==
  LET w1 == [w EXCEPT !.conn.active = c, !.conn.leg = TRUE, !.calls[c].asg = FALSE]
      w2 == IF w1.conn.cn = "up" \/ (w1.conn.cn = "no" /\ ~in.mgw) THEN w1
            ELSE CcEnsureCi(w1, "cn", c)
  IN IF w1.conn.ran # "up"
       THEN IF w1.conn.ran = "no" /\ ~in.mgw THEN [w |-> w2, rc |-> FALSE]
            ELSE [w |-> CcEnsureCi(w2, "ran", c), rc |-> TRUE]
     ELSE IF w1.conn.cn = "up"
       THEN [w |-> CcPut(CcTxAssignment(w2, in)), rc |-> TRUE]
     ELSE [w |-> w2, rc |-> TRUE]

\* msc_a_try_call_assignment()
CcTryAssignment(w, c, in) ==
  IF w.conn.active # CcNone THEN [w |-> w, rc |-> TRUE]
  ELSE CcStartAssignment(w, c, in)

\* rx_mncc_sdp(): a remote side that no longer offers the assigned codec
\* (in.alt) has the channel assigned anew, unless an answer is awaited.
CcRxSdp(w, c, in) ==
  IF w.calls[c].asg /\ in.alt /\ ~w.conn.pend
    THEN CcPut(CcTxAssignment(w, in)) ELSE w

\* The rest of a handler that goes on with its transaction after a call that
\* may have freed it.
CcThen(w, c, Rest(_)) == IF CcLive(w, c) THEN Rest(w) ELSE [w EXCEPT !.ub = TRUE]

-----------------------------------------------------------------------------
(* Messages from the MS (datastatelist).                                   *)

\* msc_cc_next_outgoing_callref(), trans_alloc() for a transaction of the MS,
\* and the end of the CM Service Request that it was for.
CcAllocMo(w, c) ==
  [w EXCEPT !.calls[c] = [CcNoTrans EXCEPT !.st = "NULL", !.conn = TRUE,
                            !.ref = TRUE, !.ti = CcMoTi],
            !.mncc[c] = "new", !.vsub = @ + 1,
            !.conn.uses = @ + 1, !.conn.cm = FALSE]

\* gsm48_cc_rx_setup(): the SETUP_IND is kept until the MGW has a port for it.
CcRxSetup(w, c, in) ==
  LET w1 == CcNewState([w EXCEPT !.calls[c].guard = TRUE], c, "INITIATED")
  IN CcTryAssignment([w1 EXCEPT !.calls[c].setup = TRUE], c, in).w

CcRxConnectAck(w, c) ==
  CcToMncc(CcNewState(CcTimer(w, c, "none"), c, "ACTIVE"), c, "SETUP_COMPL_IND")

\* gsm48_cc_rx_call_conf(): not continued if the assignment reports an error.
CcRxCallConf(w, c, in) ==
  LET a == CcTryAssignment(CcTimer(w, c, "T310"), c, in)
  IN IF ~a.rc THEN a.w
     ELSE CcThen(a.w, c, LAMBDA v :
            CcToMncc(CcNewState(v, c, "MO_TERM_CALL_CONF"), c, "CALL_CONF_IND"))

\* gsm48_cc_rx_alerting(): an SDP that does not fit the message ends the call.
CcRxAlerting(w, c, in) ==
  LET w1 == CcNewState(CcTimer(w, c, "T301"), c, "CALL_RECEIVED")
  IN IF in.fit THEN CcToMncc(w1, c, "ALERT_IND") ELSE CcFree(w1, c)

CcRxConnect(w, c) ==
  CcToMncc(CcNewState(CcTimer(w, c, "none"), c, "CONNECT_REQUEST"), c, "SETUP_CNF")

CcRxModify(w, c) == CcToMncc(CcNewState(w, c, "MO_ORIG_MODIFY"), c, "MODIFY_IND")

CcRxModifyComplete(w, c) ==
  CcToMncc(CcNewState(CcTimer(w, c, "none"), c, "ACTIVE"), c, "MODIFY_CNF")

CcRxModifyReject(w, c) ==
  CcToMncc(CcNewState(CcTimer(w, c, "none"), c, "ACTIVE"), c, "MODIFY_REJ")

CcRxDisconnect(w, c) ==
  CcToMncc(CcNewState(CcTimer(w, c, "none"), c, "DISCONNECT_REQ"), c, "DISC_IND")

\* Mutant: the callref is kept, so that trans_free() reports the end again.
CcMutRxRelease(w, c) ==
  LET w1 == CcToMncc(CcTimer(w, c, "none"), c,
              IF w.calls[c].st = "RELEASE_REQ" THEN "REL_CNF" ELSE "REL_IND")
  IN CcFree(CcNewState(w1, c, "NULL"), c)

\* gsm48_cc_rx_release(), with the release collision.
CcRxRelease(w, c) ==
  LET w1 == CcToMncc(CcTimer(w, c, "none"), c,
              IF w.calls[c].st = "RELEASE_REQ" THEN "REL_CNF" ELSE "REL_IND")
  IN CcFree(CcDropRef(CcNewState(w1, c, "NULL"), c), c)

CcRxReleaseCompl(w, c) ==
  LET r  == w.calls[c]
      w1 == CcTimer(w, c, "none")
      w2 == IF ~r.ref THEN w1
            ELSE CcToMncc(w1, c, IF r.st = "CALL_PRESENT" THEN "REJ_IND"
                                 ELSE IF r.st = "RELEASE_REQ" THEN "REL_CNF"
                                 ELSE "REL_IND")
  IN CcFree(CcDropRef(w2, c), c)

\* Messages that are passed on to MNCC in the states that admit them: FACILITY;
\* HOLD and RETRIEVE; START and STOP DTMF; NOTIFY and USER INFORMATION.
CcRxFacility(w, c) == CcToMncc(w, c, "FACILITY_IND")
CcRxHold(w, c) == CcToMncc(w, c, "HOLD_IND")
CcRxDtmf(w, c) == CcToMncc(w, c, "START_DTMF_IND")
CcRxNotify(w, c) == CcToMncc(w, c, "NOTIFY_IND")

CcAllBut(S) == CcStates \ (S \cup {"FREE"})

\* datastatelist: the states that admit a message of the MS.  Messages that
\* are only passed on are one message per set of states.
CcDataStates ==
  [SETUP |-> {"NULL"}, CONNECT_ACK |-> {"CONNECT_IND"},
   CALL_CONF |-> {"CALL_PRESENT"},
   ALERTING |-> {"CALL_PRESENT", "MO_TERM_CALL_CONF"},
   CONNECT |-> {"CALL_PRESENT", "MO_TERM_CALL_CONF", "CALL_RECEIVED"},
   FACILITY |-> CcAllBut({"NULL"}), HOLD |-> {"ACTIVE"}, NOTIFY |-> {"ACTIVE"},
   DTMF |-> CcAllBut({}), MODIFY |-> {"ACTIVE"},
   MODIFY_COMPL |-> {"MO_TERM_MODIFY"}, MODIFY_REJECT |-> {"MO_TERM_MODIFY"},
   DISCONNECT |-> CcAllBut({"NULL", "RELEASE_REQ"}),
   RELEASE |-> CcAllBut({"NULL"}), RELEASE_COMPL |-> CcAllBut({})]

\* The second half of gsm0408_rcv_cc(): the handler of a message in a state;
\* an unhandled message on a transaction that it has just created frees it.
CcRcv(w, c, m, in) ==
  CASE w.calls[c].st \notin CcDataStates[m] ->
         IF w.calls[c].st = "NULL" THEN CcFree(w, c) ELSE w
    [] m = "SETUP" -> CcRxSetup(w, c, in)
    [] m = "CONNECT_ACK" -> CcRxConnectAck(w, c)
    [] m = "CALL_CONF" -> CcRxCallConf(w, c, in)
    [] m = "ALERTING" -> CcRxAlerting(w, c, in)
    [] m = "CONNECT" -> CcRxConnect(w, c)
    [] m = "MODIFY" -> CcRxModify(w, c)
    [] m = "MODIFY_COMPL" -> CcRxModifyComplete(w, c)
    [] m = "MODIFY_REJECT" -> CcRxModifyReject(w, c)
    [] m = "DISCONNECT" -> CcRxDisconnect(w, c)
    [] m = "RELEASE" -> CcRxRelease(w, c)
    [] m = "RELEASE_COMPL" -> CcRxReleaseCompl(w, c)
    [] m = "FACILITY" -> CcRxFacility(w, c)
    [] m = "HOLD" -> CcRxHold(w, c)
    [] m = "DTMF" -> CcRxDtmf(w, c)
    [] m = "NOTIFY" -> CcRxNotify(w, c)

-----------------------------------------------------------------------------
(* Messages from MNCC (downstatelist).                                     *)

\* trans_assign_trans_id(): circular, starting at the highest id in use.
CcAssignTid(w) ==
  LET used == {w.calls[c].ti : c \in {d \in CcCalls : CcLive(w, d)}}
                \cap 0..(CcTids - 1)
      h    == IF used = {} THEN 0 ELSE Max(used)
      free == {i \in 0..(CcTids - 1) : (h + i) % CcTids \notin used}
  IN IF free = {} THEN CcNoTi ELSE (h + Min(free)) % CcTids

\* gsm48_cc_tx_setup(): in.fit: a codec both sides have; in.alt: MNCC is told
\* that there is none.
CcTxSetup(w, c, in) ==
  LET tid == CcAssignTid(w)
      w1  == CcTimer([w EXCEPT !.calls[c].ti = tid], c, "T303")
  IN IF w.calls[c].ti # CcNoTi \/ tid = CcNoTi
       THEN CcTransFree(CcDropRef(CcReleaseInd(w, c), c), c)
     ELSE IF in.fit THEN CcNewState(w1, c, "CALL_PRESENT")
     ELSE IF in.alt THEN CcTransFree(CcDropRef(CcReleaseInd(w1, c), c), c)
     ELSE CcTransFree(w1, c)

\* gsm48_cc_tx_call_proc_and_assign(); in.fit: the bearer capability is
\* acceptable and CALL PROCEEDING was sent.
CcTxCallProc(w, c, in) ==
  LET w1 == CcNewState(w, c, "MO_CALL_PROC")
  IN IF in.fit THEN CcTryAssignment(w1, c, in).w ELSE w1

CcTxAlerting(w, c, in) ==
  CcThen(CcRxSdp(CcNewState(w, c, "CALL_DELIVERED"), c, in), c, LAMBDA v : v)

CcTxConnect(w, c, in) ==
  CcThen(CcRxSdp(CcNewState(CcTimer(w, c, "T313"), c, "CONNECT_IND"), c, in), c,
         LAMBDA v : v)

CcTxConnectAck(w, c) == CcNewState(w, c, "ACTIVE")

CcTxModify(w, c) == CcNewState(CcTimer(w, c, "T323"), c, "MO_TERM_MODIFY")

\* gsm48_cc_tx_modify_complete() and gsm48_cc_tx_modify_reject()
CcTxModifyAnswer(w, c) == CcNewState(w, c, "ACTIVE")

CcTxDisconnect(w, c) == CcNewState(CcTimer(w, c, "T306"), c, "DISCONNECT_IND")

\* Mutant: the release timer is not started.
CcMutTxRelease(w, c) ==
  IF ~w.calls[c].conn THEN w
  ELSE CcNewState(CcTimer([w EXCEPT !.calls[c].second = FALSE], c, "none"),
                  c, "RELEASE_REQ")

CcTxRelease(w, c) ==
  IF ~w.calls[c].conn THEN w
  ELSE CcNewState(CcTimer([w EXCEPT !.calls[c].second = FALSE], c, "T308"),
                  c, "RELEASE_REQ")

\* gsm48_cc_tx_release_compl(): MNCC refuses the call of the MS.
CcTxReleaseCompl(w, c) ==
  CcFree(CcDropRef([w EXCEPT !.mncc[c] = "idle"], c), c)

\* downstatelist.  PASS is any message that is only passed on to the MS.
CcDownStates ==
  [CALL_PROC_REQ |-> {"INITIATED"}, ALERT_REQ |-> {"INITIATED", "MO_CALL_PROC"},
   SETUP_RSP |-> {"INITIATED", "MO_CALL_PROC", "CALL_DELIVERED"},
   SETUP_REQ |-> {"NULL"}, SETUP_COMPL_REQ |-> {"CONNECT_REQUEST"},
   PASS |-> CcAllBut({}), MODIFY_REQ |-> {"ACTIVE"},
   MODIFY_RSP |-> {"MO_ORIG_MODIFY"}, REJ_REQ |-> {"INITIATED"},
   DISC_REQ |-> CcAllBut({"NULL", "DISCONNECT_IND", "RELEASE_REQ", "DISCONNECT_REQ"}),
   REL_REQ |-> CcAllBut({"NULL", "RELEASE_REQ"})]

CcDown(w, c, m, in) ==
  CASE w.calls[c].st \notin CcDownStates[m] -> w
    [] m = "CALL_PROC_REQ" -> CcTxCallProc(w, c, in)
    [] m = "ALERT_REQ" -> CcTxAlerting(w, c, in)
    [] m = "SETUP_RSP" -> CcTxConnect(w, c, in)
    [] m = "SETUP_REQ" -> CcPut(CcTxSetup(w, c, in))
    [] m = "SETUP_COMPL_REQ" -> CcTxConnectAck(w, c)
    [] m = "MODIFY_REQ" -> CcTxModify(w, c)
    [] m = "MODIFY_RSP" -> CcTxModifyAnswer(w, c)
    [] m = "REJ_REQ" -> CcTxReleaseCompl(w, c)
    [] m = "DISC_REQ" -> CcTxDisconnect(w, c)
    [] m = "REL_REQ" -> CcTxRelease(w, c)
    [] OTHER -> w

\* The common end of mncc_tx_to_gsm_cc() for a callref with a transaction.
CcMnccKnown(w, c, m, in) ==
  LET w1 == [w EXCEPT !.calls[c].guard = @ \/ m # "PASS", !.calls[c].init = TRUE]
      rel == IF m = "REL_REQ" THEN "REL_CNF" ELSE "REL_IND"
  IN IF ~w.calls[c].conn
       THEN CcTransFree(CcDropRef(CcToMncc(w1, c, rel), c), c)
     ELSE CcDown(w1, c, m, in)

-----------------------------------------------------------------------------
(* Answers of the MGW and of the RAN, timers.                              *)

\* cc_on_cn_local_rtp_port_known(); in.fit: the SDP fits the message.
CcCnPortKnown(w, c, in) ==
  LET r == w.calls[c]
      w1 == [w EXCEPT !.calls[c].setup = FALSE]
  IN CASE r.st = "INITIATED" /\ r.setup ->
            IF in.fit THEN CcToMncc(w1, c, "SETUP_IND") ELSE CcFree(w1, c)
       [] r.st = "MO_TERM_CALL_CONF" /\ r.asg -> CcToMncc(w, c, "RTP_CREATE")
       [] OTHER -> w

\* MSC_EV_CALL_LEG_RTP_LOCAL_ADDR_AVAILABLE for the CN side.  for_trans is not
\* cleared when its call ends normally, so it may name a freed transaction.
CcCnAddr(w, in) ==
  LET w1 == [w EXCEPT !.conn.cn = "up"]
      c  == w.conn.for
  IN IF c = CcNone THEN w1
     ELSE CcThen(w1, c, LAMBDA v : CcCnPortKnown(v, c, in))

\* cc_on_assignment_done() is an error in any other state
CcAssignable == {"INITIATED", "MO_CALL_PROC", "CALL_RECEIVED", "MO_TERM_CALL_CONF"}
CcReassigned == {"ACTIVE", "CALL_DELIVERED", "CONNECT_IND"}

\* The rest of msc_a_up_call_assignment_complete() with cc_on_assignment_done()
\* and gsm48_tch_rtp_create(); in.alt: the Complete names a codec; in.fit: it
\* is one that the MSC and the call have.
CcAssignmentDone(w, c, in) ==
  LET w1 == [w EXCEPT !.calls[c].asg = in.alt]
  IN IF ~in.fit \/ w.calls[c].st \notin CcAssignable \cup CcReassigned
       THEN CcPut(CcAbort(w1, c, in.mgw))
     ELSE IF w.calls[c].st \in CcAssignable /\ w.conn.cn = "up"
       THEN CcToMncc(w1, c, "RTP_CREATE")
     ELSE w1

\* msc_a_up_call_assignment_complete(): only while an assignment is pending.
CcAssignmentComplete(w, in) ==
  LET w1 == [w EXCEPT !.conn.pend = FALSE]
  IN IF w.conn.ran = "no" \/ w.conn.active = CcNone THEN w1
     ELSE CcAssignmentDone(w1, w.conn.active, in)

\* msc_a_up_call_assignment_failure(), of the RAN and by timeout.
CcAssignmentFailure(w, in) ==
  LET w1 == [w EXCEPT !.conn.pend = FALSE]
  IN IF w.conn.leg /\ w.conn.ran # "no"
       THEN CcPut(CcAbort(w1, w.conn.active, in.mgw)) ELSE CcConnRelease(w1)

\* gsm48_cc_timeout()
CcExpire(w, c) ==
  LET r  == w.calls[c]
      w1 == CcTimer(w, c, "none")
  IN CASE r.tm \in {"T303", "T306"} ->
            CcTxRelease(IF r.ref THEN CcDropRef(CcReleaseInd(w1, c), c) ELSE w1, c)
       [] r.tm \in {"T310", "T313", "T301", "T323"} ->
            CcTxDisconnect(IF r.ref THEN CcToMncc(w1, c, "DISC_IND") ELSE w1, c)
       [] r.tm = "T308" /\ ~r.second ->
            [CcTxRelease(w1, c) EXCEPT !.calls[c].second = TRUE]
       [] OTHER -> CcFree(w1, c)

\* cc_paging_cb() for every transaction that the paging is for.
CcPaged(w, in) ==
  FoldSet(LAMBDA c, v :
            CcTxSetup([v EXCEPT !.calls[c].conn = TRUE, !.calls[c].paging = FALSE,
                                !.conn.uses = @ + 1], c, in),
          w, {c \in CcCalls : w.calls[c].paging})

CcPagingExpired(w) ==
  FoldSet(LAMBDA c, v : CcTransFree(CcDropRef(CcReleaseInd(v, c), c), c),
          w, {c \in CcCalls : w.calls[c].paging})

-----------------------------------------------------------------------------
(* Actions.                                                                *)

\* What a handler may find: in.mgw and in.fit as above; in.alt is, where the
\* code asks, a remote side that drifted to another codec, a refusal that MNCC
\* is told of, or an Assignment Complete that names a codec.
CcInputs == [mgw : BOOLEAN, fit : BOOLEAN, alt : BOOLEAN]

\* Which of these a handler asks for.
CcAsksMgw == {"SETUP", "CALL_CONF", "CALL_PROC_REQ", "ALERT_REQ", "SETUP_RSP", "RTP_CREATE",
              "RTP_CONNECT", "MGW_RAN", "MGW_FAILS", "COMPLETE", "FAILURE"}
CcAsksFit == {"SETUP", "CALL_CONF", "ALERTING", "CALL_PROC_REQ", "ALERT_REQ", "SETUP_RSP",
              "RTP_CREATE", "RTP_CONNECT", "SETUP_REQ", "PAGED", "MGW_CN", "MGW_RAN",
              "COMPLETE"}
CcAsksAlt == {"ALERT_REQ", "SETUP_RSP", "RTP_CONNECT", "SETUP_REQ", "PAGED",
              "COMPLETE"}
CcAsk ==
  [m \in DOMAIN CcDataStates \cup DOMAIN CcDownStates \cup CcAsksMgw \cup CcAsksFit |->
     {in \in CcInputs : /\ m \in CcAsksMgw \/ in.mgw
                        /\ m \in CcAsksFit \/ in.fit
                        /\ m \in CcAsksAlt \/ ~in.alt}]

\* The one for a handler that asks for none.
CcCalm == [mgw |-> TRUE, fit |-> TRUE, alt |-> FALSE]

CcBecome(new) == \E w \in {new} :
  /\ ccCalls' = w.calls /\ ccConn' = w.conn /\ ccMncc' = w.mncc
  /\ ccVsub' = w.vsub /\ ccStat' = w.stat /\ ccLeaks' = w.leaks /\ ccUb' = w.ub
  /\ UNCHANGED ccCfg

CcUsable(c) == c \in ccCfg.calls /\ ccCalls[c].st = "FREE" /\ ccMncc[c] = "idle"

\* gsm0408_rcv_cc() for a transaction id in use.  (A message that its state does
\* not admit changes nothing.)
CcRxMsg(c, m, in) ==
  /\ ~ccUb /\ CcLive(CcW, c) /\ ccCalls[c].conn /\ ccCalls[c].ti # CcNoTi
  /\ ccCalls[c].st \in CcDataStates[m] \cup {"NULL"}
  /\ in = CcCalm \/ ccCalls[c].st \in CcDataStates[m]
  /\ CcBecome(CcRcv(CcW, c, m, in))

\* gsm0408_rcv_cc() for a transaction id that is not in use.
CcRxNew(c, m, in) ==
  /\ ~ccUb /\ ccConn.up /\ c \in CcMoCalls /\ CcUsable(c)
  /\ \A d \in CcCalls : ccCalls[d].ti # CcMoTi
  /\ CcBecome(CcRcv(CcAllocMo(CcW, c), c, m, in))

\* mncc_tx_to_gsm_cc() for a known callref.  (A message that its state does not
\* admit only starts the guard timer and marks the call as known to MNCC.)
CcMnccMsg(c, m, in) ==
  /\ ~ccUb /\ CcLive(CcW, c) /\ ccCalls[c].ref /\ ccMncc[c] \in {"asked", "open"}
  /\ \/ ccCalls[c].conn /\ ccCalls[c].st \in CcDownStates[m]
     \/ in = CcCalm /\ ~(ccCalls[c].conn /\ ccCalls[c].guard /\ ccCalls[c].init)
  /\ CcBecome(CcMnccKnown(CcW, c, m, in))

\* MNCC_RTP_CREATE, tch_rtp_create(): asks only while no call has the channel.
CcMnccRtpCreate(c, in) ==
  /\ ~ccUb /\ CcLive(CcW, c) /\ ccCalls[c].ref /\ ccMncc[c] \in {"asked", "open"}
  /\ in = CcCalm \/ (ccCalls[c].conn /\ ccConn.active = CcNone)
  /\ CcBecome(IF ccCalls[c].conn THEN CcTryAssignment(CcW, c, in).w
              ELSE CcToMncc(CcW, c, "RTP_CREATE"))

\* MNCC_RTP_CONNECT, tch_rtp_connect(): asks only for a call that is assigned.
CcMnccRtpConnect(c, in) ==
  /\ ~ccUb /\ CcLive(CcW, c) /\ ccCalls[c].ref /\ ccMncc[c] \in {"asked", "open"}
  /\ in = CcCalm \/ (in.alt /\ ccCalls[c].asg /\ ~ccConn.pend)
  /\ CcBecome(IF ccCalls[c].conn
                THEN CcThen(CcRxSdp(CcW, c, in), c, LAMBDA v : v)
              ELSE CcToMncc(CcW, c, "RTP_CONNECT"))

\* MNCC_BRIDGE that cannot be done: disconnect_bridge() for a call.  The
\* internal MNCC bridges calls when they are answered.
CcMnccBridgeFails(c) ==
  /\ ~ccUb /\ ccCalls[c].ref /\ ccCalls[c].conn /\ ccMncc[c] = "open"
  /\ ccCalls[c].st \in {"CONNECT_REQUEST", "CONNECT_IND", "ACTIVE"}
  /\ CcBecome(CcTxDisconnect(CcW, c))

CcAllocMt(w, c) ==
  [w EXCEPT !.calls[c] = [CcNoTrans EXCEPT !.st = "NULL", !.ref = TRUE],
            !.mncc[c] = "asked", !.vsub = @ + 1]

\* The first CC transaction found on the connection is not idle.
CcBusy == ~ccCfg.waiting /\ \E c \in CcCalls : ccCalls[c].conn /\ ccCalls[c].st # "NULL"

CcNotBusy ==
  \/ ccCfg.waiting \/ \A c \in CcCalls : ~ccCalls[c].conn
  \/ \E c \in CcCalls : ccCalls[c].conn /\ ccCalls[c].st = "NULL"

\* MNCC_SETUP_REQ for a busy subscriber: mncc_tx_to_gsm_cc() returns without
\* vlr_subscr_put().  (A call for an unknown or detached subscriber is refused
\* too, and leaves no trace.)
CcMnccSetupBusy(c) ==
  /\ ~ccUb /\ ccConn.up /\ c \in CcMtCalls /\ CcUsable(c) /\ CcBusy /\ ccLeaks < CcMaxLeaks
  /\ CcBecome([CcW EXCEPT !.vsub = @ + 1, !.leaks = @ + 1])

\* MNCC_SETUP_REQ on the subscriber's connection.
CcMnccSetupConn(c, in) ==
  /\ ~ccUb /\ ccConn.up /\ c \in CcMtCalls /\ CcUsable(c) /\ CcNotBusy
  /\ LET w == [CcAllocMt(CcW, c) EXCEPT !.calls[c].conn = TRUE, !.conn.uses = @ + 1,
                                        !.mncc[c] = "open"]
     IN CcBecome(CcMnccKnown(w, c, "SETUP_REQ", in))

\* MNCC_SETUP_REQ without a connection: the subscriber is paged.
CcMnccSetupPage(c, started) ==
  /\ ~ccUb /\ ~ccConn.up /\ c \in CcMtCalls /\ CcUsable(c)
  /\ LET w == CcAllocMt(CcW, c)
     IN CcBecome(IF started THEN [w EXCEPT !.calls[c].paging = TRUE]
                ELSE CcTransFree(w, c))

\* The Paging Response has been accepted.
CcPagingResponse(in) ==
  /\ ~ccUb /\ ~ccConn.up /\ \E c \in CcCalls : ccCalls[c].paging
  /\ CcBecome(CcPut(CcPaged([CcW EXCEPT !.conn.up = TRUE], in)))

CcPagingTimeout ==
  /\ ~ccUb /\ \E c \in CcCalls : ccCalls[c].paging
  /\ CcBecome(CcPagingExpired(CcW))

CcCcTimeout(c) ==
  /\ ~ccUb /\ CcLive(CcW, c) /\ ccCalls[c].tm # "none"
  /\ CcBecome(CcExpire(CcW, c))

\* gsm48_cc_guard_timeout()
CcGuardTimeout(c) ==
  /\ ~ccUb /\ CcLive(CcW, c) /\ ccCalls[c].guard
  /\ CcBecome(CcFree(CcW, c))

\* The MGW's answer for one side of the call leg, or its failure, which takes
\* the leg along.
CcMgwCn(in) == ~ccUb /\ ccConn.cn = "wait" /\ CcBecome(CcCnAddr(CcW, in))

CcMgwRan(in) ==
  /\ ~ccUb /\ ccConn.ran = "wait"
  /\ CcBecome(CcPut(CcTxAssignment([CcW EXCEPT !.conn.ran = "up"], in)))

CcMgwFails(in) ==
  /\ ~ccUb /\ ccConn.leg
  /\ CcBecome(CcPut(CcLegTerm(CcW, in.mgw)))

CcRanComplete(in) ==
  /\ ~ccUb /\ ccConn.up /\ ccConn.pend
  /\ CcBecome(CcAssignmentComplete(CcW, in))

\* Assignment Failure of the RAN, or the timeout of the request.
CcRanFailure(in) ==
  /\ ~ccUb /\ ccConn.up /\ ccConn.pend
  /\ CcBecome(CcAssignmentFailure(CcW, in))

\* The connection as far as calls see it: MmConn models how it comes about.
CcConnUp(k) ==
  /\ ~ccUb /\ ~ccConn.up
  /\ CcBecome([CcW EXCEPT !.conn.up = TRUE, !.conn.cm = (k = "cm"),
                          !.conn.other = (k = "other")])

CcOtherStarts == ~ccUb /\ ccConn.up /\ ~ccConn.other /\ ccCfg.other
                 /\ CcBecome([CcW EXCEPT !.conn.other = TRUE])

CcOtherEnds == ~ccUb /\ ccConn.other
               /\ CcBecome(CcPut([CcW EXCEPT !.conn.other = FALSE]))

CcConnLost == ~ccUb /\ ccConn.up /\ CcBecome(CcConnRelease(CcW))

-----------------------------------------------------------------------------
CcInit ==
  /\ ccCalls = [c \in CcCalls |-> CcNoTrans] /\ ccConn = CcNoConn
  /\ ccMncc = [c \in CcCalls |-> "idle"] /\ ccVsub = 0 /\ ccStat = 0
  /\ ccLeaks = 0 /\ ccUb = FALSE /\ ccCfg \in CcConfigs

CcDialogue(c) ==
  \/ \E m \in DOMAIN CcDataStates : \E in \in CcAsk[m] :
       CcRxMsg(c, m, in) \/ CcRxNew(c, m, in)
  \/ \E m \in DOMAIN CcDownStates \ {"SETUP_REQ"} : \E in \in CcAsk[m] :
       CcMnccMsg(c, m, in)
  \/ \E in \in CcAsk["RTP_CREATE"] : CcMnccRtpCreate(c, in)
  \/ \E in \in CcAsk["RTP_CONNECT"] : CcMnccRtpConnect(c, in)
  \/ \E in \in CcAsk["SETUP_REQ"] : CcMnccSetupConn(c, in)

CcMedia ==
  \/ \E in \in CcAsk["PAGED"] : CcPagingResponse(in)
  \/ \E in \in CcAsk["MGW_CN"] : CcMgwCn(in)
  \/ \E in \in CcAsk["MGW_RAN"] : CcMgwRan(in)
  \/ \E in \in CcAsk["MGW_FAILS"] : CcMgwFails(in)
  \/ \E in \in CcAsk["COMPLETE"] : CcRanComplete(in)
  \/ \E in \in CcAsk["FAILURE"] : CcRanFailure(in)

CcNext ==
  \/ \E c \in CcCalls : CcDialogue(c)
  \/ CcMedia
  \/ \E c \in CcCalls :
       \/ CcMnccBridgeFails(c) \/ CcMnccSetupBusy(c)
       \/ \E started \in BOOLEAN : CcMnccSetupPage(c, started)
       \/ CcCcTimeout(c) \/ CcGuardTimeout(c)
  \/ \E k \in {"cm", "other"} : CcConnUp(k)
  \/ CcPagingTimeout \/ CcOtherStarts \/ CcOtherEnds \/ CcConnLost

CcSpec == CcInit /\ [][CcNext]_ccVars

\* Timers expire: the event loop runs.
CcFair == \A c \in CcCalls : WF_ccVars(CcCcTimeout(c))

-----------------------------------------------------------------------------
(* Properties.                                                             *)

\* The state stays within the types of struct gsm_trans and struct msc_a, and a
\* transaction slot that is free holds nothing.
CcTypeOK ==
  /\ \A c \in CcCalls :
       /\ ccCalls[c].st \in CcStates /\ ccCalls[c].tm \in CcTimers
       /\ ccCalls[c].ti \in 0..CcNoTi
       /\ ccCalls[c].st = "FREE" => ccCalls[c] = CcNoTrans
       /\ ccMncc[c] \in {"idle", "new", "asked", "open", "stray"}
  /\ ccConn.active \in CcCalls \cup {CcNone} /\ ccConn.for \in CcCalls \cup {CcNone}
  /\ ccConn.uses \in 0..Cardinality(CcCalls) /\ ccVsub \in Nat /\ ccStat \in Nat
  /\ ~ccConn.up => ccConn = CcNoConn

\* MNCC and the MSC agree on which calls exist: a call that MNCC was told of
\* has a transaction that still carries its callref and will report its end,
\* and MNCC hears of the end once, never anything after it
\* (_gsm48_cc_trans_free(), gsm48_cc_rx_release(), gsm48_cc_timeout()).
CcMnccInStep ==
  \A c \in CcCalls :
    /\ ccMncc[c] # "stray"
    /\ ccMncc[c] = "open" => CcLive(CcW, c) /\ ccCalls[c].ref /\ ccCalls[c].init
    /\ ccMncc[c] = "new" => ccCalls[c].st \in {"NULL", "INITIATED"}

\* A call holds what it needs and no more: every transaction one use of the VLR
\* record and, once it has it, one of the connection, on every path that ends
\* it; the only uses of the record beyond that are those of calls refused as
\* busy (trans_alloc(), trans_free(), mncc_tx_to_gsm_cc()).  The channel is
\* assigned to a call on the connection, and only that one can have completed an
\* assignment (msc_a->cc.active_trans).
CcUseBalance ==
  /\ ccVsub = Cardinality({c \in CcCalls : CcLive(CcW, c)}) + ccLeaks
  /\ ccConn.uses = Cardinality({c \in CcCalls : ccCalls[c].conn})
  /\ (\E c \in CcCalls : ccCalls[c].conn) => ccConn.up
  /\ ccConn.active # CcNone => ccCalls[ccConn.active].conn
  /\ \A c \in CcCalls : ccCalls[c].asg => ccConn.active = c

\* A call that waits for the MS in a state with a timer of GSM 04.08 has one
\* running, whatever messages came before.
CcNoSilentWait ==
  \A c \in CcCalls :
    ccCalls[c].st \in {"CALL_PRESENT", "MO_TERM_CALL_CONF", "CALL_RECEIVED",
                       "CONNECT_IND", "DISCONNECT_IND", "RELEASE_REQ",
                       "MO_TERM_MODIFY"} => ccCalls[c].tm # "none"

\* A call that is being cleared towards the MS ends even if the MS stays silent
\* (T306, T308 and its repetition), or the MS disconnects at the same time and
\* the release is up to MNCC.
CcClearingEnds ==
  \A c \in CcCalls :
    ccCalls[c].st \in {"DISCONNECT_IND", "RELEASE_REQ"} ~>
      (ccCalls[c].st \in {"FREE", "DISCONNECT_REQ"} \/ ccUb)

=============================================================================
