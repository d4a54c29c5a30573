------------------------------- MODULE RanPeer -------------------------------
(***************************************************************************)
(* The RAN peers of one SCCP instance (ran_peer.c, sccp_ran.c, ran_conn.c):*)
(* the RESET procedure of each BSC or RNC and the connections to it.       *)
(*                                                                         *)
(* A connection id has two sides: rpConn, the ran_conn, and rpSccp, whether*)
(* the SCCP stack below (external) has a connection of that id.  A role is *)
(* the MSC-I or MSC-T that owns the connection; a group call machine is the*)
(* owner of a connection of kind "vgcs".  Any BSC message can come at any  *)
(* time.  Messages are not kept: only their effect on the MSC is modelled. *)
(***************************************************************************)
EXTENDS Integers, FiniteSets

CONSTANTS RpPeers,   \* point codes
          RpIds,     \* SCCP connection ids
          RpNone     \* no peer

ASSUME RpAssumption ==
  RpNone \notin RpPeers /\ IsFiniteSet(RpPeers) /\ IsFiniteSet(RpIds)

VARIABLES rpSt,      \* rpSt[p]: state of the peer's machine, "none": not known
          rpConn,    \* rpConn[i]: the ran_conn with id i
          rpSccp,    \* ids of the connections that the SCCP stack has
          rpStray,   \* of these, the ones that ran_conn_discard() left there
          rpActive,  \* MSC_STAT_RAN_PEERS_ACTIVE
          rpTotal,   \* MSC_STAT_RAN_PEERS_TOTAL
          rpIgnore   \* ignore_missing_reset
rpVars == <<rpSt, rpConn, rpSccp, rpStray, rpActive, rpTotal, rpIgnore>>

RpNoConn == [kind |-> "none", peer |-> RpNone, old |-> FALSE]
RpW == [st |-> rpSt, conn |-> rpConn, sccp |-> rpSccp, stray |-> rpStray,
        active |-> rpActive, total |-> rpTotal]
RpConnsOf(w, p) == {i \in RpIds : w.conn[i].peer = p}

-----------------------------------------------------------------------------
(* Handlers.                                                               *)

\* ran_peer_find_or_create()
RpFindOrCreate(w, p) ==
  IF w.st[p] = "none"
    THEN [w EXCEPT !.st[p] = "WAIT_RX_RESET", !.total = @ + 1] ELSE w

\* ran_peer_state_chg() with ran_peer_st_ready_onenter() and _onleave()
RpStateChg(w, p, s) ==
  [w EXCEPT !.st[p] = s,
            !.active = @ + (IF s = "READY" /\ w.st[p] # "READY" THEN 1 ELSE 0)
                         - (IF w.st[p] = "READY" /\ s # "READY" THEN 1 ELSE 0)]

\* sccp_ran_disconnect()
RpSccpDisconnect(w, i) == [w EXCEPT !.sccp = @ \ {i}, !.stray = @ \ {i}]

\* ran_conn_close()
RpConnClose(w, i) == RpSccpDisconnect([w EXCEPT !.conn[i] = RpNoConn], i)

\* ran_conn_discard(): nothing is sent on SCCP.
RpConnDiscard(w, i) ==
  [w EXCEPT !.conn[i] = RpNoConn, !.stray = @ \cup ({i} \cap w.sccp)]

\* Mutant: only the connections of handovers are discarded.
RpMutDiscardAll(w, p, Keep) ==
  LET Lost == {i \in RpConnsOf(w, p) : w.conn[i].kind = "out"}
  IN [w EXCEPT !.conn = [i \in RpIds |-> IF i \in Lost THEN RpNoConn ELSE w.conn[i]],
               !.stray = @ \cup (Lost \cap w.sccp)]

\* ran_peer_discard_all_conns(): ran_conn_discard() of each connection.  A group
\* call machine closes its connection itself, in state RELEASE; in the other
\* states (Keep) it does not take the event.
RpDiscardAll(w, p, Keep) ==
  LET Vgcs == {i \in RpConnsOf(w, p) : w.conn[i].kind = "vgcs"} \ Keep
      Lost == {i \in RpConnsOf(w, p) : w.conn[i].kind # "vgcs"}
  IN [w EXCEPT !.conn = [i \in RpIds |-> IF i \in Vgcs \cup Lost THEN RpNoConn
                                         ELSE w.conn[i]],
               !.sccp = @ \ Vgcs,
               !.stray = (@ \ Vgcs) \cup (Lost \cap w.sccp)]

\* ran_peer_rx_reset(): sent, RESET ACKNOWLEDGE could be composed and sent.
RpRxReset(w, p, Keep, sent) ==
  RpStateChg(RpDiscardAll(w, p, Keep), p, IF sent THEN "READY" ELSE "WAIT_RX_RESET")

\* ran_peer_reset()
RpReset(w, p, Keep, sent) ==
  LET w1 == RpDiscardAll(RpStateChg(w, p, "WAIT_RX_RESET_ACK"), p, Keep)
  IN IF sent THEN w1 ELSE RpStateChg(w1, p, "WAIT_RX_RESET")

\* RAN_PEER_EV_MSG_UP_CO_INITIAL in READY: new_incoming_conn(); the MSC-A
\* either keeps the connection or ends it while it handles the message.
RpNewIncoming(w, p, i, kept) ==
  LET w1 == [w EXCEPT !.conn[i] = [kind |-> "sub", peer |-> p, old |-> FALSE]]
  IN IF kept THEN w1 ELSE RpConnClose(w1, i)

\* A connection-oriented message in WAIT_RX_RESET (with clear_and_disconnect())
\* or WAIT_RX_RESET_ACK
RpNotReady(w, p, i, Keep, sent) == RpReset(RpSccpDisconnect(w, i), p, Keep, sent)

\* RAN_PEER_EV_UNAVAILABLE
RpUnavailable(w, p, Keep) ==
  RpStateChg(IF w.st[p] = "READY" THEN RpDiscardAll(w, p, Keep) ELSE w, p,
             "WAIT_RX_RESET")

-----------------------------------------------------------------------------
(* Actions.                                                                *)

RpBecome(w) ==
  /\ rpSt' = w.st /\ rpConn' = w.conn /\ rpSccp' = w.sccp /\ rpStray' = w.stray
  /\ rpActive' = w.active /\ rpTotal' = w.total /\ UNCHANGED rpIgnore

\* What is there when the RAN restarts or its link fails is old.
RpAged(w, p) ==
  [w EXCEPT !.conn = [i \in RpIds |-> IF w.conn[i].peer = p
                        THEN [w.conn[i] EXCEPT !.old = TRUE] ELSE w.conn[i]]]

\* N-UNITDATA with RESET, which creates the peer
RpUpReset(p, Keep, sent) ==
  RpBecome(RpRxReset(RpAged(RpFindOrCreate(RpW, p), p), p, Keep, sent))

\* N-UNITDATA with RESET ACKNOWLEDGE: only WAIT_RX_RESET_ACK takes it.
RpUpResetAck(p) ==
  LET w == RpFindOrCreate(RpW, p)
  IN RpBecome(IF w.st[p] = "WAIT_RX_RESET_ACK" THEN RpStateChg(w, p, "READY")
              ELSE w)

\* N-CONNECT with a message: the SCCP stack picks an id that it does not use.
\* An id that the MSC still uses is refused again.
RpUpConnect(p, i, kept, Keep, sent) ==
  /\ i \notin rpSccp
  /\ LET w == [RpW EXCEPT !.sccp = @ \cup {i}]
         v == RpFindOrCreate(w, p)
     IN RpBecome(IF rpConn[i].kind # "none" THEN RpSccpDisconnect(w, i)
                 ELSE IF v.st[p] = "READY" THEN RpNewIncoming(v, p, i, kept)
                 ELSE IF v.st[p] = "WAIT_RX_RESET" /\ rpIgnore
                   THEN RpNewIncoming(RpStateChg(v, p, "READY"), p, i, kept)
                 ELSE RpNotReady(v, p, i, Keep, sent))

\* N-DATA.  A message for an unknown connection is dropped.  The owner of a
\* known one may end it; over: it does.
RpUpData(i, over, Keep, sent) ==
  /\ i \in rpSccp
  /\ LET p == rpConn[i].peer
         w == IF rpSt[p] = "READY" THEN RpW ELSE RpStateChg(RpW, p, "READY")
     IN RpBecome(IF p = RpNone THEN RpW
                 ELSE IF rpSt[p] = "READY" \/ (rpSt[p] = "WAIT_RX_RESET" /\ rpIgnore)
                   THEN IF over THEN RpConnClose(w, i) ELSE w
                 ELSE RpNotReady(RpAged(RpW, p), p, i, Keep, sent))

\* N-DISCONNECT (after the N-DATA of its payload): ran_peer_disconnect()
RpUpDisconnect(i) ==
  /\ i \in rpSccp
  /\ LET w == [RpW EXCEPT !.sccp = @ \ {i}, !.stray = @ \ {i}]
     IN RpBecome(IF rpConn[i].kind = "none" THEN w ELSE RpConnDiscard(w, i))

\* The owner ends the connection: ran_conn_msc_role_gone() or ran_conn_close().
RpRoleGone(i) == rpConn[i].kind # "none" /\ RpBecome(RpConnClose(RpW, i))

\* ran_conn_create_outgoing() for a handover ("out") or a group call ("vgcs"),
\* then the first message, which a peer sends only in READY.  If it is not
\* sent the handover closes the connection; the group call does not.
RpOutgoing(p, i, kind) ==
  /\ rpConn[i].kind = "none" /\ i \notin rpSccp
  /\ LET w == RpFindOrCreate(RpW, p)
         v == [w EXCEPT !.conn[i] = [kind |-> kind, peer |-> p, old |-> FALSE]]
     IN RpBecome(IF w.st[p] = "READY" THEN [v EXCEPT !.sccp = @ \cup {i}]
                 ELSE IF kind = "vgcs" THEN v ELSE RpConnClose(v, i))

\* What handle_pcstate_ind() makes of the two indicators
RpPcState(sp, remote) ==
  CASE sp = "inaccessible" \/ remote = "gone" -> "unavailable"
    [] sp = "accessible" \/ remote = "available" -> "available"
    [] OTHER -> "none"

\* N-PCSTATE
RpUpPcState(p, sp, remote, Keep, sent) ==
  /\ rpSt[p] # "none"
  /\ LET e == RpPcState(sp, remote)
         w == RpAged(RpW, p)
     IN RpBecome(CASE e = "unavailable" -> RpUnavailable(w, p, Keep)
                   [] e = "available" /\ rpSt[p] # "READY" -> RpReset(w, p, Keep, sent)
                   [] OTHER -> RpW)

\* N-NOTICE of a failure that is not congestion
RpUpNotice(p, Keep) ==
  rpSt[p] # "none" /\ RpBecome(RpUnavailable(RpAged(RpW, p), p, Keep))

\* ran_peer_fsm_timer_cb(): RESET is not repeated.
RpTimeout(p) ==
  rpSt[p] = "WAIT_RX_RESET_ACK" /\ RpBecome(RpStateChg(RpW, p, "WAIT_RX_RESET"))

RpInit ==
  /\ rpSt = [p \in RpPeers |-> "none"] /\ rpConn = [i \in RpIds |-> RpNoConn]
  /\ rpSccp = {} /\ rpStray = {} /\ rpActive = 0 /\ rpTotal = 0
  /\ rpIgnore \in BOOLEAN

RpPeerNext(p, Keep, sent) ==
  \/ RpUpReset(p, Keep, sent) \/ RpUpResetAck(p) \/ RpTimeout(p)
  \/ RpUpNotice(p, Keep)
  \/ \E sp \in {"accessible", "inaccessible", "congested"},
        remote \in {"available", "gone", "congested"} :
       RpUpPcState(p, sp, remote, Keep, sent)
  \/ \E i \in RpIds : \/ \E kept \in BOOLEAN : RpUpConnect(p, i, kept, Keep, sent)
                      \/ \E kind \in {"out", "vgcs"} : RpOutgoing(p, i, kind)

RpNext ==
  \E Keep \in SUBSET {i \in RpIds : rpConn[i].kind = "vgcs"}, sent \in BOOLEAN :
    \/ \E p \in RpPeers : RpPeerNext(p, Keep, sent)
    \/ \E i \in RpIds : \/ \E over \in BOOLEAN : RpUpData(i, over, Keep, sent)
                        \/ RpUpDisconnect(i) \/ RpRoleGone(i)

RpSpec == RpInit /\ [][RpNext]_rpVars

-----------------------------------------------------------------------------
(* Properties.                                                             *)

\* Types.
RpTypeOK ==
  /\ rpSt \in [RpPeers -> {"none", "WAIT_RX_RESET", "WAIT_RX_RESET_ACK", "READY"}]
  /\ rpConn \in [RpIds -> [kind : {"none", "sub", "out", "vgcs"},
                           peer : RpPeers \cup {RpNone}, old : BOOLEAN]]
  /\ rpSccp \subseteq RpIds /\ rpStray \subseteq rpSccp
  /\ rpActive \in 0..Cardinality(RpPeers) /\ rpTotal \in 0..Cardinality(RpPeers)
  /\ rpIgnore \in BOOLEAN

\* A subscriber's connection exists only at a peer that has been reset and is
\* READY, and never dates from before the last RESET or loss of the link
\* (every handler that resets or loses a peer calls ran_peer_discard_all_conns());
\* the SCCP stack has it too, and has no others but those that
\* ran_conn_discard() left to it.
RpConnsFresh ==
  /\ \A i \in RpIds : rpConn[i].kind \in {"sub", "out"} =>
       rpSt[rpConn[i].peer] = "READY" /\ ~rpConn[i].old /\ i \in rpSccp
  /\ \A i \in rpSccp : rpConn[i].kind # "none" \/ i \in rpStray

=============================================================================
