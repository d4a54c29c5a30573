------------------------------ MODULE SgsLink ------------------------------
(* The SGs links of the MSC (sgs_server.c) and its MME contexts with the   *)
(* VLR reset procedure of 3GPP TS 29.118 5.7 (sgs_iface.c).  An MME opens  *)
(* any number of SCTP connections, says its name on some of them and loses *)
(* any of them at any time, also while the MSC has decided to close it.    *)
(* Of a subscriber only the state of its SGs association is kept.          *)
EXTENDS Integers

CONSTANTS
  SlConns,  \* slots for connections, used again after a connection is closed
  SlNames,  \* MME names
  SlIps,    \* addresses that connections come from
  SlSubs,   \* subscribers
  SlNs11,   \* Ns11: how often RESET-INDICATION is repeated
  SlNone

ASSUME SlAssumption ==
  SlNs11 \in Nat /\ SlNone \notin SlConns /\ SlNone \notin SlNames

VARIABLES
  slConn,  \* struct sgs_connection, and whether it ever gave a name
  slMme,   \* struct sgs_mme_ctx, and whether it was sent RESET-INDICATION
  slSub,   \* the SGs association of each subscriber
  slGsup   \* sgs_gsup_is_up()

slVars == <<slConn, slMme, slSub, slGsup>>

-----------------------------------------------------------------------------
(* A state is passed through the functions as a record.                    *)

SlW == [conn |-> slConn, mme |-> slMme, sub |-> slSub]

SlBecome(w) == slConn' = w.conn /\ slMme' = w.mme /\ slSub' = w.sub

SlNoConn ==
  [open |-> FALSE, dying |-> FALSE, mme |-> SlNone, ip |-> SlNone, named |-> FALSE]

\* sgs_mme_detach_connection()
SlDetach(w, c) ==
  LET n == w.conn[c].mme
  IN IF n = SlNone THEN w
     ELSE [w EXCEPT !.conn[c].mme = SlNone,
                    !.mme[n].conn = IF @ = c THEN SlNone ELSE @]

\* sgs_conn_schedule_destroy(): the connection stays open and is read until the
\* timer runs.
SlScheduleDestroy(w, c) == [w EXCEPT !.conn[c].dying = TRUE]

\* sgs_conn_closed_cb()
SlClosed(w, c) ==
  LET w1 == SlDetach(w, c) IN [w1 EXCEPT !.conn[c] = SlNoConn]

\* vlr_sgs_reset_mme(): the associations with this MME only.
SlDropAssocs(w, n) ==
  [w EXCEPT !.sub = [s \in SlSubs |-> IF w.sub[s].mme = n
                                        THEN [w.sub[s] EXCEPT !.st = "NULL"]
                                        ELSE w.sub[s]]]

\* SGS_VLRR_E_START_RESET: RESET-INDICATION is sent.
SlStartReset(w, n) ==
  [SlDropAssocs(w, n) EXCEPT !.mme[n] = [@ EXCEPT !.fsm = "WAIT_ACK",
                                                  !.left = SlNs11, !.reset = TRUE]]

\* sgs_mme_maybe_vlr_reset()
SlMaybeVlrReset(w, n, gsup) ==
  IF w.mme[n].conn # SlNone /\ w.mme[n].fsm = "NULL" /\ gsup
    THEN SlStartReset(w, n) ELSE w

\* sgs_mme_fqdn_received() on a connection that gave no name or this one: the
\* connection becomes the one of the MME and an older one is to be closed.
SlAdopt(w, c, n) ==
  LET stale == w.mme[n].conn
      w1    == IF stale \in {SlNone, c} THEN w
               ELSE SlScheduleDestroy(SlDetach(w, stale), stale)
  IN [w1 EXCEPT !.mme[n].conn = c,
                !.conn[c] = [@ EXCEPT !.mme = n, !.named = TRUE]]

SlFqdnReceived(w, c, n) == SlMaybeVlrReset(SlAdopt(w, c, n), n, slGsup)

-----------------------------------------------------------------------------
(* Connections come and go.                                                *)

\* Connections that sgs_close_replaced_peer_conns() closes: those whose peer
\* cannot be told any more, and unnamed ones from the same address.
SlReplaced(ip, dead) ==
  {d \in SlConns : /\ slConn[d].open
                   /\ d \in dead \/ (slConn[d].ip = ip /\ slConn[d].mme = SlNone)}

\* sgs_accept_cb()
SlAccept(c, ip, dead) ==
  /\ ~slConn[c].open
  /\ slConn' = [d \in SlConns |->
                  IF d = c THEN [SlNoConn EXCEPT !.open = TRUE, !.ip = ip]
                  ELSE IF d \in SlReplaced(ip, dead)
                         THEN [slConn[d] EXCEPT !.dying = TRUE]
                  ELSE slConn[d]]
  /\ UNCHANGED <<slMme, slSub, slGsup>>

\* sgs_conn_readable_cb(), sgs_conn_handle_sctp_notif(): the association is
\* lost.  After SCTP_SHUTDOWN_EVENT and SCTP_RESTART the connection is kept.
SlLost(c) ==
  slConn[c].open /\ SlBecome(SlClosed(SlW, c)) /\ UNCHANGED slGsup

\* sgs_conn_destroy_timer_cb()
SlDestroyTimeout(c) ==
  slConn[c].dying /\ SlBecome(SlClosed(SlW, c)) /\ UNCHANGED slGsup

-----------------------------------------------------------------------------
(* Messages of an MME.  sgs_iface_rx() drops one with a name other than    *)
(* that of its connection.                                                 *)

SlReadable(c, n) == slConn[c].open /\ slConn[c].mme \in {SlNone, n}

\* sgs_rx_reset_ind()
SlRxResetInd(c, n) ==
  /\ SlReadable(c, n)
  /\ SlBecome(SlDropAssocs(SlFqdnReceived(SlW, c, n), n))
  /\ UNCHANGED slGsup

\* SGS_VLRR_E_RX_RESET_ACK, ignored unless waited for.
SlAcked(w, n) ==
  IF w.mme[n].fsm = "WAIT_ACK" THEN [w EXCEPT !.mme[n].fsm = "COMPLETE"] ELSE w

\* sgs_rx_reset_ack(); the name alone may have started the procedure again.
SlRxResetAck(c, n) ==
  /\ SlReadable(c, n)
  /\ SlBecome(SlAcked(SlFqdnReceived(SlW, c, n), n))
  /\ UNCHANGED slGsup

\* Mutant: an LU is accepted although GSUP is down.
SlMutRxLocUpdReq(c, n, s) ==
  /\ SlReadable(c, n)
  /\ SlBecome([SlFqdnReceived(SlW, c, n) EXCEPT !.sub[s] = [st |-> "LU", mme |-> n]])
  /\ UNCHANGED slGsup

\* sgs_rx_loc_upd_req()
SlRxLocUpdReq(c, n, s) ==
  /\ SlReadable(c, n)
  /\ LET w == SlFqdnReceived(SlW, c, n)
     IN SlBecome(IF slGsup THEN [w EXCEPT !.sub[s] = [st |-> "LU", mme |-> n]]
                 ELSE w)
  /\ UNCHANGED slGsup

\* sgs_rx_imsi_det_ind() and sgs_rx_eps_det_ind()
SlRxDetInd(c, n, s) ==
  /\ SlReadable(c, n)
  /\ SlBecome([SlFqdnReceived(SlW, c, n) EXCEPT !.sub[s].st = "NULL"])
  /\ UNCHANGED slGsup

\* The HLR's answer to the LU, or its loss.
SlLuEnds(s, accepted) ==
  /\ slSub[s].st = "LU"
  /\ slSub' = [slSub EXCEPT ![s].st = IF accepted THEN "ASSOCIATED" ELSE "NULL"]
  /\ UNCHANGED <<slConn, slMme, slGsup>>

-----------------------------------------------------------------------------
(* Timers and the GSUP link.                                               *)

\* sgs_vlr_reset_fsm_timer_cb(): also without a connection.
SlTs11Timeout(n) ==
  /\ slMme[n].fsm = "WAIT_ACK"
  /\ slMme' = IF slMme[n].left >= 1 THEN [slMme EXCEPT ![n].left = @ - 1]
              ELSE [slMme EXCEPT ![n].fsm = "NULL"]
  /\ UNCHANGED <<slConn, slSub, slGsup>>

\* Mutant: resets that were put off are not taken up again.
SlMutGsupUp == ~slGsup /\ slGsup' = TRUE /\ UNCHANGED <<slConn, slMme, slSub>>

\* sgs_gsup_link_changed(): one MME after the other, which do not share
\* subscribers.
SlGsupUp ==
  /\ ~slGsup /\ slGsup' = TRUE
  /\ LET due == {n \in SlNames : slMme[n].conn # SlNone /\ slMme[n].fsm = "NULL"}
     IN /\ slMme' = [n \in SlNames |-> IF n \in due THEN SlStartReset(SlW, n).mme[n]
                                       ELSE slMme[n]]
        /\ slSub' = [s \in SlSubs |-> IF slSub[s].mme \in due
                                        THEN [slSub[s] EXCEPT !.st = "NULL"]
                                        ELSE slSub[s]]
  /\ UNCHANGED slConn

SlGsupDown == slGsup /\ slGsup' = FALSE /\ UNCHANGED <<slConn, slMme, slSub>>

-----------------------------------------------------------------------------
SlInit ==
  /\ slConn = [c \in SlConns |-> SlNoConn]
  /\ slMme = [n \in SlNames |-> [conn |-> SlNone, fsm |-> "NULL", left |-> 0,
                                 reset |-> FALSE]]
  /\ slSub = [s \in SlSubs |-> [st |-> "NULL", mme |-> SlNone]]
  /\ slGsup = FALSE

SlNext ==
  \/ \E c \in SlConns :
       \/ \E ip \in SlIps, dead \in SUBSET SlConns : SlAccept(c, ip, dead)
       \/ SlLost(c)
       \/ SlDestroyTimeout(c)
       \/ \E n \in SlNames : SlRxResetInd(c, n) \/ SlRxResetAck(c, n)
       \/ \E n \in SlNames, s \in SlSubs : SlRxLocUpdReq(c, n, s) \/ SlRxDetInd(c, n, s)
  \/ \E s \in SlSubs, accepted \in BOOLEAN : SlLuEnds(s, accepted)
  \/ \E n \in SlNames : SlTs11Timeout(n)
  \/ SlGsupUp
  \/ SlGsupDown

SlSpec == SlInit /\ [][SlNext]_slVars

\* The event loop runs every timer.
SlFair ==
  /\ \A c \in SlConns : WF_slVars(SlDestroyTimeout(c))
  /\ \A n \in SlNames : WF_slVars(SlTs11Timeout(n))

-----------------------------------------------------------------------------
(* Properties.                                                             *)

\* The state stays within its types; a closed slot holds nothing.
SlTypeOK ==
  /\ slConn \in [SlConns -> [open : BOOLEAN, dying : BOOLEAN,
                             mme : SlNames \cup {SlNone}, ip : SlIps \cup {SlNone},
                             named : BOOLEAN]]
  /\ slMme \in [SlNames -> [conn : SlConns \cup {SlNone},
                            fsm : {"NULL", "WAIT_ACK", "COMPLETE"},
                            left : 0..SlNs11, reset : BOOLEAN]]
  /\ slSub \in [SlSubs -> [st : {"NULL", "LU", "ASSOCIATED"},
                           mme : SlNames \cup {SlNone}]]
  /\ slGsup \in BOOLEAN
  /\ \A c \in SlConns : ~slConn[c].open => slConn[c] = SlNoConn

\* A connection and an MME context point to each other or not at all: what is
\* sent to an MME never goes to a closed connection or to another MME, however
\* links were replaced (sgs_mme_fqdn_received(), sgs_conn_closed_cb()).
SlLinked ==
  /\ \A n \in SlNames : LET c == slMme[n].conn
                        IN c # SlNone => slConn[c].open /\ slConn[c].mme = n
  /\ \A c \in SlConns : LET n == slConn[c].mme
                        IN n # SlNone => slMme[n].conn = c

\* A connection that once was an MME's and no longer is will be closed: no
\* replaced link lingers unread ("Replacing stale SGs link").
SlStaleCloses ==
  \A c \in SlConns : slConn[c].named => slConn[c].mme # SlNone \/ slConn[c].dying

\* In whichever order GSUP and the MME's link come up, an MME that can be
\* reached while GSUP is up has been sent RESET-INDICATION
\* (sgs_mme_maybe_vlr_reset(), sgs_gsup_link_changed()).
SlResetSent == \A n \in SlNames : slGsup /\ slMme[n].conn # SlNone => slMme[n].reset

\* No subscriber has an association, or an LU under way, with an MME that was
\* not sent RESET-INDICATION since the MSC started (TS 29.118 5.7).
SlResetFirst ==
  \A s \in SlSubs : slSub[s].st # "NULL" => slMme[slSub[s].mme].reset

\* A reset that the MME acknowledged is never repeated: "Send RESET-IND once; do
\* not send again after COMPLETE" (sgs_mme_maybe_vlr_reset()).
SlCompleteStays ==
  [][\A n \in SlNames : slMme[n].fsm = "COMPLETE" => slMme'[n].fsm = "COMPLETE"]_slVars

\* The wait for RESET-ACK ends (Ts11, Ns11).
SlWaitEnds ==
  \A n \in SlNames : slMme[n].fsm = "WAIT_ACK" ~> slMme[n].fsm # "WAIT_ACK"

=============================================================================
