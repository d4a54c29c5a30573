------------------------------ MODULE CallLeg ------------------------------
(***************************************************************************)
(* A call leg (call_leg.c), its RTP streams towards the RAN and towards    *)
(* the CN (rtp_stream.c), and the MGW endpoint they use.                   *)
(*                                                                         *)
(* The endpoint and its connections (CIs) belong to libosmo-mgcp-client    *)
(* and the MGW, which are external: the requests for a CI are answered in  *)
(* their order, OK or FAIL; a CI that is deleted leaves, and the endpoint  *)
(* goes with its last one or by itself.  An address or a codec list is     *)
(* known or not, and sent to the MGW or not.                               *)
(***************************************************************************)
EXTENDS Integers, Sequences, FiniteSets

CONSTANTS
    ClOsmux,        \* the values ran_peer_supports_osmux may have
    ClMaxQueue      \* bound on the requests in flight for one CI

ASSUME ClAssumption == ClOsmux \subseteq BOOLEAN /\ ClMaxQueue \in Nat

ClDirs == {"RTP_TO_RAN", "RTP_TO_CN"}

VARIABLES
    clState,    \* state of the call leg FSM; "gone" once terminated
    clRtp,      \* direction -> cl->rtp[dir]
    clEp,       \* mgw_endpoint # NULL
    clCi,       \* direction -> CI at the endpoint
    clReq,      \* direction -> MGCP requests in flight with a notify
    clTold,     \* times the parent was sent parent_event_term
    clDone,     \* parent_event_rtp_complete was sent
    clClients,  \* mgcp_client references taken from the pool
    clLost,     \* the leg gave up on the MGW (T-2 in RELEASING)
    clUse       \* ran_peer_supports_osmux, constant

clVars == <<clState, clRtp, clEp, clCi, clReq, clTold, clDone,
            clClients, clLost, clUse>>

ClNoRtp == [st |-> "NULL", ci |-> FALSE, local |-> FALSE, remote |-> FALSE,
            rsent |-> FALSE, codecs |-> FALSE, csent |-> FALSE, mode |-> 0,
            msent |-> FALSE, osmux |-> FALSE, cid |-> FALSE, osent |-> FALSE]

ClW == [state |-> clState, rtp |-> clRtp, ep |-> clEp, ci |-> clCi,
        req |-> clReq, told |-> clTold, done |-> clDone,
        clients |-> clClients, lost |-> clLost]

ClBecome(new) == \E w \in {new} :
    /\ clState' = w.state /\ clRtp' = w.rtp /\ clEp' = w.ep /\ clCi' = w.ci
    /\ clReq' = w.req /\ clTold' = w.told /\ clDone' = w.done
    /\ clClients' = w.clients /\ clLost' = w.lost /\ UNCHANGED clUse

\* call_leg_alloc()
ClInit ==
    /\ clState = "ESTABLISHING"
    /\ clRtp = [d \in ClDirs |-> ClNoRtp]
    /\ clEp = FALSE
    /\ clCi = [d \in ClDirs |-> "none"]
    /\ clReq = [d \in ClDirs |-> <<>>]
    /\ clTold = 0 /\ clDone = FALSE /\ clClients = 0 /\ clLost = FALSE
    /\ clUse \in ClOsmux

ClReleased(w) == w.state \in {"RELEASING", "gone"}

-----------------------------------------------------------------------------
\* Release.

\* rtp_stream_fsm_cleanup() of a stream that is discarded: the notify is
\* cancelled and the CI deleted.
ClStreamGone(w, d) ==
    IF w.rtp[d].ci
    THEN [w EXCEPT !.ci[d] = "dlcx", !.req[d] = <<>>, !.rtp[d] = ClNoRtp]
    ELSE [w EXCEPT !.rtp[d] = ClNoRtp]

ClTryFinish(w) == IF w.ep THEN w ELSE [w EXCEPT !.state = "gone"]

\* call_leg_fsm_releasing_onenter(); the streams' own CALL_LEG_EV_RTP_STREAM_GONE
\* finds the leg in RELEASING and is ignored.
ClReleasingOnenter(w) ==
    ClTryFinish(ClStreamGone(ClStreamGone(w, "RTP_TO_RAN"), "RTP_TO_CN"))

\* call_leg_release()
ClRelease(w) ==
    IF ClReleased(w) THEN w
    ELSE ClReleasingOnenter([w EXCEPT !.told = @ + 1, !.state = "RELEASING"])

\* call_leg_mgw_endpoint_gone()
ClMutEndpointGone(w) ==
    [w EXCEPT !.ep = FALSE,
              !.ci = [d \in ClDirs |-> "none"],
              !.req = [d \in ClDirs |-> <<>>],
              !.rtp = [d \in ClDirs |-> [@[d] EXCEPT !.ci = FALSE]]]
ClEndpointGone(w) ==
    [w EXCEPT !.clients = @ - 1, !.ep = FALSE,
              !.ci = [d \in ClDirs |-> "none"],
              !.req = [d \in ClDirs |-> <<>>],
              !.rtp = [d \in ClDirs |-> [@[d] EXCEPT !.ci = FALSE]]]

\* CALL_LEG_EV_MGW_ENDPOINT_GONE
ClEndpointGoneEv(w) ==
    IF ClReleased(w) THEN ClTryFinish(ClEndpointGone(w))
    ELSE ClRelease(ClEndpointGone(w))

-----------------------------------------------------------------------------
\* Establishing.

\* rtp_stream_is_established()
ClIsEstablished(r) ==
    /\ r.st = "ESTABLISHED" /\ r.rsent /\ r.csent /\ r.msent
    /\ r.osmux => r.osent

\* CALL_LEG_EV_RTP_STREAM_ESTABLISHED and call_leg_fsm_established_onenter()
ClStreamEstablished(w) ==
    IF w.state = "ESTABLISHING" /\ \A d \in ClDirs : ClIsEstablished(w.rtp[d])
    THEN [w EXCEPT !.state = "ESTABLISHED", !.done = TRUE] ELSE w

\* check_established()
ClCheckEstablished(w, d) ==
    LET r == w.rtp[d]
    IN IF /\ r.st # "ESTABLISHED" /\ r.local /\ r.remote /\ r.rsent /\ r.codecs
          /\ r.osmux => r.osent
       THEN ClStreamEstablished([w EXCEPT !.rtp[d].st = "ESTABLISHED"]) ELSE w

\* rtp_stream_do_mgcp_verb()
ClDoVerb(w, d, verb) ==
    LET r == w.rtp[d]
    IN IF ~r.ci THEN w
       ELSE [w EXCEPT !.req[d] = Append(@, verb),
                      !.rtp[d] = [r EXCEPT !.csent = @ \/ r.codecs,
                                           !.rsent = @ \/ r.remote,
                                           !.msent = TRUE,
                                           !.osent = @ \/ (r.osmux /\ r.cid)]]

\* rtp_stream_commit()
ClCommit(w, d) ==
    LET r == w.rtp[d]
    IN IF r.remote /\ r.codecs /\ ~(r.rsent /\ r.csent /\ r.msent) /\ r.ci
       THEN ClDoVerb(w, d, "MDCX") ELSE w

\* A setter of a stream: back to ESTABLISHING, to be sent again.
ClReopen(r) == IF r.st = "ESTABLISHED" THEN "ESTABLISHING" ELSE r.st

\* rtp_stream_set_mode(), rtp_stream_set_codecs(), rtp_stream_set_remote_addr(),
\* rtp_stream_set_remote_osmux_cid()
ClSetMode(w, d, mode) ==
    IF w.rtp[d].mode = mode THEN w
    ELSE [w EXCEPT !.rtp[d].st = ClReopen(w.rtp[d]), !.rtp[d].msent = FALSE,
                   !.rtp[d].mode = mode]

ClSetCodecs(w, d, new) ==
    IF ~new THEN w
    ELSE [w EXCEPT !.rtp[d].st = ClReopen(w.rtp[d]), !.rtp[d].codecs = TRUE,
                   !.rtp[d].csent = FALSE]

ClSetRemoteAddr(w, d, new) ==
    IF ~new THEN w
    ELSE [w EXCEPT !.rtp[d].st = ClReopen(w.rtp[d]), !.rtp[d].remote = TRUE,
                   !.rtp[d].rsent = FALSE]

ClSetOsmuxCid(w, d) ==
    [w EXCEPT !.rtp[d].st = ClReopen(w.rtp[d]), !.rtp[d].cid = TRUE,
              !.rtp[d].osent = FALSE]

\* call_leg_ensure_rtp_alloc()
ClEnsureRtpAlloc(w, d) ==
    IF w.rtp[d].st # "NULL" THEN w
    ELSE LET w1 == IF w.ep THEN w
                   ELSE [w EXCEPT !.ep = TRUE, !.clients = @ + 1]
         IN [w1 EXCEPT !.rtp[d] = [ClNoRtp EXCEPT !.st = "UNINITIALIZED"]]

\* rtp_stream_ensure_ci(); room: osmo_mgcpc_ep_ci_add() finds a CI
ClStreamEnsureCi(w, d, room) ==
    IF w.rtp[d].ci THEN ClCommit(w, d)
    ELSE LET w1 == [w EXCEPT !.rtp[d].st = "ESTABLISHING"]
         IN IF ~room THEN w1
            ELSE ClDoVerb([w1 EXCEPT !.rtp[d].ci = TRUE, !.ci[d] = "up"],
                          d, "CRCX")

\* call_leg_ensure_ci(), with cl->crcx_conn_mode[d] = mode: each call for the RAN side asks for any Osmux CID.
ClEnsureCi(d, mode, codecs, addr, room) ==
    /\ ~ClReleased(ClW) /\ Len(clReq[d]) < ClMaxQueue
    /\ LET w1 == ClEnsureRtpAlloc(ClW, d)
           w2 == ClSetMode(w1, d, mode)
           w3 == IF d = "RTP_TO_RAN" /\ clUse
                 THEN [w2 EXCEPT !.rtp[d].osmux = TRUE, !.rtp[d].cid = FALSE]
                 ELSE w2
           w4 == ClSetRemoteAddr(ClSetCodecs(w3, d, codecs), d, addr)
       IN ClBecome(ClStreamEnsureCi(w4, d, room))

\* No MGW in the pool: call_leg_ensure_ci() fails before it does anything,
\* and the parent releases the leg.  Also any other release by the parent.
ClParentRelease ==
    /\ clState \in {"ESTABLISHING", "ESTABLISHED", "RELEASING"}
    /\ ClBecome(ClRelease(ClW))

\* The Osmux CID of the BSC in the Assignment Complete, then a commit
ClRxOsmuxCid ==
    /\ clRtp["RTP_TO_RAN"].osmux /\ ~clRtp["RTP_TO_RAN"].cid
    /\ Len(clReq["RTP_TO_RAN"]) < ClMaxQueue
    /\ ClBecome(ClCommit(ClSetOsmuxCid(ClW, "RTP_TO_RAN"), "RTP_TO_RAN"))
   

-----------------------------------------------------------------------------
\* The MGW.

ClAnswered(w, d) == [w EXCEPT !.req[d] = Tail(@)]

\* RTP_STREAM_EV_CRCX_OK in ESTABLISHING
ClCrcxOk(w, d) ==
    LET w1 == ClCheckEstablished([w EXCEPT !.rtp[d].local = TRUE], d)
        r == w1.rtp[d]
    IN IF /\ ~(r.rsent /\ r.csent /\ r.msent) /\ r.remote
          /\ (r.osmux => r.osent) /\ r.codecs
       THEN ClDoVerb(w1, d, "MDCX") ELSE w1

\* rtp_stream_fsm_establishing_established(); the state ESTABLISHED admits no
\* event.
ClMgwOk(d) ==
    /\ clReq[d] # <<>>
    /\ LET w1 == ClAnswered(ClW, d)
       IN ClBecome(CASE clRtp[d].st # "ESTABLISHING" -> w1
                     [] clRtp[d].st = "ESTABLISHING" /\ Head(clReq[d]) = "CRCX" ->
                          ClCrcxOk(w1, d)
                     [] OTHER -> ClCheckEstablished(w1, d))
   

\* A failure, or the wrong use of Osmux in the response: the stream is
\* discarded, and with it the leg (CALL_LEG_EV_RTP_STREAM_GONE).
ClMgwFail(d) ==
    /\ clReq[d] # <<>>
    /\ LET w1 == ClAnswered(ClW, d)
       IN ClBecome(IF clRtp[d].st # "ESTABLISHING" THEN w1
                   ELSE ClRelease(ClStreamGone(w1, d)))
   

\* A CI is deleted; the endpoint goes with the last one.
ClDlcxDone(d) ==
    /\ clCi[d] = "dlcx"
    /\ LET w1 == [ClW EXCEPT !.ci[d] = "none"]
       IN ClBecome(IF \A e \in ClDirs : w1.ci[e] = "none"
                   THEN ClEndpointGoneEv(w1) ELSE w1)
   

ClMgwGone ==
    /\ clEp /\ ClBecome(ClEndpointGoneEv(ClW))

-----------------------------------------------------------------------------
\* Timers.

\* rtp_stream_fsm_timer_cb(): T-2 runs in ESTABLISHING only.
ClStreamExpire(w, d) == ClRelease(ClStreamGone(w, d))

ClStreamTimeout(d) ==
    /\ clRtp[d].st = "ESTABLISHING"
    /\ ClBecome(ClStreamExpire(ClW, d))

\* call_leg_fsm_timer_cb() in RELEASING.  The endpoint dies as a child, whose
\* end is not reported, so its client is not put back.
ClLegTimeout ==
    /\ clState = "RELEASING"
    /\ ClBecome([ClW EXCEPT !.state = "gone", !.lost = TRUE, !.ep = FALSE,
                            !.ci = [d \in ClDirs |-> "none"]])
   

-----------------------------------------------------------------------------
ClNext ==
    \/ \E d \in ClDirs, mode \in 0..1, codecs, addr, room \in BOOLEAN :
         ClEnsureCi(d, mode, codecs, addr, room)
    \/ ClParentRelease \/ ClRxOsmuxCid \/ ClMgwGone \/ ClLegTimeout
    \/ \E d \in ClDirs :
         ClMgwOk(d) \/ ClMgwFail(d) \/ ClDlcxDone(d) \/ ClStreamTimeout(d)

ClSpec == ClInit /\ [][ClNext]_clVars

\* The timers T-2 run.
ClFair == WF_clVars(ClLegTimeout) /\ \A d \in ClDirs : WF_clVars(ClStreamTimeout(d))

-----------------------------------------------------------------------------
\* Properties.

\* The types of the variables.
ClTypeOK ==
    /\ clState \in {"ESTABLISHING", "ESTABLISHED", "RELEASING", "gone"}
    /\ clRtp \in [ClDirs ->
         [st : {"NULL", "UNINITIALIZED", "ESTABLISHING", "ESTABLISHED"},
          ci : BOOLEAN, local : BOOLEAN, remote : BOOLEAN, rsent : BOOLEAN,
          codecs : BOOLEAN, csent : BOOLEAN, mode : 0..1, msent : BOOLEAN,
          osmux : BOOLEAN, cid : BOOLEAN, osent : BOOLEAN]]
    /\ clEp \in BOOLEAN /\ clCi \in [ClDirs -> {"none", "up", "dlcx"}]
    /\ \A d \in ClDirs : Len(clReq[d]) <= ClMaxQueue + 1
    /\ clDone \in BOOLEAN /\ clTold \in Nat /\ clClients \in 0..1 /\ clLost \in BOOLEAN
    /\ clUse \in BOOLEAN

\* What a leg takes is given back once, whichever of a stream, the endpoint, a
\* timer and the parent itself ends it, and however often: the parent is told of
\* the end once, every connection at the MGW is a stream's or being deleted
\* (rtp_stream_fsm_cleanup()), and the pool of MGCP clients counts the endpoints
\* in use, except where the leg gave up waiting for the MGW.
ClGivenBack ==
    /\ clTold = (IF ClReleased(ClW) THEN 1 ELSE 0)
    /\ \A d \in ClDirs : clCi[d] = "up" <=> clRtp[d].ci
    /\ clClients = (IF clEp \/ (clLost /\ clState = "gone") THEN 1 ELSE 0)

\* A call leg that is released ends, and a stream does not stay half set up.
ClEnds ==
    /\ clState = "RELEASING" ~> clState = "gone"
    /\ \A d \in ClDirs :
         clRtp[d].st = "ESTABLISHING" ~> clRtp[d].st # "ESTABLISHING"
=============================================================================
