------------------------------ MODULE Handover ------------------------------
(***************************************************************************)
(* Inter-BSC and inter-MSC handover of one subscriber with one call.       *)
(* MSC-A (hoA) has the real MSC-A role with its handover FSM (msc_ho.c),   *)
(* an MSC-I role that is a local BSS connection or a remote one            *)
(* (msc_i.c, msc_i_remote.c), a transitional MSC-T role (msc_t.c,          *)
(* msc_t_remote.c) and the MNCC calls that forward the voice to the other  *)
(* MSC (mncc_call.c).  MSC-B (hoB) is the same program on the other side   *)
(* of the E link: msc_a_remote.c in front of an MSC-T, later an MSC-I.     *)
(* The E link (e_link.c) is the pair of queues hoA.out and hoB.out.        *)
(*                                                                         *)
(* Cells are names; the RTP address of a call is the name of the cell it   *)
(* leads to, "fwd" for the PBX of a forwarding call, "zero" when cleared   *)
(* and "none" when the stream is gone.  A message that the receiving MSC   *)
(* only passes down to its BSS (FORWARD ACCESS SIGNALLING, PREPARE         *)
(* SUBSEQUENT HANDOVER RESULT and ERROR) changes nothing there and is not  *)
(* queued.  Encoding and decoding of the RAN messages is left out.         *)
(***************************************************************************)
EXTENDS Integers, Sequences, FiniteSets

CONSTANTS
    HoCells,     \* cells of local BSSs
    HoFirstCell, \* the one the call starts in
    HoLists,     \* the cell identifier lists a BSS sends
    HoCallIds,   \* MNCC calls that can exist at a time at MSC-A (a bound)
    HoMaxTries,  \* handovers that MSC-A starts (a bound)
    HoMaxQueue,  \* messages on the E link in one direction, answers to
                 \* messages from there not counted (a bound)
    HoRange,     \* size of the configured Handover Number range, 1..HoRange
    HoNone

\* An entry of a cell identifier list: what the neighbor configuration says of
\* the cell, and a peer that advertised it.
HoEntries == [ident : {"none", "local", "remote"}, peer : HoCells \cup {HoNone},
              seen : HoCells \cup {HoNone}]

ASSUME HoAssumption ==
    /\ HoFirstCell \in HoCells /\ "remote" \notin HoCells
    /\ HoNone \notin HoCells /\ HoNone \notin HoCallIds /\ HoNone # "remote"
    /\ \A cil \in HoLists : cil \in Seq(HoEntries)
    /\ HoRange \in Nat \ {0}

VARIABLES
    hoA,         \* the msub of the subscriber at MSC-A
    hoB,         \* its msub at MSC-B
    hoNums       \* MSC-B's net->handover_number.next, numbers of other MSC-T

hoVars == <<hoA, hoB, hoNums>>

\* An MNCC call is FREE, UP (every state from its start to TALKING treats the
\* messages alike) or in WAIT_RELEASE_ACK; rtps tells whether it holds the
\* call's RTP stream, par whether its parent is the handover or msc_a.
HoFree == [st |-> "FREE", rtps |-> FALSE, par |-> HoNone]
HoIdle == [ho |-> "NONE", cil |-> <<>>, new |-> HoNone, newRtp |-> FALSE,
           switched |-> FALSE, old |-> "zero", fwd |-> HoNone]

HoAInit(c) ==
    [st |-> "COMMUNICATING", i |-> c, t |-> HoNone, tst |-> HoNone,
     clearing |-> {}, rtp |-> c, calls |-> [k \in HoCallIds |-> HoFree],
     cc |-> HoNone, asked |-> "no", pre |-> c, tries |-> 0, abort |-> FALSE, ub |-> FALSE,
     out |-> <<>>, h |-> HoIdle]

HoBEmpty == [a |-> FALSE, t |-> HoNone, i |-> FALSE, leg |-> "none",
             num |-> 0, call |-> "none", crash |-> FALSE, out |-> <<>>]

\* A failed OSMO_ASSERT or a use of freed memory ends the program's run.
HoRunning == ~hoA.abort /\ ~hoA.ub
HoSend(w, m) == [w EXCEPT !.out = Append(@, m)]

-----------------------------------------------------------------------------
(* The forwarding calls of MSC-A and the RTP stream towards the RAN *)

\* MSC_A_ST_RELEASING: the call leg goes, the forwarding calls forget it.
HoReleasing(w) ==
    [w EXCEPT !.st = "RELEASING", !.rtp = "none",
              !.calls = [k \in HoCallIds |->
                  IF k \in {w.cc, w.h.fwd} THEN [@[k] EXCEPT !.rtps = FALSE] ELSE @[k]]]

\* rtp_stream_release() on the stream of the call: the call leg ends, msc_a
\* gets MSC_EV_CALL_LEG_TERM, frees the active transaction and is unused.
HoStreamRelease(w) == IF w.rtp = "none" THEN [w EXCEPT !.ub = TRUE] ELSE HoReleasing(w)

\* mncc_call_fsm_cleanup()
HoCallCleanup(w, k) ==
    LET w1 == [w EXCEPT !.calls[k] = HoFree]
    IN  IF w.calls[k].rtps THEN HoStreamRelease(w1) ELSE w1

\* mncc_call_detach_rtp_stream()
HoDetachRtp(w, k) ==
    IF k = HoNone \/ ~w.calls[k].rtps THEN w
    ELSE [w EXCEPT !.calls[k].rtps = FALSE, !.rtp = "zero"]

\* mncc_call_set_rtp_stream()
HoSetRtp(w, k) == IF k = HoNone THEN w ELSE [w EXCEPT !.calls[k].rtps = TRUE]

\* mncc_call_release(): DISC_IND, then wait for the release from the PBX.
HoCallRelease(w, k) ==
    IF k = HoNone THEN w ELSE [w EXCEPT !.calls[k].st = "WAIT_RELEASE_ACK"]

\* Every child of a terminating FSM instance is terminated with it.
HoCallsOf(w, par) == {k \in HoCallIds : w.calls[k].st # "FREE" /\ w.calls[k].par = par}

-----------------------------------------------------------------------------
(* Roles of the msub at MSC-A *)

\* The msub terminates, and with it every role, the handover and the calls.
\* A remote role says CLOSE to the MSC at the other end of its E link.
HoAGone(w) ==
    LET closes == IF w.i = "remote" /\ w.t = "remote" THEN <<"CLOSE", "CLOSE">>
                  ELSE IF "remote" \in {w.i, w.t} THEN <<"CLOSE">> ELSE <<>>
        dangling == \E k \in HoCallIds : w.calls[k].rtps /\ w.rtp = "none"
    IN  [w EXCEPT !.st = "GONE", !.i = HoNone, !.t = HoNone, !.tst = HoNone,
                  !.clearing = {}, !.rtp = "none", !.cc = HoNone, !.asked = "no", !.pre = "none",
                  !.calls = [k \in HoCallIds |-> HoFree], !.h = HoIdle,
                  !.out = w.out \o closes, !.ub = w.ub \/ dangling]

\* msub_check_for_release(): an MSC-I still in CLEARING counts as present.
HoCheckRelease(w) ==
    IF w.i # HoNone \/ w.t # HoNone \/ w.clearing # {} THEN w ELSE HoAGone(w)

HoMutTGone(w) == HoCheckRelease([w EXCEPT !.t = HoNone, !.tst = HoNone])
\* The MSC-T role is terminated and removed from the msub.
HoTGone(w) ==
    IF w.t = HoNone THEN w
    ELSE HoCheckRelease([(IF w.t = "remote" THEN HoSend(w, "CLOSE") ELSE w)
                           EXCEPT !.t = HoNone, !.tst = HoNone])

HoMutNewI(w, i) ==
    [(IF w.i = "remote" THEN HoSend(w, "CLOSE") ELSE w)
       EXCEPT !.i = i, !.clearing = @ \cup {w.i}]
\* msub_set_role() for a new MSC-I: a previous local one sends a Clear
\* Command and waits in CLEARING, a previous remote one says CLOSE and is gone.
HoNewI(w, i) ==
    [(IF w.i = "remote" THEN HoSend(w, "CLOSE") ELSE w)
       EXCEPT !.i = i,
              !.clearing = IF w.i \in HoCells THEN @ \cup {w.i} ELSE @]

-----------------------------------------------------------------------------
(* The handover FSM *)

\* Termination of the handover FSM: its forwarding call goes first, then
\* msc_ho_fsm_cleanup() clears msc_a->ho and the MSC-T.
HoTerm(w) ==
    LET ks == HoCallsOf(w, "ho")
        w1 == IF ks = {} THEN w ELSE HoCallCleanup(w, CHOOSE k \in ks : TRUE)
    IN  HoTGone([w1 EXCEPT !.h = HoIdle])

\* Mutant: the stream is pointed at the forwarding call, not at the old cell.
HoMutRollback(w) ==
    IF ~w.h.switched \/ w.rtp = "none" \/ w.h.old = "zero" THEN w
    ELSE [HoSetRtp(w, w.cc) EXCEPT !.h.switched = FALSE, !.rtp = "fwd"]

\* msc_ho_rtp_rollback_to_old_cell()
HoRollback(w) ==
    IF ~w.h.switched \/ w.rtp = "none" \/ w.h.old = "zero" THEN w
    ELSE [HoSetRtp(HoDetachRtp(w, w.h.fwd), w.cc)
            EXCEPT !.h.switched = FALSE, !.rtp = w.h.old]

HoMutRequiredReject(w) == IF w.i = HoNone THEN [w EXCEPT !.abort = TRUE] ELSE w
\* msc_ho_down_required_reject(): asserts that there is an MSC-I role.
HoRequiredReject(w) ==
    IF w.i = HoNone THEN [w EXCEPT !.abort = TRUE] ELSE [w EXCEPT !.asked = "no"]

\* msc_ho_failed(): msc_ho_end() without success.
HoFailed(w) == HoTerm(HoRequiredReject(HoRollback(w)))

\* msc_ho_success(): msc_ho_end() turns the MSC-T into the new MSC-I, which
\* takes over its connection or its E link.
HoSuccess(w) ==
    LET w1 == [HoCallRelease(w, w.cc) EXCEPT !.cc = HoNone]
        w2 == IF w.t # "remote" THEN w1
              ELSE [w1 EXCEPT !.cc = w.h.fwd, !.h.fwd = HoNone,
                              !.calls[w.h.fwd].par = "a"]
    IN  HoTerm([HoNewI(w2, w.t) EXCEPT !.t = HoNone, !.tst = HoNone])

\* msc_ho_find_target_cell(): the neighbor configuration may name a remote
\* MSC or a local RAN peer (ident, peer); seen is a peer that advertised the
\* cell.  Only peers that are READY and of the same RAN type can be used.
HoFindTargetCell(e) ==
    LET usable(p) == IF p \in HoCells THEN p ELSE HoNone
        peer == IF e.ident = "local" THEN usable(e.peer) ELSE HoNone
    IN  IF e.ident = "remote" THEN "remote"
        ELSE IF peer # HoNone THEN peer ELSE usable(e.seen)

\* msc_ho_find_next_target_cell(): how many identifiers are used up, the
\* last of them being the first that leads somewhere (0: none does).
HoNextTarget(cil) ==
    LET hits == {n \in DOMAIN cil : HoFindTargetCell(cil[n]) # HoNone}
    IN  IF hits = {} THEN 0 ELSE CHOOSE n \in hits : \A m \in hits : n <= m

\* msc_ho_send_handover_request() and the MSC-T's first message: the request
\* may fail to be composed ("enc") or to be sent ("tx").  A local MSC-T that
\* cannot send it terminates and thereby reports a failure; the remote one
\* does not look at the result.
HoSendRequest(w, how) ==
    IF how = "enc" \/ (how = "tx" /\ w.t # "remote") THEN HoFailed(w)
    ELSE IF w.t # "remote" THEN [w EXCEPT !.tst = "WAIT_HO_REQUEST_ACK"]
    ELSE IF how = "tx" THEN w ELSE HoSend(w, "PREPARE_HO_REQUEST")

\* msc_ho_fsm_wait_request_ack_onenter()
HoWaitRequestAck(w, how) ==
    IF w.t # HoNone \/ w.i = HoNone THEN HoFailed(w)
    ELSE HoSendRequest([w EXCEPT !.t = w.h.new], how)

\* msc_ho_fsm_required_onenter()
HoRequired(w, how) ==
    LET n == HoNextTarget(w.h.cil)
    IN  IF n = 0 THEN HoFailed(w)
        ELSE HoWaitRequestAck(
               [w EXCEPT !.h.ho = "WAIT_REQUEST_ACK",
                         !.h.new = HoFindTargetCell(w.h.cil[n]),
                         !.h.cil = SubSeq(@, n + 1, Len(@))], how)

\* msc_ho_start()
HoStart(w, cil, how) ==
    IF w.h.ho # "NONE" \/ cil = <<>> \/ w.t # HoNone THEN w
    ELSE HoRequired([w EXCEPT !.h = [HoIdle EXCEPT !.ho = "REQUIRED", !.cil = cil],
                              !.asked = "yes", !.pre = w.rtp, !.tries = @ + 1], how)

\* msc_ho_start_inter_msc_call_forwarding(): dial the Handover Number.
HoForward(w, k) ==
    [w EXCEPT !.h.old = w.rtp, !.h.fwd = k,
              !.calls[k] = [st |-> "UP", rtps |-> TRUE, par |-> "ho"]]

\* msc_ho_rx_request_ack(): m.ie tells whether the mandatory elements are
\* there, m.rtp whether the new cell's RTP address is.  The Handover Command
\* to the old BSS needs an MSC-I role.
HoRxRequestAck(w, m) ==
    LET free == {k \in HoCallIds : w.calls[k].st = "FREE"}
        w1 == IF w.t = "remote" THEN HoForward(w, CHOOSE k \in free : TRUE) ELSE w
        w2 == [w1 EXCEPT !.h.ho = "WAIT_COMPLETE"]
    IN  IF w.t = HoNone THEN HoFailed(w)
        ELSE IF ~m.ie THEN HoRequired(w, "ok")
        ELSE IF w.t = "remote" /\ w.rtp = "none" THEN HoFailed(w)
        ELSE IF w.i = HoNone THEN HoFailed(w2)
        ELSE [w2 EXCEPT !.asked = "no", !.h.newRtp = m.rtp]

\* msc_ho_rtp_switch_to_new_cell()
HoRtpSwitch(w) ==
    IF w.rtp = "none" \/ ~w.h.newRtp \/ w.h.switched THEN w
    ELSE [HoDetachRtp(w, w.cc) EXCEPT !.h.switched = TRUE, !.h.old = w.rtp,
                                      !.rtp = w.h.new]

\* MSC_HO_EV_RX_DETECT: switch, then tell the old BSS HANDOVER SUCCEEDED.
HoRxDetect(w) ==
    LET w1 == IF w.h.new # "remote" THEN HoRtpSwitch(w) ELSE w
    IN  IF w1.i = HoNone THEN HoFailed(w1) ELSE w1

\* Messages of the MSC-T role as msc_a and the handover FSM take them:
\* msc_a_ran_dec_from_msc_t(), msc_a_up_ho() and the FSM's event masks.
HoUp(w, m) ==
    IF w.st # "COMMUNICATING" \/ w.h.ho = "NONE" \/ w.t = HoNone THEN w
    ELSE CASE m.msg = "REQUEST_ACK" /\ w.h.ho = "WAIT_REQUEST_ACK" -> HoRxRequestAck(w, m)
           [] m.msg = "FAILURE" -> HoFailed(w)
           [] m.msg = "DETECT" /\ w.h.ho = "WAIT_COMPLETE" -> HoRxDetect(w)
           [] m.msg = "COMPLETE" /\ w.h.ho = "WAIT_COMPLETE" -> HoSuccess(w)
           [] OTHER -> w

-----------------------------------------------------------------------------
(* A local MSC-T at MSC-A *)

\* msc_t_clear() on its own account: msc_t_fsm_cleanup() reports a Handover
\* Failure to MSC-A, then the role is removed.
HoTDies(w) == HoTGone(HoUp(w, [msg |-> "FAILURE"]))

\* msc_t_wait_ho_request_ack_decode_cb() and msc_t_wait_ho_complete_decode_cb():
\* a REQUEST_ACK that MSC-A does not take is an error of the MSC-T; a Clear
\* Request comes back from MSC-A as MSC_T_EV_MO_CLOSE.
HoTRx(w, m) ==
    IF m.msg = "CLEAR_REQUEST" THEN
        IF w.st = "COMMUNICATING" THEN HoTDies(w) ELSE w
    ELSE IF m.msg = "REQUEST_ACK" /\ w.tst = "WAIT_HO_REQUEST_ACK" THEN
        IF w.st # "COMMUNICATING" THEN HoTDies(w)
        ELSE LET w1 == HoUp(w, m)
             IN  IF w1.t = HoNone THEN w1 ELSE [w1 EXCEPT !.tst = "WAIT_HO_COMPLETE"]
    ELSE HoUp(w, m)

-----------------------------------------------------------------------------
(* Actions of MSC-A.  pre is a ghost: where the voice went before the        *)
(* handover under way; asked tells whether the serving BSS waits for an      *)
(* answer to its Handover Required ("expired": T-3 took the handover away).  *)

HoBounded(w) == Len(w.out) <= HoMaxQueue /\ w.tries <= HoMaxTries
HoABecome(w) == HoBounded(w) /\ hoA' = w /\ UNCHANGED <<hoB, hoNums>>

HoRxRequired(cil, how) ==
    /\ HoRunning /\ hoA.st = "COMMUNICATING" /\ hoA.i \in HoCells
    /\ HoABecome(HoStart(hoA, cil, how))

HoTMessages ==
    [msg : {"REQUEST_ACK"}, ie : BOOLEAN, rtp : BOOLEAN]
      \cup [msg : {"FAILURE", "DETECT", "COMPLETE", "CLEAR_REQUEST"}]

HoTRan(m) ==
    HoRunning /\ hoA.t \in HoCells /\ HoABecome(HoTRx(hoA, m))

\* MSC_EV_FROM_RAN_CONN_RELEASED at each role with a connection
HoTReleased ==
    HoRunning /\ hoA.t \in HoCells /\ HoABecome(HoTDies(hoA))

HoIReleased ==
    /\ HoRunning /\ hoA.i \in HoCells
    /\ HoABecome(HoCheckRelease([hoA EXCEPT !.i = HoNone]))

\* Clear Complete, release of the connection or timeout in CLEARING
HoICleared(c) ==
    /\ HoRunning /\ c \in hoA.clearing
    /\ HoABecome(HoCheckRelease([hoA EXCEPT !.clearing = @ \ {c}]))

\* The last user of msc_a goes, a Clear Request comes, ...; then the Clear
\* Complete or the release timeout.
HoARelease ==
    HoRunning /\ hoA.st = "COMMUNICATING" /\ HoABecome(HoReleasing(hoA))
HoAReleased ==
    HoRunning /\ hoA.st = "RELEASING" /\ HoABecome(HoAGone(hoA))

\* T-3: the handover FSM terminates, and nothing else is done.
HoExpire(w) ==
    [HoTerm(w) EXCEPT !.asked = IF @ = "yes" THEN "expired" ELSE @]
HoTimeout ==
    HoRunning /\ hoA.h.ho # "NONE" /\ HoABecome(HoExpire(hoA))

\* MNCC_RTP_CONNECT: the call moves its stream to the PBX; the call back of
\* the handover notes it.
HoCallRtpConnect(w, k) ==
    LET w1 == IF w.calls[k].rtps THEN [w EXCEPT !.rtp = "fwd"] ELSE w
    IN  IF w.calls[k].par = "ho" THEN [w1 EXCEPT !.h.switched = TRUE]
        ELSE IF w.calls[k].rtps THEN [w1 EXCEPT !.pre = "fwd"] ELSE w1

\* A release from the PBX, or an RTP_CONNECT that cannot be used: the call
\* ends and tells its parent.
HoCallEnd(w, k) ==
    LET w1 == HoCallCleanup(w, k)
    IN  IF w.calls[k].par = "a" THEN [w1 EXCEPT !.cc = HoNone]
        ELSE IF w1.h.ho = "WAIT_COMPLETE" THEN HoFailed(w1) ELSE w1

HoMnccRx(k) ==
    /\ HoRunning /\ hoA.calls[k].st # "FREE"
    /\ \/ hoA.calls[k].st = "UP" /\ HoABecome(HoCallRtpConnect(hoA, k))
       \/ HoABecome(HoCallEnd(hoA, k))

\* msc_i_remote_rx_gsup()
HoIRemoteRx(w, m) ==
    CASE m.msg = "SUBSEQUENT" /\ w.st = "COMMUNICATING" -> HoStart(w, m.cil, "ok")
      [] m.msg = "CLOSE" -> HoCheckRelease([HoSend(w, "CLOSE") EXCEPT !.i = HoNone])
      [] OTHER -> w

\* msc_t_remote_rx_gsup(): a CLOSE ends the MSC-T without a word to MSC-A.
HoTRemoteRx(w, m) ==
    CASE m.msg = "CLOSE" -> HoTGone(w)
      [] m.msg = "SUBSEQUENT" -> w
      [] OTHER -> HoUp(w, m)

\* msc_a_i_t_gsup_rx() at MSC-A: the first role whose E link has the sender's
\* name takes the message.
HoGsupRx(w, m) ==
    IF w.i = "remote" THEN HoIRemoteRx(w, m)
    ELSE IF w.t = "remote" THEN HoTRemoteRx(w, m)
    ELSE w

HoDeliverA ==
    /\ HoRunning /\ hoB.out # <<>>
    /\ Head(hoB.out).msg = "REQUEST_ACK" =>
         \E k \in HoCallIds : hoA.calls[k].st = "FREE"
    /\ LET w == HoGsupRx(hoA, Head(hoB.out))
       IN  w.tries <= HoMaxTries /\ hoA' = w
    /\ hoB' = [hoB EXCEPT !.out = Tail(@)]
    /\ UNCHANGED hoNums

-----------------------------------------------------------------------------
(* MSC-B *)

HoBSend(w, m) == [w EXCEPT !.out = Append(@, m)]
HoBBecome(w) ==
    Len(w.out) <= HoMaxQueue /\ hoB' = w /\ UNCHANGED <<hoA, hoNums>>

\* The msub terminates after its last MSC-T or MSC-I is gone.
HoBGone(w) == [HoBEmpty EXCEPT !.out = w.out]

\* msc_t_clear() on the MSC-T's own account: msc_t_fsm_cleanup() reports it.
HoBTDies(w) == HoBGone(HoBSend(w, [msg |-> "FAILURE"]))

HoMutBClose(w) == HoBSend(w, [msg |-> "CLOSE"])
\* msc_a_remote_fsm_cleanup() after a CLOSE from MSC-A: a CLOSE goes back
HoBClose(w) == HoBGone(HoBSend(w, [msg |-> "CLOSE"]))

\* msc_a_i_t_gsup_rx() and msc_a_remote_rx_gsup() at MSC-B; found tells
\* whether the request can be decoded and leads to a local RAN peer.
HoBGsupRx(w, m, found) ==
    CASE m = "CLOSE" -> IF w.a THEN HoBClose(w) ELSE w
      [] m = "PREPARE_HO_REQUEST" ->
           IF w.a THEN HoBSend(w, [msg |-> "FAILURE"])
           ELSE IF found THEN [w EXCEPT !.a = TRUE, !.t = "WAIT_LOCAL_RTP", !.leg = "setup"]
           ELSE HoBTDies(w)

HoDeliverB(found) ==
    /\ HoRunning /\ hoA.out # <<>>
    /\ LET w == IF hoB.crash THEN hoB ELSE HoBGsupRx(hoB, Head(hoA.out), found)
       IN  hoB' = w
    /\ hoA' = [hoA EXCEPT !.out = Tail(@)]
    /\ UNCHANGED hoNums

\* The MGW has both connections: msc_t_send_stored_ho_request(), whose
\* failure nobody looks at.
HoBRtp ==
    /\ ~hoB.crash /\ hoB.t = "WAIT_LOCAL_RTP"
    /\ HoBBecome([hoB EXCEPT !.t = "WAIT_HO_REQUEST_ACK", !.leg = "ready"])

\* MSC_EV_CALL_LEG_TERM: an MSC-T dies of it, an MSC-I goes on.
HoBLegTerm(w) ==
    IF w.t # HoNone THEN HoBTDies(w) ELSE [w EXCEPT !.leg = "none", !.call = "none"]
HoBMgwFails ==
    ~hoB.crash /\ hoB.leg # "none" /\ HoBBecome(HoBLegTerm(hoB))

\* net_handover_number_next() and the search of msc_t_assign_handover_number():
\* the first free number from next on, in a circle; 0 if there is none.
HoNumberNext(next) == IF next \in 1..HoRange THEN next ELSE 1
HoAssignNumber(next, taken) ==
    LET start == HoNumberNext(next)
        nth(j) == ((start - 1 + j) % HoRange) + 1
        free == {j \in 0..(HoRange - 1) : nth(j) \notin taken}
    IN  IF free = {} THEN 0 ELSE nth(CHOOSE j \in free : \A l \in free : j <= l)
HoTaken == (hoNums.taken \cup {hoB.num}) \ {0}

\* msc_t_patch_and_send_ho_request_ack()
HoBRequestAck(ie) ==
    /\ ~hoB.crash /\ hoB.t = "WAIT_HO_REQUEST_ACK" /\ Len(hoB.out) < HoMaxQueue
    /\ LET nr == HoAssignNumber(hoNums.next, HoTaken)
       IN  /\ hoB' = IF nr = 0 THEN HoBTDies(hoB)
                     ELSE HoBSend([hoB EXCEPT !.num = nr, !.t = "WAIT_HO_COMPLETE"],
                                  [msg |-> "REQUEST_ACK", ie |-> ie, rtp |-> FALSE])
           /\ hoNums' = [hoNums EXCEPT !.next =
                             1 + IF nr = 0 THEN HoNumberNext(@) ELSE nr]
    /\ UNCHANGED hoA

HoBFailure ==
    /\ ~hoB.crash /\ hoB.t \in {"WAIT_HO_REQUEST_ACK", "WAIT_HO_COMPLETE"}
    /\ HoBBecome(HoBSend(hoB, [msg |-> "FAILURE"]))

HoBDetect ==
    /\ ~hoB.crash /\ hoB.t = "WAIT_HO_COMPLETE"
    /\ HoBBecome(HoBSend(hoB, [msg |-> "DETECT"]))

\* Handover Complete: the MSC-I takes over.  The forwarding call is passed to
\* mncc_call_reparent() without a look whether there is one.
HoBComplete ==
    /\ ~hoB.crash /\ hoB.t = "WAIT_HO_COMPLETE"
    /\ LET w == HoBSend(hoB, [msg |-> "COMPLETE"])
       IN  HoBBecome(IF w.call = "none" THEN [w EXCEPT !.crash = TRUE]
                     ELSE [w EXCEPT !.i = TRUE, !.t = HoNone, !.num = 0])

\* MSC_EV_FROM_RAN_CONN_RELEASED: an MSC-I is removed from the msub before
\* msc_a_remote_fsm_cleanup() looks for roles to close.
HoBReleased ==
    /\ ~hoB.crash
    /\ \/ /\ hoB.t \in {"WAIT_HO_REQUEST_ACK", "WAIT_HO_COMPLETE"}
          /\ HoBBecome(HoBTDies(hoB))
       \/ hoB.i /\ HoBBecome(HoBGone(hoB))

HoBRequired(cil) ==
    /\ ~hoB.crash /\ hoB.i /\ hoA.tries < HoMaxTries
    /\ HoBBecome(HoBSend(hoB, [msg |-> "SUBSEQUENT", cil |-> cil]))

\* msc_t_check_call_to_handover_number(): the PBX calls the number MSC-A dialled.
HoBMnccSetup ==
    /\ ~hoB.crash /\ hoB.num # 0 /\ hoB.call = "none" /\ hoB.leg # "none"
    /\ \E k \in HoCallIds : hoA.calls[k].st = "UP"
    /\ HoBBecome([hoB EXCEPT !.call = "up"])

\* The PBX ends the call, and the call's stream takes the call leg with it.
HoBMnccEnd ==
    ~hoB.crash /\ hoB.call = "up" /\ HoBBecome(HoBLegTerm(hoB))

\* Other subscribers' MSC-T at MSC-B
HoOtherAssign ==
    LET nr == HoAssignNumber(hoNums.next, HoTaken)
    IN  /\ ~hoB.crash /\ nr # 0
        /\ hoNums' = [next |-> nr + 1, taken |-> hoNums.taken \cup {nr}]
        /\ UNCHANGED <<hoA, hoB>>
HoOtherEnds(nr) ==
    /\ ~hoB.crash /\ nr \in hoNums.taken
    /\ hoNums' = [hoNums EXCEPT !.taken = @ \ {nr}]
    /\ UNCHANGED <<hoA, hoB>>

HoInit ==
    /\ hoA = HoAInit(HoFirstCell)
    /\ hoB = HoBEmpty
    /\ hoNums = [next |-> 0, taken |-> {}]

HoNext ==
    \/ \E cil \in HoLists, how \in {"ok", "enc", "tx"} : HoRxRequired(cil, how)
    \/ \E m \in HoTMessages : HoTRan(m)
    \/ HoTReleased \/ HoIReleased \/ HoARelease \/ HoAReleased \/ HoTimeout
    \/ \E c \in HoCells : HoICleared(c)
    \/ \E k \in HoCallIds : HoMnccRx(k)
    \/ HoDeliverA \/ \E found \in BOOLEAN : HoDeliverB(found)
    \/ HoBRtp \/ HoBMgwFails \/ HoBFailure \/ HoBDetect \/ HoBComplete \/ HoBReleased
    \/ \E ie \in BOOLEAN : HoBRequestAck(ie)
    \/ \E cil \in HoLists : HoBRequired(cil)
    \/ HoBMnccSetup \/ HoBMnccEnd \/ HoOtherAssign
    \/ \E nr \in 1..HoRange : HoOtherEnds(nr)

HoSpec == HoInit /\ [][HoNext]_hoVars

\* T-3 expires; what is sent on the E link arrives.
HoFair ==
    /\ WF_hoVars(HoTimeout)
    /\ WF_hoVars(HoDeliverA)
    /\ WF_hoVars(\E found \in BOOLEAN : HoDeliverB(found))

-----------------------------------------------------------------------------
(* Properties *)

\* Types of the model's state.
HoTypeOK ==
    /\ hoA.st \in {"COMMUNICATING", "RELEASING", "GONE"}
    /\ hoA.i \in HoCells \cup {"remote", HoNone}
    /\ hoA.t \in HoCells \cup {"remote", HoNone}
    /\ hoA.tst \in {"WAIT_HO_REQUEST_ACK", "WAIT_HO_COMPLETE", HoNone}
    /\ hoA.clearing \subseteq HoCells
    /\ hoA.rtp \in HoCells \cup {"fwd", "none"}
    /\ hoA.h.ho \in {"NONE", "WAIT_REQUEST_ACK", "WAIT_COMPLETE"}
    /\ hoA.asked \in {"no", "yes", "expired"}
    /\ {hoA.cc, hoA.h.fwd} \subseteq HoCallIds \cup {HoNone}
    /\ \A k \in HoCallIds : hoA.calls[k].st = "FREE" => hoA.calls[k] = HoFree
    /\ hoB.t \in {"WAIT_LOCAL_RTP", "WAIT_HO_REQUEST_ACK", "WAIT_HO_COMPLETE", HoNone}
    /\ hoB.num \in 0..HoRange
    /\ hoNums.next \in 0..(HoRange + 1) /\ hoNums.taken \subseteq 1..HoRange

\* A target role never outlives what it was made for.  At MSC-A, whichever way
\* msc_ho ends, msc_ho_fsm_cleanup() or the success path has taken the MSC-T
\* away.  When nothing is under way on the E link, MSC-B holds a radio connection
\* for this subscriber only if MSC-A has a remote role that leads to it and
\* whose CLOSE ends it.  (Not always the matching role: an answer to an abandoned
\* attempt counts for the next.)  And its Handover Number is nobody else's.
HoNoOrphanTarget ==
    /\ HoRunning /\ hoA.t # HoNone => hoA.h.ho # "NONE"
    /\ HoRunning /\ ~hoB.crash /\ hoA.out = <<>> /\ hoB.out = <<>> /\ hoB.a =>
         "remote" \in {hoA.i, hoA.t}
    /\ hoB.num # 0 => hoB.num \notin hoNums.taken

\* A serving BSS whose Handover Required was taken up is answered, with a
\* Handover Command or a Required Reject, unless T-3 ends the handover.
HoAnswered ==
    HoRunning /\ hoA.asked = "yes" /\ hoA.st = "COMMUNICATING" => hoA.h.ho # "NONE"

\* A handover that fails, other than by T-3, leaves the voice of a call that
\* goes on where it went before: msc_ho_rtp_rollback_to_old_cell() undoes
\* msc_ho_rtp_switch_to_new_cell() and the forwarding call's RTP_CONNECT.
HoRolledBack ==
    [][ /\ \A k \in HoCallIds : hoA.calls[k].rtps => k \in {hoA.cc, hoA.h.fwd}
        /\ hoA.h.ho # "NONE" /\ hoA'.h.ho = "NONE" /\ ~HoTimeout
        /\ hoA'.st = "COMMUNICATING" /\ hoA'.i = hoA.i /\ hoA.i # hoA.h.new /\ ~hoA'.abort
        => hoA'.rtp = hoA.pre ]_hoVars

\* Every handover ends at MSC-A by T-3 at the latest, and its CLOSE ends the
\* MSC-T at MSC-B, which has no timer of its own and holds radio resources,
\* unless MSC-A has come to serve the subscriber through MSC-B.
HoTargetEnds ==
    hoB.t # HoNone ~>
        (hoB.t = HoNone \/ hoB.crash \/ ~HoRunning \/ hoA.i = "remote")

\* Composing the Handover Required Reject never fails the assertion that
\* there is an MSC-I role (OSMO_ASSERT(msc_i) in msc_ho_down_required_reject()).
HoRejectable == ~hoA.abort

=============================================================================
