-------------------------------- MODULE Vgcs --------------------------------
(***************************************************************************)
(* One voice group or broadcast call (msc_vgcs.c): the call control        *)
(* machine GCC/BCC, one machine per BSS, one per cell and one for the MGW  *)
(* endpoint, which hold pointers to each other and dispatch events to each *)
(* other synchronously.                                                    *)
(*                                                                         *)
(* A handler is an operator on w, the record of the variables below, and   *)
(* performs the dispatches nested in it; an action is one message, MGW     *)
(* answer, VTY command or timer.  A pointer to a connection can be "gone": *)
(* ran_peer_disconnect() frees the connection and the machine that owns it *)
(* is not told.  Using it, or any other freed or NULL object, sets vgUb,   *)
(* after which nothing is modelled.  Memory allocation succeeds.  The next *)
(* call starts when the machines of the last one are gone: those of two    *)
(* calls share nothing.                                                    *)
(***************************************************************************)
EXTENDS Integers, FiniteSets, FiniteSetsExt

CONSTANTS VgBssN,      \* the BSSs of the group are 1..VgBssN, in GCR order
          VgCells,     \* cells
          VgGroups,    \* what vgOf may be
          VgNone,      \* no BSS, no cell
          VgMaxCalls,  \* bound on the calls
          VgMaxFaults  \* bound on failures of the MGW, the RAN and SCCP

VgBss == 1..VgBssN

ASSUME VgAssumption ==
  /\ VgBssN \in Nat \ {0} /\ VgMaxCalls \in Nat /\ VgMaxFaults \in Nat
  /\ IsFiniteSet(VgCells)
  /\ VgNone \notin VgBss \cup VgCells
  /\ VgGroups \subseteq [VgCells -> VgBss \cup {VgNone}]

VARIABLES vgGcc,     \* the transaction
          vgB,       \* vgB[b]: the vgcs_bss of BSS b
          vgC,       \* vgC[c]: the vgcs_bss_cell of cell c
          vgMgw,     \* whether the MGW endpoint exists
          vgClients, \* MGCP clients taken from the pool and not put back
          vgCaller,  \* the caller's connection (msc_a)
          vgCalls,   \* calls started
          vgFaults,  \* failures so far
          vgUb,      \* a freed or NULL object was used: anything may follow
          vgOf       \* the group: the BSS of each cell, fixed at the start
vgVars == <<vgGcc, vgB, vgC, vgMgw, vgClients, vgCaller, vgCalls, vgFaults,
            vgUb, vgOf>>

VgCellsOf(b) == {c \in VgCells : vgOf[c] = b}

VgNoGcc == [st |-> "none", bcc |-> FALSE, busy |-> FALSE, orig |-> FALSE,
            bss |-> VgNone, cell |-> VgNone, timer |-> FALSE, caller |-> FALSE,
            sub |-> FALSE]
VgNoBss == [st |-> "none", trans |-> FALSE, conn |-> "none", told |-> "none"]
VgNoCell == [st |-> "none", bss |-> FALSE, conn |-> "none", rtps |-> "none",
             mgw |-> FALSE, assigned |-> FALSE, mode |-> "none"]
VgNoCaller == [conn |-> FALSE, cm |-> FALSE, cell |-> VgNone, pend |-> FALSE]
VgConns == {"none", "new", "up", "lost", "gone"}

VgW == [gcc |-> vgGcc, bss |-> vgB, cell |-> vgC, mgw |-> vgMgw,
        clients |-> vgClients, caller |-> vgCaller, ub |-> vgUb]

VgListed(w) == {b \in VgBss : w.bss[b].trans}
VgAttached(w, b) == {c \in VgCellsOf(b) : w.cell[c].bss}

\* ran_encode_and_send() on the connection of a BSS or a cell.
VgSendBss(w, b) == [w EXCEPT !.ub = @ \/ w.bss[b].conn = "gone"]
VgSendCell(w, c) == [w EXCEPT !.ub = @ \/ w.cell[c].conn = "gone"]

\* update_uplink_state(): UPLINK SEIZED or UPLINK RELEASE COMMAND.
VgUpdateUplinkState(w, b, busy) ==
  [VgSendBss(w, b) EXCEPT !.bss[b].told = IF busy THEN "seized" ELSE "free"]

-----------------------------------------------------------------------------
(* The end of a cell, a BSS and the call.                                  *)

\* VGCS_MGW_EP_EV_CLEAR: the endpoint goes with its last cell.  The client is
\* not put back into the pool.
VgMgwClear(w) == [w EXCEPT !.mgw = \E c \in VgCells : w.cell[c].mgw]

VgCellDetach(w, c) ==
  [w EXCEPT !.gcc.cell = IF @ = c /\ w.cell[c].bss /\ w.bss[vgOf[c]].trans
                           THEN VgNone ELSE @,
            !.cell[c].bss = FALSE]

\* cell_destroy()
VgCellDestroy(w, c) ==
  LET w1 == VgCellDetach(VgSendCell(w, c), c)
      w2 == [w1 EXCEPT !.cell[c] = VgNoCell]
  IN IF w.cell[c].mgw THEN VgMgwClear(w2) ELSE w2

\* VGCS_CELL_EV_RTP_STREAM_GONE, as rtp_stream_release() sends it.  A cell in
\* state NULL does not take the event and keeps its pointer.
VgStreamReleased(w, c) ==
  IF w.cell[c].st = "NULL" THEN [w EXCEPT !.cell[c].rtps = "gone"]
  ELSE LET w1 == [w EXCEPT !.cell[c].rtps = "none", !.cell[c].mode = "none"]
       IN IF w.cell[c].conn = "none" THEN VgCellDestroy(w1, c) ELSE w1

\* cell_clear().  State NULL has no transition to RELEASE.
VgCellClear(w, c) ==
  LET w1 == VgCellDetach(w, c)
      w2 == [w1 EXCEPT !.cell[c].st = IF @ = "NULL" THEN @ ELSE "RELEASE"]
      w3 == VgSendCell(w2, c)
  IN CASE w.cell[c].conn = "none" /\ w.cell[c].rtps = "none" ->
            VgCellDestroy(w2, c)
       [] w.cell[c].rtps = "up" -> VgStreamReleased(w3, c)
       [] OTHER -> w3

\* bss_clear(), as far as it detaches the BSS from the call.  The uplink stays
\* busy when the BSS was the talker's.
VgBssDetach(w, b) ==
  [w EXCEPT !.gcc.bss = IF @ = b THEN VgNone ELSE @,
            !.gcc.cell = IF w.gcc.bss = b THEN VgNone ELSE @,
            !.bss[b].trans = FALSE, !.bss[b].st = "RELEASE"]

\* bss_clear() without the notification of the call.
VgBssClearQuiet(w, b) ==
  LET w1 == VgSendBss(VgBssDetach(w, b), b)
  IN FoldSet(LAMBDA c, v : VgCellClear(v, c), w1, VgAttached(w, b))

\* trans_free() with gsm44068_bcc_gcc_trans_free().
VgTransFree(w) ==
  LET w1 == FoldSet(LAMBDA b, v : VgBssClearQuiet(v, b), w, VgListed(w))
  IN [w1 EXCEPT !.gcc = VgNoGcc]

\* gcc_terminate_and_destroy(): TERMINATION goes to the caller's connection or
\* to the talker's BSS.
VgTerminate(w) ==
  VgTransFree(IF ~w.gcc.caller /\ w.gcc.bss # VgNone
                THEN VgSendBss(w, w.gcc.bss) ELSE w)

\* bss_clear() with VGCS_GCC_EV_BSS_RELEASED, which every state of the call
\* takes.
VgBssClear(w, b) ==
  LET w1 == VgBssClearQuiet(w, b)
  IN IF VgListed(w1) = {} THEN VgTerminate(w1) ELSE w1

\* bss_destroy()
VgBssDestroy(w, b) == [w EXCEPT !.bss[b] = VgNoBss]

-----------------------------------------------------------------------------
(* The call control machine.                                               *)

\* start_inactivity_timer() if the uplink is free
VgStartIfFree(w) == [w EXCEPT !.gcc.timer = @ \/ ~w.gcc.busy]

\* set_uplink_cell(): only a cell of this BSS is the talker's cell.  VgNone is
\* an identifier of a kind that the code does not read.
VgSetUplinkCell(w, b, c) ==
  [w EXCEPT !.gcc.cell = IF c = VgNone THEN @
                         ELSE IF c \in VgAttached(w, b) THEN c ELSE VgNone]

\* Mutant: the cell of the previous talker is not set back to listening.
VgMutSetMgwConference(w) ==
  [w EXCEPT !.cell = [c \in VgCells |->
     IF w.cell[c].rtps = "up" /\ c = w.gcc.cell
       THEN [w.cell[c] EXCEPT !.mode = "talk"] ELSE w.cell[c]]]

\* set_mgw_conference(): every cell listens, the talker's cell also sends.
VgSetMgwConference(w) ==
  [w EXCEPT !.cell = [c \in VgCells |->
     IF w.cell[c].rtps = "up" /\ w.cell[c].bss /\ w.bss[vgOf[c]].trans
       THEN [w.cell[c] EXCEPT !.mode = IF c = w.gcc.cell THEN "talk"
                                                         ELSE "listen"]
       ELSE w.cell[c]]]

\* gcc_assign(): the caller's BSS is looked up by the peer of each connection;
\* ok: the caller has a connection and Assignment Command can be sent.
VgAssign(w, ok) ==
  LET b    == IF w.caller.cell = VgNone THEN VgNone ELSE vgOf[w.caller.cell]
      Seen == {x \in VgListed(w) : b \notin VgListed(w) \/ x <= b}
      w1   == [w EXCEPT !.ub = @ \/ \E x \in Seen : w.bss[x].conn = "gone"]
  IN IF ok /\ b \in VgListed(w)
       THEN [w1 EXCEPT !.gcc.bss = b]
       ELSE VgTerminate(w1)

\* VGCS_GCC_EV_BSS_ESTABLISHED, sent by each BSS
VgEstablished(w, ok) ==
  CASE w.gcc.st = "N0" -> VgStartIfFree([w EXCEPT !.gcc.st = "N2"])
    [] w.gcc.st = "N1" -> VgAssign(w, ok)
    [] OTHER -> w

\* _assign_complete(): set_uplink_cell() dereferences uplink_bss.
VgAssignComplete(w) ==
  LET w1 == VgStartIfFree([w EXCEPT !.gcc.st = "N2", !.gcc.caller = FALSE])
  IN IF w.gcc.bss = VgNone THEN [w1 EXCEPT !.ub = TRUE]
     ELSE VgSetMgwConference(VgSetUplinkCell(VgSendBss(w1, w.gcc.bss),
                                             w.gcc.bss, w.caller.cell))

\* VGCS_GCC_EV_USER_TERM: in N2 only the originator may end the call.
VgUserTerm(w) ==
  IF w.gcc.st = "N1" \/ (w.gcc.st = "N2" /\ w.gcc.orig) THEN VgTerminate(w)
  ELSE IF w.gcc.st = "N2" /\ ~w.gcc.caller /\ w.gcc.bss # VgNone
         THEN VgSendBss(w, w.gcc.bss) ELSE w

\* gcc_establish_bss(): known, the BSSs whose peer is known; ready, those that
\* take the SETUP; mgw, whether the pool has a client.  A BSS without cells
\* ends the loop; its connection keeps a pointer to the freed BSS.
VgEstablish(w, known, ready, mgw) ==
  LET Empty == {b \in known : VgCellsOf(b) = {}}
      B     == {b \in known : \A e \in Empty : b < e}
      w1    == [w EXCEPT !.bss = [b \in VgBss |->
                  IF b \in B THEN [st |-> "SETUP", trans |-> TRUE,
                                   conn |-> IF b \in ready THEN "up" ELSE "new",
                                   told |-> "none"]
                  ELSE IF b \in Empty /\ \A e \in Empty : b <= e
                    THEN [VgNoBss EXCEPT !.st = "freed"]
                  ELSE VgNoBss],
                !.cell = [c \in VgCells |->
                  IF vgOf[c] \in B THEN [VgNoCell EXCEPT !.st = "NULL",
                       !.bss = TRUE, !.conn = "new", !.mgw = TRUE]
                  ELSE w.cell[c]],
                !.mgw = B # {}, !.clients = @ + 1]
  IN IF ~mgw THEN VgTerminate(w) ELSE IF B = {} THEN VgTerminate(w1) ELSE w1

-----------------------------------------------------------------------------
(* The BSS and cell machines.                                              *)

\* Mutant: the BSS is active with the first cell that answers.
VgMutActiveOrFail(w, b, ok) ==
  IF w.bss[b].st # "ASSIGNMENT" THEN w
  ELSE IF VgAttached(w, b) = {} THEN VgBssClear(w, b)
  ELSE IF \E c \in VgAttached(w, b) : w.cell[c].assigned
    THEN VgEstablished([w EXCEPT !.bss[b].st = "ACTIVE"], ok)
  ELSE w

\* VGCS_BSS_EV_ACTIVE_OR_FAIL
VgActiveOrFail(w, b, ok) ==
  IF w.bss[b].st # "ASSIGNMENT" THEN w
  ELSE IF VgAttached(w, b) = {} THEN VgBssClear(w, b)
  ELSE IF \A c \in VgAttached(w, b) : w.cell[c].assigned
    THEN VgEstablished([w EXCEPT !.bss[b].st = "ACTIVE"], ok)
  ELSE w

\* channel_fail in vgcs_cell_fsm_assignment()
VgChannelFail(w, c, ok) ==
  LET w1 == VgCellClear(w, c)
  IN IF w.cell[c].bss THEN VgActiveOrFail(w1, vgOf[c], ok) ELSE w1

\* VGCS_CELL_EV_ASSIGN: the RTP stream is set up, or the cell is cleared.
VgCellAssign(w, c, ok) ==
  LET w1 == [w EXCEPT !.cell[c].rtps = "up", !.cell[c].mode = "recv"]
  IN IF ok /\ w.cell[c].mgw THEN [w1 EXCEPT !.cell[c].st = "ASSIGNMENT"]
     ELSE VgCellClear(w1, c)

\* VGCS_BSS_EV_SETUP_ACK: the MGW has no connection for the cells in F.
VgSetupAck(w, b, F) ==
  LET w1 == [VgUpdateUplinkState(w, b, w.gcc.busy)
               EXCEPT !.bss[b].st = "ASSIGNMENT"]
      w2 == FoldSet(LAMBDA c, v : VgCellAssign(v, c, c \notin F), w1,
                    VgAttached(w, b))
  IN IF VgAttached(w2, b) = {} THEN VgBssClear(w2, b) ELSE w2

\* VGCS_BSS_EV_UL_REQUEST.  The loop over the other BSSs updates the one that
\* asked.
VgUlRequest(w, b) ==
  LET w1 == [VgSendBss(w, b) EXCEPT !.gcc.bss = b, !.gcc.busy = TRUE,
                                    !.gcc.orig = FALSE, !.gcc.timer = FALSE]
  IN IF w.gcc.busy THEN VgSendBss(w, b)
     ELSE IF VgListed(w) = {b} THEN w1 ELSE VgUpdateUplinkState(w1, b, TRUE)

VgGranted(w, b) == w.gcc.busy /\ w.gcc.bss = b

\* VGCS_BSS_EV_UL_REQUEST_CNF: own, the talker's identity is the caller's; c,
\* the cell that the message names.
VgUlRequestCnf(w, b, own, c) ==
  LET w1 == [w EXCEPT !.gcc.orig = @ \/ (own /\ w.gcc.sub)]
  IN IF VgGranted(w, b)
       THEN VgSetMgwConference(VgSetUplinkCell(
              IF w.gcc.caller THEN w1 ELSE VgSendBss(w1, b), b, c))
       ELSE w

\* VGCS_BSS_EV_UL_RELEASE: again the BSS itself is updated in place of the
\* others.  The end of the only talk ends a broadcast call.
VgUlRelease(w, b) ==
  LET w1 == [w EXCEPT !.gcc.bss = VgNone, !.gcc.cell = VgNone, !.gcc.busy = FALSE]
      w2 == IF VgListed(w) = {b} THEN w1 ELSE VgUpdateUplinkState(w1, b, FALSE)
  IN IF w.gcc.bcc THEN VgTerminate(w)
     ELSE IF VgGranted(w, b) THEN VgStartIfFree(VgSetMgwConference(w2)) ELSE w

\* VGCS_BSS_EV_CLOSE, on CLEAR REQUEST: the connection is forgotten, not closed.
VgBssClose(w, b) ==
  IF w.bss[b].st \in {"SETUP", "ASSIGNMENT", "ACTIVE"}
    THEN VgBssClear([w EXCEPT !.bss[b].conn = "none"], b) ELSE w

\* VGCS_CELL_EV_CLOSE: the connection's pointer to the cell stays (its pointer
\* to a BSS is cleared), and the BSS is not told that it lost a cell.
VgCellClose(w, c) ==
  IF w.cell[c].st \in {"ASSIGNMENT", "ACTIVE"}
    THEN LET w1 == VgCellClear([w EXCEPT !.cell[c].conn = "none"], c)
         IN [w1 EXCEPT !.cell[c].st = "freed"]
    ELSE w

\* VGCS_CELL_EV_RTP_STREAM_GONE from the MGW
VgStreamFails(w, c, ok) ==
  LET w1 == [w EXCEPT !.cell[c].rtps = "none", !.cell[c].mode = "none"]
  IN IF w.cell[c].st = "ASSIGNMENT" THEN VgChannelFail(w1, c, ok)
     ELSE VgCellClear(w1, c)

\* VGCS_MGW_EP_EV_FREE: writes to the stream of each cell.
VgMgwFree(w) ==
  [w EXCEPT !.ub = @ \/ \E c \in VgCells : w.cell[c].mgw /\ w.cell[c].rtps = "gone",
            !.cell = [c \in VgCells |-> [w.cell[c] EXCEPT !.mgw = FALSE]],
            !.mgw = FALSE, !.clients = @ - 1]

\* VGCS_BSS_EV_RELEASED and VGCS_CELL_EV_RELEASED, taken in RELEASE only
VgBssReleased(w, b) == IF w.bss[b].st = "RELEASE" THEN VgBssDestroy(w, b) ELSE w
VgCellReleased(w, c) ==
  IF w.cell[c].st = "RELEASE" THEN VgCellDestroy(w, c) ELSE w

\* ran_peer_discard_all_conns() of the peer of BSS b, on RESET or when it is
\* unavailable: a connection in use stays, although the peer has dropped it.
VgPeerLost(w, b) ==
  LET C  == {c \in VgCellsOf(b) : w.cell[c].conn \in {"new", "up", "lost"}}
      w1 == [w EXCEPT !.ub = @ \/ w.bss[b].st = "freed"
                             \/ \E c \in VgCellsOf(b) : w.cell[c].st = "freed",
               !.bss[b].conn = IF @ = "up" THEN "lost" ELSE @,
               !.cell = [c \in VgCells |->
                  IF c \in C /\ w.cell[c].conn = "up"
                    THEN [w.cell[c] EXCEPT !.conn = "lost"] ELSE w.cell[c]]]
      w2 == FoldSet(LAMBDA c, v : VgCellReleased(v, c), w1, C)
  IN IF w.bss[b].conn \in {"new", "up", "lost"} THEN VgBssReleased(w2, b) ELSE w2

-----------------------------------------------------------------------------
(* Actions.                                                                *)

VgBecome(new) == \E w \in {new} :
  /\ vgGcc' = w.gcc /\ vgB' = w.bss /\ vgC' = w.cell /\ vgMgw' = w.mgw
  /\ vgClients' = w.clients /\ vgCaller' = w.caller /\ vgUb' = w.ub
  /\ UNCHANGED vgOf

VgStep(w) == ~vgUb /\ VgBecome(w) /\ UNCHANGED <<vgCalls, vgFaults>>
VgFault(w) ==
  /\ ~vgUb /\ vgFaults < VgMaxFaults /\ vgFaults' = vgFaults + 1
  /\ VgBecome(w) /\ UNCHANGED vgCalls

\* A mobile opens a connection with a CM Service Request for a group call.
VgCallerConnects(c) ==
  /\ ~vgCaller.conn /\ vgCalls < VgMaxCalls
  /\ VgStep([VgW EXCEPT !.caller = [VgNoCaller EXCEPT !.conn = TRUE, !.cm = TRUE,
                                                      !.cell = c]])

\* The connection is released: trans_conn_closed() frees the call that still
\* hangs on it.
VgCallerLost ==
  /\ vgCaller.conn
  /\ LET w == IF vgGcc.caller THEN VgTransFree(VgW) ELSE VgW
     IN VgFault([w EXCEPT !.caller = VgNoCaller])

VgIdle ==
  /\ vgGcc.st = "none" /\ ~vgMgw /\ vgCalls < VgMaxCalls
  /\ \A b \in VgBss : vgB[b].st \in {"none", "freed"}
  /\ \A c \in VgCells : vgC[c].st \in {"none", "freed"}

\* trans_create_bcc_gcc() refuses: the call exists, the group does not, or
\* msc_a does not accept the transaction.
VgSetupRefused ==
  /\ vgCaller.conn /\ vgCaller.cm
  /\ VgStep([VgW EXCEPT !.caller.cm = FALSE])

\* SETUP from the caller: trans_create_bcc_gcc() and VGCS_GCC_EV_USER_SETUP.
VgSetup(bcc, known, ready, mgw) ==
  /\ ~vgUb /\ vgCaller.conn /\ VgIdle
  /\ LET w == [VgW EXCEPT !.caller.cm = FALSE,
                 !.gcc = [VgNoGcc EXCEPT !.st = "N1", !.bcc = bcc, !.busy = TRUE,
                            !.orig = TRUE, !.caller = TRUE, !.sub = TRUE]]
     IN VgBecome(VgEstablish(w, known, ready, mgw))
  /\ vgCalls' = vgCalls + 1 /\ UNCHANGED vgFaults

\* vgcs_vty_initiate(): the uplink is free.
VgVtyInitiate(bcc, known, ready, mgw) ==
  /\ ~vgUb /\ VgIdle
  /\ LET w == [VgW EXCEPT !.gcc = [VgNoGcc EXCEPT !.st = "N0", !.bcc = bcc,
                                                  !.orig = TRUE]]
     IN VgBecome(VgEstablish(w, known, ready, mgw))
  /\ vgCalls' = vgCalls + 1 /\ UNCHANGED vgFaults

\* vgcs_vty_terminate()
VgVtyTerminate == vgGcc.st # "none" /\ VgStep(VgTerminate(VgW))

\* TERMINATION REQUEST from the caller's connection or the talker's BSS.
VgRcvTermination(b) ==
  /\ vgGcc.st # "none"
  /\ IF b = VgNone THEN vgGcc.caller
     ELSE vgB[b].st = "ACTIVE" /\ vgB[b].conn = "up" /\ VgGranted(VgW, b)
  /\ VgStep(VgUserTerm(VgW))

\* gsm44068_rcv_rr(): after the loop the timer is started on the transaction
\* of a BSS pointer that points at the list's head.
VgRcvUplinkRelease ==
  /\ vgGcc.caller
  /\ LET w1 == [VgW EXCEPT !.gcc.bss = VgNone, !.gcc.cell = VgNone,
                           !.gcc.busy = FALSE]
         w2 == FoldSet(LAMBDA b, v : VgUpdateUplinkState(v, b, FALSE), w1,
                       VgListed(w1))
     IN VgStep([w2 EXCEPT !.ub = TRUE])

\* inactivity_timer_cb(): only N2 takes the event.
VgInactivity ==
  /\ vgGcc.timer
  /\ LET w == [VgW EXCEPT !.gcc.timer = FALSE]
     IN VgStep(IF vgGcc.st = "N2" THEN VgTerminate(w) ELSE w)

\* A call of the same mobile sends an Assignment Command (msc_a.c).
VgCcAssigns ==
  /\ vgCaller.conn /\ ~vgCaller.pend
  /\ VgStep([VgW EXCEPT !.caller.pend = TRUE])

\* msc_a_up_call_assignment_complete() takes the message only while the timer
\* of an assignment runs, which gcc_assign() does not start.
VgRanComplete ==
  /\ vgCaller.conn /\ vgCaller.pend
  /\ LET w == [VgW EXCEPT !.caller.pend = FALSE]
     IN VgStep(IF vgGcc.caller /\ vgGcc.st = "N1" THEN VgAssignComplete(w) ELSE w)

\* msc_a_up_call_assignment_failure(): leg, the call leg of a CC call exists
\* and its call is given up; else the group call is.
VgRanFailure(leg) ==
  /\ vgCaller.conn /\ vgCaller.pend
  /\ LET w == [VgW EXCEPT !.caller.pend = FALSE]
     IN VgFault(IF ~leg /\ vgGcc.caller THEN VgTerminate(w) ELSE w)

VgFrom(b, S) == vgB[b].st \in S /\ vgB[b].conn = "up"
VgRxSetupAck(b, F) ==
  VgFrom(b, {"SETUP"}) /\ vgB[b].trans /\ VgStep(VgSetupAck(VgW, b, F))
VgRxSetupRefuse(b) ==
  VgFrom(b, {"SETUP"}) /\ vgB[b].trans /\ VgStep(VgBssClear(VgW, b))
VgRxUlRequest(b) ==
  VgFrom(b, {"ACTIVE"}) /\ vgB[b].trans /\ VgStep(VgUlRequest(VgW, b))
VgRxUlRequestCnf(b, own, c) ==
  VgFrom(b, {"ACTIVE"}) /\ vgB[b].trans /\ VgStep(VgUlRequestCnf(VgW, b, own, c))
VgRxUlRelease(b) ==
  VgFrom(b, {"ACTIVE"}) /\ vgB[b].trans /\ VgStep(VgUlRelease(VgW, b))
VgRxClearRequest(b) ==
  VgFrom(b, {"SETUP", "ASSIGNMENT", "ACTIVE"}) /\ VgFault(VgBssClose(VgW, b))
VgRxClearComplete(b) ==
  VgFrom(b, {"RELEASE"}) /\ VgStep(VgBssReleased(VgW, b))

VgFromCell(c, S) == vgC[c].st \in S /\ vgC[c].conn = "up"
VgRxAssignResult(c, good, ok) ==
  /\ VgFromCell(c, {"ASSIGNMENT"})
  /\ LET w == [VgW EXCEPT !.cell[c].assigned = TRUE]
     IN VgStep(IF good THEN VgActiveOrFail([w EXCEPT !.cell[c].st = "ACTIVE",
                              !.cell[c].mode = "listen"], vgOf[c], ok)
               ELSE VgChannelFail(w, c, ok))
VgRxAssignFail(c, ok) ==
  VgFromCell(c, {"ASSIGNMENT"}) /\ VgFault(VgChannelFail(VgW, c, ok))
VgRxCellClearRequest(c) ==
  VgFromCell(c, {"ASSIGNMENT", "ACTIVE"}) /\ VgFault(VgCellClose(VgW, c))
VgRxCellClearComplete(c) ==
  VgFromCell(c, {"RELEASE"}) /\ VgStep(VgCellReleased(VgW, c))

\* The MGW gives the cell's address: VGCS/VBS ASSIGNMENT REQUEST is sent if the
\* peer is ready.  An empty address fails the channel.
VgMgwAddress(c, good, ready, ok) ==
  /\ vgC[c].st = "ASSIGNMENT" /\ vgC[c].conn = "new"
  /\ VgStep(IF good THEN [VgW EXCEPT !.cell[c].conn = IF ready THEN "up" ELSE @]
            ELSE VgChannelFail(VgW, c, ok))
VgMgwStreamFails(c, ok) ==
  vgC[c].st \in {"ASSIGNMENT", "ACTIVE"} /\ VgFault(VgStreamFails(VgW, c, ok))
VgMgwEndpointFails == vgMgw /\ VgFault(VgMgwFree(VgW))

\* The SCCP connection ends: ran_peer_disconnect() frees it.
VgDisconnect(b) ==
  /\ vgB[b].conn \in {"up", "lost"} \/ vgB[b].st = "freed"
  /\ VgFault(IF vgB[b].st = "freed" THEN [VgW EXCEPT !.bss[b] = VgNoBss]
            ELSE [VgW EXCEPT !.bss[b].conn = "gone"])
VgCellDisconnect(c) ==
  /\ vgC[c].conn \in {"up", "lost"} \/ vgC[c].st = "freed"
  /\ VgFault(IF vgC[c].st = "freed" THEN [VgW EXCEPT !.cell[c] = VgNoCell]
            ELSE [VgW EXCEPT !.cell[c].conn = "gone"])

\* A message on a connection whose cell is freed.
VgFreedCell(c) == vgC[c].st = "freed" /\ VgStep([VgW EXCEPT !.ub = TRUE])

VgPeerReset(b) ==
  /\ vgB[b].st # "none" \/ \E c \in VgCellsOf(b) : vgC[c].st # "none"
  /\ VgFault(VgPeerLost(VgW, b))

VgInit ==
  /\ vgOf \in VgGroups /\ vgGcc = VgNoGcc /\ vgB = [b \in VgBss |-> VgNoBss]
  /\ vgC = [c \in VgCells |-> VgNoCell] /\ vgMgw = FALSE /\ vgClients = 0
  /\ vgCaller = VgNoCaller /\ vgCalls = 0 /\ vgFaults = 0 /\ vgUb = FALSE

VgCallNext ==
  \/ \E c \in VgCells \cup {VgNone} : VgCallerConnects(c)
  \/ VgCallerLost \/ VgSetupRefused \/ VgVtyTerminate
  \/ \E known \in SUBSET VgBss, bcc, mgw \in BOOLEAN : \E ready \in SUBSET known :
       VgSetup(bcc, known, ready, mgw) \/ VgVtyInitiate(bcc, known, ready, mgw)
  \/ \E b \in VgBss \cup {VgNone} : VgRcvTermination(b)
  \/ VgRcvUplinkRelease \/ VgInactivity
  \/ VgCcAssigns \/ VgRanComplete \/ \E leg \in BOOLEAN : VgRanFailure(leg)

VgBssNext(b) ==
  \/ \E F \in SUBSET VgCellsOf(b) : VgRxSetupAck(b, F)
  \/ VgRxSetupRefuse(b) \/ VgRxUlRequest(b) \/ VgRxUlRelease(b)
  \/ \E own \in BOOLEAN, c \in VgCells \cup {VgNone} : VgRxUlRequestCnf(b, own, c)
  \/ VgRxClearRequest(b) \/ VgRxClearComplete(b) \/ VgDisconnect(b)
  \/ VgPeerReset(b)

VgCellNext(c) ==
  \/ \E good, ok \in BOOLEAN : VgRxAssignResult(c, good, ok)
  \/ \E good, ready, ok \in BOOLEAN : VgMgwAddress(c, good, ready, ok)
  \/ \E ok \in BOOLEAN : VgRxAssignFail(c, ok) \/ VgMgwStreamFails(c, ok)
  \/ VgRxCellClearRequest(c) \/ VgRxCellClearComplete(c) \/ VgCellDisconnect(c)
  \/ VgFreedCell(c)

VgNext ==
  \/ VgCallNext \/ VgMgwEndpointFails
  \/ \E b \in VgBss : VgBssNext(b)
  \/ \E c \in VgCells : VgCellNext(c)

VgSpec == VgInit /\ [][VgNext]_vgVars

\* The inactivity timer fires.
VgFair == WF_vgVars(VgInactivity)

-----------------------------------------------------------------------------
(* Properties.                                                             *)

\* Types.
VgTypeOK ==
  /\ vgGcc \in [st : {"none", "N0", "N1", "N2"}, bcc : BOOLEAN, busy : BOOLEAN,
                orig : BOOLEAN, bss : VgBss \cup {VgNone}, caller : BOOLEAN,
                cell : VgCells \cup {VgNone}, timer : BOOLEAN, sub : BOOLEAN]
  /\ vgB \in [VgBss -> [st : {"none", "freed", "SETUP", "ASSIGNMENT", "ACTIVE",
                              "RELEASE"},
                        trans : BOOLEAN, conn : VgConns,
                        told : {"none", "free", "seized"}]]
  /\ vgC \in [VgCells -> [st : {"none", "freed", "NULL", "ASSIGNMENT", "ACTIVE",
                                "RELEASE"},
                          bss : BOOLEAN, conn : VgConns, mgw : BOOLEAN,
                          rtps : {"none", "up", "gone"}, assigned : BOOLEAN,
                          mode : {"none", "recv", "listen", "talk"}]]
  /\ vgMgw \in BOOLEAN /\ vgUb \in BOOLEAN /\ vgOf \in VgGroups
  /\ vgClients \in 0..VgMaxCalls /\ vgCalls \in 0..VgMaxCalls
  /\ vgFaults \in 0..VgMaxFaults
  /\ vgCaller \in [conn : BOOLEAN, cm : BOOLEAN, cell : VgCells \cup {VgNone}, pend : BOOLEAN]

\* The levels of a call agree, although each clears the next one in nested
\* calls: a call always has a BSS (bss_clear() ends the call with its last one),
\* and a BSS reports the call as established only with all channels assigned
\* (vgcs_bss_fsm_assignment()).
VgLevelsAgree ==
  \/ vgUb
  \/ /\ vgGcc.st # "none" => VgListed(VgW) # {}
     /\ \A b \in VgBss : vgB[b].st = "ACTIVE" =>
          \A c \in VgAttached(VgW, b) : vgC[c].st = "ACTIVE" /\ vgC[c].assigned

\* At most one cell sends into the conference bridge (set_mgw_conference()),
\* whatever the order of uplink requests, confirmations and releases, and the
\* talker's BSS is one of the call, their cell attached to it (bss_clear(),
\* cell_clear() and set_uplink_cell()).  A cell of another BSS can be left in
\* uplink_cell by a second gcc_assign().
VgOneTalker ==
  \/ vgUb
  \/ /\ \A c, d \in VgCells :
          vgC[c].mode = "talk" /\ vgC[d].mode = "talk" => c = d
     /\ vgGcc.bss # VgNone =>
          /\ vgB[vgGcc.bss].trans
          /\ vgGcc.cell \in VgCellsOf(vgGcc.bss) => vgC[vgGcc.cell].bss

\* A call that nobody speaks in ends, or somebody takes the uplink.
VgIdleEnds == (vgGcc.st = "N2" /\ ~vgGcc.busy) ~> (vgGcc.st = "none" \/ vgGcc.busy
                                                   \/ vgUb)
=============================================================================
