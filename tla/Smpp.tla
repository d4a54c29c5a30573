-------------------------------- MODULE Smpp --------------------------------
(***************************************************************************)
(* The SMPP server of osmo-msc (smpp_smsc.c) and its glue to the SMS and   *)
(* subscriber code (smpp_msc.c): access control entries and their routes,  *)
(* which the operator edits, ESMEs that connect, bind, submit and take     *)
(* deliveries, their reference counts, the commands that wait for a        *)
(* DELIVER-SM RESPONSE, and the subscriber references all of them hold.    *)
(*                                                                         *)
(* Pointers that outlive what they point to are SpGone; following one is   *)
(* undefined and ends the model with spUb.  Every ACL has one prefix at    *)
(* most; sequence numbers are abstracted to the identity of the command    *)
(* (they wrap at 2^31, a command lives 5 seconds).                         *)
(***************************************************************************)
EXTENDS Integers, Sequences, FiniteSets

CONSTANTS
    SpEsmes,    \* ESME structures (connections that may exist at a time)
    SpIds,      \* system ids
    SpFlags,    \* bind flags the ESMEs ask for
    SpQuiet,    \* those of them configured with "no alert-notifications"
    SpTids,     \* transaction ids of MO SMS of the subscriber
    SpRefs,     \* their RP message references
    SpFwds,     \* SMS objects submitted in forward mode
    SpConfigs,  \* configurations the server starts with
    SpMaxWq,    \* bound: length of an ESME's write queue (10 in the code)
    SpMaxEdits, \* bound: commands of the operator after the start
    SpNone, SpGone

ASSUME SpAssumption ==
    /\ SpNone # SpGone /\ {SpNone, SpGone} \cap (SpEsmes \cup SpIds) = {}
    /\ IsFiniteSet(SpEsmes) /\ IsFiniteSet(SpTids) /\ IsFiniteSet(SpRefs) /\ IsFiniteSet(SpFwds)
    /\ SpMaxWq \in Nat
    /\ \A c \in SpConfigs : c.def \in SpIds \cup {SpNone}

VARIABLES
    spAcls,     \* acl_list by system id
    spRoutes,   \* smsc->route_list: the ACLs of the prefix routes, in order
    spDef,      \* smsc->def_route
    spEsme,     \* esme_list
    spFwd,      \* the ESME each forward mode SMS refers to
    spMo,       \* the MO SMS transactions of the subscriber
    spUses,     \* the subscriber's use counts taken by this component
    spSrv,      \* the listening socket and "policy accept-all"
    spEdits,    \* commands of the operator so far
    spUb

spVars == <<spAcls, spRoutes, spDef, spEsme, spFwd, spMo, spUses, spSrv, spEdits, spUb>>

SpNoAcl == [on |-> FALSE, esme |-> SpNone, route |-> FALSE]
SpNoEsme == [st |-> "free", bind |-> {}, acl |-> SpNone, use |-> 0, cmds |-> {}, wq |-> 0]
SpNoMo == [ref |-> SpNone, st |-> "none"]

SpW == [acls |-> spAcls, routes |-> spRoutes, def |-> spDef, esme |-> spEsme,
        fwd |-> spFwd, mo |-> spMo, uses |-> spUses, srv |-> spSrv, ub |-> spUb]
SpApply(new) == \E w \in {new} :
    /\ ~spUb
    /\ spAcls' = w.acls /\ spRoutes' = w.routes /\ spDef' = w.def /\ spEsme' = w.esme
    /\ spFwd' = w.fwd /\ spMo' = w.mo /\ spUses' = w.uses /\ spSrv' = w.srv /\ spUb' = w.ub

SpBecome(w) == SpApply(w) /\ UNCHANGED spEdits
SpEdit(w) == spEdits < SpMaxEdits /\ spEdits' = spEdits + 1 /\ SpApply(w)

SpUb(w) == [w EXCEPT !.ub = TRUE]

-----------------------------------------------------------------------------
(* ESMEs *)

\* smpp_cmd_free() for every command in smpp_cmd_flush_pending(): what waits
\* for one of them is not told.
SpFlushPending(w, e) ==
    [w EXCEPT !.uses.cmd = @ - Cardinality(w.esme[e].cmds),
              !.esme[e].cmds = {},
              !.mo = [t \in SpTids |->
                        IF @[t].st = "wait" /\ [tid |-> t, ref |-> @[t].ref] \in w.esme[e].cmds
                        THEN [@[t] EXCEPT !.st = "lost"] ELSE @[t]]]

\* esme_destroy(): of the ACLs that refer to it only its own one is told.
SpDestroy(w, e) ==
    LET w1 == SpFlushPending(w, e)
    IN  IF w.esme[e].acl = SpGone THEN SpUb(w1)
        ELSE [w1 EXCEPT !.esme[e] = SpNoEsme,
                !.acls = [i \in SpIds |->
                    IF @[i].esme # e THEN @[i]
                    ELSE [@[i] EXCEPT !.esme = IF i = w.esme[e].acl THEN SpNone ELSE SpGone]]]

\* smpp_esme_get() and smpp_esme_put()
SpGet(w, e) == [w EXCEPT !.esme[e].use = @ + 1]
SpMutPut(w, e) == IF w.esme[e].use <= 2 THEN SpDestroy(w, e) ELSE [w EXCEPT !.esme[e].use = @ - 1]
SpPut(w, e) ==
    LET w1 == [w EXCEPT !.esme[e].use = @ - 1]
    IN  IF w1.esme[e].use <= 0 THEN SpDestroy(w1, e) ELSE w1

\* dead_socket in esme_link_read_cb(); esme_link_write_cb() does the same:
\* whoever holds the ACL now, the ACL forgets it.
SpDeadSocket(w, e) ==
    LET i == w.esme[e].acl
        w1 == [w EXCEPT !.esme[e].st = "closed", !.esme[e].wq = 0]
    IN  IF i = SpGone THEN SpUb(w1)
        ELSE SpPut(IF i = SpNone THEN w1 ELSE [w1 EXCEPT !.acls[i].esme = SpNone], e)

\* pack_and_send(): can it be queued, and then the queue
SpCanSend(w, e) == w.esme[e].st = "open" /\ w.esme[e].wq < SpMaxWq
SpPackAndSend(w, e) == IF SpCanSend(w, e) THEN [w EXCEPT !.esme[e].wq = @ + 1] ELSE w

\* link_accept_cb()
SpAccept(e) ==
    /\ spSrv.listen /\ spEsme[e].st = "free"
    /\ SpBecome([SpW EXCEPT !.esme[e] = [SpNoEsme EXCEPT !.st = "open", !.use = 1]])

\* _process_bind(); version and password as the ESME presents them
SpProcessBind(w, e, flags, id, verOk, pwOk) ==
    LET known == w.acls[id].on
    IN  IF ~verOk \/ w.esme[e].bind # {} \/ (~w.srv.all /\ (~known \/ ~pwOk)) THEN w
        ELSE IF ~known THEN [w EXCEPT !.esme[e].bind = flags]
        ELSE [w EXCEPT !.esme[e].bind = flags, !.esme[e].acl = id, !.acls[id].esme = e]

\* smpp_handle_bind_rx(), smpp_handle_bind_tx(), smpp_handle_bind_trx()
SpBind(e, flags, id, verOk, pwOk) ==
    /\ spEsme[e].st = "open"
    /\ SpBecome(SpPackAndSend(SpProcessBind(SpW, e, flags, id, verOk, pwOk), e))

\* smpp_handle_unbind(): the ACL keeps the ESME.
SpUnbind(e) ==
    /\ spEsme[e].st = "open"
    /\ SpBecome(SpPackAndSend([SpW EXCEPT !.esme[e].bind = {}], e))

\* smpp_handle_enq_link(), and the Generic NACK for an unknown command
SpEnquire(e) ==
    spEsme[e].st = "open" /\ SpBecome(SpPackAndSend(SpW, e))

SpDead(e) == spEsme[e].st = "open" /\ SpBecome(SpDeadSocket(SpW, e))

\* esme_link_write_cb()
SpWrite(e) ==
    spEsme[e].wq > 0 /\ SpBecome([SpW EXCEPT !.esme[e].wq = @ - 1])

-----------------------------------------------------------------------------
(* SUBMIT-SM *)

\* sms_free() of an SMS that refers to ESME e and to its receiver
SpSmsFree(w, e, receiver) ==
    SpPut([w EXCEPT !.uses.receiver = @ - IF receiver THEN 1 ELSE 0], e)

\* submit_to_sms(): pdu.known tells whether the destination is a subscriber,
\* pdu.bad what is wrong with the rest, in the order of the code's checks.
SpSubmitToSms(w, pdu) ==
    LET k == IF pdu.known THEN 1 ELSE 0
        found == [w EXCEPT !.uses.smpp = @ + k]
        putDest(v) == [v EXCEPT !.uses.smpp = @ - k]
        sms == putDest([found EXCEPT !.uses.receiver = @ + k])
        free(v) == [v EXCEPT !.uses.receiver = @ - k]
    IN  CASE ~pdu.known /\ pdu.fwd -> [st |-> "RINVDSTADR", w |-> found]
          [] pdu.bad = "tlv" -> [st |-> "ROPTPARNOTALLWD", w |-> putDest(found)]
          [] pdu.bad = "len" -> [st |-> "RINVPARLEN", w |-> putDest(found)]
          [] pdu.bad = "dcs" -> [st |-> "RUNKNOWNERR", w |-> free(sms)]
          [] pdu.bad = "udh" -> [st |-> "RINVPARLEN", w |-> free(sms)]
          [] OTHER -> [st |-> "ROK", w |-> sms]

\* handle_smpp_submit(): a stored SMS is freed at once, whether the database
\* took it or not; a forwarded one is kept by its transaction, unless there
\* can be none (busy), and is answered when that ends.
SpHandleSubmit(w, e, pdu, s, busy) ==
    LET r == SpSubmitToSms(w, pdu)
        got == SpGet(r.w, e)
    IN  IF r.st # "ROK" THEN SpPackAndSend(r.w, e)
        ELSE IF ~pdu.fwd THEN SpPackAndSend(SpSmsFree(got, e, pdu.known), e)
        ELSE IF busy THEN SpSmsFree(got, e, TRUE)
        ELSE [got EXCEPT !.fwd[s] = e]

\* smpp_handle_submit()
SpSubmit(e, pdu, s, busy) ==
    /\ spEsme[e].st = "open" /\ spFwd[s] = SpNone
    /\ SpBecome(IF "TX" \in spEsme[e].bind THEN SpHandleSubmit(SpW, e, pdu, s, busy)
                ELSE SpPackAndSend(SpW, e))

\* The forward mode SMS is delivered or fails: smpp_sms_cb() answers with
\* smpp_tx_submit_r(), then the SMS is freed; or its transaction goes without.
SpFwdEnds(s, told) ==
    /\ spFwd[s] # SpNone
    /\ LET e == spFwd[s]
           w == [SpW EXCEPT !.fwd[s] = SpNone]
       IN  SpBecome(SpSmsFree(IF told THEN SpPackAndSend(w, e) ELSE w, e, TRUE))

-----------------------------------------------------------------------------
(* DELIVER-SM *)

\* smpp_route(): the first prefix route that matches, else the default.
SpRoute(w, match) ==
    LET hits == {n \in DOMAIN w.routes : w.routes[n] \in match}
        acl == IF hits = {} THEN w.def
               ELSE w.routes[CHOOSE n \in hits : \A k \in hits : n <= k]
    IN  CASE SpGone \in {w.routes[n] : n \in DOMAIN w.routes} -> "ub"
          [] acl = SpGone -> "ub"
          [] acl = SpNone -> "NUM_UNASSIGNED"
          [] w.acls[acl].esme = SpNone -> "NET_OUT_OF_ORDER"
          [] w.acls[acl].esme = SpGone -> "ub"
          [] "RX" \notin w.esme[w.acls[acl].esme].bind -> "NET_OUT_OF_ORDER"
          [] OTHER -> w.acls[acl].esme

\* smpp_cmd_enqueue()
SpCmdEnqueue(w, e, t) ==
    [w EXCEPT !.esme[e].cmds = @ \cup {[tid |-> t, ref |-> w.mo[t].ref]},
              !.uses.cmd = @ + 1, !.mo[t].st = "wait"]

\* deliver_to_esme(); the SMS it takes the reference for is freed by
\* gsm340_rx_tpdu() as soon as this returns.
SpDeliverToEsme(w, e, t) ==
    IF w.esme[e].acl = SpGone THEN SpUb(w)
    ELSE IF ~SpCanSend(w, e) THEN w
    ELSE SpPut(SpCmdEnqueue(SpGet(SpPackAndSend(w, e), e), e, t), e)

\* smpp_try_deliver() for a new MO SMS.  What finds no ESME is answered or
\* stored at once (st "done").
SpTryDeliver(t, ref, match) ==
    /\ spMo[t].st = "none" /\ \A e \in SpEsmes : [tid |-> t, ref |-> ref] \notin spEsme[e].cmds
    /\ LET r == SpRoute(SpW, match)
           w == [SpW EXCEPT !.mo[t] = [ref |-> ref, st |-> "done"]]
       IN  SpBecome(CASE r = "ub" -> SpUb(w)
                      [] r \in SpEsmes -> SpDeliverToEsme(w, r, t)
                      [] OTHER -> w)

\* The transaction or the connection of the MO SMS ends.
SpMoEnds(t) ==
    spMo[t].st # "none" /\ SpBecome([SpW EXCEPT !.mo[t] = SpNoMo])

\* smpp_cmd_ack() and smpp_cmd_err(): RP-ACK or RP-ERROR in the transaction
\* that has the id now, whichever it is.
SpCmdDone(w, e, cmd) ==
    [w EXCEPT !.esme[e].cmds = @ \ {cmd}, !.uses.cmd = @ - 1,
              !.mo[cmd.tid].st = IF @ = "none" THEN @ ELSE "done"]

\* smpp_handle_deliver_resp(); a response to no pending command is ignored.
SpDeliverResp(e, cmd) ==
    /\ spEsme[e].st = "open" /\ cmd \in spEsme[e].cmds
    /\ SpBecome(SpCmdDone(SpW, e, cmd))

\* smpp_deliver_sm_cb()
SpCmdTimeout(e, cmd) ==
    cmd \in spEsme[e].cmds /\ SpBecome(SpCmdDone(SpW, e, cmd))

\* alert_all_esme() after smpp_subscr_cb(): every ESME that is bound, the
\* closed ones included
SpAlertAll ==
    LET bound == {e \in SpEsmes : spEsme[e].bind # {}}
        wants == {e \in bound : spEsme[e].acl \notin SpQuiet}
    IN  SpBecome(IF \E e \in bound : spEsme[e].acl = SpGone THEN SpUb(SpW)
                 ELSE [SpW EXCEPT !.esme = [e \in SpEsmes |->
                          IF e \in wants THEN SpPackAndSend(SpW, e).esme[e] ELSE @[e]]])

-----------------------------------------------------------------------------
(* The operator *)

\* smpp_acl_alloc()
SpAclAlloc(i) ==
    ~spAcls[i].on /\ SpEdit([SpW EXCEPT !.acls[i] = [SpNoAcl EXCEPT !.on = TRUE]])

\* smpp_acl_delete(): closes the ESME it knows; the default route and ESMEs
\* that still refer to the ACL keep the pointer.
SpAclDelete(i) ==
    /\ spAcls[i].on
    /\ LET e == spAcls[i].esme
           w1 == [SpW EXCEPT !.esme[e].st = "closed", !.esme[e].wq = 0]
           w2 == IF e = SpNone THEN SpW
                 ELSE IF e = SpGone \/ spEsme[e].st = "closed" THEN SpUb(SpW)
                 ELSE SpPut(w1, e)
           w3 == [w2 EXCEPT
                    !.acls[i] = SpNoAcl,
                    !.def = IF @ = i THEN SpGone ELSE @,
                    !.routes = SelectSeq(@, LAMBDA a : a # i),
                    !.esme = [x \in SpEsmes |->
                                IF @[x].acl = i THEN [@[x] EXCEPT !.acl = SpGone] ELSE @[x]]]
           touched == spAcls[i].route /\ SpGone \in {spRoutes[n] : n \in DOMAIN spRoutes}
       IN  SpEdit(IF touched THEN SpUb(w3) ELSE w3)

\* smpp_route_pfx_add()
SpRouteAdd(i) ==
    /\ spAcls[i].on /\ ~spAcls[i].route
    /\ LET w == [SpW EXCEPT !.acls[i].route = TRUE, !.routes = Append(@, i)]
       IN  SpEdit(IF SpGone \in {spRoutes[n] : n \in DOMAIN spRoutes} THEN SpUb(w) ELSE w)

\* smpp_route_pfx_del(): the entry stays in the global list.
SpRouteDel(i) ==
    /\ spAcls[i].on /\ spAcls[i].route
    /\ SpEdit([SpW EXCEPT !.acls[i].route = FALSE,
                   !.routes = [n \in DOMAIN @ |-> IF @[n] = i THEN SpGone ELSE @[n]]])

\* "default-route" and "no default-route"
SpDefaultRoute(i) ==
    /\ spAcls[i].on
    /\ SpEdit([SpW EXCEPT !.def = IF @ = SpNone THEN i ELSE @])
SpNoDefaultRoute(i) ==
    /\ spAcls[i].on
    /\ SpEdit([SpW EXCEPT !.def = IF @ = i THEN SpNone ELSE @])

\* smpp_smsc_restart(): newOk and oldOk tell which address can be bound.
SpRestart(newOk, oldOk) ==
    SpEdit([SpW EXCEPT !.srv.listen = newOk \/ oldOk])

SpInit ==
    /\ \E c \in SpConfigs :
         /\ spAcls = [i \in SpIds |->
                [on |-> i \in c.on, esme |-> SpNone, route |-> \E n \in DOMAIN c.routes : c.routes[n] = i]]
         /\ spRoutes = c.routes /\ spDef = c.def
         /\ spSrv = [listen |-> TRUE, all |-> c.all]
    /\ spEsme = [e \in SpEsmes |-> SpNoEsme]
    /\ spFwd = [s \in SpFwds |-> SpNone]
    /\ spMo = [t \in SpTids |-> SpNoMo]
    /\ spUses = [smpp |-> 0, receiver |-> 0, cmd |-> 0]
    /\ spEdits = 0 /\ spUb = FALSE

\* (What is left out is not looked at.)
SpPdus ==
    {pdu \in [known : BOOLEAN, fwd : BOOLEAN, bad : {"none", "tlv", "len", "dcs", "udh"}] :
       pdu.known \/ ~pdu.fwd \/ pdu.bad = "none"}
SpPlain == [known |-> TRUE, fwd |-> FALSE, bad |-> "none"]
SpForward == [known |-> TRUE, fwd |-> TRUE, bad |-> "none"]

\* The PDU is not looked at unless the ESME may transmit.
SpPduOf(e) == IF "TX" \in spEsme[e].bind THEN SpPdus ELSE {SpPlain}
SpCmds == [tid : SpTids, ref : SpRefs]

SpNext ==
    \/ \E e \in SpEsmes :
         \/ SpAccept(e) \/ SpUnbind(e) \/ SpEnquire(e) \/ SpDead(e) \/ SpWrite(e)
         \/ \E flags \in SpFlags, id \in SpIds, v, p \in BOOLEAN :
              (v \/ p) /\ SpBind(e, flags, id, v, p)
         \/ \E pdu \in SpPduOf(e), s \in SpFwds, busy \in BOOLEAN :
              (busy => pdu = SpForward) /\ SpSubmit(e, pdu, s, busy)
         \/ \E cmd \in SpCmds : SpDeliverResp(e, cmd) \/ SpCmdTimeout(e, cmd)
    \/ \E s \in SpFwds, told \in BOOLEAN : SpFwdEnds(s, told)
    \/ \E t \in SpTids :
         \/ SpMoEnds(t)
         \/ \E ref \in SpRefs, match \in SUBSET SpIds : SpTryDeliver(t, ref, match)
    \/ SpAlertAll
    \/ \E i \in SpIds :
         \/ SpAclAlloc(i) \/ SpAclDelete(i) \/ SpRouteAdd(i) \/ SpRouteDel(i)
         \/ SpDefaultRoute(i) \/ SpNoDefaultRoute(i)
    \/ \E newOk, oldOk \in BOOLEAN : SpRestart(newOk, oldOk)

SpSpec == SpInit /\ [][SpNext]_spVars

\* The response timer of every command expires.
SpFair == \A e \in SpEsmes, cmd \in SpCmds : WF_spVars(SpCmdTimeout(e, cmd))

-----------------------------------------------------------------------------
(* Properties *)

\* Types of the model's state; a closed ESME has nothing left to write.
SpTypeOK ==
    /\ spDef \in SpIds \cup {SpNone, SpGone}
    /\ \A e \in SpEsmes :
         /\ spEsme[e].st \in {"free", "open", "closed"}
         /\ spEsme[e].wq \in 0..SpMaxWq /\ (spEsme[e].st = "closed" => spEsme[e].wq = 0)
         /\ spEsme[e].cmds \subseteq SpCmds
         /\ spEsme[e].st = "free" => spEsme[e] = SpNoEsme
    /\ \A t \in SpTids : spMo[t].st \in {"none", "wait", "done", "lost"}

\* Uses are exact.  The reference count of an ESME is what refers to it, its
\* socket and the forward mode SMS not yet answered: it is freed when the last of
\* them goes, and smpp_tx_submit_r() never writes to one that is freed.  Of the
\* subscriber, none is left from a SUBMIT-SM that was refused or stored, and each
\* command that waits for its response holds one, also when the commands go with
\* their ESME.
SpUseExact ==
    ~spUb =>
        /\ \A e \in SpEsmes :
             spEsme[e].use = Cardinality({s \in SpFwds : spFwd[s] = e})
                               + IF spEsme[e].st = "open" THEN 1 ELSE 0
        /\ spUses.smpp = 0
        /\ spUses.receiver = Cardinality({s \in SpFwds : spFwd[s] # SpNone})
        /\ spUses.cmd = Cardinality({p \in SpEsmes \X SpCmds : p[2] \in spEsme[p[1]].cmds})

\* An MO SMS does not wait for ever for its ESME: every command ends, by its
\* response, its timer or with its ESME, and the wait with it.
SpCmdEnds ==
    /\ \A e \in SpEsmes, cmd \in SpCmds :
         cmd \in spEsme[e].cmds ~> (spUb \/ cmd \notin spEsme[e].cmds)
    /\ \A t \in SpTids : spMo[t].st = "wait" ~> (spUb \/ spMo[t].st # "wait")

=============================================================================
