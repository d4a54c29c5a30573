------------------------------- MODULE MCLive -------------------------------
(* Small instances for TLC, explored one at a time, of the components that *)
(* must bring to an end what they start, with the fairness of their timers. *)
EXTENDS VlrAuth, CallControl, CallLeg, Handover, Vgcs, Sms, Smpp, SgsLink, Ss

CONSTANTS moCall, mtCall, c0, c1, cellA, cellB, e1, i1, spn

VARIABLE focus  \* the component that takes steps; the others stay initial

MCCcConfigs == {[waiting |-> TRUE, calls |-> {moCall}, other |-> TRUE],
                [waiting |-> TRUE, calls |-> {mtCall}, other |-> TRUE]}

HoEntry(ident, peer) == [ident |-> ident, peer |-> peer, seen |-> HoNone]
MCHoLists == {<<HoEntry("local", c1)>>, <<HoEntry("remote", HoNone)>>}

MCVgGroups == {cellA :> 1 @@ cellB :> 1}

MCSmConfigs ==
  {[gsup |-> FALSE, max |-> 1, fail |-> 2, del |-> FALSE,
    subs |-> {1}, env |-> {"mo", "esme"}],
   [gsup |-> TRUE,  max |-> 1, fail |-> 1, del |-> TRUE,
    subs |-> {1}, env |-> {"mo"}]}

MCSpConfigs == {[on |-> {i1}, routes |-> <<i1>>, def |-> spn, all |-> FALSE]}
MCSpFlags == {{"RX", "TX"}}

MCLiveInit ==
  /\ focus \in {"auth", "cc", "leg", "ho", "vgcs", "sms", "smpp", "link", "ss"}
  /\ Init /\ CcInit /\ ClInit /\ HoInit /\ VgInit /\ SmInit /\ SpInit /\ SlInit /\ SsInit
  /\ focus # "auth" => imsi /\ on_error
  /\ focus # "cc" => moCall \in ccCfg.calls
  /\ focus # "leg" => ~clUse
  /\ focus # "sms" => smCfg.gsup

Only(f) ==
  /\ focus = f /\ focus' = f
  /\ IF f = "auth" THEN TRUE ELSE UNCHANGED vars
  /\ IF f = "cc" THEN TRUE ELSE UNCHANGED ccVars
  /\ IF f = "leg" THEN TRUE ELSE UNCHANGED clVars
  /\ IF f = "ho" THEN TRUE ELSE UNCHANGED hoVars
  /\ IF f = "vgcs" THEN TRUE ELSE UNCHANGED vgVars
  /\ IF f = "sms" THEN TRUE ELSE UNCHANGED smVars
  /\ IF f = "smpp" THEN TRUE ELSE UNCHANGED spVars
  /\ IF f = "link" THEN TRUE ELSE UNCHANGED slVars
  /\ IF f = "ss" THEN TRUE ELSE UNCHANGED ssVars

MCLiveNext ==
  \/ Only("auth") /\ Next
  \/ Only("cc") /\ CcNext
  \/ Only("leg") /\ ClNext
  \/ Only("ho") /\ HoNext
  \/ Only("vgcs") /\ VgNext
  \/ Only("sms") /\ SmNext
  \/ Only("smpp") /\ SpNext
  \/ Only("link") /\ SlNext
  \/ Only("ss") /\ SsNext

MCLiveVars ==
  <<focus, vars, ccVars, clVars, hoVars, vgVars, smVars, spVars, slVars, ssVars>>

MCLiveSpec ==
  /\ MCLiveInit /\ [][MCLiveNext]_MCLiveVars
  /\ WF_vars(Timeout /\ UNCHANGED on_error)
  /\ CcFair /\ ClFair /\ HoFair /\ VgFair /\ SmFair /\ SpFair /\ SlFair /\ SsFair

\* What carries a call ends by the MSC's own timers, whatever MS, MGW, BSC and
\* MNCC leave out: a call being cleared (T306, T308), a call leg in release and
\* its streams (T-2), the target of a handover at the other MSC (T-3 and the
\* CLOSE on the E link), a group call that nobody speaks in.
CallsEnd == CcClearingEnds /\ ClEnds /\ HoTargetEnds /\ VgIdleEnds

\* Whatever the MSC asks of a peer that stays silent comes to an end: delivery of
\* an SMS by paging or transaction, a DELIVER-SM at an ESME, a VLR reset at an
\* MME (Ts11, Ns11), a USSD session between MS and EUSE.
RequestsEnd == SmTransEnds /\ SpCmdEnds /\ SlWaitEnds /\ SsEnds

\* The queue of short messages with its own timers.
MCQueueSpec ==
  /\ MCLiveInit /\ focus = "sms" /\ [][MCLiveNext]_MCLiveVars
  /\ SmFair /\ SmQueueFair
=============================================================================
