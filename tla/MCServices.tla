---------------------------- MODULE MCServices ----------------------------
(* Instances for TLC of the services besides point to point calls (group   *)
(* calls, short messages, SMPP, supplementary services), of the call leg,  *)
(* handover and the RAN peers, explored one at a time.                     *)
EXTENDS Vgcs, Sms, Smpp, Ss, CallLeg, Handover, RanPeer

CONSTANTS cellA, cellB, e1, e2, i1, i2, spn, spg, c0, c1

VARIABLE focus  \* the component that takes steps; the others stay initial

MCVgGroups == {cellA :> 1 @@ cellB :> 2, cellA :> 1 @@ cellB :> 1}

\* Short messages: of an MS, of an ESME, between two subscribers, over GSUP.
MCSmConfigs ==
    {[gsup |-> FALSE, max |-> 1, fail |-> 2, del |-> FALSE,
      subs |-> {1}, env |-> {"mo", "time", "operator"}],
     [gsup |-> FALSE, max |-> 1, fail |-> 1, del |-> TRUE,
      subs |-> {1}, env |-> {"esme", "mo", "time"}],
     [gsup |-> FALSE, max |-> 1, fail |-> 1, del |-> FALSE,
      subs |-> {1, 2}, env |-> {}],
     [gsup |-> TRUE,  max |-> 1, fail |-> 1, del |-> TRUE,
      subs |-> {1}, env |-> {"mo"}]}

\* Of two access control entries of SMPP one is configured, with a prefix route
\* and as the default; or none yet and everyone accepted.
MCSpConfigs ==
    { [on |-> {i1}, routes |-> <<i1>>, def |-> i1, all |-> FALSE],
      [on |-> {}, routes |-> <<>>, def |-> spn, all |-> TRUE] }
MCSpFlags == {{"RX", "TX"}}

HoEntry(ident, peer, seen) == [ident |-> ident, peer |-> peer, seen |-> seen]

\* Handover to the other MSC; to a local BSS known by configuration, after an
\* unknown cell; to one that was seen while the configured one is not connected.
MCHoLists ==
    { <<>>,
      <<HoEntry("remote", HoNone, HoNone)>>,
      <<HoEntry("none", HoNone, HoNone), HoEntry("local", c1, HoNone)>>,
      <<HoEntry("local", HoNone, c0), HoEntry("remote", HoNone, HoNone)>> }

MCServicesInit ==
  /\ focus \in {"vgcs", "sms", "smpp", "ss", "leg", "ho", "ran"}
  /\ VgInit /\ SmInit /\ SpInit /\ SsInit /\ ClInit /\ HoInit /\ RpInit
  /\ focus # "vgcs" => vgOf[cellB] = 1
  /\ focus # "sms" => smCfg.gsup
  /\ focus # "smpp" => spSrv.all
  /\ focus # "leg" => ~clUse
  /\ focus # "ran" => ~rpIgnore

Only(f) ==
  /\ focus = f /\ focus' = f
  /\ IF f = "vgcs" THEN TRUE ELSE UNCHANGED vgVars
  /\ IF f = "sms" THEN TRUE ELSE UNCHANGED smVars
  /\ IF f = "smpp" THEN TRUE ELSE UNCHANGED spVars
  /\ IF f = "ss" THEN TRUE ELSE UNCHANGED ssVars
  /\ IF f = "leg" THEN TRUE ELSE UNCHANGED clVars
  /\ IF f = "ho" THEN TRUE ELSE UNCHANGED hoVars
  /\ IF f = "ran" THEN TRUE ELSE UNCHANGED rpVars

MCServicesNext ==
  \/ Only("vgcs") /\ VgNext
  \/ Only("sms") /\ SmNext
  \/ Only("smpp") /\ SpNext
  \/ Only("ss") /\ SsNext
  \/ Only("leg") /\ ClNext
  \/ Only("ho") /\ HoNext
  \/ Only("ran") /\ RpNext

MCServicesSpec ==
  MCServicesInit
  /\ [][MCServicesNext]_<<focus, vgVars, smVars, spVars, ssVars, clVars, hoVars, rpVars>>

\* Every component that takes steps keeps its state within its types.
MCServicesTypeOK ==
  CASE focus = "vgcs" -> VgTypeOK
    [] focus = "sms" -> SmTypeOK
    [] focus = "smpp" -> SpTypeOK
    [] focus = "ss" -> SsTypeOK
    [] focus = "leg" -> ClTypeOK
    [] focus = "ho" -> HoTypeOK
    [] focus = "ran" -> RpTypeOK
=============================================================================
