------------------------------- MODULE MCSgs -------------------------------
(* Instances of SgsPersist and of SgsLink for TLC, explored one at a time. *)
EXTENDS SgsPersist, SgsLink, TLC

CONSTANTS i1, i2, m1, m2

VARIABLE focus  \* the component that takes steps

MCImsis == {i1, i2}
MCMmes == {m1, m2}

MCSgsSym ==
  UNION {Permutations(S) : S \in {MCImsis, MCMmes, SlConns, SlNames, SlIps}}

MCSgsInit == focus \in {"persist", "link"} /\ Init /\ SlInit

MCSgsNext ==
  /\ focus' = focus
  /\ \/ focus = "persist" /\ Next /\ UNCHANGED slVars
     \/ focus = "link" /\ SlNext /\ UNCHANGED vars

MCSgsSpec == MCSgsInit /\ [][MCSgsNext]_<<focus, vars, slVars>>
=============================================================================
