---------------------------- MODULE AuthPromise ----------------------------
(***************************************************************************)
(* What an authentication session promises the procedure that starts it    *)
(* (a Location Updating or an access request): it reports one result, it   *)
(* passes only a subscriber it has challenged, and it says that the HLR    *)
(* has no authentication info only while nobody was challenged, because    *)
(* the procedure may then go on without authentication.                    *)
(***************************************************************************)
VARIABLES phase,     \* idle, asking (no challenge yet) or challenged
          result     \* what the last session reported, "none" if nothing

Phases == {"idle", "asking", "challenged"}
Results == {"PASSED", "NO_AUTH_INFO", "FAILURE"}

vars == <<phase, result>>

Init == phase = "idle" /\ result = "none"

Begin == phase = "idle" /\ phase' \in {"asking", "challenged"} /\ result' = "none"

Challenge == phase = "asking" /\ phase' = "challenged" /\ result' = result

Report(r) == phase' = "idle" /\ result' = r

Pass == phase = "challenged" /\ Report("PASSED")

NoInfo == phase = "asking" /\ Report("NO_AUTH_INFO")

Fail == phase # "idle" /\ Report("FAILURE")

\* The procedure or the record goes away, and the session with it.
Abandon == Report("none")

Next == Begin \/ Challenge \/ Pass \/ NoInfo \/ Fail \/ Abandon

Spec == Init /\ [][Next]_vars
=============================================================================
