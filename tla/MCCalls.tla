------------------------------ MODULE MCCalls ------------------------------
(* Instances of CallControl for TLC.                                       *)
EXTENDS CallControl

CONSTANTS m, t, u

\* A call of the MS and one for it with call waiting, on a connection that other
\* services come to share; two calls for it without, on one they may have opened.
MCCcConfigs ==
  {[waiting |-> TRUE, calls |-> {m, t}, other |-> TRUE],
   [waiting |-> FALSE, calls |-> {t, u}, other |-> FALSE]}
=============================================================================
