---------------------------- MODULE MCVlrSubscr ----------------------------
(* Instances of VlrSubscr for TLC.                                         *)
EXTENDS VlrSubscr, TLC

Symmetric == Permutations(Subs)

=============================================================================
