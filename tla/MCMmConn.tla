------------------------------ MODULE MCMmConn ------------------------------
(* Instances of MmConn for TLC.                                            *)
EXTENDS MmConn, TLC

\* Authentication required, encryption used where there is a context: an MS on
\* A that sends further CM Service Requests, one that detaches while it has a
\* connection, and one that moves between A and Iu.
AuthA == [auth |-> TRUE, ciph |-> "may", tmsi |-> FALSE, imei |-> "no",
          a5 |-> TRUE, first |-> Messages, rans |-> {"A"}, late |-> {}]
AuthLate == [AuthA EXCEPT !.first = {"LU", "CM", "PAG"}, !.late = {"CM"}]
AuthDetach == [AuthA EXCEPT !.first = {"LU", "CM"}, !.late = {"DETACH"}]
AuthMoving == [AuthA EXCEPT !.rans = {"A", "Iu"}]

\* Encryption required of an MS that cannot, IMEI early; and the plain network
\* with a late IMEI check.
CipherRequired == [auth |-> FALSE, ciph |-> "must", tmsi |-> TRUE,
                   imei |-> "early", a5 |-> FALSE, first |-> Messages, rans |-> {"A"}, late |-> {}]
Plain == [auth |-> FALSE, ciph |-> "no", tmsi |-> TRUE, imei |-> "late",
          a5 |-> TRUE, first |-> Messages, rans |-> {"A", "Iu"}, late |-> {}]

SafetyConfigs == {AuthLate, AuthDetach, AuthMoving, CipherRequired, Plain}
LiveConfigs == {[AuthA EXCEPT !.first = {"LU", "CM"}]}
ConnSymmetry == Permutations(Conns)
=============================================================================
