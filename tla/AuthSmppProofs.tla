-------------------------- MODULE AuthSmppProofs --------------------------
(***************************************************************************)
(* Proofs about two components that lend out what they count and share no  *)
(* state.                                                                  *)
(*                                                                         *)
(* VlrAuth, for any number of tuple slots and any setting of the reuse     *)
(* options: the reuse limit, the tuple behind every challenge, the security*)
(* context of a passed subscriber, and the promise made to the procedures  *)
(* that authenticate.                                                      *)
(*                                                                         *)
(* Smpp, for any ESMEs, access control entries, transactions and limits:   *)
(* the use count of every ESME is what refers to it, and no pointer is     *)
(* left to one that is free.                                               *)
(***************************************************************************)
EXTENDS VlrAuth, Smpp, FiniteSetTheorems, TLAPS

-----------------------------------------------------------------------------
(* The authentication FSM of VlrAuth.                                      *)


\* Only auth-tuple-reuse-on-error lifts a session's limit, and a session that
\* runs has reported nothing.
SessionOK ==
  /\ fsm.st # "none" /\ on_error = FALSE => fsm.max = MaxReuse
  /\ fsm.st # "none" => result = "none"

\* The inductive invariant. The limit of a session ties a tuple's use count to
\* MaxReuse; PassedContext needs that no running session keeps an old result.
IInv == TypeOK /\ LastValid /\ ReuseBounded /\ SessionOK /\ PassedContext

\* Using a tuple once more keeps every tuple's type, key and AKA type.
LEMMA UsedTuple ==
  ASSUME NEW t \in [Slots -> Tuple], NEW i \in Slots
  PROVE  /\ Used(t, i) \in [Slots -> Tuple]
         /\ Used(t, i)[i].use = t[i].use + 1
         /\ \A j \in Slots : /\ Used(t, i)[j].key = t[j].key
                             /\ Used(t, i)[j].umts = t[j].umts
                             /\ j # i => Used(t, i)[j].use = t[j].use
BY DEF Used, Tuple

\* The HLR's vectors are stored unused, under the number of their slot.
LEMMA UpdatedTuples ==
  ASSUME NEW t \in [Slots -> Tuple], NEW n \in Nat, NEW umts \in BOOLEAN
  PROVE  /\ Updated(t, n, umts) \in [Slots -> Tuple]
         /\ \A j \in Slots : n > 0 => Updated(t, n, umts)[j].use = 0
BY DEF Updated, Tuple, Empty, Slots, Inval

\* A tuple taken by IsNext is valid and, under a limit, was used at most so often.
LEMMA NextTuple ==
  ASSUME NEW t, NEW l, NEW max \in Int, NEW i \in Slots, IsNext(t, l, max, i)
  PROVE  Valid(t, i) /\ (max >= 0 => t[i].use <= max)
BY DEF IsNext

\* An empty tuple array is well typed and unused.
LEMMA NoTuplesOK == NoTuples \in [Slots -> Tuple] /\ \A i \in Slots : NoTuples[i].use = 0
BY DEF NoTuples, Empty, Tuple, Inval

\* A fresh record without a session satisfies the invariant.
LEMMA InitOK == Init => IInv
<1> SUFFICES ASSUME Init PROVE IInv
  OBVIOUS
<1>1. TypeOK
  <2>1. Idle \in Session
    BY DEF Idle, Session, Waiting
  <2>2. imsi \in BOOLEAN /\ missing \in BOOLEAN
    BY ZenonT(30) DEF Init
  <2> QED BY <2>1, <2>2, NoTuplesOK DEF Init, TypeOK
<1>2. fsm.st = "none" /\ result = "none"
  BY DEF Init, Idle
<1>3. ReuseBounded
  BY AuthAssumption, NoTuplesOK DEF Init, ReuseBounded
<1> QED
  BY <1>1, <1>2, <1>3 DEF IInv, LastValid, SessionOK, PassedContext

\* Asking for a challenge from well-typed, limited tuples keeps the invariant:
\* the facts it needs of f, t and l are the ones the callers establish.
LEMMA AuthenticateOK ==
  ASSUME IInv, fsm.st # "none",
         NEW f \in Session, NEW t \in [Slots -> Tuple], NEW l \in Slots \cup {NoTuple},
         f.st \in {"WAIT_RESP", "WAIT_RESP_RESYNC"},
         on_error = FALSE => f.max = MaxReuse,
         on_error = FALSE /\ MaxReuse >= 0 => \A j \in Slots : t[j].use <= MaxReuse + 1,
         Authenticate(f, t, l), UNCHANGED <<sec, imsi, old, on_error>>
  PROVE  IInv'
<1>0. /\ TypeOK /\ ReuseBounded /\ result = "none"
      /\ \A i \in Slots : t[i].use \in Nat
      /\ MaxReuse \in Int /\ f.max \in Int
  BY AuthAssumption DEF IInv, SessionOK, Session, Tuple
<1>1. CASE HasTuple(t, l, f.max)
  <2>1. PICK i \in Slots : IsNext(t, l, f.max, i) /\ tuples' = Used(t, i) /\ last' = i
    BY <1>1 DEF Authenticate
  <2>2. fsm' = f /\ result' = "none" /\ missing' = missing
    BY <1>0, <1>1 DEF Authenticate
  <2>3. Valid(t, i) /\ (f.max >= 0 => t[i].use <= f.max)
    BY <1>0, <2>1, NextTuple
  <2>4. TypeOK'
    BY <1>0, <2>1, <2>2, UsedTuple DEF TypeOK
  <2>5. LastValid'
    BY <2>1, <2>3, UsedTuple DEF LastValid, Valid
  <2>6. ReuseBounded'
    <3> SUFFICES ASSUME on_error' = FALSE, MaxReuse >= 0, NEW j \in Slots
                 PROVE  tuples'[j].use <= MaxReuse + 1 /\ old'[j].use <= MaxReuse + 1
      BY ZenonT(30) DEF ReuseBounded
    <3>1. CASE j = i
      BY <1>0, <2>1, <2>3, <3>1, UsedTuple DEF ReuseBounded
    <3>2. CASE j # i
      BY <1>0, <2>1, <3>2, UsedTuple DEF ReuseBounded
    <3> QED BY <3>1, <3>2
  <2>7. SessionOK' /\ PassedContext'
    BY <2>2 DEF SessionOK, PassedContext
  <2> QED BY <2>4, <2>5, <2>6, <2>7 DEF IInv
<1>2. CASE ~HasTuple(t, l, f.max)
  <2>1. tuples' = t /\ last' = l /\ missing' = TRUE /\ fsm' = Idle /\ result' = "FAILURE"
    BY <1>2 DEF Authenticate, AuthFsmTerm
  <2> QED
    BY <1>0, <2>1 DEF IInv, TypeOK, LastValid, ReuseBounded, SessionOK, PassedContext, Idle,
       Session, Waiting
<1> QED BY <1>1, <1>2

\* Ending the session without touching the record keeps the invariant.
LEMMA TermOK ==
  ASSUME IInv, NEW r \in {"none", "NO_AUTH_INFO", "FAILURE"}, AuthFsmTerm(r),
         UNCHANGED <<tuples, last, sec, imsi, old, missing, on_error>>
  PROVE  IInv'
<1>1. fsm' = Idle /\ result' = r /\ Idle.st = "none" /\ Idle \in Session
  BY DEF AuthFsmTerm, Idle, Session, Waiting
<1>2. TypeOK'
  BY <1>1 DEF IInv, TypeOK
<1> QED
  BY <1>1, <1>2 DEF IInv, LastValid, ReuseBounded, SessionOK, PassedContext

\* A session that challenges keeps its identity and its RAT.
LEMMA ChallengingOK ==
  ASSUME TypeOK, NEW max \in Int
  PROVE  Challenging(max) \in Session /\ Challenging(max).st = "WAIT_RESP" /\ Challenging(max).max = max
BY DEF TypeOK, Challenging, Session, Waiting

\* Every step keeps the invariant.
LEMMA NextOK == IInv /\ [Next]_vars => IInv'
<1> SUFFICES ASSUME IInv, [Next]_vars PROVE IInv'
  OBVIOUS
<1>0. /\ TypeOK /\ LastValid /\ ReuseBounded /\ SessionOK /\ PassedContext
      /\ MaxReuse \in Int
      /\ on_error' = on_error
      /\ \A i \in Slots : tuples[i].use \in Nat
  BY AuthAssumption DEF IInv, TypeOK, Tuple, Next, vars
<1>1. ASSUME NEW utran \in BOOLEAN, AuthFsmStart(utran) PROVE IInv'
  <2>1. CASE HasTuple(tuples, last, MaxReuse)
    <3>1. PICK i \in Slots : IsNext(tuples, last, MaxReuse, i) /\ tuples' = Used(tuples, i) /\ last' = i
      BY <1>1, <2>1 DEF AuthFsmStart
    <3>2. fsm' = [st |-> "WAIT_RESP", by_imsi |-> imsi, max |-> MaxReuse, utran |-> utran]
      BY <1>1, <2>1 DEF AuthFsmStart
    <3>3. result' = "none" /\ UNCHANGED <<sec, imsi, old, missing>>
      BY <1>1 DEF AuthFsmStart
    <3>4. TypeOK'
      BY <1>0, <3>1, <3>2, <3>3, UsedTuple DEF TypeOK, Session, Waiting
    <3>5. Valid(tuples, i) /\ (MaxReuse >= 0 => tuples[i].use <= MaxReuse)
      BY <1>0, <3>1, NextTuple
    <3>6. LastValid'
      BY <1>0, <3>1, <3>5, UsedTuple DEF TypeOK, LastValid, Valid
    <3>7. ReuseBounded'
      <4> SUFFICES ASSUME on_error' = FALSE, MaxReuse >= 0, NEW j \in Slots
                   PROVE  tuples'[j].use <= MaxReuse + 1 /\ old'[j].use <= MaxReuse + 1
        BY ZenonT(30) DEF ReuseBounded
      <4>1. CASE j = i
        BY <1>0, <3>1, <3>3, <3>5, <4>1, UsedTuple DEF ReuseBounded, TypeOK
      <4>2. CASE j # i
        BY <1>0, <3>1, <3>3, <4>2, UsedTuple DEF ReuseBounded, TypeOK
      <4> QED BY <4>1, <4>2
    <3>8. SessionOK' /\ PassedContext'
      BY <3>2, <3>3 DEF SessionOK, PassedContext
    <3> QED BY <3>4, <3>6, <3>7, <3>8 DEF IInv
  <2>2. CASE ~HasTuple(tuples, last, MaxReuse)
    <3>1. /\ fsm' = [st |-> "WAIT_AI", by_imsi |-> imsi, max |-> MaxReuse, utran |-> utran]
          /\ result' = "none" /\ UNCHANGED <<tuples, last, sec, imsi, old, missing>>
      BY <1>1, <2>2 DEF AuthFsmStart
    <3>2. TypeOK'
      BY <1>0, <3>1 DEF TypeOK, Session, Waiting
    <3> QED
      BY <1>0, <3>1, <3>2 DEF IInv, LastValid, ReuseBounded, SessionOK, PassedContext
  <2> QED BY <2>1, <2>2
<1>2. ASSUME NEW n \in 0 .. NumTuples + 1, NEW umts \in BOOLEAN, WaitAiAck(n, umts) PROVE IInv'
  <2>0. n \in Nat /\ fsm.st = "WAIT_AI" /\ UNCHANGED <<sec, imsi, old>> /\ fsm.max \in Int
    BY <1>0, <1>2, AuthAssumption DEF WaitAiAck, TypeOK, Session
  <2>1. CASE n = 0 /\ ReuseOld /\ Authenticate(Challenging(-1), tuples, last)
    <3>1. on_error = TRUE
      BY <2>1, AuthAssumption DEF ReuseOld
    <3> QED
      BY <1>0, <2>0, <2>1, <3>1, ChallengingOK, AuthenticateOK DEF TypeOK
  <2>2. CASE n = 0 /\ ~ReuseOld /\ AuthFsmTerm("FAILURE") /\ UNCHANGED <<tuples, last, missing>>
    BY <1>0, <2>0, <2>2, TermOK
  <2>3. CASE n > 0 /\ Authenticate(Challenging(fsm.max), Updated(tuples, n, umts), NoTuple)
    <3>1. /\ Updated(tuples, n, umts) \in [Slots -> Tuple]
          /\ \A j \in Slots : Updated(tuples, n, umts)[j].use = 0
      BY <1>0, <2>0, <2>3, UpdatedTuples DEF TypeOK
    <3>2. on_error = FALSE => fsm.max = MaxReuse
      BY <1>0, <2>0 DEF SessionOK
    <3>3. Challenging(fsm.max) \in Session /\ Challenging(fsm.max).st = "WAIT_RESP" /\ Challenging(fsm.max).max = fsm.max
      BY <1>0, <2>0, ChallengingOK
    <3>4. NoTuple \in Slots \cup {NoTuple} /\ fsm.st # "none" /\ UNCHANGED <<sec, imsi, old, on_error>>
      BY <1>0, <2>0
    <3>5. on_error = FALSE /\ MaxReuse >= 0 => \A j \in Slots : Updated(tuples, n, umts)[j].use <= MaxReuse + 1
      BY <1>0, <3>1
    <3> QED
      BY ZenonT(30), <2>3, <3>1, <3>2, <3>3, <3>4, <3>5, AuthenticateOK
  <2> QED BY <1>2, <2>1, <2>2, <2>3 DEF WaitAiAck
<1>3. ASSUME NEW n \in 0 .. NumTuples + 1, NEW umts \in BOOLEAN, WaitAiResyncAck(n, umts) PROVE IInv'
  <2>0. n \in Nat /\ fsm.st = "WAIT_SAI_RESYNC" /\ UNCHANGED <<sec, imsi, old>> /\ fsm.max \in Int
    BY <1>0, <1>3, AuthAssumption DEF WaitAiResyncAck, TypeOK, Session
  <2>a. on_error = FALSE => fsm.max = MaxReuse
    BY <1>0, <2>0 DEF SessionOK
  <2> DEFINE f == [Challenging(fsm.max) EXCEPT !.st = "WAIT_RESP_RESYNC"]
  <2>1. CASE n > 0 /\ Authenticate(f, Updated(tuples, n, umts), NoTuple)
    <3>1. /\ Updated(tuples, n, umts) \in [Slots -> Tuple]
          /\ \A j \in Slots : Updated(tuples, n, umts)[j].use = 0
      BY <1>0, <2>0, <2>1, UpdatedTuples DEF TypeOK
    <3>2. f \in Session /\ f.st = "WAIT_RESP_RESYNC" /\ f.max = fsm.max
      BY <1>0, <2>0 DEF Challenging, Session, Waiting, TypeOK
    <3> HIDE DEF f
    <3>3. NoTuple \in Slots \cup {NoTuple} /\ fsm.st # "none" /\ UNCHANGED <<sec, imsi, old, on_error>>
      BY <1>0, <2>0
    <3>4. on_error = FALSE /\ MaxReuse >= 0 => \A j \in Slots : Updated(tuples, n, umts)[j].use <= MaxReuse + 1
      BY <1>0, <3>1
    <3> QED
      BY ZenonT(30), <2>a, <2>1, <3>1, <3>2, <3>3, <3>4, AuthenticateOK
  <2>2. CASE /\ n = 0 /\ AuthFsmTerm("FAILURE") /\ ~HasTuple(tuples, NoTuple, fsm.max)
             /\ missing' = TRUE /\ last' = NoTuple /\ UNCHANGED tuples
    <3>1. fsm' = Idle /\ result' = "FAILURE" /\ Idle.st = "none" /\ Idle \in Session
      BY <2>2 DEF AuthFsmTerm, Idle, Session, Waiting
    <3>2. TypeOK'
      BY <1>0, <2>0, <2>2, <3>1 DEF TypeOK
    <3> QED
      BY <1>0, <2>0, <2>2, <3>1, <3>2 DEF IInv, LastValid, ReuseBounded, SessionOK, PassedContext
  <2>3. CASE /\ n = 0 /\ AuthFsmTerm("FAILURE") /\ UNCHANGED missing
             /\ \E i \in Slots : /\ IsNext(tuples, NoTuple, fsm.max, i)
                                 /\ tuples' = Used(tuples, i) /\ last' = i
    <3>1. fsm' = Idle /\ result' = "FAILURE" /\ Idle.st = "none" /\ Idle \in Session
      BY <2>3 DEF AuthFsmTerm, Idle, Session, Waiting
    <3>2. PICK i \in Slots : IsNext(tuples, NoTuple, fsm.max, i) /\ tuples' = Used(tuples, i) /\ last' = i
      BY <2>3
    <3>3. TypeOK'
      BY SMTT(30), <1>0, <2>0, <2>3, <3>1, <3>2, UsedTuple DEF TypeOK
    <3>4. fsm.max >= 0 => tuples[i].use <= fsm.max
      BY <2>0, <3>2, NextTuple
    <3>5. ReuseBounded'
      <4> SUFFICES ASSUME on_error' = FALSE, MaxReuse >= 0, NEW j \in Slots
                   PROVE  tuples'[j].use <= MaxReuse + 1 /\ old'[j].use <= MaxReuse + 1
        BY ZenonT(30) DEF ReuseBounded
      <4>1. CASE j = i
        BY <1>0, <2>0, <2>a, <3>2, <3>4, <4>1, UsedTuple DEF ReuseBounded, TypeOK
      <4>2. CASE j # i
        BY <1>0, <2>0, <3>2, <4>2, UsedTuple DEF ReuseBounded, TypeOK
      <4> QED BY <4>1, <4>2
    <3> QED
      BY <3>1, <3>3, <3>5 DEF IInv, LastValid, SessionOK, PassedContext
  <2> QED BY ZenonT(30), <1>3, <2>1, <2>2, <2>3 DEF WaitAiResyncAck
<1>4. ASSUME NEW imsi_unknown \in BOOLEAN, WaitAiNack(imsi_unknown) PROVE IInv'
  <2>0. fsm.st = "WAIT_AI" /\ UNCHANGED <<sec, imsi, old>>
    BY <1>4 DEF WaitAiNack
  <2>1. CASE ~imsi_unknown /\ ReuseOld
    <3>1. on_error = TRUE /\ Authenticate(Challenging(-1), tuples, last)
      BY <1>4, <2>1, AuthAssumption DEF ReuseOld, WaitAiNack
    <3> QED
      BY <1>0, <2>0, <3>1, ChallengingOK, AuthenticateOK DEF TypeOK
  <2>2. CASE ~(~imsi_unknown /\ ReuseOld)
    <3>1. AuthFsmTerm("NO_AUTH_INFO") /\ UNCHANGED <<tuples, last, missing>>
      BY <1>4, <2>2 DEF WaitAiNack
    <3> QED BY <1>0, <2>0, <3>1, TermOK
  <2> QED BY <2>1, <2>2
<1>5. CASE WaitAiResyncNack
  BY <1>0, <1>5, TermOK DEF WaitAiResyncNack
<1>6. ASSUME NEW len \in {"res", "sres", "other"}, NEW right \in BOOLEAN, NEW r99 \in BOOLEAN,
             WaitAuthResp(len, right, r99)
      PROVE  IInv'
  <2>0. /\ fsm.st \in {"WAIT_RESP", "WAIT_RESP_RESYNC"}
        /\ sec' = CheckAuthResp(len, right, r99)
        /\ UNCHANGED <<tuples, last, imsi, old, missing>>
    BY <1>6 DEF WaitAuthResp
  <2>1. /\ sec' \in {"NONE", "GSM", "UMTS"}
        /\ sec' = "UMTS" => tuples[last].umts
    BY <2>0 DEF CheckAuthResp
  <2>2. last \in Slots /\ Valid(tuples, last)
    BY <1>0, <2>0 DEF LastValid
  <2>3. CASE sec' # "NONE"
    <3>1. fsm' = Idle /\ result' = "PASSED" /\ Idle.st = "none" /\ Idle \in Session
      BY <1>6, <2>3 DEF WaitAuthResp, AuthFsmTerm, Idle, Session, Waiting
    <3>2. TypeOK'
      BY <1>0, <2>0, <2>1, <3>1 DEF TypeOK
    <3>3. PassedContext'
      BY SMTT(30), <2>0, <2>1, <2>2, <2>3 DEF PassedContext, Valid
    <3> QED
      BY <1>0, <2>0, <3>1, <3>2, <3>3 DEF IInv, LastValid, ReuseBounded, SessionOK
  <2>4. CASE sec' = "NONE" /\ fsm.by_imsi
    <3>1. fsm' = Idle /\ result' = "FAILURE" /\ Idle.st = "none" /\ Idle \in Session
      BY <1>6, <2>4 DEF WaitAuthResp, AuthFsmTerm, Idle, Session, Waiting
    <3>2. TypeOK'
      BY <1>0, <2>0, <2>1, <3>1 DEF TypeOK
    <3> QED
      BY <1>0, <2>0, <3>1, <3>2 DEF IInv, LastValid, ReuseBounded, SessionOK, PassedContext
  <2>5. CASE sec' = "NONE" /\ ~fsm.by_imsi
    <3>1. /\ fsm' = [fsm EXCEPT !.st = IF @ = "WAIT_RESP" THEN "WAIT_ID_IMSI" ELSE @]
          /\ result' = result
      BY <1>6, <2>5 DEF WaitAuthResp
    <3>2. fsm' \in Session /\ fsm'.max = fsm.max
      BY <1>0, <2>0, <3>1 DEF TypeOK, Session, Waiting
    <3>3. TypeOK'
      BY <1>0, <2>0, <2>1, <3>1, <3>2 DEF TypeOK
    <3>4. LastValid' /\ ReuseBounded'
      BY <1>0, <2>0, <2>2 DEF LastValid, ReuseBounded, Valid
    <3>5. SessionOK' /\ PassedContext'
      BY <1>0, <2>0, <3>1, <3>2 DEF SessionOK, PassedContext
    <3> QED BY <3>3, <3>4, <3>5 DEF IInv
  <2> QED BY <2>3, <2>4, <2>5
<1>7. ASSUME NEW auts \in BOOLEAN, WaitAuthFail(auts) PROVE IInv'
  <2>1. CASE fsm.st = "WAIT_RESP" /\ auts
    <3>1. /\ fsm' = [fsm EXCEPT !.st = "WAIT_SAI_RESYNC"]
          /\ UNCHANGED <<tuples, last, sec, imsi, old, missing, result>>
      BY <1>7, <2>1 DEF WaitAuthFail
    <3>2. fsm' \in Session /\ fsm'.max = fsm.max /\ fsm'.st = "WAIT_SAI_RESYNC"
      BY <1>0, <3>1 DEF TypeOK, Session, Waiting
    <3>3. last \in Slots /\ Valid(tuples, last)
      BY <1>0, <2>1 DEF LastValid
    <3> QED
      BY <1>0, <2>1, <3>1, <3>2, <3>3 DEF IInv, TypeOK, LastValid, ReuseBounded, SessionOK,
         PassedContext, Valid
  <2>2. CASE ~(fsm.st = "WAIT_RESP" /\ auts)
    BY SMTT(30), <1>0, <1>7, <2>2, TermOK DEF WaitAuthFail
  <2> QED BY <2>1, <2>2
<1>8. CASE Timeout
  BY <1>0, <1>8, TermOK DEF Timeout
<1>9. CASE ParentTerm
  BY <1>0, <1>9, TermOK DEF ParentTerm
<1>10. ASSUME NEW k \in Slots, AuthTryReuseTuple(k) PROVE IInv'
  <2>1. /\ last \in Slots /\ tuples' = Used(tuples, last)
        /\ MaxReuse < 0 \/ tuples[last].use <= MaxReuse
        /\ fsm.st = "none" /\ UNCHANGED <<last, sec, imsi, old, fsm, result, missing>>
    BY <1>0, <1>10 DEF AuthTryReuseTuple, TypeOK
  <2>2. TypeOK'
    BY <1>0, <2>1, UsedTuple DEF TypeOK
  <2>3. ReuseBounded'
    <3> SUFFICES ASSUME on_error' = FALSE, MaxReuse >= 0, NEW j \in Slots
                 PROVE  tuples'[j].use <= MaxReuse + 1 /\ old'[j].use <= MaxReuse + 1
      BY ZenonT(30) DEF ReuseBounded
    <3>1. CASE j = last
      BY <1>0, <2>1, <3>1, UsedTuple DEF ReuseBounded, TypeOK
    <3>2. CASE j # last
      BY <1>0, <2>1, <3>2, UsedTuple DEF ReuseBounded, TypeOK
    <3> QED BY <3>1, <3>2
  <2>4. PassedContext'
    BY <1>0, <2>1, UsedTuple DEF PassedContext, Valid, TypeOK
  <2> QED
    BY <1>0, <2>1, <2>2, <2>3, <2>4 DEF IInv, LastValid, SessionOK
<1>11. CASE NewRecordByTmsi
  <2>1. /\ fsm.st = "none" /\ fsm' = fsm /\ missing' = missing /\ old' = tuples /\ tuples' = NoTuples
        /\ last' = NoTuple /\ sec' = "NONE" /\ imsi' = FALSE /\ result' = "none"
    BY <1>11 DEF NewRecordByTmsi
  <2>2. TypeOK'
    BY ZenonT(30), <1>0, <2>1, NoTuplesOK DEF TypeOK
  <2>3. ReuseBounded'
    BY <1>0, <2>1, NoTuplesOK DEF ReuseBounded
  <2> QED
    BY <2>1, <2>2, <2>3 DEF IInv, LastValid, SessionOK, PassedContext
<1>12. CASE SetImsi
  <2>0. /\ fsm.st = "none" /\ imsi' = TRUE /\ old' = NoTuples
        /\ UNCHANGED <<last, sec, fsm, result, missing>>
    BY <1>12 DEF SetImsi
  <2>1. /\ tuples' \in [Slots -> Tuple]
        /\ \A j \in Slots : Valid(tuples, j) => tuples'[j] = tuples[j]
        /\ \A j \in Slots : tuples'[j] = tuples[j] \/ \E i \in Slots : tuples'[j] = old[i]
    <3>1. CASE UNCHANGED tuples
      BY <1>0, <3>1 DEF TypeOK
    <3>2. ASSUME NEW i \in Slots, tuples' = Copied(tuples, old, i) PROVE <2>1
      BY <1>0, <3>2 DEF Copied, TypeOK
    <3> QED BY <1>12, <3>1, <3>2 DEF SetImsi
  <2>2. TypeOK'
    BY SMTT(30), <1>0, <2>0, <2>1, NoTuplesOK DEF TypeOK
  <2>3. ReuseBounded'
    BY <1>0, <2>0, <2>1, NoTuplesOK DEF ReuseBounded
  <2>4. PassedContext'
    BY SMTT(30), <1>0, <2>0, <2>1 DEF PassedContext, Valid
  <2> QED
    BY <1>0, <2>0, <2>2, <2>3, <2>4 DEF IInv, LastValid, SessionOK
<1>13. CASE UNCHANGED vars
  BY <1>0, <1>13 DEF vars, IInv, TypeOK, LastValid, ReuseBounded, SessionOK, PassedContext, Valid
<1> QED
  BY <1>1, <1>2, <1>3, <1>4, <1>5, <1>6, <1>7, <1>8, <1>9, <1>10, <1>11, <1>12, <1>13 DEF Next, Step

\* The inductive invariant holds in every reachable state.
THEOREM AuthInvariant == Spec => []IInv
BY InitOK, NextOK, PTL DEF Spec

\* The tuples, the session and its result keep their types.
THEOREM AuthTypes == Spec => []TypeOK
<1>1. IInv => TypeOK
  BY DEF IInv
<1> QED BY <1>1, AuthInvariant, PTL

\* For any number of slots and any limit, no stored tuple is used more often
\* than auth-tuple-max-reuse-count allows, unless auth-tuple-reuse-on-error is set.
THEOREM ReuseLimited == Spec => []ReuseBounded
<1>1. IInv => ReuseBounded
  BY DEF IInv
<1> QED BY <1>1, AuthInvariant, PTL

\* The assertion of check_auth_resp() never fails.
THEOREM LastTupleExists == Spec => []LastValid
<1>1. IInv => LastValid
  BY DEF IInv
<1> QED BY <1>1, AuthInvariant, PTL

\* A passed subscriber's security context is one its last tuple supports.
THEOREM PassedHasContext == Spec => []PassedContext
<1>1. IInv => PassedContext
  BY SMTT(30) DEF IInv
<1> QED BY <1>1, AuthInvariant, PTL

\* Every step of a session is a step of AuthPromise or changes nothing it shows.
LEMMA StepPromised == IInv /\ [Next]_vars => [Promise!Next]_(Promise!vars)
<1> SUFFICES ASSUME IInv, [Next]_vars PROVE [Promise!Next]_(Promise!vars)
  OBVIOUS
<1> USE DEF Promise!vars, Promise!Report
<1>0. /\ fsm.st \in Waiting \cup {"none"}
      /\ fsm.st # "none" => result = "none"
      /\ Idle.st = "none" /\ PhaseOf("none") = "idle" /\ PhaseOf("WAIT_AI") = "asking"
      /\ \A st \in Waiting \ {"WAIT_AI"} : PhaseOf(st) = "challenged"
  BY DEF IInv, TypeOK, Session, SessionOK, Idle, PhaseOf, Waiting
<1>a. ASSUME NEW r \in {"FAILURE", "none"}, fsm.st # "none", AuthFsmTerm(r)
      PROVE  Promise!Fail \/ Promise!Abandon
  <2>1. PhaseOf(fsm.st) # "idle" /\ PhaseOf(fsm'.st) = "idle" /\ result' = r
    BY <1>0, <1>a DEF AuthFsmTerm, Waiting, PhaseOf
  <2> QED BY <2>1 DEF Promise!Fail, Promise!Abandon
<1>b. ASSUME NEW f, NEW t, NEW l, fsm.st # "none", f.st \in {"WAIT_RESP", "WAIT_RESP_RESYNC"}, Authenticate(f, t, l)
      PROVE  Promise!Next \/ UNCHANGED <<PhaseOf(fsm.st), result>>
  <2>1. CASE HasTuple(t, l, f.max)
    <3>1. fsm' = f /\ result' = result
      BY <1>b, <2>1 DEF Authenticate
    <3>2. PhaseOf(fsm'.st) = "challenged"
      BY <1>0, <1>b, <3>1 DEF Waiting
    <3> QED BY <1>0, <1>b, <3>1, <3>2 DEF Promise!Next, Promise!Challenge, Waiting
  <2>2. CASE ~HasTuple(t, l, f.max)
    BY <1>a, <1>b, <2>2 DEF Authenticate, Promise!Next
  <2> QED BY <2>1, <2>2
<1>1. ASSUME NEW utran \in BOOLEAN, AuthFsmStart(utran) PROVE Promise!Next
  <2>1. fsm.st = "none" /\ result' = "none" /\ fsm'.st \in {"WAIT_RESP", "WAIT_AI"}
    BY <1>1 DEF AuthFsmStart
  <2> QED BY SMTT(30), <1>0, <2>1 DEF Promise!Next, Promise!Begin, Waiting
<1>2. ASSUME NEW n \in 0 .. NumTuples + 1, NEW umts \in BOOLEAN, WaitAiAck(n, umts)
      PROVE  [Promise!Next]_(Promise!vars)
  <2>1. fsm.st = "WAIT_AI" /\ \A max : Challenging(max).st = "WAIT_RESP"
    BY <1>2 DEF WaitAiAck, Challenging
  <2>2. CASE AuthFsmTerm("FAILURE")
    BY <1>a, <2>1, <2>2 DEF Promise!Next
  <2> QED BY SMTT(30), <1>2, <1>b, <2>1, <2>2 DEF WaitAiAck
<1>3. ASSUME NEW n \in 0 .. NumTuples + 1, NEW umts \in BOOLEAN, WaitAiResyncAck(n, umts)
      PROVE  [Promise!Next]_(Promise!vars)
  <2> DEFINE f == [Challenging(fsm.max) EXCEPT !.st = "WAIT_RESP_RESYNC"]
  <2>1. fsm.st = "WAIT_SAI_RESYNC" /\ f.st = "WAIT_RESP_RESYNC"
    BY <1>3 DEF WaitAiResyncAck, Challenging
  <2>2. CASE AuthFsmTerm("FAILURE")
    BY <1>a, <2>1, <2>2 DEF Promise!Next
  <2>3. CASE Authenticate(f, Updated(tuples, n, umts), NoTuple)
    BY ZenonT(30), <1>b, <2>1, <2>3
  <2> QED BY <1>3, <2>2, <2>3 DEF WaitAiResyncAck
<1>4. ASSUME NEW imsi_unknown \in BOOLEAN, WaitAiNack(imsi_unknown)
      PROVE  [Promise!Next]_(Promise!vars)
  <2>1. fsm.st = "WAIT_AI" /\ Challenging(-1).st = "WAIT_RESP"
    BY <1>4 DEF WaitAiNack, Challenging
  <2>2. CASE Authenticate(Challenging(-1), tuples, last)
    BY <1>b, <2>1, <2>2
  <2>3. CASE AuthFsmTerm("NO_AUTH_INFO")
    <3>1. PhaseOf(fsm.st) = "asking" /\ PhaseOf(fsm'.st) = "idle" /\ result' = "NO_AUTH_INFO"
      BY <1>0, <2>1, <2>3 DEF AuthFsmTerm
    <3> QED BY <3>1 DEF Promise!Next, Promise!NoInfo
  <2> QED BY <1>4, <2>2, <2>3 DEF WaitAiNack
<1>5. CASE WaitAiResyncNack
  BY <1>5, <1>a DEF WaitAiResyncNack, Promise!Next
<1>6. ASSUME NEW len \in {"res", "sres", "other"}, NEW right \in BOOLEAN, NEW r99 \in BOOLEAN,
             WaitAuthResp(len, right, r99)
      PROVE  [Promise!Next]_(Promise!vars)
  <2>1. fsm.st \in {"WAIT_RESP", "WAIT_RESP_RESYNC"} /\ PhaseOf(fsm.st) = "challenged"
    BY <1>0, <1>6 DEF WaitAuthResp, Waiting
  <2>2. CASE AuthFsmTerm("PASSED")
    <3>1. PhaseOf(fsm'.st) = "idle" /\ result' = "PASSED"
      BY <1>0, <2>2 DEF AuthFsmTerm
    <3> QED BY <2>1, <3>1 DEF Promise!Next, Promise!Pass
  <2>3. CASE AuthFsmTerm("FAILURE")
    BY <1>a, <2>1, <2>3 DEF Promise!Next
  <2>4. CASE /\ fsm' = [fsm EXCEPT !.st = IF @ = "WAIT_RESP" THEN "WAIT_ID_IMSI" ELSE @]
             /\ UNCHANGED result
    <3>1. fsm'.st \in {"WAIT_ID_IMSI", "WAIT_RESP_RESYNC"}
      BY <2>1, <2>4 DEF IInv, TypeOK, Session
    <3> QED BY <1>0, <2>1, <2>4, <3>1 DEF Waiting
  <2> QED BY <1>6, <2>2, <2>3, <2>4 DEF WaitAuthResp
<1>7. ASSUME NEW auts \in BOOLEAN, WaitAuthFail(auts) PROVE [Promise!Next]_(Promise!vars)
  <2>1. CASE fsm' = [fsm EXCEPT !.st = "WAIT_SAI_RESYNC"] /\ UNCHANGED result
    <3>1. fsm'.st = "WAIT_SAI_RESYNC" /\ fsm.st \in {"WAIT_RESP", "WAIT_RESP_RESYNC"}
      BY <1>7, <2>1 DEF IInv, TypeOK, Session, WaitAuthFail
    <3> QED BY <1>0, <2>1, <3>1 DEF Waiting
  <2>2. CASE AuthFsmTerm("FAILURE")
    BY <1>7, <1>a, <2>2 DEF Promise!Next, WaitAuthFail
  <2> QED BY <1>7, <2>1, <2>2 DEF WaitAuthFail
<1>8. CASE Timeout
  BY <1>8, <1>a DEF Timeout, Promise!Next
<1>9. CASE ParentTerm
  BY <1>9, <1>a DEF ParentTerm, Promise!Next
<1>10. ASSUME NEW k \in Slots, AuthTryReuseTuple(k) PROVE UNCHANGED Promise!vars
  BY <1>10 DEF AuthTryReuseTuple
<1>11. CASE NewRecordByTmsi
  BY <1>0, <1>11 DEF NewRecordByTmsi, Promise!Next, Promise!Abandon
<1>12. CASE SetImsi
  BY <1>12 DEF SetImsi
<1>13. CASE UNCHANGED vars
  BY <1>13 DEF vars
<1> QED
  BY SMTT(30), <1>1, <1>2, <1>3, <1>4, <1>5, <1>6, <1>7, <1>8, <1>9, <1>10, <1>11, <1>12,
     <1>13 DEF Next, Step

\* The authentication FSM implements what AuthPromise promises its procedures.
THEOREM PromiseKept == Spec => Implements
<1>1. Init => Promise!Init
  BY DEF Init, Promise!Init, Idle, PhaseOf
<1> QED BY <1>1, AuthInvariant, StepPromised, PTL DEF Spec, Implements, Promise!Spec

-----------------------------------------------------------------------------
(* The ESMEs of Smpp.  A handler is a chain of operators on a record of the *)
(* state (SpW): each keeps it in order but for the uses that it hands on.   *)

USE ZenonT(10), SMTT(30)

\* A condition as a number of uses.
Num(b) == IF b THEN 1 ELSE 0

\* What a record of an ACL, an ESME, an MO SMS and the use counts may be.
SpAclT == [on : BOOLEAN, esme : SpEsmes \cup {SpNone, SpGone}, route : BOOLEAN]
SpEsmeR == [st : {"free", "open", "closed"}, bind : {{}} \cup SpFlags,
            acl : SpIds \cup {SpNone, SpGone}, use : Int, cmds : SUBSET SpCmds, wq : 0..SpMaxWq]
SpEsmeT == {q \in SpEsmeR : /\ q.st = "closed" => q.wq = 0
                            /\ q.st = "free" => q = SpNoEsme}
SpMoT == [ref : SpRefs \cup {SpNone}, st : {"none", "wait", "done", "lost"}]
SpUsesT == [smpp : Int, receiver : Int, cmd : Int]

\* What refers to ESME e, all forward mode SMS, and all commands that wait.
SpFwdOf(f, e) == {s \in SpFwds : f[s] = e}
SpHeld(f) == {s \in SpFwds : f[s] # SpNone}
SpPending(f) == {p \in SpEsmes \X SpCmds : p[2] \in f[p[1]].cmds}

SpRec(w) ==
  w = [acls |-> w.acls, routes |-> w.routes, def |-> w.def, esme |-> w.esme,
       fwd |-> w.fwd, mo |-> w.mo, uses |-> w.uses, srv |-> w.srv, ub |-> w.ub]

SpTyped(w) ==
  /\ w.acls \in [SpIds -> SpAclT]
  /\ w.def \in SpIds \cup {SpNone, SpGone}
  /\ w.esme \in [SpEsmes -> SpEsmeT]
  /\ w.fwd \in [SpFwds -> SpEsmes \cup {SpNone}]
  /\ w.mo \in [SpTids -> SpMoT]
  /\ w.uses \in SpUsesT
  /\ w.ub \in BOOLEAN

\* The use count of every ESME but x, which has one more.
SpCounted(esme, fwd, x) ==
  \A e \in SpEsmes :
    esme[e].use = Cardinality(SpFwdOf(fwd, e)) + Num(esme[e].st = "open") + Num(e = x)

\* An ACL refers to no ESME that is freed.
SpLinked(acls, esme) ==
  \A i \in SpIds : acls[i].esme \in SpEsmes => esme[acls[i].esme].st # "free"

\* The uses of the subscriber, r more than there should be for receivers.
SpUsed(uses, fwd, esme, r) ==
  /\ uses.smpp = 0
  /\ uses.receiver = Cardinality(SpHeld(fwd)) + r
  /\ uses.cmd = Cardinality(SpPending(esme))

\* A state in order but for one use of ESME x and r receivers that are about
\* to be given back.
SpGood(w, x, r) ==
  /\ SpRec(w) /\ SpTyped(w)
  /\ ~w.ub => /\ SpCounted(w.esme, w.fwd, x)
              /\ SpLinked(w.acls, w.esme)
              /\ SpUsed(w.uses, w.fwd, w.esme, r)

\* There are finitely many commands.
LEMMA SpCmdsFinite == IsFiniteSet(SpCmds)
<1> DEFINE f == [p \in SpTids \X SpRefs |-> [tid |-> p[1], ref |-> p[2]]]
<1>1. IsFiniteSet(SpTids \X SpRefs)
  BY SpAssumption, FS_Product
<1>2. f \in [SpTids \X SpRefs -> SpCmds]
  BY DEF SpCmds
<1>3. ASSUME NEW c \in SpCmds PROVE \E p \in SpTids \X SpRefs : f[p] = c
  <2>1. c.tid \in SpTids /\ c.ref \in SpRefs /\ c = [tid |-> c.tid, ref |-> c.ref]
    BY DEF SpCmds
  <2>2. <<c.tid, c.ref>> \in SpTids \X SpRefs /\ f[<<c.tid, c.ref>>] = c
    BY <2>1
  <2> QED BY <2>2
<1>4. f \in Surjection(SpTids \X SpRefs, SpCmds)
  BY <1>2, <1>3 DEF Surjection
<1> QED BY <1>1, <1>4, FS_Surjection

\* Changing the record of one ESME changes the commands that wait by its own.
LEMMA SpPendingCount ==
  ASSUME NEW f \in [SpEsmes -> SpEsmeT], NEW e \in SpEsmes, NEW q \in SpEsmeT
  PROVE  /\ Cardinality(SpPending(f)) \in Int
         /\ IsFiniteSet(f[e].cmds) /\ IsFiniteSet(q.cmds)
         /\ Cardinality(SpPending([f EXCEPT ![e] = q]))
              = Cardinality(SpPending(f)) - Cardinality(f[e].cmds) + Cardinality(q.cmds)
<1> DEFINE g == [f EXCEPT ![e] = q]
           A == SpPending(f)
           B == {e} \X f[e].cmds
           C == {e} \X q.cmds
<1>1. f[e].cmds \subseteq SpCmds /\ q.cmds \subseteq SpCmds
  BY DEF SpEsmeT, SpEsmeR
<1>2. IsFiniteSet(f[e].cmds) /\ IsFiniteSet(q.cmds)
  BY <1>1, SpCmdsFinite, FS_Subset
<1>3. IsFiniteSet({e}) /\ Cardinality({e}) = 1
  BY FS_Singleton
<1>4. /\ IsFiniteSet(B) /\ Cardinality(B) = 1 * Cardinality(f[e].cmds)
      /\ IsFiniteSet(C) /\ Cardinality(C) = 1 * Cardinality(q.cmds)
  BY ZenonT(30), <1>2, <1>3, FS_Product
<1>5. Cardinality(f[e].cmds) \in Nat /\ Cardinality(q.cmds) \in Nat
  BY <1>2, FS_CardinalityType
<1>6. A \subseteq SpEsmes \X SpCmds /\ IsFiniteSet(SpEsmes \X SpCmds)
  BY SpAssumption, SpCmdsFinite, FS_Product DEF SpPending
<1>7. IsFiniteSet(A) /\ Cardinality(A) \in Nat /\ Cardinality(A) \in Int
  <2>1. IsFiniteSet(A)
    BY <1>6, FS_Subset
  <2>2. Cardinality(A) \in Nat
    BY <2>1, FS_CardinalityType
  <2> QED BY <2>1, <2>2, SMTT(30)
<1>8. A \cap B = B
  BY <1>1 DEF SpPending
<1>9. IsFiniteSet(A \ B) /\ Cardinality(A \ B) = Cardinality(A) - Cardinality(B)
  <2> HIDE DEF A, B
  <2> QED BY ZenonT(30), <1>7, <1>8, FS_Difference
<1>10. SpPending(g) = (A \ B) \cup C
  <2>1. ASSUME NEW p \in SpEsmes \X SpCmds PROVE p \in SpPending(g) <=> p \in (A \ B) \cup C
    <3>1. p = <<p[1], p[2]>> /\ p[1] \in SpEsmes /\ p[2] \in SpCmds
      OBVIOUS
    <3>2. CASE p[1] = e
      BY <3>1, <3>2 DEF SpPending
    <3>3. CASE p[1] # e
      BY <3>1, <3>3 DEF SpPending
    <3> QED BY <3>2, <3>3
  <2>2. SpPending(g) \subseteq SpEsmes \X SpCmds /\ (A \ B) \cup C \subseteq SpEsmes \X SpCmds
    BY <1>1, <1>6 DEF SpPending
  <2> HIDE DEF A, B, C, g
  <2> QED BY <2>1, <2>2
<1>11. (A \ B) \cap C = {}
  BY DEF SpPending
<1> HIDE DEF A, B, C, g
<1>12. Cardinality((A \ B) \cup C) = Cardinality(A \ B) + Cardinality(C) - Cardinality((A \ B) \cap C)
  BY ZenonT(30), <1>4, <1>9, FS_Union
<1>13. Cardinality((A \ B) \cup C) = Cardinality(A) - Cardinality(f[e].cmds) + Cardinality(q.cmds)
  <2>1. Cardinality((A \ B) \cap C) = 0
    BY <1>11, FS_EmptySet
  <2> QED BY <1>4, <1>5, <1>7, <1>9, <1>12, <2>1, SMTT(30)
<1>14. Cardinality(SpPending(g)) = Cardinality(A) - Cardinality(f[e].cmds) + Cardinality(q.cmds)
  BY <1>10, <1>13
<1>15. g = [f EXCEPT ![e] = q] /\ A = SpPending(f)
  BY DEF g, A
<1> QED BY <1>2, <1>7, <1>14, <1>15

\* A forward mode SMS begins or ceases to refer to an ESME.
LEMMA SpFwdCount ==
  ASSUME NEW f \in [SpFwds -> SpEsmes \cup {SpNone}], NEW s \in SpFwds, NEW e \in SpEsmes
  PROVE  /\ \A d \in SpEsmes : Cardinality(SpFwdOf(f, d)) \in Nat
         /\ Cardinality(SpHeld(f)) \in Nat
         /\ f[s] = e =>
              LET g == [f EXCEPT ![s] = SpNone]
              IN  /\ \A d \in SpEsmes : Cardinality(SpFwdOf(f, d))
                                          = Cardinality(SpFwdOf(g, d)) + Num(d = e)
                  /\ Cardinality(SpHeld(f)) = Cardinality(SpHeld(g)) + 1
         /\ f[s] = SpNone =>
              LET g == [f EXCEPT ![s] = e]
              IN  /\ \A d \in SpEsmes : Cardinality(SpFwdOf(g, d))
                                          = Cardinality(SpFwdOf(f, d)) + Num(d = e)
                  /\ Cardinality(SpHeld(g)) = Cardinality(SpHeld(f)) + 1
<1>0. SpNone \notin SpEsmes /\ IsFiniteSet(SpFwds)
  BY SpAssumption
<1>1. ASSUME NEW S \in SUBSET SpFwds
      PROVE  /\ IsFiniteSet(S) /\ Cardinality(S) \in Nat
             /\ s \in S => Cardinality(S) = Cardinality(S \ {s}) + 1
             /\ s \notin S => Cardinality(S \cup {s}) = Cardinality(S) + 1
  <2>1. IsFiniteSet(S)
    BY <1>0, FS_Subset
  <2>2. Cardinality(S) \in Nat
    BY <2>1, FS_CardinalityType
  <2>3. s \in S => Cardinality(S \ {s}) = Cardinality(S) - 1
    BY <2>1, FS_RemoveElement
  <2>4. s \notin S => Cardinality(S \cup {s}) = Cardinality(S) + 1
    BY <2>1, FS_AddElement
  <2>5. s \in S => Cardinality(S) = Cardinality(S \ {s}) + 1
    BY <2>2, <2>3
  <2> QED BY <2>1, <2>2, <2>4, <2>5
<1>2. \A d \in SpEsmes : SpFwdOf(f, d) \in SUBSET SpFwds
  BY DEF SpFwdOf
<1>3. SpHeld(f) \in SUBSET SpFwds
  BY DEF SpHeld
<1>4. ASSUME f[s] = e, NEW g, g = [f EXCEPT ![s] = SpNone]
      PROVE  /\ \A d \in SpEsmes : Cardinality(SpFwdOf(f, d))
                                     = Cardinality(SpFwdOf(g, d)) + Num(d = e)
             /\ Cardinality(SpHeld(f)) = Cardinality(SpHeld(g)) + 1
  <2>1. /\ s \in SpFwdOf(f, e) /\ SpFwdOf(g, e) = SpFwdOf(f, e) \ {s}
        /\ s \in SpHeld(f) /\ SpHeld(g) = SpHeld(f) \ {s}
    BY <1>0, <1>4 DEF SpFwdOf, SpHeld
  <2>2. \A d \in SpEsmes : d # e => SpFwdOf(g, d) = SpFwdOf(f, d)
    BY <1>0, <1>4 DEF SpFwdOf
  <2>3. Cardinality(SpFwdOf(f, e)) = Cardinality(SpFwdOf(g, e)) + 1
    BY <1>1, <1>2, <2>1
  <2>4. Cardinality(SpHeld(f)) = Cardinality(SpHeld(g)) + 1
    BY <1>1, <1>3, <2>1
  <2>5. ASSUME NEW d \in SpEsmes
        PROVE  Cardinality(SpFwdOf(f, d)) = Cardinality(SpFwdOf(g, d)) + Num(d = e)
    <3>1. Cardinality(SpFwdOf(f, d)) \in Nat
      BY <1>1, <1>2
    <3>2. CASE d = e
      BY <2>3, <3>2 DEF Num
    <3>3. CASE d # e
      BY <2>2, <3>1, <3>3 DEF Num
    <3> QED BY <3>2, <3>3
  <2> QED BY <2>4, <2>5
<1>5. ASSUME f[s] = SpNone, NEW g, g = [f EXCEPT ![s] = e]
      PROVE  /\ \A d \in SpEsmes : Cardinality(SpFwdOf(g, d))
                                     = Cardinality(SpFwdOf(f, d)) + Num(d = e)
             /\ Cardinality(SpHeld(g)) = Cardinality(SpHeld(f)) + 1
  <2>1. /\ s \notin SpFwdOf(f, e) /\ SpFwdOf(g, e) = SpFwdOf(f, e) \cup {s}
        /\ s \notin SpHeld(f) /\ SpHeld(g) = SpHeld(f) \cup {s}
    BY <1>0, <1>5 DEF SpFwdOf, SpHeld
  <2>2. \A d \in SpEsmes : d # e => SpFwdOf(g, d) = SpFwdOf(f, d)
    BY <1>0, <1>5 DEF SpFwdOf
  <2>3. Cardinality(SpFwdOf(g, e)) = Cardinality(SpFwdOf(f, e)) + 1
    BY <1>1, <1>2, <2>1
  <2>4. Cardinality(SpHeld(g)) = Cardinality(SpHeld(f)) + 1
    BY <1>1, <1>3, <2>1
  <2>5. ASSUME NEW d \in SpEsmes
        PROVE  Cardinality(SpFwdOf(g, d)) = Cardinality(SpFwdOf(f, d)) + Num(d = e)
    <3>1. Cardinality(SpFwdOf(f, d)) \in Nat
      BY <1>1, <1>2
    <3>2. CASE d = e
      BY <2>3, <3>2 DEF Num
    <3>3. CASE d # e
      BY <2>2, <3>1, <3>3 DEF Num
    <3> QED BY <3>2, <3>3
  <2> QED BY <2>4, <2>5
<1> QED BY <1>1, <1>2, <1>3, <1>4, <1>5

\* The state with another record for one ESME.
SpSet(w, e, q) == [w EXCEPT !.esme = [w.esme EXCEPT ![e] = q]]

\* v is w with the record q for the ESME e.
SpSetTo(w, e, q, v) ==
  /\ SpRec(v) /\ v.esme = [w.esme EXCEPT ![e] = q]
  /\ v.acls = w.acls /\ v.routes = w.routes /\ v.def = w.def /\ v.fwd = w.fwd
  /\ v.mo = w.mo /\ v.uses = w.uses /\ v.srv = w.srv /\ v.ub = w.ub

\* The other fields of the state stay as they were.
LEMMA SpSetIs ==
  ASSUME NEW w, SpRec(w), NEW e, NEW q, NEW v, v = SpSet(w, e, q)
  PROVE  SpSetTo(w, e, q, v)
<1>1. SpRec(v)
  BY ZenonT(60) DEF SpRec, SpSet
<1>2. /\ v.esme = [w.esme EXCEPT ![e] = q]
      /\ v.acls = w.acls /\ v.routes = w.routes /\ v.def = w.def /\ v.fwd = w.fwd
      /\ v.mo = w.mo /\ v.uses = w.uses /\ v.srv = w.srv /\ v.ub = w.ub
  BY SMTT(30) DEF SpRec, SpSet
<1> QED BY <1>1, <1>2 DEF SpSetTo

\* An ESME may be replaced by another record with the same commands, whose use
\* count is right.
LEMMA SpSetKeeps ==
  ASSUME NEW w, NEW x, NEW y, NEW r, SpGood(w, x, r), NEW e \in SpEsmes, NEW q \in SpEsmeT,
         x \in {SpNone, e}, y \in {SpNone, e},
         ~w.ub => /\ q.use = Cardinality(SpFwdOf(w.fwd, e)) + Num(q.st = "open") + Num(e = y)
                  /\ q.cmds = w.esme[e].cmds
                  /\ q.st # "free"
  PROVE  SpGood(SpSet(w, e, q), y, r)
<1> DEFINE v == SpSet(w, e, q)
<1>0. SpRec(w) /\ SpTyped(w)
  BY DEF SpGood
<1>1. /\ SpRec(v) /\ v.esme = [w.esme EXCEPT ![e] = q]
      /\ v.acls = w.acls /\ v.routes = w.routes /\ v.def = w.def /\ v.fwd = w.fwd
      /\ v.mo = w.mo /\ v.uses = w.uses /\ v.srv = w.srv /\ v.ub = w.ub
  <2>1. v = SpSet(w, e, q)
    OBVIOUS
  <2> HIDE DEF v
  <2>2. SpSetTo(w, e, q, v)
    BY ZenonT(30), <1>0, <2>1, SpSetIs
  <2> QED BY ZenonT(30), <2>2 DEF SpSetTo
<1> HIDE DEF v
<1>2. w.esme \in [SpEsmes -> SpEsmeT]
  BY <1>0 DEF SpTyped
<1>3. v.esme \in [SpEsmes -> SpEsmeT] /\ v.esme[e] = q /\ \A d \in SpEsmes : d # e => v.esme[d] = w.esme[d]
  BY <1>1, <1>2
<1>4. SpTyped(v)
  BY <1>0, <1>1, <1>3 DEF SpTyped
<1>5. ASSUME ~w.ub
      PROVE  /\ SpCounted(v.esme, v.fwd, y)
             /\ SpLinked(v.acls, v.esme)
             /\ SpUsed(v.uses, v.fwd, v.esme, r)
  <2>1. /\ SpCounted(w.esme, w.fwd, x) /\ SpLinked(w.acls, w.esme)
        /\ SpUsed(w.uses, w.fwd, w.esme, r)
    BY <1>5 DEF SpGood
  <2>2. ASSUME NEW d \in SpEsmes
        PROVE  v.esme[d].use = Cardinality(SpFwdOf(v.fwd, d)) + Num(v.esme[d].st = "open") + Num(d = y)
    <3>1. CASE d = e
      BY <1>1, <1>3, <1>5, <3>1
    <3>2. CASE d # e
      <4>1. d # x /\ d # y
        BY <3>2, SpAssumption
      <4>2. (d = x) = (d = y)
        BY <4>1
      <4>3. Num(d = x) = Num(d = y)
        BY <4>1 DEF Num
      <4> QED BY SMTT(30), <1>1, <1>3, <2>1, <3>2, <4>3 DEF SpCounted
    <3> QED BY <3>1, <3>2
  <2>3. SpLinked(v.acls, v.esme)
    <3>1. ASSUME NEW d \in SpEsmes, w.esme[d].st # "free"
          PROVE  v.esme[d].st # "free"
      <4>1. CASE d = e
        BY ZenonT(30), <1>3, <1>5, <4>1
      <4>2. CASE d # e
        BY ZenonT(30), <1>3, <3>1, <4>2
      <4> QED BY ZenonT(30), <4>1, <4>2
    <3>2. v.acls = w.acls
      BY ZenonT(30), <1>1
    <3> QED BY ZenonT(30), <2>1, <3>1, <3>2 DEF SpLinked
  <2>4. SpPending(v.esme) = SpPending(w.esme)
    BY <1>3, <1>5 DEF SpPending
  <2> QED BY <1>1, <2>1, <2>2, <2>3, <2>4 DEF SpCounted, SpUsed
<1> QED BY <1>1, <1>4, <1>5 DEF SpGood, v

\* One field of the record of an ESME at a time.
LEMMA SpEsmeField ==
  ASSUME NEW q \in SpEsmeT, q.st # "free"
  PROVE  /\ \A n \in Int : LET p == [q EXCEPT !.use = n]
                           IN  p \in SpEsmeT /\ p.use = n /\ p.st = q.st /\ p.cmds = q.cmds /\ p.acl = q.acl
         /\ \A n \in 0..SpMaxWq : q.st = "open" =>
              LET p == [q EXCEPT !.wq = n]
              IN  p \in SpEsmeT /\ p.use = q.use /\ p.st = q.st /\ p.cmds = q.cmds
         /\ \A b \in {{}} \cup SpFlags :
              LET p == [q EXCEPT !.bind = b]
              IN  p \in SpEsmeT /\ p.use = q.use /\ p.st = q.st /\ p.cmds = q.cmds
         /\ \A i \in SpIds \cup {SpNone, SpGone} :
              LET p == [q EXCEPT !.acl = i]
              IN  p \in SpEsmeT /\ p.use = q.use /\ p.st = q.st /\ p.cmds = q.cmds
         /\ \A C \in SUBSET SpCmds :
              LET p == [q EXCEPT !.cmds = C]
              IN  p \in SpEsmeT /\ p.use = q.use /\ p.st = q.st /\ p.cmds = C /\ p.acl = q.acl
<1>1. q \in SpEsmeR /\ (q.st = "closed" => q.wq = 0)
  BY DEF SpEsmeT
<1>2. ASSUME NEW n \in Int
      PROVE  LET p == [q EXCEPT !.use = n]
             IN  p \in SpEsmeT /\ p.use = n /\ p.st = q.st /\ p.cmds = q.cmds /\ p.acl = q.acl
  BY <1>1, SMTT(30) DEF SpEsmeT, SpEsmeR
<1>3. ASSUME NEW n \in 0..SpMaxWq, q.st = "open"
      PROVE  LET p == [q EXCEPT !.wq = n]
             IN  p \in SpEsmeT /\ p.use = q.use /\ p.st = q.st /\ p.cmds = q.cmds
  BY <1>1, <1>3, SMTT(30) DEF SpEsmeT, SpEsmeR
<1>4. ASSUME NEW b \in {{}} \cup SpFlags
      PROVE  LET p == [q EXCEPT !.bind = b]
             IN  p \in SpEsmeT /\ p.use = q.use /\ p.st = q.st /\ p.cmds = q.cmds
  BY <1>1, SMTT(30) DEF SpEsmeT, SpEsmeR
<1>5. ASSUME NEW i \in SpIds \cup {SpNone, SpGone}
      PROVE  LET p == [q EXCEPT !.acl = i]
             IN  p \in SpEsmeT /\ p.use = q.use /\ p.st = q.st /\ p.cmds = q.cmds
  BY <1>1, SMTT(30) DEF SpEsmeT, SpEsmeR
<1>6. ASSUME NEW C \in SUBSET SpCmds
      PROVE  LET p == [q EXCEPT !.cmds = C]
             IN  p \in SpEsmeT /\ p.use = q.use /\ p.st = q.st /\ p.cmds = C /\ p.acl = q.acl
  BY SMTT(30), <1>1 DEF SpEsmeT, SpEsmeR
<1> QED BY <1>2, <1>3, <1>4, <1>5, <1>6

\* The record of a free ESME: unused, bound to nothing, waiting for nothing.
LEMMA SpNoEsmeTyped ==
  /\ SpNoEsme \in SpEsmeT /\ SpNoEsme.use = 0 /\ SpNoEsme.cmds = {} /\ SpNoEsme.st = "free"
  /\ SpNoEsme.acl = SpNone /\ SpNoEsme.wq = 0
  BY SpAssumption, SMTT(30) DEF SpNoEsme, SpEsmeT, SpEsmeR

\* smpp_cmd_flush_pending(), field by field.
LEMMA SpFlushIs ==
  ASSUME NEW w, SpRec(w), SpTyped(w), NEW e \in SpEsmes
  PROVE  LET v == SpFlushPending(w, e)
         IN  /\ SpRec(v) /\ v.esme = [w.esme EXCEPT ![e] = [w.esme[e] EXCEPT !.cmds = {}]]
             /\ v.acls = w.acls /\ v.routes = w.routes /\ v.def = w.def /\ v.fwd = w.fwd
             /\ v.mo \in [SpTids -> SpMoT] /\ v.srv = w.srv /\ v.ub = w.ub
             /\ v.uses = [w.uses EXCEPT !.cmd = w.uses.cmd - Cardinality(w.esme[e].cmds)]
<1> DEFINE v == SpFlushPending(w, e)
           m == [t \in SpTids |->
                   IF w.mo[t].st = "wait" /\ [tid |-> t, ref |-> w.mo[t].ref] \in w.esme[e].cmds
                   THEN [w.mo[t] EXCEPT !.st = "lost"] ELSE w.mo[t]]
<1>1. m \in [SpTids -> SpMoT]
  <2>1. \A t \in SpTids : w.mo[t] \in SpMoT
    BY DEF SpTyped
  <2>2. \A t \in SpTids : [w.mo[t] EXCEPT !.st = "lost"] \in SpMoT
    BY <2>1 DEF SpMoT
  <2> QED BY <2>1, <2>2
<1>2. /\ SpRec(v) /\ v.esme = [w.esme EXCEPT ![e] = [w.esme[e] EXCEPT !.cmds = {}]]
      /\ v.acls = w.acls /\ v.routes = w.routes /\ v.def = w.def /\ v.fwd = w.fwd
      /\ v.mo = m /\ v.srv = w.srv /\ v.ub = w.ub
      /\ v.uses = [w.uses EXCEPT !.cmd = w.uses.cmd - Cardinality(w.esme[e].cmds)]
  <2>1. v = [w EXCEPT !.uses.cmd = @ - Cardinality(w.esme[e].cmds),
                      !.esme[e].cmds = {}, !.mo = m]
    BY DEF SpFlushPending
  <2> HIDE DEF v, m
  <2>2. SpRec(v)
    BY <2>1, ZenonT(60) DEF SpRec
  <2>3. /\ v.esme = [w.esme EXCEPT ![e] = [w.esme[e] EXCEPT !.cmds = {}]]
        /\ v.uses = [w.uses EXCEPT !.cmd = w.uses.cmd - Cardinality(w.esme[e].cmds)]
    BY <2>1, SMTT(30) DEF SpRec
  <2>4. /\ v.acls = w.acls /\ v.routes = w.routes /\ v.def = w.def /\ v.fwd = w.fwd
        /\ v.mo = m /\ v.srv = w.srv /\ v.ub = w.ub
    BY <2>1, SMTT(30) DEF SpRec
  <2> QED BY <2>2, <2>3, <2>4
<1> HIDE DEF v, m
<1> QED BY <1>1, <1>2 DEF v

\* A pointer to what is gone was followed: the state keeps its types.
LEMMA SpUbGood ==
  ASSUME NEW u, SpRec(u), SpTyped(u), NEW x, NEW r
  PROVE  SpGood(SpUb(u), x, r)
<1>1. PICK v : v = SpUb(u)
  OBVIOUS
<1>2. SpRec(v)
  BY <1>1, ZenonT(60) DEF SpRec, SpUb
<1>3. v.ub = TRUE /\ v.acls = u.acls /\ v.def = u.def /\ v.esme = u.esme
      /\ v.fwd = u.fwd /\ v.mo = u.mo /\ v.uses = u.uses
  BY <1>1, SMTT(30) DEF SpRec, SpUb
<1>4. SpTyped(v)
  BY <1>3 DEF SpTyped
<1> QED BY <1>1, <1>2, <1>3, <1>4 DEF SpGood

\* esme_destroy() of an ESME nothing refers to.
LEMMA SpDestroyKeeps ==
  ASSUME NEW w, NEW r, SpGood(w, SpNone, r), NEW e \in SpEsmes, w.esme[e].st # "free",
         ~w.ub => w.esme[e].st # "open" /\ Cardinality(SpFwdOf(w.fwd, e)) = 0
  PROVE  SpGood(SpDestroy(w, e), SpNone, r)
<1> DEFINE u == SpFlushPending(w, e)
<1>0. SpRec(w) /\ SpTyped(w)
  BY DEF SpGood
<1>1. /\ SpRec(u) /\ u.esme = [w.esme EXCEPT ![e] = [w.esme[e] EXCEPT !.cmds = {}]]
      /\ u.acls = w.acls /\ u.routes = w.routes /\ u.def = w.def /\ u.fwd = w.fwd
      /\ u.mo \in [SpTids -> SpMoT] /\ u.srv = w.srv /\ u.ub = w.ub
      /\ u.uses = [w.uses EXCEPT !.cmd = w.uses.cmd - Cardinality(w.esme[e].cmds)]
  BY <1>0, SpFlushIs
<1>2. SpDestroy(w, e) =
        IF w.esme[e].acl = SpGone THEN SpUb(u)
        ELSE [u EXCEPT !.esme[e] = SpNoEsme,
                !.acls = [i \in SpIds |->
                    IF u.acls[i].esme # e THEN u.acls[i]
                    ELSE [u.acls[i] EXCEPT !.esme = IF i = w.esme[e].acl THEN SpNone ELSE SpGone]]]
  BY DEF SpDestroy
<1> HIDE DEF u
<1>3. w.esme \in [SpEsmes -> SpEsmeT] /\ w.esme[e] \in SpEsmeT /\ w.uses \in SpUsesT
      /\ w.acls \in [SpIds -> SpAclT]
  BY <1>0 DEF SpTyped
<1>4. [w.esme[e] EXCEPT !.cmds = {}] \in SpEsmeT
  BY <1>3, SpEsmeField
<1>5. u.esme \in [SpEsmes -> SpEsmeT]
  BY ZenonT(30), <1>1, <1>3, <1>4
<1>6. Cardinality(w.esme[e].cmds) \in Int
  <2>1. IsFiniteSet(w.esme[e].cmds)
    BY <1>3, SpPendingCount
  <2>2. Cardinality(w.esme[e].cmds) \in Nat
    BY <2>1, FS_CardinalityType
  <2> QED BY <2>2, SMTT(30)
<1>7. u.uses \in SpUsesT /\ u.uses.smpp = w.uses.smpp /\ u.uses.receiver = w.uses.receiver
      /\ u.uses.cmd = w.uses.cmd - Cardinality(w.esme[e].cmds)
  BY <1>1, <1>3, <1>6, SMTT(30) DEF SpUsesT
<1>8. SpTyped(u)
  BY <1>0, <1>1, <1>5, <1>7 DEF SpTyped
<1>9. CASE w.esme[e].acl = SpGone
  BY SMTT(30), <1>1, <1>2, <1>8, <1>9, SpUbGood
<1>10. CASE w.esme[e].acl # SpGone
  <2> DEFINE a == [i \in SpIds |->
                    IF u.acls[i].esme # e THEN u.acls[i]
                    ELSE [u.acls[i] EXCEPT !.esme = IF i = w.esme[e].acl THEN SpNone ELSE SpGone]]
             v == SpDestroy(w, e)
  <2>1. v = [u EXCEPT !.esme[e] = SpNoEsme, !.acls = a]
    BY <1>2, <1>10
  <2>2. ASSUME NEW i \in SpIds
        PROVE  a[i] \in SpAclT /\ a[i].esme \in {w.acls[i].esme, SpNone, SpGone} /\ a[i].esme # e
    <3>1. w.acls[i] \in SpAclT /\ u.acls[i] = w.acls[i] /\ SpNone # e /\ SpGone # e
      BY <1>1, <1>3, SpAssumption
    <3> DEFINE b == u.acls[i]
    <3>2. b \in SpAclT /\ b = w.acls[i]
      BY <3>1
    <3>3. a[i] = IF b.esme # e THEN b
                 ELSE [b EXCEPT !.esme = IF i = w.esme[e].acl THEN SpNone ELSE SpGone]
      OBVIOUS
    <3> HIDE DEF a, b
    <3>4. \A n \in {SpNone, SpGone} : [b EXCEPT !.esme = n] \in SpAclT /\ [b EXCEPT !.esme = n].esme = n
      BY <3>2, SMTT(30) DEF SpAclT
    <3>5. (b.esme # e /\ a[i] = b) \/ \E n \in {SpNone, SpGone} : a[i] = [b EXCEPT !.esme = n]
      BY <3>3
    <3> QED BY <3>1, <3>2, <3>4, <3>5
  <2>3. a \in [SpIds -> SpAclT]
    BY <2>2
  <2> HIDE DEF a, v
  <2>4. SpRec(v) /\ v.esme = [u.esme EXCEPT ![e] = SpNoEsme] /\ v.acls = a /\ v.def = u.def
        /\ v.fwd = u.fwd /\ v.mo = u.mo /\ v.uses = u.uses /\ v.ub = u.ub
    <3>1. SpRec(u)
      BY <1>1
    <3>2. SpRec(v)
      BY <2>1, <3>1, ZenonT(60) DEF SpRec
    <3>3. v.esme = [u.esme EXCEPT ![e] = SpNoEsme] /\ v.acls = a /\ v.def = u.def
          /\ v.fwd = u.fwd /\ v.mo = u.mo /\ v.uses = u.uses /\ v.ub = u.ub
      BY <2>1, <3>1, SMTT(30) DEF SpRec
    <3> QED BY <3>2, <3>3
  <2>5. v.esme = [w.esme EXCEPT ![e] = SpNoEsme]
    BY <1>1, <1>3, <2>4
  <2>6. /\ v.esme \in [SpEsmes -> SpEsmeT] /\ v.esme[e] = SpNoEsme
        /\ \A d \in SpEsmes : d # e => v.esme[d] = w.esme[d]
    BY <1>3, <2>5, SpNoEsmeTyped
  <2>7. SpTyped(v)
    BY <1>8, <2>3, <2>4, <2>6 DEF SpTyped
  <2>8. ASSUME ~v.ub
        PROVE  /\ SpCounted(v.esme, v.fwd, SpNone)
               /\ SpLinked(v.acls, v.esme)
               /\ SpUsed(v.uses, v.fwd, v.esme, r)
    <3>1. /\ SpCounted(w.esme, w.fwd, SpNone) /\ SpLinked(w.acls, w.esme)
          /\ SpUsed(w.uses, w.fwd, w.esme, r) /\ Cardinality(SpFwdOf(w.fwd, e)) = 0
      BY <1>1, <2>4, <2>8 DEF SpGood
    <3>2. ASSUME NEW d \in SpEsmes
          PROVE  v.esme[d].use = Cardinality(SpFwdOf(v.fwd, d)) + Num(v.esme[d].st = "open") + Num(d = SpNone)
      <4>1. CASE d = e
        <5>1. Num(v.esme[d].st = "open") = 0 /\ Num(d = SpNone) = 0
          BY <2>6, <4>1, SpNoEsmeTyped, SpAssumption DEF Num
        <5>2. v.esme[d].use = 0 /\ Cardinality(SpFwdOf(v.fwd, d)) = 0
          BY <1>1, <2>4, <2>6, <3>1, <4>1, SpNoEsmeTyped
        <5> QED BY <5>1, <5>2, SMTT(30)
      <4>2. CASE d # e
        BY SMTT(30), <1>1, <2>4, <2>6, <3>1, <4>2 DEF SpCounted
      <4> QED BY ZenonT(30), <4>1, <4>2
    <3>3. ASSUME NEW i \in SpIds, v.acls[i].esme \in SpEsmes
          PROVE  v.esme[v.acls[i].esme].st # "free"
      <4>1. v.acls[i].esme = w.acls[i].esme /\ v.acls[i].esme # e
        BY <2>2, <2>4, <3>3, SpAssumption
      <4> QED BY <2>6, <3>1, <3>3, <4>1 DEF SpLinked
    <3>4. Cardinality(SpPending(v.esme)) = Cardinality(SpPending(w.esme)) - Cardinality(w.esme[e].cmds)
      <4>1. /\ Cardinality(SpPending(w.esme)) \in Int
            /\ Cardinality(SpPending(v.esme))
                = Cardinality(SpPending(w.esme)) - Cardinality(w.esme[e].cmds) + Cardinality(SpNoEsme.cmds)
        <5>1. SpNoEsme \in SpEsmeT
          BY SpNoEsmeTyped
        <5> QED BY SMTT(30), <1>3, <2>5, <5>1, SpPendingCount
      <4>2. Cardinality(SpNoEsme.cmds) = 0
        BY SpNoEsmeTyped, FS_EmptySet
      <4> QED BY <1>6, <4>1, <4>2, SMTT(30)
    <3>5. SpUsed(v.uses, v.fwd, v.esme, r)
      BY ZenonT(30), <1>1, <1>7, <2>4, <3>1, <3>4 DEF SpUsed
    <3> QED BY <3>2, <3>3, <3>5 DEF SpCounted, SpLinked
  <2>9. SpGood(v, SpNone, r)
    BY <2>4, <2>7, <2>8 DEF SpGood
  <2> QED BY <2>9 DEF v
<1> QED BY <1>9, <1>10

\* smpp_esme_put() of an ESME that has one use too many.
LEMMA SpPutKeeps ==
  ASSUME NEW w, NEW r, NEW e \in SpEsmes, SpGood(w, e, r), w.esme[e].st # "free"
  PROVE  SpGood(SpPut(w, e), SpNone, r)
<1> DEFINE q == [w.esme[e] EXCEPT !.use = w.esme[e].use - 1]
           v == SpSet(w, e, q)
<1>0. SpRec(w) /\ SpTyped(w)
  BY DEF SpGood
<1>1. w.esme[e] \in SpEsmeT /\ w.esme \in [SpEsmes -> SpEsmeT]
      /\ w.fwd \in [SpFwds -> SpEsmes \cup {SpNone}]
  BY <1>0 DEF SpTyped
<1>2. w.esme[e].use \in Int
  BY <1>1 DEF SpEsmeT, SpEsmeR
<1>3. q \in SpEsmeT /\ q.use = w.esme[e].use - 1 /\ q.st = w.esme[e].st /\ q.cmds = w.esme[e].cmds
  <2>1. w.esme[e].use - 1 \in Int
    BY <1>2, SMTT(30)
  <2> QED BY ZenonT(30), <1>1, <2>1, SpEsmeField
<1>4. SpPut(w, e) = IF v.esme[e].use <= 0 THEN SpDestroy(v, e) ELSE v
  <2>1. v = [w EXCEPT !.esme[e].use = @ - 1]
    BY SMTT(30) DEF SpSet
  <2> HIDE DEF v
  <2> QED BY <2>1 DEF SpPut
<1> HIDE DEF q
<1>5. SpRec(v) /\ v.esme = [w.esme EXCEPT ![e] = q] /\ v.fwd = w.fwd /\ v.ub = w.ub
  <2>1. v = SpSet(w, e, q)
    OBVIOUS
  <2> HIDE DEF v
  <2>2. SpSetTo(w, e, q, v)
    BY ZenonT(30), <1>0, <2>1, SpSetIs
  <2> QED BY ZenonT(30), <2>2 DEF SpSetTo
<1>6. v.esme[e] = q
  BY <1>1, <1>5
<1>7. ~w.ub => /\ Cardinality(SpFwdOf(w.fwd, e)) \in Nat
               /\ q.use = Cardinality(SpFwdOf(w.fwd, e)) + Num(q.st = "open")
  <2>1. SUFFICES ASSUME ~w.ub
                 PROVE  /\ Cardinality(SpFwdOf(w.fwd, e)) \in Nat
                        /\ q.use = Cardinality(SpFwdOf(w.fwd, e)) + Num(q.st = "open")
    OBVIOUS
  <2>2. Cardinality(SpFwdOf(w.fwd, e)) \in Nat
    <3>1. SpFwdOf(w.fwd, e) \in SUBSET SpFwds
      BY DEF SpFwdOf
    <3>2. IsFiniteSet(SpFwdOf(w.fwd, e))
      BY <3>1, SpAssumption, FS_Subset
    <3> QED BY <3>2, FS_CardinalityType
  <2>3. w.esme[e].use = Cardinality(SpFwdOf(w.fwd, e)) + Num(w.esme[e].st = "open") + Num(e = e)
    BY <2>1 DEF SpGood, SpCounted
  <2>4. Num(e = e) = 1 /\ Num(w.esme[e].st = "open") \in Nat
    BY DEF Num
  <2>5. w.esme[e].use - 1 = Cardinality(SpFwdOf(w.fwd, e)) + Num(w.esme[e].st = "open")
    BY <2>2, <2>3, <2>4, SMTT(30)
  <2> QED BY <1>3, <2>2, <2>5
<1>8. Num(e = SpNone) = 0
  BY SpAssumption DEF Num
<1>9. ~w.ub => q.use = Cardinality(SpFwdOf(w.fwd, e)) + Num(q.st = "open") + Num(e = SpNone)
  <2>1. Num(q.st = "open") \in Nat
    BY DEF Num
  <2> QED BY <1>7, <1>8, <2>1, SMTT(30)
<1>10. SpGood(v, SpNone, r)
  <2>1. ~w.ub => /\ q.use = Cardinality(SpFwdOf(w.fwd, e)) + Num(q.st = "open") + Num(e = SpNone)
                 /\ q.cmds = w.esme[e].cmds
                 /\ q.st # "free"
    BY <1>3, <1>9
  <2>2. e \in {SpNone, e} /\ SpNone \in {SpNone, e} /\ q \in SpEsmeT
    BY <1>3
  <2> QED BY <2>1, <2>2, SpSetKeeps
<1>11. CASE v.esme[e].use <= 0
  <2>1. ~v.ub => v.esme[e].st # "open" /\ Cardinality(SpFwdOf(v.fwd, e)) = 0
    <3>1. SUFFICES ASSUME ~w.ub PROVE q.st # "open" /\ Cardinality(SpFwdOf(w.fwd, e)) = 0
      BY <1>5, <1>6
    <3>2. q.st = "open" => Num(q.st = "open") = 1
      BY DEF Num
    <3>3. q.st # "open" => Num(q.st = "open") = 0
      BY DEF Num
    <3>4. Num(q.st = "open") \in {0, 1}
      BY DEF Num
    <3>5. q.use <= 0
      BY <1>6, <1>11
    <3>6. Cardinality(SpFwdOf(w.fwd, e)) = 0 /\ Num(q.st = "open") = 0
      BY <1>7, <3>1, <3>4, <3>5, SMTT(30)
    <3> QED BY SMTT(30), <3>2, <3>6
  <2> HIDE DEF v
  <2>2. v.esme[e].st # "free"
    BY <1>3, <1>6
  <2> QED BY <1>4, <1>10, <1>11, <2>1, <2>2, SpDestroyKeeps
<1> HIDE DEF v
<1> QED BY <1>4, <1>10, <1>11

\* pack_and_send()
LEMMA SpPackAndSendKeeps ==
  ASSUME NEW w, NEW x \in SpEsmes \cup {SpNone}, NEW r, NEW e \in SpEsmes, SpGood(w, x, r),
         x \in {SpNone, e}
  PROVE  /\ SpGood(SpPackAndSend(w, e), x, r)
         /\ SpPackAndSend(w, e).esme[e].st = w.esme[e].st
         /\ SpPackAndSend(w, e).ub = w.ub
         /\ SpPackAndSend(w, e).mo = w.mo
         /\ SpPackAndSend(w, e).acls = w.acls
         /\ SpPackAndSend(w, e).fwd = w.fwd
         /\ SpPackAndSend(w, e).esme[e].cmds = w.esme[e].cmds
<1> DEFINE q == [w.esme[e] EXCEPT !.wq = w.esme[e].wq + 1]
           v == SpSet(w, e, q)
<1>0. SpRec(w) /\ SpTyped(w)
  BY DEF SpGood
<1>1. w.esme[e] \in SpEsmeT /\ w.esme \in [SpEsmes -> SpEsmeT]
  BY <1>0 DEF SpTyped
<1>2. CASE ~SpCanSend(w, e)
  BY <1>2 DEF SpPackAndSend
<1>3. CASE SpCanSend(w, e)
  <2>1. w.esme[e].st = "open" /\ w.esme[e].wq + 1 \in 0..SpMaxWq
    <3>1. w.esme[e].wq \in 0..SpMaxWq /\ w.esme[e].st = "open" /\ w.esme[e].wq < SpMaxWq
      BY <1>1, <1>3 DEF SpEsmeT, SpEsmeR, SpCanSend
    <3> QED BY <3>1, SpAssumption, SMTT(30)
  <2>2. q \in SpEsmeT /\ q.use = w.esme[e].use /\ q.st = w.esme[e].st /\ q.cmds = w.esme[e].cmds
    BY <1>1, <2>1, SpEsmeField
  <2>3. SpPackAndSend(w, e) = v
    <3>1. v = [w EXCEPT !.esme[e].wq = @ + 1]
      BY SMTT(30) DEF SpSet
    <3> HIDE DEF v
    <3> QED BY <1>3, <3>1 DEF SpPackAndSend
  <2> HIDE DEF q
  <2>4. ~w.ub => q.use = Cardinality(SpFwdOf(w.fwd, e)) + Num(q.st = "open") + Num(e = x)
    BY <2>2 DEF SpGood, SpCounted
  <2>5. SpGood(v, x, r)
    BY <2>1, <2>2, <2>4, SpSetKeeps
  <2>6. v.esme = [w.esme EXCEPT ![e] = q] /\ v.ub = w.ub /\ v.mo = w.mo /\ v.acls = w.acls /\ v.fwd = w.fwd
    <3>1. v = SpSet(w, e, q)
      OBVIOUS
    <3> HIDE DEF v
    <3>2. SpSetTo(w, e, q, v)
      BY ZenonT(30), <1>0, <3>1, SpSetIs
    <3> QED BY ZenonT(30), <3>2 DEF SpSetTo
  <2>7. v.esme[e] = q
    BY <1>1, <2>6
  <2> HIDE DEF v
  <2> QED BY ZenonT(30), <2>2, <2>3, <2>5, <2>6, <2>7
<1> QED BY <1>2, <1>3

\* The ACLs change, the rest does not.
LEMMA SpAclsKeep ==
  ASSUME NEW w, NEW x, NEW r, SpGood(w, x, r), NEW a \in [SpIds -> SpAclT],
         ~w.ub => SpLinked(a, w.esme)
  PROVE  LET v == [w EXCEPT !.acls = a]
         IN  /\ SpGood(v, x, r) /\ v.esme = w.esme /\ v.ub = w.ub /\ v.mo = w.mo
             /\ v.acls = a /\ v.fwd = w.fwd
<1>1. PICK v : v = [w EXCEPT !.acls = a]
  OBVIOUS
<1>0. SpRec(w) /\ SpTyped(w)
  BY DEF SpGood
<1>2. SpRec(v)
  BY <1>0, <1>1, ZenonT(60) DEF SpRec
<1>3. /\ v.acls = a /\ v.routes = w.routes /\ v.def = w.def /\ v.esme = w.esme
      /\ v.fwd = w.fwd /\ v.mo = w.mo /\ v.uses = w.uses /\ v.srv = w.srv /\ v.ub = w.ub
  BY <1>0, <1>1, SMTT(30) DEF SpRec
<1>4. SpTyped(v)
  BY <1>0, <1>3 DEF SpTyped
<1>5. SpGood(v, x, r)
  BY <1>2, <1>3, <1>4 DEF SpGood
<1> QED BY <1>1, <1>3, <1>5

\* The sockets of an ESME are closed; its use is still to be given back.
SpClosed(w, e) == [w EXCEPT !.esme[e].st = "closed", !.esme[e].wq = 0]

\* Once its sockets are closed, an open ESME has one use more than what refers to
\* it, and all else is in order.
LEMMA SpClosedKeeps ==
  ASSUME NEW w, NEW r, SpGood(w, SpNone, r), NEW e \in SpEsmes,
         w.esme[e].st = "open"
  PROVE  /\ SpGood(SpClosed(w, e), e, r)
         /\ SpClosed(w, e).esme[e].st = "closed"
         /\ SpClosed(w, e).ub = w.ub
         /\ SpClosed(w, e).acls = w.acls
<1> DEFINE q == [[w.esme[e] EXCEPT !.st = "closed"] EXCEPT !.wq = 0]
           v == SpSet(w, e, q)
<1>0. SpRec(w) /\ SpTyped(w)
  BY DEF SpGood
<1>1. w.esme[e] \in SpEsmeT /\ w.esme \in [SpEsmes -> SpEsmeT]
  BY <1>0 DEF SpTyped
<1>2. q \in SpEsmeT /\ q.st = "closed" /\ q.use = w.esme[e].use /\ q.cmds = w.esme[e].cmds
  <2>1. w.esme[e] \in SpEsmeR
    BY <1>1 DEF SpEsmeT
  <2>2. 0 \in 0..SpMaxWq
    BY SpAssumption, SMTT(30)
  <2> DEFINE p == w.esme[e]
  <2>3. p \in SpEsmeR /\ q = [[p EXCEPT !.st = "closed"] EXCEPT !.wq = 0]
    BY <2>1
  <2> HIDE DEF p, q
  <2>4. q \in SpEsmeR /\ q.st = "closed" /\ q.wq = 0 /\ q.use = p.use /\ q.cmds = p.cmds
    <3>1. PICK o : o = [p EXCEPT !.st = "closed"]
      OBVIOUS
    <3>2. o \in SpEsmeR /\ o.st = "closed" /\ o.use = p.use /\ o.cmds = p.cmds
      BY <2>3, <3>1, SMTT(30) DEF SpEsmeR
    <3>3. q = [o EXCEPT !.wq = 0]
      BY <2>3, <3>1
    <3> QED BY <2>2, <3>2, <3>3, SMTT(30) DEF SpEsmeR
  <2> QED BY <2>4 DEF SpEsmeT, p
<1>3. SpClosed(w, e) = v
  <2>1. w.esme = [d \in SpEsmes |-> w.esme[d]]
    BY <1>1
  <2>2. [[w.esme EXCEPT ![e].st = "closed"] EXCEPT ![e].wq = 0] = [w.esme EXCEPT ![e] = q]
    BY <1>1
  <2>3. PICK u : u = [w EXCEPT !.esme[e].st = "closed"]
    OBVIOUS
  <2>4. SpRec(u)
    BY <1>0, <2>3, ZenonT(60) DEF SpRec
  <2>5. u.esme = [w.esme EXCEPT ![e].st = "closed"]
    BY <1>0, <2>3, SMTT(30) DEF SpRec
  <2>6. SpClosed(w, e) = [u EXCEPT !.esme = [w.esme EXCEPT ![e] = q]]
    BY <1>0, <2>2, <2>3, <2>4, <2>5 DEF SpClosed, SpRec
  <2>7. [u EXCEPT !.esme = [w.esme EXCEPT ![e] = q]] = [w EXCEPT !.esme = [w.esme EXCEPT ![e] = q]]
    BY ZenonT(30), <1>0, <2>3, <2>4 DEF SpRec
  <2> QED BY <2>6, <2>7 DEF SpSet
<1> HIDE DEF q
<1>4. ~w.ub => q.use = Cardinality(SpFwdOf(w.fwd, e)) + Num(q.st = "open") + Num(e = e)
  <2>1. SUFFICES ASSUME ~w.ub
                 PROVE  q.use = Cardinality(SpFwdOf(w.fwd, e)) + Num(q.st = "open") + Num(e = e)
    OBVIOUS
  <2>2. w.esme[e].use = Cardinality(SpFwdOf(w.fwd, e)) + Num(w.esme[e].st = "open") + Num(e = SpNone)
    BY <2>1 DEF SpGood, SpCounted
  <2>3. Num(w.esme[e].st = "open") = 1 /\ Num(e = SpNone) = 0 /\ Num(q.st = "open") = 0 /\ Num(e = e) = 1
    BY <1>2, SpAssumption DEF Num
  <2>4. Cardinality(SpFwdOf(w.fwd, e)) \in Nat
    <3>1. SpFwdOf(w.fwd, e) \in SUBSET SpFwds
      BY DEF SpFwdOf
    <3>2. IsFiniteSet(SpFwdOf(w.fwd, e))
      BY <3>1, SpAssumption, FS_Subset
    <3> QED BY <3>2, FS_CardinalityType
  <2> QED BY <1>2, <2>2, <2>3, <2>4, SMTT(30)
<1>5. SpGood(v, e, r)
  <2>1. ~w.ub => /\ q.use = Cardinality(SpFwdOf(w.fwd, e)) + Num(q.st = "open") + Num(e = e)
                 /\ q.cmds = w.esme[e].cmds
                 /\ q.st # "free"
    BY <1>2, <1>4
  <2>2. SpNone \in {SpNone, e} /\ e \in {SpNone, e} /\ q \in SpEsmeT
    BY <1>2
  <2> QED BY <2>1, <2>2, SpSetKeeps
<1>6. v.esme = [w.esme EXCEPT ![e] = q] /\ v.ub = w.ub /\ v.acls = w.acls
  <2>1. v = SpSet(w, e, q)
    OBVIOUS
  <2> HIDE DEF v
  <2>2. SpSetTo(w, e, q, v)
    BY ZenonT(30), <1>0, <2>1, SpSetIs
  <2> QED BY ZenonT(30), <2>2 DEF SpSetTo
<1>7. v.esme[e] = q
  BY <1>1, <1>6
<1> HIDE DEF v
<1> QED BY <1>2, <1>3, <1>5, <1>6, <1>7

\* dead_socket: the ESME is closed, its ACL forgets it, its own use goes.
LEMMA SpDeadSocketKeeps ==
  ASSUME NEW w, NEW r, SpGood(w, SpNone, r), NEW e \in SpEsmes, w.esme[e].st = "open"
  PROVE  SpGood(SpDeadSocket(w, e), SpNone, r)
<1> DEFINE i == w.esme[e].acl
           u == SpClosed(w, e)
<1>1. SpGood(u, e, r) /\ u.esme[e].st = "closed" /\ u.acls = w.acls
  BY SpClosedKeeps
<1>2. SpRec(u) /\ SpTyped(u)
  BY <1>1 DEF SpGood
<1>3. SpDeadSocket(w, e) =
        IF i = SpGone THEN SpUb(u)
        ELSE SpPut(IF i = SpNone THEN u ELSE [u EXCEPT !.acls[i].esme = SpNone], e)
  BY DEF SpDeadSocket, SpClosed
<1>4. i \in SpIds \cup {SpNone, SpGone}
  <2>1. w.esme[e] \in SpEsmeT
    BY DEF SpGood, SpTyped
  <2> QED BY <2>1 DEF SpEsmeT, SpEsmeR
<1> HIDE DEF i, u
<1>5. CASE i = SpGone
  BY <1>2, <1>3, <1>5, SpUbGood
<1>6. CASE i = SpNone
  <2>1. SpDeadSocket(w, e) = SpPut(u, e)
    BY <1>3, <1>6, SpAssumption
  <2> QED BY <1>1, <2>1, SpPutKeeps
<1>7. CASE i \in SpIds
  <2> DEFINE a == [u.acls EXCEPT ![i] = [u.acls[i] EXCEPT !.esme = SpNone]]
             v == [u EXCEPT !.acls = a]
  <2>1. SpDeadSocket(w, e) = SpPut(v, e)
    <3>1. v = [u EXCEPT !.acls[i].esme = SpNone]
      BY SMTT(30)
    <3>2. i # SpGone /\ i # SpNone
      BY <1>7, SpAssumption
    <3> HIDE DEF v
    <3> QED BY <1>3, <3>1, <3>2
  <2>2. u.acls \in [SpIds -> SpAclT] /\ u.acls[i] \in SpAclT
    BY <1>2, <1>7 DEF SpTyped
  <2>3. [u.acls[i] EXCEPT !.esme = SpNone] \in SpAclT /\ [u.acls[i] EXCEPT !.esme = SpNone].esme = SpNone
    BY <2>2, SMTT(30) DEF SpAclT
  <2>4. a \in [SpIds -> SpAclT] /\ \A j \in SpIds : a[j].esme \in {u.acls[j].esme, SpNone}
    BY <2>2, <2>3
  <2> HIDE DEF a
  <2>5. ~u.ub => SpLinked(a, u.esme)
    <3>1. ~u.ub => SpLinked(u.acls, u.esme)
      BY <1>1 DEF SpGood
    <3> QED BY <2>4, <3>1, SpAssumption DEF SpLinked
  <2>6. SpGood(v, e, r) /\ v.esme = u.esme
    BY ZenonT(30), <1>1, <2>4, <2>5, SpAclsKeep
  <2> HIDE DEF v
  <2>7. v.esme[e].st # "free"
    BY <1>1, <2>6
  <2> QED BY <2>1, <2>6, <2>7, SpPutKeeps
<1> QED BY <1>4, <1>5, <1>6, <1>7

\* The state with other use counts of the subscriber, or with other forward mode SMS.
SpWithUses(w, u) == [w EXCEPT !.uses = u]
SpWithFwd(w, f) == [w EXCEPT !.fwd = f]

\* The other fields of the state stay as they were.
LEMMA SpUsesIs ==
  ASSUME NEW w, SpRec(w), NEW u, NEW v, v = SpWithUses(w, u)
  PROVE  /\ SpRec(v) /\ v.esme = w.esme /\ v.uses = u
         /\ v.acls = w.acls /\ v.routes = w.routes /\ v.def = w.def /\ v.fwd = w.fwd
         /\ v.mo = w.mo /\ v.srv = w.srv /\ v.ub = w.ub
<1>1. SpRec(v)
  BY ZenonT(60) DEF SpRec, SpWithUses
<1>2. /\ v.esme = w.esme /\ v.uses = u
      /\ v.acls = w.acls /\ v.routes = w.routes /\ v.def = w.def /\ v.fwd = w.fwd
      /\ v.mo = w.mo /\ v.srv = w.srv /\ v.ub = w.ub
  BY SMTT(30) DEF SpRec, SpWithUses
<1> QED BY <1>1, <1>2

\* The other fields of the state stay as they were.
LEMMA SpFwdIs ==
  ASSUME NEW w, SpRec(w), NEW f, NEW v, v = SpWithFwd(w, f)
  PROVE  /\ SpRec(v) /\ v.esme = w.esme /\ v.fwd = f
         /\ v.acls = w.acls /\ v.routes = w.routes /\ v.def = w.def /\ v.uses = w.uses
         /\ v.mo = w.mo /\ v.srv = w.srv /\ v.ub = w.ub
<1>1. SpRec(v)
  BY ZenonT(60) DEF SpRec, SpWithFwd
<1>2. /\ v.esme = w.esme /\ v.fwd = f
      /\ v.acls = w.acls /\ v.routes = w.routes /\ v.def = w.def /\ v.uses = w.uses
      /\ v.mo = w.mo /\ v.srv = w.srv /\ v.ub = w.ub
  BY SMTT(30) DEF SpRec, SpWithFwd
<1> QED BY <1>1, <1>2

\* k more uses of receivers.
SpRecv(u, k) == [u EXCEPT !.receiver = @ + k]

\* With k more uses of receivers, k more are not yet those of an SMS under way.
LEMMA SpRecvKeeps ==
  ASSUME NEW w, NEW x, NEW r \in Int, SpGood(w, x, r), NEW k \in Int
  PROVE  LET v == SpWithUses(w, SpRecv(w.uses, k))
         IN  /\ SpGood(v, x, r + k) /\ v.esme = w.esme /\ v.fwd = w.fwd /\ v.ub = w.ub
<1>0. SpRec(w) /\ SpTyped(w) /\ w.uses \in SpUsesT
  BY DEF SpGood, SpTyped
<1>1. PICK u : u = SpRecv(w.uses, k)
  OBVIOUS
<1>2. u \in SpUsesT /\ u.smpp = w.uses.smpp /\ u.receiver = w.uses.receiver + k /\ u.cmd = w.uses.cmd
      /\ w.uses.receiver \in Int
  BY <1>0, <1>1, SMTT(30) DEF SpUsesT, SpRecv
<1>3. PICK v : v = SpWithUses(w, u)
  OBVIOUS
<1>4. /\ SpRec(v) /\ v.esme = w.esme /\ v.uses = u
      /\ v.acls = w.acls /\ v.routes = w.routes /\ v.def = w.def /\ v.fwd = w.fwd
      /\ v.mo = w.mo /\ v.srv = w.srv /\ v.ub = w.ub
  BY SMTT(30), <1>0, <1>3, SpUsesIs
<1>5. SpTyped(v)
  BY <1>0, <1>2, <1>4 DEF SpTyped
<1>6. ASSUME ~v.ub
      PROVE  /\ SpCounted(v.esme, v.fwd, x)
             /\ SpLinked(v.acls, v.esme)
             /\ SpUsed(v.uses, v.fwd, v.esme, r + k)
  <2>1. /\ SpCounted(w.esme, w.fwd, x) /\ SpLinked(w.acls, w.esme)
        /\ SpUsed(w.uses, w.fwd, w.esme, r)
    BY <1>4, <1>6 DEF SpGood
  <2>2. w.uses.receiver = Cardinality(SpHeld(w.fwd)) + r /\ Cardinality(SpHeld(w.fwd)) \in Nat
    <3>1. SpHeld(w.fwd) \in SUBSET SpFwds
      BY DEF SpHeld
    <3>2. IsFiniteSet(SpHeld(w.fwd))
      BY <3>1, SpAssumption, FS_Subset
    <3>3. Cardinality(SpHeld(w.fwd)) \in Nat
      BY <3>2, FS_CardinalityType
    <3> QED BY <2>1, <3>3 DEF SpUsed
  <2>3. u.receiver = Cardinality(SpHeld(w.fwd)) + (r + k)
    BY <1>2, <2>2, SMTT(30)
  <2> QED BY <1>2, <1>4, <2>1, <2>3 DEF SpUsed
<1>7. SpGood(v, x, r + k)
  BY <1>4, <1>5, <1>6 DEF SpGood
<1> QED BY <1>1, <1>3, <1>4, <1>7

\* A forward mode SMS that ends leaves one use of its ESME and one of its receiver.
LEMMA SpFwdGone ==
  ASSUME NEW w, SpGood(w, SpNone, 0), NEW s \in SpFwds, NEW e \in SpEsmes, w.fwd[s] = e, ~w.ub
  PROVE  LET v == SpWithFwd(w, [w.fwd EXCEPT ![s] = SpNone])
         IN  SpGood(v, e, 1) /\ v.esme = w.esme /\ v.esme[e].st # "free"
<1>0. SpRec(w) /\ SpTyped(w) /\ w.fwd \in [SpFwds -> SpEsmes \cup {SpNone}] /\ w.esme[e] \in SpEsmeT
  BY DEF SpGood, SpTyped
<1>1. PICK g : g = [w.fwd EXCEPT ![s] = SpNone]
  OBVIOUS
<1>2. PICK v : v = SpWithFwd(w, g)
  OBVIOUS
<1>3. /\ SpRec(v) /\ v.esme = w.esme /\ v.fwd = g
      /\ v.acls = w.acls /\ v.routes = w.routes /\ v.def = w.def /\ v.uses = w.uses
      /\ v.mo = w.mo /\ v.srv = w.srv /\ v.ub = w.ub
  BY SMTT(30), <1>0, <1>2, SpFwdIs
<1>4. g \in [SpFwds -> SpEsmes \cup {SpNone}]
  BY <1>0, <1>1
<1>5. SpTyped(v)
  BY <1>0, <1>3, <1>4 DEF SpTyped
<1>6. /\ \A d \in SpEsmes : Cardinality(SpFwdOf(w.fwd, d)) = Cardinality(SpFwdOf(g, d)) + Num(d = e)
      /\ Cardinality(SpHeld(w.fwd)) = Cardinality(SpHeld(g)) + 1
  BY SMTT(30), <1>0, <1>1, SpFwdCount
<1>7. /\ \A d \in SpEsmes : Cardinality(SpFwdOf(g, d)) \in Nat
      /\ Cardinality(SpHeld(g)) \in Nat
  BY <1>4, SpFwdCount
<1>8. /\ SpCounted(w.esme, w.fwd, SpNone) /\ SpLinked(w.acls, w.esme)
      /\ SpUsed(w.uses, w.fwd, w.esme, 0)
  BY ZenonT(30) DEF SpGood
<1>9. ASSUME NEW d \in SpEsmes
      PROVE  w.esme[d].use = Cardinality(SpFwdOf(g, d)) + Num(w.esme[d].st = "open") + Num(d = e)
  <2>1. w.esme[d].use = Cardinality(SpFwdOf(w.fwd, d)) + Num(w.esme[d].st = "open") + Num(d = SpNone)
    BY <1>8 DEF SpCounted
  <2>2. Num(d = SpNone) = 0 /\ Num(w.esme[d].st = "open") \in Nat /\ Num(d = e) \in Nat
    BY SpAssumption DEF Num
  <2>3. Cardinality(SpFwdOf(w.fwd, d)) = Cardinality(SpFwdOf(g, d)) + Num(d = e)
    BY <1>6
  <2>4. Cardinality(SpFwdOf(g, d)) \in Nat
    BY <1>7
  <2> QED BY <2>1, <2>2, <2>3, <2>4, SMTT(30)
<1>10. w.esme[e].st # "free"
  <2>1. w.esme[e].use = Cardinality(SpFwdOf(g, e)) + Num(w.esme[e].st = "open") + Num(e = e)
    BY <1>9
  <2>2. Num(e = e) = 1 /\ Num(w.esme[e].st = "open") \in Nat /\ Cardinality(SpFwdOf(g, e)) \in Nat
    BY ZenonT(30), <1>7 DEF Num
  <2>3. w.esme[e].use # 0
    BY <2>1, <2>2, SMTT(30)
  <2> QED BY <1>0, <2>3, SpNoEsmeTyped DEF SpEsmeT
<1>11. SpUsed(v.uses, v.fwd, v.esme, 1)
  <2>1. w.uses.receiver = Cardinality(SpHeld(w.fwd)) + 0
    BY <1>8 DEF SpUsed
  <2>2. w.uses.receiver = Cardinality(SpHeld(g)) + 1
    BY <1>6, <1>7, <2>1, SMTT(30)
  <2> QED BY <1>3, <1>8, <2>2 DEF SpUsed
<1>12. SpCounted(v.esme, v.fwd, e)
  BY ZenonT(30), <1>3, <1>9 DEF SpCounted
<1>13. SpGood(v, e, 1)
  BY <1>3, <1>5, <1>8, <1>11, <1>12 DEF SpGood
<1> QED BY <1>1, <1>2, <1>3, <1>10, <1>13

\* A forward mode SMS that starts takes over the use of its ESME and of its receiver.
LEMMA SpFwdTaken ==
  ASSUME NEW w, NEW s \in SpFwds, NEW e \in SpEsmes, SpGood(w, e, 1), w.fwd[s] = SpNone
  PROVE  SpGood(SpWithFwd(w, [w.fwd EXCEPT ![s] = e]), SpNone, 0)
<1>0. SpRec(w) /\ SpTyped(w) /\ w.fwd \in [SpFwds -> SpEsmes \cup {SpNone}]
  BY DEF SpGood, SpTyped
<1>1. PICK g : g = [w.fwd EXCEPT ![s] = e]
  OBVIOUS
<1>2. PICK v : v = SpWithFwd(w, g)
  OBVIOUS
<1>3. /\ SpRec(v) /\ v.esme = w.esme /\ v.fwd = g
      /\ v.acls = w.acls /\ v.routes = w.routes /\ v.def = w.def /\ v.uses = w.uses
      /\ v.mo = w.mo /\ v.srv = w.srv /\ v.ub = w.ub
  BY SMTT(30), <1>0, <1>2, SpFwdIs
<1>4. g \in [SpFwds -> SpEsmes \cup {SpNone}]
  BY <1>0, <1>1
<1>5. SpTyped(v)
  BY <1>0, <1>3, <1>4 DEF SpTyped
<1>6. /\ \A d \in SpEsmes : Cardinality(SpFwdOf(g, d)) = Cardinality(SpFwdOf(w.fwd, d)) + Num(d = e)
      /\ Cardinality(SpHeld(g)) = Cardinality(SpHeld(w.fwd)) + 1
  BY SMTT(30), <1>0, <1>1, SpFwdCount
<1>7. /\ \A d \in SpEsmes : Cardinality(SpFwdOf(w.fwd, d)) \in Nat
      /\ Cardinality(SpHeld(w.fwd)) \in Nat
  BY <1>0, SpFwdCount
<1>8. ASSUME ~w.ub
      PROVE  /\ SpCounted(v.esme, v.fwd, SpNone)
             /\ SpLinked(v.acls, v.esme)
             /\ SpUsed(v.uses, v.fwd, v.esme, 0)
  <2>0. /\ SpCounted(w.esme, w.fwd, e) /\ SpLinked(w.acls, w.esme)
        /\ SpUsed(w.uses, w.fwd, w.esme, 1)
    BY ZenonT(30), <1>8 DEF SpGood
  <2>1. ASSUME NEW d \in SpEsmes
        PROVE  w.esme[d].use = Cardinality(SpFwdOf(g, d)) + Num(w.esme[d].st = "open") + Num(d = SpNone)
    <3>1. w.esme[d].use = Cardinality(SpFwdOf(w.fwd, d)) + Num(w.esme[d].st = "open") + Num(d = e)
      BY <2>0 DEF SpCounted
    <3>2. Num(d = SpNone) = 0 /\ Num(w.esme[d].st = "open") \in Nat /\ Num(d = e) \in Nat
      BY SpAssumption DEF Num
    <3>3. Cardinality(SpFwdOf(g, d)) = Cardinality(SpFwdOf(w.fwd, d)) + Num(d = e)
      BY <1>6
    <3>4. Cardinality(SpFwdOf(w.fwd, d)) \in Nat
      BY ZenonT(30), <1>7
    <3> QED BY <3>1, <3>2, <3>3, <3>4, SMTT(30)
  <2>2. w.uses.receiver = Cardinality(SpHeld(g)) + 0
    <3>1. w.uses.receiver = Cardinality(SpHeld(w.fwd)) + 1
      BY <2>0 DEF SpUsed
    <3> QED BY <1>6, <1>7, <3>1, SMTT(30)
  <2>3. SpUsed(v.uses, v.fwd, v.esme, 0)
    BY <1>3, <2>0, <2>2 DEF SpUsed
  <2> QED BY ZenonT(30), <1>3, <2>0, <2>1, <2>3 DEF SpCounted
<1>9. SpGood(v, SpNone, 0)
  BY <1>3, <1>5, <1>8 DEF SpGood
<1> QED BY <1>1, <1>2, <1>9

\* smpp_esme_get()
LEMMA SpGetKeeps ==
  ASSUME NEW w, NEW r, SpGood(w, SpNone, r), NEW e \in SpEsmes, w.esme[e].st = "open"
  PROVE  /\ SpGood(SpGet(w, e), e, r)
         /\ SpGet(w, e).esme[e].st = "open"
         /\ SpGet(w, e).ub = w.ub
         /\ SpGet(w, e).mo = w.mo
         /\ SpGet(w, e).fwd = w.fwd
         /\ SpGet(w, e).esme[e].cmds = w.esme[e].cmds
<1> DEFINE q == [w.esme[e] EXCEPT !.use = w.esme[e].use + 1]
           v == SpSet(w, e, q)
<1>0. SpRec(w) /\ SpTyped(w)
  BY DEF SpGood
<1>1. w.esme[e] \in SpEsmeT /\ w.esme \in [SpEsmes -> SpEsmeT]
  BY <1>0 DEF SpTyped
<1>2. w.esme[e].use \in Int /\ w.esme[e].use + 1 \in Int
  <2>1. w.esme[e].use \in Int
    BY <1>1 DEF SpEsmeT, SpEsmeR
  <2> QED BY <2>1, SMTT(30)
<1>3. q \in SpEsmeT /\ q.use = w.esme[e].use + 1 /\ q.st = "open" /\ q.cmds = w.esme[e].cmds
  BY ZenonT(30), <1>1, <1>2, SpEsmeField
<1>4. SpGet(w, e) = v
  BY SMTT(30) DEF SpGet, SpSet
<1> HIDE DEF q
<1>5. ~w.ub => q.use = Cardinality(SpFwdOf(w.fwd, e)) + Num(q.st = "open") + Num(e = e)
  <2>1. SUFFICES ASSUME ~w.ub
                 PROVE  q.use = Cardinality(SpFwdOf(w.fwd, e)) + Num(q.st = "open") + Num(e = e)
    OBVIOUS
  <2>2. w.esme[e].use = Cardinality(SpFwdOf(w.fwd, e)) + Num(w.esme[e].st = "open") + Num(e = SpNone)
    BY <2>1 DEF SpGood, SpCounted
  <2>3. Num(w.esme[e].st = "open") = 1 /\ Num(e = SpNone) = 0 /\ Num(q.st = "open") = 1 /\ Num(e = e) = 1
    BY ZenonT(30), <1>3, SpAssumption DEF Num
  <2>4. Cardinality(SpFwdOf(w.fwd, e)) \in Nat
    <3>1. SpFwdOf(w.fwd, e) \in SUBSET SpFwds
      BY DEF SpFwdOf
    <3>2. IsFiniteSet(SpFwdOf(w.fwd, e))
      BY <3>1, SpAssumption, FS_Subset
    <3> QED BY <3>2, FS_CardinalityType
  <2> QED BY <1>3, <2>2, <2>3, <2>4, SMTT(30)
<1>6. SpGood(v, e, r)
  <2>1. ~w.ub => /\ q.use = Cardinality(SpFwdOf(w.fwd, e)) + Num(q.st = "open") + Num(e = e)
                 /\ q.cmds = w.esme[e].cmds
                 /\ q.st # "free"
    BY <1>3, <1>5
  <2>2. SpNone \in {SpNone, e} /\ e \in {SpNone, e} /\ q \in SpEsmeT
    BY <1>3
  <2> QED BY <2>1, <2>2, SpSetKeeps
<1>7. v.esme = [w.esme EXCEPT ![e] = q] /\ v.ub = w.ub /\ v.mo = w.mo /\ v.fwd = w.fwd
  <2>1. v = SpSet(w, e, q)
    OBVIOUS
  <2> HIDE DEF v
  <2>2. SpSetTo(w, e, q, v)
    BY ZenonT(30), <1>0, <2>1, SpSetIs
  <2> QED BY ZenonT(30), <2>2 DEF SpSetTo
<1>8. v.esme[e] = q
  BY <1>1, <1>7
<1> HIDE DEF v
<1> QED BY ZenonT(30), <1>3, <1>4, <1>6, <1>7, <1>8

\* sms_free() of an SMS that refers to ESME e and to its receiver
LEMMA SpSmsFreeKeeps ==
  ASSUME NEW w, NEW e \in SpEsmes, NEW k \in BOOLEAN, SpGood(w, e, Num(k)), w.esme[e].st # "free"
  PROVE  SpGood(SpSmsFree(w, e, k), SpNone, 0)
<1> DEFINE n == 0 - Num(k)
           v == SpWithUses(w, SpRecv(w.uses, n))
<1>1. Num(k) \in Int /\ n \in Int /\ Num(k) + n = 0
  BY DEF Num
<1>2. w.uses \in SpUsesT /\ w.uses.receiver \in Int
  BY DEF SpGood, SpTyped, SpUsesT
<1>3. v = [w EXCEPT !.uses.receiver = @ - IF k THEN 1 ELSE 0]
  <2>1. w.uses.receiver + n = w.uses.receiver - Num(k)
    BY <1>1, <1>2, SMTT(30)
  <2>2. SpRecv(w.uses, n) = [w.uses EXCEPT !.receiver = w.uses.receiver + n]
    BY ZenonT(30) DEF SpRecv
  <2>3. SpRecv(w.uses, n) = [w.uses EXCEPT !.receiver = w.uses.receiver - Num(k)]
    BY <2>1, <2>2
  <2>4. v = [w EXCEPT !.uses = [w.uses EXCEPT !.receiver = w.uses.receiver - Num(k)]]
    BY <2>3 DEF SpWithUses
  <2> HIDE DEF v, n
  <2> QED BY <2>4, SMTT(30) DEF Num
<1> HIDE DEF n
<1>4. SpGood(v, e, Num(k) + n) /\ v.esme = w.esme
  BY <1>1, SpRecvKeeps
<1> HIDE DEF v
<1>5. SpGood(v, e, 0) /\ v.esme[e].st # "free"
  BY <1>1, <1>4
<1>6. SpSmsFree(w, e, k) = SpPut(v, e)
  BY <1>3 DEF SpSmsFree
<1> QED BY <1>5, <1>6, SpPutKeeps

\* submit_to_sms(): what is refused leaves no use behind, an SMS uses its receiver.
LEMMA SpSubmitToSmsIs ==
  ASSUME NEW w, SpRec(w), w.uses \in SpUsesT, NEW pdu \in SpPdus
  PROVE  LET r == SpSubmitToSms(w, pdu)
         IN  /\ r.st # "ROK" => r.w = w
             /\ r.st = "ROK" => /\ r.w = SpWithUses(w, SpRecv(w.uses, Num(pdu.known)))
                                /\ pdu.fwd => pdu.known
<1> DEFINE k == IF pdu.known THEN 1 ELSE 0
           getDest(v) == [v EXCEPT !.uses.smpp = @ + k]
           putDest(v) == [v EXCEPT !.uses.smpp = @ - k]
           take(v) == [v EXCEPT !.uses.receiver = @ + k]
           free(v) == [v EXCEPT !.uses.receiver = @ - k]
           found == getDest(w)
           sms == putDest(take(found))
<1>1. k \in Int /\ k = Num(pdu.known) /\ (~pdu.known => k = 0)
  BY SMTT(30) DEF Num
<1>2. PICK a \in Int, b \in Int, c \in Int : w.uses = [smpp |-> a, receiver |-> b, cmd |-> c]
  BY SMTT(30) DEF SpUsesT
<1>3. SpSubmitToSms(w, pdu) =
        CASE ~pdu.known /\ pdu.fwd -> [st |-> "RINVDSTADR", w |-> found]
          [] pdu.bad = "tlv" -> [st |-> "ROPTPARNOTALLWD", w |-> putDest(found)]
          [] pdu.bad = "len" -> [st |-> "RINVPARLEN", w |-> putDest(found)]
          [] pdu.bad = "dcs" -> [st |-> "RUNKNOWNERR", w |-> free(sms)]
          [] pdu.bad = "udh" -> [st |-> "RINVPARLEN", w |-> free(sms)]
          [] OTHER -> [st |-> "ROK", w |-> sms]
  BY DEF SpSubmitToSms
<1> DEFINE W(n, m) == SpWithUses(w, [smpp |-> n, receiver |-> m, cmd |-> c])
<1>4. ASSUME NEW n \in Int, NEW m \in Int, NEW v, v = W(n, m)
      PROVE  /\ getDest(v) = W(n + k, m)
             /\ putDest(v) = W(n - k, m)
             /\ take(v) = W(n, m + k)
             /\ free(v) = W(n, m - k)
  <2>1. SpRec(v) /\ v.uses = [smpp |-> n, receiver |-> m, cmd |-> c]
    <3>1. PICK u : u = [smpp |-> n, receiver |-> m, cmd |-> c]
      OBVIOUS
    <3>2. v = SpWithUses(w, u)
      BY <1>4, <3>1
    <3> QED BY SMTT(30), <3>1, <3>2, SpUsesIs
  <2>2. \A u : [v EXCEPT !.uses = u] = SpWithUses(w, u)
    BY <1>4, ZenonT(60) DEF SpWithUses, SpRec
  <2>3. /\ [v.uses EXCEPT !.smpp = v.uses.smpp + k] = [smpp |-> n + k, receiver |-> m, cmd |-> c]
        /\ [v.uses EXCEPT !.smpp = v.uses.smpp - k] = [smpp |-> n - k, receiver |-> m, cmd |-> c]
        /\ [v.uses EXCEPT !.receiver = v.uses.receiver + k] = [smpp |-> n, receiver |-> m + k, cmd |-> c]
        /\ [v.uses EXCEPT !.receiver = v.uses.receiver - k] = [smpp |-> n, receiver |-> m - k, cmd |-> c]
    BY <1>1, <2>1, SMTT(30)
  <2>4. /\ [v EXCEPT !.uses.smpp = @ + k] = [v EXCEPT !.uses = [v.uses EXCEPT !.smpp = v.uses.smpp + k]]
        /\ [v EXCEPT !.uses.smpp = @ - k] = [v EXCEPT !.uses = [v.uses EXCEPT !.smpp = v.uses.smpp - k]]
        /\ [v EXCEPT !.uses.receiver = @ + k] = [v EXCEPT !.uses = [v.uses EXCEPT !.receiver = v.uses.receiver + k]]
        /\ [v EXCEPT !.uses.receiver = @ - k] = [v EXCEPT !.uses = [v.uses EXCEPT !.receiver = v.uses.receiver - k]]
    BY SMTT(30)
  <2> QED BY <2>2, <2>3, <2>4
<1>5. w = W(a, b)
  BY <1>2, ZenonT(60) DEF SpWithUses, SpRec
<1>6. SpWithUses(w, SpRecv(w.uses, k)) = W(a, b + k)
  <2>1. SpRecv(w.uses, k) = [smpp |-> a, receiver |-> b + k, cmd |-> c]
    BY <1>2, SMTT(30) DEF SpRecv
  <2> QED BY <2>1
<1> HIDE DEF W, k, getDest, putDest, take, free
<1>7. found = W(a + k, b)
  BY SMTT(30), <1>1, <1>4, <1>5
<1>8. putDest(found) = w
  <2>1. putDest(found) = W(a + k - k, b)
    BY SMTT(30), <1>1, <1>4, <1>7
  <2>2. a + k - k = a
    BY <1>1, SMTT(30)
  <2> QED BY <1>5, <2>1, <2>2
<1>9. sms = W(a, b + k)
  <2>1. take(found) = W(a + k, b + k)
    BY SMTT(30), <1>1, <1>4, <1>7
  <2>2. sms = W(a + k - k, b + k)
    BY SMTT(30), <1>1, <1>4, <2>1
  <2>3. a + k - k = a
    BY <1>1, SMTT(30)
  <2> QED BY <2>2, <2>3
<1>10. free(sms) = w
  <2>1. free(sms) = W(a, b + k - k)
    BY SMTT(30), <1>1, <1>4, <1>9
  <2>2. b + k - k = b
    BY <1>1, SMTT(30)
  <2> QED BY <1>5, <2>1, <2>2
<1>11. ~pdu.known => found = w
  <2>1. k = 0 => a + k = a
    BY SMTT(30)
  <2> QED BY <1>1, <1>5, <1>7, <2>1
<1>12. sms = SpWithUses(w, SpRecv(w.uses, Num(pdu.known)))
  BY <1>1, <1>6, <1>9
<1> HIDE DEF found, putDest, sms, free
<1>13. PICK x : x = SpSubmitToSms(w, pdu)
  OBVIOUS
<1>p. pdu.known \/ ~pdu.fwd \/ pdu.bad = "none"
  BY DEF SpPdus
<1>14. \/ x.st # "ROK" /\ x.w = w
       \/ x.st = "ROK" /\ x.w = sms /\ ~(~pdu.known /\ pdu.fwd)
  <2>1. CASE ~pdu.known /\ pdu.fwd
    <3>1. x = [st |-> "RINVDSTADR", w |-> found]
      BY SMTT(30), <1>3, <1>13, <1>p, <2>1
    <3> QED BY <1>11, <2>1, <3>1
  <2>2. CASE ~(~pdu.known /\ pdu.fwd)
    BY SMTT(30), <1>3, <1>8, <1>10, <1>13, <2>2
  <2> QED BY <2>1, <2>2
<1>15. pdu.known \in BOOLEAN /\ pdu.fwd \in BOOLEAN
  BY DEF SpPdus
<1> QED BY <1>12, <1>13, <1>14, <1>15

\* handle_smpp_submit()
LEMMA SpHandleSubmitKeeps ==
  ASSUME NEW w, SpGood(w, SpNone, 0), NEW e \in SpEsmes, w.esme[e].st = "open",
         NEW pdu \in SpPdus, NEW s \in SpFwds, w.fwd[s] = SpNone, NEW busy \in BOOLEAN,
         busy => pdu = SpForward
  PROVE  SpGood(SpHandleSubmit(w, e, pdu, s, busy), SpNone, 0)
<1>0. SpRec(w) /\ w.uses \in SpUsesT /\ pdu.known \in BOOLEAN /\ pdu.fwd \in BOOLEAN
  BY DEF SpGood, SpTyped, SpPdus
<1>1. PICK x : x = SpSubmitToSms(w, pdu)
  OBVIOUS
<1>2. /\ x.st # "ROK" => x.w = w
      /\ x.st = "ROK" => /\ x.w = SpWithUses(w, SpRecv(w.uses, Num(pdu.known)))
                         /\ pdu.fwd => pdu.known
  BY <1>0, <1>1, SpSubmitToSmsIs
<1>3. PICK got : got = SpGet(x.w, e)
  OBVIOUS
<1>4. SpHandleSubmit(w, e, pdu, s, busy) =
        IF x.st # "ROK" THEN SpPackAndSend(x.w, e)
        ELSE IF ~pdu.fwd THEN SpPackAndSend(SpSmsFree(got, e, pdu.known), e)
        ELSE IF busy THEN SpSmsFree(got, e, TRUE)
        ELSE [got EXCEPT !.fwd[s] = e]
  BY <1>1, <1>3 DEF SpHandleSubmit
<1>5. CASE x.st # "ROK"
  <2>1. SpHandleSubmit(w, e, pdu, s, busy) = SpPackAndSend(w, e)
    BY <1>2, <1>4, <1>5
  <2> QED BY SMTT(30), <2>1, SpPackAndSendKeeps
<1>6. CASE x.st = "ROK"
  <2>1. Num(pdu.known) \in Int /\ 0 + Num(pdu.known) = Num(pdu.known)
    BY DEF Num
  <2>2. SpGood(x.w, SpNone, 0 + Num(pdu.known)) /\ x.w.esme = w.esme /\ x.w.fwd = w.fwd
    BY SMTT(30), <1>2, <1>6, <2>1, SpRecvKeeps
  <2>3. SpGood(x.w, SpNone, Num(pdu.known)) /\ x.w.esme[e].st = "open"
    BY <2>1, <2>2
  <2>4. SpGood(got, e, Num(pdu.known)) /\ got.esme[e].st = "open" /\ got.fwd = w.fwd
    BY ZenonT(30), <1>3, <2>2, <2>3, SpGetKeeps
  <2>5. SpGood(SpSmsFree(got, e, pdu.known), SpNone, 0)
    BY <1>0, <2>4, SpSmsFreeKeeps
  <2>6. CASE ~pdu.fwd
    <3>1. SpHandleSubmit(w, e, pdu, s, busy) = SpPackAndSend(SpSmsFree(got, e, pdu.known), e)
      BY <1>4, <1>6, <2>6
    <3> QED BY SMTT(30), <2>5, <3>1, SpPackAndSendKeeps
  <2>7. CASE pdu.fwd
    <3>1. pdu.known = TRUE
      BY <1>0, <1>2, <1>6, <2>7
    <3>2. CASE busy
      <4>1. SpHandleSubmit(w, e, pdu, s, busy) = SpSmsFree(got, e, TRUE)
        BY <1>4, <1>6, <2>7, <3>2
      <4> QED BY <2>5, <3>1, <4>1
    <3>3. CASE ~busy
      <4>1. SpHandleSubmit(w, e, pdu, s, busy) = SpWithFwd(got, [got.fwd EXCEPT ![s] = e])
        <5>1. SpHandleSubmit(w, e, pdu, s, busy) = [got EXCEPT !.fwd[s] = e]
          BY <1>4, <1>6, <2>7, <3>3
        <5>2. [got EXCEPT !.fwd[s] = e] = SpWithFwd(got, [got.fwd EXCEPT ![s] = e])
          BY SMTT(30) DEF SpWithFwd
        <5> QED BY <5>1, <5>2
      <4>2. Num(pdu.known) = 1
        BY <3>1 DEF Num
      <4>3. SpGood(got, e, 1) /\ got.fwd[s] = SpNone
        BY <2>4, <4>2
      <4> QED BY ZenonT(30), <4>1, <4>3, SpFwdTaken
    <3> QED BY <3>2, <3>3
  <2> QED BY <2>6, <2>7
<1> QED BY <1>5, <1>6

\* The commands of one ESME change, and the uses they hold with them.
SpRecmd(w, v, e, C) ==
  /\ SpRec(v) /\ v.mo \in [SpTids -> SpMoT]
  /\ v.esme = [w.esme EXCEPT ![e] = [w.esme[e] EXCEPT !.cmds = C]]
  /\ v.uses = [w.uses EXCEPT !.cmd = w.uses.cmd - Cardinality(w.esme[e].cmds) + Cardinality(C)]
  /\ v.acls = w.acls /\ v.def = w.def /\ v.fwd = w.fwd /\ v.ub = w.ub

\* A state in order stays so when commands of an ESME and the uses they hold change
\* together.
LEMMA SpCmdsKeep ==
  ASSUME NEW w, NEW x, NEW r, SpGood(w, x, r), NEW e \in SpEsmes, w.esme[e].st # "free",
         NEW C \in SUBSET SpCmds, NEW v, SpRecmd(w, v, e, C)
  PROVE  SpGood(v, x, r) /\ v.esme[e].st = w.esme[e].st
<1>a. /\ SpRec(v) /\ v.mo \in [SpTids -> SpMoT]
      /\ v.esme = [w.esme EXCEPT ![e] = [w.esme[e] EXCEPT !.cmds = C]]
      /\ v.uses = [w.uses EXCEPT !.cmd = w.uses.cmd - Cardinality(w.esme[e].cmds) + Cardinality(C)]
      /\ v.acls = w.acls /\ v.def = w.def /\ v.fwd = w.fwd /\ v.ub = w.ub
  BY DEF SpRecmd
<1>0. SpTyped(w) /\ w.esme \in [SpEsmes -> SpEsmeT] /\ w.esme[e] \in SpEsmeT /\ w.uses \in SpUsesT
  BY DEF SpGood, SpTyped
<1>1. PICK q : q = [w.esme[e] EXCEPT !.cmds = C]
  OBVIOUS
<1>2. q \in SpEsmeT /\ q.use = w.esme[e].use /\ q.st = w.esme[e].st /\ q.cmds = C
  BY <1>0, <1>1, SpEsmeField
<1>3. /\ v.esme \in [SpEsmes -> SpEsmeT] /\ v.esme[e] = q
      /\ \A d \in SpEsmes : d # e => v.esme[d] = w.esme[d]
  BY <1>a, <1>0, <1>1, <1>2
<1>4. /\ Cardinality(SpPending(w.esme)) \in Int
      /\ Cardinality(SpPending([w.esme EXCEPT ![e] = q]))
           = Cardinality(SpPending(w.esme)) - Cardinality(w.esme[e].cmds) + Cardinality(q.cmds)
      /\ IsFiniteSet(w.esme[e].cmds) /\ IsFiniteSet(q.cmds)
  BY <1>0, <1>2, SpPendingCount
<1>5. Cardinality(w.esme[e].cmds) \in Nat /\ Cardinality(C) \in Nat
  BY <1>2, <1>4, FS_CardinalityType
<1>6. /\ v.uses \in SpUsesT /\ v.uses.smpp = w.uses.smpp /\ v.uses.receiver = w.uses.receiver
      /\ v.uses.cmd = w.uses.cmd - Cardinality(w.esme[e].cmds) + Cardinality(C)
  BY <1>a, <1>0, <1>5, SMTT(30) DEF SpUsesT
<1>7. SpTyped(v)
  BY <1>a, <1>0, <1>3, <1>6 DEF SpTyped
<1>8. ASSUME ~v.ub
      PROVE  /\ SpCounted(v.esme, v.fwd, x)
             /\ SpLinked(v.acls, v.esme)
             /\ SpUsed(v.uses, v.fwd, v.esme, r)
  <2>1. /\ SpCounted(w.esme, w.fwd, x) /\ SpLinked(w.acls, w.esme)
        /\ SpUsed(w.uses, w.fwd, w.esme, r)
    BY <1>a, <1>8 DEF SpGood
  <2>2. \A d \in SpEsmes : v.esme[d].use = w.esme[d].use /\ v.esme[d].st = w.esme[d].st
    BY <1>2, <1>3
  <2>3. SpCounted(v.esme, v.fwd, x)
    BY SMTT(30), <1>a, <2>1, <2>2 DEF SpCounted
  <2>4. SpLinked(v.acls, v.esme)
    BY ZenonT(30), <1>a, <2>1, <2>2 DEF SpLinked
  <2>5. v.uses.cmd = Cardinality(SpPending(v.esme))
    <3>1. w.uses.cmd = Cardinality(SpPending(w.esme))
      BY <2>1 DEF SpUsed
    <3> QED BY <1>a, <1>1, <1>2, <1>4, <1>6, <3>1
  <2> QED BY ZenonT(30), <1>a, <1>6, <2>1, <2>3, <2>4, <2>5 DEF SpUsed
<1> QED BY <1>a, <1>2, <1>3, <1>7, <1>8 DEF SpGood

\* smpp_cmd_enqueue() of a command that is not there yet
LEMMA SpCmdEnqueueKeeps ==
  ASSUME NEW w, NEW x, NEW r, SpGood(w, x, r), NEW e \in SpEsmes, w.esme[e].st # "free",
         NEW t \in SpTids, w.mo[t].ref \in SpRefs,
         [tid |-> t, ref |-> w.mo[t].ref] \notin w.esme[e].cmds
  PROVE  /\ SpGood(SpCmdEnqueue(w, e, t), x, r)
         /\ SpCmdEnqueue(w, e, t).esme[e].st = w.esme[e].st
<1> DEFINE cmd == [tid |-> t, ref |-> w.mo[t].ref]
<1>0. SpRec(w) /\ SpTyped(w) /\ w.mo \in [SpTids -> SpMoT] /\ w.esme[e] \in SpEsmeT
      /\ w.esme \in [SpEsmes -> SpEsmeT] /\ w.uses \in SpUsesT
  BY DEF SpGood, SpTyped
<1>1. w.esme[e].cmds \in SUBSET SpCmds /\ cmd \in SpCmds
  BY <1>0 DEF SpEsmeT, SpEsmeR, SpCmds
<1>2. IsFiniteSet(w.esme[e].cmds)
  BY <1>0, SpPendingCount
<1> HIDE DEF cmd
<1>3. PICK C : C = w.esme[e].cmds \cup {cmd}
  OBVIOUS
<1>4. Cardinality(C) = Cardinality(w.esme[e].cmds) + 1
  BY <1>2, <1>3, FS_AddElement DEF cmd
<1>5. Cardinality(w.esme[e].cmds) \in Nat /\ w.uses.cmd \in Int
  <2>1. Cardinality(w.esme[e].cmds) \in Nat
    BY ZenonT(30), <1>2, FS_CardinalityType
  <2> QED BY <1>0, <2>1 DEF SpUsesT
<1>6. w.uses.cmd + 1 = w.uses.cmd - Cardinality(w.esme[e].cmds) + Cardinality(C)
  BY <1>4, <1>5, SMTT(30)
<1>7. PICK v : v = SpCmdEnqueue(w, e, t)
  OBVIOUS
<1>8. v = [w EXCEPT !.esme[e].cmds = @ \cup {cmd}, !.uses.cmd = @ + 1, !.mo[t].st = "wait"]
  BY <1>7 DEF SpCmdEnqueue, cmd
<1>9. SpRec(v)
  BY <1>0, <1>8, ZenonT(60) DEF SpRec
<1>10. /\ v.esme = [w.esme EXCEPT ![e] = [w.esme[e] EXCEPT !.cmds = w.esme[e].cmds \cup {cmd}]]
       /\ v.uses = [w.uses EXCEPT !.cmd = w.uses.cmd + 1]
       /\ v.mo = [w.mo EXCEPT ![t] = [w.mo[t] EXCEPT !.st = "wait"]]
  BY <1>0, <1>8, SMTT(30) DEF SpRec
<1>11. v.acls = w.acls /\ v.def = w.def /\ v.fwd = w.fwd /\ v.ub = w.ub
  BY <1>0, <1>8, SMTT(30) DEF SpRec
<1>12. v.mo \in [SpTids -> SpMoT]
  <2>1. [w.mo[t] EXCEPT !.st = "wait"] \in SpMoT
    <3>1. w.mo[t] \in SpMoT
      BY <1>0
    <3> QED BY <3>1, SMTT(30) DEF SpMoT
  <2> QED BY <1>0, <1>10, <2>1
<1>13. C \in SUBSET SpCmds
  BY <1>1, <1>3
<1>14. /\ v.esme = [w.esme EXCEPT ![e] = [w.esme[e] EXCEPT !.cmds = C]]
       /\ v.uses = [w.uses EXCEPT !.cmd = w.uses.cmd - Cardinality(w.esme[e].cmds) + Cardinality(C)]
  BY <1>3, <1>6, <1>10
<1>r. SpRecmd(w, v, e, C)
  BY <1>9, <1>11, <1>12, <1>14 DEF SpRecmd
<1>15. SpGood(v, x, r) /\ v.esme[e].st = w.esme[e].st
  BY SMTT(30), <1>13, <1>r, SpCmdsKeep
<1> QED BY <1>7, <1>15

\* deliver_to_esme()
LEMMA SpDeliverToEsmeKeeps ==
  ASSUME NEW w, SpGood(w, SpNone, 0), NEW e \in SpEsmes,
         NEW t \in SpTids, w.mo[t].ref \in SpRefs,
         [tid |-> t, ref |-> w.mo[t].ref] \notin w.esme[e].cmds
  PROVE  SpGood(SpDeliverToEsme(w, e, t), SpNone, 0)
<1>0. SpRec(w) /\ SpTyped(w)
  BY DEF SpGood
<1>1. CASE w.esme[e].acl = SpGone
  BY <1>0, <1>1, SpUbGood DEF SpDeliverToEsme
<1>2. CASE w.esme[e].acl # SpGone /\ ~SpCanSend(w, e)
  BY <1>2 DEF SpDeliverToEsme
<1>3. CASE w.esme[e].acl # SpGone /\ SpCanSend(w, e)
  <2>1. PICK a : a = SpPackAndSend(w, e)
    OBVIOUS
  <2>2. PICK b : b = SpGet(a, e)
    OBVIOUS
  <2>3. PICK c : c = SpCmdEnqueue(b, e, t)
    OBVIOUS
  <2>4. SpDeliverToEsme(w, e, t) = SpPut(c, e)
    BY ZenonT(30), <1>3, <2>1, <2>2, <2>3 DEF SpDeliverToEsme
  <2>5. SpGood(a, SpNone, 0) /\ a.esme[e].st = w.esme[e].st /\ a.mo = w.mo
        /\ a.esme[e].cmds = w.esme[e].cmds
    BY ZenonT(30), <2>1, SpPackAndSendKeeps
  <2>6. a.esme[e].st = "open"
    BY <1>3, <2>5 DEF SpCanSend
  <2>7. SpGood(b, e, 0) /\ b.esme[e].st = "open" /\ b.mo = a.mo /\ b.esme[e].cmds = a.esme[e].cmds
    BY ZenonT(30), <2>2, <2>5, <2>6, SpGetKeeps
  <2>8. b.esme[e].st # "free" /\ b.mo[t].ref \in SpRefs /\ [tid |-> t, ref |-> b.mo[t].ref] \notin b.esme[e].cmds
    BY <2>5, <2>7
  <2>9. SpGood(c, e, 0) /\ c.esme[e].st = b.esme[e].st
    BY <2>3, <2>7, <2>8, SpCmdEnqueueKeeps
  <2>10. c.esme[e].st # "free"
    BY <2>8, <2>9
  <2> QED BY <2>4, <2>9, <2>10, SpPutKeeps
<1> QED BY <1>1, <1>2, <1>3

\* smpp_cmd_ack() and smpp_cmd_err() of a command that is there
LEMMA SpCmdDoneKeeps ==
  ASSUME NEW w, NEW x, NEW r, SpGood(w, x, r), NEW e \in SpEsmes,
         NEW cmd \in SpCmds, cmd \in w.esme[e].cmds
  PROVE  SpGood(SpCmdDone(w, e, cmd), x, r)
<1>0. SpRec(w) /\ SpTyped(w) /\ w.mo \in [SpTids -> SpMoT] /\ w.esme[e] \in SpEsmeT
      /\ w.esme \in [SpEsmes -> SpEsmeT] /\ w.uses \in SpUsesT
  BY DEF SpGood, SpTyped
<1>1. w.esme[e].cmds \in SUBSET SpCmds /\ cmd.tid \in SpTids /\ w.esme[e].st # "free"
  <2>1. w.esme[e].cmds \in SUBSET SpCmds /\ cmd.tid \in SpTids
    BY <1>0 DEF SpEsmeT, SpEsmeR, SpCmds
  <2>2. w.esme[e].st # "free"
    BY <1>0, SpNoEsmeTyped DEF SpEsmeT
  <2> QED BY <2>1, <2>2
<1>2. IsFiniteSet(w.esme[e].cmds)
  BY <1>0, SpPendingCount
<1>3. PICK C : C = w.esme[e].cmds \ {cmd}
  OBVIOUS
<1>4. Cardinality(C) = Cardinality(w.esme[e].cmds) - 1
  BY <1>2, <1>3, FS_RemoveElement
<1>5. Cardinality(w.esme[e].cmds) \in Nat /\ w.uses.cmd \in Int
  <2>1. Cardinality(w.esme[e].cmds) \in Nat
    BY ZenonT(30), <1>2, FS_CardinalityType
  <2> QED BY <1>0, <2>1 DEF SpUsesT
<1>6. w.uses.cmd - 1 = w.uses.cmd - Cardinality(w.esme[e].cmds) + Cardinality(C)
  BY <1>4, <1>5, SMTT(30)
<1>7. PICK t : t = cmd.tid
  OBVIOUS
<1>8. PICK v : v = SpCmdDone(w, e, cmd)
  OBVIOUS
<1>9. v = [w EXCEPT !.esme[e].cmds = @ \ {cmd}, !.uses.cmd = @ - 1,
                    !.mo[t].st = IF @ = "none" THEN @ ELSE "done"]
  BY <1>7, <1>8 DEF SpCmdDone
<1>10. SpRec(v)
  BY <1>0, <1>9, ZenonT(60) DEF SpRec
<1>11. /\ v.esme = [w.esme EXCEPT ![e] = [w.esme[e] EXCEPT !.cmds = w.esme[e].cmds \ {cmd}]]
       /\ v.uses = [w.uses EXCEPT !.cmd = w.uses.cmd - 1]
       /\ v.mo = [w.mo EXCEPT ![t] = [w.mo[t] EXCEPT !.st = IF w.mo[t].st = "none" THEN w.mo[t].st ELSE "done"]]
  BY <1>0, <1>9, SMTT(30) DEF SpRec
<1>12. v.acls = w.acls /\ v.def = w.def /\ v.fwd = w.fwd /\ v.ub = w.ub
  BY <1>0, <1>9, SMTT(30) DEF SpRec
<1>13. v.mo \in [SpTids -> SpMoT]
  <2>1. w.mo[t] \in SpMoT
    BY <1>0, <1>1, <1>7
  <2>2. [w.mo[t] EXCEPT !.st = IF w.mo[t].st = "none" THEN w.mo[t].st ELSE "done"] \in SpMoT
    BY <2>1, SMTT(30) DEF SpMoT
  <2> QED BY ZenonT(30), <1>0, <1>11, <2>2
<1>14. C \in SUBSET SpCmds
  BY <1>1, <1>3
<1>15. /\ v.esme = [w.esme EXCEPT ![e] = [w.esme[e] EXCEPT !.cmds = C]]
       /\ v.uses = [w.uses EXCEPT !.cmd = w.uses.cmd - Cardinality(w.esme[e].cmds) + Cardinality(C)]
  BY <1>3, <1>6, <1>11
<1>16. SpGood(v, x, r)
  <2>1. SpRecmd(w, v, e, C)
    BY <1>10, <1>12, <1>13, <1>15 DEF SpRecmd
  <2> QED BY <1>1, <1>14, <2>1, SpCmdsKeep
<1> QED BY <1>8, <1>16

\* A change that no use depends on.
SpAlike(w, v) ==
  /\ SpRec(v) /\ v.fwd = w.fwd /\ v.uses = w.uses /\ v.ub = w.ub
  /\ v.mo \in [SpTids -> SpMoT] /\ v.def \in SpIds \cup {SpNone, SpGone}
  /\ v.acls \in [SpIds -> SpAclT]
  /\ \A i \in SpIds : v.acls[i].esme \in SpEsmes =>
       v.acls[i].esme = w.acls[i].esme \/ w.esme[v.acls[i].esme].st # "free"
  /\ v.esme \in [SpEsmes -> SpEsmeT]
  /\ \A d \in SpEsmes : /\ v.esme[d].use = w.esme[d].use /\ v.esme[d].st = w.esme[d].st
                        /\ v.esme[d].cmds = w.esme[d].cmds

\* What is alike in all that is counted or pointed to is in order as well.
LEMMA SpAlikeKeeps ==
  ASSUME NEW w, NEW x, NEW r, SpGood(w, x, r), NEW v, SpAlike(w, v)
  PROVE  SpGood(v, x, r)
<1>1. /\ SpRec(v) /\ v.fwd = w.fwd /\ v.uses = w.uses /\ v.ub = w.ub
      /\ \A d \in SpEsmes : /\ v.esme[d].use = w.esme[d].use /\ v.esme[d].st = w.esme[d].st
                            /\ v.esme[d].cmds = w.esme[d].cmds
  BY DEF SpAlike
<1>2. SpTyped(v)
  BY DEF SpGood, SpTyped, SpAlike
<1>3. ASSUME ~v.ub
      PROVE  /\ SpCounted(v.esme, v.fwd, x)
             /\ SpLinked(v.acls, v.esme)
             /\ SpUsed(v.uses, v.fwd, v.esme, r)
  <2>1. /\ SpCounted(w.esme, w.fwd, x) /\ SpLinked(w.acls, w.esme)
        /\ SpUsed(w.uses, w.fwd, w.esme, r)
    BY <1>1, <1>3 DEF SpGood
  <2>2. SpCounted(v.esme, v.fwd, x)
    BY <1>1, <2>1 DEF SpCounted
  <2>3. SpLinked(v.acls, v.esme)
    <3>1. \A i \in SpIds : v.acls[i].esme \in SpEsmes =>
            v.acls[i].esme = w.acls[i].esme \/ w.esme[v.acls[i].esme].st # "free"
      BY DEF SpAlike
    <3> QED BY <1>1, <2>1, <3>1 DEF SpLinked
  <2>4. SpPending(v.esme) = SpPending(w.esme)
    BY <1>1 DEF SpPending
  <2> QED BY <1>1, <2>1, <2>2, <2>3, <2>4 DEF SpUsed
<1> QED BY <1>1, <1>2, <1>3 DEF SpGood

\* The same with another record for one ESME.
LEMMA SpSetAlike ==
  ASSUME NEW w, SpRec(w), SpTyped(w), NEW e \in SpEsmes, NEW q \in SpEsmeT,
         q.use = w.esme[e].use, q.st = w.esme[e].st, q.cmds = w.esme[e].cmds
  PROVE  SpAlike(w, SpSet(w, e, q))
<1>1. PICK v : v = SpSet(w, e, q)
  OBVIOUS
<1>2. /\ SpRec(v) /\ v.esme = [w.esme EXCEPT ![e] = q]
      /\ v.acls = w.acls /\ v.routes = w.routes /\ v.def = w.def /\ v.fwd = w.fwd
      /\ v.mo = w.mo /\ v.uses = w.uses /\ v.srv = w.srv /\ v.ub = w.ub
  <2>1. SpSetTo(w, e, q, v)
    BY ZenonT(30), <1>1, SpSetIs
  <2> QED BY ZenonT(30), <2>1 DEF SpSetTo
<1>3. w.esme \in [SpEsmes -> SpEsmeT]
  BY DEF SpTyped
<1>4. /\ v.esme \in [SpEsmes -> SpEsmeT] /\ v.esme[e] = q
      /\ \A d \in SpEsmes : d # e => v.esme[d] = w.esme[d]
  BY <1>2, <1>3
<1>5. \A d \in SpEsmes : /\ v.esme[d].use = w.esme[d].use /\ v.esme[d].st = w.esme[d].st
                         /\ v.esme[d].cmds = w.esme[d].cmds
  BY <1>4
<1>6. SpAlike(w, v)
  BY <1>2, <1>4, <1>5 DEF SpTyped, SpAlike
<1> QED BY <1>1, <1>6

\* The invariant: the state is in order.
SpIInv == SpGood(SpW, SpNone, 0)

\* The fields of the state
LEMMA SpFields ==
  /\ SpRec(SpW) /\ SpW.acls = spAcls /\ SpW.routes = spRoutes /\ SpW.def = spDef
  /\ SpW.esme = spEsme /\ SpW.fwd = spFwd /\ SpW.mo = spMo /\ SpW.uses = spUses
  /\ SpW.srv = spSrv /\ SpW.ub = spUb
  BY SMTT(30) DEF SpRec, SpW

\* An action whose result is in order keeps the invariant.
LEMMA SpBecame ==
  ASSUME NEW v, SpGood(v, SpNone, 0), SpApply(v)
  PROVE  SpIInv'
<1>1. SpRec(v)
  BY DEF SpGood
<1>2. /\ spAcls' = v.acls /\ spRoutes' = v.routes /\ spDef' = v.def /\ spEsme' = v.esme
      /\ spFwd' = v.fwd /\ spMo' = v.mo /\ spUses' = v.uses /\ spSrv' = v.srv /\ spUb' = v.ub
  BY DEF SpApply
<1>3. SpW' = v
  BY <1>1, <1>2 DEF SpW, SpRec
<1> QED BY <1>3 DEF SpIInv

\* What an action starts from
LEMMA SpStart ==
  ASSUME SpIInv
  PROVE  /\ SpGood(SpW, SpNone, 0) /\ SpRec(SpW) /\ SpTyped(SpW)
         /\ spEsme \in [SpEsmes -> SpEsmeT] /\ spAcls \in [SpIds -> SpAclT]
         /\ spMo \in [SpTids -> SpMoT] /\ spFwd \in [SpFwds -> SpEsmes \cup {SpNone}]
         /\ spDef \in SpIds \cup {SpNone, SpGone}
  BY SpFields DEF SpIInv, SpGood, SpTyped

\* link_accept_cb()
LEMMA SpAcceptStep ==
  ASSUME SpIInv, NEW e \in SpEsmes, SpAccept(e)
  PROVE  SpIInv'
<1> DEFINE q == [SpNoEsme EXCEPT !.st = "open", !.use = 1]
           v == SpSet(SpW, e, q)
<1>0. SpGood(SpW, SpNone, 0) /\ SpRec(SpW) /\ spEsme[e] \in SpEsmeT
  BY SpStart
<1>1. spEsme[e].st = "free" /\ ~spUb /\ SpApply([SpW EXCEPT !.esme[e] = q])
  BY DEF SpAccept, SpBecome, SpApply
<1>2. v = [SpW EXCEPT !.esme[e] = q]
  BY SMTT(30) DEF SpSet
<1>3. q \in SpEsmeT /\ q.use = 1 /\ q.st = "open" /\ q.cmds = {}
  <2>1. SpNoEsme \in SpEsmeR /\ SpNoEsme.cmds = {}
    BY SpNoEsmeTyped DEF SpEsmeT
  <2>2. PICK o : o = [SpNoEsme EXCEPT !.st = "open"]
    OBVIOUS
  <2>3. o \in SpEsmeR /\ o.st = "open" /\ o.cmds = {}
    BY <2>1, <2>2, SMTT(30) DEF SpEsmeR
  <2>4. q = [o EXCEPT !.use = 1]
    BY <2>2
  <2> HIDE DEF q
  <2>5. q \in SpEsmeR /\ q.use = 1 /\ q.st = "open" /\ q.cmds = {}
    BY <2>3, <2>4, SMTT(30) DEF SpEsmeR
  <2> QED BY <2>5 DEF SpEsmeT
<1>4. spEsme[e] = SpNoEsme
  BY ZenonT(30), <1>0, <1>1 DEF SpEsmeT
<1> HIDE DEF q
<1>5. q.use = Cardinality(SpFwdOf(SpW.fwd, e)) + Num(q.st = "open") + Num(e = SpNone)
  <2>1. SpW.esme[e].use = Cardinality(SpFwdOf(SpW.fwd, e)) + Num(SpW.esme[e].st = "open") + Num(e = SpNone)
    BY <1>0, <1>1, SpFields DEF SpGood, SpCounted
  <2>2. SpW.esme[e].use = 0 /\ SpW.esme[e].st = "free"
    BY <1>4, SpFields, SpNoEsmeTyped
  <2>3. Num(SpW.esme[e].st = "open") = 0 /\ Num(e = SpNone) = 0 /\ Num(q.st = "open") = 1
    BY <1>3, <2>2, SpAssumption DEF Num
  <2>4. Cardinality(SpFwdOf(SpW.fwd, e)) \in Nat
    <3>1. SpFwdOf(SpW.fwd, e) \in SUBSET SpFwds
      BY DEF SpFwdOf
    <3>2. IsFiniteSet(SpFwdOf(SpW.fwd, e))
      BY <3>1, SpAssumption, FS_Subset
    <3> QED BY <3>2, FS_CardinalityType
  <2> QED BY <1>3, <2>1, <2>2, <2>3, <2>4, SMTT(30)
<1>6. SpGood(v, SpNone, 0)
  <2>1. /\ q.use = Cardinality(SpFwdOf(SpW.fwd, e)) + Num(q.st = "open") + Num(e = SpNone)
        /\ q.cmds = SpW.esme[e].cmds /\ q.st # "free"
    BY <1>3, <1>4, <1>5, SpFields, SpNoEsmeTyped
  <2> QED BY <1>0, <1>3, <2>1, SpSetKeeps
<1> HIDE DEF v
<1> QED BY <1>1, <1>2, <1>6, SpBecame

\* smpp_handle_enq_link()
LEMMA SpEnquireStep ==
  ASSUME SpIInv, NEW e \in SpEsmes, SpEnquire(e)
  PROVE  SpIInv'
<1>1. SpGood(SpW, SpNone, 0)
  BY SpStart
<1>2. SpGood(SpPackAndSend(SpW, e), SpNone, 0)
  BY <1>1, SpPackAndSendKeeps
<1>3. SpApply(SpPackAndSend(SpW, e))
  BY DEF SpEnquire, SpBecome
<1> QED BY <1>2, <1>3, SpBecame

\* dead_socket
LEMMA SpDeadStep ==
  ASSUME SpIInv, NEW e \in SpEsmes, SpDead(e)
  PROVE  SpIInv'
<1>1. SpGood(SpW, SpNone, 0) /\ SpW.esme[e].st = "open"
  BY SpStart, SpFields DEF SpDead
<1>2. SpGood(SpDeadSocket(SpW, e), SpNone, 0)
  BY <1>1, SpDeadSocketKeeps
<1>3. SpApply(SpDeadSocket(SpW, e))
  BY DEF SpDead, SpBecome
<1> QED BY <1>2, <1>3, SpBecame

\* esme_link_write_cb(); only an open ESME has something to write.
LEMMA SpWriteStep ==
  ASSUME SpIInv, NEW e \in SpEsmes, SpWrite(e)
  PROVE  SpIInv'
<1> DEFINE q == [SpW.esme[e] EXCEPT !.wq = SpW.esme[e].wq - 1]
           v == SpSet(SpW, e, q)
<1>0. SpGood(SpW, SpNone, 0) /\ SpRec(SpW) /\ SpTyped(SpW) /\ SpW.esme[e] \in SpEsmeT /\ SpW.esme[e].wq > 0
  BY SpStart, SpFields DEF SpWrite
<1>1. SpW.esme[e].wq \in 0..SpMaxWq /\ SpW.esme[e].st \in {"free", "open", "closed"}
      /\ (SpW.esme[e].st = "closed" => SpW.esme[e].wq = 0)
      /\ (SpW.esme[e].st = "free" => SpW.esme[e].wq = 0)
  BY ZenonT(30), <1>0, SpNoEsmeTyped DEF SpEsmeT, SpEsmeR
<1>2. SpW.esme[e].wq - 1 \in 0..SpMaxWq /\ SpW.esme[e].wq # 0
  BY <1>0, <1>1, SpAssumption, SMTT(30)
<1>3. SpW.esme[e].st = "open"
  BY <1>1, <1>2
<1>4. q \in SpEsmeT /\ q.use = SpW.esme[e].use /\ q.st = SpW.esme[e].st /\ q.cmds = SpW.esme[e].cmds
  BY <1>0, <1>2, <1>3, SpEsmeField
<1>5. v = [SpW EXCEPT !.esme[e].wq = @ - 1]
  BY SMTT(30) DEF SpSet
<1> HIDE DEF q
<1>6. SpAlike(SpW, v)
  BY <1>0, <1>4, SpSetAlike
<1>7. SpApply([SpW EXCEPT !.esme[e].wq = @ - 1])
  BY DEF SpWrite, SpBecome
<1> HIDE DEF v
<1>8. SpGood(v, SpNone, 0)
  BY <1>0, <1>6, SpAlikeKeeps
<1> QED BY <1>5, <1>7, <1>8, SpBecame

\* smpp_handle_unbind()
LEMMA SpUnbindStep ==
  ASSUME SpIInv, NEW e \in SpEsmes, SpUnbind(e)
  PROVE  SpIInv'
<1> DEFINE q == [SpW.esme[e] EXCEPT !.bind = {}]
           v == SpSet(SpW, e, q)
<1>0. SpGood(SpW, SpNone, 0) /\ SpRec(SpW) /\ SpTyped(SpW) /\ SpW.esme[e] \in SpEsmeT /\ SpW.esme[e].st = "open"
  BY SpStart, SpFields DEF SpUnbind
<1>1. q \in SpEsmeT /\ q.use = SpW.esme[e].use /\ q.st = SpW.esme[e].st /\ q.cmds = SpW.esme[e].cmds
  <2>1. {} \in {{}} \cup SpFlags /\ SpW.esme[e].st # "free"
    BY <1>0
  <2> QED BY <1>0, <2>1, SpEsmeField
<1>2. v = [SpW EXCEPT !.esme[e].bind = {}]
  BY SMTT(30) DEF SpSet
<1> HIDE DEF q
<1>3. SpAlike(SpW, v)
  BY <1>0, <1>1, SpSetAlike
<1>4. SpApply(SpPackAndSend([SpW EXCEPT !.esme[e].bind = {}], e))
  BY DEF SpUnbind, SpBecome
<1> HIDE DEF v
<1>5. SpGood(v, SpNone, 0)
  BY <1>0, <1>3, SpAlikeKeeps
<1>6. SpGood(SpPackAndSend(v, e), SpNone, 0)
  BY <1>5, SpPackAndSendKeeps
<1>7. SpApply(SpPackAndSend(v, e))
  BY <1>2, <1>4
<1> QED BY <1>6, <1>7, SpBecame

\* _process_bind()
LEMMA SpProcessBindKeeps ==
  ASSUME NEW w, SpGood(w, SpNone, 0), NEW e \in SpEsmes, w.esme[e].st = "open",
         NEW flags \in SpFlags, NEW id \in SpIds, NEW verOk, NEW pwOk
  PROVE  SpGood(SpProcessBind(w, e, flags, id, verOk, pwOk), SpNone, 0)
<1>0. SpRec(w) /\ SpTyped(w) /\ w.esme[e] \in SpEsmeT /\ w.esme \in [SpEsmes -> SpEsmeT]
      /\ w.acls \in [SpIds -> SpAclT] /\ w.acls[id] \in SpAclT /\ w.esme[e].st # "free"
  BY DEF SpGood, SpTyped
<1>1. PICK q : q = [w.esme[e] EXCEPT !.bind = flags]
  OBVIOUS
<1>2. q \in SpEsmeT /\ q.use = w.esme[e].use /\ q.st = w.esme[e].st /\ q.cmds = w.esme[e].cmds
  <2>1. flags \in {{}} \cup SpFlags
    OBVIOUS
  <2> QED BY <1>0, <1>1, <2>1, SpEsmeField
<1>3. PICK p : p = [q EXCEPT !.acl = id]
  OBVIOUS
<1>4. p \in SpEsmeT /\ p.use = w.esme[e].use /\ p.st = w.esme[e].st /\ p.cmds = w.esme[e].cmds
  <2>1. id \in SpIds \cup {SpNone, SpGone} /\ q.st # "free"
    BY <1>0, <1>2
  <2>2. p \in SpEsmeT /\ p.use = q.use /\ p.st = q.st /\ p.cmds = q.cmds
    BY <1>2, <1>3, <2>1, SpEsmeField
  <2> QED BY <1>2, <2>2
<1>5. SpGood(SpSet(w, e, q), SpNone, 0)
  <2>1. SpAlike(w, SpSet(w, e, q))
    BY <1>0, <1>2, SpSetAlike
  <2> QED BY <2>1, SpAlikeKeeps
<1>6. PICK u : u = SpSet(w, e, p)
  OBVIOUS
<1>7. SpGood(u, SpNone, 0)
  <2>1. SpAlike(w, u)
    BY <1>0, <1>4, <1>6, SpSetAlike
  <2> QED BY <2>1, SpAlikeKeeps
<1>8. /\ SpRec(u) /\ u.esme = [w.esme EXCEPT ![e] = p] /\ u.acls = w.acls /\ u.ub = w.ub
  <2>1. SpSetTo(w, e, p, u)
    BY ZenonT(30), <1>0, <1>6, SpSetIs
  <2> QED BY ZenonT(30), <2>1 DEF SpSetTo
<1>9. PICK b : b = [w.acls[id] EXCEPT !.esme = e]
  OBVIOUS
<1>10. b \in SpAclT /\ b.esme = e
  BY <1>0, <1>9, SMTT(30) DEF SpAclT
<1>11. PICK a : a = [w.acls EXCEPT ![id] = b]
  OBVIOUS
<1>12. a \in [SpIds -> SpAclT] /\ \A i \in SpIds : a[i] = w.acls[i] \/ a[i].esme = e
  BY <1>0, <1>10, <1>11
<1>13. ~u.ub => SpLinked(a, u.esme)
  <2>1. ~u.ub => SpLinked(u.acls, u.esme)
    BY <1>7 DEF SpGood
  <2>2. u.esme[e].st # "free"
    BY <1>0, <1>4, <1>8
  <2> QED BY ZenonT(30), <1>8, <1>12, <2>1, <2>2 DEF SpLinked
<1>14. SpGood([u EXCEPT !.acls = a], SpNone, 0)
  BY <1>7, <1>12, <1>13, SpAclsKeep
<1>15. [w EXCEPT !.esme[e].bind = flags] = SpSet(w, e, q)
  BY <1>1, SMTT(30) DEF SpSet
<1>16. [w EXCEPT !.esme[e].bind = flags, !.esme[e].acl = id, !.acls[id].esme = e]
         = [u EXCEPT !.acls = a]
  <2>1. PICK z : z = SpSet(w, e, q)
    OBVIOUS
  <2>2. z.esme = [w.esme EXCEPT ![e] = q] /\ SpRec(z) /\ z.acls = w.acls
    <3>1. SpSetTo(w, e, q, z)
      BY ZenonT(30), <1>0, <2>1, SpSetIs
    <3> QED BY ZenonT(30), <3>1 DEF SpSetTo
  <2>3. z.esme[e] = q
    BY <1>0, <2>2
  <2>4. [z EXCEPT !.esme[e].acl = id] = SpSet(z, e, p)
    BY <1>3, <2>3, SMTT(30) DEF SpSet
  <2>5. SpSet(z, e, p) = u
    <3>1. [z.esme EXCEPT ![e] = p] = [w.esme EXCEPT ![e] = p]
      BY <1>0, <2>2
    <3>2. SpSet(z, e, p) = [z EXCEPT !.esme = [w.esme EXCEPT ![e] = p]]
      BY ZenonT(30), <3>1 DEF SpSet
    <3>3. PICK g : g = [w.esme EXCEPT ![e] = p]
      OBVIOUS
    <3>4. PICK h : h = [w.esme EXCEPT ![e] = q]
      OBVIOUS
    <3>5. z = [w EXCEPT !.esme = h]
      BY <2>1, <3>4 DEF SpSet
    <3>6. [z EXCEPT !.esme = g] = [w EXCEPT !.esme = g]
      BY <1>0, <2>2, <3>5, ZenonT(60) DEF SpRec
    <3> QED BY <1>6, <3>2, <3>3, <3>6 DEF SpSet
  <2>6. [u EXCEPT !.acls[id].esme = e] = [u EXCEPT !.acls = a]
    <3>1. u.acls[id] = w.acls[id]
      BY <1>8
    <3>2. [u.acls EXCEPT ![id] = [u.acls[id] EXCEPT !.esme = e]] = a
      BY <1>8, <1>9, <1>11
    <3>3. [u EXCEPT !.acls[id].esme = e] = [u EXCEPT !.acls = [u.acls EXCEPT ![id] = [u.acls[id] EXCEPT !.esme = e]]]
      BY SMTT(30)
    <3> QED BY <3>2, <3>3
  <2>7. [w EXCEPT !.esme[e].bind = flags, !.esme[e].acl = id, !.acls[id].esme = e]
          = [[[w EXCEPT !.esme[e].bind = flags] EXCEPT !.esme[e].acl = id] EXCEPT !.acls[id].esme = e]
    OBVIOUS
  <2> QED BY ZenonT(30), <1>15, <2>1, <2>4, <2>5, <2>6, <2>7
<1> QED BY <1>5, <1>14, <1>15, <1>16 DEF SpProcessBind

\* smpp_handle_bind_rx(), smpp_handle_bind_tx(), smpp_handle_bind_trx()
LEMMA SpBindStep ==
  ASSUME SpIInv, NEW e \in SpEsmes, NEW flags \in SpFlags, NEW id \in SpIds,
         NEW v, NEW p, SpBind(e, flags, id, v, p)
  PROVE  SpIInv'
<1>1. SpGood(SpW, SpNone, 0) /\ SpW.esme[e].st = "open"
  BY SpStart, SpFields DEF SpBind
<1>2. SpGood(SpProcessBind(SpW, e, flags, id, v, p), SpNone, 0)
  BY <1>1, SpProcessBindKeeps
<1>3. SpGood(SpPackAndSend(SpProcessBind(SpW, e, flags, id, v, p), e), SpNone, 0)
  BY <1>2, SpPackAndSendKeeps
<1>4. SpApply(SpPackAndSend(SpProcessBind(SpW, e, flags, id, v, p), e))
  BY DEF SpBind, SpBecome
<1> QED BY <1>3, <1>4, SpBecame

\* smpp_handle_submit()
LEMMA SpSubmitStep ==
  ASSUME SpIInv, NEW e \in SpEsmes, NEW pdu \in SpPduOf(e), NEW s \in SpFwds,
         NEW busy \in BOOLEAN, busy => pdu = SpForward, SpSubmit(e, pdu, s, busy)
  PROVE  SpIInv'
<1>1. SpGood(SpW, SpNone, 0) /\ SpW.esme[e].st = "open" /\ SpW.fwd[s] = SpNone
  BY SpStart, SpFields DEF SpSubmit
<1>2. CASE "TX" \in spEsme[e].bind
  <2>1. pdu \in SpPdus
    BY <1>2 DEF SpPduOf
  <2>2. SpGood(SpHandleSubmit(SpW, e, pdu, s, busy), SpNone, 0)
    BY <1>1, <2>1, SpHandleSubmitKeeps
  <2>3. SpApply(SpHandleSubmit(SpW, e, pdu, s, busy))
    BY <1>2 DEF SpSubmit, SpBecome
  <2> QED BY <2>2, <2>3, SpBecame
<1>3. CASE "TX" \notin spEsme[e].bind
  <2>2. SpGood(SpPackAndSend(SpW, e), SpNone, 0)
    BY <1>1, SpPackAndSendKeeps
  <2>3. SpApply(SpPackAndSend(SpW, e))
    BY <1>3 DEF SpSubmit, SpBecome
  <2> QED BY <2>2, <2>3, SpBecame
<1> QED BY <1>2, <1>3

\* The end of a forward mode SMS
LEMMA SpFwdEndsStep ==
  ASSUME SpIInv, NEW s \in SpFwds, NEW told \in BOOLEAN, SpFwdEnds(s, told)
  PROVE  SpIInv'
<1> DEFINE e == spFwd[s]
           w == [SpW EXCEPT !.fwd[s] = SpNone]
           u == IF told THEN SpPackAndSend(w, e) ELSE w
<1>1. SpGood(SpW, SpNone, 0) /\ SpRec(SpW) /\ e \in SpEsmes /\ SpW.fwd[s] = e
  BY SpStart, SpFields DEF SpFwdEnds
<1>2. ~SpW.ub /\ SpApply(SpSmsFree(u, e, TRUE))
  BY SpFields DEF SpFwdEnds, SpBecome, SpApply
<1>3. w = SpWithFwd(SpW, [SpW.fwd EXCEPT ![s] = SpNone])
  BY SMTT(30) DEF SpWithFwd
<1> HIDE DEF e, w
<1>4. SpGood(w, e, 1) /\ w.esme[e].st # "free"
  BY <1>1, <1>2, <1>3, SpFwdGone
<1>5. SpGood(u, e, 1) /\ u.esme[e].st # "free"
  <2>1. e \in SpEsmes \cup {SpNone} /\ e \in {SpNone, e}
    BY <1>1
  <2>2. SpGood(SpPackAndSend(w, e), e, 1) /\ SpPackAndSend(w, e).esme[e].st = w.esme[e].st
    BY ZenonT(30), <1>1, <1>4, <2>1, SpPackAndSendKeeps
  <2> QED BY <1>4, <2>2
<1> HIDE DEF u
<1>6. SpGood(u, e, Num(TRUE))
  BY <1>5 DEF Num
<1>7. SpGood(SpSmsFree(u, e, TRUE), SpNone, 0)
  BY <1>1, <1>5, <1>6, SpSmsFreeKeeps
<1> QED BY <1>2, <1>7, SpBecame

\* The state with other MO SMS
LEMMA SpMoAlike ==
  ASSUME NEW w, SpRec(w), SpTyped(w), NEW m \in [SpTids -> SpMoT]
  PROVE  LET v == [w EXCEPT !.mo = m] IN SpAlike(w, v) /\ v.mo = m /\ v.esme = w.esme
<1>1. PICK v : v = [w EXCEPT !.mo = m]
  OBVIOUS
<1>2. SpRec(v)
  BY <1>1, ZenonT(60) DEF SpRec
<1>3. /\ v.esme = w.esme /\ v.acls = w.acls /\ v.def = w.def /\ v.fwd = w.fwd
      /\ v.mo = m /\ v.uses = w.uses /\ v.ub = w.ub
  BY <1>1, SMTT(30) DEF SpRec
<1>4. SpAlike(w, v)
  BY <1>2, <1>3 DEF SpTyped, SpAlike
<1> QED BY <1>1, <1>3, <1>4

\* smpp_try_deliver()
LEMMA SpTryDeliverStep ==
  ASSUME SpIInv, NEW t \in SpTids, NEW ref \in SpRefs, NEW match \in SUBSET SpIds,
         SpTryDeliver(t, ref, match)
  PROVE  SpIInv'
<1> DEFINE r == SpRoute(SpW, match)
           w == [SpW EXCEPT !.mo[t] = [ref |-> ref, st |-> "done"]]
           m == [SpW.mo EXCEPT ![t] = [ref |-> ref, st |-> "done"]]
           v == CASE r = "ub" -> SpUb(w)
                  [] r \in SpEsmes -> SpDeliverToEsme(w, r, t)
                  [] OTHER -> w
<1>0. SpGood(SpW, SpNone, 0) /\ SpRec(SpW) /\ SpTyped(SpW) /\ SpW.mo \in [SpTids -> SpMoT]
  BY SpStart, SpFields
<1>1. /\ \A e \in SpEsmes : [tid |-> t, ref |-> ref] \notin SpW.esme[e].cmds
      /\ SpApply(v)
  BY SpFields DEF SpTryDeliver, SpBecome
<1>2. w = [SpW EXCEPT !.mo = m]
  BY SMTT(30)
<1>3. m \in [SpTids -> SpMoT] /\ m[t].ref = ref
  <2>1. [ref |-> ref, st |-> "done"] \in SpMoT
    BY SMTT(30) DEF SpMoT
  <2> QED BY <1>0, <2>1
<1> HIDE DEF m, w, r
<1>4. SpAlike(SpW, w) /\ w.mo = m /\ w.esme = SpW.esme
  BY <1>0, <1>2, <1>3, SpMoAlike
<1>5. SpGood(w, SpNone, 0)
  BY <1>0, <1>4, SpAlikeKeeps
<1>6. SpRec(w) /\ SpTyped(w)
  BY <1>5 DEF SpGood
<1>7. SpGood(SpUb(w), SpNone, 0)
  BY <1>6, SpUbGood
<1>8. ASSUME r \in SpEsmes PROVE SpGood(SpDeliverToEsme(w, r, t), SpNone, 0)
  <2>1. w.mo[t].ref \in SpRefs /\ [tid |-> t, ref |-> w.mo[t].ref] \notin w.esme[r].cmds
    BY <1>1, <1>3, <1>4, <1>8
  <2> QED BY <1>5, <1>8, <2>1, SpDeliverToEsmeKeeps
<1>9. v = SpUb(w) \/ (r \in SpEsmes /\ v = SpDeliverToEsme(w, r, t)) \/ v = w
  BY SMTT(30)
<1> HIDE DEF v
<1>10. SpGood(v, SpNone, 0)
  BY <1>5, <1>7, <1>8, <1>9
<1> QED BY <1>1, <1>10, SpBecame

\* The transaction of an MO SMS ends.
LEMMA SpMoEndsStep ==
  ASSUME SpIInv, NEW t \in SpTids, SpMoEnds(t)
  PROVE  SpIInv'
<1> DEFINE m == [SpW.mo EXCEPT ![t] = SpNoMo]
           w == [SpW EXCEPT !.mo[t] = SpNoMo]
<1>0. SpGood(SpW, SpNone, 0) /\ SpRec(SpW) /\ SpTyped(SpW) /\ SpW.mo \in [SpTids -> SpMoT]
  BY SpStart, SpFields
<1>1. SpApply(w)
  BY DEF SpMoEnds, SpBecome
<1>2. w = [SpW EXCEPT !.mo = m]
  BY SMTT(30)
<1>3. m \in [SpTids -> SpMoT]
  <2>1. SpNoMo \in SpMoT
    BY SMTT(30) DEF SpMoT, SpNoMo
  <2> QED BY <1>0, <2>1
<1> HIDE DEF m, w
<1>4. SpAlike(SpW, w)
  BY <1>0, <1>2, <1>3, SpMoAlike
<1>5. SpGood(w, SpNone, 0)
  BY <1>0, <1>4, SpAlikeKeeps
<1> QED BY <1>1, <1>5, SpBecame

\* smpp_handle_deliver_resp() and smpp_deliver_sm_cb()
LEMMA SpCmdDoneStep ==
  ASSUME SpIInv, NEW e \in SpEsmes, NEW cmd \in SpCmds,
         SpDeliverResp(e, cmd) \/ SpCmdTimeout(e, cmd)
  PROVE  SpIInv'
<1>1. SpGood(SpW, SpNone, 0) /\ cmd \in SpW.esme[e].cmds /\ SpApply(SpCmdDone(SpW, e, cmd))
  BY SpStart, SpFields DEF SpDeliverResp, SpCmdTimeout, SpBecome
<1>2. SpGood(SpCmdDone(SpW, e, cmd), SpNone, 0)
  BY <1>1, SpCmdDoneKeeps
<1> QED BY <1>1, <1>2, SpBecame

\* alert_all_esme()
LEMMA SpAlertAllStep ==
  ASSUME SpIInv, SpAlertAll
  PROVE  SpIInv'
<1> DEFINE bound == {e \in SpEsmes : spEsme[e].bind # {}}
           wants == {e \in bound : spEsme[e].acl \notin SpQuiet}
           f == [e \in SpEsmes |-> IF e \in wants THEN SpPackAndSend(SpW, e).esme[e] ELSE SpW.esme[e]]
           v == [SpW EXCEPT !.esme = f]
<1>0. SpGood(SpW, SpNone, 0) /\ SpRec(SpW) /\ SpTyped(SpW) /\ SpW.esme \in [SpEsmes -> SpEsmeT]
  BY SpStart, SpFields
<1>1. SpApply(IF \E e \in bound : spEsme[e].acl = SpGone THEN SpUb(SpW) ELSE v)
  BY DEF SpAlertAll, SpBecome
<1>2. ASSUME NEW e \in SpEsmes
      PROVE  LET q == SpPackAndSend(SpW, e).esme[e]
             IN  /\ q \in SpEsmeT /\ q.use = SpW.esme[e].use /\ q.st = SpW.esme[e].st
                 /\ q.cmds = SpW.esme[e].cmds
  <2>1. SpNone \in SpEsmes \cup {SpNone} /\ SpNone \in {SpNone, e}
    OBVIOUS
  <2>2. PICK u : u = SpPackAndSend(SpW, e)
    OBVIOUS
  <2>3. SpGood(u, SpNone, 0) /\ u.esme[e].st = SpW.esme[e].st /\ u.fwd = SpW.fwd /\ u.ub = SpW.ub
        /\ u.esme[e].cmds = SpW.esme[e].cmds
    BY ZenonT(30), <1>0, <2>1, <2>2, SpPackAndSendKeeps
  <2>4. u.esme[e] \in SpEsmeT
    BY <2>3 DEF SpGood, SpTyped
  <2>5. ~SpW.ub
    BY <1>1, SpFields DEF SpApply
  <2>6. /\ u.esme[e].use = Cardinality(SpFwdOf(u.fwd, e)) + Num(u.esme[e].st = "open") + Num(e = SpNone)
        /\ SpW.esme[e].use = Cardinality(SpFwdOf(SpW.fwd, e)) + Num(SpW.esme[e].st = "open") + Num(e = SpNone)
    BY <1>0, <2>3, <2>5 DEF SpGood, SpCounted
  <2>7. u.esme[e].use = SpW.esme[e].use
    BY <2>3, <2>6
  <2> QED BY <2>2, <2>3, <2>4, <2>7
<1>3. /\ f \in [SpEsmes -> SpEsmeT]
      /\ \A d \in SpEsmes : /\ f[d].use = SpW.esme[d].use /\ f[d].st = SpW.esme[d].st
                            /\ f[d].cmds = SpW.esme[d].cmds
  BY <1>0, <1>2
<1> HIDE DEF f
<1>4. SpGood(v, SpNone, 0)
  <2>1. v = [SpW EXCEPT !.esme = f]
    OBVIOUS
  <2> HIDE DEF v
  <2>2. SpRec(v)
    BY <1>0, <2>1, ZenonT(60) DEF SpRec
  <2>3. /\ v.esme = f /\ v.acls = SpW.acls /\ v.def = SpW.def /\ v.fwd = SpW.fwd
        /\ v.mo = SpW.mo /\ v.uses = SpW.uses /\ v.ub = SpW.ub
    BY <1>0, <2>1, SMTT(30) DEF SpRec
  <2>4. SpAlike(SpW, v)
    BY <1>0, <1>3, <2>2, <2>3 DEF SpTyped, SpAlike
  <2> QED BY <1>0, <2>4, SpAlikeKeeps
<1>5. SpGood(SpUb(SpW), SpNone, 0)
  BY <1>0, SpUbGood
<1> HIDE DEF v, bound
<1>6. CASE \E e \in bound : spEsme[e].acl = SpGone
  BY <1>1, <1>5, <1>6, SpBecame
<1>7. CASE ~ \E e \in bound : spEsme[e].acl = SpGone
  BY <1>1, <1>4, <1>7, SpBecame
<1> QED BY <1>6, <1>7

\* What the operator changes: ACLs, routes and the listening socket.
SpOperated(w, a, rt, d, sv) == [w EXCEPT !.acls = a, !.routes = rt, !.def = d, !.srv = sv]

\* No change of the operator's adds a use, or a pointer to an ESME other than the
\* one that was there.
LEMMA SpOperatedGood ==
  ASSUME NEW w, SpGood(w, SpNone, 0), NEW a \in [SpIds -> SpAclT], NEW rt, NEW sv,
         NEW d \in SpIds \cup {SpNone, SpGone},
         \A i \in SpIds : a[i].esme \in {w.acls[i].esme, SpNone, SpGone}
  PROVE  SpGood(SpOperated(w, a, rt, d, sv), SpNone, 0)
<1>0. SpRec(w) /\ SpTyped(w)
  BY DEF SpGood
<1>1. PICK v : v = SpOperated(w, a, rt, d, sv)
  OBVIOUS
<1>2. SpRec(v)
  BY <1>0, <1>1, ZenonT(60) DEF SpRec, SpOperated
<1>3. /\ v.esme = w.esme /\ v.acls = a /\ v.def = d /\ v.fwd = w.fwd
      /\ v.mo = w.mo /\ v.uses = w.uses /\ v.ub = w.ub
  BY <1>0, <1>1, SMTT(30) DEF SpRec, SpOperated
<1>4. SpAlike(w, v)
  <2>1. \A i \in SpIds : v.acls[i].esme \in SpEsmes =>
          v.acls[i].esme = w.acls[i].esme \/ w.esme[v.acls[i].esme].st # "free"
    BY <1>3, SpAssumption
  <2> QED BY <1>0, <1>2, <1>3, <2>1 DEF SpTyped, SpAlike
<1> QED BY <1>1, <1>4, SpAlikeKeeps

\* A flag of an ACL
LEMMA SpAclField ==
  ASSUME NEW b \in SpAclT, NEW n \in BOOLEAN
  PROVE  /\ [b EXCEPT !.on = n] \in SpAclT /\ [b EXCEPT !.on = n].esme = b.esme
         /\ [b EXCEPT !.route = n] \in SpAclT /\ [b EXCEPT !.route = n].esme = b.esme
  BY SMTT(30) DEF SpAclT

\* smpp_acl_alloc(), smpp_route_pfx_add(), smpp_route_pfx_del(), "default-route",
\* "no default-route" and smpp_smsc_restart()
LEMMA SpOperatorStep ==
  ASSUME SpIInv
  PROVE  /\ \A i \in SpIds : /\ SpAclAlloc(i) => SpIInv'
                             /\ SpRouteAdd(i) => SpIInv'
                             /\ SpRouteDel(i) => SpIInv'
                             /\ SpDefaultRoute(i) => SpIInv'
                             /\ SpNoDefaultRoute(i) => SpIInv'
         /\ \A newOk, oldOk \in BOOLEAN : SpRestart(newOk, oldOk) => SpIInv'
<1>0. SpGood(SpW, SpNone, 0) /\ SpRec(SpW) /\ SpTyped(SpW) /\ SpW.acls \in [SpIds -> SpAclT]
      /\ SpW.def \in SpIds \cup {SpNone, SpGone}
  BY SpStart, SpFields
<1>1. \A i \in SpIds : SpW.acls[i].esme \in {SpW.acls[i].esme, SpNone, SpGone}
  OBVIOUS
<1>2. ASSUME NEW i \in SpIds, SpAclAlloc(i) PROVE SpIInv'
  <2> DEFINE b == [SpNoAcl EXCEPT !.on = TRUE]
             a == [SpW.acls EXCEPT ![i] = b]
  <2>1. b \in SpAclT /\ b.esme = SpNone
    <3>1. SpNoAcl \in SpAclT /\ SpNoAcl.esme = SpNone
      BY SMTT(30) DEF SpAclT, SpNoAcl
    <3> QED BY <3>1, SpAclField
  <2>2. SpApply([SpW EXCEPT !.acls[i] = b])
    BY <1>2 DEF SpAclAlloc, SpEdit
  <2> HIDE DEF b
  <2>3. a \in [SpIds -> SpAclT] /\ \A j \in SpIds : a[j].esme \in {SpW.acls[j].esme, SpNone, SpGone}
    BY <1>0, <2>1
  <2>4. [SpW EXCEPT !.acls[i] = b] = SpOperated(SpW, a, SpW.routes, SpW.def, SpW.srv)
    <3>1. [SpW EXCEPT !.acls[i] = b] = [SpW EXCEPT !.acls = a]
      BY SMTT(30)
    <3> HIDE DEF a
    <3> QED BY <1>0, <3>1, ZenonT(60) DEF SpOperated, SpRec
  <2> HIDE DEF a
  <2>5. SpGood(SpOperated(SpW, a, SpW.routes, SpW.def, SpW.srv), SpNone, 0)
    BY <1>0, <2>3, SpOperatedGood
  <2> QED BY <2>2, <2>4, <2>5, SpBecame
<1>3. ASSUME NEW i \in SpIds, SpRouteAdd(i) PROVE SpIInv'
  <2> DEFINE b == [SpW.acls[i] EXCEPT !.route = TRUE]
             a == [SpW.acls EXCEPT ![i] = b]
             rt == Append(SpW.routes, i)
             v == [SpW EXCEPT !.acls[i].route = TRUE, !.routes = Append(@, i)]
             c == SpGone \in {spRoutes[n] : n \in DOMAIN spRoutes}
  <2>1. b \in SpAclT /\ b.esme = SpW.acls[i].esme
    <3>1. SpW.acls[i] \in SpAclT
      BY <1>0
    <3> QED BY <3>1, SpAclField
  <2>2. SpApply(IF c THEN SpUb(v) ELSE v)
    BY <1>3 DEF SpRouteAdd, SpEdit
  <2>3. v = [SpW EXCEPT !.acls = a, !.routes = rt]
    BY <1>0, SMTT(30) DEF SpRec
  <2> HIDE DEF b, rt, v, c
  <2>4. a \in [SpIds -> SpAclT] /\ \A j \in SpIds : a[j].esme \in {SpW.acls[j].esme, SpNone, SpGone}
    BY <1>0, <2>1
  <2> HIDE DEF a
  <2>5. v = SpOperated(SpW, a, rt, SpW.def, SpW.srv)
    BY <1>0, <2>3, ZenonT(60) DEF SpOperated, SpRec
  <2>6. SpGood(v, SpNone, 0)
    BY <1>0, <2>4, <2>5, SpOperatedGood
  <2>7. SpGood(SpUb(v), SpNone, 0)
    BY <2>6, SpUbGood DEF SpGood
  <2>8. CASE c
    BY <2>2, <2>7, <2>8, SpBecame
  <2>9. CASE ~c
    BY <2>2, <2>6, <2>9, SpBecame
  <2> QED BY <2>8, <2>9
<1>4. ASSUME NEW i \in SpIds, SpRouteDel(i) PROVE SpIInv'
  <2> DEFINE b == [SpW.acls[i] EXCEPT !.route = FALSE]
             a == [SpW.acls EXCEPT ![i] = b]
             rt == [n \in DOMAIN SpW.routes |-> IF SpW.routes[n] = i THEN SpGone ELSE SpW.routes[n]]
             v == [SpW EXCEPT !.acls[i].route = FALSE,
                     !.routes = [n \in DOMAIN @ |-> IF @[n] = i THEN SpGone ELSE @[n]]]
  <2>1. b \in SpAclT /\ b.esme = SpW.acls[i].esme
    <3>1. SpW.acls[i] \in SpAclT
      BY <1>0
    <3> QED BY <3>1, SpAclField
  <2>2. SpApply(v)
    BY <1>4 DEF SpRouteDel, SpEdit
  <2>3. v = [SpW EXCEPT !.acls = a, !.routes = rt]
    <3>1. v = [SpW EXCEPT !.acls[i].route = FALSE, !.routes = rt]
      BY ZenonT(30)
    <3> HIDE DEF rt, v
    <3> QED BY <1>0, <3>1, SMTT(30) DEF SpRec
  <2> HIDE DEF b, rt, v
  <2>4. a \in [SpIds -> SpAclT] /\ \A j \in SpIds : a[j].esme \in {SpW.acls[j].esme, SpNone, SpGone}
    BY <1>0, <2>1
  <2> HIDE DEF a
  <2>5. v = SpOperated(SpW, a, rt, SpW.def, SpW.srv)
    BY <1>0, <2>3, ZenonT(60) DEF SpOperated, SpRec
  <2>6. SpGood(v, SpNone, 0)
    BY <1>0, <2>4, <2>5, SpOperatedGood
  <2> QED BY <2>2, <2>6, SpBecame
<1>5. ASSUME NEW i \in SpIds, NEW d \in SpIds \cup {SpNone, SpGone}, SpApply([SpW EXCEPT !.def = d])
      PROVE  SpIInv'
  <2>1. [SpW EXCEPT !.def = d] = SpOperated(SpW, SpW.acls, SpW.routes, d, SpW.srv)
    BY <1>0, ZenonT(60) DEF SpOperated, SpRec
  <2>2. SpGood(SpOperated(SpW, SpW.acls, SpW.routes, d, SpW.srv), SpNone, 0)
    BY <1>0, <1>1, SpOperatedGood
  <2> QED BY <1>5, <2>1, <2>2, SpBecame
<1>6. ASSUME NEW i \in SpIds, SpDefaultRoute(i) PROVE SpIInv'
  <2>1. PICK d : d = IF SpW.def = SpNone THEN i ELSE SpW.def
    OBVIOUS
  <2>2. SpApply([SpW EXCEPT !.def = d])
    BY <1>6, <2>1 DEF SpDefaultRoute, SpEdit
  <2>3. d \in SpIds \cup {SpNone, SpGone}
    BY <1>0, <2>1
  <2> QED BY <1>5, <2>2, <2>3
<1>7. ASSUME NEW i \in SpIds, SpNoDefaultRoute(i) PROVE SpIInv'
  <2>1. PICK d : d = IF SpW.def = i THEN SpNone ELSE SpW.def
    OBVIOUS
  <2>2. SpApply([SpW EXCEPT !.def = d])
    BY <1>7, <2>1 DEF SpNoDefaultRoute, SpEdit
  <2>3. d \in SpIds \cup {SpNone, SpGone}
    BY <1>0, <2>1
  <2> QED BY <1>5, <2>2, <2>3
<1>8. ASSUME NEW newOk \in BOOLEAN, NEW oldOk \in BOOLEAN, SpRestart(newOk, oldOk) PROVE SpIInv'
  <2>1. PICK sv : sv = [SpW.srv EXCEPT !.listen = newOk \/ oldOk]
    OBVIOUS
  <2>2. SpApply([SpW EXCEPT !.srv.listen = newOk \/ oldOk])
    BY <1>8 DEF SpRestart, SpEdit
  <2>3. [SpW EXCEPT !.srv.listen = newOk \/ oldOk] = [SpW EXCEPT !.srv = sv]
    BY <2>1
  <2>4. [SpW EXCEPT !.srv = sv] = SpOperated(SpW, SpW.acls, SpW.routes, SpW.def, sv)
    BY <1>0, ZenonT(60) DEF SpOperated, SpRec
  <2>5. SpGood(SpOperated(SpW, SpW.acls, SpW.routes, SpW.def, sv), SpNone, 0)
    BY <1>0, <1>1, SpOperatedGood
  <2> QED BY <2>2, <2>3, <2>4, <2>5, SpBecame
<1> QED BY ZenonT(30), <1>2, <1>3, <1>4, <1>6, <1>7, <1>8

\* An ACL is deleted: what refers to it keeps the pointer.
SpForgot(w, i, d, rt) ==
  [w EXCEPT !.acls[i] = SpNoAcl, !.def = d, !.routes = rt,
            !.esme = [x \in SpEsmes |-> IF w.esme[x].acl = i THEN [w.esme[x] EXCEPT !.acl = SpGone]
                                        ELSE w.esme[x]]]

\* A deleted ACL leaves the uses as they were, and no pointer to a free ESME.
LEMMA SpForgotGood ==
  ASSUME NEW w, SpGood(w, SpNone, 0), NEW i \in SpIds, NEW d \in SpIds \cup {SpNone, SpGone}, NEW rt
  PROVE  SpGood(SpForgot(w, i, d, rt), SpNone, 0)
<1> DEFINE f == [x \in SpEsmes |-> IF w.esme[x].acl = i THEN [w.esme[x] EXCEPT !.acl = SpGone]
                                   ELSE w.esme[x]]
<1>0. SpRec(w) /\ SpTyped(w) /\ w.esme \in [SpEsmes -> SpEsmeT] /\ w.acls \in [SpIds -> SpAclT]
  BY DEF SpGood, SpTyped
<1>1. ASSUME NEW x \in SpEsmes
      PROVE  /\ f[x] \in SpEsmeT /\ f[x].use = w.esme[x].use /\ f[x].st = w.esme[x].st
             /\ f[x].cmds = w.esme[x].cmds
  <2>1. CASE w.esme[x].acl # i
    BY <1>0, <2>1
  <2>2. CASE w.esme[x].acl = i
    <3>1. w.esme[x] \in SpEsmeT
      BY <1>0
    <3>2. w.esme[x].st # "free"
      <4>1. i # SpNone
        BY SpAssumption
      <4> QED BY <2>2, <3>1, <4>1, SpNoEsmeTyped DEF SpEsmeT
    <3>3. PICK q : q = [w.esme[x] EXCEPT !.acl = SpGone]
      OBVIOUS
    <3>4. q \in SpEsmeT /\ q.use = w.esme[x].use /\ q.st = w.esme[x].st /\ q.cmds = w.esme[x].cmds
      BY <3>1, <3>2, <3>3, SpEsmeField
    <3>5. f[x] = q
      BY <2>2, <3>3
    <3> QED BY <3>4, <3>5
  <2> QED BY <2>1, <2>2
<1>2. f \in [SpEsmes -> SpEsmeT]
  <2>1. \A x \in SpEsmes : f[x] \in SpEsmeT
    BY <1>1
  <2> QED BY <2>1
<1>3. PICK a : a = [w.acls EXCEPT ![i] = SpNoAcl]
  OBVIOUS
<1>4. a \in [SpIds -> SpAclT] /\ \A j \in SpIds : a[j].esme \in {w.acls[j].esme, SpNone}
  <2>1. SpNoAcl \in SpAclT /\ SpNoAcl.esme = SpNone
    BY SMTT(30) DEF SpAclT, SpNoAcl
  <2> QED BY ZenonT(30), <1>0, <1>3, <2>1
<1>5. PICK v : v = SpForgot(w, i, d, rt)
  OBVIOUS
<1>6. v = [w EXCEPT !.acls[i] = SpNoAcl, !.def = d, !.routes = rt, !.esme = f]
  BY <1>5 DEF SpForgot
<1> HIDE DEF f
<1>7. SpRec(v)
  BY <1>0, <1>6, ZenonT(60) DEF SpRec
<1>8. v.acls = a
  BY <1>0, <1>3, <1>6, SMTT(30) DEF SpRec
<1>9. /\ v.esme = f /\ v.def = d /\ v.fwd = w.fwd
      /\ v.mo = w.mo /\ v.uses = w.uses /\ v.ub = w.ub
  BY <1>0, <1>6, SMTT(30) DEF SpRec
<1>10. SpAlike(w, v)
  <2>1. \A j \in SpIds : v.acls[j].esme \in SpEsmes =>
          v.acls[j].esme = w.acls[j].esme \/ w.esme[v.acls[j].esme].st # "free"
    BY <1>4, <1>8, SpAssumption
  <2>2. \A x \in SpEsmes : /\ v.esme[x].use = w.esme[x].use /\ v.esme[x].st = w.esme[x].st
                           /\ v.esme[x].cmds = w.esme[x].cmds
    BY <1>1, <1>9
  <2> QED BY ZenonT(30), <1>0, <1>2, <1>4, <1>7, <1>8, <1>9, <2>1, <2>2 DEF SpTyped, SpAlike
<1> QED BY <1>5, <1>10, SpAlikeKeeps

\* smpp_acl_delete()
LEMMA SpAclDeleteStep ==
  ASSUME SpIInv, NEW i \in SpIds, SpAclDelete(i)
  PROVE  SpIInv'
<1> DEFINE e == spAcls[i].esme
           w2 == IF e = SpNone THEN SpW
                 ELSE IF e = SpGone \/ spEsme[e].st = "closed" THEN SpUb(SpW)
                 ELSE SpPut(SpClosed(SpW, e), e)
           w3 == [w2 EXCEPT
                    !.acls[i] = SpNoAcl,
                    !.def = IF @ = i THEN SpGone ELSE @,
                    !.routes = SelectSeq(@, LAMBDA a : a # i),
                    !.esme = [x \in SpEsmes |->
                                IF @[x].acl = i THEN [@[x] EXCEPT !.acl = SpGone] ELSE @[x]]]
           touched == spAcls[i].route /\ SpGone \in {spRoutes[n] : n \in DOMAIN spRoutes}
<1>0. SpGood(SpW, SpNone, 0) /\ SpRec(SpW) /\ SpTyped(SpW) /\ spAcls[i] \in SpAclT
      /\ spEsme \in [SpEsmes -> SpEsmeT]
  BY SpStart
<1>1. SpApply(IF touched THEN SpUb(w3) ELSE w3) /\ ~spUb
  BY DEF SpAclDelete, SpEdit, SpClosed, SpApply
<1>2. e \in SpEsmes \cup {SpNone, SpGone}
  BY <1>0 DEF SpAclT
<1>3. SpGood(w2, SpNone, 0)
  <2>1. CASE e = SpNone
    BY <1>0, <2>1
  <2>2. CASE e # SpNone /\ (e = SpGone \/ spEsme[e].st = "closed")
    <3>1. w2 = SpUb(SpW)
      BY <2>2
    <3> QED BY <1>0, <3>1, SpUbGood
  <2>3. CASE e # SpNone /\ ~(e = SpGone \/ spEsme[e].st = "closed")
    <3>1. w2 = SpPut(SpClosed(SpW, e), e)
      BY <2>3
    <3>2. e \in SpEsmes
      BY <1>2, <2>3
    <3>3. SpLinked(SpW.acls, SpW.esme)
      BY <1>0, <1>1, SpFields DEF SpGood
    <3>4. spEsme[e].st # "free"
      BY <3>2, <3>3, SpFields DEF SpLinked
    <3>5. SpW.esme[e].st = "open"
      <4>1. spEsme[e] \in SpEsmeT
        BY <1>0, <3>2
      <4>2. spEsme[e].st \in {"free", "open", "closed"}
        BY <4>1 DEF SpEsmeT, SpEsmeR
      <4> QED BY <2>3, <3>4, <4>2, SpFields
    <3> HIDE DEF e
    <3>6. SpGood(SpClosed(SpW, e), e, 0) /\ SpClosed(SpW, e).esme[e].st = "closed"
      BY <1>0, <3>2, <3>5, SpClosedKeeps
    <3>7. SpClosed(SpW, e).esme[e].st # "free"
      BY <3>6
    <3>8. SpGood(SpPut(SpClosed(SpW, e), e), SpNone, 0)
      BY <3>2, <3>6, <3>7, SpPutKeeps
    <3> QED BY <3>1, <3>8
  <2> QED BY <2>1, <2>2, <2>3
<1> HIDE DEF e, w2, touched
<1>4. PICK d : d = IF w2.def = i THEN SpGone ELSE w2.def
  OBVIOUS
<1>5. PICK rt : rt = SelectSeq(w2.routes, LAMBDA a : a # i)
  OBVIOUS
<1>6. d \in SpIds \cup {SpNone, SpGone}
  BY <1>3, <1>4 DEF SpGood, SpTyped
<1>7. w3 = SpForgot(w2, i, d, rt)
  BY <1>4, <1>5 DEF SpForgot
<1> HIDE DEF w3
<1>8. SpGood(w3, SpNone, 0)
  BY <1>3, <1>6, <1>7, SpForgotGood
<1>9. SpGood(SpUb(w3), SpNone, 0)
  BY <1>8, SpUbGood DEF SpGood
<1>10. CASE touched
  BY <1>1, <1>9, <1>10, SpBecame
<1>11. CASE ~touched
  BY <1>1, <1>8, <1>11, SpBecame
<1> QED BY <1>10, <1>11

\* The state the configuration file leaves is in order.
LEMMA SpInitially == SpInit => SpIInv
<1> SUFFICES ASSUME SpInit PROVE SpIInv
  OBVIOUS
<1>1. PICK c \in SpConfigs :
        /\ spAcls = [i \in SpIds |->
             [on |-> i \in c.on, esme |-> SpNone, route |-> \E n \in DOMAIN c.routes : c.routes[n] = i]]
        /\ spRoutes = c.routes /\ spDef = c.def
  BY DEF SpInit
<1>2. /\ spEsme = [e \in SpEsmes |-> SpNoEsme] /\ spFwd = [s \in SpFwds |-> SpNone]
      /\ spMo = [t \in SpTids |-> SpNoMo]
      /\ spUses = [smpp |-> 0, receiver |-> 0, cmd |-> 0] /\ spUb = FALSE
  BY DEF SpInit
<1>3. spAcls \in [SpIds -> SpAclT] /\ \A i \in SpIds : spAcls[i].esme = SpNone
  <2>1. ASSUME NEW i \in SpIds
        PROVE  /\ [on |-> i \in c.on, esme |-> SpNone, route |-> \E n \in DOMAIN c.routes : c.routes[n] = i] \in SpAclT
    <3>1. (i \in c.on) \in BOOLEAN /\ (\E n \in DOMAIN c.routes : c.routes[n] = i) \in BOOLEAN
      BY SMTT(30)
    <3>2. ASSUME NEW p \in BOOLEAN, NEW q \in BOOLEAN
          PROVE  [on |-> p, esme |-> SpNone, route |-> q] \in SpAclT
      BY SMTT(30) DEF SpAclT
    <3> QED BY <3>1, <3>2
  <2>2. \A i \in SpIds : spAcls[i].esme = SpNone
    BY <1>1
  <2> QED BY <1>1, <2>1, <2>2
<1>4. SpTyped(SpW)
  <2>1. spDef \in SpIds \cup {SpNone, SpGone}
    BY <1>1, SpAssumption
  <2>2. spEsme \in [SpEsmes -> SpEsmeT]
    BY <1>2, SpNoEsmeTyped
  <2>3. spMo \in [SpTids -> SpMoT]
    <3>1. SpNoMo \in SpMoT
      BY SMTT(30) DEF SpMoT, SpNoMo
    <3> QED BY <1>2, <3>1
  <2>4. spUses \in SpUsesT
    BY <1>2, SMTT(30) DEF SpUsesT
  <2> QED BY ZenonT(30), <1>2, <1>3, <2>1, <2>2, <2>3, <2>4, SpFields DEF SpTyped
<1>5. SpCounted(spEsme, spFwd, SpNone)
  <2>1. ASSUME NEW e \in SpEsmes
        PROVE  spEsme[e].use = Cardinality(SpFwdOf(spFwd, e)) + Num(spEsme[e].st = "open") + Num(e = SpNone)
    <3>1. SpFwdOf(spFwd, e) = {}
      BY <1>2, SpAssumption DEF SpFwdOf
    <3>2. Cardinality(SpFwdOf(spFwd, e)) = 0
      BY <3>1, FS_EmptySet
    <3>3. Num(spEsme[e].st = "open") = 0 /\ Num(e = SpNone) = 0 /\ spEsme[e].use = 0
      BY <1>2, SpNoEsmeTyped, SpAssumption DEF Num
    <3> QED BY <3>2, <3>3, SMTT(30)
  <2> QED BY ZenonT(30), <2>1 DEF SpCounted
<1>6. SpLinked(spAcls, spEsme)
  BY <1>3, SpAssumption DEF SpLinked
<1>7. SpUsed(spUses, spFwd, spEsme, 0)
  <2>1. SpHeld(spFwd) = {} /\ SpPending(spEsme) = {}
    BY <1>2, SpNoEsmeTyped DEF SpHeld, SpPending
  <2>2. Cardinality(SpHeld(spFwd)) = 0 /\ Cardinality(SpPending(spEsme)) = 0
    BY <2>1, FS_EmptySet
  <2> QED BY <1>2, <2>2, SMTT(30) DEF SpUsed
<1> QED BY <1>4, <1>5, <1>6, <1>7, SpFields DEF SpIInv, SpGood

\* Every step leaves a state in order, one lemma for each handler.
LEMMA SpStep == SpIInv /\ [SpNext]_spVars => SpIInv'
<1> SUFFICES ASSUME SpIInv, [SpNext]_spVars PROVE SpIInv'
  OBVIOUS
<1>1. CASE UNCHANGED spVars
  <2>1. SpW' = SpW
    BY <1>1 DEF spVars, SpW
  <2> QED BY <2>1 DEF SpIInv
<1>2. ASSUME NEW e \in SpEsmes, SpAccept(e) \/ SpUnbind(e) \/ SpEnquire(e) \/ SpDead(e) \/ SpWrite(e)
      PROVE  SpIInv'
  BY <1>2, SpAcceptStep, SpUnbindStep, SpEnquireStep, SpDeadStep, SpWriteStep
<1>3. ASSUME NEW e \in SpEsmes, NEW flags \in SpFlags, NEW id \in SpIds,
             NEW v \in BOOLEAN, NEW p \in BOOLEAN, SpBind(e, flags, id, v, p)
      PROVE  SpIInv'
  BY <1>3, SpBindStep
<1>4. ASSUME NEW e \in SpEsmes, NEW pdu \in SpPduOf(e), NEW s \in SpFwds, NEW busy \in BOOLEAN,
             busy => pdu = SpForward, SpSubmit(e, pdu, s, busy)
      PROVE  SpIInv'
  BY <1>4, SpSubmitStep
<1>5. ASSUME NEW e \in SpEsmes, NEW cmd \in SpCmds, SpDeliverResp(e, cmd) \/ SpCmdTimeout(e, cmd)
      PROVE  SpIInv'
  BY <1>5, SpCmdDoneStep
<1>6. ASSUME NEW s \in SpFwds, NEW told \in BOOLEAN, SpFwdEnds(s, told)
      PROVE  SpIInv'
  BY <1>6, SpFwdEndsStep
<1>7. ASSUME NEW t \in SpTids, SpMoEnds(t) PROVE SpIInv'
  BY <1>7, SpMoEndsStep
<1>8. ASSUME NEW t \in SpTids, NEW ref \in SpRefs, NEW match \in SUBSET SpIds,
             SpTryDeliver(t, ref, match)
      PROVE  SpIInv'
  BY <1>8, SpTryDeliverStep
<1>9. CASE SpAlertAll
  BY <1>9, SpAlertAllStep
<1>10. ASSUME NEW i \in SpIds,
              SpAclAlloc(i) \/ SpAclDelete(i) \/ SpRouteAdd(i) \/ SpRouteDel(i)
                \/ SpDefaultRoute(i) \/ SpNoDefaultRoute(i)
       PROVE  SpIInv'
  BY <1>10, SpOperatorStep, SpAclDeleteStep
<1>11. ASSUME NEW newOk \in BOOLEAN, NEW oldOk \in BOOLEAN, SpRestart(newOk, oldOk)
       PROVE  SpIInv'
  BY <1>11, SpOperatorStep
<1>12. CASE SpNext
  BY ZenonT(30), <1>2, <1>3, <1>4, <1>5, <1>6, <1>7, <1>8, <1>9, <1>10, <1>11, <1>12 DEF SpNext
<1> QED BY <1>1, <1>12

\* Every reachable state of the SMPP server is in order: what its records may be,
\* and unless a pointer to something freed was followed before, that every ESME has
\* the uses that refer to it, that no ACL points to one that is free, and the
\* subscriber the uses of what waits.
THEOREM EsmesKept == SpSpec => []SpIInv
  BY SpInitially, SpStep, PTL DEF SpSpec

\* What the invariant says of the ESMEs and of the subscriber.
LEMMA SpImplies == SpIInv => SpUseExact /\ SpTypeOK
<1> SUFFICES ASSUME SpIInv PROVE SpUseExact /\ SpTypeOK
  OBVIOUS
<1>0. /\ SpGood(SpW, SpNone, 0) /\ spEsme \in [SpEsmes -> SpEsmeT] /\ spMo \in [SpTids -> SpMoT]
      /\ spDef \in SpIds \cup {SpNone, SpGone}
  BY SpStart
<1>1. ASSUME ~spUb
      PROVE  /\ \A e \in SpEsmes :
                  spEsme[e].use = Cardinality({s \in SpFwds : spFwd[s] = e})
                                    + IF spEsme[e].st = "open" THEN 1 ELSE 0
             /\ spUses.smpp = 0
             /\ spUses.receiver = Cardinality({s \in SpFwds : spFwd[s] # SpNone})
             /\ spUses.cmd = Cardinality({p \in SpEsmes \X SpCmds : p[2] \in spEsme[p[1]].cmds})
  <2>1. SpCounted(spEsme, spFwd, SpNone) /\ SpUsed(spUses, spFwd, spEsme, 0)
    BY <1>0, <1>1, SpFields DEF SpGood
  <2>2. ASSUME NEW e \in SpEsmes
        PROVE  spEsme[e].use = Cardinality({s \in SpFwds : spFwd[s] = e})
                                    + IF spEsme[e].st = "open" THEN 1 ELSE 0
    <3>1. spEsme[e].use = Cardinality(SpFwdOf(spFwd, e)) + Num(spEsme[e].st = "open") + Num(e = SpNone)
      BY <2>1 DEF SpCounted
    <3>2. Num(e = SpNone) = 0 /\ Num(spEsme[e].st = "open") \in Nat
      BY SpAssumption DEF Num
    <3>3. Cardinality(SpFwdOf(spFwd, e)) \in Nat
      <4>1. SpFwdOf(spFwd, e) \in SUBSET SpFwds
        BY DEF SpFwdOf
      <4>2. IsFiniteSet(SpFwdOf(spFwd, e))
        BY ZenonT(30), <4>1, SpAssumption, FS_Subset
      <4> QED BY <4>2, FS_CardinalityType
    <3>4. spEsme[e].use = Cardinality(SpFwdOf(spFwd, e)) + Num(spEsme[e].st = "open")
      BY <3>1, <3>2, <3>3, SMTT(30)
    <3> QED BY <3>4 DEF SpFwdOf, Num
  <2>3. spUses.receiver = Cardinality(SpHeld(spFwd))
    <3>1. SpHeld(spFwd) \in SUBSET SpFwds
      BY DEF SpHeld
    <3>2. IsFiniteSet(SpHeld(spFwd))
      BY <3>1, SpAssumption, FS_Subset
    <3>3. Cardinality(SpHeld(spFwd)) \in Nat
      BY <3>2, FS_CardinalityType
    <3>4. spUses.receiver = Cardinality(SpHeld(spFwd)) + 0
      BY <2>1 DEF SpUsed
    <3> QED BY <3>3, <3>4, SMTT(30)
  <2> QED BY <2>1, <2>2, <2>3 DEF SpUsed, SpHeld, SpPending
<1>2. ASSUME NEW e \in SpEsmes
      PROVE  /\ spEsme[e].st \in {"free", "open", "closed"}
             /\ spEsme[e].wq \in 0..SpMaxWq /\ (spEsme[e].st = "closed" => spEsme[e].wq = 0)
             /\ spEsme[e].cmds \subseteq SpCmds
             /\ spEsme[e].st = "free" => spEsme[e] = SpNoEsme
  <2>1. spEsme[e] \in SpEsmeT
    BY <1>0
  <2> QED BY <2>1 DEF SpEsmeT, SpEsmeR
<1>3. \A t \in SpTids : spMo[t].st \in {"none", "wait", "done", "lost"}
  BY <1>0 DEF SpMoT
<1> QED BY <1>0, <1>1, <1>2, <1>3 DEF SpUseExact, SpTypeOK

\* The reference count of an ESME is its socket and the forward mode SMS that
\* refer to it, and the subscriber is used exactly by the commands that wait and the
\* SMS under way: smpp_esme_put() and the puts of smpp_msc.c are balanced.
THEOREM EsmeUsesExact == SpSpec => []SpUseExact
  BY EsmesKept, SpImplies, PTL

\* Types of the SMPP server's state; a closed ESME has nothing to write, and a free
\* one holds nothing.
THEOREM EsmeTypes == SpSpec => []SpTypeOK
  BY EsmesKept, SpImplies, PTL
=============================================================================
