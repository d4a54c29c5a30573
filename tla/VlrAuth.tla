------------------------------ MODULE VlrAuth ------------------------------
(***************************************************************************)
(* Authentication of one subscriber (vlr_auth_fsm.c): the authentication   *)
(* tuples the record keeps (vlr.c), which tuple is used next and how       *)
(* often, the FSM that asks the HLR for tuples, challenges the MS and      *)
(* resynchronises, and the timers that end it.                             *)
(*                                                                         *)
(* The procedure that starts a session, the MS and the HLR are the         *)
(* environment: their answers arrive at any time, late ones included, and  *)
(* the FSM's event masks drop those its state does not take.               *)
(***************************************************************************)
EXTENDS Integers, FiniteSets

CONSTANTS NumTuples, \* ARRAY_SIZE(vsub->auth_tuples)
          MaxReuse,  \* cfg.auth_tuple_max_reuse_count, negative: no limit
          MaxUse     \* bound: no new session once a tuple was used so often

ASSUME AuthAssumption ==
  /\ NumTuples \in Nat \ {0}
  /\ MaxReuse \in Int
  /\ MaxUse \in Nat

VARIABLES tuples,   \* vsub->auth_tuples
          last,     \* vsub->last_tuple, an index
          sec,      \* vsub->sec_ctx
          imsi,     \* vsub->imsi is known
          old,      \* tuples of the record that already has this IMSI
          fsm,      \* the session, st = "none" when vsub->auth_fsm is NULL
          result,   \* the result the last session gave its parent
          missing,  \* a challenge was asked for and no tuple was usable
          on_error  \* cfg.auth_reuse_old_sets_on_error, as configured at the start

vars == <<tuples, last, sec, imsi, old, fsm, result, missing, on_error>>

Slots == 0 .. NumTuples - 1
Inval == -1                       \* VLR_KEY_SEQ_INVAL
NoTuple == -1                     \* last_tuple == NULL
Tuple == [key : Slots \cup {Inval}, use : Nat, umts : BOOLEAN]
Empty == [key |-> Inval, use |-> 0, umts |-> FALSE]
NoTuples == [i \in Slots |-> Empty]

Waiting == {"WAIT_AI", "WAIT_RESP", "WAIT_SAI_RESYNC", "WAIT_RESP_RESYNC", "WAIT_ID_IMSI"}
Session == [st : Waiting \cup {"none"}, by_imsi : BOOLEAN, max : Int, utran : BOOLEAN]
Idle == [st |-> "none", by_imsi |-> FALSE, max |-> 0, utran |-> FALSE]

-----------------------------------------------------------------------------
(* Tuples *)

Valid(t, i) == t[i].key # Inval

\* How far i is behind the tuple used last, in the order tuples are used.
Turn(t, l, i) == IF l = NoTuple THEN i ELSE (i - t[l].key - 1) % NumTuples

\* i is the least used valid tuple, the first one after the last used tuple
\* when several are, and it may be used once more.
MutIsNext(t, l, max, i) ==
  /\ Valid(t, i)
  /\ \A j \in Slots : Valid(t, j) => t[i].use <= t[j].use
  /\ max < 0 \/ t[i].use <= max + 1
IsNext(t, l, max, i) ==
  /\ Valid(t, i)
  /\ \A j \in Slots : Valid(t, j) =>
       \/ t[i].use < t[j].use
       \/ t[i].use = t[j].use /\ Turn(t, l, i) <= Turn(t, l, j)
  /\ max < 0 \/ t[i].use <= max

HasTuple(t, l, max) == \E i \in Slots : IsNext(t, l, max, i)

Used(t, i) == [t EXCEPT ![i] = [key |-> t[i].key, use |-> t[i].use + 1, umts |-> t[i].umts]]

\* Tuples stored for n vectors of the HLR: the ones beyond the array are
\* skipped, and no vector at all leaves the tuples as they are.
Updated(t, n, umts) ==
  IF n = 0 THEN t
  ELSE [i \in Slots |-> IF i < n THEN [key |-> i, use |-> 0, umts |-> umts] ELSE Empty]

\* dedup_vsub(): the first valid tuple i of the old record goes into every
\* free slot of the new one, and no slot is free for the others.
FirstValid(o, i) == Valid(o, i) /\ \A j \in Slots : Valid(o, j) => i <= j
Copied(t, o, i) == [j \in Slots |-> IF Valid(t, j) THEN t[j] ELSE o[i]]

-----------------------------------------------------------------------------
(* The session *)

Init ==
  /\ tuples = NoTuples /\ last = NoTuple /\ sec = "NONE"
  /\ imsi \in BOOLEAN /\ old = NoTuples
  /\ fsm = Idle /\ result = "none" /\ missing = FALSE
  /\ on_error \in BOOLEAN

\* auth_fsm_term(): the parent gets the result, the record's pointer is reset.
AuthFsmTerm(r) == fsm' = Idle /\ result' = r

\* _vlr_subscr_authenticate() from tuples t with last tuple l, in session f.
Authenticate(f, t, l) ==
  IF HasTuple(t, l, f.max)
  THEN /\ \E i \in Slots : /\ IsNext(t, l, f.max, i)
                           /\ tuples' = Used(t, i)
                           /\ last' = i
       /\ fsm' = f
       /\ UNCHANGED <<result, missing>>
  ELSE /\ tuples' = t /\ last' = l
       /\ missing' = TRUE
       /\ AuthFsmTerm("FAILURE")

\* auth_fsm_start() and auth_fsm_needs_auth(): challenge at once if a tuple is
\* usable, else ask the HLR.
AuthFsmStart(utran) ==
  LET f == [st |-> "WAIT_RESP", by_imsi |-> imsi, max |-> MaxReuse, utran |-> utran] IN
  /\ fsm.st = "none"
  /\ \A i \in Slots : tuples[i].use < MaxUse
  /\ result' = "none"
  /\ IF HasTuple(tuples, last, MaxReuse)
     THEN /\ fsm' = f
          /\ \E i \in Slots : /\ IsNext(tuples, last, MaxReuse, i)
                              /\ tuples' = Used(tuples, i)
                              /\ last' = i
     ELSE /\ fsm' = [st |-> "WAIT_AI", by_imsi |-> imsi, max |-> MaxReuse, utran |-> utran]
          /\ UNCHANGED <<tuples, last>>
  /\ UNCHANGED <<sec, imsi, old, missing>>

Challenging(max) == [st |-> "WAIT_RESP", by_imsi |-> fsm.by_imsi, max |-> max, utran |-> fsm.utran]

\* Whether an HLR that returned no tuples may be made up for with old ones.
ReuseOld == on_error = TRUE /\ HasTuple(tuples, last, -1)

\* auth_fsm_wait_ai(), Send Auth Info Result with n vectors.
WaitAiAck(n, umts) ==
  /\ fsm.st = "WAIT_AI" /\ imsi
  /\ \/ n = 0 /\ ReuseOld /\ Authenticate(Challenging(-1), tuples, last)
     \/ /\ n = 0 /\ ~ReuseOld
        /\ AuthFsmTerm("FAILURE") /\ UNCHANGED <<tuples, last, missing>>
     \/ n > 0 /\ Authenticate(Challenging(fsm.max), Updated(tuples, n, umts), NoTuple)
  /\ UNCHANGED <<sec, imsi, old>>

\* auth_fsm_wait_ai(), Send Auth Info Error.
WaitAiNack(imsi_unknown) ==
  /\ fsm.st = "WAIT_AI" /\ imsi
  /\ IF ~imsi_unknown /\ ReuseOld
     THEN Authenticate(Challenging(-1), tuples, last)
     ELSE AuthFsmTerm("NO_AUTH_INFO") /\ UNCHANGED <<tuples, last, missing>>
  /\ UNCHANGED <<sec, imsi, old>>

\* auth_fsm_wait_ai_resync(), Send Auth Info Result with n vectors. With no
\* vector the session ends, and the handler nevertheless goes on: it forgets
\* the last tuple, is refused the state change and sends one more challenge.
WaitAiResyncAck(n, umts) ==
  /\ fsm.st = "WAIT_SAI_RESYNC" /\ imsi
  /\ \/ /\ n > 0
        /\ Authenticate([Challenging(fsm.max) EXCEPT !.st = "WAIT_RESP_RESYNC"],
                        Updated(tuples, n, umts), NoTuple)
     \/ /\ n = 0
        /\ AuthFsmTerm("FAILURE")
        /\ \/ /\ ~HasTuple(tuples, NoTuple, fsm.max)
              /\ missing' = TRUE /\ last' = NoTuple /\ UNCHANGED tuples
           \/ \E i \in Slots : /\ IsNext(tuples, NoTuple, fsm.max, i)
                               /\ tuples' = Used(tuples, i)
                               /\ last' = i /\ UNCHANGED missing
  /\ UNCHANGED <<sec, imsi, old>>

\* auth_fsm_wait_ai_resync(), Send Auth Info Error.
MutWaitAiResyncNack ==
  /\ fsm.st = "WAIT_SAI_RESYNC" /\ imsi
  /\ AuthFsmTerm("NO_AUTH_INFO")
  /\ UNCHANGED <<tuples, last, sec, imsi, old, missing>>
WaitAiResyncNack ==
  /\ fsm.st = "WAIT_SAI_RESYNC" /\ imsi
  /\ AuthFsmTerm("FAILURE")
  /\ UNCHANGED <<tuples, last, sec, imsi, old, missing>>

\* The security context check_auth_resp() establishes for a response of the
\* length of SRES, of the vector's RES or of neither (also: missing).
CheckAuthResp(len, right, r99) ==
  LET umts == r99 /\ tuples[last].umts /\ len = "res"
  IN CASE len = "res" /\ umts /\ right -> "UMTS"
       [] len = "sres" /\ ~fsm.utran /\ right -> "GSM"
       [] OTHER -> "NONE"

\* auth_fsm_wait_auth_resp() and auth_fsm_wait_auth_resp_resync(). A vector
\* without UMTS tokens has no RES, so no response has its length. The retry by
\* IMSI (WAIT_ID_IMSI) is for a record without one, which never gets a tuple to
\* challenge with: no answer of the HLR finds it. So the state has no events.
WaitAuthResp(len, right, r99) ==
  /\ fsm.st \in {"WAIT_RESP", "WAIT_RESP_RESYNC"}
  /\ len = "res" => tuples[last].umts
  /\ sec' = CheckAuthResp(len, right, r99)
  /\ IF sec' # "NONE" THEN AuthFsmTerm("PASSED")
     ELSE IF fsm.by_imsi THEN AuthFsmTerm("FAILURE")
     ELSE /\ fsm' = [fsm EXCEPT !.st = IF @ = "WAIT_RESP" THEN "WAIT_ID_IMSI" ELSE @]
          /\ UNCHANGED result
  /\ UNCHANGED <<tuples, last, imsi, old, missing>>

\* Authentication Failure with AUTS asks the HLR to resynchronise, once.
WaitAuthFail(auts) ==
  /\ fsm.st \in {"WAIT_RESP", "WAIT_RESP_RESYNC"}
  /\ IF fsm.st = "WAIT_RESP" /\ auts
     THEN fsm' = [fsm EXCEPT !.st = "WAIT_SAI_RESYNC"] /\ UNCHANGED result
     ELSE AuthFsmTerm("FAILURE")
  /\ UNCHANGED <<tuples, last, sec, imsi, old, missing>>

\* TIMER_M, T3260 or T3270: the FSM's timeout terminates it with the failure
\* event it was allocated with.
MutTimeout ==
  /\ fsm.st \in {"WAIT_RESP", "WAIT_RESP_RESYNC", "WAIT_ID_IMSI"}
  /\ AuthFsmTerm("FAILURE")
  /\ UNCHANGED <<tuples, last, sec, imsi, old, missing>>
Timeout ==
  /\ fsm.st # "none"
  /\ AuthFsmTerm("FAILURE")
  /\ UNCHANGED <<tuples, last, sec, imsi, old, missing>>

\* The parent FSM is terminated; auth_fsm_cleanup() resets the pointer.
ParentTerm ==
  /\ fsm.st # "none"
  /\ AuthFsmTerm("none")
  /\ UNCHANGED <<tuples, last, sec, imsi, old, missing>>

-----------------------------------------------------------------------------
(* The record between sessions *)

\* auth_try_reuse_tuple(): the MS still has the key of the last tuple.
AuthTryReuseTuple(k) ==
  /\ fsm.st = "none"
  /\ \A i \in Slots : tuples[i].use < MaxUse
  /\ last # NoTuple
  /\ MaxReuse < 0 \/ tuples[last].use <= MaxReuse
  /\ tuples[last].key = k
  /\ tuples' = Used(tuples, last)
  /\ UNCHANGED <<last, sec, imsi, old, fsm, result, missing>>

\* A Location Updating by an unknown TMSI creates a second record for the
\* subscriber; the one with the IMSI stays until the IMSI of the new one is known.
NewRecordByTmsi ==
  /\ fsm.st = "none" /\ imsi
  /\ old' = tuples /\ tuples' = NoTuples /\ last' = NoTuple
  /\ sec' = "NONE" /\ imsi' = FALSE /\ result' = "none"
  /\ UNCHANGED <<fsm, missing>>

\* vlr_subscr_set_imsi() with dedup_vsub().
SetImsi ==
  /\ fsm.st = "none" /\ ~imsi
  /\ imsi' = TRUE /\ old' = NoTuples
  /\ \/ \E i \in Slots : FirstValid(old, i) /\ tuples' = Copied(tuples, old, i)
     \/ (\A i \in Slots : ~Valid(old, i)) /\ UNCHANGED tuples
  /\ UNCHANGED <<last, sec, fsm, result, missing>>

Step ==
  \/ \E utran \in BOOLEAN : AuthFsmStart(utran)
  \/ \E n \in 0 .. NumTuples + 1, umts \in BOOLEAN : WaitAiAck(n, umts) \/ WaitAiResyncAck(n, umts)
  \/ \E imsi_unknown \in BOOLEAN : WaitAiNack(imsi_unknown)
  \/ WaitAiResyncNack
  \/ \E len \in {"res", "sres", "other"}, right, r99 \in BOOLEAN : WaitAuthResp(len, right, r99)
  \/ \E auts \in BOOLEAN : WaitAuthFail(auts)
  \/ Timeout \/ ParentTerm
  \/ \E k \in Slots : AuthTryReuseTuple(k)
  \/ NewRecordByTmsi \/ SetImsi

Next == Step /\ UNCHANGED on_error

Spec == Init /\ [][Next]_vars

\* libosmocore's timers fire; the MS, the HLR and the parent owe nothing.
LiveSpec == Spec /\ WF_vars(Timeout /\ UNCHANGED on_error)
-----------------------------------------------------------------------------
(* Properties *)

\* Types of the record's tuples and of the session.
TypeOK ==
  /\ tuples \in [Slots -> Tuple] /\ old \in [Slots -> Tuple]
  /\ last \in Slots \cup {NoTuple}
  /\ sec \in {"NONE", "GSM", "UMTS"}
  /\ imsi \in BOOLEAN /\ missing \in BOOLEAN /\ on_error \in BOOLEAN
  /\ fsm \in Session
  /\ result \in {"none", "PASSED", "NO_AUTH_INFO", "FAILURE"}

\* Without auth-tuple-reuse-on-error no stored tuple is ever used more often
\* than once plus auth-tuple-max-reuse-count times, whichever of a challenge,
\* a resynchronisation, a late challenge and a reuse of its key counts.
ReuseBounded ==
  on_error = FALSE /\ MaxReuse >= 0 =>
    \A i \in Slots : tuples[i].use <= MaxReuse + 1 /\ old[i].use <= MaxReuse + 1

\* A session that may receive an Authentication Response or Failure has a last
\* tuple: check_auth_resp() asserts it, and the resynchronisation reads its RAND.
LastValid ==
  fsm.st \in {"WAIT_RESP", "WAIT_RESP_RESYNC", "WAIT_SAI_RESYNC", "WAIT_ID_IMSI"} =>
    last \in Slots /\ Valid(tuples, last)

\* A passed subscriber has a security context that its last tuple supports: no
\* step between the check of the response and the next session takes the tuple
\* from under the context that msc_a ciphers with.
PassedContext ==
  result = "PASSED" =>
    /\ sec # "NONE"
    /\ last \in Slots /\ Valid(tuples, last)
    /\ sec = "UMTS" => tuples[last].umts

\* Every session keeps the promise of AuthPromise to the procedure that started
\* it: one result, PASSED only after a challenge, NO_AUTH_INFO only before one.
PhaseOf(st) == CASE st = "none" -> "idle" [] st = "WAIT_AI" -> "asking" [] OTHER -> "challenged"
Promise == INSTANCE AuthPromise WITH phase <- PhaseOf(fsm.st)
Implements == Promise!Spec

\* Every session ends, whatever the HLR and the MS leave unanswered.
SessionEnds == fsm.st # "none" ~> fsm.st = "none"

=============================================================================
