--------------------------- MODULE VlrSubscrProofs ---------------------------
(***************************************************************************)
(* Theorems about VlrSubscr, for any set of subscribers, any caps and any  *)
(* timers: the types, the balance of the use counts, the exactness of the  *)
(* in-flight page counter, what an association leaves behind, the cap on   *)
(* pages and the end of the timer that fails LUs.                          *)
(*                                                                         *)
(* Every handler is a composition of operators on one record, so the proof *)
(* follows them: each operator takes a sound record to a sound one (the    *)
(* lemmas ...Sound), Settle() takes a sound one to a good one, and each    *)
(* action puts good records in place (RecordStep, RecordsStep).            *)
(***************************************************************************)
EXTENDS VlrSubscr, TLAPS, FiniteSetTheorems

(* The first-order prover first: most steps instantiate lemmas.            *)
USE ZenonT(10), SMTT(30)

(* A record whose use counts agree with what it holds; the transactions of *)
(* a connection need the connection.                                       *)
Sound(v) ==
  /\ v \in Records
  /\ Balanced(v)
  /\ ~v.conn => v.ctrans = {}

(* A record between two handlers: in use, or gone and empty.               *)
Good(v) ==
  /\ Sound(v)
  /\ v.alive <=> Total(v) > 0
  /\ ~v.alive => v = Absent

(* w agrees with v in what the use counts stand for.                       *)
Same(v, w) ==
  /\ w.alive = v.alive /\ w.lu = v.lu /\ w.ts5 = v.ts5 /\ w.paging = v.paging
  /\ w.conn = v.conn /\ w.reqs = v.reqs /\ w.ctrans = v.ctrans

-----------------------------------------------------------------------------
(* Gets and puts.                                                          *)

(* vlr_subscr_get() changes one use count and nothing else.                *)
LEMMA GetType ==
  ASSUME NEW v \in Records, NEW t \in Tokens
  PROVE  /\ Get(v, t) \in Records /\ Same(v, Get(v, t))
         /\ Get(v, t).use = [v.use EXCEPT ![t] = v.use[t] + 1]
  BY SMTT(30) DEF Get, Records, Same

(* vlr_subscr_put() changes one use count and nothing else.                *)
LEMMA PutType ==
  ASSUME NEW v \in Records, NEW t \in Tokens
  PROVE  /\ Put(v, t) \in Records /\ Same(v, Put(v, t))
         /\ Put(v, t).use = [v.use EXCEPT ![t] = v.use[t] - 1]
  BY SMTT(30) DEF Put, Records, Same

(* trans_free() of several transactions puts the use of each.              *)
LEMMA FreeTransType ==
  ASSUME NEW v \in Records, NEW K
  PROVE  /\ FreeTrans(v, K) \in Records /\ Same(v, FreeTrans(v, K))
         /\ FreeTrans(v, K).use =
              [t \in Tokens |-> v.use[t] - IF t \in K THEN 1 ELSE 0]
  BY SMTT(30) DEF FreeTrans, Records, Same

(* Changes of other fields leave a sound record sound.                     *)
LEMMA SameSound ==
  ASSUME NEW v, Sound(v), NEW w \in Records, Same(v, w), w.use = v.use
  PROVE  Sound(w)
  BY DEF Sound, Same, Balanced

(* A sound record can be read field by field.                              *)
LEMMA SoundTypes ==
  ASSUME NEW v, Sound(v)
  PROVE  /\ v.alive \in BOOLEAN /\ v.lu \in BOOLEAN /\ v.ts5 \in BOOLEAN
         /\ v.paging \in BOOLEAN /\ v.conn \in BOOLEAN
         /\ v.reqs \subseteq Services /\ v.ctrans \subseteq Services
         /\ v.use \in [Tokens -> Int] /\ v.exp \in {Never} \cup Nat
         /\ v.serv \in Services
  BY DEF Sound, Records

(* A transaction that comes or goes together with its use leaves a sound   *)
(* record sound, and so does one that moves to the connection.             *)
LEMMA TransSound ==
  ASSUME NEW v, Sound(v), NEW w \in Records, NEW k \in Services, NEW d \in Int,
         w.lu = v.lu, w.ts5 = v.ts5, w.paging = v.paging, w.conn = v.conn,
         \A t \in Tokens : w.use[t] = IF t = k THEN v.use[t] + d ELSE v.use[t],
         \A j \in Services \ {k} : (j \in w.reqs) = (j \in v.reqs),
         \A j \in Services \ {k} : (j \in w.ctrans) = (j \in v.ctrans),
         One(k \in w.reqs) + One(k \in w.ctrans)
           = One(k \in v.reqs) + One(k \in v.ctrans) + d,
         ~w.conn => w.ctrans = {}
  PROVE  Sound(w)
  <1>1. /\ w.use["attached"] = v.use["attached"]
        /\ w.use["SGs-lu"] = v.use["SGs-lu"]
        /\ w.use["SGs-paging-req"] = v.use["SGs-paging-req"]
        /\ w.use["active-conn"] = v.use["active-conn"]
        /\ w.use["Paging"] = v.use["Paging"]
    BY DEF Tokens, Services
  <1>2. \A j \in Services : v.use[j] = One(j \in v.reqs) + One(j \in v.ctrans)
    BY DEF Sound, Balanced
  <1>3. ASSUME NEW j \in Services
        PROVE  w.use[j] = One(j \in w.reqs) + One(j \in w.ctrans)
    <2>1. j \in Tokens
      BY DEF Tokens, Services
    <2>2. CASE j = k
      <3>1. w.use[j] = v.use[j] + d
        BY <2>1, <2>2
      <3> QED BY <1>2, <2>2, <3>1
    <2>3. CASE j # k
      <3>1. w.use[j] = v.use[j]
        BY <2>1, <2>3
      <3>2. /\ One(j \in w.reqs) = One(j \in v.reqs)
            /\ One(j \in w.ctrans) = One(j \in v.ctrans)
        BY <2>3
      <3> QED BY <1>2, <3>1, <3>2
    <2> QED BY <2>2, <2>3
  <1>4. /\ v.use["attached"] = One(v.lu) /\ v.use["SGs-lu"] >= 0
        /\ v.use["SGs-paging-req"] = One(v.ts5)
        /\ v.use["Paging"] = One(v.paging) /\ v.use["active-conn"] = One(v.conn)
    BY DEF Sound, Balanced
  <1>5. Balanced(w)
    BY <1>1, <1>3, <1>4 DEF Balanced
  <1> QED BY <1>5 DEF Sound

(* A new record is sound.                                                  *)
LEMMA BlankSound == Blank \in Records /\ Sound(Blank) /\ Blank.alive
  <1>1. Blank \in Records
    BY TimerAssumption DEF Blank, Records, Tokens, Never, Services, SgsStates
  <1>2. Balanced(Blank) /\ Blank.ctrans = {} /\ Blank.alive
    BY DEF Blank, Balanced, One, Tokens, Services
  <1> QED BY <1>1, <1>2 DEF Sound

(* The empty record of an unknown IMSI is good.                            *)
LEMMA AbsentGood == Good(Absent) /\ Absent.ts5 = FALSE /\ ~Absent.alive
  <1>1. Absent \in Records /\ ~Absent.alive
    BY Zenon, BlankSound DEF Absent, Records
  <1>2. /\ ~Absent.lu /\ Absent.ts5 = FALSE /\ ~Absent.paging /\ ~Absent.conn
        /\ Absent.reqs = {} /\ Absent.ctrans = {}
        /\ Absent.use = [t \in Tokens |-> 0]
    BY DEF Absent, Blank
  <1>3. Balanced(Absent)
    BY SMTT(30), <1>2 DEF Balanced, One, Tokens, Services
  <1>4. Total(Absent) = 0
    BY SMTT(30), <1>2 DEF Total, Tokens
  <1> QED BY SMTT(30), <1>1, <1>2, <1>3, <1>4 DEF Good, Sound

(* A record that something is in progress for is in use.                   *)
LEMMA InUseGood ==
  ASSUME NEW v, Sound(v), v.alive, v.lu \/ v.conn
  PROVE  Good(v)
  <1>1. Total(v) > 0
    BY SMTT(30), SoundTypes DEF Sound, Balanced, Total, One, Tokens, Services
  <1> QED BY <1>1 DEF Good

(* Changes of other fields leave a record that exists good.                *)
LEMMA SameGood ==
  ASSUME NEW v, Good(v), v.alive, NEW w \in Records, Same(v, w), w.use = v.use
  PROVE  Good(w)
  <1>1. Sound(w)
    BY SameSound DEF Good
  <1> QED BY <1>1 DEF Good, Same, Total

(* vlr_subscr_use_cb(): the put that ends a handler leaves a good record,  *)
(* and frees no record whose Ts5 runs.                                     *)
LEMMA SettleGood ==
  ASSUME NEW v, Sound(v), v.alive
  PROVE  Good(Settle(v)) /\ Settle(v).ts5 = v.ts5
  <1>1. CASE Total(v) <= 0
    <2>1. v.ts5 = FALSE
      BY SMTT(30), <1>1, SoundTypes DEF Sound, Balanced, Total, One, Tokens, Services
    <2> QED BY Zenon, <1>1, <2>1, AbsentGood DEF Settle
  <1>2. CASE ~(Total(v) <= 0)
    <2>1. Total(v) \in Int
      BY SMTT(30), SoundTypes DEF Total, Tokens
    <2> QED BY <1>2, <2>1 DEF Settle, Good
  <1> QED BY <1>1, <1>2

-----------------------------------------------------------------------------
(* Paging and connections.                                                 *)

(* vlr_sgs_pag_stop() puts the use of a running Ts5.                       *)
LEMMA PagStopSound ==
  ASSUME NEW v, Sound(v)
  PROVE  /\ Sound(PagStop(v))
         /\ PagStop(v).alive = v.alive /\ PagStop(v).ts5 = FALSE
         /\ PagStop(v).lu = v.lu
  <1> DEFINE p == Put(v, "SGs-paging-req")
             w == [p EXCEPT !.ts5 = FALSE]
  <1>1. CASE v.ts5
    <2>1. /\ p \in Records /\ Same(v, p)
          /\ p.use = [v.use EXCEPT !["SGs-paging-req"] = v.use["SGs-paging-req"] - 1]
      BY Zenon, PutType DEF Tokens, Sound
    <2> HIDE DEF p
    <2>2. /\ w \in Records
          /\ w.alive = p.alive /\ w.lu = p.lu /\ w.ts5 = FALSE /\ w.use = p.use
          /\ w.paging = p.paging /\ w.conn = p.conn
          /\ w.reqs = p.reqs /\ w.ctrans = p.ctrans
      BY Zenon, <2>1 DEF Records
    <2> HIDE DEF w
    <2>3. Sound(w)
      BY SMTT(30), <1>1, <2>1, <2>2, SoundTypes
         DEF Sound, Balanced, Same, Tokens, Services, One
    <2> QED BY <1>1, <2>1, <2>2, <2>3 DEF PagStop, Same, p, w
  <1>2. CASE ~v.ts5
    BY <1>2, SoundTypes DEF PagStop
  <1> QED BY Zenon, <1>1, <1>2

(* paging_expired() puts the use of the page and of each transaction that  *)
(* waited for it.                                                          *)
LEMMA PagingExpiredSound ==
  ASSUME NEW v, Sound(v)
  PROVE  /\ Sound(PagingExpired(v))
         /\ PagingExpired(v).alive = v.alive /\ PagingExpired(v).ts5 = v.ts5
  <1> DEFINE f == FreeTrans(v, v.reqs)
             p == IF v.paging THEN Put(f, "Paging") ELSE f
             w == [p EXCEPT !.ptimer = FALSE, !.reqs = {}, !.paging = FALSE]
  <1>1. /\ f \in Records /\ Same(v, f)
        /\ f.use = [t \in Tokens |-> v.use[t] - IF t \in v.reqs THEN 1 ELSE 0]
    BY FreeTransType DEF Sound
  <1> HIDE DEF f
  <1>2. /\ p \in Records /\ Same(v, p)
        /\ p.use = [f.use EXCEPT !["Paging"] = f.use["Paging"] - One(v.paging)]
    <2>1. CASE v.paging
      <3>1. /\ Put(f, "Paging") \in Records /\ Same(f, Put(f, "Paging"))
            /\ Put(f, "Paging").use = [f.use EXCEPT !["Paging"] = f.use["Paging"] - 1]
        BY Zenon, <1>1, PutType DEF Tokens
      <3>2. p = Put(f, "Paging") /\ One(v.paging) = 1
        BY <2>1 DEF One
      <3> QED BY Zenon, <1>1, <3>1, <3>2 DEF Same
    <2>2. CASE ~v.paging
      <3>1. f.use = [f.use EXCEPT !["Paging"] = f.use["Paging"] - 0]
        BY SMTT(30), <1>1 DEF Tokens, Records
      <3> QED BY <1>1, <2>2, <3>1 DEF One
    <2> QED BY <2>1, <2>2
  <1> HIDE DEF p
  <1>3. /\ w \in Records
        /\ w.alive = p.alive /\ w.lu = p.lu /\ w.ts5 = p.ts5 /\ w.use = p.use
        /\ w.paging = FALSE /\ w.conn = p.conn
        /\ w.reqs = {} /\ w.ctrans = p.ctrans
    BY Zenon, <1>2 DEF Records
  <1> HIDE DEF w
  <1>4. /\ w.use["attached"] = v.use["attached"]
        /\ w.use["SGs-lu"] = v.use["SGs-lu"]
        /\ w.use["SGs-paging-req"] = v.use["SGs-paging-req"]
        /\ w.use["active-conn"] = v.use["active-conn"]
        /\ w.use["Paging"] = v.use["Paging"] - One(v.paging)
        /\ \A k \in Services : w.use[k] = v.use[k] - One(k \in v.reqs)
    BY SMTT(30), <1>1, <1>2, <1>3, SoundTypes DEF Tokens, Services, One
  <1>5. Sound(w)
    BY SMTT(30), <1>2, <1>3, <1>4, SoundTypes
       DEF Sound, Balanced, Same, Tokens, Services, One
  <1> QED BY <1>2, <1>3, <1>5 DEF PagingExpired, Same, f, p, w

(* paging_response() hands the waiting transactions over with their uses.  *)
LEMMA PagingAnsweredSound ==
  ASSUME NEW v, Sound(v), v.conn, v.ctrans = {}
  PROVE  /\ Sound(PagingAnswered(v)) /\ PagingAnswered(v).alive = v.alive
         /\ PagingAnswered(v).ts5 = v.ts5 /\ PagingAnswered(v).conn = v.conn
  <1> DEFINE p == IF v.paging THEN Put(v, "Paging") ELSE v
             w == [p EXCEPT !.ptimer = FALSE, !.ctrans = @ \cup v.reqs,
                            !.reqs = {}, !.paging = FALSE]
  <1>1. /\ p \in Records /\ Same(v, p)
        /\ p.use = [v.use EXCEPT !["Paging"] = v.use["Paging"] - One(v.paging)]
    <2>1. CASE v.paging
      BY Zenon, <2>1, PutType DEF Tokens, One, Sound
    <2>2. CASE ~v.paging
      <3>1. v.use = [v.use EXCEPT !["Paging"] = v.use["Paging"] - 0]
        BY SMTT(30), SoundTypes DEF Tokens
      <3> QED BY Zenon, <2>2, <3>1 DEF One, Sound, Same
    <2> QED BY <2>1, <2>2
  <1> HIDE DEF p
  <1>2. /\ w \in Records
        /\ w.alive = p.alive /\ w.lu = p.lu /\ w.ts5 = p.ts5 /\ w.use = p.use
        /\ w.paging = FALSE /\ w.conn = p.conn
        /\ w.reqs = {} /\ w.ctrans = p.ctrans \cup v.reqs
    BY Zenon, <1>1, SoundTypes DEF Records
  <1> HIDE DEF w
  <1>3. /\ w.use["attached"] = v.use["attached"]
        /\ w.use["SGs-lu"] = v.use["SGs-lu"]
        /\ w.use["SGs-paging-req"] = v.use["SGs-paging-req"]
        /\ w.use["active-conn"] = v.use["active-conn"]
        /\ w.use["Paging"] = v.use["Paging"] - One(v.paging)
        /\ \A k \in Services : w.use[k] = v.use[k]
    BY SMTT(30), <1>1, <1>2, SoundTypes DEF Tokens, Services, One
  <1>4. Sound(w)
    BY SMTT(30), <1>1, <1>2, <1>3, SoundTypes
       DEF Sound, Balanced, Same, Tokens, Services, One
  <1> QED BY Zenon, <1>1, <1>2, <1>4 DEF PagingAnswered, Same, p, w

(* vlr_sgs_pag() gets the use of the Ts5 it starts.                        *)
LEMMA PagedSound ==
  ASSUME NEW v, Sound(v), ~v.ts5, NEW k \in Services
  PROVE  /\ Sound(Paged(v, k)) /\ Paged(v, k).alive = v.alive
         /\ Paged(v, k).ts5 = TRUE /\ Paged(v, k).paging = v.paging
         /\ Paged(v, k).reqs = v.reqs /\ Paged(v, k).lu = v.lu
  <1> DEFINE p == Get(v, "SGs-paging-req")
             w == [p EXCEPT !.ts5 = TRUE, !.serv = k]
  <1>1. /\ p \in Records /\ Same(v, p)
        /\ p.use = [v.use EXCEPT !["SGs-paging-req"] = v.use["SGs-paging-req"] + 1]
    BY Zenon, GetType DEF Tokens, Sound
  <1> HIDE DEF p
  <1>2. /\ w \in Records
        /\ w.alive = p.alive /\ w.lu = p.lu /\ w.ts5 = TRUE /\ w.use = p.use
        /\ w.paging = p.paging /\ w.conn = p.conn
        /\ w.reqs = p.reqs /\ w.ctrans = p.ctrans
    BY Zenon, <1>1 DEF Records
  <1> HIDE DEF w
  <1>3. Sound(w)
    BY SMTT(30), <1>1, <1>2, SoundTypes DEF Sound, Balanced, Same, Tokens, Services, One
  <1> QED BY <1>1, <1>2, <1>3 DEF Paged, Same, p, w

(* vlr_subscr_enable_expire_lu() touches the expiry only.                  *)
LEMMA EnableExpireSound ==
  ASSUME NEW v, Sound(v)
  PROVE  Sound(EnableExpire(v)) /\ Same(v, EnableExpire(v))
  <1>1. EnableExpire(v) \in Records
    BY TimerAssumption DEF EnableExpire, Sound, Records
  <1>2. Same(v, EnableExpire(v)) /\ EnableExpire(v).use = v.use
    BY DEF EnableExpire, Sound, Records, Same
  <1> QED BY <1>1, <1>2, SameSound

(* subscr_conn_toss() puts the use of the connection and of each of its    *)
(* transactions.                                                           *)
LEMMA TossSound ==
  ASSUME NEW v, Sound(v)
  PROVE  /\ Sound(Toss(v)) /\ Toss(v).alive = v.alive /\ Toss(v).ts5 = v.ts5
         /\ Toss(v).conn = FALSE /\ Toss(v).ctrans = {} /\ Toss(v).lu = v.lu
  <1> DEFINE p == Put(v, "active-conn")
             f == FreeTrans(p, v.ctrans)
             w == [f EXCEPT !.conn = FALSE, !.ctrans = {}]
  <1>1. CASE v.conn
    <2>1. /\ p \in Records /\ Same(v, p)
          /\ p.use = [v.use EXCEPT !["active-conn"] = v.use["active-conn"] - 1]
      BY Zenon, PutType DEF Tokens, Sound
    <2> HIDE DEF p
    <2>2. /\ f \in Records /\ Same(v, f)
          /\ f.use = [t \in Tokens |-> p.use[t] - IF t \in v.ctrans THEN 1 ELSE 0]
      <3>1. /\ f \in Records /\ Same(p, f)
            /\ f.use = [t \in Tokens |-> p.use[t] - IF t \in v.ctrans THEN 1 ELSE 0]
        BY Zenon, <2>1, FreeTransType
      <3> HIDE DEF f
      <3> QED BY <2>1, <3>1 DEF Same
    <2> HIDE DEF f
    <2>3. /\ w \in Records
          /\ w.alive = f.alive /\ w.lu = f.lu /\ w.ts5 = f.ts5 /\ w.use = f.use
          /\ w.paging = f.paging /\ w.conn = FALSE
          /\ w.reqs = f.reqs /\ w.ctrans = {}
      BY Zenon, <2>2 DEF Records
    <2> HIDE DEF w
    <2>4. /\ w.use["attached"] = v.use["attached"]
          /\ w.use["SGs-lu"] = v.use["SGs-lu"]
          /\ w.use["SGs-paging-req"] = v.use["SGs-paging-req"]
          /\ w.use["active-conn"] = v.use["active-conn"] - 1
          /\ w.use["Paging"] = v.use["Paging"]
          /\ \A k \in Services : w.use[k] = v.use[k] - One(k \in v.ctrans)
      BY SMTT(30), <2>1, <2>2, <2>3, SoundTypes DEF Tokens, Services, One
    <2>5. Sound(w)
      BY SMTT(30), <1>1, <2>2, <2>3, <2>4, SoundTypes
         DEF Sound, Balanced, Same, Tokens, Services, One
    <2> QED BY <1>1, <2>2, <2>3, <2>5 DEF Toss, Same, p, f, w
  <1>2. CASE ~v.conn
    BY <1>2, SoundTypes DEF Toss, Sound
  <1> QED BY Zenon, <1>1, <1>2

(* The same for a connection that is released.                             *)
LEMMA ReleaseSound ==
  ASSUME NEW v, Sound(v)
  PROVE  /\ Sound(Release(v)) /\ Release(v).alive = v.alive
         /\ Release(v).ts5 = v.ts5
  BY Zenon, EnableExpireSound, TossSound DEF Release, Same

(* subscr_conn_allocate_sgs() gets the use of the new connection.          *)
LEMMA OpenConnSound ==
  ASSUME NEW v, Sound(v)
  PROVE  /\ Sound(OpenConn(v)) /\ OpenConn(v).alive = v.alive
         /\ OpenConn(v).ts5 = v.ts5 /\ OpenConn(v).conn = TRUE
         /\ OpenConn(v).ctrans = {}
  <1> DEFINE u == Toss(v)
             o == Get(u, "active-conn")
             w == [o EXCEPT !.conn = TRUE, !.sgs = TRUE,
                            !.exp = IF o.lu THEN Never ELSE @]
  <1>1. /\ Sound(u) /\ u.alive = v.alive /\ u.ts5 = v.ts5
        /\ u.conn = FALSE /\ u.ctrans = {}
    BY Zenon, TossSound
  <1> HIDE DEF u
  <1>2. /\ o \in Records /\ Same(u, o)
        /\ o.use = [u.use EXCEPT !["active-conn"] = u.use["active-conn"] + 1]
    BY Zenon, <1>1, GetType DEF Tokens, Sound
  <1> HIDE DEF o
  <1>3. /\ w \in Records
        /\ w.alive = o.alive /\ w.lu = o.lu /\ w.ts5 = o.ts5 /\ w.use = o.use
        /\ w.paging = o.paging /\ w.conn = TRUE
        /\ w.reqs = o.reqs /\ w.ctrans = o.ctrans
    BY Zenon, <1>2 DEF Records
  <1> HIDE DEF w
  <1>4. Sound(w)
    BY SMTT(30), <1>1, <1>2, <1>3, SoundTypes
       DEF Sound, Balanced, Same, Tokens, Services, One
  <1> QED BY <1>1, <1>2, <1>3, <1>4 DEF OpenConn, Same, u, o, w

-----------------------------------------------------------------------------
(* The SGs-UE FSM.                                                         *)

(* to_null() ends the page and stops Ts5.                                  *)
LEMMA ToNullSound ==
  ASSUME NEW v, Sound(v)
  PROVE  /\ Sound(ToNull(v)) /\ ToNull(v).alive = v.alive
         /\ ToNull(v).ts5 = FALSE
  <1> DEFINE n == [v EXCEPT !.st = "NULL", !.ts62 = FALSE, !.conf = FALSE,
                            !.tmsiNew = FALSE]
             e == IF n.paging THEN PagingExpired(n) ELSE n
  <1>1. n \in Records
    BY Zenon DEF Sound, Records, SgsStates
  <1>2. Same(v, n) /\ n.use = v.use
    BY DEF Sound, Records, Same
  <1> HIDE DEF n
  <1>3. Sound(n)
    BY <1>1, <1>2, SameSound
  <1>4. Sound(e) /\ e.alive = v.alive
    BY <1>2, <1>3, PagingExpiredSound DEF Same
  <1> HIDE DEF e
  <1>5. Sound(PagStop(e)) /\ PagStop(e).alive = v.alive /\ PagStop(e).ts5 = FALSE
    BY Zenon, <1>4, PagStopSound
  <1> QED BY <1>5 DEF ToNull, n, e

(* respawn_paging() replaces a running page by at most one.                *)
LEMMA RespawnPagingSound ==
  ASSUME NEW v, Sound(v), NEW i
  PROVE  /\ Sound(RespawnPaging(v, i)) /\ RespawnPaging(v, i).alive = v.alive
         /\ RespawnPaging(v, i).lu = v.lu
  <1> DEFINE w == PagStop(v)
  <1>1. Sound(w) /\ w.alive = v.alive /\ w.ts5 = FALSE /\ w.lu = v.lu
    BY Zenon, PagStopSound
  <1> HIDE DEF w
  <1>2. /\ Sound(Paged(w, v.serv)) /\ Paged(w, v.serv).alive = v.alive
        /\ Paged(w, v.serv).lu = v.lu
    BY Zenon, <1>1, PagedSound, SoundTypes
  <1> QED BY <1>1, <1>2 DEF RespawnPaging, w

(* perform_lu() does not touch the use counts.                             *)
LEMMA PerformLuSound ==
  ASSUME NEW v, Sound(v)
  PROVE  Sound(PerformLu(v)) /\ Same(v, PerformLu(v))
  <1>1. PerformLu(v) \in Records
    BY ZenonT(60) DEF PerformLu, Sound, Records, SgsStates
  <1>2. Same(v, PerformLu(v)) /\ PerformLu(v).use = v.use
    BY DEF PerformLu, Sound, Records, Same
  <1> QED BY <1>1, <1>2, SameSound

(* vlr_sgs_lu_release() never takes the use below zero.                    *)
LEMMA LuReleaseSound ==
  ASSUME NEW v, Sound(v)
  PROVE  Sound(LuRelease(v)) /\ Same(v, LuRelease(v))
  <1> DEFINE p == Put(v, "SGs-lu")
  <1>1. CASE v.use["SGs-lu"] > 0
    <2>1. /\ p \in Records /\ Same(v, p)
          /\ p.use = [v.use EXCEPT !["SGs-lu"] = v.use["SGs-lu"] - 1]
      BY Zenon, PutType DEF Tokens, Sound
    <2> HIDE DEF p
    <2>2. Sound(p)
      BY SMTT(30), <1>1, <2>1, SoundTypes DEF Sound, Balanced, Same, Tokens, Services
    <2> QED BY <1>1, <2>1, <2>2 DEF LuRelease, p
  <1>2. CASE ~(v.use["SGs-lu"] > 0)
    BY <1>2 DEF LuRelease, Same
  <1> QED BY <1>1, <1>2

(* vlr_subscr_keep_incomplete_expiry() touches the expiry only.            *)
LEMMA KeepIncompleteExpirySound ==
  ASSUME NEW v, Sound(v)
  PROVE  Sound(KeepIncompleteExpiry(v)) /\ Same(v, KeepIncompleteExpiry(v))
  <1> DEFINE w == [v EXCEPT !.exp = IncompleteTicks]
  <1>1. w \in Records
    BY TimerAssumption DEF Sound, Records
  <1>2. Same(v, w) /\ w.use = v.use
    BY DEF Sound, Records, Same
  <1> HIDE DEF w
  <1>3. Sound(w)
    BY <1>1, <1>2, SameSound
  <1> QED BY <1>2, <1>3 DEF KeepIncompleteExpiry, w, Same

(* vlr_subscr_expire() puts the use of an attached subscriber once.        *)
LEMMA ExpireSound ==
  ASSUME NEW v, Sound(v)
  PROVE  /\ Sound(Expire(v)) /\ Expire(v).alive = v.alive
         /\ Expire(v).ts5 = v.ts5
  <1> DEFINE p == Put(v, "attached")
             w == [p EXCEPT !.lu = FALSE]
  <1>1. CASE v.lu
    <2>1. /\ p \in Records /\ Same(v, p)
          /\ p.use = [v.use EXCEPT !["attached"] = v.use["attached"] - 1]
      BY Zenon, PutType DEF Tokens, Sound
    <2> HIDE DEF p
    <2>2. /\ w \in Records
          /\ w.alive = p.alive /\ w.lu = FALSE /\ w.ts5 = p.ts5 /\ w.use = p.use
          /\ w.paging = p.paging /\ w.conn = p.conn
          /\ w.reqs = p.reqs /\ w.ctrans = p.ctrans
      BY Zenon, <2>1 DEF Records
    <2> HIDE DEF w
    <2>3. Sound(w)
      BY SMTT(30), <1>1, <2>1, <2>2, SoundTypes
         DEF Sound, Balanced, Same, Tokens, Services, One
    <2> QED BY <1>1, <2>1, <2>2, <2>3 DEF Expire, Same, p, w
  <1>2. CASE ~v.lu
    BY <1>2 DEF Expire
  <1> QED BY <1>1, <1>2

(* The detach indications, in every state, end in SGs-NULL.                *)
LEMMA DetachIndSound ==
  ASSUME NEW v, Sound(v)
  PROVE  /\ Sound(DetachInd(v)) /\ DetachInd(v).alive = v.alive
         /\ DetachInd(v).ts5 = FALSE
  <1> DEFINE d == [v EXCEPT !.detached = TRUE]
             x == [d EXCEPT !.exp = Never]
             e == IF v.lu THEN x ELSE KeepIncompleteExpiry(d)
  <1>1. d \in Records
    BY Zenon DEF Sound, Records
  <1>2. Same(v, d) /\ d.use = v.use
    BY DEF Sound, Records, Same
  <1> HIDE DEF d
  <1>3. Sound(d)
    BY <1>1, <1>2, SameSound
  <1>4. x \in Records
    BY <1>1 DEF Records
  <1>5. Same(d, x) /\ x.use = d.use
    BY <1>1 DEF Records, Same
  <1> HIDE DEF x
  <1>6. Sound(x)
    BY <1>3, <1>4, <1>5, SameSound
  <1>7. Sound(e) /\ e.alive = v.alive
    BY <1>2, <1>3, <1>5, <1>6, KeepIncompleteExpirySound DEF Same
  <1> HIDE DEF e
  <1>8. /\ Sound(ToNull(e)) /\ ToNull(e).alive = v.alive
        /\ ToNull(e).ts5 = FALSE
    BY Zenon, <1>7, ToNullSound
  <1> QED BY <1>8 DEF DetachInd, d, x, e

(* SGS_UE_E_TX_LU_ACCEPT gets the use of an attached subscriber once; with *)
(* a new TMSI the page is not respawned.                                   *)
LEMMA TxLuAcceptSound ==
  ASSUME NEW v, Sound(v), NEW i
  PROVE  /\ Sound(TxLuAccept(v, i)) /\ TxLuAccept(v, i).alive = v.alive
         /\ TxLuAccept(v, i).lu = TRUE
         /\ v.tmsiNew => TxLuAccept(v, i).ts5 = v.ts5
  <1> DEFINE g == Get(v, "attached")
             b == [g EXCEPT !.lu = TRUE]
             a == IF v.lu THEN v ELSE b
             r == [a EXCEPT !.conf = TRUE, !.detached = FALSE, !.sgs = TRUE]
             p == IF v.tmsiNew THEN r ELSE RespawnPaging(r, i)
             w == [p EXCEPT !.st = "ASSOCIATED", !.ts62 = v.tmsiNew]
  <1>1. Sound(a) /\ a.alive = v.alive /\ a.lu = TRUE /\ a.ts5 = v.ts5
    <2>1. CASE v.lu
      BY <2>1, SoundTypes
    <2>2. CASE ~v.lu
      <3>1. /\ g \in Records /\ Same(v, g)
            /\ g.use = [v.use EXCEPT !["attached"] = v.use["attached"] + 1]
        BY Zenon, GetType DEF Tokens, Sound
      <3> HIDE DEF g
      <3>2. /\ b \in Records
            /\ b.alive = g.alive /\ b.lu = TRUE /\ b.ts5 = g.ts5 /\ b.use = g.use
            /\ b.paging = g.paging /\ b.conn = g.conn
            /\ b.reqs = g.reqs /\ b.ctrans = g.ctrans
        BY Zenon, <3>1 DEF Records
      <3> HIDE DEF b
      <3>3. Sound(b)
        BY SMTT(30), <2>2, <3>1, <3>2, SoundTypes
           DEF Sound, Balanced, Same, Tokens, Services, One
      <3> QED BY <2>2, <3>1, <3>2, <3>3 DEF Same
    <2> QED BY Zenon, <2>1, <2>2
  <1> HIDE DEF a
  <1>2. r \in Records
    BY ZenonT(60), <1>1 DEF Sound, Records
  <1>3. Same(a, r) /\ r.use = a.use
    BY <1>1 DEF Sound, Records, Same
  <1> HIDE DEF r
  <1>4. Sound(r)
    BY <1>1, <1>2, <1>3, SameSound
  <1>5. /\ Sound(p) /\ p.alive = v.alive /\ p.lu = TRUE
        /\ v.tmsiNew => p.ts5 = v.ts5
    BY <1>1, <1>3, <1>4, RespawnPagingSound DEF Same
  <1> HIDE DEF p
  <1>6. w \in Records
    BY Zenon, <1>5 DEF Sound, Records, SgsStates
  <1>7. Same(p, w) /\ w.use = p.use
    BY <1>5 DEF Sound, Records, Same
  <1> HIDE DEF w
  <1>8. Sound(w)
    BY <1>5, <1>6, <1>7, SameSound
  <1> QED BY <1>5, <1>7, <1>8 DEF TxLuAccept, Same, g, b, a, r, p, w

(* sgs_tx_loc_upd_resp_cb() with an accept leaves an attached record.      *)
LEMMA AccSentGood ==
  ASSUME NEW v, Sound(v), v.alive, NEW i
  PROVE  /\ Good(AccSent(v, i))
         /\ v.tmsiNew => AccSent(v, i).ts5 = v.ts5
  <1> DEFINE a == TxLuAccept(v, i)
             x == [a EXCEPT !.exp = AccExpiry]
  <1>1. /\ Sound(a) /\ a.alive = v.alive /\ a.lu = TRUE
        /\ v.tmsiNew => a.ts5 = v.ts5
    BY Zenon, TxLuAcceptSound
  <1> HIDE DEF a
  <1>2. x \in Records
    BY ZenonT(60), <1>1, TimerAssumption DEF Sound, Records, AccExpiry, Never
  <1>3. Same(a, x) /\ x.use = a.use
    BY Zenon, <1>1 DEF Sound, Records, Same
  <1> HIDE DEF x
  <1>4. Sound(x)
    BY <1>1, <1>2, <1>3, SameSound
  <1>5. Sound(LuRelease(x)) /\ Same(x, LuRelease(x))
    BY <1>4, LuReleaseSound
  <1>6. Good(LuRelease(x))
    BY Zenon, <1>1, <1>3, <1>5, InUseGood DEF Same
  <1> QED BY <1>1, <1>3, <1>5, <1>6 DEF AccSent, Same, a, x

(* The same with a reject.                                                 *)
LEMMA RejSentSound ==
  ASSUME NEW v, Sound(v)
  PROVE  /\ Sound(RejSent(v)) /\ RejSent(v).alive = v.alive
         /\ v.st = "LA_UPD_PRES" => RejSent(v).ts5 = FALSE
         /\ v.st # "LA_UPD_PRES" => RejSent(v).ts5 = v.ts5
  <1> DEFINE n == IF v.st = "LA_UPD_PRES" THEN ToNull(v) ELSE v
  <1>1. /\ Sound(n) /\ n.alive = v.alive
        /\ v.st = "LA_UPD_PRES" => n.ts5 = FALSE
        /\ v.st # "LA_UPD_PRES" => n.ts5 = v.ts5
    BY Zenon, ToNullSound
  <1> HIDE DEF n
  <1>2. Sound(LuRelease(n)) /\ Same(n, LuRelease(n))
    BY <1>1, LuReleaseSound
  <1> QED BY <1>1, <1>2 DEF RejSent, Same, n

(* vlr_subscr_detach() stops Ts5 and leaves a good record.                 *)
LEMMA DetachGood ==
  ASSUME NEW v, Sound(v), v.alive
  PROVE  Good(Detach(v)) /\ Detach(v).ts5 = FALSE
  <1> DEFINE l == LuRelease(v)
             d == DetachInd(l)
             e == Expire(d)
             k == KeepIncompleteExpiry(e)
  <1>1. Sound(l) /\ l.alive
    BY LuReleaseSound DEF Same
  <1> HIDE DEF l
  <1>2. Sound(d) /\ d.alive /\ d.ts5 = FALSE
    BY Zenon, <1>1, DetachIndSound
  <1> HIDE DEF d
  <1>3. Sound(e) /\ e.alive /\ e.ts5 = FALSE
    BY <1>2, ExpireSound
  <1> HIDE DEF e
  <1>4. Sound(k) /\ k.alive /\ k.ts5 = FALSE
    BY <1>3, KeepIncompleteExpirySound DEF Same
  <1> HIDE DEF k
  <1>5. Good(Settle(k)) /\ Settle(k).ts5 = FALSE
    BY <1>4, SettleGood
  <1> QED BY <1>5 DEF Detach, l, d, e, k

(* vlr_subscr_discard_incomplete() too.                                    *)
LEMMA DiscardIncompleteGood ==
  ASSUME NEW v, Sound(v), v.alive
  PROVE  Good(DiscardIncomplete(v)) /\ DiscardIncomplete(v).ts5 = FALSE
  <1> DEFINE l == LuRelease(v)
             p == PagStop(l)
             d == [p EXCEPT !.detached = TRUE]
             k == KeepIncompleteExpiry(d)
  <1>1. Sound(l) /\ l.alive
    BY LuReleaseSound DEF Same
  <1> HIDE DEF l
  <1>2. Sound(p) /\ p.alive /\ p.ts5 = FALSE
    BY Zenon, <1>1, PagStopSound
  <1> HIDE DEF p
  <1>3. d \in Records
    BY Zenon, <1>2 DEF Sound, Records
  <1>4. Same(p, d) /\ d.use = p.use
    BY Zenon, <1>2 DEF Sound, Records, Same
  <1> HIDE DEF d
  <1>5. Sound(d) /\ d.alive /\ d.ts5 = FALSE
    BY Zenon, <1>2, <1>3, <1>4, SameSound DEF Same
  <1>6. CASE Total(d) > 0
    <2>1. Good(d)
      BY <1>5, <1>6 DEF Good
    <2>2. Sound(k) /\ Same(d, k) /\ k.use = d.use
      <3>1. [d EXCEPT !.exp = IncompleteTicks].use = d.use
        BY <1>5 DEF Sound, Records
      <3> QED BY <1>5, <3>1, KeepIncompleteExpirySound DEF KeepIncompleteExpiry
    <2> HIDE DEF k
    <2>3. Good(k) /\ k.ts5 = FALSE
      BY Zenon, <1>5, <2>1, <2>2, SameGood DEF Sound, Same
    <2> QED BY <1>6, <2>3 DEF DiscardIncomplete, l, p, d, k
  <1>7. CASE ~(Total(d) > 0)
    BY <1>7, AbsentGood DEF DiscardIncomplete, l, p, d
  <1> QED BY Zenon, <1>6, <1>7

(* vlr_subscr_find_or_create_by_imsi() yields a record in use.             *)
LEMMA LuSubscrSound ==
  ASSUME NEW v, Good(v)
  PROVE  /\ Sound(LuSubscr(v)) /\ LuSubscr(v).alive /\ LuSubscr(v).ts5 = v.ts5
         /\ LuSubscr(v).use["SGs-lu"] > 0
  <1> DEFINE t == IF v.alive THEN Settle(Toss(v)) ELSE v
             u == IF t.alive THEN t ELSE Blank
             w == Get(u, "SGs-lu")
  <1>1. Good(t) /\ t.ts5 = v.ts5
    <2>1. CASE v.alive
      <3>1. Sound(Toss(v)) /\ Toss(v).alive /\ Toss(v).ts5 = v.ts5
        BY Zenon, <2>1, TossSound DEF Good
      <3> QED BY <2>1, <3>1, SettleGood
    <2>2. CASE ~v.alive
      BY <2>2
    <2> QED BY <2>1, <2>2
  <1> HIDE DEF t
  <1>2. Sound(u) /\ u.alive /\ u.ts5 = v.ts5
    <2>1. Blank.ts5 = FALSE
      BY DEF Blank
    <2>2. ~t.alive => t.ts5 = FALSE
      BY <1>1, AbsentGood DEF Good
    <2> QED BY Zenon, <1>1, <2>1, <2>2, BlankSound DEF Good
  <1> HIDE DEF u
  <1>3. /\ w \in Records /\ Same(u, w)
        /\ w.use = [u.use EXCEPT !["SGs-lu"] = u.use["SGs-lu"] + 1]
    BY Zenon, <1>2, GetType DEF Tokens, Sound
  <1> HIDE DEF w
  <1>4. Sound(w) /\ w.use["SGs-lu"] > 0
    BY SMTT(30), <1>2, <1>3, SoundTypes DEF Sound, Balanced, Same, Tokens, Services
  <1> QED BY <1>2, <1>3, <1>4 DEF LuSubscr, Same, t, u, w

(* A paging response on SGs opens a connection and, if nothing waits for   *)
(* it, releases it.                                                        *)
LEMMA AnswerOnSgsSound ==
  ASSUME NEW v, Sound(v)
  PROVE  /\ Sound(AnswerOnSgs(v)) /\ AnswerOnSgs(v).alive = v.alive
         /\ AnswerOnSgs(v).ts5 = v.ts5
  <1> DEFINE a == PagingAnswered(OpenConn(v))
  <1>1. Sound(a) /\ a.alive = v.alive /\ a.ts5 = v.ts5
    BY Zenon, OpenConnSound, PagingAnsweredSound
  <1> HIDE DEF a
  <1>2. Sound(Release(a)) /\ Release(a).alive = v.alive /\ Release(a).ts5 = v.ts5
    BY <1>1, ReleaseSound
  <1> QED BY <1>1, <1>2 DEF AnswerOnSgs, a

-----------------------------------------------------------------------------
(* The inductive invariant.                                                *)

(* The part about the records and the counter, and the rest of the types.  *)
RecordsInv ==
  /\ vs \in [Subs -> Records]
  /\ \A s \in Subs : Good(vs[s])
  /\ InflightExact

EnvInv ==
  /\ snap \in Nat /\ faults \in 0 .. MaxFaults
  /\ mmeUp \in BOOLEAN /\ gsupUp \in BOOLEAN /\ draining \in BOOLEAN

IInv == RecordsInv /\ EnvInv

(* The running Ts5 timers are finitely many, and each is counted.          *)
LEMMA CountType ==
  ASSUME RecordsInv
  PROVE  /\ IsFiniteSet({s \in Subs : vs[s].ts5}) /\ inflight \in Nat
         /\ \A s \in Subs : Stops(vs[s]) \in {0, 1} /\ Stops(vs[s]) <= inflight
  <1> DEFINE P == {s \in Subs : vs[s].ts5}
  <1>1. IsFiniteSet(P) /\ Cardinality(P) \in Nat
    BY SubsAssumption, FS_Subset, FS_CardinalityType
  <1>2. inflight = Cardinality(P)
    BY DEF RecordsInv, InflightExact
  <1>3. ASSUME NEW s \in Subs PROVE Stops(vs[s]) \in {0, 1} /\ Stops(vs[s]) <= inflight
    <2>1. CASE vs[s].ts5
      <3>1. s \in P
        BY <2>1
      <3> HIDE DEF P
      <3>2. Cardinality(P \ {s}) = Cardinality(P) - 1 /\ Cardinality(P \ {s}) \in Nat
        BY <1>1, <3>1, FS_RemoveElement, FS_CardinalityType
      <3> QED BY <1>1, <1>2, <2>1, <3>2 DEF Stops
    <2>2. CASE ~vs[s].ts5
      <3> HIDE DEF P
      <3> QED BY <1>1, <1>2, <2>2 DEF Stops
    <2> QED BY <2>1, <2>2
  <1> QED BY <1>1, <1>2, <1>3

(* A handler that puts a good record in place and counts its Ts5.          *)
LEMMA RecordStep ==
  ASSUME RecordsInv, NEW s \in Subs, NEW w, Good(w), Update(s, w),
         inflight' = Decrement(inflight, Stops(vs[s])) + Stops(w)
  PROVE  RecordsInv'
  <1> DEFINE P == {r \in Subs : vs[r].ts5}
             Q == {r \in Subs : vs'[r].ts5}
  <1>1. vs' = [vs EXCEPT ![s] = w] /\ vs \in [Subs -> Records] /\ w \in Records
    BY DEF Update, RecordsInv, Good, Sound
  <1>2. vs' \in [Subs -> Records] /\ \A r \in Subs : Good(vs'[r])
    BY <1>1 DEF RecordsInv
  <1>3. IsFiniteSet(P) /\ Cardinality(P) \in Nat /\ inflight = Cardinality(P)
    BY CountType, FS_CardinalityType DEF RecordsInv, InflightExact
  <1>4. /\ IsFiniteSet(P \ {s})
        /\ Cardinality(P \ {s}) = Cardinality(P) - Stops(vs[s])
        /\ Cardinality(P \ {s}) \in Nat
    <2>1. s \in P <=> vs[s].ts5
      OBVIOUS
    <2> HIDE DEF P
    <2>2. IsFiniteSet(P \ {s}) /\ Cardinality(P \ {s}) \in Nat
      BY <1>3, FS_RemoveElement, FS_CardinalityType
    <2>3. Cardinality(P \ {s}) = IF s \in P THEN Cardinality(P) - 1 ELSE Cardinality(P)
      BY Zenon, <1>3, FS_RemoveElement
    <2> QED BY SMTT(30), <1>3, <2>1, <2>2, <2>3 DEF Stops
  <1>5. inflight' = Cardinality(P \ {s}) + Stops(w)
    BY <1>3, <1>4, CountType DEF Decrement
  <1>6. Cardinality(Q) = Cardinality(P \ {s}) + Stops(w)
    <2>1. CASE w.ts5
      <3>1. Q = (P \ {s}) \cup {s}
        BY <1>1, <2>1
      <3> HIDE DEF P, Q
      <3>2. s \notin P \ {s}
        OBVIOUS
      <3>3. Cardinality((P \ {s}) \cup {s}) = Cardinality(P \ {s}) + 1
        BY <1>4, <3>2, FS_AddElement
      <3> QED BY <2>1, <3>1, <3>3 DEF Stops
    <2>2. CASE ~w.ts5
      <3>1. Q = P \ {s}
        BY <1>1, <2>2
      <3> HIDE DEF P, Q
      <3> QED BY <1>4, <2>2, <3>1 DEF Stops
    <2> QED BY <2>1, <2>2
  <1> QED BY <1>2, <1>5, <1>6 DEF RecordsInv, InflightExact

(* A handler that stops the Ts5 timers of S.                               *)
LEMMA RecordsStep ==
  ASSUME RecordsInv, NEW S \in SUBSET Subs, vs' \in [Subs -> Records],
         \A s \in Subs : Good(vs'[s]),
         \A s \in S : vs'[s].ts5 = FALSE,
         \A s \in Subs \ S : vs'[s].ts5 = vs[s].ts5,
         inflight' = Decrement(inflight, StopsOf(S))
  PROVE  RecordsInv'
  <1> DEFINE P == {r \in Subs : vs[r].ts5}
             Q == {r \in Subs : vs'[r].ts5}
             D == {r \in S : vs[r].ts5}
  <1>1. IsFiniteSet(P) /\ Cardinality(P) \in Nat /\ inflight = Cardinality(P)
    BY CountType, FS_CardinalityType DEF RecordsInv, InflightExact
  <1>2. Q = P \ S /\ D = P \cap S
    OBVIOUS
  <1> HIDE DEF P, Q, D
  <1>3. Cardinality(Q) = Cardinality(P) - Cardinality(D)
    BY Zenon, <1>1, <1>2, FS_Difference
  <1>4. Cardinality(D) \in Nat /\ Cardinality(D) <= Cardinality(P)
    BY <1>1, <1>2, FS_Subset, FS_CardinalityType
  <1>5. inflight' = Cardinality(Q)
    BY <1>1, <1>3, <1>4 DEF Decrement, StopsOf, D
  <1> QED BY <1>5 DEF Q, RecordsInv, InflightExact

(* A handler on s that leaves Ts5 alone, or stops it.                      *)
LEMMA KeepStep ==
  ASSUME RecordsInv, NEW s \in Subs, NEW w, Good(w), Update(s, w),
         w.ts5 = vs[s].ts5, UNCHANGED inflight
  PROVE  RecordsInv'
  <1>1. inflight' = Decrement(inflight, Stops(vs[s])) + Stops(w)
    BY CountType DEF Decrement, Stops
  <1> QED BY <1>1, RecordStep

(* A handler on s that stops Ts5, and decrements the counter if it ran.    *)
LEMMA StopStep ==
  ASSUME RecordsInv, NEW s \in Subs, NEW w, Good(w), Update(s, w),
         w.ts5 = FALSE, inflight' = Decrement(inflight, Stops(vs[s]))
  PROVE  RecordsInv'
  <1>1. inflight' = Decrement(inflight, Stops(vs[s])) + Stops(w)
    BY CountType DEF Decrement, Stops
  <1> QED BY <1>1, RecordStep

-----------------------------------------------------------------------------
(* Every action preserves the records' part.                               *)

(* The LOCATION-UPDATE-REQUEST, whether it is a duplicate, goes to the HLR *)
(* or fails.                                                               *)
LEMMA RxLocUpdReqStep ==
  ASSUME RecordsInv, NEW s \in Subs, NEW sent \in BOOLEAN, RxLocUpdReq(s, sent)
  PROVE  RecordsInv'
  <1> DEFINE v == LuSubscr(vs[s])
             n == ToNull(v)
             w == IF sent THEN PerformLu(v) ELSE RejSent(n)
             x == [w EXCEPT !.exp = LuExpiry(w)]
  <1>1. Sound(v) /\ v.alive /\ v.ts5 = vs[s].ts5 /\ v.use["SGs-lu"] > 0
    BY LuSubscrSound DEF RecordsInv
  <1>2. CASE v.st = "LA_UPD_PRES"
    <2>1. Update(s, Settle(Put(v, "SGs-lu"))) /\ UNCHANGED inflight
      BY <1>2 DEF RxLocUpdReq
    <2> HIDE DEF v
    <2>2. Put(v, "SGs-lu") = LuRelease(v)
      BY <1>1 DEF LuRelease
    <2>3. /\ Good(Settle(Put(v, "SGs-lu")))
          /\ Settle(Put(v, "SGs-lu")).ts5 = vs[s].ts5
      BY SMTT(30), <1>1, <2>2, LuReleaseSound, SettleGood DEF Same
    <2> QED BY <2>1, <2>3, KeepStep
  <1>3. CASE v.st # "LA_UPD_PRES"
    <2>1. /\ Update(s, Settle(x))
          /\ inflight' = IF sent THEN inflight ELSE Decrement(inflight, Stops(v))
      BY <1>3 DEF RxLocUpdReq
    <2> HIDE DEF v
    <2>2. Sound(n) /\ n.alive /\ n.ts5 = FALSE /\ n.st \in SgsStates
      BY Zenon, <1>1, ToNullSound DEF Sound, Records
    <2> HIDE DEF n
    <2>3. Sound(w) /\ w.alive /\ w.ts5 = IF sent THEN v.ts5 ELSE FALSE
      BY Zenon, <1>1, <2>2, PerformLuSound, RejSentSound DEF Same
    <2> HIDE DEF w
    <2>4. x \in Records
      BY <2>3, TimerAssumption DEF Sound, Records, LuExpiry
    <2>5. Same(w, x) /\ x.use = w.use
      BY Zenon, <2>3 DEF Sound, Records, Same
    <2> HIDE DEF x
    <2>6. Sound(x) /\ x.alive /\ x.ts5 = w.ts5
      BY Zenon, <2>3, <2>4, <2>5, SameSound DEF Same
    <2>7. Good(Settle(x)) /\ Settle(x).ts5 = w.ts5
      BY <2>6, SettleGood
    <2>8. CASE sent
      BY <1>1, <2>1, <2>3, <2>7, <2>8, KeepStep
    <2>9. CASE ~sent
      <3>1. Stops(v) = Stops(vs[s])
        BY <1>1 DEF Stops
      <3> QED BY Zenon, <2>1, <2>3, <2>7, <2>9, <3>1, StopStep
    <2> QED BY <2>8, <2>9
  <1> QED BY <1>2, <1>3

(* The other messages of the MME about one subscriber.                     *)
LEMMA MmeMessageStep ==
  ASSUME RecordsInv, NEW s \in Subs, MmeMessage(s)
  PROVE  RecordsInv'
  <1> DEFINE v == vs[s]
  <1>1. Good(v) /\ Sound(v)
    BY DEF RecordsInv, Good
  <1> USE <1>1
  <1>2. ASSUME NEW sent \in BOOLEAN, RxLocUpdReq(s, sent) PROVE RecordsInv'
    BY <1>2, RxLocUpdReqStep
  <1>3. ASSUME NEW implicit \in BOOLEAN, RxImsiDetInd(s, implicit) PROVE RecordsInv'
    <2> DEFINE e == Expire(DetachInd(v))
    <2>1. /\ v.alive /\ Update(s, Settle(e))
          /\ inflight' = Decrement(inflight, Stops(v))
      BY <1>3 DEF RxImsiDetInd
    <2>2. Sound(e) /\ e.alive /\ e.ts5 = FALSE
      BY Zenon, <2>1, DetachIndSound, ExpireSound
    <2> HIDE DEF e
    <2> QED BY Zenon, <2>1, <2>2, SettleGood, StopStep
  <1>4. CASE RxEpsDetInd(s)
    <2> DEFINE d == DetachInd(v)
               e == IF d.exp = Never THEN EnableExpire(d) ELSE d
    <2>1. /\ v.alive /\ Update(s, Settle(e))
          /\ inflight' = Decrement(inflight, Stops(v))
      BY <1>4 DEF RxEpsDetInd
    <2>2. Sound(d) /\ d.alive /\ d.ts5 = FALSE
      BY Zenon, <2>1, DetachIndSound
    <2> HIDE DEF d
    <2>3. Sound(e) /\ e.alive /\ e.ts5 = FALSE
      BY <2>2, EnableExpireSound DEF Same
    <2> HIDE DEF e
    <2> QED BY Zenon, <2>1, <2>3, SettleGood, StopStep
  <1>5. ASSUME NEW userBusy \in BOOLEAN, RxPagRej(s, userBusy) PROVE RecordsInv'
    <2> DEFINE f == IF userBusy \/ v.st = "NULL" THEN v ELSE ToNull(v)
               p == PagStop(f)
               e == PagingExpired(p)
    <2>1. /\ v.alive /\ Update(s, Settle(e))
          /\ inflight' = Decrement(inflight, Stops(v))
      BY <1>5 DEF RxPagRej
    <2>2. Sound(f) /\ f.alive
      BY Zenon, <2>1, ToNullSound
    <2> HIDE DEF f
    <2>3. Sound(p) /\ p.alive /\ p.ts5 = FALSE
      BY Zenon, <2>2, PagStopSound
    <2> HIDE DEF p
    <2>4. Sound(e) /\ e.alive /\ e.ts5 = FALSE
      BY <2>3, PagingExpiredSound
    <2> HIDE DEF e
    <2> QED BY Zenon, <2>1, <2>4, SettleGood, StopStep
  <1>6. CASE RxUeUnreachable(s)
    <2>1. /\ v.alive /\ Update(s, Settle(PagStop(v)))
          /\ inflight' = Decrement(inflight, Stops(v))
      BY <1>6 DEF RxUeUnreachable
    <2> QED BY Zenon, <2>1, PagStopSound, SettleGood, StopStep
  <1>7. CASE RxTmsiReallCmpl(s)
    <2> DEFINE t == [v EXCEPT !.tmsi = TRUE, !.tmsiNew = FALSE]
               w == IF v.tmsiNew THEN RespawnPaging(t, inflight) ELSE v
               x == [w EXCEPT !.ts62 = FALSE]
    <2>1. /\ v.alive /\ Update(s, Settle(x))
          /\ inflight' = IF v.tmsiNew THEN RespawnInflight(v, w, inflight)
                         ELSE inflight
      BY <1>7 DEF RxTmsiReallCmpl
    <2>2. t \in Records
      BY Zenon DEF Sound, Records
    <2>3. Same(v, t) /\ t.use = v.use
      BY DEF Sound, Records, Same
    <2> HIDE DEF t
    <2>4. Sound(t) /\ t.alive
      BY Zenon, <2>1, <2>2, <2>3, SameSound DEF Same
    <2>5. Sound(w) /\ w.alive /\ (~v.tmsiNew => w.ts5 = v.ts5)
      BY <2>1, <2>4, RespawnPagingSound
    <2> HIDE DEF w
    <2>6. x \in Records
      BY Zenon, <2>5 DEF Sound, Records
    <2>7. Same(w, x) /\ x.use = w.use
      BY Zenon, <2>5 DEF Sound, Records, Same
    <2> HIDE DEF x
    <2>8. Good(Settle(x)) /\ Settle(x).ts5 = w.ts5
      BY Zenon, <2>5, <2>6, <2>7, SameSound, SettleGood DEF Same
    <2>9. CASE v.tmsiNew
      <3>1. inflight' = Decrement(inflight, Stops(v)) + Stops(Settle(x))
        BY <2>1, <2>8, <2>9 DEF RespawnInflight, Stops
      <3> QED BY <2>1, <2>8, <3>1, RecordStep
    <2>10. CASE ~v.tmsiNew
      BY <2>1, <2>5, <2>8, <2>10, KeepStep
    <2> QED BY <2>9, <2>10
  <1>8. ASSUME NEW k \in Services \cup {"none"}, RxServiceReq(s, k) PROVE RecordsInv'
    <2> DEFINE q == ServiceReq(v)
               acked == v.ts5 /\ k \in Services
               p == PagStop(q)
               e == IF k = "CC" THEN p ELSE AnswerOnSgs(p)
    <2>1. /\ v.alive /\ Update(s, IF ~acked THEN q ELSE Settle(e))
          /\ inflight' = IF acked THEN Decrement(inflight, 1) ELSE inflight
      BY <1>8 DEF RxServiceReq
    <2>2. q \in Records /\ Same(v, q) /\ q.use = v.use
      <3> DEFINE a == [v EXCEPT !.st = "ASSOCIATED", !.conf = TRUE]
      <3>1. a \in Records
        BY Zenon DEF Sound, Records, SgsStates
      <3>2. Same(v, a) /\ a.use = v.use
        BY DEF Sound, Records, Same
      <3> QED BY <3>1, <3>2 DEF ServiceReq, Sound, Same
    <2> HIDE DEF q
    <2>3. Good(q) /\ q.ts5 = v.ts5
      BY Zenon, <2>1, <2>2, SameGood DEF Same
    <2>4. Sound(p) /\ p.alive /\ p.ts5 = FALSE
      BY Zenon, <2>1, <2>2, <2>3, PagStopSound DEF Good, Same
    <2> HIDE DEF p
    <2>5. Sound(e) /\ e.alive /\ e.ts5 = FALSE
      BY <2>4, AnswerOnSgsSound
    <2> HIDE DEF e
    <2>6. CASE acked
      <3>1. inflight' = Decrement(inflight, Stops(v))
        BY <2>1, <2>6 DEF Stops
      <3> QED BY Zenon, <2>1, <2>5, <2>6, <3>1, SettleGood, StopStep
    <2>7. CASE ~acked
      <3>1. Update(s, q) /\ UNCHANGED inflight
        BY <2>1, <2>7
      <3> QED BY <2>3, <3>1, KeepStep
    <2> QED BY <2>6, <2>7
  <1>9. CASE RxCsfbInd(s)
    <2>1. v.alive /\ Update(s, Settle(Toss(v))) /\ UNCHANGED inflight
      BY <1>9 DEF RxCsfbInd
    <2> QED BY Zenon, <2>1, TossSound, SettleGood, KeepStep
  <1>10. ASSUME NEW sms \in BOOLEAN, RxUlUd(s, sms) PROVE RecordsInv'
    <2> DEFINE c == IF v.conn THEN v ELSE OpenConn(v)
               g == Get(c, "SMS")
               w == [g EXCEPT !.ctrans = @ \cup {"SMS"}]
    <2>1. /\ v.alive /\ UNCHANGED inflight
          /\ Update(s, IF sms /\ "SMS" \notin c.ctrans THEN w ELSE c)
      BY <1>10 DEF RxUlUd
    <2>2. Sound(c) /\ c.alive /\ c.ts5 = v.ts5 /\ c.conn = TRUE
      BY Zenon, <2>1, OpenConnSound, SoundTypes
    <2> HIDE DEF c
    <2>3. Good(c)
      BY <2>2, InUseGood
    <2>4. /\ g \in Records /\ Same(c, g)
          /\ g.use = [c.use EXCEPT !["SMS"] = c.use["SMS"] + 1]
      BY Zenon, <2>2, GetType DEF Tokens, Sound
    <2> HIDE DEF g
    <2>5. /\ w \in Records
          /\ w.alive = g.alive /\ w.lu = g.lu /\ w.ts5 = g.ts5 /\ w.use = g.use
          /\ w.paging = g.paging /\ w.conn = g.conn
          /\ w.reqs = g.reqs /\ w.ctrans = g.ctrans \cup {"SMS"}
      BY <2>4 DEF Records, Services
    <2> HIDE DEF w
    <2>6. ASSUME "SMS" \notin c.ctrans PROVE Sound(w)
      <3>1. /\ "SMS" \in Services /\ 1 \in Int
            /\ w.lu = c.lu /\ w.ts5 = c.ts5 /\ w.paging = c.paging /\ w.conn = c.conn
            /\ w.reqs = c.reqs /\ w.ctrans = c.ctrans \cup {"SMS"} /\ w.conn
        BY SMTT(30), <2>2, <2>4, <2>5 DEF Same, Services
      <3>2. \A t \in Tokens : w.use[t] = IF t = "SMS" THEN c.use[t] + 1 ELSE c.use[t]
        BY SMTT(30), <2>2, <2>4, <2>5, SoundTypes
      <3>3. One("SMS" \in w.reqs) + One("SMS" \in w.ctrans)
              = One("SMS" \in c.reqs) + One("SMS" \in c.ctrans) + 1
        BY SMTT(30), <2>6, <3>1 DEF One
      <3>4. /\ \A j \in Services \ {"SMS"} : (j \in w.reqs) = (j \in c.reqs)
            /\ \A j \in Services \ {"SMS"} : (j \in w.ctrans) = (j \in c.ctrans)
        BY SMTT(30), <3>1
      <3> QED BY SMTT(30), <2>2, <2>5, <3>1, <3>2, <3>3, <3>4, TransSound
    <2>7. "SMS" \notin c.ctrans => Good(w) /\ w.ts5 = v.ts5
      BY Zenon, <2>2, <2>4, <2>5, <2>6, InUseGood DEF Same
    <2> QED BY <2>1, <2>2, <2>3, <2>7, KeepStep
  <1> QED BY <1>2, <1>3, <1>4, <1>5, <1>6, <1>7, <1>8, <1>9, <1>10 DEF MmeMessage

(* Mobile terminated transactions and connections.                         *)
LEMMA TransactionsStep ==
  ASSUME RecordsInv, NEW s \in Subs, Transactions(s)
  PROVE  RecordsInv'
  <1> DEFINE v == vs[s]
  <1>1. Good(v) /\ Sound(v)
    BY DEF RecordsInv, Good
  <1> USE <1>1
  <1>2. ASSUME NEW k \in Offered, MtRequest(s, k) PROVE RecordsInv'
    <2> DEFINE t == Get(v, k)
               c == [t EXCEPT !.ctrans = @ \cup {k}]
               w == [t EXCEPT !.reqs = @ \cup {k}]
               p == Paged(w, k)
               g == Get(p, "Paging")
               x == [g EXCEPT !.paging = TRUE, !.ptimer = TRUE]
               page == ~v.conn /\ ~v.paging /\ v.sgs /\ CanPage(v, k, inflight)
    <2>1. /\ v.alive /\ v.lu /\ k \notin v.reqs \cup v.ctrans
          /\ \/ v.conn /\ Update(s, c)
             \/ ~v.conn /\ v.paging /\ Update(s, w)
             \/ page /\ Update(s, x)
          /\ inflight' = IF page THEN inflight + 1 ELSE inflight
      BY <1>2 DEF MtRequest
    <2>2. k \in Services /\ k \in Tokens
      BY SubsAssumption DEF Services, Tokens
    <2>3. /\ t \in Records /\ Same(v, t)
          /\ t.use = [v.use EXCEPT ![k] = v.use[k] + 1]
      BY <2>2, GetType DEF Sound
    <2> HIDE DEF t
    <2>4. CASE v.conn
      <3>1. /\ c \in Records
            /\ c.alive = t.alive /\ c.lu = t.lu /\ c.ts5 = t.ts5 /\ c.use = t.use
            /\ c.paging = t.paging /\ c.conn = t.conn
            /\ c.reqs = t.reqs /\ c.ctrans = t.ctrans \cup {k}
        BY <2>2, <2>3 DEF Records
      <3> HIDE DEF c
      <3>2. Sound(c)
        BY SMTT(30), <2>1, <2>2, <2>3, <2>4, <3>1, SoundTypes
           DEF Sound, Balanced, Same, Tokens, Services, One
      <3>3. Good(c) /\ c.ts5 = v.ts5
        BY Zenon, <2>1, <2>3, <3>1, <3>2, InUseGood DEF Same
      <3> QED BY <2>1, <2>4, <3>3, KeepStep
    <2>5. CASE ~v.conn
      <3>1. /\ w \in Records
            /\ w.alive = t.alive /\ w.lu = t.lu /\ w.ts5 = t.ts5 /\ w.use = t.use
            /\ w.paging = t.paging /\ w.conn = t.conn
            /\ w.reqs = t.reqs \cup {k} /\ w.ctrans = t.ctrans
        BY <2>2, <2>3 DEF Records
      <3> HIDE DEF w
      <3>2. Sound(w)
        BY SMTT(30), <2>1, <2>2, <2>3, <2>5, <3>1, SoundTypes
           DEF Sound, Balanced, Same, Tokens, Services, One
      <3>3. CASE v.paging
        <4>1. Good(w) /\ w.ts5 = v.ts5
          BY ZenonT(60), <2>1, <2>3, <3>1, <3>2, InUseGood DEF Same
        <4> QED BY <2>1, <2>5, <3>3, <4>1, KeepStep
      <3>4. CASE ~v.paging
        <4>1. page /\ Update(s, x) /\ inflight' = inflight + 1 /\ ~v.ts5
          BY <2>1, <2>5, <3>4 DEF CanPage
        <4>2. /\ Sound(p) /\ p.alive = v.alive /\ p.ts5 = TRUE
              /\ p.paging = v.paging /\ p.lu = v.lu
          BY ZenonT(60), <2>2, <2>3, <3>1, <3>2, <4>1, PagedSound DEF Same
        <4> HIDE DEF p
        <4>3. /\ g \in Records /\ Same(p, g)
              /\ g.use = [p.use EXCEPT !["Paging"] = p.use["Paging"] + 1]
          BY Zenon, <4>2, GetType DEF Tokens, Sound
        <4> HIDE DEF g
        <4>4. /\ x \in Records
              /\ x.alive = g.alive /\ x.lu = g.lu /\ x.ts5 = g.ts5 /\ x.use = g.use
              /\ x.paging = TRUE /\ x.conn = g.conn
              /\ x.reqs = g.reqs /\ x.ctrans = g.ctrans
          BY Zenon, <4>3 DEF Records
        <4> HIDE DEF x
        <4>5. Sound(x)
          <5>1. /\ x.lu = p.lu /\ x.ts5 = p.ts5 /\ x.conn = p.conn
                /\ x.reqs = p.reqs /\ x.ctrans = p.ctrans /\ p.paging = FALSE
                /\ p.use \in [Tokens -> Int]
            BY <3>4, <4>2, <4>3, <4>4, SoundTypes DEF Same
          <5>2. \A u \in Tokens : x.use[u] = IF u = "Paging" THEN p.use[u] + 1 ELSE p.use[u]
            BY ZenonT(60), <4>3, <4>4, <5>1
          <5>3. /\ x.use["attached"] = p.use["attached"]
                /\ x.use["SGs-lu"] = p.use["SGs-lu"]
                /\ x.use["SGs-paging-req"] = p.use["SGs-paging-req"]
                /\ x.use["active-conn"] = p.use["active-conn"]
                /\ x.use["Paging"] = p.use["Paging"] + 1
                /\ \A j \in Services : x.use[j] = p.use[j]
            BY <5>2 DEF Tokens, Services
          <5>4. Balanced(p) /\ x.paging = TRUE
            BY <4>2, <4>4 DEF Sound
          <5>5. /\ x.use["attached"] = One(x.lu) /\ x.use["SGs-lu"] >= 0
                /\ x.use["SGs-paging-req"] = One(x.ts5)
                /\ x.use["active-conn"] = One(x.conn)
            BY <5>1, <5>3, <5>4 DEF Balanced
          <5>6. x.use["Paging"] = One(x.paging)
            BY SMTT(30), <5>1, <5>3, <5>4 DEF Balanced, One
          <5>7. \A j \in Services : x.use[j] = One(j \in x.reqs) + One(j \in x.ctrans)
            BY <5>1, <5>3, <5>4 DEF Balanced
          <5>8. Balanced(x)
            BY <5>5, <5>6, <5>7 DEF Balanced
          <5> QED BY <4>2, <4>4, <5>1, <5>8 DEF Sound
        <4>6. Good(x) /\ x.ts5 = TRUE
          BY Zenon, <2>1, <4>2, <4>3, <4>4, <4>5, InUseGood DEF Same
        <4>7. inflight' = Decrement(inflight, Stops(v)) + Stops(x)
          BY SMTT(30), <4>1, <4>6, CountType DEF Decrement, Stops
        <4> QED BY <4>1, <4>6, <4>7, RecordStep
      <3> QED BY <3>3, <3>4
    <2> QED BY <2>4, <2>5
  <1>3. ASSUME NEW k \in Services, MtAbort(s, k) PROVE RecordsInv'
    <2> DEFINE f == FreeTrans(v, {k})
               w == [f EXCEPT !.reqs = @ \ {k}]
    <2>1. k \in v.reqs /\ Update(s, Settle(w)) /\ UNCHANGED inflight
      BY <1>3 DEF MtAbort
    <2>2. v.alive
      <3>1. Absent.reqs = {}
        BY DEF Absent, Blank
      <3> QED BY <2>1, <3>1 DEF Good
    <2>3. /\ f \in Records /\ Same(v, f)
          /\ f.use = [t \in Tokens |-> v.use[t] - IF t \in {k} THEN 1 ELSE 0]
      BY FreeTransType DEF Sound
    <2> HIDE DEF f
    <2>4. /\ w \in Records
          /\ w.alive = f.alive /\ w.lu = f.lu /\ w.ts5 = f.ts5 /\ w.use = f.use
          /\ w.paging = f.paging /\ w.conn = f.conn
          /\ w.reqs = f.reqs \ {k} /\ w.ctrans = f.ctrans
      BY <2>3 DEF Records
    <2> HIDE DEF w
    <2>5. Sound(w)
      <3>1. /\ -1 \in Int
            /\ w.lu = v.lu /\ w.ts5 = v.ts5 /\ w.paging = v.paging /\ w.conn = v.conn
            /\ w.reqs = v.reqs \ {k} /\ w.ctrans = v.ctrans
        BY SMTT(30), <2>3, <2>4 DEF Same
      <3>2. \A t \in Tokens : w.use[t] = IF t = k THEN v.use[t] + (-1) ELSE v.use[t]
        BY SMTT(30), <2>3, <2>4, SoundTypes
      <3>3. One(k \in w.reqs) + One(k \in w.ctrans)
              = One(k \in v.reqs) + One(k \in v.ctrans) + (-1)
        <4>1. k \in v.reqs /\ k \notin w.reqs
          BY <2>1, <3>1
        <4>2. One(k \in v.reqs) = 1 /\ One(k \in w.reqs) = 0
          BY <4>1 DEF One
        <4>3. One(k \in w.ctrans) = One(k \in v.ctrans) /\ One(k \in v.ctrans) \in Int
          BY SMTT(30), <3>1 DEF One
        <4> QED BY SMTT(30), <4>2, <4>3
      <3>4. /\ \A j \in Services \ {k} : (j \in w.reqs) = (j \in v.reqs)
            /\ \A j \in Services \ {k} : (j \in w.ctrans) = (j \in v.ctrans)
        BY SMTT(30), <3>1
      <3>5. ~w.conn => w.ctrans = {}
        BY <3>1 DEF Sound
      <3> QED BY <2>4, <3>1, <3>2, <3>3, <3>4, <3>5, TransSound, ZenonT(10), SMTT(30)
    <2>6. Good(Settle(w)) /\ Settle(w).ts5 = v.ts5
      BY Zenon, <2>2, <2>3, <2>4, <2>5, SettleGood DEF Same
    <2> QED BY <2>1, <2>6, KeepStep
  <1>4. ASSUME NEW k \in Services, TransDone(s, k) PROVE RecordsInv'
    <2> DEFINE f == FreeTrans(v, {k})
               d == [f EXCEPT !.ctrans = @ \ {k}]
               e == IF d.ctrans = {} THEN Release(d) ELSE d
    <2>1. k \in v.ctrans /\ Update(s, Settle(e)) /\ UNCHANGED inflight
      BY <1>4 DEF TransDone
    <2>2. v.alive
      <3>1. Absent.ctrans = {}
        BY DEF Absent, Blank
      <3> QED BY <2>1, <3>1 DEF Good
    <2>3. /\ f \in Records /\ Same(v, f)
          /\ f.use = [t \in Tokens |-> v.use[t] - IF t \in {k} THEN 1 ELSE 0]
      BY FreeTransType DEF Sound
    <2> HIDE DEF f
    <2>4. /\ d \in Records
          /\ d.alive = f.alive /\ d.lu = f.lu /\ d.ts5 = f.ts5 /\ d.use = f.use
          /\ d.paging = f.paging /\ d.conn = f.conn
          /\ d.reqs = f.reqs /\ d.ctrans = f.ctrans \ {k}
      BY <2>3 DEF Records
    <2> HIDE DEF d
    <2>5. Sound(d) /\ d.alive /\ d.ts5 = v.ts5
      <3>1. /\ -1 \in Int
            /\ d.lu = v.lu /\ d.ts5 = v.ts5 /\ d.paging = v.paging /\ d.conn = v.conn
            /\ d.reqs = v.reqs /\ d.ctrans = v.ctrans \ {k}
        BY SMTT(30), <2>3, <2>4 DEF Same
      <3>2. \A t \in Tokens : d.use[t] = IF t = k THEN v.use[t] + (-1) ELSE v.use[t]
        BY SMTT(30), <2>3, <2>4, SoundTypes
      <3>3. One(k \in d.reqs) + One(k \in d.ctrans)
              = One(k \in v.reqs) + One(k \in v.ctrans) + (-1)
        <4>1. k \in v.ctrans /\ k \notin d.ctrans
          BY <2>1, <3>1
        <4>2. One(k \in v.ctrans) = 1 /\ One(k \in d.ctrans) = 0
          BY <4>1 DEF One
        <4>3. One(k \in d.reqs) = One(k \in v.reqs) /\ One(k \in v.reqs) \in Int
          BY SMTT(30), <3>1 DEF One
        <4> QED BY <4>2, <4>3
      <3>4. /\ \A j \in Services \ {k} : (j \in d.reqs) = (j \in v.reqs)
            /\ \A j \in Services \ {k} : (j \in d.ctrans) = (j \in v.ctrans)
        BY SMTT(30), <3>1
      <3>5. ~d.conn => d.ctrans = {}
        BY ZenonT(60), <3>1 DEF Sound
      <3>6. Sound(d)
        BY <2>4, <3>1, <3>2, <3>3, <3>4, <3>5, TransSound, ZenonT(10), SMTT(30)
      <3> QED BY <2>2, <2>3, <2>4, <3>6 DEF Same
    <2>6. Sound(e) /\ e.alive /\ e.ts5 = v.ts5
      BY <2>5, ReleaseSound
    <2> HIDE DEF e
    <2> QED BY <2>1, <2>6, SettleGood, KeepStep
  <1>5. CASE ConnClose(s)
    <2>1. v.conn /\ Update(s, Settle(Release(v))) /\ UNCHANGED inflight
      BY <1>5 DEF ConnClose
    <2>2. v.alive
      <3>1. ~Absent.conn
        BY DEF Absent, Blank
      <3> QED BY <2>1, <3>1 DEF Good
    <2> QED BY <2>1, <2>2, ReleaseSound, SettleGood, KeepStep
  <1> QED BY <1>2, <1>3, <1>4, <1>5 DEF Transactions

(* The timers of one subscriber.                                           *)
LEMMA TimersStep ==
  ASSUME RecordsInv, NEW s \in Subs, Timers(s)
  PROVE  RecordsInv'
  <1> DEFINE v == vs[s]
  <1>1. Good(v) /\ Sound(v)
    BY DEF RecordsInv, Good
  <1>2. v.ts5 \/ v.ptimer \/ v.ts62 => v.alive
    <2>1. ~Absent.ts5 /\ ~Absent.ptimer /\ ~Absent.ts62
      BY DEF Absent, Blank
    <2> QED BY <1>1, <2>1 DEF Good
  <1>3. CASE Ts5Timeout(s)
    <2> DEFINE e == IF v.paging THEN PagingExpired(v) ELSE v
    <2>1. /\ v.ts5 /\ inflight' = Decrement(inflight, 1)
          /\ Update(s, Settle([Put(e, "SGs-paging-req") EXCEPT !.ts5 = FALSE]))
      BY <1>3 DEF Ts5Timeout
    <2>2. Sound(e) /\ e.alive /\ e.ts5 = TRUE
      BY <1>1, <1>2, <2>1, PagingExpiredSound, SoundTypes
    <2> HIDE DEF e
    <2>3. [Put(e, "SGs-paging-req") EXCEPT !.ts5 = FALSE] = PagStop(e)
      BY <2>2 DEF PagStop
    <2>4. Update(s, Settle(PagStop(e))) /\ inflight' = Decrement(inflight, Stops(v))
      BY Zenon, <2>1, <2>3 DEF Stops
    <2> QED BY Zenon, <2>2, <2>4, PagStopSound, SettleGood, StopStep
  <1>4. CASE PagingTimeout(s)
    <2>1. v.ptimer /\ Update(s, Settle(PagingExpired(v))) /\ UNCHANGED inflight
      BY <1>4 DEF PagingTimeout
    <2> QED BY <1>1, <1>2, <2>1, PagingExpiredSound, SettleGood, KeepStep
  <1>5. CASE Ts62Timeout(s)
    <2> DEFINE w == [v EXCEPT !.ts62 = FALSE, !.tmsi = FALSE, !.tmsiNew = FALSE]
    <2>1. v.ts62 /\ Update(s, w) /\ UNCHANGED inflight
      BY <1>5 DEF Ts62Timeout
    <2>2. w \in Records
      BY Zenon, <1>1 DEF Sound, Records
    <2>3. Same(v, w) /\ w.use = v.use
      BY <1>1 DEF Sound, Records, Same
    <2> HIDE DEF w
    <2>4. Good(w) /\ w.ts5 = v.ts5
      BY <1>1, <1>2, <2>1, <2>2, <2>3, SameGood DEF Same
    <2> QED BY <2>1, <2>4, KeepStep
  <1> QED BY <1>3, <1>4, <1>5 DEF Timers

(* The HLR's answers and the operator's commands.                          *)
LEMMA HlrStep ==
  ASSUME RecordsInv, NEW s \in Subs, Hlr(s) \/ Operator(s)
  PROVE  RecordsInv'
  <1> DEFINE v == vs[s]
  <1>1. Good(v) /\ Sound(v)
    BY DEF RecordsInv, Good
  <1>2. CASE HlrLuResult(s)
    <2> DEFINE a == AccSent(v, inflight)
    <2>1. /\ v.alive /\ Update(s, a)
          /\ inflight' = IF v.tmsiNew THEN inflight
                         ELSE RespawnInflight(v, a, inflight)
      BY <1>2 DEF HlrLuResult
    <2>2. Good(a) /\ (v.tmsiNew => a.ts5 = v.ts5)
      BY <1>1, <2>1, AccSentGood
    <2> HIDE DEF a
    <2>3. CASE v.tmsiNew
      BY <2>1, <2>2, <2>3, KeepStep
    <2>4. CASE ~v.tmsiNew
      <3>1. inflight' = Decrement(inflight, Stops(v)) + Stops(a)
        BY <2>1, <2>4 DEF RespawnInflight
      <3> QED BY <2>1, <2>2, <3>1, RecordStep
    <2> QED BY <2>3, <2>4
  <1>3. CASE HlrLuError(s)
    <2>1. /\ v.alive /\ v.st = "LA_UPD_PRES" /\ Update(s, Settle(RejSent(v)))
          /\ inflight' = Decrement(inflight, Stops(v))
      BY <1>3 DEF HlrLuError
    <2> QED BY Zenon, <1>1, <2>1, RejSentSound, SettleGood, StopStep
  <1>4. CASE HlrCancel(s)
    <2>1. /\ v.alive /\ Update(s, Detach(v))
          /\ inflight' = Decrement(inflight, Stops(v))
      BY <1>4 DEF HlrCancel
    <2> QED BY Zenon, <1>1, <2>1, DetachGood, StopStep
  <1>5. CASE SubExpire(s)
    <2>1. v.alive /\ Update(s, Settle(Expire(v))) /\ UNCHANGED inflight
      BY <1>5 DEF SubExpire
    <2> QED BY <1>1, <2>1, ExpireSound, SettleGood, KeepStep
  <1>6. CASE SubscriberDisconnect(s)
    <2> DEFINE r == IF v.conn THEN Release(v) ELSE v
    <2>1. v.alive /\ Update(s, Settle(Expire(r))) /\ UNCHANGED inflight
      BY <1>6 DEF SubscriberDisconnect
    <2>2. Sound(r) /\ r.alive /\ r.ts5 = v.ts5
      BY <1>1, <2>1, ReleaseSound
    <2> HIDE DEF r
    <2> QED BY <2>1, <2>2, ExpireSound, SettleGood, KeepStep
  <1> QED BY <1>2, <1>3, <1>4, <1>5, <1>6 DEF Hlr, Operator

(* The handlers of several records: reset, sweep, loss of the GSUP link.   *)
LEMMA GlobalStep ==
  ASSUME RecordsInv, Global
  PROVE  RecordsInv'
  <1>1. \A s \in Subs : Good(vs[s]) /\ Sound(vs[s]) /\ vs[s] \in Records
    BY DEF RecordsInv, Good, Sound
  <1>2. CASE RxResetInd
    <2>1. /\ vs' = [s \in Subs |-> IF vs[s].alive THEN Settle(ToNull(vs[s]))
                                   ELSE vs[s]]
          /\ inflight' = Decrement(inflight, StopsOf(Subs))
      BY <1>2 DEF RxResetInd
    <2>2. ASSUME NEW s \in Subs
          PROVE  Good(vs'[s]) /\ vs'[s].ts5 = FALSE
      <3>1. CASE vs[s].alive
        BY Zenon, <1>1, <2>1, <3>1, ToNullSound, SettleGood
      <3>2. CASE ~vs[s].alive
        <4>1. vs'[s] = Absent
          BY <1>1, <2>1, <3>2 DEF Good
        <4> QED BY <4>1, AbsentGood
      <3> QED BY Zenon, <3>1, <3>2
    <2>3. vs' \in [Subs -> Records]
      <3>1. \A s \in Subs : vs'[s] \in Records
        BY Zenon, <2>2 DEF Good, Sound
      <3> QED BY <2>1, <3>1
    <2> QED BY Zenon, <2>1, <2>2, <2>3, RecordsStep
  <1>3. ASSUME NEW S \in SUBSET Subs, ExpireLu(S) PROVE RecordsInv'
    <2> DEFINE old == [s \in Subs |-> Aged(vs[s])]
    <2>1. /\ S \subseteq {s \in Subs : Expired(old[s])}
          /\ vs' = [s \in Subs |-> IF s \in S THEN Swept(old[s]) ELSE old[s]]
          /\ inflight' = Decrement(inflight, StopsOf(S))
      BY <1>3 DEF ExpireLu
    <2>2. ASSUME NEW s \in Subs
          PROVE  Good(old[s]) /\ Same(vs[s], old[s])
      <3> DEFINE v == vs[s]
                 w == [v EXCEPT !.exp = @ - 1]
      <3>1. CASE v.alive /\ v.exp > 0
        <4>1. w \in Records
          BY SMTT(30), <1>1, <3>1 DEF Records, Never
        <4>2. Same(v, w) /\ w.use = v.use
          BY <1>1 DEF Records, Same
        <4>3. old[s] = w
          BY <3>1 DEF Aged
        <4> HIDE DEF w, old
        <4> QED BY <1>1, <3>1, <4>1, <4>2, <4>3, SameGood
      <3>2. CASE ~(v.alive /\ v.exp > 0)
        BY <1>1, <3>2 DEF Aged, Same
      <3> QED BY <3>1, <3>2
    <2>3. ASSUME NEW s \in S
          PROVE  Good(vs'[s]) /\ vs'[s].ts5 = FALSE
      <3>1. old[s].alive /\ vs'[s] = Swept(old[s])
        BY <2>1, <2>3 DEF Expired
      <3>2. Sound(old[s])
        BY <2>2 DEF Good
      <3> HIDE DEF old
      <3> QED BY Zenon, <3>1, <3>2, DetachGood, DiscardIncompleteGood DEF Swept
    <2>4. ASSUME NEW s \in Subs \ S
          PROVE  Good(vs'[s]) /\ vs'[s].ts5 = vs[s].ts5
      <3>1. vs'[s] = old[s]
        BY <2>1, <2>4
      <3> HIDE DEF old
      <3> QED BY <2>2, <3>1 DEF Same
    <2>5. \A s \in Subs : Good(vs'[s])
      BY Zenon, <2>3, <2>4
    <2>6. vs' \in [Subs -> Records]
      <3>1. \A s \in Subs : vs'[s] \in Records
        BY <2>5 DEF Good, Sound
      <3> HIDE DEF old
      <3> QED BY <2>1, <3>1
    <2> HIDE DEF old
    <2> QED BY Zenon, <2>1, <2>3, <2>4, <2>5, <2>6, RecordsStep
  <1>4. ASSUME NEW S \in SUBSET Subs, GsupFailPending(S) PROVE RecordsInv'
    <2> DEFINE x(s) == Settle(KeepIncompleteExpiry(RejSent(vs[s])))
    <2>1. /\ S \subseteq {s \in Subs : vs[s].alive /\ vs[s].st = "LA_UPD_PRES"}
          /\ vs' = [s \in Subs |-> IF s \in S THEN x(s) ELSE vs[s]]
          /\ inflight' = Decrement(inflight, StopsOf(S))
      BY <1>4 DEF GsupFailPending
    <2>2. ASSUME NEW s \in S
          PROVE  Good(vs'[s]) /\ vs'[s].ts5 = FALSE
      <3> DEFINE r == RejSent(vs[s])
                 k == KeepIncompleteExpiry(r)
      <3>1. vs[s].alive /\ vs[s].st = "LA_UPD_PRES" /\ vs'[s] = Settle(k)
        BY <2>1, <2>2
      <3>2. Sound(r) /\ r.alive /\ r.ts5 = FALSE
        BY Zenon, <1>1, <2>1, <2>2, <3>1, RejSentSound
      <3> HIDE DEF r
      <3>3. Sound(k) /\ k.alive /\ k.ts5 = FALSE
        BY <3>2, KeepIncompleteExpirySound DEF Same
      <3> HIDE DEF k
      <3> QED BY <3>1, <3>3, SettleGood
    <2>3. ASSUME NEW s \in Subs \ S
          PROVE  Good(vs'[s]) /\ vs'[s].ts5 = vs[s].ts5
      BY <1>1, <2>1, <2>3
    <2>4. \A s \in Subs : Good(vs'[s])
      BY Zenon, <2>2, <2>3
    <2> HIDE DEF x
    <2>5. vs' \in [Subs -> Records]
      <3>1. \A s \in Subs : vs'[s] \in Records
        BY <2>4 DEF Good, Sound
      <3> QED BY <2>1, <3>1
    <2> QED BY Zenon, <2>1, <2>2, <2>3, <2>4, <2>5, RecordsStep
  <1>5. CASE GsupDown \/ GsupUp \/ MmeLink
    BY Zenon, <1>5 DEF GsupDown, GsupUp, MmeLink, RecordsInv, InflightExact
  <1> QED BY <1>2, <1>3, <1>4, <1>5 DEF Global

-----------------------------------------------------------------------------
(* The theorems.                                                           *)

(* An association restored from the table is a good record.                *)
LEMMA RestoredGood ==
  ASSUME NEW t \in BOOLEAN, NEW e \in RowExpiries
  PROVE  Good(Restored(t, e)) /\ Restored(t, e).ts5 = FALSE
  <1> DEFINE g == Get(Blank, "attached")
             w == [g EXCEPT !.tmsi = t, !.sgs = TRUE, !.lu = TRUE, !.exp = e]
  <1>1. /\ g \in Records /\ Same(Blank, g)
        /\ g.use = [Blank.use EXCEPT !["attached"] = Blank.use["attached"] + 1]
    BY Zenon, BlankSound, GetType DEF Tokens
  <1>2. /\ Blank.alive /\ ~Blank.lu /\ Blank.ts5 = FALSE /\ ~Blank.paging
        /\ ~Blank.conn /\ Blank.reqs = {} /\ Blank.ctrans = {}
    BY DEF Blank
  <1>3. e \in {Never} \cup Nat
    BY SMTT(30), TimerAssumption DEF RowExpiries, AccExpiry, Never
  <1> HIDE DEF g
  <1>4. /\ w \in Records
        /\ w.alive = g.alive /\ w.lu = TRUE /\ w.ts5 = g.ts5 /\ w.use = g.use
        /\ w.paging = g.paging /\ w.conn = g.conn
        /\ w.reqs = g.reqs /\ w.ctrans = g.ctrans
    BY ZenonT(60), <1>1, <1>3 DEF Records
  <1> HIDE DEF w
  <1>5. Sound(w)
    <2>1. /\ w.lu = TRUE /\ ~w.ts5 /\ ~w.paging /\ ~w.conn
          /\ w.reqs = {} /\ w.ctrans = {}
      BY <1>1, <1>2, <1>4 DEF Same
    <2>2. Blank.use \in [Tokens -> Int]
      BY BlankSound, SoundTypes
    <2>3. \A u \in Tokens : w.use[u] = IF u = "attached" THEN Blank.use[u] + 1 ELSE Blank.use[u]
      BY ZenonT(60), <1>1, <1>4, <2>2
    <2>4. \A u \in Tokens : Blank.use[u] = 0
      BY DEF Blank
    <2>5. Balanced(w)
      BY SMTT(30), <2>1, <2>3, <2>4 DEF Balanced, One, Tokens, Services
    <2> QED BY <1>4, <2>1, <2>5 DEF Sound
  <1>6. Good(w) /\ w.ts5 = FALSE
    BY Zenon, <1>1, <1>2, <1>4, <1>5, InUseGood DEF Same
  <1> QED BY <1>6 DEF Restored, g, w

(* The invariant holds after sgs_iface_restore_assocs().                   *)
LEMMA InitInv == Init => IInv
  <1> SUFFICES ASSUME Init PROVE IInv
    OBVIOUS
  <1>1. /\ vs \in [Subs -> {Absent} \cup {Restored(t, e) : t \in BOOLEAN, e \in RowExpiries}]
        /\ inflight = 0 /\ snap = 0 /\ faults = 0
        /\ mmeUp = FALSE /\ gsupUp = FALSE /\ draining = FALSE
    BY DEF Init
  <1>2. ASSUME NEW s \in Subs
        PROVE  Good(vs[s]) /\ vs[s].ts5 = FALSE
    <2>1. \/ vs[s] = Absent
          \/ \E t \in BOOLEAN, e \in RowExpiries : vs[s] = Restored(t, e)
      BY <1>1
    <2>2. Good(Absent) /\ Absent.ts5 = FALSE
      BY AbsentGood DEF Absent, Blank
    <2> QED BY Zenon, <2>1, <2>2, RestoredGood
  <1>3. vs \in [Subs -> Records]
    <2>1. \A s \in Subs : vs[s] \in Records
      BY Zenon, <1>2 DEF Good, Sound
    <2> DEFINE I == {Absent} \cup {Restored(t, e) : t \in BOOLEAN, e \in RowExpiries}
    <2>2. vs \in [Subs -> I]
      BY <1>1
    <2> HIDE DEF I
    <2> QED BY <2>1, <2>2
  <1>4. {s \in Subs : vs[s].ts5} = {}
    BY Zenon, <1>2
  <1>5. InflightExact
    BY <1>1, <1>4, FS_EmptySet DEF InflightExact
  <1>6. EnvInv
    <2>1. snap \in Nat /\ faults \in 0 .. MaxFaults
      BY SMTT(30), <1>1, FaultsAssumption
    <2> QED BY <1>1, <2>1, Zenon DEF EnvInv
  <1> QED BY Zenon, <1>2, <1>3, <1>5, <1>6 DEF IInv, RecordsInv

(* What the steps of one subscriber do to the environment.                 *)
EnvStep ==
  (Fault \/ UNCHANGED faults) /\ UNCHANGED <<snap, mmeUp, gsupUp, draining>>

(* Such a step keeps the environment's types.                              *)
LEMMA EnvStepInv == EnvInv /\ EnvStep => EnvInv'
  <1> SUFFICES ASSUME EnvInv, EnvStep PROVE EnvInv'
    OBVIOUS
  <1>1. faults' \in 0 .. MaxFaults
    BY FaultsAssumption DEF EnvInv, EnvStep, Fault
  <1> QED BY <1>1, Zenon DEF EnvInv, EnvStep

(* Every step keeps the invariant.                                         *)
LEMMA NextInv == IInv /\ [Next]_vars => IInv'
  <1> SUFFICES ASSUME IInv, [Next]_vars PROVE IInv'
    OBVIOUS
  <1>1. RecordsInv'
    <2>1. CASE UNCHANGED vars
      BY <2>1 DEF IInv, RecordsInv, InflightExact, vars
    <2>2. CASE Global
      BY <2>2, GlobalStep DEF IInv
    <2>3. ASSUME NEW s \in Subs,
                 \/ MmeMessage(s) \/ Transactions(s)
                 \/ Timers(s) \/ Hlr(s) \/ Operator(s)
          PROVE  RecordsInv'
      BY <2>3, MmeMessageStep, TransactionsStep, TimersStep, HlrStep DEF IInv
    <2> QED BY <2>1, <2>2, <2>3 DEF Next
  <1>2. EnvInv'
    <2>1. CASE UNCHANGED vars
      BY <2>1 DEF IInv, EnvInv, vars
    <2>2. CASE Global
      <3>1. ASSUME NEW S \in SUBSET Subs, ExpireLu(S) PROVE EnvInv'
        <4> DEFINE C == {s \in Subs : vs[s].alive /\ ~vs[s].lu
                                        /\ vs[s].use["SGs-lu"] > 0}
        <4>1. Cardinality(C) \in Nat
          BY SubsAssumption, FS_Subset, FS_CardinalityType
        <4>2. snap' = Cardinality(C) /\ UNCHANGED <<mmeUp, gsupUp, draining, faults>>
          BY <3>1 DEF ExpireLu
        <4> HIDE DEF C
        <4>3. EnvInv
          BY DEF IInv
        <4> QED BY <4>1, <4>2, <4>3 DEF EnvInv
      <3>2. ASSUME NEW S \in SUBSET Subs, GsupFailPending(S) PROVE EnvInv'
        BY <3>2 DEF GsupFailPending, IInv, EnvInv
      <3>3. CASE RxResetInd
        BY <3>3, EnvStepInv DEF RxResetInd, EnvStep, IInv
      <3>4. CASE GsupDown \/ GsupUp \/ MmeLink
        <4>1. faults' \in 0 .. MaxFaults
          BY SMTT(30), <3>4, FaultsAssumption DEF GsupDown, GsupUp, MmeLink, Fault, IInv, EnvInv
        <4> QED BY <3>4, <4>1, Zenon DEF GsupDown, GsupUp, MmeLink, IInv, EnvInv
      <3> QED BY <2>2, <3>1, <3>2, <3>3, <3>4 DEF Global
    <2>3. ASSUME NEW s \in Subs, MmeMessage(s) PROVE EnvStep
      BY <2>3, Zenon
         DEF MmeMessage, RxLocUpdReq, RxImsiDetInd, RxEpsDetInd, RxPagRej,
             RxUeUnreachable, RxTmsiReallCmpl, RxServiceReq, RxCsfbInd, RxUlUd,
             EnvStep
    <2>4. ASSUME NEW s \in Subs, Transactions(s) \/ Timers(s) PROVE EnvStep
      BY <2>4, Zenon
         DEF Transactions, MtRequest, MtAbort, TransDone, ConnClose,
             Timers, Ts5Timeout, PagingTimeout, Ts62Timeout, EnvStep
    <2>5. ASSUME NEW s \in Subs, Hlr(s) \/ Operator(s) PROVE EnvStep
      BY <2>5, Zenon
         DEF Hlr, HlrLuResult, HlrLuError, HlrCancel, Operator, SubExpire,
             SubscriberDisconnect, EnvStep
    <2>6. EnvInv
      BY DEF IInv
    <2> QED BY <2>1, <2>2, <2>3, <2>4, <2>5, <2>6, EnvStepInv DEF Next
  <1> QED BY <1>1, <1>2 DEF IInv

(* The inductive invariant, for any constants.                             *)
THEOREM Invariance == Spec => []IInv
  BY InitInv, NextInv, PTL DEF Spec

(* The records and counters have their types; a freed record is empty.     *)
THEOREM TypesCorrect == Spec => []TypeOK
  <1>1. IInv => TypeOK
    BY CountType DEF IInv, RecordsInv, EnvInv, TypeOK, Good
  <1> QED BY <1>1, Invariance, PTL

(* The gets and puts of vlr_subscr_get()/_put() balance in every handler,  *)
(* for any number of subscribers.                                          *)
THEOREM UsesBalance == Spec => []UseBalance
  <1>1. IInv => UseBalance
    BY DEF IInv, RecordsInv, UseBalance, Good, Sound
  <1> QED BY <1>1, Invariance, PTL

(* s_sgs_pag_inflight counts the running Ts5 timers, for any number of     *)
(* subscribers and any cap.                                                *)
THEOREM InflightCounts == Spec => []InflightExact
  <1>1. IInv => InflightExact
    BY DEF IInv, RecordsInv
  <1> QED BY <1>1, Invariance, PTL

-----------------------------------------------------------------------------
(* What an association leaves behind.                                      *)

(* AssocFlags for one record.                                              *)
Flags(v) ==
  /\ v.ts62 <=> v.st = "ASSOCIATED" /\ v.tmsiNew
  /\ v.st = "NULL" => ~v.tmsiNew /\ ~v.conf

(* w agrees with v in what the flags are about.                            *)
SameFlags(v, w) ==
  w.st = v.st /\ w.ts62 = v.ts62 /\ w.tmsiNew = v.tmsiNew /\ w.conf = v.conf

(* Agreement carries the flags over, and is transitive.                    *)
LEMMA FlagsCarry ==
  ASSUME NEW u, NEW v, NEW w
  PROVE  /\ SameFlags(u, v) /\ Flags(u) => Flags(v)
         /\ SameFlags(u, v) /\ SameFlags(v, w) => SameFlags(u, w)
         /\ SameFlags(u, u)
  BY DEF SameFlags, Flags

(* Gets, puts and paging leave them alone.                                 *)
LEMMA PagingFlags ==
  ASSUME NEW v \in Records
  PROVE  /\ \A t \in Tokens : SameFlags(v, Get(v, t)) /\ SameFlags(v, Put(v, t))
         /\ \A K : SameFlags(v, FreeTrans(v, K))
         /\ SameFlags(v, PagingExpired(v)) /\ SameFlags(v, PagingAnswered(v))
         /\ SameFlags(v, PagStop(v))
         /\ \A k \in Services : SameFlags(v, Paged(v, k))
  <1> USE DEF SameFlags, Records
  <1>1. \A t \in Tokens : SameFlags(v, Get(v, t)) /\ SameFlags(v, Put(v, t))
    BY DEF Get, Put
  <1>2. \A K : SameFlags(v, FreeTrans(v, K))
    BY DEF FreeTrans
  <1>3. SameFlags(v, PagingExpired(v))
    BY DEF PagingExpired, FreeTrans, Put
  <1>4. SameFlags(v, PagingAnswered(v))
    BY DEF PagingAnswered, Put
  <1>5. SameFlags(v, PagStop(v))
    BY DEF PagStop, Put
  <1>6. \A k \in Services : SameFlags(v, Paged(v, k))
    BY DEF Paged, Get
  <1> QED BY <1>1, <1>2, <1>3, <1>4, <1>5, <1>6

(* So do connections and expiry.                                           *)
LEMMA ConnFlags ==
  ASSUME NEW v, Sound(v)
  PROVE  /\ SameFlags(v, EnableExpire(v)) /\ SameFlags(v, Toss(v))
         /\ SameFlags(v, Release(v)) /\ SameFlags(v, OpenConn(v))
         /\ SameFlags(v, AnswerOnSgs(v))
         /\ SameFlags(v, LuRelease(v)) /\ SameFlags(v, KeepIncompleteExpiry(v))
         /\ SameFlags(v, Expire(v))
  <1>0. v \in Records
    BY DEF Sound
  <1>1. SameFlags(v, EnableExpire(v)) /\ SameFlags(v, KeepIncompleteExpiry(v))
    BY <1>0 DEF EnableExpire, KeepIncompleteExpiry, SameFlags, Records
  <1>2. ASSUME NEW u \in Records PROVE SameFlags(u, Toss(u))
    BY <1>2 DEF Toss, FreeTrans, Put, SameFlags, Records
  <1>3. SameFlags(v, Release(v))
    <2>1. EnableExpire(v) \in Records
      BY EnableExpireSound DEF Sound
    <2> QED BY <1>1, <1>2, <2>1, FlagsCarry DEF Release
  <1>4. SameFlags(v, OpenConn(v))
    <2>1. Toss(v) \in Records
      BY TossSound DEF Sound
    <2>2. SameFlags(Toss(v), OpenConn(v))
      <3> DEFINE u == Toss(v)
      <3> HIDE DEF u
      <3>1. u \in Records
        BY <2>1 DEF u
      <3>2. SameFlags(u, [Get(u, "active-conn") EXCEPT !.conn = TRUE, !.sgs = TRUE,
                            !.exp = IF Get(u, "active-conn").lu THEN Never ELSE @])
        BY <3>1 DEF Get, SameFlags, Records
      <3> QED BY <3>2 DEF OpenConn, u
    <2> QED BY <1>0, <1>2, <2>2, FlagsCarry
  <1>5. SameFlags(v, AnswerOnSgs(v))
    <2> DEFINE o == OpenConn(v)
               a == PagingAnswered(o)
    <2>1. Sound(o) /\ o.conn = TRUE /\ o.ctrans = {} /\ o \in Records
      BY OpenConnSound DEF Sound
    <2>2. Sound(a) /\ SameFlags(o, a)
      <3> HIDE DEF o
      <3> QED BY <2>1, PagingAnsweredSound, PagingFlags
    <2>3. SameFlags(a, Release(a))
      <3>1. EnableExpire(a) \in Records
        BY <2>2, EnableExpireSound DEF Sound
      <3>2. SameFlags(a, EnableExpire(a))
        <4>1. a \in Records
          BY <2>2 DEF Sound
        <4> HIDE DEF a
        <4> QED BY <4>1 DEF EnableExpire, SameFlags, Records
      <3> HIDE DEF a
      <3> QED BY <1>2, <3>1, <3>2, FlagsCarry DEF Release
    <2>4. SameFlags(v, a)
      BY <1>4, <2>2, FlagsCarry
    <2> HIDE DEF o, a
    <2>5. AnswerOnSgs(v) = IF a.ctrans = {} THEN Release(a) ELSE a
      BY DEF AnswerOnSgs, a, o
    <2> QED BY <2>3, <2>4, <2>5, FlagsCarry
  <1>6. SameFlags(v, LuRelease(v))
    BY <1>0 DEF LuRelease, Put, SameFlags, Records
  <1>7. SameFlags(v, Expire(v))
    BY <1>0 DEF Expire, Put, SameFlags, Records
  <1> QED BY ZenonT(60), <1>0, <1>1, <1>2, <1>3, <1>4, <1>5, <1>6, <1>7

(* to_null() clears them all; the FSM's other transitions and the end of a *)
(* record leave them consistent.                                           *)
LEMMA FsmFlags ==
  ASSUME NEW v, Sound(v)
  PROVE  /\ Flags(ToNull(v)) /\ ToNull(v).st = "NULL"
         /\ Flags(DetachInd(v)) /\ DetachInd(v).st = "NULL"
         /\ Flags(v) => Flags(Settle(v)) /\ Settle(v).st \in {v.st, "NULL"}
         /\ Flags(v) => Flags(RejSent(v)) /\ RejSent(v).st # "LA_UPD_PRES"
         /\ Flags(v) => Flags(Detach(v)) /\ Flags(DiscardIncomplete(v))
  <1>0. v \in Records
    BY DEF Sound
  <1>1. ASSUME NEW u, Sound(u)
        PROVE  Flags(ToNull(u)) /\ ToNull(u).st = "NULL"
    <2> DEFINE n == [u EXCEPT !.st = "NULL", !.ts62 = FALSE, !.conf = FALSE,
                              !.tmsiNew = FALSE]
               p == IF n.paging THEN PagingExpired(n) ELSE n
    <2>1. n \in Records /\ n.st = "NULL" /\ n.ts62 = FALSE /\ n.conf = FALSE
          /\ n.tmsiNew = FALSE /\ Same(u, n) /\ n.use = u.use
      BY <1>1 DEF Sound, Records, SgsStates, Same
    <2>2. ToNull(u) = PagStop(p)
      BY DEF ToNull
    <2> HIDE DEF n
    <2>3. Sound(n)
      BY <1>1, <2>1, SameSound
    <2>4. p \in Records /\ SameFlags(n, p)
      BY <2>1, <2>3, PagingFlags, PagingExpiredSound, FlagsCarry DEF Sound
    <2> HIDE DEF p
    <2>5. SameFlags(p, PagStop(p))
      BY <2>4, PagingFlags
    <2> QED BY <2>1, <2>2, <2>4, <2>5 DEF Flags, SameFlags
  <1>2. Flags(DetachInd(v)) /\ DetachInd(v).st = "NULL"
    <2> DEFINE d == [v EXCEPT !.detached = TRUE]
               e == [d EXCEPT !.exp = Never]
               f == IF v.lu THEN e ELSE KeepIncompleteExpiry(d)
    <2>1. d \in Records /\ Same(v, d) /\ d.use = v.use
      BY <1>0 DEF Records, Same
    <2>2. Sound(d)
      BY <2>1, SameSound
    <2> HIDE DEF d
    <2>3. e \in Records /\ Same(d, e) /\ e.use = d.use
      BY <2>1 DEF Records, Same
    <2> HIDE DEF e
    <2>4. Sound(f)
      BY <2>2, <2>3, SameSound, KeepIncompleteExpirySound
    <2>5. DetachInd(v) = ToNull(f)
      BY DEF DetachInd, d, e, f
    <2> HIDE DEF f
    <2> QED BY <1>1, <2>4, <2>5
  <1>3. Flags(Absent) /\ Absent.st = "NULL"
    BY DEF Absent, Blank, Flags
  <1>4. ASSUME NEW u, Flags(u)
        PROVE  Flags(Settle(u)) /\ Settle(u).st \in {u.st, "NULL"}
    BY <1>3, <1>4 DEF Settle
  <1>5. ASSUME Flags(v)
        PROVE  Flags(RejSent(v)) /\ RejSent(v).st # "LA_UPD_PRES"
    <2> DEFINE n == IF v.st = "LA_UPD_PRES" THEN ToNull(v) ELSE v
    <2>1. Sound(n) /\ Flags(n) /\ n.st # "LA_UPD_PRES"
      BY <1>1, <1>5, ToNullSound
    <2>2. RejSent(v) = LuRelease(n)
      BY DEF RejSent
    <2> HIDE DEF n
    <2> QED BY ZenonT(30), <2>1, <2>2, ConnFlags, FlagsCarry DEF SameFlags
  <1>6. ASSUME Flags(v) PROVE Flags(Detach(v))
    <2> DEFINE l == LuRelease(v)
               d == DetachInd(l)
               e == Expire(d)
               k == KeepIncompleteExpiry(e)
    <2>1. Sound(l)
      BY LuReleaseSound
    <2>2. Sound(d)
      BY <2>1, DetachIndSound
    <2>3. Flags(d)
      <3> HIDE DEF l
      <3> DEFINE f == IF l.lu THEN [[l EXCEPT !.detached = TRUE] EXCEPT !.exp = Never]
                        ELSE KeepIncompleteExpiry([l EXCEPT !.detached = TRUE])
                 g == [l EXCEPT !.detached = TRUE]
                 h == [g EXCEPT !.exp = Never]
      <3>1. g \in Records /\ Same(l, g) /\ g.use = l.use
        BY ZenonT(60), <2>1 DEF Sound, Records, Same
      <3>2. Sound(g)
        BY <2>1, <3>1, SameSound
      <3>3. h \in Records /\ Same(g, h) /\ h.use = g.use
        <4> HIDE DEF g
        <4> QED BY <3>1 DEF Records, Same
      <3>4. Sound(h) /\ Sound(KeepIncompleteExpiry(g))
        BY <3>2, <3>3, SameSound, KeepIncompleteExpirySound
      <3>5. d = ToNull(h) \/ d = ToNull(KeepIncompleteExpiry(g))
        BY DEF DetachInd
      <3> HIDE DEF d, g, h
      <3> QED BY <1>1, <3>4, <3>5
    <2> HIDE DEF d
    <2>4. Sound(e) /\ SameFlags(d, e)
      BY <2>2, ExpireSound, ConnFlags
    <2> HIDE DEF e
    <2>5. SameFlags(e, k)
      BY <2>4, ConnFlags
    <2>6. Detach(v) = Settle(k)
      BY DEF Detach, k, e, d, l
    <2> HIDE DEF k
    <2> QED BY <1>4, <2>3, <2>4, <2>5, <2>6, FlagsCarry
  <1>7. ASSUME Flags(v) PROVE Flags(DiscardIncomplete(v))
    <2> DEFINE l == LuRelease(v)
               p == PagStop(l)
               d == [p EXCEPT !.detached = TRUE]
    <2>1. Sound(l) /\ SameFlags(v, l) /\ l \in Records
      BY LuReleaseSound, ConnFlags DEF Sound
    <2> HIDE DEF l
    <2>2. Sound(p) /\ SameFlags(l, p) /\ p \in Records
      BY <2>1, PagStopSound, PagingFlags DEF Sound
    <2> HIDE DEF p
    <2>3. d \in Records /\ SameFlags(p, d) /\ Same(p, d) /\ d.use = p.use
      BY <2>2 DEF Records, SameFlags, Same
    <2>4. DiscardIncomplete(v) = IF Total(d) > 0 THEN KeepIncompleteExpiry(d) ELSE Absent
      BY DEF DiscardIncomplete, d, p, l
    <2> HIDE DEF d
    <2>5. Sound(d)
      BY <2>2, <2>3, SameSound
    <2>6. SameFlags(d, KeepIncompleteExpiry(d))
      BY <2>5, ConnFlags
    <2> QED BY ZenonT(60), <1>3, <1>7, <2>1, <2>2, <2>3, <2>4, <2>6, FlagsCarry
  <1> QED BY <1>1, <1>2, <1>4, <1>5, <1>6, <1>7

(* A page sent again leaves them alone; an accepted LU starts Ts6-2 just   *)
(* when it allocated a TMSI; a new LU takes it over or starts afresh.      *)
LEMMA LuFlags ==
  ASSUME NEW v, Sound(v), NEW i
  PROVE  /\ SameFlags(v, RespawnPaging(v, i))
         /\ Flags(TxLuAccept(v, i)) /\ Flags(AccSent(v, i))
         /\ Flags(PerformLu(v))
         /\ Good(v) /\ Flags(v) => Flags(LuSubscr(v))
         /\ Flags(v) => Flags(ServiceReq(v))
  <1>0. v \in Records
    BY DEF Sound
  <1>1. ASSUME NEW u, Sound(u) PROVE SameFlags(u, RespawnPaging(u, i))
    <2> DEFINE w == PagStop(u)
    <2>1. Sound(w) /\ w \in Records /\ SameFlags(u, w) /\ u.serv \in Services
      BY <1>1, PagStopSound, PagingFlags, SoundTypes DEF Sound
    <2> HIDE DEF w
    <2>2. SameFlags(w, Paged(w, u.serv))
      BY <2>1, PagingFlags
    <2> QED BY <2>1, <2>2, FlagsCarry DEF RespawnPaging, w
  <1>2. Flags(TxLuAccept(v, i)) /\ TxLuAccept(v, i) \in Records
    <2> DEFINE a == IF v.lu THEN v ELSE [Get(v, "attached") EXCEPT !.lu = TRUE]
               r == [a EXCEPT !.conf = TRUE, !.detached = FALSE, !.sgs = TRUE]
               p == IF v.tmsiNew THEN r ELSE RespawnPaging(r, i)
               w == [p EXCEPT !.st = "ASSOCIATED", !.ts62 = v.tmsiNew]
    <2>1. Sound(a) /\ a.tmsiNew = v.tmsiNew
      <3>1. CASE v.lu
        BY <3>1
      <3>2. CASE ~v.lu
        <4> DEFINE g == Get(v, "attached")
                   b == [g EXCEPT !.lu = TRUE]
        <4>1. g \in Records /\ Same(v, g) /\ g.tmsiNew = v.tmsiNew
              /\ g.use = [v.use EXCEPT !["attached"] = v.use["attached"] + 1]
          BY Zenon, <1>0, GetType, PagingFlags DEF Tokens, SameFlags
        <4> HIDE DEF g
        <4>2. /\ b \in Records /\ b.lu = TRUE /\ b.use = g.use /\ b.ts5 = g.ts5
              /\ b.paging = g.paging /\ b.conn = g.conn /\ b.reqs = g.reqs
              /\ b.ctrans = g.ctrans /\ b.tmsiNew = g.tmsiNew
          BY Zenon, <4>1 DEF Records
        <4> HIDE DEF b
        <4>3. \A t \in Tokens : b.use[t] = IF t = "attached" THEN v.use[t] + 1 ELSE v.use[t]
          BY SMTT(30), <4>1, <4>2, SoundTypes
        <4>4. v.use["attached"] = 0
          BY <3>2 DEF Sound, Balanced, One
        <4>5. Balanced(b)
          <5>1. Balanced(v) /\ v.use \in [Tokens -> Int]
            BY SoundTypes DEF Sound
          <5>2. /\ b.ts5 = v.ts5 /\ b.paging = v.paging /\ b.conn = v.conn
                /\ b.reqs = v.reqs /\ b.ctrans = v.ctrans
            BY <4>1, <4>2 DEF Same
          <5>3. b.use["attached"] = One(b.lu)
            BY SMTT(30), <4>2, <4>3, <4>4 DEF One, Tokens
          <5>4. /\ b.use["SGs-lu"] >= 0 /\ b.use["SGs-paging-req"] = One(b.ts5)
                /\ b.use["Paging"] = One(b.paging)
                /\ b.use["active-conn"] = One(b.conn)
            BY <4>3, <5>1, <5>2 DEF Balanced, Tokens
          <5>5. \A k \in Services : b.use[k] = One(k \in b.reqs) + One(k \in b.ctrans)
            BY <4>3, <5>1, <5>2 DEF Balanced, Tokens, Services
          <5> QED BY <5>3, <5>4, <5>5 DEF Balanced
        <4>6. Sound(b)
          BY <4>1, <4>2, <4>5 DEF Sound, Same
        <4> QED BY <3>2, <4>1, <4>2, <4>6 DEF b, g
      <3> QED BY <3>1, <3>2
    <2> HIDE DEF a
    <2>2. /\ r \in Records /\ Same(a, r) /\ r.use = a.use
          /\ r.tmsiNew = v.tmsiNew
      BY ZenonT(60), <2>1 DEF Sound, Records, Same
    <2> HIDE DEF r
    <2>3. Sound(r)
      BY <2>1, <2>2, SameSound
    <2>4. p \in Records /\ p.tmsiNew = v.tmsiNew /\ v.tmsiNew \in BOOLEAN
      BY <1>0, <1>1, <2>2, <2>3, RespawnPagingSound, ZenonT(60), SMTT(30) DEF Sound, SameFlags,
         Records
    <2> HIDE DEF p
    <2>5. w \in Records /\ Flags(w)
      BY <2>4 DEF Records, SgsStates, Flags
    <2> QED BY <2>5 DEF TxLuAccept, w, p, r, a
  <1>3. Flags(AccSent(v, i))
    <2> DEFINE t == TxLuAccept(v, i)
               e == [t EXCEPT !.exp = AccExpiry]
    <2>1. Sound(t) /\ t \in Records /\ Flags(t)
      BY <1>2, TxLuAcceptSound
    <2>2. AccExpiry \in {Never} \cup Nat
      BY TimerAssumption DEF AccExpiry
    <2> HIDE DEF t
    <2>3. /\ e \in Records /\ Same(t, e) /\ e.use = t.use /\ SameFlags(t, e)
      BY <2>1, <2>2 DEF Records, Same, SameFlags
    <2> HIDE DEF e
    <2>4. Sound(e)
      BY <2>1, <2>3, SameSound
    <2>5. SameFlags(e, LuRelease(e))
      BY <2>4, ConnFlags
    <2> QED BY <2>1, <2>3, <2>5, FlagsCarry DEF AccSent, t, e
  <1>4. Flags(PerformLu(v))
    BY <1>0 DEF PerformLu, Flags, Records
  <1>5. ASSUME Good(v), Flags(v) PROVE Flags(LuSubscr(v))
    <2> DEFINE t == IF v.alive THEN Settle(Toss(v)) ELSE v
               u == IF t.alive THEN t ELSE Blank
    <2>1. Sound(Toss(v)) /\ Toss(v).alive = v.alive /\ Flags(Toss(v))
      BY <1>5, TossSound, ConnFlags, FlagsCarry
    <2>2. t \in Records /\ Flags(t)
      <3>1. v.alive => Good(Settle(Toss(v)))
        BY <2>1, SettleGood
      <3>2. Flags(Settle(Toss(v)))
        BY <2>1, FsmFlags
      <3> QED BY <1>0, <1>5, <3>1, <3>2 DEF Good, Sound
    <2> HIDE DEF t
    <2>3. Flags(Blank)
      BY DEF Blank, Flags
    <2>4. u \in Records /\ Flags(u)
      BY <2>2, <2>3, BlankSound
    <2> HIDE DEF u
    <2>5. SameFlags(u, Get(u, "SGs-lu"))
      BY <2>4, PagingFlags DEF Tokens
    <2> QED BY <2>4, <2>5, FlagsCarry DEF LuSubscr, u, t
  <1>6. Flags(v) => Flags(ServiceReq(v))
    BY <1>0 DEF ServiceReq, Flags, Records
  <1> QED BY <1>1, <1>2, <1>3, <1>4, <1>5, <1>6

FlagsInv == \A s \in Subs : Flags(vs[s])

(* A step that writes one record.                                          *)
LEMMA FlagsUpdate ==
  ASSUME RecordsInv, FlagsInv, NEW s \in Subs, NEW w, Flags(w), Update(s, w)
  PROVE  FlagsInv'
  <1>1. vs \in [Subs -> Records] /\ vs' = [vs EXCEPT ![s] = w]
    BY DEF RecordsInv, Update
  <1>2. ASSUME NEW r \in Subs PROVE Flags(vs'[r])
    <2>1. vs'[r] = w \/ vs'[r] = vs[r]
      BY <1>1
    <2> QED BY <2>1 DEF FlagsInv
  <1> QED BY <1>2 DEF FlagsInv

(* The messages of the MME keep the flags of its subscriber.               *)
LEMMA MmeFlags ==
  ASSUME RecordsInv, FlagsInv, NEW s \in Subs, MmeMessage(s)
  PROVE  FlagsInv'
  <1> DEFINE v == vs[s]
  <1>1. Good(v) /\ Sound(v) /\ Flags(v) /\ v \in Records
    BY DEF RecordsInv, Good, FlagsInv, Sound
  <1>2. ASSUME NEW sent \in BOOLEAN, RxLocUpdReq(s, sent) PROVE FlagsInv'
    <2> DEFINE l == LuSubscr(v)
               rejected == RejSent(ToNull(l))
               w == IF sent THEN PerformLu(l) ELSE rejected
               e == [w EXCEPT !.exp = LuExpiry(w)]
    <2>1. IF l.st = "LA_UPD_PRES" THEN Update(s, Settle(Put(l, "SGs-lu")))
          ELSE Update(s, Settle(e))
      BY <1>2 DEF RxLocUpdReq
    <2>2. Sound(l) /\ Flags(l) /\ l \in Records
      BY <1>1, LuSubscrSound, LuFlags DEF Sound
    <2> HIDE DEF l
    <2>3. SameFlags(l, Put(l, "SGs-lu"))
      BY <2>2, PagingFlags DEF Tokens
    <2>4. Flags(Settle(Put(l, "SGs-lu")))
      <3>1. Flags(Put(l, "SGs-lu"))
        BY <2>2, <2>3, FlagsCarry
      <3> QED BY <3>1 DEF Settle, Flags, Absent, Blank
    <2>5. Sound(w) /\ Flags(w) /\ w \in Records
      <3>1. Sound(PerformLu(l)) /\ Flags(PerformLu(l))
        BY <2>2, PerformLuSound, LuFlags
      <3>2. Sound(ToNull(l)) /\ Flags(ToNull(l))
        BY <2>2, ToNullSound, FsmFlags
      <3>3. Sound(rejected) /\ Flags(rejected)
        BY <3>2, RejSentSound, FsmFlags
      <3> QED BY <3>1, <3>3 DEF Sound
    <2> HIDE DEF w
    <2>6. SameFlags(w, e)
      BY <2>5 DEF SameFlags, Records
    <2>7. Flags(Settle(e))
      <3>1. Flags(e)
        BY <2>5, <2>6, FlagsCarry
      <3> QED BY <3>1 DEF Settle, Flags, Absent, Blank
    <2> QED BY <2>1, <2>4, <2>7, FlagsUpdate
  <1>3. ASSUME NEW implicit \in BOOLEAN, RxImsiDetInd(s, implicit) PROVE FlagsInv'
    <2> DEFINE d == DetachInd(v)
               e == Expire(d)
    <2>1. Update(s, Settle(e))
      BY <1>3 DEF RxImsiDetInd
    <2>2. Sound(d) /\ Flags(d)
      BY <1>1, DetachIndSound, FsmFlags
    <2> HIDE DEF d
    <2>3. Sound(e) /\ Flags(e)
      BY <2>2, ExpireSound, ConnFlags, FlagsCarry
    <2> HIDE DEF e
    <2> QED BY <2>1, <2>3, FsmFlags, FlagsUpdate
  <1>4. CASE RxEpsDetInd(s)
    <2> DEFINE d == DetachInd(v)
               e == IF d.exp = Never THEN EnableExpire(d) ELSE d
    <2>1. Update(s, Settle(e))
      BY <1>4 DEF RxEpsDetInd
    <2>2. Sound(d) /\ Flags(d)
      BY <1>1, DetachIndSound, FsmFlags
    <2> HIDE DEF d
    <2>3. Sound(e) /\ Flags(e)
      BY ZenonT(60), <2>2, EnableExpireSound, ConnFlags, FlagsCarry
    <2> HIDE DEF e
    <2> QED BY <2>1, <2>3, FsmFlags, FlagsUpdate
  <1>5. ASSUME NEW userBusy \in BOOLEAN, RxPagRej(s, userBusy) PROVE FlagsInv'
    <2> DEFINE f == IF userBusy \/ v.st = "NULL" THEN v ELSE ToNull(v)
               p == PagStop(f)
               e == PagingExpired(p)
    <2>1. Update(s, Settle(e))
      BY <1>5 DEF RxPagRej
    <2>2. Sound(f) /\ Flags(f) /\ f \in Records
      BY <1>1, ToNullSound, FsmFlags DEF Sound
    <2> HIDE DEF f
    <2>3. Sound(p) /\ Flags(p) /\ p \in Records
      BY <2>2, PagStopSound, PagingFlags, FlagsCarry DEF Sound
    <2> HIDE DEF p
    <2>4. Sound(e) /\ Flags(e)
      BY <2>3, PagingExpiredSound, PagingFlags, FlagsCarry
    <2> HIDE DEF e
    <2> QED BY <2>1, <2>4, FsmFlags, FlagsUpdate
  <1>6. CASE RxUeUnreachable(s)
    <2>1. Update(s, Settle(PagStop(v)))
      BY <1>6 DEF RxUeUnreachable
    <2>2. Sound(PagStop(v)) /\ Flags(PagStop(v))
      BY <1>1, PagStopSound, PagingFlags, FlagsCarry
    <2> QED BY <2>1, <2>2, FsmFlags, FlagsUpdate
  <1>7. CASE RxTmsiReallCmpl(s)
    <2> DEFINE t == [v EXCEPT !.tmsi = TRUE, !.tmsiNew = FALSE]
               w == IF v.tmsiNew THEN RespawnPaging(t, inflight) ELSE v
               e == [w EXCEPT !.ts62 = FALSE]
    <2>1. v.st = "ASSOCIATED" /\ Update(s, Settle(e))
      BY <1>7 DEF RxTmsiReallCmpl
    <2>2. t \in Records /\ Same(v, t) /\ t.use = v.use /\ ~t.tmsiNew /\ t.st = v.st
      BY <1>1 DEF Records, Same
    <2> HIDE DEF t
    <2>3. Sound(t)
      BY <1>1, <2>2, SameSound
    <2>4. w \in Records /\ w.st = "ASSOCIATED" /\ ~w.tmsiNew
      BY SMTT(30), <1>1, <2>1, <2>2, <2>3, RespawnPagingSound, LuFlags DEF Sound, SameFlags
    <2> HIDE DEF w
    <2>5. Flags(e)
      BY <2>4 DEF Records, Flags
    <2>6. Flags(Settle(e))
      BY <2>5 DEF Settle, Flags, Absent, Blank
    <2> QED BY <2>1, <2>6, FlagsUpdate
  <1>8. ASSUME NEW k \in Services \cup {"none"}, RxServiceReq(s, k) PROVE FlagsInv'
    <2> DEFINE q == ServiceReq(v)
               p == PagStop(q)
               a == AnswerOnSgs(p)
    <2>1. Update(s, q) \/ Update(s, Settle(p)) \/ Update(s, Settle(a))
      BY <1>8 DEF RxServiceReq
    <2>2. Sound(q) /\ q \in Records /\ Flags(q)
      <3> DEFINE x == [v EXCEPT !.st = "ASSOCIATED", !.conf = TRUE]
      <3>0. x \in Records /\ Same(v, x) /\ x.use = v.use
        BY <1>1 DEF Records, SgsStates, Same
      <3>1. q \in Records /\ Same(v, q) /\ q.use = v.use
        BY <1>1, <3>0 DEF ServiceReq, Same
      <3> QED BY <1>1, <3>1, SameSound, LuFlags
    <2> HIDE DEF q
    <2>3. Sound(p) /\ Flags(p)
      BY <2>2, PagStopSound, PagingFlags, FlagsCarry
    <2> HIDE DEF p
    <2>4. Sound(a) /\ Flags(a)
      BY ZenonT(60), <2>3, AnswerOnSgsSound, ConnFlags, FlagsCarry
    <2> HIDE DEF a
    <2> QED BY <2>1, <2>2, <2>3, <2>4, FsmFlags, FlagsUpdate
  <1>9. CASE RxCsfbInd(s)
    <2>1. Update(s, Settle(Toss(v)))
      BY <1>9 DEF RxCsfbInd
    <2>2. Sound(Toss(v)) /\ Flags(Toss(v))
      BY <1>1, TossSound, ConnFlags, FlagsCarry
    <2> QED BY <2>1, <2>2, FsmFlags, FlagsUpdate
  <1>10. ASSUME NEW sms \in BOOLEAN, RxUlUd(s, sms) PROVE FlagsInv'
    <2> DEFINE c == IF v.conn THEN v ELSE OpenConn(v)
               w == [Get(c, "SMS") EXCEPT !.ctrans = @ \cup {"SMS"}]
    <2>1. Update(s, c) \/ Update(s, w)
      BY <1>10 DEF RxUlUd
    <2>2. c \in Records /\ Flags(c)
      BY <1>1, OpenConnSound, ConnFlags, FlagsCarry DEF Sound
    <2> HIDE DEF c
    <2>3. Flags(w)
      BY <2>2 DEF Get, Records, Flags
    <2> QED BY <2>1, <2>2, <2>3, FlagsUpdate
  <1> QED BY ZenonT(60), <1>2, <1>3, <1>4, <1>5, <1>6, <1>7, <1>8, <1>9, <1>10 DEF MmeMessage

(* Transactions, timers, the HLR's answers and the operator's commands.    *)
LEMMA OneFlags ==
  ASSUME RecordsInv, FlagsInv, NEW s \in Subs,
         Transactions(s) \/ Timers(s) \/ Hlr(s) \/ Operator(s)
  PROVE  FlagsInv'
  <1> DEFINE v == vs[s]
  <1>1. Good(v) /\ Sound(v) /\ Flags(v) /\ v \in Records
    BY DEF RecordsInv, Good, FlagsInv, Sound
  <1>2. ASSUME NEW k \in Offered, MtRequest(s, k) PROVE FlagsInv'
    <2> DEFINE t == Get(v, k)
               w == [t EXCEPT !.reqs = @ \cup {k}]
               c == [t EXCEPT !.ctrans = @ \cup {k}]
               g == Get(Paged(w, k), "Paging")
               x == [g EXCEPT !.paging = TRUE, !.ptimer = TRUE]
    <2>1. Update(s, c) \/ Update(s, w) \/ Update(s, x)
      BY <1>2 DEF MtRequest
    <2>2. k \in Services /\ k \in Tokens
      BY SubsAssumption DEF Services, Tokens
    <2>3. t \in Records /\ SameFlags(v, t)
      BY <1>1, <2>2, GetType, PagingFlags
    <2> HIDE DEF t
    <2>4. SameFlags(t, c) /\ SameFlags(t, w) /\ w \in Records
      BY <2>2, <2>3 DEF Records, SameFlags
    <2> HIDE DEF w, c
    <2>5. Paged(w, k) \in Records /\ SameFlags(w, Paged(w, k))
      <3> DEFINE h == Get(w, "SGs-paging-req")
      <3>1. h \in Records
        BY <2>4, GetType DEF Tokens
      <3> HIDE DEF h
      <3>2. [h EXCEPT !.ts5 = TRUE, !.serv = k] \in Records
        BY <2>2, <3>1 DEF Records
      <3> QED BY <2>2, <2>4, <3>2, PagingFlags DEF Paged, h
    <2>6. g \in Records /\ SameFlags(Paged(w, k), g)
      BY <2>5, GetType, PagingFlags DEF Tokens
    <2> HIDE DEF g
    <2>7. SameFlags(g, x)
      BY <2>6 DEF Records, SameFlags
    <2> HIDE DEF x
    <2>8. Flags(c) /\ Flags(w) /\ Flags(x)
      BY ZenonT(60), <1>1, <2>3, <2>4, <2>5, <2>6, <2>7, FlagsCarry
    <2> QED BY <2>1, <2>8, FlagsUpdate
  <1>3. ASSUME NEW k \in Services, MtAbort(s, k) PROVE FlagsInv'
    <2> DEFINE w == [FreeTrans(v, {k}) EXCEPT !.reqs = @ \ {k}]
    <2>1. Update(s, Settle(w))
      BY <1>3 DEF MtAbort
    <2>2. SameFlags(v, w)
      BY <1>1 DEF FreeTrans, SameFlags, Records
    <2>3. Flags(Settle(w))
      <3>1. Flags(w)
        BY <1>1, <2>2, FlagsCarry
      <3> QED BY <3>1 DEF Settle, Flags, Absent, Blank
    <2> QED BY <2>1, <2>3, FlagsUpdate
  <1>4. ASSUME NEW k \in Services, TransDone(s, k) PROVE FlagsInv'
    <2> DEFINE d == [FreeTrans(v, {k}) EXCEPT !.ctrans = @ \ {k}]
               r == Release(d)
    <2>1. Update(s, Settle(r)) \/ Update(s, Settle(d))
      BY <1>4 DEF TransDone
    <2>2. d \in Records /\ SameFlags(v, d)
      <3> DEFINE f == FreeTrans(v, {k})
      <3>1. f \in Records /\ SameFlags(v, f)
        BY <1>1, FreeTransType, PagingFlags
      <3> HIDE DEF f
      <3>2. [f EXCEPT !.ctrans = @ \ {k}] \in Records
            /\ SameFlags(f, [f EXCEPT !.ctrans = @ \ {k}])
        BY <3>1 DEF Records, SameFlags
      <3> QED BY <3>1, <3>2, FlagsCarry DEF f
    <2> HIDE DEF d
    <2>3. SameFlags(d, r)
      <3> DEFINE e == EnableExpire(d)
      <3>1. e \in Records /\ SameFlags(d, e)
        BY <2>2, TimerAssumption DEF EnableExpire, Records, SameFlags
      <3> HIDE DEF e
      <3>2. SameFlags(e, Toss(e))
        BY <3>1 DEF Toss, FreeTrans, Put, SameFlags, Records
      <3> QED BY <3>1, <3>2, FlagsCarry DEF Release, e
    <2> HIDE DEF r
    <2>4. Flags(d) /\ Flags(r)
      BY <1>1, <2>2, <2>3, FlagsCarry
    <2>5. Flags(Settle(d)) /\ Flags(Settle(r))
      BY <2>4 DEF Settle, Flags, Absent, Blank
    <2> QED BY <2>1, <2>5, FlagsUpdate
  <1>5. CASE ConnClose(s)
    <2>1. Update(s, Settle(Release(v)))
      BY <1>5 DEF ConnClose
    <2>2. Sound(Release(v)) /\ Flags(Release(v))
      BY <1>1, ReleaseSound, ConnFlags, FlagsCarry
    <2> QED BY <2>1, <2>2, FsmFlags, FlagsUpdate
  <1>6. CASE Ts5Timeout(s)
    <2> DEFINE e == IF v.paging THEN PagingExpired(v) ELSE v
               w == [Put(e, "SGs-paging-req") EXCEPT !.ts5 = FALSE]
    <2>1. Update(s, Settle(w))
      BY <1>6 DEF Ts5Timeout
    <2>2. e \in Records /\ SameFlags(v, e)
      BY <1>1, PagingExpiredSound, PagingFlags, FlagsCarry DEF Sound
    <2> HIDE DEF e
    <2>3. SameFlags(e, w)
      BY <2>2 DEF Put, Records, SameFlags
    <2> HIDE DEF w
    <2>4. Flags(Settle(w))
      <3>1. Flags(w)
        BY ZenonT(60), <1>1, <2>2, <2>3, FlagsCarry
      <3> QED BY <3>1 DEF Settle, Flags, Absent, Blank
    <2> QED BY <2>1, <2>4, FlagsUpdate
  <1>7. CASE PagingTimeout(s)
    <2>1. Update(s, Settle(PagingExpired(v)))
      BY <1>7 DEF PagingTimeout
    <2>2. Sound(PagingExpired(v)) /\ Flags(PagingExpired(v))
      BY <1>1, PagingExpiredSound, PagingFlags, FlagsCarry
    <2> QED BY <2>1, <2>2, FsmFlags, FlagsUpdate
  <1>8. CASE Ts62Timeout(s)
    <2> DEFINE w == [v EXCEPT !.ts62 = FALSE, !.tmsi = FALSE, !.tmsiNew = FALSE]
    <2>1. v.ts62 /\ Update(s, w)
      BY <1>8 DEF Ts62Timeout
    <2>2. Flags(w)
      BY <1>1, <2>1 DEF Records, Flags
    <2> QED BY <2>1, <2>2, FlagsUpdate
  <1>9. CASE HlrLuResult(s)
    BY <1>1, <1>9, LuFlags, FlagsUpdate DEF HlrLuResult
  <1>10. CASE HlrLuError(s)
    <2>1. Update(s, Settle(RejSent(v)))
      BY <1>10 DEF HlrLuError
    <2>2. Sound(RejSent(v)) /\ Flags(RejSent(v))
      BY <1>1, RejSentSound, FsmFlags
    <2> QED BY <2>1, <2>2, FsmFlags, FlagsUpdate
  <1>11. CASE HlrCancel(s)
    BY <1>1, <1>11, FsmFlags, FlagsUpdate DEF HlrCancel
  <1>12. CASE SubExpire(s)
    <2>1. Update(s, Settle(Expire(v)))
      BY <1>12 DEF SubExpire
    <2>2. Sound(Expire(v)) /\ Flags(Expire(v))
      BY <1>1, ExpireSound, ConnFlags, FlagsCarry
    <2> QED BY <2>1, <2>2, FsmFlags, FlagsUpdate
  <1>13. CASE SubscriberDisconnect(s)
    <2> DEFINE r == IF v.conn THEN Release(v) ELSE v
               e == Expire(r)
    <2>1. Update(s, Settle(e))
      BY <1>13 DEF SubscriberDisconnect
    <2>2. Sound(r) /\ Flags(r)
      BY <1>1, ReleaseSound, ConnFlags, FlagsCarry
    <2> HIDE DEF r
    <2>3. Sound(e) /\ Flags(e)
      BY <2>2, ExpireSound, ConnFlags, FlagsCarry
    <2> HIDE DEF e
    <2> QED BY <2>1, <2>3, FsmFlags, FlagsUpdate
  <1> QED BY ZenonT(60), <1>2, <1>3, <1>4, <1>5, <1>6, <1>7, <1>8, <1>9, <1>10, <1>11, <1>12,
             <1>13 DEF Transactions, Timers, Hlr, Operator

(* The handlers of several records.  A drain that reaches all waiting LUs  *)
(* leaves none.                                                            *)
LEMMA GlobalFlags ==
  ASSUME RecordsInv, FlagsInv, Global
  PROVE  FlagsInv'
  <1>1. \A s \in Subs : Good(vs[s]) /\ Sound(vs[s]) /\ vs[s] \in Records /\ Flags(vs[s])
    BY DEF RecordsInv, Good, Sound, FlagsInv
  <1>2. CASE RxResetInd
    <2>1. ASSUME NEW s \in Subs PROVE Flags(vs'[s])
      <3>1. vs'[s] = vs[s] \/ vs'[s] = Settle(ToNull(vs[s]))
        BY <1>2 DEF RxResetInd
      <3>2. Sound(ToNull(vs[s])) /\ Flags(ToNull(vs[s]))
        BY <1>1, ToNullSound, FsmFlags
      <3> QED BY <1>1, <3>1, <3>2, FsmFlags
    <2> QED BY <2>1 DEF FlagsInv
  <1>3. ASSUME NEW S \in SUBSET Subs, ExpireLu(S) PROVE FlagsInv'
    <2>1. ASSUME NEW s \in Subs PROVE Flags(vs'[s])
      <3> DEFINE o == Aged(vs[s])
      <3>1. vs'[s] = o \/ vs'[s] = Swept(o)
        BY <1>3 DEF ExpireLu
      <3>2. Sound(o) /\ Flags(o)
        <4> DEFINE w == [vs[s] EXCEPT !.exp = @ - 1]
        <4>1. CASE o = vs[s]
          BY <1>1, <4>1
        <4>2. CASE o = w /\ vs[s].exp > 0
          <5>1. w \in Records
            BY SMTT(30), <1>1, <4>2 DEF Records, Never
          <5>2. Same(vs[s], w) /\ w.use = vs[s].use /\ SameFlags(vs[s], w)
            BY <1>1 DEF Records, Same, SameFlags
          <5> HIDE DEF w, o
          <5> QED BY <1>1, <4>2, <5>1, <5>2, SameSound, FlagsCarry
        <4> QED BY <4>1, <4>2 DEF Aged
      <3> HIDE DEF o
      <3> QED BY <3>1, <3>2, FsmFlags DEF Swept
    <2> QED BY <2>1 DEF FlagsInv
  <1>4. ASSUME NEW S \in SUBSET Subs, GsupFailPending(S) PROVE FlagsInv'
    <2>1. ASSUME NEW s \in Subs PROVE Flags(vs'[s])
      <3> DEFINE r == RejSent(vs[s])
                 k == KeepIncompleteExpiry(r)
      <3>1. vs'[s] = vs[s] \/ vs'[s] = Settle(k)
        BY <1>4 DEF GsupFailPending
      <3>2. Sound(r) /\ Flags(r)
        BY <1>1, RejSentSound, FsmFlags
      <3> HIDE DEF r
      <3>3. Sound(k) /\ Flags(k)
        BY <3>2, KeepIncompleteExpirySound, ConnFlags, FlagsCarry
      <3> HIDE DEF k
      <3> QED BY <1>1, <3>1, <3>3, FsmFlags
    <2> QED BY <2>1 DEF FlagsInv
  <1>5. CASE GsupDown \/ GsupUp \/ MmeLink
    BY <1>5 DEF GsupDown, GsupUp, MmeLink, FlagsInv
  <1> QED BY <1>2, <1>3, <1>4, <1>5 DEF Global

(* Restored associations are in SGs-NULL with nothing left over.           *)
LEMMA FlagsInit == Init => FlagsInv
  <1> SUFFICES ASSUME Init, NEW s \in Subs PROVE Flags(vs[s])
    BY DEF FlagsInv
  <1>1. \/ vs[s] = Absent
        \/ \E t \in BOOLEAN, e \in RowExpiries : vs[s] = Restored(t, e)
    BY DEF Init
  <1>2. Flags(Absent)
    BY DEF Absent, Blank, Flags
  <1>3. ASSUME NEW t \in BOOLEAN, NEW e \in RowExpiries PROVE Flags(Restored(t, e))
    <2> DEFINE g == Get(Blank, "attached")
    <2>1. g \in Records /\ Flags(g)
      BY BlankSound, GetType DEF Tokens, Get, Blank, Flags
    <2> HIDE DEF g
    <2>2. Flags([g EXCEPT !.tmsi = t, !.sgs = TRUE, !.lu = TRUE, !.exp = e])
      BY <2>1 DEF Records, Flags
    <2> QED BY <2>2 DEF Restored, g
  <1> QED BY <1>1, <1>2, <1>3

(* Every step keeps the flags.                                             *)
LEMMA FlagsNext == IInv /\ FlagsInv /\ [Next]_vars => FlagsInv'
  <1> SUFFICES ASSUME IInv, FlagsInv, [Next]_vars PROVE FlagsInv'
    OBVIOUS
  <1>1. RecordsInv
    BY DEF IInv
  <1>2. CASE UNCHANGED vars
    BY <1>2 DEF FlagsInv, vars
  <1>3. CASE Next
    BY <1>1, <1>3, MmeFlags, OneFlags, GlobalFlags DEF Next
  <1> QED BY <1>2, <1>3

(* What an association leaves behind never changes how the next one is     *)
(* paged: Ts6-2 runs exactly while an associated subscriber has a TMSI     *)
(* that is not acknowledged, and in SGs-NULL neither a pending TMSI nor a  *)
(* confirmed radio contact is left, for any number of subscribers.         *)
THEOREM AssociationFlags == Spec => []AssocFlags
  <1>1. FlagsInv => AssocFlags
    BY DEF FlagsInv, Flags, AssocFlags
  <1> QED BY <1>1, Invariance, FlagsInit, FlagsNext, PTL DEF Spec

-----------------------------------------------------------------------------
(* Action properties.                                                      *)

(* The timer that fails the LUs in progress stops, with the GSUP link      *)
(* still down, only once no LU waits, for any cap.                         *)
THEOREM DrainsComplete == Spec => DrainComplete
  <1>1. ASSUME IInv, FlagsInv, [Next]_vars, draining, ~draining', ~gsupUp',
               NEW s \in Subs
        PROVE  vs'[s].st # "LA_UPD_PRES"
    <2>1. RecordsInv /\ Good(vs[s]) /\ Sound(vs[s]) /\ Flags(vs[s])
      BY <1>1 DEF IInv, RecordsInv, Good, FlagsInv
    <2>2. PICK S \in SUBSET Subs : GsupFailPending(S)
      <3>1. draining' # draining
        BY <1>1
      <3>2. ASSUME NEW r \in Subs, MmeMessage(r) PROVE UNCHANGED draining
        BY <3>2, Zenon
           DEF MmeMessage, RxLocUpdReq, RxImsiDetInd, RxEpsDetInd, RxPagRej,
               RxUeUnreachable, RxTmsiReallCmpl, RxServiceReq, RxCsfbInd, RxUlUd
      <3>3. ASSUME NEW r \in Subs, Transactions(r) \/ Timers(r) PROVE UNCHANGED draining
        BY <3>3, Zenon
           DEF Transactions, MtRequest, MtAbort, TransDone, ConnClose,
               Timers, Ts5Timeout, PagingTimeout, Ts62Timeout
      <3>4. ASSUME NEW r \in Subs, Hlr(r) \/ Operator(r) PROVE UNCHANGED draining
        BY <3>4, Zenon
           DEF Hlr, HlrLuResult, HlrLuError, HlrCancel, Operator, SubExpire,
               SubscriberDisconnect
      <3>5. ASSUME NEW S \in SUBSET Subs, ExpireLu(S) PROVE UNCHANGED draining
        BY <3>5 DEF ExpireLu
      <3>6. CASE RxResetInd \/ MmeLink
        BY <3>1, <3>6 DEF RxResetInd, MmeLink
      <3>7. CASE GsupDown \/ GsupUp
        BY <1>1, <3>7 DEF GsupDown, GsupUp
      <3>8. CASE UNCHANGED vars
        BY <3>1, <3>8 DEF vars
      <3> QED BY ZenonT(60), <1>1, <3>1, <3>2, <3>3, <3>4, <3>5, <3>6, <3>7, <3>8 DEF Next, Global
    <2> DEFINE r == RejSent(vs[s])
               k == KeepIncompleteExpiry(r)
    <2>3. /\ S = {t \in Subs : vs[t].alive /\ vs[t].st = "LA_UPD_PRES"}
          /\ vs'[s] = IF s \in S THEN Settle(k) ELSE vs[s]
      BY <1>1, <2>2 DEF GsupFailPending
    <2>4. CASE s \in S
      <3>1. Sound(r) /\ r.st # "LA_UPD_PRES" /\ Flags(r)
        BY <2>1, RejSentSound, FsmFlags
      <3> HIDE DEF r
      <3>2. Sound(k) /\ k.st # "LA_UPD_PRES" /\ Flags(k)
        BY <3>1, KeepIncompleteExpirySound, ConnFlags, FlagsCarry DEF SameFlags
      <3> HIDE DEF k
      <3>3. Settle(k).st # "LA_UPD_PRES"
        BY <3>2, FsmFlags
      <3> QED BY <2>3, <2>4, <3>3
    <2>5. CASE s \notin S
      <3>1. vs'[s] = vs[s] /\ ~(vs[s].alive /\ vs[s].st = "LA_UPD_PRES")
        BY <2>3, <2>5
      <3>2. Absent.st = "NULL"
        BY DEF Absent, Blank
      <3> QED BY <2>1, <3>1, <3>2 DEF Good
    <2> QED BY <2>4, <2>5
  <1>2. IInv /\ FlagsInv /\ [Next]_vars
          => [draining /\ ~draining' /\ ~gsupUp'
                => \A s \in Subs : vs'[s].st # "LA_UPD_PRES"]_vars
    BY <1>1
  <1> QED BY <1>2, Invariance, FlagsInit, FlagsNext, PTL DEF Spec, DrainComplete

(* A step that writes one record and starts its Ts5 counts one page more.  *)
LEMMA NewPageCounts ==
  ASSUME RecordsInv, RecordsInv', NEW s \in Subs, NEW w, Update(s, w),
         w.ts5, ~vs[s].ts5
  PROVE  inflight' = inflight + 1
  <1> DEFINE P == {r \in Subs : vs[r].ts5}
             Q == {r \in Subs : vs'[r].ts5}
  <1>1. vs \in [Subs -> Records] /\ vs' = [vs EXCEPT ![s] = w]
    BY DEF RecordsInv, Update
  <1>2. Q = P \cup {s} /\ s \notin P
    BY <1>1
  <1>3. inflight = Cardinality(P) /\ inflight' = Cardinality(Q) /\ IsFiniteSet(P)
    BY CountType DEF RecordsInv, InflightExact
  <1> HIDE DEF P, Q
  <1> QED BY <1>2, <1>3, FS_AddElement

(* respawn_paging() only repeats a page.                                   *)
LEMMA RespawnRepeats ==
  ASSUME NEW v, Sound(v), NEW i
  PROVE  /\ RespawnPaging(v, i).ts5 => v.ts5
         /\ AccSent(v, i).ts5 => v.ts5
  <1>1. ASSUME NEW u, Sound(u) PROVE RespawnPaging(u, i).ts5 => u.ts5
    BY <1>1 DEF RespawnPaging, PagStop
  <1>2. ~v.ts5 => ~AccSent(v, i).ts5
    <2> SUFFICES ASSUME ~v.ts5 PROVE ~AccSent(v, i).ts5
      OBVIOUS
    <2> DEFINE a == IF v.lu THEN v ELSE [Get(v, "attached") EXCEPT !.lu = TRUE]
               r == [a EXCEPT !.conf = TRUE, !.detached = FALSE, !.sgs = TRUE]
               p == IF v.tmsiNew THEN r ELSE RespawnPaging(r, i)
               w == [p EXCEPT !.st = "ASSOCIATED", !.ts62 = v.tmsiNew]
               e == [w EXCEPT !.exp = AccExpiry]
    <2>1. a \in Records /\ ~a.ts5
      <3>1. v \in Records
        BY DEF Sound
      <3> DEFINE g == Get(v, "attached")
      <3>2. g \in Records /\ Same(v, g)
        BY <3>1, GetType DEF Tokens
      <3> HIDE DEF g
      <3>3. [g EXCEPT !.lu = TRUE] \in Records /\ ~[g EXCEPT !.lu = TRUE].ts5
        BY <3>2 DEF Records, Same
      <3> QED BY <3>1, <3>3 DEF g
    <2> HIDE DEF a
    <2>2. r \in Records /\ ~r.ts5
      BY <2>1 DEF Records
    <2> HIDE DEF r
    <2>3. p = r
      BY <2>2 DEF RespawnPaging, PagStop
    <2> HIDE DEF p
    <2>4. w \in Records /\ ~w.ts5
      <3>1. v.tmsiNew \in BOOLEAN
        BY DEF Sound, Records
      <3> QED BY <2>2, <2>3, <3>1 DEF Records, SgsStates
    <2> HIDE DEF w
    <2>5. AccExpiry \in {Never} \cup Nat
      BY TimerAssumption DEF AccExpiry
    <2>6. e \in Records /\ ~e.ts5
      BY <2>4, <2>5 DEF Records
    <2> HIDE DEF e
    <2>7. ~LuRelease(e).ts5
      BY <2>6 DEF LuRelease, Put, Records
    <2>8. AccSent(v, i) = LuRelease(e)
      BY DEF AccSent, TxLuAccept, e, w, p, r, a
    <2> QED BY <2>7, <2>8
  <1> QED BY <1>1, <1>2

(* The page of a new request, sgs_iface_paging_cb().                       *)
LEMMA RequestCapped ==
  ASSUME RecordsInv, RecordsInv', NEW s \in Subs, NEW k \in Offered, MtRequest(s, k),
         vs'[s].ts5, ~vs[s].ts5, inflight >= MaxUnconfirmed
  PROVE  vs'[s].serv = "CC" \/ vs'[s].conf
  <1> DEFINE v == vs[s]
             t == Get(v, k)
             w == [t EXCEPT !.reqs = @ \cup {k}]
             c == [t EXCEPT !.ctrans = @ \cup {k}]
             p == Paged(w, k)
             g == Get(p, "Paging")
             x == [g EXCEPT !.paging = TRUE, !.ptimer = TRUE]
  <1>1. v \in Records /\ vs \in [Subs -> Records]
    BY DEF RecordsInv
  <1>2. k \in Services /\ k \in Tokens
    BY SubsAssumption DEF Services, Tokens
  <1>3. \/ Update(s, c) \/ Update(s, w)
        \/ Update(s, x) /\ CanPage(v, k, inflight)
    BY DEF MtRequest
  <1>4. \/ vs'[s] = c \/ vs'[s] = w
        \/ vs'[s] = x /\ CanPage(v, k, inflight)
    BY <1>1, <1>3 DEF Update
  <1>5. t \in Records /\ Same(v, t) /\ SameFlags(v, t)
    BY <1>1, <1>2, GetType, PagingFlags
  <1> HIDE DEF t
  <1>6. ~c.ts5 /\ ~w.ts5 /\ w \in Records /\ SameFlags(t, w)
    BY <1>2, <1>5 DEF Records, Same, SameFlags
  <1> HIDE DEF w, c
  <1>7. vs'[s] = x /\ CanPage(v, k, inflight)
    BY <1>4, <1>6
  <1>8. p \in Records /\ p.serv = k /\ p.conf = w.conf
    <2> DEFINE h == Get(w, "SGs-paging-req")
    <2>1. h \in Records /\ SameFlags(w, h)
      BY <1>6, GetType, PagingFlags DEF Tokens
    <2> HIDE DEF h
    <2> DEFINE y == [h EXCEPT !.ts5 = TRUE, !.serv = k]
    <2>2. y \in Records /\ y.serv = k /\ y.conf = h.conf
      BY <1>2, <2>1 DEF Records
    <2>3. p = y
      BY DEF Paged, h
    <2> QED BY <2>1, <2>2, <2>3 DEF SameFlags
  <1> HIDE DEF p
  <1>9. g \in Records /\ g.serv = k /\ g.conf = p.conf
    BY SMTT(60), <1>8 DEF Get, Records, Tokens
  <1> HIDE DEF g
  <1>10. x.serv = k /\ x.conf = g.conf
    BY <1>9 DEF Records
  <1> HIDE DEF x
  <1>11. x.conf = v.conf
    BY <1>5, <1>6, <1>8, <1>9, <1>10 DEF SameFlags
  <1>12. inflight \in Nat /\ MaxUnconfirmed \in Nat
    BY CountType, CapAssumption
  <1>13. k = "SMS" /\ ~v.conf => inflight < MaxUnconfirmed
    BY <1>7 DEF CanPage
  <1>14. k = "SMS" \/ k = "CC"
    BY <1>2 DEF Services
  <1> QED BY <1>7, <1>10, <1>11, <1>12, <1>13, <1>14, ZenonT(10), SMTT(30)

(* Every other step of one subscriber writes its record alone and counts   *)
(* no new page, or repeats one.                                            *)
LEMMA NoOtherPage ==
  ASSUME RecordsInv, NEW r \in Subs,
         \/ MmeMessage(r) \/ Timers(r) \/ Hlr(r) \/ Operator(r)
         \/ \E k \in Services : MtAbort(r, k) \/ TransDone(r, k)
         \/ ConnClose(r)
  PROVE  \E w : /\ Update(r, w)
                /\ \/ inflight' = inflight
                   \/ \E n \in {0, 1} : inflight' = Decrement(inflight, n)
                   \/ w.ts5 => vs[r].ts5
  <1> DEFINE v == vs[r]
             P(w) == /\ Update(r, w)
                     /\ \/ inflight' = inflight
                        \/ \E n \in {0, 1} : inflight' = Decrement(inflight, n)
                        \/ w.ts5 => v.ts5
  <1>1. Good(v) /\ Sound(v) /\ v \in Records /\ Stops(v) \in {0, 1}
    BY CountType DEF RecordsInv, Good, Sound
  <1> SUFFICES \E w : P(w)
    OBVIOUS
  <1>2. ASSUME NEW sent \in BOOLEAN, RxLocUpdReq(r, sent) PROVE \E w : P(w)
    <2> DEFINE l == LuSubscr(v)
    <2>1. Stops(l) \in {0, 1}
      BY DEF Stops
    <2> QED BY <1>2, <2>1 DEF RxLocUpdReq
  <1>3. ASSUME NEW implicit \in BOOLEAN, RxImsiDetInd(r, implicit) PROVE \E w : P(w)
    BY <1>1, <1>3 DEF RxImsiDetInd
  <1>4. CASE RxEpsDetInd(r)
    BY <1>1, <1>4 DEF RxEpsDetInd
  <1>5. ASSUME NEW userBusy \in BOOLEAN, RxPagRej(r, userBusy) PROVE \E w : P(w)
    BY <1>1, <1>5 DEF RxPagRej
  <1>6. CASE RxUeUnreachable(r)
    BY <1>1, <1>6 DEF RxUeUnreachable
  <1>7. CASE RxTmsiReallCmpl(r)
    <2> DEFINE t == [v EXCEPT !.tmsi = TRUE, !.tmsiNew = FALSE]
               w == IF v.tmsiNew THEN RespawnPaging(t, inflight) ELSE v
               e == [w EXCEPT !.ts62 = FALSE]
    <2>1. Update(r, Settle(e))
      BY <1>7 DEF RxTmsiReallCmpl
    <2>2. t \in Records /\ Same(v, t) /\ t.use = v.use
      BY ZenonT(60), <1>1 DEF Records, Same
    <2> HIDE DEF t
    <2>3. Sound(t)
      BY <1>1, <2>2, SameSound
    <2>4. w \in Records /\ (w.ts5 => v.ts5)
      BY <1>1, <2>2, <2>3, RespawnPagingSound, RespawnRepeats DEF Sound, Same
    <2> HIDE DEF w
    <2>5. e.ts5 => v.ts5
      BY <2>4 DEF Records
    <2>6. Settle(e).ts5 => v.ts5
      BY <2>5 DEF Settle, Absent, Blank
    <2> QED BY <2>1, <2>6
  <1>8. ASSUME NEW k \in Services \cup {"none"}, RxServiceReq(r, k) PROVE \E w : P(w)
    BY <1>8 DEF RxServiceReq
  <1>9. CASE RxCsfbInd(r)
    BY <1>9 DEF RxCsfbInd
  <1>10. ASSUME NEW sms \in BOOLEAN, RxUlUd(r, sms) PROVE \E w : P(w)
    BY <1>10 DEF RxUlUd
  <1>11. CASE Timers(r)
    BY <1>11 DEF Timers, Ts5Timeout, PagingTimeout, Ts62Timeout
  <1>12. CASE HlrLuResult(r)
    <2>1. Update(r, AccSent(v, inflight))
      BY <1>12 DEF HlrLuResult
    <2> QED BY <1>1, <2>1, RespawnRepeats
  <1>13. CASE HlrLuError(r) \/ HlrCancel(r)
    BY <1>1, <1>13 DEF HlrLuError, HlrCancel
  <1>14. CASE Operator(r)
    BY <1>14 DEF Operator, SubExpire, SubscriberDisconnect
  <1>15. ASSUME NEW k \in Services, MtAbort(r, k) \/ TransDone(r, k) PROVE \E w : P(w)
    BY <1>15 DEF MtAbort, TransDone
  <1>16. CASE ConnClose(r)
    BY <1>16 DEF ConnClose
  <1> HIDE DEF P
  <1> QED BY <1>2, <1>3, <1>4, <1>5, <1>6, <1>7, <1>8, <1>9, <1>10, <1>11, <1>12,
             <1>13, <1>14, <1>15, <1>16 DEF MmeMessage, Hlr

(* Nor does a handler of several records page anyone.                      *)
LEMMA NoGlobalPage ==
  ASSUME RecordsInv, Global, NEW s \in Subs, vs'[s].ts5
  PROVE  vs[s].ts5
  <1>1. Good(vs[s]) /\ Sound(vs[s]) /\ vs[s] \in Records
    BY DEF RecordsInv, Good, Sound
  <1>2. CASE RxResetInd
    <2>1. vs'[s] = vs[s] \/ (vs[s].alive /\ vs'[s] = Settle(ToNull(vs[s])))
      BY <1>2 DEF RxResetInd
    <2> QED BY <1>1, <2>1, ToNullSound, SettleGood
  <1>3. ASSUME NEW S \in SUBSET Subs, ExpireLu(S) PROVE vs[s].ts5
    <2> DEFINE o == Aged(vs[s])
    <2>1. vs'[s] = o \/ (o.alive /\ vs'[s] = Swept(o))
      BY <1>3 DEF ExpireLu, Expired
    <2>2. Sound(o) /\ o.ts5 = vs[s].ts5
      <3> DEFINE w == [vs[s] EXCEPT !.exp = @ - 1]
      <3>1. CASE o = vs[s]
        BY <1>1, <3>1
      <3>2. CASE o = w /\ vs[s].exp > 0
        <4>1. w \in Records
          BY SMTT(30), <1>1, <3>2 DEF Records, Never
        <4>2. Same(vs[s], w) /\ w.use = vs[s].use
          BY <1>1 DEF Records, Same
        <4> HIDE DEF w, o
        <4> QED BY <1>1, <3>2, <4>1, <4>2, SameSound DEF Same
      <3> QED BY <3>1, <3>2 DEF Aged
    <2> HIDE DEF o
    <2> QED BY <2>1, <2>2, DetachGood, DiscardIncompleteGood DEF Swept
  <1>4. ASSUME NEW S \in SUBSET Subs, GsupFailPending(S) PROVE vs[s].ts5
    <2> DEFINE r == RejSent(vs[s])
               k == KeepIncompleteExpiry(r)
    <2>1. \/ vs'[s] = vs[s]
          \/ vs[s].alive /\ vs[s].st = "LA_UPD_PRES" /\ vs'[s] = Settle(k)
      BY <1>4 DEF GsupFailPending
    <2>2. CASE vs[s].alive /\ vs[s].st = "LA_UPD_PRES" /\ vs'[s] = Settle(k)
      <3>1. Sound(r) /\ r.alive /\ r.ts5 = FALSE
        BY <1>1, <2>2, RejSentSound
      <3> HIDE DEF r
      <3>2. Sound(k) /\ k.alive /\ k.ts5 = FALSE
        BY <3>1, KeepIncompleteExpirySound DEF Same
      <3> HIDE DEF k
      <3> QED BY <2>2, <3>2, SettleGood
    <2> QED BY <2>1, <2>2
  <1>5. CASE GsupDown \/ GsupUp \/ MmeLink
    BY <1>5 DEF GsupDown, GsupUp, MmeLink
  <1> QED BY <1>2, <1>3, <1>4, <1>5 DEF Global

(* A page sent while the cap is reached is for a call or for a subscriber  *)
(* with confirmed radio contact, for any cap and any number of subscribers.*)
THEOREM PagesCapped == Spec => PageCapped
  <1>1. ASSUME IInv, IInv', [Next]_vars, NEW s \in Subs, vs'[s].ts5, ~vs[s].ts5,
               inflight >= MaxUnconfirmed
        PROVE  vs'[s].serv = "CC" \/ vs'[s].conf
    <2>1. RecordsInv /\ RecordsInv' /\ inflight \in Nat /\ vs \in [Subs -> Records]
      BY <1>1, CountType DEF IInv, RecordsInv
    <2>2. ASSUME NEW r \in Subs, NEW w, Update(r, w) PROVE r = s /\ w.ts5
      <3>1. vs'[s] = IF s = r THEN w ELSE vs[s]
        BY <2>1, <2>2 DEF Update
      <3> QED BY <1>1, <3>1
    <2>3. ASSUME NEW r \in Subs,
                 \/ MmeMessage(r) \/ Timers(r) \/ Hlr(r) \/ Operator(r)
                 \/ \E k \in Services : MtAbort(r, k) \/ TransDone(r, k)
                 \/ ConnClose(r)
          PROVE  FALSE
      <3>1. PICK w : /\ Update(r, w)
                     /\ \/ inflight' = inflight
                        \/ \E n \in {0, 1} : inflight' = Decrement(inflight, n)
                        \/ w.ts5 => vs[r].ts5
        BY <2>1, <2>3, NoOtherPage
      <3>2. r = s /\ w.ts5
        BY <2>2, <3>1
      <3>3. inflight' = inflight + 1
        BY <1>1, <2>1, <3>1, <3>2, NewPageCounts
      <3> QED BY SMTT(30), <1>1, <2>1, <3>1, <3>2, <3>3 DEF Decrement
    <2>4. ASSUME NEW r \in Subs, NEW k \in Offered, MtRequest(r, k)
          PROVE  vs'[s].serv = "CC" \/ vs'[s].conf
      <3>1. r = s
        BY <2>2, <2>4 DEF MtRequest
      <3> QED BY <1>1, <2>1, <2>4, <3>1, RequestCapped
    <2>5. CASE Global
      BY <1>1, <2>1, <2>5, NoGlobalPage
    <2>6. CASE UNCHANGED vars
      BY <1>1, <2>6 DEF vars
    <2> QED BY <1>1, <2>3, <2>4, <2>5, <2>6 DEF Next, Transactions
  <1>2. IInv /\ IInv' /\ [Next]_vars
          => [\A s \in Subs :
                vs'[s].ts5 /\ ~vs[s].ts5 /\ inflight >= MaxUnconfirmed
                  => vs'[s].serv = "CC" \/ vs'[s].conf]_vars
    BY <1>1
  <1> QED BY <1>2, Invariance, PTL DEF Spec, PageCapped
=============================================================================
