----------------------------- MODULE RanProofs ------------------------------
(***************************************************************************)
(* Proofs about the connections towards the RAN: RanPeer, for any number   *)
(* of RAN peers and connection ids, and Handover, for any number of cells, *)
(* forwarding calls, attempts and messages on the E link. The functions of *)
(* the code work on a record w; what they keep true is stated for such a   *)
(* record first.                                                           *)
(***************************************************************************)
EXTENDS RanPeer, Handover, FiniteSetTheorems, SequenceTheorems,
        WellFoundedInduction, TLAPS

(* The first-order prover first: most steps instantiate lemmas.            *)
USE ZenonT(10), SMTT(30)

-----------------------------------------------------------------------------
(* RanPeer.                                                                *)

RpStates == {"none", "WAIT_RX_RESET", "WAIT_RX_RESET_ACK", "READY"}
RpConnType == [kind : {"none", "sub", "out", "vgcs"},
               peer : RpPeers \cup {RpNone}, old : BOOLEAN]
RpWType == [st : [RpPeers -> RpStates], conn : [RpIds -> RpConnType],
            sccp : SUBSET RpIds, stray : SUBSET RpIds, active : Int,
                total : Int]

Subscribers == {"sub", "out"}
ReadyPeers(w) == {p \in RpPeers : w.st[p] = "READY"}
KnownPeers(w) == {p \in RpPeers : w.st[p] # "none"}

\* The two gauges count the peers in READY and the peers that are known.
Counted(w) ==
  w.active = Cardinality(ReadyPeers(w)) /\ w.total = Cardinality(KnownPeers(w))

\* A connection is to a known peer; the SCCP stack has a subscriber's one too,
\* and has no others but the ones that were left to it and the ones in X, which
\* it has just indicated.
Linked(w, X) ==
  /\ \A i \in RpIds : w.conn[i].kind = "none" <=> w.conn[i].peer = RpNone
  /\ \A i \in RpIds : w.conn[i].peer # RpNone => w.st[w.conn[i].peer] # "none"
  /\ \A i \in RpIds : w.conn[i].kind \in Subscribers => i \in w.sccp
  /\ \A i \in w.sccp \ X : w.conn[i].kind # "none" \/ i \in w.stray
  /\ w.stray \subseteq w.sccp

\* The subscribers' connections are fresh and to peers in READY, those to the
\* peers P, which are being reset, left aside.
Fresh(w, P) ==
  \A i \in RpIds : w.conn[i].kind \in Subscribers /\ w.conn[i].peer \notin P =>
    w.st[w.conn[i].peer] = "READY" /\ ~w.conn[i].old

\* No subscriber has a connection to the peer.
Bare(w, p) ==
  \A i \in RpIds : w.conn[i].kind \in Subscribers => w.conn[i].peer # p

RpKept(w, X) == w \in RpWType /\ Counted(w) /\ Linked(w, X)

\* The inductive invariant.
RpIInv == rpIgnore \in BOOLEAN /\ RpKept(RpW, {}) /\ Fresh(RpW, {})

-----------------------------------------------------------------------------
(* The state of one peer.                                                  *)

\* The gauge of a set of peers follows the one peer that changes.
LEMMA CountMoves ==
  ASSUME NEW A \in SUBSET RpPeers, NEW p \in RpPeers
  PROVE  /\ Cardinality(A) \in Nat
         /\ Cardinality(A \cup {p}) = IF p \in A
             THEN Cardinality(A) ELSE Cardinality(A) + 1
         /\ Cardinality(A \ {p}) = IF p \in A
             THEN Cardinality(A) - 1 ELSE Cardinality(A)
<1>1. IsFiniteSet(A)
  BY RpAssumption, FS_Subset
<1>. QED
  BY <1>1, FS_CardinalityType, FS_AddElement, FS_RemoveElement

\* ran_peer_find_or_create() adds the peer, without connections.
LEMMA FindOrCreateKeeps ==
  ASSUME NEW w, NEW X, RpKept(w, X), NEW p \in RpPeers, NEW P, Fresh(w, P)
  PROVE  LET v == RpFindOrCreate(w, p)
         IN  /\ RpKept(v, X) /\ Fresh(v, P) /\ v.st[p] # "none"
             /\ v.conn = w.conn /\ v.sccp = w.sccp /\ v.stray = w.stray
<1> DEFINE v == RpFindOrCreate(w, p)
<1>1. CASE w.st[p] # "none"
  BY <1>1 DEF RpFindOrCreate
<1>2. CASE w.st[p] = "none"
  <2>1. /\ v.st = [w.st EXCEPT ![p] = "WAIT_RX_RESET"] /\ v.conn = w.conn
        /\ v.sccp = w.sccp /\ v.stray = w.stray
        /\ v.active = w.active /\ v.total = w.total + 1
        /\ v \in RpWType
    <3>1. [w.st EXCEPT ![p] = "WAIT_RX_RESET"] \in [RpPeers -> RpStates]
          /\ w.total + 1 \in Int
      BY SMTT(30) DEF RpKept, RpWType, RpStates
    <3>2. v = [w EXCEPT !.st = [w.st EXCEPT ![p] = "WAIT_RX_RESET"],
                        !.total = w.total + 1]
      BY <1>2 DEF RpFindOrCreate, RpKept, RpWType
    <3>. QED
      BY <3>1, <3>2 DEF RpKept, RpWType
  <2>2. ReadyPeers(v) = ReadyPeers(w) /\ KnownPeers(v) = KnownPeers(w) \cup {p}
        /\ p \notin KnownPeers(w)
    BY ZenonT(30), <1>2, <2>1 DEF ReadyPeers, KnownPeers, RpKept, RpWType
  <2>3. Counted(v)
    BY SMTT(30), <2>1, <2>2, CountMoves DEF Counted, RpKept, KnownPeers
  <2>4. Linked(v, X)
    BY SMTT(30), <1>2, <2>1 DEF Linked, RpKept, RpWType, RpConnType
  <2>5. Fresh(v, P)
    BY SMTT(30), <1>2, <2>1 DEF Fresh, Linked, RpKept, RpWType, RpConnType,
        Subscribers
  <2>. QED
    BY <1>2, <2>1, <2>3, <2>4, <2>5 DEF RpKept, RpWType
<1>. QED
  BY <1>1, <1>2

\* ran_peer_state_chg() keeps the gauges, and the connections to other peers.
LEMMA StateChgKeeps ==
  ASSUME NEW w, NEW X, RpKept(w, X), NEW p \in RpPeers, w.st[p] # "none",
         NEW s \in RpStates \ {"none"}
  PROVE  LET v == RpStateChg(w, p, s)
         IN  /\ RpKept(v, X) /\ v.st[p] = s /\ v.conn = w.conn
             /\ v.sccp = w.sccp /\ v.stray = w.stray
             /\ Fresh(w, {}) /\ (Bare(w, p) \/ s = "READY") => Fresh(v, {})
             /\ Fresh(w, {p}) /\ Bare(w, p) => Fresh(v, {})
             /\ Fresh(w, {p}) => Fresh(v, {p})
<1> DEFINE v == RpStateChg(w, p, s)
           a == (IF s = "READY" /\ w.st[p] # "READY" THEN 1 ELSE 0)
                  - (IF w.st[p] = "READY" /\ s # "READY" THEN 1 ELSE 0)
<1>1. /\ v.st = [w.st EXCEPT ![p] = s] /\ v.conn = w.conn
      /\ v.sccp = w.sccp /\ v.stray = w.stray
      /\ v.active = w.active + a /\ v.total = w.total /\ v \in RpWType
  <2>1. [w.st EXCEPT ![p] = s] \in [RpPeers -> RpStates]
        /\ w.active + a \in Int
    BY SMTT(30) DEF RpKept, RpWType, RpStates
  <2>2. v = [w EXCEPT !.st = [w.st EXCEPT ![p] = s], !.active = w.active + a]
    BY DEF RpStateChg, RpKept, RpWType
  <2>. QED
    BY ZenonT(60), <2>1, <2>2 DEF RpKept, RpWType
<1>2. KnownPeers(v) = KnownPeers(w)
  BY <1>1 DEF KnownPeers, RpKept, RpWType
<1>3. ReadyPeers(v) = IF s = "READY"
      THEN ReadyPeers(w) \cup {p} ELSE ReadyPeers(w) \ {p}
  BY <1>1 DEF ReadyPeers, RpKept, RpWType
<1>4. ReadyPeers(w) \in SUBSET RpPeers
      /\ (p \in ReadyPeers(w) <=> w.st[p] = "READY")
  BY DEF ReadyPeers
<1>5. Counted(v)
  <2> DEFINE n == Cardinality(ReadyPeers(w))
  <2>1. /\ n \in Nat
        /\ Cardinality(ReadyPeers(w) \cup {p}) = IF w.st[p] = "READY"
            THEN n ELSE n + 1
        /\ Cardinality(ReadyPeers(w) \ {p}) = IF w.st[p] = "READY"
            THEN n - 1 ELSE n
    BY <1>4, CountMoves
  <2>2. Cardinality(ReadyPeers(v)) = n + a
    BY SMTT(30), <1>3, <2>1
  <2>. QED
    BY <1>1, <1>2, <2>2 DEF Counted, RpKept
<1>6. Linked(v, X)
  BY SMTT(30), <1>1 DEF Linked, RpKept, RpWType, RpConnType
<1>7. \A q \in RpPeers : v.st[q] = IF q = p THEN s ELSE w.st[q]
  BY <1>1 DEF RpKept, RpWType
<1>8. \A i \in RpIds : w.conn[i].kind \in Subscribers
      => w.conn[i].peer \in RpPeers
  BY DEF RpKept, RpWType, RpConnType, Linked, Subscribers
<1>. QED
  BY SMTT(30), <1>1, <1>5, <1>6, <1>7, <1>8 DEF RpKept, Fresh, Bare

-----------------------------------------------------------------------------
(* The connections of one peer.                                            *)

\* The gauges do not depend on the connections.
LEMMA SameCounts ==
  ASSUME NEW w, NEW v, Counted(w), v.st = w.st, v.active = w.active,
         v.total = w.total
  PROVE  Counted(v)
BY DEF Counted, ReadyPeers, KnownPeers

\* What is there when the RAN restarts stays as it is, and is old.
LEMMA AgedKeeps ==
  ASSUME NEW w, RpKept(w, {}), Fresh(w, {}), NEW p \in RpPeers
  PROVE  LET v == RpAged(w, p)
         IN  /\ RpKept(v, {}) /\ Fresh(v, {p}) /\ v.st = w.st
             /\ v.sccp = w.sccp
             /\ \A i \in RpIds : /\ v.conn[i].kind = w.conn[i].kind
                                 /\ v.conn[i].peer = w.conn[i].peer
<1> DEFINE v == RpAged(w, p)
           f == [i \in RpIds |-> IF w.conn[i].peer = p
                   THEN [w.conn[i] EXCEPT !.old = TRUE] ELSE w.conn[i]]
<1>1. f \in [RpIds -> RpConnType]
  BY ZenonT(60) DEF RpKept, RpWType, RpConnType
<1>2. v = [w EXCEPT !.conn = f]
  BY DEF RpAged, RpKept, RpWType
<1>3. /\ v \in RpWType /\ v.st = w.st /\ v.sccp = w.sccp /\ v.stray = w.stray
      /\ v.active = w.active /\ v.total = w.total /\ v.conn = f
  BY <1>1, <1>2 DEF RpKept, RpWType
<1>4. \A i \in RpIds : /\ v.conn[i].kind = w.conn[i].kind
      /\ v.conn[i].peer = w.conn[i].peer
                       /\ w.conn[i].peer # p => v.conn[i] = w.conn[i]
  BY <1>3 DEF RpKept, RpWType, RpConnType
<1>5. Linked(v, {})
  BY SMTT(30), <1>3, <1>4 DEF Linked, RpKept, RpWType
<1>6. Fresh(v, {p})
  BY SMTT(30), <1>3, <1>4 DEF Fresh
<1>. QED
  BY SMTT(30), <1>3, <1>4, <1>5, <1>6, SameCounts DEF RpKept

\* ran_peer_discard_all_conns() leaves no subscriber's connection to the peer,
\* neither an old one nor a fresh one, and forgets no SCCP connection.
LEMMA DiscardAllKeeps ==
  ASSUME NEW w, RpKept(w, {}), NEW p \in RpPeers, Fresh(w, {p}), NEW Keep
  PROVE  LET v == RpDiscardAll(w, p, Keep)
         IN  RpKept(v, {}) /\ Fresh(v, {}) /\ Bare(v, p) /\ v.st = w.st
<1> DEFINE v == RpDiscardAll(w, p, Keep)
           Vgcs == {i \in RpConnsOf(w, p) : w.conn[i].kind = "vgcs"} \ Keep
           Lost == {i \in RpConnsOf(w, p) : w.conn[i].kind # "vgcs"}
           f == [i \in RpIds |-> IF i \in Vgcs \cup Lost
               THEN RpNoConn ELSE w.conn[i]]
<1>1. RpNoConn \in RpConnType /\ RpNoConn.kind = "none"
      /\ RpNoConn.peer = RpNone
  BY DEF RpNoConn, RpConnType
<1>2. f \in [RpIds -> RpConnType]
  BY <1>1 DEF RpKept, RpWType
<1>3. (w.stray \ Vgcs) \cup (Lost \cap w.sccp) \in SUBSET RpIds
      /\ w.sccp \ Vgcs \in SUBSET RpIds
  BY DEF RpKept, RpWType
<1>4. v = [w EXCEPT !.conn = f, !.sccp = w.sccp \ Vgcs,
                    !.stray = (w.stray \ Vgcs) \cup (Lost \cap w.sccp)]
  BY DEF RpDiscardAll
<1>5. /\ v \in RpWType /\ v.st = w.st /\ v.sccp = w.sccp \ Vgcs
      /\ v.stray = (w.stray \ Vgcs) \cup (Lost \cap w.sccp)
      /\ v.active = w.active /\ v.total = w.total /\ v.conn = f
  BY ZenonT(60), <1>2, <1>3, <1>4 DEF RpKept, RpWType
<1>6. \A i \in RpIds : v.conn[i] = IF i \in Vgcs \cup Lost
      THEN RpNoConn ELSE w.conn[i]
  BY <1>5
<1>7. \A i \in RpIds : i \in Vgcs => w.conn[i].kind = "vgcs"
  OBVIOUS
<1>8. \A i \in RpIds : i \in Lost
      <=> w.conn[i].peer = p /\ w.conn[i].kind # "vgcs"
  BY DEF RpConnsOf
<1>9. Linked(v, {})
  <2> HIDE DEF v, Vgcs, Lost, f
  <2>1. \A i \in RpIds : v.conn[i].kind = "none" <=> v.conn[i].peer = RpNone
    BY <1>1, <1>6 DEF Linked, RpKept
  <2>2. \A i \in RpIds : v.conn[i].peer # RpNone
        => v.st[v.conn[i].peer] # "none"
    BY <1>1, <1>5, <1>6 DEF Linked, RpKept
  <2>3. \A i \in RpIds : v.conn[i].kind \in Subscribers => i \in v.sccp
    BY <1>1, <1>5, <1>6, <1>7 DEF Linked, RpKept, Subscribers
  <2>4. \A i \in v.sccp : v.conn[i].kind # "none" \/ i \in v.stray
    BY <1>1, <1>5, <1>6 DEF Linked, RpKept, RpWType
  <2>5. v.stray \subseteq v.sccp
    BY <1>5, <1>7, <1>8, <1>3 DEF Linked, RpKept, RpWType
  <2>. QED
    BY <2>1, <2>2, <2>3, <2>4, <2>5 DEF Linked
<1>10. Bare(v, p)
  BY <1>1, <1>6, <1>8 DEF Bare, Subscribers
<1>11. Fresh(v, {})
  <2> HIDE DEF v, Vgcs, Lost, f
  <2>. QED
    BY ZenonT(60), <1>1, <1>5, <1>6, <1>8 DEF Fresh, Subscribers
<1>. QED
  BY <1>5, <1>9, <1>10, <1>11, SameCounts DEF RpKept

\* An SCCP connection that carries no subscriber can be dropped.
LEMMA SccpDisconnectKeeps ==
  ASSUME NEW w, NEW i \in RpIds, RpKept(w, {i}),
         w.conn[i].kind \notin Subscribers,
         NEW P, Fresh(w, P)
  PROVE  LET v == RpSccpDisconnect(w, i)
         IN  RpKept(v, {}) /\ Fresh(v, P) /\ v.st = w.st /\ v.conn = w.conn
<1> DEFINE v == RpSccpDisconnect(w, i)
<1>1. w.sccp \ {i} \in SUBSET RpIds /\ w.stray \ {i} \in SUBSET RpIds
  BY DEF RpKept, RpWType
<1>2. /\ v \in RpWType /\ v.st = w.st /\ v.conn = w.conn
         /\ v.sccp = w.sccp \ {i}
      /\ v.stray = w.stray \ {i} /\ v.active = w.active /\ v.total = w.total
  BY <1>1 DEF RpSccpDisconnect, RpKept, RpWType
<1>3. Linked(v, {})
  BY ZenonT(60), <1>2 DEF Linked, RpKept, RpWType
<1>. QED
  BY <1>2, <1>3, SameCounts DEF RpKept, Fresh

\* ran_conn_close() takes the connection from both sides.
LEMMA ConnCloseKeeps ==
  ASSUME NEW w, RpKept(w, {}), Fresh(w, {}), NEW i \in RpIds
  PROVE  RpKept(RpConnClose(w, i), {}) /\ Fresh(RpConnClose(w, i), {})
<1> DEFINE f == [w.conn EXCEPT ![i] = RpNoConn]
           v == RpConnClose(w, i)
<1>1. RpNoConn \in RpConnType /\ RpNoConn.kind = "none"
      /\ RpNoConn.peer = RpNone
  BY DEF RpNoConn, RpConnType
<1>2. /\ f \in [RpIds -> RpConnType]
      /\ w.sccp \ {i} \in SUBSET RpIds /\ w.stray \ {i} \in SUBSET RpIds
  BY <1>1 DEF RpKept, RpWType
<1>3. v = [w EXCEPT !.conn = f, !.sccp = w.sccp \ {i}, !.stray = w.stray \ {i}]
  BY DEF RpConnClose, RpSccpDisconnect, RpKept, RpWType
<1>4. /\ v \in RpWType /\ v.st = w.st /\ v.conn = f /\ v.sccp = w.sccp \ {i}
      /\ v.stray = w.stray \ {i} /\ v.active = w.active /\ v.total = w.total
  BY <1>2, <1>3 DEF RpKept, RpWType
<1>5. \A j \in RpIds : v.conn[j] = IF j = i THEN RpNoConn ELSE w.conn[j]
  BY <1>4 DEF RpKept, RpWType
<1>6. Linked(v, {})
  <2> HIDE DEF v, f
  <2>. QED
    BY SMTT(30), <1>1, <1>4, <1>5 DEF Linked, RpKept, RpWType, Subscribers
<1>7. Fresh(v, {})
  BY <1>1, <1>4, <1>5 DEF Fresh, Subscribers
<1>. QED
  BY <1>4, <1>6, <1>7, SameCounts DEF RpKept

\* A new connection of any kind; to a peer in READY if a subscriber uses it,
\* and known to SCCP.
LEMMA NewConnKeeps ==
  ASSUME NEW w, NEW i \in RpIds, RpKept(w, {i}), Fresh(w, {}),
         NEW p \in RpPeers, w.st[p] # "none",
             NEW k \in {"sub", "out", "vgcs"}, NEW S \in SUBSET {i},
         k # "vgcs" => w.st[p] = "READY" /\ i \in w.sccp \cup S
  PROVE  LET v == [w EXCEPT !.conn[i] = [kind |-> k, peer |-> p,
         old |-> FALSE],
                            !.sccp = @ \cup S]
         IN  RpKept(v, {}) /\ Fresh(v, {})
<1> DEFINE r == [kind |-> k, peer |-> p, old |-> FALSE]
           f == [w.conn EXCEPT ![i] = r]
           v == [w EXCEPT !.conn[i] = r, !.sccp = @ \cup S]
<1>1. r \in RpConnType /\ r.kind = k /\ r.peer = p /\ ~r.old /\ p # RpNone
  BY RpAssumption DEF RpConnType
<1>. HIDE DEF r
<1>2. f \in [RpIds -> RpConnType] /\ w.sccp \cup S \in SUBSET RpIds
  BY <1>1 DEF RpKept, RpWType
<1>3. /\ v \in RpWType /\ v.st = w.st /\ v.conn = f /\ v.sccp = w.sccp \cup S
      /\ v.stray = w.stray /\ v.active = w.active /\ v.total = w.total
  BY <1>2 DEF RpKept, RpWType
<1>4. \A j \in RpIds : v.conn[j] = IF j = i THEN r ELSE w.conn[j]
  BY <1>3 DEF RpKept, RpWType
<1>5. Linked(v, {})
  <2> HIDE DEF v, f
  <2>. QED
    BY <1>1, <1>3, <1>4, ZenonT(30), SMTT(30) DEF Linked, RpKept, RpWType, Subscribers
<1>6. Fresh(v, {})
  <2> HIDE DEF v, f
  <2>. QED
    BY ZenonT(60), <1>1, <1>3, <1>4 DEF Fresh, Subscribers
<1>. QED
  BY ZenonT(30), <1>3, <1>5, <1>6, SameCounts DEF RpKept, r

-----------------------------------------------------------------------------
(* The procedures, and the actions.                                        *)

\* ran_peer_rx_reset(), ran_peer_reset(): no connection survives either, so
\* none is left at a peer that is no longer READY.
LEMMA ResetKeeps ==
  ASSUME NEW w, RpKept(w, {}), NEW p \in RpPeers, Fresh(w, {p}),
         w.st[p] # "none",
         NEW Keep, NEW sent \in BOOLEAN
  PROVE  /\ RpKept(RpRxReset(w, p, Keep, sent), {})
            /\ Fresh(RpRxReset(w, p, Keep, sent), {})
         /\ RpKept(RpReset(w, p, Keep, sent), {})
             /\ Fresh(RpReset(w, p, Keep, sent), {})
<1>1. RpKept(RpRxReset(w, p, Keep, sent), {})
      /\ Fresh(RpRxReset(w, p, Keep, sent), {})
  <2> DEFINE v == RpDiscardAll(w, p, Keep)
             s == IF sent THEN "READY" ELSE "WAIT_RX_RESET"
  <2>1. RpKept(v, {}) /\ Fresh(v, {}) /\ Bare(v, p) /\ v.st[p] # "none"
    BY DiscardAllKeeps
  <2>2. s \in RpStates \ {"none"}
    BY DEF RpStates
  <2> HIDE DEF v, s
  <2>3. RpKept(RpStateChg(v, p, s), {}) /\ Fresh(RpStateChg(v, p, s), {})
    BY <2>1, <2>2, StateChgKeeps
  <2>. QED
    BY <2>3 DEF RpRxReset, v, s
<1>2. RpKept(RpReset(w, p, Keep, sent), {})
      /\ Fresh(RpReset(w, p, Keep, sent), {})
  <2> DEFINE u == RpStateChg(w, p, "WAIT_RX_RESET_ACK")
             v == RpDiscardAll(u, p, Keep)
             x == RpStateChg(v, p, "WAIT_RX_RESET")
  <2>1. {"WAIT_RX_RESET", "WAIT_RX_RESET_ACK"} \subseteq RpStates \ {"none"}
    BY DEF RpStates
  <2>2. RpKept(u, {}) /\ Fresh(u, {p}) /\ u.st[p] = "WAIT_RX_RESET_ACK"
    BY SMTT(30), <2>1, StateChgKeeps
  <2> HIDE DEF u
  <2>3. RpKept(v, {}) /\ Fresh(v, {}) /\ Bare(v, p) /\ v.st[p] # "none"
    BY <2>2, DiscardAllKeeps
  <2> HIDE DEF v
  <2>4. RpKept(x, {}) /\ Fresh(x, {})
    BY <2>1, <2>3, StateChgKeeps
  <2>. QED
    BY <2>3, <2>4 DEF RpReset, u, v, x
<1>. QED
  BY <1>1, <1>2

\* A peer that is not READY has no subscriber's connection.
LEMMA NotReadyBare ==
  ASSUME NEW w, Fresh(w, {}), NEW p \in RpPeers, w.st[p] # "READY"
  PROVE  Bare(w, p)
BY DEF Fresh, Bare

\* RAN_PEER_EV_UNAVAILABLE: the connections are discarded in READY; in the other
\* states there are none.
LEMMA UnavailableKeeps ==
  ASSUME NEW w, RpKept(w, {}), NEW p \in RpPeers, Fresh(w, {p}),
         w.st[p] # "none",
         w.st[p] # "READY" => Bare(w, p), NEW Keep
  PROVE  RpKept(RpUnavailable(w, p, Keep), {})
         /\ Fresh(RpUnavailable(w, p, Keep), {})
<1> DEFINE v == IF w.st[p] = "READY" THEN RpDiscardAll(w, p, Keep) ELSE w
<1>1. RpKept(v, {}) /\ Fresh(v, {p}) /\ Bare(v, p) /\ v.st[p] # "none"
  <2>1. CASE w.st[p] = "READY"
    BY <2>1, DiscardAllKeeps, ZenonT(30), SMTT(30) DEF Fresh
  <2>2. CASE w.st[p] # "READY"
    BY <2>2
  <2>. QED
    BY <2>1, <2>2
<1>2. "WAIT_RX_RESET" \in RpStates \ {"none"}
  BY DEF RpStates
<1> HIDE DEF v
<1>3. RpKept(RpStateChg(v, p, "WAIT_RX_RESET"), {})
      /\ Fresh(RpStateChg(v, p, "WAIT_RX_RESET"), {})
  BY <1>1, <1>2, StateChgKeeps
<1>. QED
  BY <1>3 DEF RpUnavailable, v

\* RAN_PEER_EV_MSG_UP_CO_INITIAL at a peer in READY.
LEMMA NewIncomingKeeps ==
  ASSUME NEW w, NEW i \in w.sccp, RpKept(w, {i}), Fresh(w, {}),
         NEW p \in RpPeers, w.st[p] = "READY", NEW kept \in BOOLEAN
  PROVE  /\ RpKept(RpNewIncoming(w, p, i, kept), {})
         /\ Fresh(RpNewIncoming(w, p, i, kept), {})
<1> DEFINE r == [kind |-> "sub", peer |-> p, old |-> FALSE]
           v == [w EXCEPT !.conn[i] = r]
           x == [w EXCEPT !.conn[i] = r, !.sccp = @ \cup {}]
<1>0. i \in RpIds
  BY DEF RpKept, RpWType
<1>1. x = v
  BY DEF RpKept, RpWType
<1>2. RpKept(v, {}) /\ Fresh(v, {})
  <2>1. RpKept(x, {}) /\ Fresh(x, {})
    BY <1>0, NewConnKeeps
  <2>. QED
    BY <1>1, <2>1
<1>3. RpKept(RpConnClose(v, i), {}) /\ Fresh(RpConnClose(v, i), {})
  BY <1>0, <1>2, ConnCloseKeeps
<1>. QED
  BY <1>2, <1>3 DEF RpNewIncoming

\* A handler that keeps the predicates keeps the invariant.
LEMMA BecomeKeeps ==
  ASSUME RpIInv, NEW w, RpKept(w, {}), Fresh(w, {}), RpBecome(w)
  PROVE  RpIInv'
<1>1. RpW' = w
  BY DEF RpBecome, RpW, RpKept, RpWType
<1>. QED
  BY <1>1 DEF RpIInv, RpBecome, RpKept, Fresh, Counted, Linked, ReadyPeers,
      KnownPeers

\* The messages and timers of one peer.
LEMMA PeerSteps ==
  ASSUME RpIInv, NEW p \in RpPeers, NEW Keep, NEW sent \in BOOLEAN
  PROVE  /\ RpUpReset(p, Keep, sent) => RpIInv'
         /\ RpUpResetAck(p) => RpIInv'
         /\ RpTimeout(p) => RpIInv'
         /\ RpUpNotice(p, Keep) => RpIInv'
         /\ \A sp, remote : RpUpPcState(p, sp, remote, Keep, sent) => RpIInv'
<1>0. RpKept(RpW, {}) /\ Fresh(RpW, {}) /\ RpW.st = rpSt
  BY DEF RpIInv, RpW
<1> DEFINE f == RpFindOrCreate(RpW, p)
<1>1. RpKept(f, {}) /\ Fresh(f, {}) /\ f.st[p] # "none"
  BY <1>0, FindOrCreateKeeps
<1>2. "READY" \in RpStates \ {"none"}
      /\ "WAIT_RX_RESET" \in RpStates \ {"none"}
  BY DEF RpStates
<1>3. RpUpReset(p, Keep, sent) => RpIInv'
  <2> DEFINE a == RpAged(f, p)
  <2> HIDE DEF f
  <2>1. RpKept(a, {}) /\ Fresh(a, {p}) /\ a.st[p] # "none"
    BY <1>1, AgedKeeps
  <2> HIDE DEF a
  <2>2. RpKept(RpRxReset(a, p, Keep, sent), {})
        /\ Fresh(RpRxReset(a, p, Keep, sent), {})
    BY <2>1, ResetKeeps
  <2>. QED
    BY <2>2, BecomeKeeps DEF RpUpReset, a, f
<1>4. RpUpResetAck(p) => RpIInv'
  <2> DEFINE v == RpStateChg(f, p, "READY")
  <2>1. RpKept(v, {}) /\ Fresh(v, {})
    <3> HIDE DEF f
    <3>. QED
      BY <1>1, <1>2, StateChgKeeps
  <2>. QED
    BY <1>1, <2>1, BecomeKeeps DEF RpUpResetAck
<1>5. RpTimeout(p) => RpIInv'
  <2>1. rpSt[p] = "WAIT_RX_RESET_ACK" => Bare(RpW, p) /\ rpSt[p] # "none"
    BY <1>0, NotReadyBare
  <2> DEFINE v == RpStateChg(RpW, p, "WAIT_RX_RESET")
  <2>2. rpSt[p] = "WAIT_RX_RESET_ACK" => RpKept(v, {}) /\ Fresh(v, {})
    BY <1>0, <1>2, <2>1, StateChgKeeps
  <2>. QED
    BY <2>2, BecomeKeeps DEF RpTimeout
<1> DEFINE a == RpAged(RpW, p)
<1>6. /\ RpKept(a, {}) /\ Fresh(a, {p}) /\ a.st = rpSt
      /\ rpSt[p] # "READY" => Bare(a, p)
  <2>1. /\ RpKept(a, {}) /\ Fresh(a, {p}) /\ a.st = rpSt
        /\ \A i \in RpIds : /\ a.conn[i].kind = RpW.conn[i].kind
                            /\ a.conn[i].peer = RpW.conn[i].peer
    BY <1>0, AgedKeeps
  <2>2. rpSt[p] # "READY" => Bare(RpW, p)
    BY <1>0, NotReadyBare
  <2>. QED
    BY <2>1, <2>2 DEF Bare
<1> HIDE DEF a
<1>7. rpSt[p] # "none" =>
        RpKept(RpUnavailable(a, p, Keep), {})
            /\ Fresh(RpUnavailable(a, p, Keep), {})
  BY <1>6, UnavailableKeeps
<1>8. RpUpNotice(p, Keep) => RpIInv'
  BY <1>7, BecomeKeeps DEF RpUpNotice, a
<1>9. ASSUME NEW sp, NEW remote, RpUpPcState(p, sp, remote, Keep, sent)
      PROVE  RpIInv'
  <2> DEFINE e == RpPcState(sp, remote)
  <2>1. rpSt[p] # "none"
    BY <1>9 DEF RpUpPcState
  <2>2. RpKept(RpReset(a, p, Keep, sent), {})
        /\ Fresh(RpReset(a, p, Keep, sent), {})
    BY <1>6, <2>1, ResetKeeps
  <2>3. \/ RpBecome(RpUnavailable(a, p, Keep))
           \/ RpBecome(RpReset(a, p, Keep, sent))
        \/ RpBecome(RpW)
    BY <1>9 DEF RpUpPcState, a
  <2>. QED
    BY <1>0, <1>7, <2>1, <2>2, <2>3, BecomeKeeps
<1>. QED
  BY <1>3, <1>4, <1>5, <1>8, <1>9

\* A message of a connection that is not accepted: RESET comes first.
LEMMA NotReadyKeeps ==
  ASSUME NEW w, NEW i \in RpIds, RpKept(w, {i}),
         NEW p \in RpPeers, Fresh(w, {p}), w.st[p] # "none",
             w.conn[i].kind \notin Subscribers, NEW Keep, NEW sent \in BOOLEAN
  PROVE  RpKept(RpNotReady(w, p, i, Keep, sent), {})
         /\ Fresh(RpNotReady(w, p, i, Keep, sent), {})
<1> DEFINE v == RpSccpDisconnect(w, i)
<1>1. RpKept(v, {}) /\ Fresh(v, {p}) /\ v.st[p] # "none"
  BY SccpDisconnectKeeps
<1> HIDE DEF v
<1>. QED
  BY <1>1, ResetKeeps DEF RpNotReady, v

\* The SCCP stack has a connection more, which nobody knows yet.
LEMMA SccpMore ==
  ASSUME NEW i \in RpIds, RpIInv
  PROVE  LET w == [RpW EXCEPT !.sccp = @ \cup {i}]
         IN  /\ RpKept(w, {i}) /\ Fresh(w, {}) /\ w.conn = rpConn
             /\ w.sccp = rpSccp \cup {i}
             /\ i \notin rpSccp => RpSccpDisconnect(w, i) = RpW
<1> DEFINE w == [RpW EXCEPT !.sccp = @ \cup {i}]
<1>1. /\ rpSccp \cup {i} \in SUBSET RpIds /\ RpW \in RpWType /\ Counted(RpW)
      /\ Fresh(RpW, {}) /\ Linked(RpW, {})
  BY DEF RpIInv, RpKept, RpWType, RpW
<1>2. /\ w \in RpWType /\ w.st = rpSt /\ w.conn = rpConn
         /\ w.sccp = rpSccp \cup {i}
      /\ w.stray = rpStray /\ w.active = rpActive /\ w.total = rpTotal
  BY <1>1 DEF RpW, RpWType
<1>3. Linked(w, {i}) /\ Fresh(w, {}) /\ Counted(w)
  BY <1>1, <1>2, SameCounts DEF Linked, Fresh, RpW
<1>4. ASSUME i \notin rpSccp
      PROVE  RpSccpDisconnect(w, i) = RpW
  <2>1. (rpSccp \cup {i}) \ {i} = rpSccp /\ rpStray \ {i} = rpStray
    BY <1>1, <1>4 DEF Linked, RpW
  <2> DEFINE u == RpSccpDisconnect(w, i)
  <2>2. u = [w EXCEPT !.sccp = w.sccp \ {i}, !.stray = w.stray \ {i}]
    BY DEF RpSccpDisconnect
  <2>3. /\ u \in RpWType /\ u.st = rpSt /\ u.conn = rpConn /\ u.sccp = rpSccp
        /\ u.stray = rpStray /\ u.active = rpActive /\ u.total = rpTotal
    <3> HIDE DEF u, w
    <3>. QED
      BY <1>1, <1>2, <2>1, <2>2 DEF RpWType, RpW
  <2> HIDE DEF u
  <2>4. u = RpW
    BY <1>1, <2>3 DEF RpWType, RpW
  <2>. QED
    BY <2>4 DEF u
<1>. QED
  BY <1>2, <1>3, <1>4 DEF RpKept

\* N-CONNECT.
LEMMA ConnectStep ==
  ASSUME RpIInv, NEW p \in RpPeers, NEW i \in RpIds, NEW kept \in BOOLEAN,
         NEW Keep,
         NEW sent \in BOOLEAN, RpUpConnect(p, i, kept, Keep, sent)
  PROVE  RpIInv'
<1> DEFINE w == [RpW EXCEPT !.sccp = @ \cup {i}]
           v == RpFindOrCreate(w, p)
           x == RpStateChg(v, p, "READY")
<1>1. /\ RpKept(w, {i}) /\ Fresh(w, {}) /\ w.conn = rpConn /\ i \in w.sccp
      /\ i \notin rpSccp => RpSccpDisconnect(w, i) = RpW
  BY SccpMore
<1>2. /\ i \notin rpSccp
      /\ RpBecome(IF rpConn[i].kind # "none" THEN RpSccpDisconnect(w, i)
                  ELSE IF v.st[p] = "READY" THEN RpNewIncoming(v, p, i, kept)
                  ELSE IF v.st[p] = "WAIT_RX_RESET" /\ rpIgnore
                    THEN RpNewIncoming(x, p, i, kept)
                  ELSE RpNotReady(v, p, i, Keep, sent))
  BY DEF RpUpConnect
<1> HIDE DEF w
<1>3. RpKept(v, {i}) /\ Fresh(v, {}) /\ v.st[p] # "none" /\ v.conn = rpConn
      /\ i \in v.sccp
  BY <1>1, FindOrCreateKeeps
<1> HIDE DEF v
<1>4. RpKept(x, {i}) /\ Fresh(x, {}) /\ x.st[p] = "READY" /\ i \in x.sccp
  <2>1. "READY" \in RpStates \ {"none"}
    BY DEF RpStates
  <2> DEFINE I == {i}
  <2>2. RpKept(v, I)
    BY <1>3
  <2> HIDE DEF I
  <2>3. RpKept(x, I) /\ x.st[p] = "READY" /\ x.sccp = v.sccp /\ Fresh(x, {})
    BY <1>3, <2>1, <2>2, StateChgKeeps, ZenonT(30), SMTT(30)
  <2>. QED
    BY <1>3, <2>3 DEF I
<1> HIDE DEF x
<1>6. CASE rpConn[i].kind # "none"
  BY <1>1, <1>2, <1>6, BecomeKeeps DEF RpIInv
<1>7. CASE rpConn[i].kind = "none" /\ v.st[p] = "READY"
  <2>1. RpBecome(RpNewIncoming(v, p, i, kept))
    BY <1>2, <1>7
  <2>2. /\ RpKept(RpNewIncoming(v, p, i, kept), {})
        /\ Fresh(RpNewIncoming(v, p, i, kept), {})
    BY <1>3, <1>7, NewIncomingKeeps
  <2>. QED
    BY <2>1, <2>2, BecomeKeeps
<1>8. CASE rpConn[i].kind = "none" /\ v.st[p] = "WAIT_RX_RESET" /\ rpIgnore
  <2>1. RpBecome(RpNewIncoming(x, p, i, kept))
    BY <1>2, <1>8
  <2>2. /\ RpKept(RpNewIncoming(x, p, i, kept), {})
        /\ Fresh(RpNewIncoming(x, p, i, kept), {})
    BY <1>4, NewIncomingKeeps
  <2>. QED
    BY <2>1, <2>2, BecomeKeeps
<1>9. CASE /\ rpConn[i].kind = "none" /\ v.st[p] # "READY"
           /\ ~(v.st[p] = "WAIT_RX_RESET" /\ rpIgnore)
  <2>1. RpBecome(RpNotReady(v, p, i, Keep, sent))
    BY <1>2, <1>9
  <2>2. Fresh(v, {p}) /\ v.conn[i].kind \notin Subscribers
    BY <1>3, <1>9 DEF Fresh, Subscribers
  <2>3. /\ RpKept(RpNotReady(v, p, i, Keep, sent), {})
        /\ Fresh(RpNotReady(v, p, i, Keep, sent), {})
    BY <1>3, <2>2, NotReadyKeeps
  <2>. QED
    BY <2>1, <2>3, BecomeKeeps
<1>. QED
  BY <1>6, <1>7, <1>8, <1>9

\* A connection for a handover or a group call.
LEMMA OutgoingStep ==
  ASSUME RpIInv, NEW p \in RpPeers, NEW i \in RpIds,
         NEW kind \in {"out", "vgcs"},
         RpOutgoing(p, i, kind)
  PROVE  RpIInv'
<1> DEFINE w == RpFindOrCreate(RpW, p)
           r == [kind |-> kind, peer |-> p, old |-> FALSE]
           v == [w EXCEPT !.conn[i] = r]
           x == [w EXCEPT !.conn[i] = r, !.sccp = @ \cup {i}]
           y == [w EXCEPT !.conn[i] = r, !.sccp = @ \cup {}]
<1>1. RpKept(RpW, {}) /\ Fresh(RpW, {})
  BY DEF RpIInv
<1>2. RpKept(w, {}) /\ Fresh(w, {}) /\ w.st[p] # "none" /\ w.conn = rpConn
      /\ w.sccp = rpSccp /\ w.stray = rpStray
  BY ZenonT(60), <1>1, FindOrCreateKeeps DEF RpW
<1>3. /\ rpConn[i].kind = "none" /\ i \notin rpSccp
      /\ RpBecome(IF w.st[p] = "READY" THEN [v EXCEPT !.sccp = @ \cup {i}]
                  ELSE IF kind = "vgcs" THEN v ELSE RpConnClose(v, i))
  BY DEF RpOutgoing
<1> HIDE DEF w
<1>4. RpKept(w, {i})
  BY <1>2 DEF RpKept, Linked
<1>5. [v EXCEPT !.sccp = @ \cup {i}] = x /\ v = y
  BY <1>2 DEF RpKept, RpWType
<1>6. CASE w.st[p] = "READY"
  <2>1. RpKept(x, {}) /\ Fresh(x, {})
    BY <1>2, <1>4, <1>6, NewConnKeeps
  <2>2. RpBecome(x)
    BY <1>3, <1>5, <1>6
  <2>. QED
    BY <2>1, <2>2, BecomeKeeps
<1>7. CASE w.st[p] # "READY" /\ kind = "vgcs"
  <2>1. RpKept(y, {}) /\ Fresh(y, {})
    BY <1>2, <1>4, <1>7, NewConnKeeps
  <2>2. RpBecome(y)
    BY <1>3, <1>5, <1>7
  <2>. QED
    BY <2>1, <2>2, BecomeKeeps
\* The first message is not sent: the connection goes again, nothing has changed.
<1>8. CASE w.st[p] # "READY" /\ kind # "vgcs"
  <2>1. RpBecome(RpConnClose(v, i))
    BY <1>3, <1>8
  <2>2. RpConnClose(v, i) = RpConnClose(w, i)
    <3>1. [v EXCEPT !.conn[i] = RpNoConn] = [w EXCEPT !.conn[i] = RpNoConn]
      BY <1>2 DEF RpKept, RpWType
    <3>. QED
      BY <3>1 DEF RpConnClose
  <2>3. RpKept(RpConnClose(w, i), {}) /\ Fresh(RpConnClose(w, i), {})
    BY <1>2, ConnCloseKeeps
  <2>. QED
    BY <2>1, <2>2, <2>3, BecomeKeeps
<1>. QED
  BY <1>6, <1>7, <1>8

\* N-DATA.
LEMMA DataStep ==
  ASSUME RpIInv, NEW i \in RpIds, NEW over \in BOOLEAN, NEW Keep,
         NEW sent \in BOOLEAN,
         RpUpData(i, over, Keep, sent)
  PROVE  RpIInv'
<1> DEFINE p == rpConn[i].peer
           w == IF rpSt[p] = "READY" THEN RpW ELSE RpStateChg(RpW, p, "READY")
           a == RpAged(RpW, p)
<1>1. RpKept(RpW, {}) /\ Fresh(RpW, {}) /\ RpW.st = rpSt /\ RpW.conn = rpConn
  BY DEF RpIInv, RpW
<1>2. CASE p = RpNone
  <2>1. RpBecome(RpW)
    BY <1>2 DEF RpUpData
  <2>. QED
    BY <1>1, <2>1, BecomeKeeps
<1>3. CASE p # RpNone
           /\ (rpSt[p] = "READY" \/ (rpSt[p] = "WAIT_RX_RESET" /\ rpIgnore))
  <2>1. p \in RpPeers /\ rpSt[p] # "none" /\ "READY" \in RpStates \ {"none"}
    BY <1>1, <1>3 DEF RpKept, RpWType, RpConnType, RpStates
  <2>2. RpKept(w, {}) /\ Fresh(w, {})
    BY <1>1, <2>1, StateChgKeeps
  <2>3. RpBecome(RpConnClose(w, i)) \/ RpBecome(w)
    BY <1>3 DEF RpUpData
  <2> HIDE DEF w
  <2>4. RpKept(RpConnClose(w, i), {}) /\ Fresh(RpConnClose(w, i), {})
    BY <2>2, ConnCloseKeeps
  <2>. QED
    BY <2>2, <2>3, <2>4, BecomeKeeps
<1>4. CASE p # RpNone
           /\ ~(rpSt[p] = "READY" \/ (rpSt[p] = "WAIT_RX_RESET" /\ rpIgnore))
  <2>1. p \in RpPeers /\ rpSt[p] # "none" /\ rpSt[p] # "READY"
    BY <1>1, <1>4 DEF RpKept, RpWType, RpConnType, Linked
  <2>2. rpConn[i].kind \notin Subscribers
    BY <1>1, <2>1, NotReadyBare DEF Bare
  <2>3. /\ RpKept(a, {}) /\ Fresh(a, {p}) /\ a.st[p] # "none"
        /\ a.conn[i].kind \notin Subscribers
    BY <1>1, <2>1, <2>2, AgedKeeps
  <2>4. RpBecome(RpNotReady(a, p, i, Keep, sent))
    BY <1>4 DEF RpUpData
  <2> HIDE DEF a
  <2>5. RpKept(a, {i})
    BY <2>3 DEF RpKept, Linked
  <2>6. /\ RpKept(RpNotReady(a, p, i, Keep, sent), {})
        /\ Fresh(RpNotReady(a, p, i, Keep, sent), {})
    BY <2>1, <2>3, <2>5, NotReadyKeeps
  <2>. QED
    BY <2>4, <2>6, BecomeKeeps
<1>. QED
  BY <1>2, <1>3, <1>4

\* N-DISCONNECT and the end of a connection by its owner.
LEMMA EndSteps ==
  ASSUME RpIInv, NEW i \in RpIds
  PROVE  (RpUpDisconnect(i) => RpIInv') /\ (RpRoleGone(i) => RpIInv')
<1>1. RpKept(RpW, {}) /\ Fresh(RpW, {}) /\ RpW.conn = rpConn
  BY DEF RpIInv, RpW
<1>2. RpKept(RpConnClose(RpW, i), {}) /\ Fresh(RpConnClose(RpW, i), {})
  BY <1>1, ConnCloseKeeps
<1>3. ASSUME RpUpDisconnect(i)
      PROVE  RpIInv'
  <2> DEFINE w == [RpW EXCEPT !.sccp = @ \ {i}, !.stray = @ \ {i}]
  <2>1. RpBecome(IF rpConn[i].kind = "none" THEN w ELSE RpConnDiscard(w, i))
    BY <1>3 DEF RpUpDisconnect
  <2>2. w = RpSccpDisconnect(RpW, i)
    BY DEF RpSccpDisconnect
  <2>3. RpConnDiscard(w, i) = RpConnClose(RpW, i)
    BY ZenonT(60) DEF RpConnDiscard, RpConnClose, RpSccpDisconnect, RpW
  <2>4. RpKept(RpW, {i})
    BY <1>1 DEF RpKept, Linked
  <2>5. rpConn[i].kind = "none" => RpKept(w, {}) /\ Fresh(w, {})
    BY SMTT(30), <1>1, <2>2, <2>4, SccpDisconnectKeeps DEF Subscribers
  <2>. QED
    BY <1>2, <2>1, <2>3, <2>5, BecomeKeeps
<1>4. RpRoleGone(i) => RpIInv'
  BY <1>2, BecomeKeeps DEF RpRoleGone
<1>. QED
  BY <1>3, <1>4

-----------------------------------------------------------------------------
(* The theorems.                                                           *)

\* The MSC starts without peers and connections.
LEMMA RpInitInv == RpInit => RpIInv
<1> SUFFICES ASSUME RpInit PROVE RpIInv
  OBVIOUS
<1>1. RpNoConn \in RpConnType /\ RpNoConn.kind = "none"
      /\ RpNoConn.peer = RpNone
  BY DEF RpNoConn, RpConnType
<1>2. RpW \in RpWType
  BY SMTT(30), <1>1 DEF RpInit, RpW, RpWType, RpStates
<1>3. ReadyPeers(RpW) = {} /\ KnownPeers(RpW) = {}
  BY DEF RpInit, RpW, ReadyPeers, KnownPeers
<1>4. Counted(RpW)
  BY <1>3, FS_EmptySet DEF Counted, RpInit, RpW
<1>5. Linked(RpW, {}) /\ Fresh(RpW, {})
  BY <1>1 DEF Linked, Fresh, RpInit, RpW, Subscribers
<1>. QED
  BY <1>2, <1>4, <1>5 DEF RpIInv, RpKept, RpInit

\* Every message, timer and request keeps the invariant.
LEMMA RpStepInv == RpIInv /\ [RpNext]_rpVars => RpIInv'
<1> SUFFICES ASSUME RpIInv, [RpNext]_rpVars PROVE RpIInv'
  OBVIOUS
<1>1. CASE UNCHANGED rpVars
  <2>1. RpW' = RpW /\ rpIgnore' = rpIgnore
    BY <1>1 DEF rpVars, RpW
  <2>. QED
    BY <2>1 DEF RpIInv, RpKept, Fresh, Counted, Linked, ReadyPeers, KnownPeers
<1>2. ASSUME NEW Keep, NEW sent \in BOOLEAN, NEW p \in RpPeers,
             RpPeerNext(p, Keep, sent)
      PROVE  RpIInv'
  BY <1>2, PeerSteps, ConnectStep, OutgoingStep DEF RpPeerNext
<1>3. ASSUME NEW Keep, NEW sent \in BOOLEAN, NEW i \in RpIds,
             \/ \E over \in BOOLEAN : RpUpData(i, over, Keep, sent)
             \/ RpUpDisconnect(i) \/ RpRoleGone(i)
      PROVE  RpIInv'
  BY <1>3, DataStep, EndSteps
<1>. QED
  BY <1>1, <1>2, <1>3 DEF RpNext

\* What the invariant says about the state of ran_peer.c.
LEMMA RpIInvImplies == RpIInv => RpTypeOK /\ RpConnsFresh
<1> SUFFICES ASSUME RpIInv PROVE RpTypeOK /\ RpConnsFresh
  OBVIOUS
<1>1. RpW \in RpWType /\ Counted(RpW) /\ Linked(RpW, {}) /\ Fresh(RpW, {})
  BY DEF RpIInv, RpKept
<1>2. RpW.st = rpSt /\ RpW.conn = rpConn /\ RpW.sccp = rpSccp
      /\ RpW.stray = rpStray
      /\ RpW.active = rpActive /\ RpW.total = rpTotal
  BY DEF RpW
<1>3. ASSUME NEW A \in SUBSET RpPeers
      PROVE  Cardinality(A) \in 0..Cardinality(RpPeers)
  BY SMTT(30), RpAssumption, FS_Subset, FS_CardinalityType
<1>4. rpActive \in 0..Cardinality(RpPeers)
      /\ rpTotal \in 0..Cardinality(RpPeers)
  BY <1>1, <1>2, <1>3 DEF Counted, ReadyPeers, KnownPeers
<1>5. RpTypeOK
  BY <1>1, <1>2, <1>4 DEF RpTypeOK, RpIInv, RpWType, RpStates, RpConnType,
      Linked
<1>6. RpConnsFresh
  BY <1>1, <1>2 DEF RpConnsFresh, Linked, Fresh, Subscribers
<1>. QED
  BY <1>5, <1>6

\* The state of the peers, the connections and the gauges keep their types; in
\* particular ran_peer_st_ready_onleave() never counts below zero.
THEOREM PeerTypes == RpSpec => []RpTypeOK
BY RpInitInv, RpStepInv, RpIInvImplies, PTL DEF RpSpec

\* A subscriber's connection is to a peer in READY and younger than its last
\* reset or loss, and both sides of the SCCP interface know it: no message of a
\* RAN before its RESET gets through, and no reset leaves a connection behind.
THEOREM ConnsFresh == RpSpec => []RpConnsFresh
BY RpInitInv, RpStepInv, RpIInvImplies, PTL DEF RpSpec

\* MSC_STAT_RAN_PEERS_ACTIVE and MSC_STAT_RAN_PEERS_TOTAL are exact, although
\* they are only ever incremented and decremented as states are entered and left.
THEOREM PeersCounted ==
  RpSpec => [](/\ rpActive = Cardinality({p \in RpPeers : rpSt[p] = "READY"})
               /\ rpTotal = Cardinality({p \in RpPeers : rpSt[p] # "none"}))
<1>1. RpIInv => /\ rpActive = Cardinality({p \in RpPeers : rpSt[p] = "READY"})
                /\ rpTotal = Cardinality({p \in RpPeers : rpSt[p] # "none"})
  BY DEF RpIInv, RpKept, Counted, ReadyPeers, KnownPeers, RpW
<1>. QED
  BY <1>1, RpInitInv, RpStepInv, PTL DEF RpSpec

-----------------------------------------------------------------------------
(* Handover.                                                               *)

\* What an MSC-I or MSC-T role can be.
HoRoles == HoCells \cup {"remote", HoNone}

\* Where the RTP of the call can lead.
HoRtps == HoRoles \cup {"fwd", "none", "zero"}
HoIds == HoCallIds \cup {HoNone}

\* What MSC-A sends on the E link.
HoMsgs == {"CLOSE", "PREPARE_HO_REQUEST"}

\* The values of a call, of the handover FSM and of MSC-A.
HoCallT == [st : {"FREE", "UP", "WAIT_RELEASE_ACK"}, rtps : BOOLEAN,
            par : {"a", "ho", HoNone}]
HoCallFns == [HoCallIds -> HoCallT]
HoOuts == Seq(HoMsgs)
HoFsmT == [ho : {"NONE", "REQUIRED", "WAIT_REQUEST_ACK", "WAIT_COMPLETE"},
           cil : Seq(HoEntries), new : HoRoles, newRtp : BOOLEAN,
           switched : BOOLEAN, old : HoRtps, fwd : HoIds]
HoAStates ==
  [st : {"COMMUNICATING", "RELEASING", "GONE"}, i : HoRoles, t : HoRoles,
   tst : {"WAIT_HO_REQUEST_ACK", "WAIT_HO_COMPLETE", HoNone},
       clearing : SUBSET HoCells,
   rtp : HoRtps, calls : HoCallFns, cc : HoIds,
       asked : {"no", "yes", "expired"},
   pre : HoRtps, tries : Nat, abort : BOOLEAN, ub : BOOLEAN, out : HoOuts,
       h : HoFsmT]

\* Without a remote role at MSC-A the E link is on its way down: the last
\* message that waits is a CLOSE or, when none waits, MSC-B has ended (b).
HoLinked(w, b) ==
  ~(w.i = "remote" \/ w.t = "remote") =>
    IF w.out = <<>> THEN b ELSE w.out[Len(w.out)] = "CLOSE"

\* Only the calls, the RTP and perhaps the state of msc_a differ.
HoAlike(v, w) ==
  /\ v \in HoAStates /\ v.t = w.t /\ v.i = w.i /\ v.h = w.h /\ v.out = w.out
  /\ v.asked = w.asked /\ v.abort = w.abort
      /\ (v.st = w.st \/ v.st = "RELEASING")

\* A nonempty set of naturals has a least element.
LEMMA LeastNat ==
  ASSUME NEW S \in SUBSET Nat, S # {}
  PROVE  \E n \in S : \A m \in S : n <= m
<1> DEFINE R == OpToRel(<, Nat)
<1>1. IsWellFoundedOn(R, Nat)
  BY NatLessThanWellFounded
<1>2. \A x, y \in Nat : x < y => <<x, y>> \in R
  BY DEF OpToRel
<1> HIDE DEF R
<1>3. \E x \in S : \A y \in S : ~ (<<y, x>> \in R)
  BY <1>1, WFMin
<1>4. PICK n \in S : \A y \in S : ~ (<<y, n>> \in R)
  BY <1>3
<1>5. ASSUME NEW m \in S PROVE n <= m
  <2>1. m \in Nat /\ n \in Nat
    OBVIOUS
  <2>2. ~(m < n)
    BY <1>2, <1>4, <2>1
  <2> QED BY <2>1, <2>2
<1> QED BY <1>5

\* A free call and an idle handover FSM have their types.
LEMMA HoFreeTyped == HoFree \in HoCallT
BY DEF HoFree, HoCallT

\* And so has the FSM before a handover (msc_ho_fsm not allocated).
LEMMA HoIdleTyped == HoIdle \in HoFsmT /\ HoIdle.ho = "NONE"
BY DEF HoIdle, HoFsmT, HoRoles, HoRtps, HoIds

-----------------------------------------------------------------------------
(* The forwarding calls and the roles of MSC-A.                            *)

\* Another value of one call.
LEMMA CallPut ==
  ASSUME NEW w \in HoAStates, NEW k, NEW r, k \in HoCallIds => r \in HoCallT
  PROVE  HoAlike([w EXCEPT !.calls[k] = r], w)
<1> DEFINE f == [w.calls EXCEPT ![k] = r]
           v == [w EXCEPT !.calls[k] = r]
<1>1. v = [w EXCEPT !.calls = f]
  BY DEF HoAStates
<1>2. f \in HoCallFns
  BY DEF HoAStates, HoCallFns
<1> HIDE DEF f, v
<1>3. HoAlike(v, w)
  BY <1>1, <1>2 DEF HoAlike, HoAStates
<1> QED BY <1>3 DEF v

\* MSC_A_ST_RELEASING keeps the roles, the handover and the E link.
LEMMA ReleasingKeeps ==
  ASSUME NEW w \in HoAStates
  PROVE  HoAlike(HoReleasing(w), w) /\ HoReleasing(w).st = "RELEASING"
<1> DEFINE f == [k \in HoCallIds |->
                   IF k \in {w.cc, w.h.fwd}
                       THEN [w.calls[k] EXCEPT !.rtps = FALSE]
                   ELSE w.calls[k]]
           v == HoReleasing(w)
<1>1. v = [w EXCEPT !.st = "RELEASING", !.rtp = "none", !.calls = f]
  BY DEF HoReleasing, HoAStates
<1>2. \A r \in HoCallT : [r EXCEPT !.rtps = FALSE] \in HoCallT
  BY DEF HoCallT
<1>3. \A k \in HoCallIds : w.calls[k] \in HoCallT
  BY DEF HoAStates, HoCallFns
<1>4. f \in HoCallFns
  BY <1>2, <1>3 DEF HoCallFns
<1>5. "none" \in HoRtps
  BY DEF HoRtps
<1> HIDE DEF f, v
<1>6. HoAlike(v, w) /\ v.st = "RELEASING"
  BY <1>1, <1>4, <1>5 DEF HoAlike, HoAStates
<1> QED BY <1>6 DEF v

\* So does mncc_call_fsm_cleanup(), which may release msc_a.
LEMMA CallCleanupKeeps ==
  ASSUME NEW w \in HoAStates, NEW k \in HoCallIds
  PROVE  HoAlike(HoCallCleanup(w, k), w)
<1> DEFINE x == [w EXCEPT !.calls[k] = HoFree]
           y == [x EXCEPT !.ub = TRUE]
<1>1. HoAlike(x, w)
  BY HoFreeTyped, CallPut
<1> HIDE DEF x
<1>2. HoAlike(y, w)
  BY <1>1 DEF HoAlike, HoAStates
<1> HIDE DEF y
<1>3. HoAlike(HoReleasing(x), w)
  BY <1>1, ReleasingKeeps DEF HoAlike
<1>4. HoCallCleanup(w, k) \in {x, y, HoReleasing(x)}
  BY DEF HoCallCleanup, HoStreamRelease, x, y
<1> QED BY <1>1, <1>2, <1>3, <1>4

\* After msc_i_remote or msc_t_remote is gone, the last thing sent is a CLOSE.
LEMMA SendClose ==
  ASSUME NEW q \in HoOuts
  PROVE  /\ Append(q, "CLOSE") \in HoOuts /\ Append(q, "CLOSE") # <<>>
         /\ Append(q, "CLOSE")[Len(Append(q, "CLOSE"))] = "CLOSE"
         /\ q \o <<>> = q /\ q \o <<"CLOSE">> = Append(q, "CLOSE")
         /\ q \o <<"CLOSE", "CLOSE">> = Append(Append(q, "CLOSE"), "CLOSE")
<1> DEFINE S == HoMsgs
           c == "CLOSE"
<1>0. c \in S /\ q \in Seq(S)
  BY DEF HoMsgs, HoOuts
<1>1. Append(q, c) \in Seq(S) /\ Len(Append(q, c)) = Len(q) + 1
      /\ Append(q, c)[Len(q) + 1] = c
  BY <1>0
<1>2. Append(q, c) # <<>>
  BY <1>0, <1>1
<1>3. q \o <<>> = q
  BY <1>0
<1>4. q \o <<c>> = Append(q, c)
  BY <1>0
<1>5. q \o <<c, c>> = Append(Append(q, c), c)
  BY SMTT(30), <1>0, <1>1
<1> QED BY <1>1, <1>2, <1>3, <1>4, <1>5 DEF HoOuts

\* MSC-A has left, and whatever led to MSC-B has said CLOSE.
HoGone(v, w, b) ==
  /\ v \in HoAStates /\ v.st = "GONE" /\ v.i = HoNone /\ v.t = HoNone
      /\ v.h = HoIdle
  /\ v.asked = "no" /\ v.abort = w.abort /\ HoLinked(v, b)

\* The termination of the msub closes every remote role.
LEMMA AGoneKeeps ==
  ASSUME NEW w \in HoAStates, NEW b, HoLinked(w, b)
  PROVE  HoGone(HoAGone(w), w, b)
<1> DEFINE q == w.out \o (IF w.i = "remote"
           /\ w.t = "remote" THEN <<"CLOSE", "CLOSE">>
                           ELSE IF "remote" \in {w.i, w.t}
                               THEN <<"CLOSE">> ELSE <<>>)
           d == w.ub \/ \E k \in HoCallIds : w.calls[k].rtps /\ w.rtp = "none"
           f == [k \in HoCallIds |-> HoFree]
           v == HoAGone(w)
<1>1. v = [w EXCEPT !.st = "GONE", !.i = HoNone, !.t = HoNone, !.tst = HoNone,
                  !.clearing = {}, !.rtp = "none", !.cc = HoNone,
                      !.asked = "no", !.pre = "none",
                  !.calls = f, !.h = HoIdle, !.out = q, !.ub = d]
  BY DEF HoAGone
<1>2. q \in HoOuts /\ (IF w.i = "remote" \/ w.t = "remote"
                         THEN q # <<>> /\ q[Len(q)] = "CLOSE" ELSE q = w.out)
  <2>1. w.out \in HoOuts
    BY DEF HoAStates
  <2>3. CASE w.i = "remote" /\ w.t = "remote"
    <3>1. q = Append(Append(w.out, "CLOSE"), "CLOSE")
          /\ Append(w.out, "CLOSE") \in HoOuts
      BY <2>1, <2>3, SendClose
    <3> HIDE DEF q
    <3> QED BY <2>3, <3>1, SendClose
  <2>4. CASE ~(w.i = "remote" /\ w.t = "remote")
             /\ (w.i = "remote" \/ w.t = "remote")
    <3>1. q = Append(w.out, "CLOSE")
      BY <2>1, <2>4, SendClose
    <3> HIDE DEF q
    <3> QED BY <2>1, <2>4, <3>1, SendClose
  <2>5. CASE ~(w.i = "remote" \/ w.t = "remote")
    <3>1. q = w.out
      BY <2>1, <2>5, SendClose
    <3> HIDE DEF q
    <3> QED BY <2>1, <2>5, <3>1
  <2> QED BY <2>3, <2>4, <2>5
<1>3. d \in BOOLEAN
  BY DEF HoAStates
<1>4. f \in HoCallFns
  BY HoFreeTyped DEF HoCallFns
<1>5. "none" \in HoRtps /\ HoNone \in HoRoles /\ HoNone \in HoIds
      /\ {} \in SUBSET HoCells
  BY DEF HoRtps, HoRoles, HoIds
<1> HIDE DEF q, d, f, v
<1>6. v \in HoAStates
  BY <1>1, <1>2, <1>3, <1>4, <1>5, HoIdleTyped DEF HoAStates
<1>7. /\ v.st = "GONE" /\ v.i = HoNone /\ v.t = HoNone /\ v.h = HoIdle
      /\ v.asked = "no" /\ v.abort = w.abort /\ v.out = q
  BY <1>1 DEF HoAStates
<1>8. HoLinked(v, b)
  BY <1>2, <1>7, HoAssumption DEF HoLinked
<1>9. HoGone(v, w, b)
  BY <1>6, <1>7, <1>8 DEF HoGone
<1> QED BY <1>9 DEF v

\* msub_check_for_release() does nothing or terminates the msub.
LEMMA CheckReleaseKeeps ==
  ASSUME NEW w \in HoAStates, NEW b, HoLinked(w, b)
  PROVE  HoCheckRelease(w) = w \/ HoGone(HoCheckRelease(w), w, b)
BY AGoneKeeps DEF HoCheckRelease

\* The MSC-T is gone, and perhaps the msub with it.
HoTLeft(v, w, b) ==
  \/ /\ v \in HoAStates /\ v.t = HoNone /\ v.h = w.h /\ v.asked = w.asked
      /\ v.st = w.st
     /\ v.abort = w.abort /\ HoLinked(v, b) /\ v.i = w.i
  \/ HoGone(v, w, b)

\* Removing the MSC-T role leaves no E link without a CLOSE.
LEMMA TGoneKeeps ==
  ASSUME NEW w \in HoAStates, NEW b, HoLinked(w, b)
  PROVE  HoTLeft(HoTGone(w), w, b)
<1>1. CASE w.t = HoNone
  BY <1>1 DEF HoTGone, HoTLeft
<1>2. CASE w.t # HoNone
  <2> DEFINE q == IF w.t = "remote" THEN Append(w.out, "CLOSE") ELSE w.out
             x == [w EXCEPT !.t = HoNone, !.tst = HoNone, !.out = q]
             v == HoTGone(w)
  <2>1. v = HoCheckRelease(x)
    BY <1>2 DEF HoTGone, HoSend, HoAStates
  <2>2. q \in HoOuts /\ (w.t = "remote" => q # <<>> /\ q[Len(q)] = "CLOSE")
        /\ (w.t # "remote" => q = w.out)
    <3>1. w.out \in HoOuts
      BY DEF HoAStates
    <3> QED BY <3>1, SendClose
  <2>3. HoNone \in HoRoles
    BY DEF HoRoles
  <2> HIDE DEF q, v
  <2>4. /\ x \in HoAStates /\ x.t = HoNone /\ x.h = w.h /\ x.asked = w.asked
           /\ x.st = w.st
        /\ x.abort = w.abort /\ x.i = w.i /\ x.out = q
    BY <2>2, <2>3 DEF HoAStates
  <2> HIDE DEF x
  <2>5. HoLinked(x, b)
    BY <2>2, <2>4 DEF HoLinked
  <2>6. v = x \/ HoGone(v, x, b)
    BY <2>1, <2>4, <2>5, CheckReleaseKeeps
  <2>7. HoTLeft(v, w, b)
    BY <2>4, <2>5, <2>6 DEF HoTLeft, HoGone
  <2> QED BY <2>7 DEF v
<1> QED BY <1>1, <1>2

\* No handover and no MSC-T are left.
HoOver(v, w, b) ==
  /\ v \in HoAStates /\ v.t = HoNone /\ v.h = HoIdle /\ HoLinked(v, b)
      /\ v.abort = w.abort
  /\ v.asked \in {w.asked, "no"} /\ v.st \in {w.st, "RELEASING", "GONE"}

\* The termination of the handover FSM takes the MSC-T away.
LEMMA TermKeeps ==
  ASSUME NEW w \in HoAStates, NEW b, HoLinked(w, b)
  PROVE  HoOver(HoTerm(w), w, b)
<1> DEFINE ks == HoCallsOf(w, "ho")
           x == IF ks = {} THEN w ELSE HoCallCleanup(w, CHOOSE k \in ks : TRUE)
           y == [x EXCEPT !.h = HoIdle]
           v == HoTerm(w)
<1>1. v = HoTGone(y)
  BY DEF HoTerm
<1>2. HoAlike(x, w)
  <2>1. CASE ks = {}
    BY <2>1 DEF HoAlike
  <2>2. CASE ks # {}
    <3>1. (CHOOSE k \in ks : TRUE) \in HoCallIds
      BY <2>2 DEF HoCallsOf
    <3> QED BY <2>2, <3>1, CallCleanupKeeps
  <2> QED BY <2>1, <2>2
<1> HIDE DEF x, v
<1>3. /\ y \in HoAStates /\ y.h = HoIdle /\ y.t = w.t /\ y.i = w.i
         /\ y.out = w.out
      /\ y.asked = w.asked /\ y.abort = w.abort
          /\ (y.st = w.st \/ y.st = "RELEASING")
  BY <1>2, HoIdleTyped DEF HoAlike, HoAStates
<1> HIDE DEF y
<1>4. HoLinked(y, b)
  BY <1>3 DEF HoLinked
<1>5. HoTLeft(v, y, b)
  BY <1>1, <1>3, <1>4, TGoneKeeps
<1>6. HoOver(v, w, b)
  BY <1>3, <1>5 DEF HoTLeft, HoGone, HoOver
<1> QED BY <1>6 DEF v

-----------------------------------------------------------------------------
(* The handover FSM.                                                       *)

\* The invariant of MSC-A: the E link; an MSC-T only with a handover; and a
\* Handover Required that waits for its answer only in the states in which the
\* answer is still to come.  The last is more than HoAnswered: msc_ho_success()
\* does not answer, so it must not be reached with the answer open.
HoGood(w, b) ==
  /\ w \in HoAStates /\ HoLinked(w, b)
  /\ w.t # HoNone => w.h.ho # "NONE"
  /\ ~w.abort /\ w.asked = "yes" /\ w.st = "COMMUNICATING" =>
       w.h.ho \in {"REQUIRED", "WAIT_REQUEST_ACK"}

\* Only the calls, the RTP and the rest of the handover FSM differ.
HoNear(v, w) ==
  /\ v \in HoAStates /\ v.t = w.t /\ v.i = w.i /\ v.h.ho = w.h.ho
      /\ v.out = w.out
  /\ v.asked = w.asked /\ v.abort = w.abort
      /\ (v.st = w.st \/ v.st = "RELEASING")
  /\ v.h.new = w.h.new

\* The two relations compose.
LEMMA AlikeNear ==
  ASSUME NEW v, NEW w, HoAlike(v, w)
  PROVE  HoNear(v, w)
BY DEF HoAlike, HoNear

\* Near states of near states are near.
LEMMA NearNear ==
  ASSUME NEW u, NEW v, NEW w, HoNear(u, v), HoNear(v, w)
  PROVE  HoNear(u, w)
BY DEF HoNear

\* A state is near itself: what a handler refuses changes nothing.
LEMMA NearSelf ==
  ASSUME NEW w \in HoAStates
  PROVE  HoNear(w, w)
BY DEF HoNear

\* They keep the E link and the invariant of MSC-A.
LEMMA NearLinked ==
  ASSUME NEW v, NEW w, NEW b, HoNear(v, w), HoLinked(w, b)
  PROVE  v \in HoAStates /\ HoLinked(v, b)
BY DEF HoNear, HoLinked

\* So a function that stays near keeps what holds between the two MSCs.
LEMMA NearGood ==
  ASSUME NEW v, NEW w, NEW b, HoNear(v, w), HoGood(w, b)
  PROVE  HoGood(v, b)
BY NearLinked DEF HoNear, HoGood

\* Changes of one field of a call; none if there is no call.
LEMMA CallEdits ==
  ASSUME NEW w \in HoAStates, NEW k \in HoIds
  PROVE  /\ HoNear([w EXCEPT !.calls[k].rtps = TRUE], w)
         /\ HoNear([w EXCEPT !.calls[k].rtps = FALSE], w)
         /\ HoNear([w EXCEPT !.calls[k].st = "WAIT_RELEASE_ACK"], w)
         /\ HoNear([w EXCEPT !.calls[k].par = "a"], w)
<1>1. \A r \in HoCallT : /\ [r EXCEPT !.rtps = TRUE] \in HoCallT
                         /\ [r EXCEPT !.rtps = FALSE] \in HoCallT
                         /\ [r EXCEPT !.st = "WAIT_RELEASE_ACK"] \in HoCallT
                         /\ [r EXCEPT !.par = "a"] \in HoCallT
  BY DEF HoCallT
<1>2. k \in HoCallIds => w.calls[k] \in HoCallT
  BY DEF HoAStates, HoCallFns
<1> DEFINE r1 == [w.calls[k] EXCEPT !.rtps = TRUE]
           r2 == [w.calls[k] EXCEPT !.rtps = FALSE]
           r3 == [w.calls[k] EXCEPT !.st = "WAIT_RELEASE_ACK"]
           r4 == [w.calls[k] EXCEPT !.par = "a"]
<1>3. k \in HoCallIds
      => r1 \in HoCallT /\ r2 \in HoCallT /\ r3 \in HoCallT /\ r4 \in HoCallT
  BY <1>1, <1>2
<1>4. /\ [w EXCEPT !.calls[k].rtps = TRUE] = [w EXCEPT !.calls[k] = r1]
      /\ [w EXCEPT !.calls[k].rtps = FALSE] = [w EXCEPT !.calls[k] = r2]
      /\ [w EXCEPT !.calls[k].st = "WAIT_RELEASE_ACK"]
          = [w EXCEPT !.calls[k] = r3]
      /\ [w EXCEPT !.calls[k].par = "a"] = [w EXCEPT !.calls[k] = r4]
  BY DEF HoAStates
<1> HIDE DEF r1, r2, r3, r4
<1> QED BY <1>3, <1>4, CallPut, AlikeNear

\* A change of the RTP address, and one of the handover FSM that keeps its
\* state and target.
LEMMA RtpPut ==
  ASSUME NEW w \in HoAStates, NEW r \in HoRtps
  PROVE  HoNear([w EXCEPT !.rtp = r], w)
BY DEF HoNear, HoAStates

\* The same for the fields of msc_ho other than its state and its target.
LEMMA FsmPut ==
  ASSUME NEW w \in HoAStates, NEW h \in HoFsmT, h.ho = w.h.ho, h.new = w.h.new
  PROVE  HoNear([w EXCEPT !.h = h], w)
BY DEF HoNear, HoAStates

\* mncc_call_detach_rtp_stream() and mncc_call_set_rtp_stream().
LEMMA DetachRtpKeeps ==
  ASSUME NEW w \in HoAStates, NEW k \in HoIds
  PROVE  HoNear(HoDetachRtp(w, k), w)
<1>1. CASE k = HoNone \/ ~w.calls[k].rtps
  BY <1>1, NearSelf DEF HoDetachRtp
<1>2. CASE ~(k = HoNone \/ ~w.calls[k].rtps)
  <2> DEFINE x == [w EXCEPT !.calls[k].rtps = FALSE]
  <2>1. HoDetachRtp(w, k) = [x EXCEPT !.rtp = "zero"]
    BY <1>2 DEF HoDetachRtp, HoAStates
  <2>2. HoNear(x, w)
    BY CallEdits
  <2> HIDE DEF x
  <2>3. "zero" \in HoRtps /\ x \in HoAStates
    BY <2>2 DEF HoRtps, HoNear
  <2>4. HoNear([x EXCEPT !.rtp = "zero"], x)
    BY <2>3, RtpPut
  <2> QED BY <2>1, <2>2, <2>4, NearNear
<1> QED BY <1>1, <1>2

\* mncc_call_set_rtp_stream() on the forwarding call, if there is one.
LEMMA SetRtpKeeps ==
  ASSUME NEW w \in HoAStates, NEW k \in HoIds
  PROVE  HoNear(HoSetRtp(w, k), w)
BY CallEdits, NearSelf DEF HoSetRtp

\* The types of what the functions below take out of the state.
LEMMA Pieces ==
  ASSUME NEW w \in HoAStates
  PROVE  /\ w.cc \in HoIds /\ w.h \in HoFsmT /\ w.h.fwd \in HoIds
            /\ w.h.old \in HoRtps
         /\ w.h.new \in HoRoles /\ w.h.cil \in Seq(HoEntries)
             /\ w.rtp \in HoRtps
         /\ w.calls \in HoCallFns /\ w.i \in HoRoles /\ w.t \in HoRoles
             /\ w.out \in HoOuts
         /\ w.abort \in BOOLEAN /\ w.tries \in Nat
             /\ w.clearing \in SUBSET HoCells
BY DEF HoAStates, HoFsmT

\* msc_ho_rtp_rollback_to_old_cell() keeps all but the RTP.
LEMMA RollbackKeeps ==
  ASSUME NEW w \in HoAStates
  PROVE  HoNear(HoRollback(w), w)
<1>1. CASE ~w.h.switched \/ w.rtp = "none" \/ w.h.old = "zero"
  BY <1>1, NearSelf DEF HoRollback
<1>2. CASE ~(~w.h.switched \/ w.rtp = "none" \/ w.h.old = "zero")
  <2> DEFINE x == HoDetachRtp(w, w.h.fwd)
             y == HoSetRtp(x, w.cc)
             g == [y.h EXCEPT !.switched = FALSE]
             z == [y EXCEPT !.h = g]
  <2>0. w.h.fwd \in HoIds /\ w.cc \in HoIds /\ w.h.old \in HoRtps
    BY Pieces
  <2>1. HoNear(x, w)
    BY <2>0, DetachRtpKeeps
  <2>2. HoRollback(w) = [y EXCEPT !.h.switched = FALSE, !.rtp = w.h.old]
    BY <1>2 DEF HoRollback
  <2> HIDE DEF x
  <2>3. HoNear(y, x)
    BY <2>0, <2>1, SetRtpKeeps DEF HoNear
  <2> HIDE DEF y
  <2>4. y \in HoAStates /\ y.h \in HoFsmT
    BY <2>3, Pieces DEF HoNear
  <2>5. g \in HoFsmT /\ g.ho = y.h.ho /\ g.new = y.h.new
    BY <2>4 DEF HoFsmT
  <2>6. HoRollback(w) = [z EXCEPT !.rtp = w.h.old]
    BY <2>2, <2>4 DEF HoAStates
  <2> HIDE DEF g
  <2>7. HoNear(z, y)
    BY <2>4, <2>5, FsmPut
  <2> HIDE DEF z
  <2>8. HoNear([z EXCEPT !.rtp = w.h.old], z)
    BY <2>0, <2>7, RtpPut DEF HoNear
  <2> QED BY ZenonT(60), <2>1, <2>3, <2>6, <2>7, <2>8, NearNear
<1> QED BY <1>1, <1>2

\* msc_ho_failed() establishes the invariant from the types and the E link
\* alone: the BSS is answered, or the assertion on the MSC-I has failed.
LEMMA FailedKeeps ==
  ASSUME NEW w \in HoAStates, NEW b, HoLinked(w, b)
  PROVE  HoGood(HoFailed(w), b) /\ HoFailed(w).t = HoNone
<1> DEFINE x == HoRollback(w)
           y == HoRequiredReject(x)
           v == HoTerm(y)
<1>1. x \in HoAStates /\ HoLinked(x, b)
  BY RollbackKeeps, NearLinked
<1> HIDE DEF x
<1>2. y \in HoAStates /\ HoLinked(y, b) /\ (y.abort \/ y.asked = "no")
  <2>1. CASE x.i = HoNone
    <3>1. y = [x EXCEPT !.abort = TRUE]
      BY <2>1 DEF HoRequiredReject
    <3> HIDE DEF y
    <3>2. y \in HoAStates /\ y.i = x.i /\ y.t = x.t /\ y.out = x.out
      BY <1>1, <3>1 DEF HoAStates
    <3>3. y.abort = TRUE
      BY <1>1, <3>1 DEF HoAStates
    <3> QED BY <1>1, <3>2, <3>3 DEF HoLinked
  <2>2. CASE x.i # HoNone
    <3>1. y = [x EXCEPT !.asked = "no"]
      BY <2>2 DEF HoRequiredReject
    <3> HIDE DEF y
    <3>2. y \in HoAStates /\ y.i = x.i /\ y.t = x.t /\ y.out = x.out
          /\ y.asked = "no"
      BY <1>1, <3>1 DEF HoAStates
    <3> QED BY <1>1, <3>2 DEF HoLinked
  <2> QED BY <2>1, <2>2
<1> HIDE DEF y
<1>3. HoOver(v, y, b)
  BY <1>2, TermKeeps
<1>4. HoFailed(w) = v
  BY DEF HoFailed, x, y
<1> HIDE DEF v
<1>5. HoGood(v, b) /\ v.t = HoNone
  BY <1>2, <1>3 DEF HoOver, HoGood
<1> QED BY <1>4, <1>5

\* msc_ho_success() keeps it: the previous remote MSC-I says CLOSE, and nobody
\* waits for an answer any more.
LEMMA SuccessKeeps ==
  ASSUME NEW w, NEW b, HoGood(w, b), w.asked # "yes", w.t # HoNone
  PROVE  HoGood(HoSuccess(w), b)
<1> DEFINE y == HoCallRelease(w, w.cc)
           w1 == [y EXCEPT !.cc = HoNone]
           w2 == IF w.t # "remote" THEN w1
                 ELSE [w1 EXCEPT !.cc = w.h.fwd, !.h.fwd = HoNone,
                                 !.calls[w.h.fwd].par = "a"]
           x == [HoNewI(w2, w.t) EXCEPT !.t = HoNone, !.tst = HoNone]
           v == HoSuccess(w)
<1>0. w \in HoAStates /\ HoLinked(w, b) /\ w.cc \in HoIds /\ w.h.fwd \in HoIds
      /\ HoNone \in HoIds
  BY Pieces DEF HoGood, HoIds
<1>1. v = HoTerm(x)
  BY DEF HoSuccess
<1>2. HoNear(y, w)
  BY <1>0, CallEdits, NearSelf DEF HoCallRelease
<1> HIDE DEF y, v
<1>3. HoNear(w1, y)
  BY <1>0, <1>2 DEF HoNear, HoAStates
<1> HIDE DEF w1
<1>4. HoNear(w2, w1)
  <2>1. CASE w.t # "remote"
    BY <1>3, <2>1, NearSelf DEF HoNear
  <2>2. CASE w.t = "remote"
    <3> DEFINE u1 == [w1 EXCEPT !.cc = w.h.fwd]
               g == [u1.h EXCEPT !.fwd = HoNone]
               u2 == [u1 EXCEPT !.h = g]
               u3 == [u2 EXCEPT !.calls[w.h.fwd].par = "a"]
    <3>1. w2 = u3
      BY <1>3, <2>2 DEF HoNear, HoAStates
    <3>2. HoNear(u1, w1)
      BY <1>0, <1>3 DEF HoNear, HoAStates
    <3> HIDE DEF u1
    <3>3. g \in HoFsmT /\ g.ho = u1.h.ho /\ g.new = u1.h.new
      BY <1>0, <3>2, Pieces DEF HoNear, HoFsmT
    <3> HIDE DEF g
    <3>4. HoNear(u2, u1)
      BY <3>2, <3>3, FsmPut DEF HoNear
    <3> HIDE DEF u2
    <3>a. u2 \in HoAStates
      BY <3>4 DEF HoNear
    <3>b. \A k \in HoIds : HoNear([u2 EXCEPT !.calls[k].par = "a"], u2)
      BY <3>a, CallEdits
    <3>5. HoNear(u3, u2)
      BY <1>0, <3>b
    <3> HIDE DEF u3, w2
    <3> QED BY ZenonT(60), <3>1, <3>2, <3>4, <3>5, NearNear
  <2> QED BY <2>1, <2>2
<1> HIDE DEF w2
<1>5. HoNear(w2, w)
  BY <1>2, <1>3, <1>4, NearNear
<1> DEFINE q == IF w2.i = "remote" THEN Append(w2.out, "CLOSE") ELSE w2.out
           c == IF w2.i \in HoCells
               THEN w2.clearing \cup {w2.i} ELSE w2.clearing
<1>6. x = [w2 EXCEPT !.out = q, !.i = w.t, !.clearing = c, !.t = HoNone,
      !.tst = HoNone]
  BY ZenonT(60), <1>5 DEF HoNewI, HoSend, HoNear, HoAStates
<1>7. /\ q \in HoOuts /\ (w2.i = "remote" => q # <<>> /\ q[Len(q)] = "CLOSE")
      /\ (w2.i # "remote" => q = w2.out)
  BY <1>5, Pieces, SendClose DEF HoNear
<1>8. c \in SUBSET HoCells /\ w.t \in HoRoles /\ HoNone \in HoRoles
  BY <1>0, <1>5, Pieces DEF HoNear, HoRoles
<1> HIDE DEF q, c, x
<1>9. x \in HoAStates /\ x.i = w.t /\ x.t = HoNone /\ x.out = q
      /\ x.abort = w2.abort /\ x.asked = w2.asked /\ x.st = w2.st
  BY <1>5, <1>6, <1>7, <1>8 DEF HoNear, HoAStates
<1>10. HoLinked(x, b)
  BY <1>0, <1>5, <1>7, <1>9 DEF HoLinked, HoNear
<1>11. HoOver(v, x, b)
  BY <1>1, <1>9, <1>10, TermKeeps
<1>12. HoGood(v, b)
  BY <1>5, <1>9, <1>11 DEF HoGood, HoOver, HoNear
<1> QED BY <1>12 DEF v

\* msc_ho_find_target_cell() returns a cell, the other MSC or nothing.
LEMMA FindTyped ==
  ASSUME NEW e \in HoEntries
  PROVE  HoFindTargetCell(e) \in HoRoles
BY DEF HoFindTargetCell, HoEntries, HoRoles

\* msc_ho_find_next_target_cell() stops in the list, at a cell that leads
\* somewhere.
LEMMA NextTargetFound ==
  ASSUME NEW cil \in Seq(HoEntries), HoNextTarget(cil) # 0
  PROVE  /\ HoNextTarget(cil) \in 1 .. Len(cil)
         /\ HoFindTargetCell(cil[HoNextTarget(cil)]) \in HoRoles \ {HoNone}
<1> DEFINE hits == {n \in DOMAIN cil : HoFindTargetCell(cil[n]) # HoNone}
           n == CHOOSE n \in hits : \A m \in hits : n <= m
<1>1. hits # {} /\ HoNextTarget(cil) = n
  BY DEF HoNextTarget
<1>2. DOMAIN cil = 1 .. Len(cil) /\ Len(cil) \in Nat
  OBVIOUS
<1>3. hits \subseteq Nat
  BY <1>2
<1>4. \E k \in hits : \A m \in hits : k <= m
  <2> HIDE DEF hits
  <2> QED BY <1>1, <1>3, LeastNat
<1>5. n \in hits
  BY <1>4
<1>6. n \in 1 .. Len(cil) /\ cil[n] \in HoEntries
      /\ HoFindTargetCell(cil[n]) # HoNone
  BY SMTT(30), <1>2, <1>5
<1> HIDE DEF n, hits
<1> QED BY <1>1, <1>6, FindTyped

\* msc_ho_send_handover_request() sends only through a role that is there.
LEMMA SendRequestKeeps ==
  ASSUME NEW w \in HoAStates, NEW b, NEW how, HoLinked(w, b), w.t # HoNone,
         w.h.ho = "WAIT_REQUEST_ACK"
  PROVE  HoGood(HoSendRequest(w, how), b)
<1> DEFINE x == [w EXCEPT !.tst = "WAIT_HO_REQUEST_ACK"]
           q == Append(w.out, "PREPARE_HO_REQUEST")
           y == [w EXCEPT !.out = q]
<1>1. HoGood(w, b)
  BY DEF HoGood
<1>2. HoGood(x, b)
  <2>1. /\ x \in HoAStates /\ x.i = w.i /\ x.t = w.t /\ x.out = w.out
           /\ x.h = w.h
        /\ x.abort = w.abort /\ x.asked = w.asked /\ x.st = w.st
    BY DEF HoAStates
  <2> HIDE DEF x
  <2> QED BY <2>1 DEF HoGood, HoLinked
<1>3. w.t = "remote" => HoGood(y, b)
  <2>0. q \in HoOuts
    BY SMTT(30), Pieces DEF HoOuts, HoMsgs
  <2> HIDE DEF q
  <2>1. /\ y \in HoAStates /\ y.i = w.i /\ y.t = w.t /\ y.h = w.h
        /\ y.abort = w.abort /\ y.asked = w.asked /\ y.st = w.st
    BY <2>0 DEF HoAStates
  <2> HIDE DEF y
  <2> QED BY <2>1 DEF HoGood, HoLinked
<1>4. HoGood(HoFailed(w), b)
  BY FailedKeeps
<1>5. \/ HoSendRequest(w, how) \in {w, x, HoFailed(w)}
      \/ w.t = "remote" /\ HoSendRequest(w, how) = y
  BY DEF HoSendRequest, HoSend, HoAStates
<1> HIDE DEF x, y
<1> QED BY <1>1, <1>2, <1>3, <1>4, <1>5

\* msc_ho_fsm_wait_request_ack_onenter() fails or creates an MSC-T.
LEMMA WaitRequestAckKeeps ==
  ASSUME NEW w \in HoAStates, NEW b, NEW how, HoLinked(w, b), w.h.new # HoNone,
         w.h.ho = "WAIT_REQUEST_ACK"
  PROVE  HoGood(HoWaitRequestAck(w, how), b)
<1>1. CASE w.t # HoNone \/ w.i = HoNone
  BY <1>1, FailedKeeps DEF HoWaitRequestAck
<1>2. CASE ~(w.t # HoNone \/ w.i = HoNone)
  <2> DEFINE x == [w EXCEPT !.t = w.h.new]
  <2>1. HoWaitRequestAck(w, how) = HoSendRequest(x, how)
    BY <1>2 DEF HoWaitRequestAck
  <2>2. x \in HoAStates /\ x.t = w.h.new /\ x.i = w.i /\ x.out = w.out
        /\ x.h = w.h
    BY Pieces DEF HoAStates
  <2> HIDE DEF x
  <2>3. HoLinked(x, b)
    BY <1>2, <2>2, HoAssumption DEF HoLinked
  <2> QED BY <2>1, <2>2, <2>3, SendRequestKeeps
<1> QED BY <1>1, <1>2

\* msc_ho_fsm_required_onenter() finds a target or fails.
LEMMA RequiredKeeps ==
  ASSUME NEW w \in HoAStates, NEW b, NEW how, HoLinked(w, b)
  PROVE  HoGood(HoRequired(w, how), b)
<1> DEFINE n == HoNextTarget(w.h.cil)
<1>1. CASE n = 0
  BY <1>1, FailedKeeps DEF HoRequired
<1>2. CASE n # 0
  <2> DEFINE c == HoFindTargetCell(w.h.cil[n])
             q == SubSeq(w.h.cil, n + 1, Len(w.h.cil))
             g == [w.h EXCEPT !.ho = "WAIT_REQUEST_ACK", !.new = c, !.cil = q]
             x == [w EXCEPT !.h = g]
  <2>0. w.h \in HoFsmT /\ w.h.cil \in Seq(HoEntries)
    BY Pieces
  <2>1. HoRequired(w, how) = HoWaitRequestAck(x, how)
    BY <1>2, <2>0 DEF HoRequired, HoAStates, HoFsmT
  <2>2. n \in 1 .. Len(w.h.cil) /\ c \in HoRoles \ {HoNone}
    BY <1>2, <2>0, NextTargetFound
  <2> HIDE DEF n, c
  <2>3. q \in Seq(HoEntries)
    BY SMTT(30), <2>0, <2>2
  <2> HIDE DEF q
  <2>4. g \in HoFsmT /\ g.ho = "WAIT_REQUEST_ACK" /\ g.new = c
    BY <2>0, <2>2, <2>3 DEF HoFsmT
  <2> HIDE DEF g
  <2>5. x \in HoAStates /\ x.h = g /\ x.i = w.i /\ x.t = w.t /\ x.out = w.out
    BY <2>4 DEF HoAStates
  <2> HIDE DEF x
  <2>6. HoLinked(x, b)
    BY <2>5 DEF HoLinked
  <2> QED BY ZenonT(60), <2>1, <2>2, <2>4, <2>5, <2>6, WaitRequestAckKeeps
<1> QED BY <1>1, <1>2

\* msc_ho_start() keeps the invariant.
LEMMA StartKeeps ==
  ASSUME NEW w, NEW b, HoGood(w, b), NEW cil \in Seq(HoEntries), NEW how
  PROVE  HoGood(HoStart(w, cil, how), b)
<1>1. CASE w.h.ho # "NONE" \/ cil = <<>> \/ w.t # HoNone
  BY <1>1 DEF HoStart
<1>2. CASE ~(w.h.ho # "NONE" \/ cil = <<>> \/ w.t # HoNone)
  <2> DEFINE g == [HoIdle EXCEPT !.ho = "REQUIRED", !.cil = cil]
             k == w.tries + 1
             x == [w EXCEPT !.h = g, !.asked = "yes", !.pre = w.rtp,
                 !.tries = k]
  <2>0. w \in HoAStates /\ w.rtp \in HoRtps /\ w.tries \in Nat
    BY Pieces DEF HoGood
  <2>1. HoStart(w, cil, how) = HoRequired(x, how)
    BY <1>2, <2>0 DEF HoStart, HoAStates
  <2>2. g \in HoFsmT
    BY HoIdleTyped DEF HoFsmT
  <2>3. k \in Nat
    BY <2>0
  <2> HIDE DEF g, k
  <2>4. x \in HoAStates /\ x.i = w.i /\ x.t = w.t /\ x.out = w.out
    BY <2>0, <2>2, <2>3 DEF HoAStates
  <2> HIDE DEF x
  <2>5. HoLinked(x, b)
    BY <2>4 DEF HoLinked, HoGood
  <2> QED BY <2>1, <2>4, <2>5, RequiredKeeps
<1> QED BY <1>1, <1>2

\* msc_ho_start_inter_msc_call_forwarding() changes a call and the FSM.
LEMMA ForwardKeeps ==
  ASSUME NEW w \in HoAStates, NEW k \in HoCallIds
  PROVE  HoNear(HoForward(w, k), w)
<1> DEFINE r == [st |-> "UP", rtps |-> TRUE, par |-> "ho"]
           g == [w.h EXCEPT !.old = w.rtp, !.fwd = k]
           x == [w EXCEPT !.h = g]
<1>1. HoForward(w, k) = [x EXCEPT !.calls[k] = r]
  BY DEF HoForward, HoAStates
<1>2. r \in HoCallT
  BY DEF HoCallT
<1>3. w.h \in HoFsmT /\ w.rtp \in HoRtps
  BY Pieces
<1>4. g \in HoFsmT /\ g.ho = w.h.ho /\ g.new = w.h.new
  BY <1>3 DEF HoFsmT, HoIds
<1> HIDE DEF g, r
<1>5. HoNear(x, w)
  BY <1>4, FsmPut
<1> HIDE DEF x
<1>6. x \in HoAStates
  BY <1>5 DEF HoNear
<1>7. HoAlike([x EXCEPT !.calls[k] = r], x)
  BY <1>2, <1>6, CallPut
<1> QED BY ZenonT(60), <1>1, <1>5, <1>7, AlikeNear, NearNear

\* The messages an MSC-T passes up to MSC-A.
HoUpMsgs ==
  [msg : {"REQUEST_ACK"}, ie : BOOLEAN, rtp : BOOLEAN]
    \cup [msg : {"FAILURE", "DETECT", "COMPLETE", "CLEAR_REQUEST"}]

\* The forwarding call is within the bound.
HoHasFree(w) == \E k \in HoCallIds : w.calls[k].st = "FREE"

\* msc_ho_rx_request_ack() answers before it waits for the completion.
LEMMA RxRequestAckKeeps ==
  ASSUME NEW w, NEW b, HoGood(w, b), w.h.ho = "WAIT_REQUEST_ACK", NEW m,
         m.rtp \in BOOLEAN, w.t = "remote" => HoHasFree(w)
  PROVE  HoGood(HoRxRequestAck(w, m), b)
<1> DEFINE free == {k \in HoCallIds : w.calls[k].st = "FREE"}
           w1 == IF w.t = "remote"
               THEN HoForward(w, CHOOSE k \in free : TRUE) ELSE w
           g2 == [w1.h EXCEPT !.ho = "WAIT_COMPLETE"]
           w2 == [w1 EXCEPT !.h = g2]
           g3 == [w2.h EXCEPT !.newRtp = m.rtp]
           w3 == [w2 EXCEPT !.asked = "no", !.h = g3]
<1>0. w \in HoAStates /\ HoLinked(w, b)
  BY DEF HoGood
<1>1. HoNear(w1, w)
  <2>1. CASE w.t = "remote"
    <3>1. (CHOOSE k \in free : TRUE) \in HoCallIds
      BY <2>1 DEF HoHasFree
    <3> QED BY <1>0, <2>1, <3>1, ForwardKeeps
  <2>2. CASE w.t # "remote"
    BY <1>0, <2>2, NearSelf
  <2> QED BY <2>1, <2>2
<1>2. w1 \in HoAStates /\ w1.h \in HoFsmT
  BY <1>1, Pieces DEF HoNear
<1>3. HoRxRequestAck(w, m) \in {HoFailed(w), HoRequired(w, "ok"),
      HoFailed(w2), w3}
  <2>1. w2 = [w1 EXCEPT !.h.ho = "WAIT_COMPLETE"]
    BY <1>2 DEF HoAStates
  <2>2. w3 = [w2 EXCEPT !.asked = "no", !.h.newRtp = m.rtp]
    BY SMTT(30), <1>2 DEF HoAStates
  <2> QED BY <2>1, <2>2 DEF HoRxRequestAck
<1> HIDE DEF w1
<1>4. g2 \in HoFsmT /\ g2.ho = "WAIT_COMPLETE"
  BY <1>2 DEF HoFsmT
<1> HIDE DEF g2
<1>5. w2 \in HoAStates /\ w2.h = g2 /\ w2.i = w1.i /\ w2.t = w1.t
      /\ w2.out = w1.out
  BY <1>2, <1>4 DEF HoAStates
<1> HIDE DEF w2
<1>6. HoLinked(w2, b)
  BY <1>0, <1>1, <1>5 DEF HoLinked, HoNear
<1>7. g3 \in HoFsmT /\ g3.ho = "WAIT_COMPLETE"
  BY <1>4, <1>5 DEF HoFsmT
<1> HIDE DEF g3
<1>8. /\ w3 \in HoAStates /\ w3.h = g3 /\ w3.i = w2.i /\ w3.t = w2.t
         /\ w3.out = w2.out
      /\ w3.asked = "no"
  BY <1>5, <1>7 DEF HoAStates
<1> HIDE DEF w3
<1>9. HoGood(w3, b)
  BY <1>6, <1>7, <1>8 DEF HoGood, HoLinked
<1> QED BY ZenonT(60), <1>0, <1>3, <1>5, <1>6, <1>9, FailedKeeps, RequiredKeeps

\* msc_ho_rtp_switch_to_new_cell() keeps all but the RTP.
LEMMA RtpSwitchKeeps ==
  ASSUME NEW w \in HoAStates
  PROVE  HoNear(HoRtpSwitch(w), w)
<1>1. CASE w.rtp = "none" \/ ~w.h.newRtp \/ w.h.switched
  BY <1>1, NearSelf DEF HoRtpSwitch
<1>2. CASE ~(w.rtp = "none" \/ ~w.h.newRtp \/ w.h.switched)
  <2> DEFINE x == HoDetachRtp(w, w.cc)
             g == [x.h EXCEPT !.switched = TRUE, !.old = w.rtp]
             y == [x EXCEPT !.h = g]
             z == [y EXCEPT !.rtp = w.h.new]
  <2>0. w.cc \in HoIds /\ w.rtp \in HoRtps /\ w.h.new \in HoRtps
    BY Pieces DEF HoRtps
  <2>1. HoNear(x, w)
    BY <2>0, DetachRtpKeeps
  <2>2. HoRtpSwitch(w)
        = [x EXCEPT !.h.switched = TRUE, !.h.old = w.rtp, !.rtp = w.h.new]
    BY <1>2 DEF HoRtpSwitch
  <2> HIDE DEF x
  <2>3. x \in HoAStates /\ x.h \in HoFsmT
    BY <2>1, Pieces DEF HoNear
  <2>4. HoRtpSwitch(w) = z
    BY <2>2, <2>3 DEF HoAStates
  <2>5. g \in HoFsmT /\ g.ho = x.h.ho /\ g.new = x.h.new
    BY ZenonT(60), <2>0, <2>3 DEF HoFsmT
  <2> HIDE DEF g
  <2>6. HoNear(y, x)
    BY <2>3, <2>5, FsmPut
  <2> HIDE DEF y
  <2>7. HoNear(z, y)
    BY <2>0, <2>6, RtpPut DEF HoNear
  <2> HIDE DEF z
  <2> QED BY <2>1, <2>4, <2>6, <2>7, NearNear
<1> QED BY <1>1, <1>2

\* The handover FSM keeps the invariant whatever message comes up.
LEMMA UpKeeps ==
  ASSUME NEW w, NEW b, HoGood(w, b), ~w.abort, NEW m \in HoUpMsgs,
         m.msg = "REQUEST_ACK" /\ w.t = "remote" => HoHasFree(w)
  PROVE  HoGood(HoUp(w, m), b)
<1>0. w \in HoAStates /\ HoLinked(w, b)
  BY DEF HoGood
<1>1. CASE w.st # "COMMUNICATING" \/ w.h.ho = "NONE" \/ w.t = HoNone
  BY <1>1 DEF HoUp
<1>2. CASE ~(w.st # "COMMUNICATING" \/ w.h.ho = "NONE" \/ w.t = HoNone)
  <2>1. CASE m.msg = "REQUEST_ACK" /\ w.h.ho = "WAIT_REQUEST_ACK"
    <3>1. m.rtp \in BOOLEAN
      BY <2>1 DEF HoUpMsgs
    <3>2. HoUp(w, m) = HoRxRequestAck(w, m)
      BY <1>2, <2>1 DEF HoUp
    <3> QED BY SMTT(30), <2>1, <3>1, <3>2, RxRequestAckKeeps
  <2>2. CASE m.msg = "FAILURE"
    <3>1. HoUp(w, m) = HoFailed(w)
      BY <1>2, <2>2 DEF HoUp
    <3> QED BY <1>0, <3>1, FailedKeeps
  <2>3. CASE m.msg = "DETECT" /\ w.h.ho = "WAIT_COMPLETE"
    <3> DEFINE x == IF w.h.new # "remote" THEN HoRtpSwitch(w) ELSE w
    <3>1. HoUp(w, m) = HoRxDetect(w)
      BY <1>2, <2>3 DEF HoUp
    <3>2. HoNear(x, w)
      BY <1>0, RtpSwitchKeeps, NearSelf
    <3>3. HoRxDetect(w) \in {x, HoFailed(x)}
      BY DEF HoRxDetect
    <3> HIDE DEF x
    <3>4. HoGood(x, b) /\ x \in HoAStates /\ HoLinked(x, b)
      BY <3>2, NearGood, NearLinked, <1>0
    <3> QED BY <3>1, <3>3, <3>4, FailedKeeps
  <2>4. CASE m.msg = "COMPLETE" /\ w.h.ho = "WAIT_COMPLETE"
    <3>1. HoUp(w, m) = HoSuccess(w)
      BY <1>2, <2>4 DEF HoUp
    <3>2. w.asked # "yes" /\ w.t # HoNone
      BY <1>2, <2>4 DEF HoGood
    <3> QED BY <3>1, <3>2, SuccessKeeps
  <2>5. CASE /\ ~(m.msg = "REQUEST_ACK" /\ w.h.ho = "WAIT_REQUEST_ACK")
             /\ m.msg # "FAILURE"
             /\ ~(m.msg = "DETECT" /\ w.h.ho = "WAIT_COMPLETE")
             /\ ~(m.msg = "COMPLETE" /\ w.h.ho = "WAIT_COMPLETE")
    <3>1. HoUp(w, m) = w
      BY <1>2, <2>5 DEF HoUp
    <3> QED BY <3>1
  <2> QED BY ZenonT(60), <2>1, <2>2, <2>3, <2>4, <2>5
<1> QED BY <1>1, <1>2

\* After the msub is gone nothing is left to be said of MSC-A.
LEMMA GoneGood ==
  ASSUME NEW v, NEW w, NEW b, HoGone(v, w, b)
  PROVE  HoGood(v, b)
BY HoIdleTyped DEF HoGone, HoGood

\* An MSC-T that goes before the handover keeps the invariant.
LEMMA TGoneGood ==
  ASSUME NEW w, NEW b, HoGood(w, b)
  PROVE  HoGood(HoTGone(w), b)
<1>1. HoTLeft(HoTGone(w), w, b)
  BY TGoneKeeps DEF HoGood
<1>2. CASE HoGone(HoTGone(w), w, b)
  BY <1>2, GoneGood
<1>3. CASE ~HoGone(HoTGone(w), w, b)
  BY <1>1, <1>3 DEF HoTLeft, HoGood
<1> QED BY <1>2, <1>3

\* msc_t_clear() keeps the invariant.
LEMMA TDiesKeeps ==
  ASSUME NEW w, NEW b, HoGood(w, b), ~w.abort
  PROVE  HoGood(HoTDies(w), b)
<1> DEFINE m == [msg |-> "FAILURE"]
<1>1. m \in HoUpMsgs /\ m.msg # "REQUEST_ACK"
  BY DEF HoUpMsgs
<1> HIDE DEF m
<1>2. HoGood(HoUp(w, m), b)
  BY <1>1, UpKeeps
<1> QED BY <1>2, TGoneGood DEF HoTDies, m

\* So do the messages to a local MSC-T.
LEMMA TRxKeeps ==
  ASSUME NEW w, NEW b, HoGood(w, b), ~w.abort, NEW m \in HoUpMsgs,
         w.t # "remote"
  PROVE  HoGood(HoTRx(w, m), b)
<1> DEFINE x == HoUp(w, m)
           y == [x EXCEPT !.tst = "WAIT_HO_COMPLETE"]
<1>1. HoGood(x, b)
  BY UpKeeps
<1>2. HoTRx(w, m) \in {w, x, y, HoTDies(w)}
  BY DEF HoTRx
<1> HIDE DEF x
<1>3. /\ y \in HoAStates /\ y.i = x.i /\ y.t = x.t /\ y.out = x.out
         /\ y.h = x.h
      /\ y.abort = x.abort /\ y.asked = x.asked /\ y.st = x.st
  BY <1>1 DEF HoGood, HoAStates
<1> HIDE DEF y
<1>4. HoGood(y, b)
  BY <1>1, <1>3 DEF HoGood, HoLinked
<1> QED BY <1>1, <1>2, <1>4, TDiesKeeps

-----------------------------------------------------------------------------
(* The steps of MSC-A.                                                     *)

\* What MSC-B sends on the E link.
HoBMsgs ==
  [msg : {"REQUEST_ACK"}, ie : BOOLEAN, rtp : BOOLEAN]
    \cup [msg : {"FAILURE", "DETECT", "COMPLETE", "CLOSE"}]
    \cup [msg : {"SUBSEQUENT"}, cil : HoLists]
HoBOuts == Seq(HoBMsgs)

\* The values of MSC-B.
HoBStates ==
  [a : BOOLEAN, i : BOOLEAN, crash : BOOLEAN, leg : {"none", "setup", "ready"},
   t : {"WAIT_LOCAL_RTP", "WAIT_HO_REQUEST_ACK", "WAIT_HO_COMPLETE", HoNone},
   num : 0 .. HoRange, call : {"none", "up"}, out : HoBOuts]

\* MSC-B has nothing of the subscriber, or has crashed.
HoEnded(w) == w.crash \/ ~w.a

\* The inductive invariant.
HoIInv ==
  /\ HoGood(hoA, HoEnded(hoB))
  /\ hoB \in HoBStates
  /\ hoNums \in [next : Int, taken : SUBSET Int]
  /\ hoB.num # 0 => hoB.num \notin hoNums.taken

\* What a step of MSC-A alone has to keep.
LEMMA ABecomeInv ==
  ASSUME HoIInv, NEW v, HoGood(v, HoEnded(hoB)), HoABecome(v)
  PROVE  HoIInv'
<1>1. hoA' = v /\ hoB' = hoB /\ hoNums' = hoNums
  BY DEF HoABecome
<1> QED BY <1>1 DEF HoIInv, HoEnded

\* The messages of the PBX keep the invariant of MSC-A.
LEMMA CallSteps ==
  ASSUME NEW w, NEW b, HoGood(w, b), NEW k \in HoCallIds
  PROVE  HoGood(HoCallRtpConnect(w, k), b) /\ HoGood(HoCallEnd(w, k), b)
<1>0. w \in HoAStates /\ "fwd" \in HoRtps /\ HoNone \in HoIds
  BY DEF HoGood, HoRtps, HoIds
<1>1. HoGood(HoCallRtpConnect(w, k), b)
  <2> DEFINE x == IF w.calls[k].rtps THEN [w EXCEPT !.rtp = "fwd"] ELSE w
             g == [x.h EXCEPT !.switched = TRUE]
             y == [x EXCEPT !.h = g]
             z == [x EXCEPT !.pre = "fwd"]
  <2>1. HoNear(x, w)
    BY <1>0, RtpPut, NearSelf
  <2>2. x \in HoAStates /\ x.h \in HoFsmT
    BY <2>1, Pieces DEF HoNear
  <2>3. HoCallRtpConnect(w, k) \in {x, y, z}
    <3>1. y = [x EXCEPT !.h.switched = TRUE]
      BY <2>2 DEF HoAStates
    <3> QED BY <3>1 DEF HoCallRtpConnect
  <2> HIDE DEF x
  <2>4. g \in HoFsmT /\ g.ho = x.h.ho /\ g.new = x.h.new
    BY <2>2 DEF HoFsmT
  <2> HIDE DEF g
  <2>5. HoNear(y, x)
    BY <2>2, <2>4, FsmPut
  <2>6. HoNear(z, x)
    BY <1>0, <2>2 DEF HoNear, HoAStates
  <2> HIDE DEF y, z
  <2> QED BY SMTT(30), <2>1, <2>3, <2>5, <2>6, NearNear, NearGood
<1>2. HoGood(HoCallEnd(w, k), b)
  <2> DEFINE x == HoCallCleanup(w, k)
             y == [x EXCEPT !.cc = HoNone]
  <2>1. HoGood(x, b) /\ x \in HoAStates /\ HoLinked(x, b)
    BY <1>0, CallCleanupKeeps, AlikeNear, NearGood DEF HoGood
  <2>2. HoCallEnd(w, k) \in {x, y, HoFailed(x)}
    BY DEF HoCallEnd
  <2> HIDE DEF x
  <2>3. HoNear(y, x)
    BY <1>0, <2>1 DEF HoNear, HoAStates
  <2> HIDE DEF y
  <2> QED BY ZenonT(60), <2>1, <2>2, <2>3, NearGood, FailedKeeps
<1> QED BY <1>1, <1>2

\* T-3 takes the handover away and leaves nobody waiting but the expired.
LEMMA ExpireKeeps ==
  ASSUME NEW w, NEW b, HoGood(w, b)
  PROVE  HoGood(HoExpire(w), b)
<1> DEFINE x == HoTerm(w)
           e == IF x.asked = "yes" THEN "expired" ELSE x.asked
           v == [x EXCEPT !.asked = e]
<1>1. HoExpire(w) = v
  BY DEF HoExpire
<1>2. HoOver(x, w, b)
  BY TermKeeps DEF HoGood
<1> HIDE DEF x
<1>3. e \in {"no", "expired"}
  BY <1>2 DEF HoOver, HoAStates
<1> HIDE DEF e
<1>4. v \in HoAStates /\ v.t = x.t /\ v.h = x.h /\ v.i = x.i /\ v.out = x.out
      /\ v.asked = e
  BY <1>2, <1>3 DEF HoOver, HoAStates
<1> HIDE DEF v
<1>5. HoGood(v, b)
  BY <1>2, <1>3, <1>4 DEF HoOver, HoGood, HoLinked
<1> QED BY <1>1, <1>5

\* msub_check_for_release() keeps the invariant.
LEMMA CheckReleaseGood ==
  ASSUME NEW w, NEW b, HoGood(w, b)
  PROVE  HoGood(HoCheckRelease(w), b)
<1>1. HoCheckRelease(w) = w \/ HoGone(HoCheckRelease(w), w, b)
  BY CheckReleaseKeeps DEF HoGood
<1> QED BY <1>1, GoneGood

\* msc_i_remote_rx_gsup(): a CLOSE is answered with a CLOSE.
LEMMA IRemoteRxKeeps ==
  ASSUME NEW w, NEW b, HoGood(w, b), NEW m \in HoBMsgs
  PROVE  HoGood(HoIRemoteRx(w, m), b)
<1> DEFINE q == Append(w.out, "CLOSE")
           x == [w EXCEPT !.out = q, !.i = HoNone]
<1>0. w \in HoAStates /\ HoNone \in HoRoles /\ w.out \in HoOuts
  BY Pieces DEF HoGood, HoRoles
<1>1. q \in HoOuts /\ q # <<>> /\ q[Len(q)] = "CLOSE"
  BY <1>0, SendClose
<1>2. [HoSend(w, "CLOSE") EXCEPT !.i = HoNone] = x
  BY <1>0 DEF HoSend, HoAStates
<1> HIDE DEF q
<1>3. /\ x \in HoAStates /\ x.t = w.t /\ x.h = w.h /\ x.out = q
         /\ x.asked = w.asked
      /\ x.abort = w.abort /\ x.st = w.st
  BY <1>0, <1>1 DEF HoAStates
<1> HIDE DEF x
<1>4. HoGood(x, b)
  BY <1>1, <1>3 DEF HoGood, HoLinked
<1>5. CASE m.msg = "SUBSEQUENT" /\ w.st = "COMMUNICATING"
  <2>1. HoIRemoteRx(w, m) = HoStart(w, m.cil, "ok")
    BY <1>5 DEF HoIRemoteRx
  <2>2. m.cil \in Seq(HoEntries)
    BY <1>5, HoAssumption DEF HoBMsgs
  <2> QED BY <2>1, <2>2, StartKeeps
<1>6. CASE m.msg = "CLOSE"
  <2>1. HoIRemoteRx(w, m) = HoCheckRelease(x)
    BY <1>2, <1>6 DEF HoIRemoteRx
  <2> QED BY <1>4, <2>1, CheckReleaseGood
<1>7. CASE ~(m.msg = "SUBSEQUENT" /\ w.st = "COMMUNICATING") /\ m.msg # "CLOSE"
  <2>1. HoIRemoteRx(w, m) = w
    BY <1>7 DEF HoIRemoteRx
  <2> QED BY <2>1
<1> QED BY <1>5, <1>6, <1>7

\* msc_t_remote_rx_gsup(): an MSC-T that is told CLOSE says CLOSE.
LEMMA TRemoteRxKeeps ==
  ASSUME NEW w, NEW b, HoGood(w, b), ~w.abort, NEW m \in HoBMsgs,
         m.msg = "REQUEST_ACK" => HoHasFree(w)
  PROVE  HoGood(HoTRemoteRx(w, m), b)
<1>1. CASE m.msg = "CLOSE"
  <2>1. HoTRemoteRx(w, m) = HoTGone(w)
    BY <1>1 DEF HoTRemoteRx
  <2> QED BY <2>1, TGoneGood
<1>2. CASE m.msg = "SUBSEQUENT"
  <2>1. HoTRemoteRx(w, m) = w
    BY <1>2 DEF HoTRemoteRx
  <2> QED BY <2>1
<1>3. CASE m.msg # "CLOSE" /\ m.msg # "SUBSEQUENT"
  <2>1. HoTRemoteRx(w, m) = HoUp(w, m)
    BY <1>3 DEF HoTRemoteRx
  <2>2. m \in HoUpMsgs
    BY <1>3 DEF HoBMsgs, HoUpMsgs
  <2> QED BY <2>1, <2>2, UpKeeps
<1> QED BY <1>1, <1>2, <1>3

\* msc_a_i_t_gsup_rx() at MSC-A keeps the invariant.
LEMMA GsupRxKeeps ==
  ASSUME NEW w, NEW b, HoGood(w, b), ~w.abort, NEW m \in HoBMsgs,
         m.msg = "REQUEST_ACK" => HoHasFree(w)
  PROVE  HoGood(HoGsupRx(w, m), b)
BY IRemoteRxKeeps, TRemoteRxKeeps DEF HoGsupRx

\* The actions of MSC-A that begin and advance a handover keep the invariant.
LEMMA AStarts ==
  ASSUME HoIInv,
         \/ \E cil \in HoLists,
             how \in {"ok", "enc", "tx"} : HoRxRequired(cil, how)
         \/ \E m \in HoTMessages : HoTRan(m)
         \/ HoTReleased
  PROVE  HoIInv'
<1> DEFINE b == HoEnded(hoB)
<1>0. HoGood(hoA, b)
  BY DEF HoIInv
<1>1. CASE \E cil \in HoLists,
           how \in {"ok", "enc", "tx"} : HoRxRequired(cil, how)
  <2>1. PICK cil \in HoLists,
             how \in {"ok", "enc", "tx"} : HoRxRequired(cil, how)
    BY <1>1
  <2>2. HoABecome(HoStart(hoA, cil, how)) /\ cil \in Seq(HoEntries)
    BY <2>1, HoAssumption DEF HoRxRequired
  <2>3. HoGood(HoStart(hoA, cil, how), b)
    BY <1>0, <2>2, StartKeeps
  <2> QED BY <2>2, <2>3, ABecomeInv
<1>2. CASE \E m \in HoTMessages : HoTRan(m)
  <2>1. PICK m \in HoTMessages : HoTRan(m)
    BY <1>2
  <2>2. m \in HoUpMsgs /\ HoABecome(HoTRx(hoA, m)) /\ ~hoA.abort
        /\ hoA.t # "remote"
    BY <2>1, HoAssumption DEF HoTRan, HoRunning, HoTMessages, HoUpMsgs
  <2>3. HoGood(HoTRx(hoA, m), b)
    BY <1>0, <2>2, TRxKeeps
  <2> QED BY <2>2, <2>3, ABecomeInv
<1>3. CASE HoTReleased
  <2>1. HoABecome(HoTDies(hoA)) /\ ~hoA.abort
    BY <1>3 DEF HoTReleased, HoRunning
  <2>2. HoGood(HoTDies(hoA), b)
    BY <1>0, <2>1, TDiesKeeps
  <2> QED BY <2>1, <2>2, ABecomeInv
<1> QED BY <1>1, <1>2, <1>3

\* So do the releases, T-3 and the forwarding calls.
LEMMA AEnds ==
  ASSUME HoIInv,
         \/ HoIReleased \/ HoARelease \/ HoAReleased \/ HoTimeout
         \/ \E c \in HoCells : HoICleared(c)
         \/ \E k \in HoCallIds : HoMnccRx(k)
  PROVE  HoIInv'
<1> DEFINE b == HoEnded(hoB)
<1>0. HoGood(hoA, b) /\ hoA \in HoAStates
  BY DEF HoIInv, HoGood
<1>1. CASE HoIReleased
  <2> DEFINE x == [hoA EXCEPT !.i = HoNone]
  <2>1. HoABecome(HoCheckRelease(x)) /\ hoA.i # "remote"
    BY <1>1, HoAssumption DEF HoIReleased
  <2>2. /\ x \in HoAStates /\ x.t = hoA.t /\ x.h = hoA.h /\ x.out = hoA.out
        /\ x.asked = hoA.asked /\ x.abort = hoA.abort /\ x.st = hoA.st
    BY <1>0 DEF HoAStates, HoRoles
  <2> HIDE DEF x
  <2>3. HoGood(x, b)
    BY <1>0, <2>1, <2>2 DEF HoGood, HoLinked
  <2>4. HoGood(HoCheckRelease(x), b)
    BY <2>3, CheckReleaseGood
  <2> QED BY <2>1, <2>4, ABecomeInv
<1>2. CASE HoARelease
  <2>1. HoABecome(HoReleasing(hoA))
    BY <1>2 DEF HoARelease
  <2>2. HoGood(HoReleasing(hoA), b)
    BY ZenonT(60), <1>0, ReleasingKeeps, AlikeNear, NearGood
  <2> QED BY <2>1, <2>2, ABecomeInv
<1>3. CASE HoAReleased
  <2>1. HoABecome(HoAGone(hoA))
    BY <1>3 DEF HoAReleased
  <2>2. HoGood(HoAGone(hoA), b)
    BY <1>0, AGoneKeeps, GoneGood DEF HoGood
  <2> QED BY <2>1, <2>2, ABecomeInv
<1>4. CASE HoTimeout
  <2>1. HoABecome(HoExpire(hoA))
    BY <1>4 DEF HoTimeout
  <2>2. HoGood(HoExpire(hoA), b)
    BY <1>0, ExpireKeeps
  <2> QED BY <2>1, <2>2, ABecomeInv
<1>5. CASE \E c \in HoCells : HoICleared(c)
  <2>0. PICK c \in HoCells : HoICleared(c)
    BY <1>5
  <2> DEFINE s == hoA.clearing \ {c}
             x == [hoA EXCEPT !.clearing = s]
  <2>1. HoABecome(HoCheckRelease(x))
    BY <2>0 DEF HoICleared
  <2>2. s \in SUBSET HoCells
    BY <1>0, Pieces
  <2> HIDE DEF s
  <2>3. HoNear(x, hoA)
    BY <1>0, <2>2 DEF HoAStates, HoNear
  <2> HIDE DEF x
  <2>4. HoGood(HoCheckRelease(x), b)
    BY <1>0, <2>3, NearGood, CheckReleaseGood
  <2> QED BY <2>1, <2>4, ABecomeInv
<1>6. CASE \E k \in HoCallIds : HoMnccRx(k)
  <2>0. PICK k \in HoCallIds : HoMnccRx(k)
    BY <1>6
  <2>1. HoABecome(HoCallRtpConnect(hoA, k)) \/ HoABecome(HoCallEnd(hoA, k))
    BY <2>0 DEF HoMnccRx
  <2>2. HoGood(HoCallRtpConnect(hoA, k), b) /\ HoGood(HoCallEnd(hoA, k), b)
    BY <1>0, CallSteps
  <2> QED BY <2>1, <2>2, ABecomeInv
<1> QED BY ZenonT(60), <1>1, <1>2, <1>3, <1>4, <1>5, <1>6

\* So does what MSC-A gets from MSC-B.
LEMMA DeliverAStep ==
  ASSUME HoIInv, HoDeliverA
  PROVE  HoIInv'
<1> DEFINE m == Head(hoB.out)
           v == HoGsupRx(hoA, m)
           q == Tail(hoB.out)
<1>1. /\ HoRunning /\ hoB.out # <<>> /\ hoA' = v
         /\ hoB' = [hoB EXCEPT !.out = q]
      /\ hoNums' = hoNums /\ (m.msg = "REQUEST_ACK" => HoHasFree(hoA))
  BY DEF HoDeliverA, HoHasFree
<1>2. hoB \in HoBStates /\ hoB.out \in Seq(HoBMsgs)
  BY DEF HoIInv, HoBStates, HoBOuts
<1>3. m \in HoBMsgs /\ q \in HoBOuts
  BY SMTT(30), <1>1, <1>2 DEF HoBOuts
<1>4. HoGood(v, HoEnded(hoB))
  BY <1>1, <1>3, GsupRxKeeps DEF HoIInv, HoRunning
<1> HIDE DEF m, v, q
<1>5. /\ hoB' \in HoBStates /\ hoB'.num = hoB.num /\ hoB'.crash = hoB.crash
      /\ hoB'.a = hoB.a
  BY <1>1, <1>2, <1>3 DEF HoBStates
<1>6. HoEnded(hoB)' = HoEnded(hoB)
  BY <1>5 DEF HoEnded
<1>7. HoGood(hoA', HoEnded(hoB)')
  BY <1>1, <1>4, <1>6
<1> QED BY <1>1, <1>5, <1>7 DEF HoIInv

-----------------------------------------------------------------------------
(* The steps of MSC-B.                                                     *)

\* MSC-B may end at any time.
LEMMA LinkedMore ==
  ASSUME NEW w, NEW b, NEW c, HoGood(w, b), b => c
  PROVE  HoGood(w, c)
BY DEF HoGood, HoLinked

\* The messages of MSC-B have their types.
LEMMA BMessages ==
  /\ [msg |-> "FAILURE"] \in HoBMsgs /\ [msg |-> "DETECT"] \in HoBMsgs
  /\ [msg |-> "COMPLETE"] \in HoBMsgs /\ [msg |-> "CLOSE"] \in HoBMsgs
  /\ \A ie \in BOOLEAN : [msg |-> "REQUEST_ACK", ie |-> ie,
      rtp |-> FALSE] \in HoBMsgs
  /\ \A cil \in HoLists : [msg |-> "SUBSEQUENT", cil |-> cil] \in HoBMsgs
BY DEF HoBMsgs

\* MSC-B goes on: it takes no number, and stays ended if it had.
HoBMoved(v, w) ==
  /\ v \in HoBStates /\ v.num \in {0, w.num}
  /\ HoEnded(w) => HoEnded(v)

\* Sending, and ending after having sent.
LEMMA BSendKeeps ==
  ASSUME NEW w \in HoBStates, NEW m \in HoBMsgs
  PROVE  /\ HoBMoved(HoBSend(w, m), w) /\ HoBMoved(HoBGone(HoBSend(w, m)), w)
         /\ ~HoBGone(HoBSend(w, m)).a
         /\ HoBSend(w, m) = [w EXCEPT !.out = Append(w.out, m)]
         /\ HoBSend(w, m).num = w.num
<1> DEFINE q == Append(w.out, m)
           x == [w EXCEPT !.out = q]
           y == [HoBEmpty EXCEPT !.out = q]
<1>1. HoBSend(w, m) = x
  BY DEF HoBSend, HoBStates
<1>2. q \in HoBOuts
  BY SMTT(30) DEF HoBStates, HoBOuts
<1>3. HoBGone(x) = y
  BY DEF HoBGone, HoBStates
<1> HIDE DEF q
<1>4. HoBMoved(x, w) /\ x.num = w.num
  BY <1>2 DEF HoBStates, HoBMoved, HoEnded
<1>5. 0 \in 0 .. HoRange
  BY HoAssumption
<1>6. y \in HoBStates /\ y.num = 0 /\ y.a = FALSE
  BY <1>2, <1>5 DEF HoBEmpty, HoBStates
<1> HIDE DEF x, y
<1>7. HoBMoved(y, w)
  BY <1>6 DEF HoBMoved, HoEnded
<1> QED BY ZenonT(60), <1>1, <1>3, <1>4, <1>6, <1>7 DEF x, q

\* The end of the msub at MSC-B.
LEMMA BGoneKeeps ==
  ASSUME NEW w \in HoBStates
  PROVE  HoBMoved(HoBGone(w), w)
<1> DEFINE y == HoBGone(w)
<1>1. 0 \in 0 .. HoRange
  BY HoAssumption
<1>2. y \in HoBStates /\ y.num = 0 /\ y.a = FALSE
  BY <1>1 DEF HoBEmpty, HoBStates, HoBGone
<1> HIDE DEF y
<1>3. HoBMoved(y, w)
  BY <1>2 DEF HoBMoved, HoEnded
<1> QED BY <1>3 DEF y

\* What a step of MSC-B alone has to keep.
LEMMA BBecomeInv ==
  ASSUME HoIInv, NEW v, HoBMoved(v, hoB), hoA' = hoA, hoB' = v,
         hoNums' = hoNums
  PROVE  HoIInv'
<1>1. HoEnded(hoB) => HoEnded(hoB)'
  BY DEF HoBMoved, HoEnded
<1>2. HoGood(hoA, HoEnded(hoB)')
  BY SMTT(30), <1>1, LinkedMore DEF HoIInv
<1> QED BY <1>2 DEF HoIInv, HoBMoved

\* MSC_EV_CALL_LEG_TERM at MSC-B.
LEMMA BLegTermKeeps ==
  ASSUME NEW w \in HoBStates
  PROVE  HoBMoved(HoBLegTerm(w), w)
<1> DEFINE x == [w EXCEPT !.leg = "none", !.call = "none"]
<1>1. HoBMoved(x, w)
  BY DEF HoBMoved, HoBStates, HoEnded
<1>2. HoBLegTerm(w) \in {x, HoBTDies(w)}
  BY DEF HoBLegTerm
<1> HIDE DEF x
<1>3. HoBMoved(HoBTDies(w), w)
  BY BSendKeeps, BMessages DEF HoBTDies
<1> QED BY <1>1, <1>2, <1>3

\* The actions of MSC-B keep the invariant.
LEMMA BSteps ==
  ASSUME HoIInv,
         \/ HoBRtp \/ HoBMgwFails \/ HoBFailure \/ HoBDetect \/ HoBComplete
             \/ HoBReleased
         \/ \E cil \in HoLists : HoBRequired(cil)
         \/ HoBMnccSetup \/ HoBMnccEnd
  PROVE  HoIInv'
<1>0. hoB \in HoBStates
  BY DEF HoIInv
<1>1. CASE HoBRtp
  <2> DEFINE v == [hoB EXCEPT !.t = "WAIT_HO_REQUEST_ACK", !.leg = "ready"]
  <2>1. hoA' = hoA /\ hoB' = v /\ hoNums' = hoNums
    BY <1>1 DEF HoBRtp, HoBBecome
  <2>2. HoBMoved(v, hoB)
    BY <1>0 DEF HoBMoved, HoBStates, HoEnded
  <2> HIDE DEF v
  <2> QED BY <2>1, <2>2, BBecomeInv
<1>2. CASE HoBMgwFails \/ HoBMnccEnd
  <2>1. hoA' = hoA /\ hoB' = HoBLegTerm(hoB) /\ hoNums' = hoNums
    BY <1>2 DEF HoBMgwFails, HoBMnccEnd, HoBBecome
  <2> QED BY <1>0, <2>1, BLegTermKeeps, BBecomeInv
<1>3. CASE HoBFailure \/ HoBDetect \/ \E cil \in HoLists : HoBRequired(cil)
  <2>1. PICK m \in HoBMsgs : hoA' = hoA /\ hoB' = HoBSend(hoB, m)
             /\ hoNums' = hoNums
    BY <1>3, BMessages DEF HoBFailure, HoBDetect, HoBRequired, HoBBecome
  <2> QED BY ZenonT(60), <1>0, <2>1, BSendKeeps, BBecomeInv
<1>4. CASE HoBComplete
  <2> DEFINE x == HoBSend(hoB, [msg |-> "COMPLETE"])
             y == [x EXCEPT !.crash = TRUE]
             z == [x EXCEPT !.i = TRUE, !.t = HoNone, !.num = 0]
             v == IF x.call = "none" THEN y ELSE z
  <2>1. hoA' = hoA /\ hoB' = v /\ hoNums' = hoNums
    BY <1>4 DEF HoBComplete, HoBBecome
  <2>2. HoBMoved(x, hoB)
    BY <1>0, BSendKeeps, BMessages
  <2> HIDE DEF x
  <2>3. 0 \in 0 .. HoRange
    BY SMTT(30), HoAssumption
  <2>4. HoBMoved(y, hoB)
    BY <2>2 DEF HoBMoved, HoBStates, HoEnded
  <2>5. HoBMoved(z, hoB)
    BY <2>2, <2>3 DEF HoBMoved, HoBStates, HoEnded
  <2> HIDE DEF y, z
  <2> QED BY <2>1, <2>4, <2>5, BBecomeInv
<1>5. CASE HoBReleased
  <2>1. hoA' = hoA /\ hoNums' = hoNums
        /\ hoB' \in {HoBTDies(hoB), HoBGone(hoB)}
    BY <1>5 DEF HoBReleased, HoBBecome
  <2>2. HoBMoved(HoBTDies(hoB), hoB)
    BY ZenonT(60), <1>0, BSendKeeps, BMessages DEF HoBTDies
  <2> QED BY ZenonT(60), <1>0, <2>1, <2>2, BGoneKeeps, BBecomeInv
<1>6. CASE HoBMnccSetup
  <2> DEFINE v == [hoB EXCEPT !.call = "up"]
  <2>1. hoA' = hoA /\ hoB' = v /\ hoNums' = hoNums
    BY <1>6 DEF HoBMnccSetup, HoBBecome
  <2>2. HoBMoved(v, hoB)
    BY <1>0 DEF HoBMoved, HoBStates, HoEnded
  <2> HIDE DEF v
  <2> QED BY <2>1, <2>2, BBecomeInv
<1> QED BY ZenonT(60), <1>1, <1>2, <1>3, <1>4, <1>5, <1>6

\* msc_t_assign_handover_number() returns a number of the range that no MSC-T
\* has, or none.
LEMMA AssignedIsFree ==
  ASSUME NEW next, NEW taken
  PROVE  LET nr == HoAssignNumber(next, taken)
         IN  nr = 0 \/ (nr \in 1 .. HoRange /\ nr \notin taken)
<1> DEFINE start == HoNumberNext(next)
           nth(j) == ((start - 1 + j) % HoRange) + 1
           free == {j \in 0..(HoRange - 1) : nth(j) \notin taken}
           j == CHOOSE j \in free : \A l \in free : j <= l
<1>0. HoRange \in Nat \ {0} /\ start \in Int
  BY HoAssumption DEF HoNumberNext
<1>1. \A l \in free : l \in Nat /\ nth(l) \notin taken
  BY SMTT(30), <1>0
<1>2. \A l \in Nat : nth(l) \in 1 .. HoRange
  <2> HIDE DEF start
  <2> TAKE l \in Nat
  <2>1. start - 1 + l \in Int
    BY SMTT(30), <1>0
  <2> DEFINE a == start - 1 + l
  <2>2. a % HoRange \in 0 .. (HoRange - 1)
    <3> HIDE DEF a
    <3>1. a \in Int
      BY <2>1 DEF a
    <3> QED BY <1>0, <3>1
  <2> QED BY <1>0, <2>2
<1>3. HoAssignNumber(next, taken) = IF free = {} THEN 0 ELSE nth(j)
  BY DEF HoAssignNumber
<1>4. CASE free # {}
  <2>1. \E i \in free : \A l \in free : i <= l
    <3>1. free \in SUBSET Nat
      BY <1>1
    <3> HIDE DEF free
    <3> QED BY <1>4, <3>1, LeastNat
  <2>2. j \in free
    BY <2>1
  <2> HIDE DEF free, nth, j
  <2> QED BY ZenonT(60), <1>1, <1>2, <1>3, <1>4, <2>2
<1> QED BY <1>3, <1>4

\* The actions that assign and give back Handover Numbers keep the invariant.
LEMMA NumberSteps ==
  ASSUME HoIInv,
         \/ \E ie \in BOOLEAN : HoBRequestAck(ie)
         \/ HoOtherAssign \/ \E nr \in 1..HoRange : HoOtherEnds(nr)
  PROVE  HoIInv'
<1>0. /\ hoB \in HoBStates /\ hoNums \in [next : Int, taken : SUBSET Int]
      /\ HoGood(hoA, HoEnded(hoB))
          /\ (hoB.num # 0 => hoB.num \notin hoNums.taken)
  BY DEF HoIInv
<1> DEFINE nr == HoAssignNumber(hoNums.next, HoTaken)
<1>1. nr = 0 \/ (nr \in 1 .. HoRange /\ nr \notin HoTaken)
  BY AssignedIsFree
<1>2. nr \in Int
      /\ (nr # 0 => nr \in 0 .. HoRange /\ nr \notin hoNums.taken
          /\ nr # hoB.num)
  <2>1. HoRange \in Nat
    BY HoAssumption
  <2>2. nr # 0 => nr \in 1 .. HoRange /\ nr \notin hoNums.taken /\ nr # hoB.num
    BY <1>1 DEF HoTaken
  <2> HIDE DEF nr
  <2> QED BY SMTT(30), <2>1, <2>2, <1>1
<1>3. CASE \E ie \in BOOLEAN : HoBRequestAck(ie)
  <2>1. PICK ie \in BOOLEAN : HoBRequestAck(ie)
    BY <1>3
  <2> DEFINE m == [msg |-> "REQUEST_ACK", ie |-> ie, rtp |-> FALSE]
             x == [hoB EXCEPT !.num = nr, !.t = "WAIT_HO_COMPLETE"]
             y == HoBSend(x, m)
             e == 1 + IF nr = 0 THEN HoNumberNext(hoNums.next) ELSE nr
  <2>2. /\ hoA' = hoA /\ hoB' = IF nr = 0 THEN HoBTDies(hoB) ELSE y
        /\ hoNums' = [hoNums EXCEPT !.next = e]
    BY <2>1 DEF HoBRequestAck
  <2>3. m \in HoBMsgs
    BY BMessages
  <2>4. e \in Int
    BY SMTT(30), <1>2, HoAssumption DEF HoNumberNext
  <2> HIDE DEF nr, m, e
  <2>5. hoNums' \in [next : Int, taken : SUBSET Int]
        /\ hoNums'.taken = hoNums.taken
    BY <1>0, <2>2, <2>4
  <2>6. HoBMoved(HoBTDies(hoB), hoB)
    BY <1>0, BSendKeeps, BMessages DEF HoBTDies
  <2>7. nr # 0 => x \in HoBStates /\ x.num = nr /\ (HoEnded(hoB) => HoEnded(x))
    BY <1>0, <1>2 DEF HoBStates, HoEnded
  <2> HIDE DEF x
  <2>8. nr # 0 => y \in HoBStates /\ y.num = nr /\ (HoEnded(hoB) => HoEnded(y))
    BY ZenonT(60), <2>3, <2>7, BSendKeeps DEF HoBMoved
  <2> HIDE DEF y
  <2>9. /\ hoB' \in HoBStates /\ (HoEnded(hoB) => HoEnded(hoB'))
        /\ (hoB'.num # 0 => hoB'.num \notin hoNums'.taken)
    BY ZenonT(60), <1>0, <1>2, <2>2, <2>5, <2>6, <2>8 DEF HoBMoved
  <2>10. HoGood(hoA, HoEnded(hoB'))
    BY SMTT(30), <1>0, <2>9, LinkedMore
  <2> QED BY ZenonT(60), <2>2, <2>5, <2>9, <2>10 DEF HoIInv, HoEnded
<1>4. CASE HoOtherAssign
  <2> DEFINE T == hoNums.taken \cup {nr}
             e == nr + 1
  <2>1. nr # 0 /\ hoNums' = [next |-> e, taken |-> T] /\ hoA' = hoA
        /\ hoB' = hoB
    BY <1>4 DEF HoOtherAssign
  <2> HIDE DEF nr
  <2>2. e \in Int /\ T \in SUBSET Int /\ (hoB.num # 0 => hoB.num \notin T)
    BY SMTT(30), <1>0, <1>2, <2>1
  <2> HIDE DEF e, T
  <2>3. hoNums' \in [next : Int, taken : SUBSET Int] /\ hoNums'.taken = T
    BY <2>1, <2>2
  <2> QED BY <1>0, <2>1, <2>2, <2>3 DEF HoIInv, HoEnded
<1>5. CASE \E n \in 1..HoRange : HoOtherEnds(n)
  <2>1. PICK n \in 1..HoRange : HoOtherEnds(n)
    BY <1>5
  <2> DEFINE T == hoNums.taken \ {n}
  <2>2. hoNums' = [hoNums EXCEPT !.taken = T] /\ hoA' = hoA /\ hoB' = hoB
    BY <2>1 DEF HoOtherEnds
  <2>3. T \in SUBSET Int /\ (hoB.num # 0 => hoB.num \notin T)
    BY <1>0
  <2> HIDE DEF T
  <2>4. hoNums' \in [next : Int, taken : SUBSET Int] /\ hoNums'.taken = T
    BY ZenonT(60), <1>0, <2>2, <2>3
  <2> QED BY <1>0, <2>2, <2>3, <2>4 DEF HoIInv, HoEnded
<1> QED BY <1>3, <1>4, <1>5

\* A CLOSE ends MSC-B whatever it is doing.
LEMMA BGsupRxKeeps ==
  ASSUME NEW w \in HoBStates, NEW m \in HoMsgs, NEW found \in BOOLEAN
  PROVE  LET v == HoBGsupRx(w, m, found)
         IN  /\ v \in HoBStates /\ v.num \in {0, w.num}
             /\ m = "CLOSE" => ~v.a
<1> DEFINE v == HoBGsupRx(w, m, found)
           f == [msg |-> "FAILURE"]
           c == [msg |-> "CLOSE"]
           x == [w EXCEPT !.a = TRUE, !.t = "WAIT_LOCAL_RTP", !.leg = "setup"]
<1>1. /\ HoBMoved(HoBSend(w, f), w) /\ HoBMoved(HoBGone(HoBSend(w, f)), w)
      /\ HoBMoved(HoBGone(HoBSend(w, c)), w) /\ ~HoBGone(HoBSend(w, c)).a
  BY BSendKeeps, BMessages
<1>2. x \in HoBStates /\ x.num = w.num
  BY DEF HoBStates
<1>3. CASE m = "CLOSE"
  <2>1. v = IF w.a THEN HoBGone(HoBSend(w, c)) ELSE w
    BY <1>3 DEF HoBGsupRx, HoBClose
  <2> HIDE DEF v, c
  <2>2. v \in HoBStates /\ v.num \in {0, w.num} /\ ~v.a
    BY <1>1, <2>1 DEF HoBMoved
  <2> QED BY <2>2 DEF v
<1>4. CASE m = "PREPARE_HO_REQUEST"
  <2>1. v \in {HoBSend(w, f), x, HoBGone(HoBSend(w, f))}
    BY <1>4 DEF HoBGsupRx, HoBTDies
  <2> HIDE DEF v, f, x
  <2>2. v \in HoBStates /\ v.num \in {0, w.num}
    BY <1>1, <1>2, <2>1 DEF HoBMoved
  <2> QED BY <1>4, <2>2 DEF v
<1> QED BY <1>3, <1>4 DEF HoMsgs

\* Taking the first message leaves the last, unless it is the last.
LEMMA TailEnds ==
  ASSUME NEW S, NEW s \in Seq(S), s # <<>>
  PROVE  IF Tail(s) = <<>> THEN s[Len(s)] = Head(s)
         ELSE Tail(s)[Len(Tail(s))] = s[Len(s)]
<1>1. Len(s) \in Nat \ {0} /\ Head(s) = s[1]
  BY SMTT(30)
<1> DEFINE t == Tail(s)
           k == Len(t)
<1>2. /\ t \in Seq(S) /\ k = Len(s) - 1
         /\ \A i \in 1 .. Len(s) - 1 : t[i] = s[i + 1]
  BY HeadTailProperties
<1> HIDE DEF t
<1>3. CASE t = <<>>
  <2>1. k = 0
    BY <1>3
  <2> HIDE DEF k
  <2>2. Len(s) = 1
    BY SMTT(30), <1>1, <1>2, <2>1
  <2>3. s[Len(s)] = Head(s)
    BY <1>1, <2>2
  <2> QED BY ZenonT(60), <1>3, <2>3 DEF t
<1>4. CASE t # <<>>
  <2>1. k # 0 /\ k \in Nat
    BY <1>2, <1>4
  <2> HIDE DEF k
  <2>2. k \in 1 .. Len(s) - 1 /\ k + 1 = Len(s)
    BY SMTT(30), <1>1, <1>2, <2>1
  <2>3. t[k] = s[k + 1]
    BY <1>2, <2>2
  <2>4. t[k] = s[Len(s)]
    BY <2>2, <2>3
  <2> QED BY <1>4, <2>4 DEF t, k
<1> QED BY <1>3, <1>4 DEF t

\* What MSC-B gets keeps the invariant: the CLOSE that was last on the E link
\* ends it.
LEMMA DeliverBStep ==
  ASSUME HoIInv, NEW found \in BOOLEAN, HoDeliverB(found)
  PROVE  HoIInv'
<1> DEFINE m == Head(hoA.out)
           q == Tail(hoA.out)
           v == IF hoB.crash THEN hoB ELSE HoBGsupRx(hoB, m, found)
<1>0. /\ hoB \in HoBStates /\ HoGood(hoA, HoEnded(hoB)) /\ hoA \in HoAStates
      /\ hoA.out \in Seq(HoMsgs)
          /\ (hoB.num # 0 => hoB.num \notin hoNums.taken)
  BY Pieces DEF HoIInv, HoGood, HoOuts
<1>1. /\ hoA.out # <<>> /\ hoB' = v /\ hoA' = [hoA EXCEPT !.out = q]
         /\ hoNums' = hoNums
  BY DEF HoDeliverB
<1>2. m \in HoMsgs /\ q \in HoOuts
  BY SMTT(60), <1>0, <1>1 DEF HoOuts
<1>3. IF q = <<>> THEN hoA.out[Len(hoA.out)] = m
      ELSE q[Len(q)] = hoA.out[Len(hoA.out)]
  BY <1>0, <1>1, TailEnds
<1>4. v \in HoBStates /\ v.num \in {0, hoB.num} /\ (m = "CLOSE" => HoEnded(v))
  BY ZenonT(60), <1>0, <1>2, BGsupRxKeeps DEF HoEnded
<1> HIDE DEF m, q, v
<1>5. /\ hoA' \in HoAStates /\ hoA'.out = q /\ hoA'.i = hoA.i /\ hoA'.t = hoA.t
      /\ hoA'.h = hoA.h /\ hoA'.asked = hoA.asked /\ hoA'.abort = hoA.abort
      /\ hoA'.st = hoA.st
  BY <1>0, <1>1, <1>2 DEF HoAStates
<1>6. HoLinked(hoA', HoEnded(v))
  BY ZenonT(60), <1>0, <1>1, <1>3, <1>4, <1>5 DEF HoGood, HoLinked
<1>7. HoGood(hoA', HoEnded(v))
  BY <1>0, <1>5, <1>6 DEF HoGood
<1> QED BY ZenonT(60), <1>0, <1>1, <1>4, <1>7 DEF HoIInv, HoEnded

-----------------------------------------------------------------------------
(* The invariant.                                                          *)

\* The call starts without a handover, and MSC-B without the subscriber.
LEMMA HoInitInv == HoInit => HoIInv
<1> SUFFICES ASSUME HoInit PROVE HoIInv
  OBVIOUS
<1> DEFINE f == [k \in HoCallIds |-> HoFree]
<1>1. f \in HoCallFns
  BY HoFreeTyped DEF HoCallFns
<1>2. <<>> \in HoOuts /\ <<>> \in HoBOuts
  BY DEF HoOuts, HoBOuts
<1> HIDE DEF f
<1>3. hoA = [st |-> "COMMUNICATING", i |-> HoFirstCell, t |-> HoNone,
      tst |-> HoNone,
     clearing |-> {}, rtp |-> HoFirstCell, calls |-> f,
     cc |-> HoNone, asked |-> "no", pre |-> HoFirstCell, tries |-> 0,
         abort |-> FALSE,
     ub |-> FALSE, out |-> <<>>, h |-> HoIdle]
  BY DEF HoInit, HoAInit, f
<1>4. hoA \in HoAStates
  BY ZenonT(60), <1>1, <1>2, <1>3, HoIdleTyped, HoAssumption DEF HoAStates, HoRoles,
      HoRtps, HoIds
<1>5. hoB \in HoBStates /\ ~hoB.a /\ hoB.num = 0
  BY SMTT(30), <1>2, HoAssumption DEF HoInit, HoBEmpty, HoBStates
<1>6. hoA.t = HoNone /\ hoA.asked = "no" /\ hoA.out = <<>>
  BY <1>3
<1>7. HoGood(hoA, HoEnded(hoB))
  BY ZenonT(60), <1>4, <1>5, <1>6 DEF HoGood, HoLinked, HoEnded
<1>8. hoNums \in [next : Int, taken : SUBSET Int]
  BY DEF HoInit
<1> QED BY ZenonT(60), <1>5, <1>7, <1>8 DEF HoIInv

\* Every step of the two MSCs keeps the invariant.
LEMMA HoStepInv == HoIInv /\ [HoNext]_hoVars => HoIInv'
<1> SUFFICES ASSUME HoIInv, [HoNext]_hoVars PROVE HoIInv'
  OBVIOUS
<1>1. CASE UNCHANGED hoVars
  BY <1>1 DEF hoVars, HoIInv, HoEnded
<1>2. CASE HoNext
  BY ZenonT(60), <1>2, AStarts, AEnds, DeliverAStep, DeliverBStep, BSteps,
      NumberSteps DEF HoNext
<1> QED BY <1>1, <1>2

\* What the invariant says of targets and of the waiting BSS.
LEMMA HoIInvImplies == HoIInv => HoNoOrphanTarget /\ HoAnswered
<1> SUFFICES ASSUME HoIInv PROVE HoNoOrphanTarget /\ HoAnswered
  OBVIOUS
<1>1. HoGood(hoA, HoEnded(hoB))
  BY DEF HoIInv
<1>2. HoAnswered
  BY <1>1 DEF HoGood, HoAnswered, HoRunning
<1>3. HoNoOrphanTarget
  BY <1>1 DEF HoIInv, HoGood, HoLinked, HoEnded, HoNoOrphanTarget, HoRunning
<1> QED BY <1>2, <1>3

\* The inductive invariant of MSC-A and MSC-B holds always.
THEOREM HandoversKept == HoSpec => []HoIInv
BY HoInitInv, HoStepInv, PTL DEF HoSpec

\* No target role outlives its handover: neither an MSC-T at MSC-A after msc_ho
\* has ended, nor one at MSC-B when MSC-A has no remote role left and the E
\* link is quiet; and no Handover Number is given to two MSC-T at a time.
THEOREM NoTargetOrphaned == HoSpec => []HoNoOrphanTarget
BY HandoversKept, HoIInvImplies, PTL

\* A Handover Required that was taken up is answered with a Handover Command or
\* a Required Reject unless T-3 expires, in every interleaving with releases,
\* with the forwarding call and with the other MSC.
THEOREM RequiredIsAnswered == HoSpec => []HoAnswered
BY HandoversKept, HoIInvImplies, PTL
=============================================================================
