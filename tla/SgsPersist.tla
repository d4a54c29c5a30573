----------------------------- MODULE SgsPersist -----------------------------
(***************************************************************************)
(* The persistence of SGs associations (sgs_iface.c, db.c): LU accepts,    *)
(* detaches and MME resets are queued as pending operations, a timer       *)
(* flushes the queue into sqlite in one transaction, and a restart loads   *)
(* the rows back into the VLR.                                             *)
(*                                                                         *)
(* A row is reduced to the MME that serves the IMSI: the TMSI, LAI and     *)
(* MSISDN columns travel with it and decide nothing here.  Writes may fail *)
(* one by one, the COMMIT may fail, and the process may crash at any time. *)
(***************************************************************************)
EXTENDS Naturals, Sequences, FiniteSets

CONSTANTS Imsis,        \* subscribers
          Mmes,         \* MME names
          None,         \* no MME: the subscriber has no association, no row
          MaxQueue      \* bound: pending operations the model explores

ASSUME NoneAssumption == None \notin Mmes
ASSUME MaxQueueAssumption == MaxQueue \in Nat

VARIABLES
  assoc,      \* the association the VLR holds in memory (vsub->sgs.mme_name)
  db,         \* the rows of the sgs_assoc table
  queue,      \* sgs_persist_pending, oldest first
  timer,      \* persist_timer is pending
  persist,    \* cfg.vlr_persist
  batched,    \* cfg.vlr_persist_batch_sec # 0
  dirty,      \* history: IMSIs whose last write was refused, lost or ignored
  overtaken   \* history: IMSIs whose upsert took a place before a DEL_MME

vars == <<assoc, db, queue, timer, persist, batched, dirty, overtaken>>

Upsert(i, m) == [op |-> "UPSERT", imsi |-> i, mme |-> m]
DelImsi(i) == [op |-> "DEL_IMSI", imsi |-> i, mme |-> None]
DelMme(m) == [op |-> "DEL_MME", imsi |-> None, mme |-> m]

PendingOps == [op : {"UPSERT"}, imsi : Imsis, mme : Mmes]
                \cup [op : {"DEL_IMSI"}, imsi : Imsis, mme : {None}]
                \cup [op : {"DEL_MME"}, imsi : {None}, mme : Mmes]

Rows == [Imsis -> Mmes \cup {None}]

Init ==
  /\ assoc = [i \in Imsis |-> None]
  /\ db = [i \in Imsis |-> None]
  /\ queue = <<>>
  /\ timer = FALSE
  /\ persist = TRUE
  /\ batched = TRUE
  /\ dirty = {}
  /\ overtaken = {}

-----------------------------------------------------------------------------
(* The table: db_sgs_assoc_upsert_row(), db_sgs_assoc_delete(),            *)
(* db_sgs_assoc_delete_mme().                                              *)

DropMme(m, rows) == [i \in Imsis |-> IF rows[i] = m THEN None ELSE rows[i]]

Apply(p, rows) ==
  CASE p.op = "UPSERT"   -> [rows EXCEPT ![p.imsi] = p.mme]
    [] p.op = "DEL_IMSI" -> [rows EXCEPT ![p.imsi] = None]
    [] p.op = "DEL_MME"  -> DropMme(p.mme, rows)

(* The loop of sgs_persist_flush(): the first n operations in list order;  *)
(* those at a position in failed return an error and the loop goes on.     *)
ApplyFirst(q, n, failed, rows) ==
  LET step[k \in 0..n] ==
        IF k = 0 THEN rows
        ELSE IF k \in failed THEN step[k - 1] ELSE Apply(q[k], step[k - 1])
  IN step[n]

ApplyAll(q, failed, rows) == ApplyFirst(q, Len(q), failed, rows)

-----------------------------------------------------------------------------
(* The pending list.                                                       *)

(* sgs_persist_find_imsi(): the positions it may return; DEL_MME entries   *)
(* are skipped.                                                            *)
PlacesOf(q, i) == {k \in DOMAIN q : q[k].op # "DEL_MME" /\ q[k].imsi = i}

(* Mutants: a pending deletion is not replaced, or no entry is.            *)
MutCoalesce(q, p) ==
  IF PlacesOf(q, p.imsi) = {} THEN Append(q, p)
  ELSE LET k == CHOOSE k \in PlacesOf(q, p.imsi) :
                  \A j \in PlacesOf(q, p.imsi) : k <= j
       IN IF q[k].op = "DEL_IMSI" THEN q ELSE [q EXCEPT ![k] = p]

MutCoalesceDrop(q, p) ==
  IF PlacesOf(q, p.imsi) = {} THEN Append(q, p) ELSE q

(* Coalescing: an IMSI that already has an entry keeps the first one's     *)
(* place in the list, with the new operation and row; otherwise append.    *)
Coalesce(q, p) ==
  IF PlacesOf(q, p.imsi) = {}
  THEN Append(q, p)
  ELSE LET k == CHOOSE k \in PlacesOf(q, p.imsi) :
                  \A j \in PlacesOf(q, p.imsi) : k <= j
       IN [q EXCEPT ![k] = p]

(* The upsert of i for MME m stands before a deletion of all rows of m.    *)
StandsBeforeReset(q, i, m) ==
  \E k \in PlacesOf(q, i) : \E j \in DOMAIN q : k < j /\ q[j] = DelMme(m)

(* sgs_persist_schedule() with batching on: start the timer unless it runs.*)
Enqueue(q) == queue' = q /\ timer' = TRUE

-----------------------------------------------------------------------------
(* sgs_vlr_persist_vsub(), from vlr_sgs_loc_update_acc_sent(): the UE is   *)
(* associated with MME m.  ok is the result of an immediate write.         *)
PersistVsub(i, m, ok) ==
  /\ assoc' = [assoc EXCEPT ![i] = m]
  /\ \/ /\ ~persist
        /\ dirty' = dirty \cup {i}
        /\ UNCHANGED <<db, queue, timer, overtaken>>
     \/ /\ persist /\ ~batched
        /\ db' = IF ok THEN [db EXCEPT ![i] = m] ELSE db
        /\ dirty' = IF ok THEN dirty \ {i} ELSE dirty \cup {i}
        /\ overtaken' = overtaken \ {i}
        /\ UNCHANGED <<queue, timer>>
     \/ /\ persist /\ batched
        /\ Enqueue(Coalesce(queue, Upsert(i, m)))
        /\ overtaken' = IF StandsBeforeReset(queue', i, m)
                        THEN overtaken \cup {i} ELSE overtaken \ {i}
        /\ dirty' = dirty \ {i}
        /\ UNCHANGED db
  /\ UNCHANGED <<persist, batched>>

(* sgs_vlr_persist_forget(), from vlr_subscr_expire() and the EPS detach.  *)
PersistForget(i, ok) ==
  /\ assoc' = [assoc EXCEPT ![i] = None]
  /\ \/ /\ ~persist
        /\ dirty' = dirty \cup {i}
        /\ UNCHANGED <<db, queue, timer, overtaken>>
     \/ /\ persist /\ ~batched
        /\ db' = IF ok THEN [db EXCEPT ![i] = None] ELSE db
        /\ dirty' = IF ok THEN dirty \ {i} ELSE dirty \cup {i}
        /\ overtaken' = overtaken \ {i}
        /\ UNCHANGED <<queue, timer>>
     \/ /\ persist /\ batched
        /\ Enqueue(Coalesce(queue, DelImsi(i)))
        /\ dirty' = dirty \ {i}
        /\ overtaken' = overtaken \ {i}
        /\ UNCHANGED db
  /\ UNCHANGED <<persist, batched>>

(* sgs_vlr_persist_forget_mme(), from sgs_rx_reset_ind(): MME m lost its   *)
(* associations.  The entry is always appended.                            *)
PersistForgetMme(m, ok) ==
  LET served == {i \in Imsis : assoc[i] = m} IN
  /\ assoc' = DropMme(m, assoc)
  /\ \/ /\ ~persist
        /\ dirty' = dirty \cup served
        /\ UNCHANGED <<db, queue, timer, overtaken>>
     \/ /\ persist /\ ~batched
        /\ db' = IF ok THEN DropMme(m, db) ELSE db
        /\ dirty' = IF ok THEN dirty ELSE dirty \cup {i \in Imsis : db[i] = m}
        /\ overtaken' = overtaken \ served
        /\ UNCHANGED <<queue, timer>>
     \/ /\ persist /\ batched
        /\ Enqueue(Append(queue, DelMme(m)))
        /\ overtaken' = overtaken \ served
        /\ UNCHANGED <<db, dirty>>
  /\ UNCHANGED <<persist, batched>>

(* sgs_persist_flush(): every entry is freed, whatever became of its       *)
(* operation; a failed COMMIT rolls all of them back.                      *)
FlushQueue(failed, committed) ==
  LET done == IF committed THEN ApplyAll(queue, failed, db) ELSE db
      goal == ApplyAll(queue, {}, db)
  IN /\ db' = done
     /\ queue' = <<>>
     /\ timer' = FALSE
     /\ dirty' = dirty \cup {i \in Imsis : done[i] # goal[i]}

PersistFlush(failed, committed) ==
  /\ timer
  /\ FlushQueue(failed, committed)
  /\ UNCHANGED <<assoc, persist, batched, overtaken>>

(* The VTY command "no vlr-persist": sgs_vlr_persist_reconfig() drops the  *)
(* pending operations.                                                     *)
VtyNoPersist ==
  /\ persist' = FALSE
  /\ queue' = <<>>
  /\ timer' = FALSE
  /\ dirty' = dirty \cup {i \in Imsis : ApplyAll(queue, {}, db)[i] # db[i]}
  /\ UNCHANGED <<assoc, db, batched, overtaken>>

VtyPersist ==
  /\ persist' = TRUE
  /\ UNCHANGED <<assoc, db, queue, timer, batched, dirty, overtaken>>

(* The VTY command "vlr-persist-batch": going to 0 flushes what is pending *)
(* (sgs_persist_schedule() flushes at once when the interval is 0).        *)
VtyPersistBatch(on, failed, committed) ==
  /\ batched' = on
  /\ \/ /\ persist /\ queue # <<>> /\ ~on
        /\ FlushQueue(failed, committed)
     \/ /\ ~(persist /\ queue # <<>> /\ ~on)
        /\ UNCHANGED <<db, queue, timer, dirty>>
  /\ UNCHANGED <<assoc, persist, overtaken>>

(* A crash and the restart after it: sgs_iface_restore_assocs() loads the  *)
(* rows that have not expired (the expired ones, here any set, are         *)
(* deleted).  The pending operations are gone; when the crash hits a flush *)
(* that could not open its transaction, the first n are in the table.      *)
CrashRestart(n, expired, on) ==
  LET found == ApplyFirst(queue, n, {}, db)
      kept == [i \in Imsis |-> IF i \in expired THEN None ELSE found[i]]
  IN /\ persist' = on
     /\ db' = IF on THEN kept ELSE found
     /\ assoc' = IF on THEN kept ELSE [i \in Imsis |-> None]
     /\ queue' = <<>>
     /\ timer' = FALSE
     /\ dirty' = IF on THEN {} ELSE {i \in Imsis : found[i] # None}
     /\ overtaken' = {}
     /\ UNCHANGED batched

Next ==
  \/ \E i \in Imsis, m \in Mmes, ok \in BOOLEAN :
       Len(queue) < MaxQueue /\ PersistVsub(i, m, ok)
  \/ \E i \in Imsis, ok \in BOOLEAN :
       Len(queue) < MaxQueue /\ PersistForget(i, ok)
  \/ \E m \in Mmes, ok \in BOOLEAN :
       Len(queue) < MaxQueue /\ PersistForgetMme(m, ok)
  \/ \E failed \in SUBSET DOMAIN queue, committed \in BOOLEAN :
       PersistFlush(failed, committed)
  \/ VtyNoPersist
  \/ VtyPersist
  \/ \E on \in BOOLEAN, failed \in SUBSET DOMAIN queue, committed \in BOOLEAN :
       VtyPersistBatch(on, failed, committed)
  \/ \E n \in 0..Len(queue), expired \in SUBSET Imsis, on \in BOOLEAN :
       CrashRestart(n, expired, on)

Spec == Init /\ [][Next]_vars

-----------------------------------------------------------------------------
(* Properties                                                              *)

(* At most one pending operation per IMSI: sgs_persist_find_imsi() and the *)
(* coalescing in sgs_vlr_persist_vsub() / _forget() never leave two        *)
(* entries whose order would decide the row.                               *)
UniquePending ==
  \A j, k \in DOMAIN queue :
    queue[j].op # "DEL_MME" /\ queue[k].op # "DEL_MME"
      /\ queue[j].imsi = queue[k].imsi => j = k

(* Whatever is pending has a running flush timer, and nothing is pending   *)
(* when persistence or batching is off: the VTY commands cannot strand an  *)
(* entry in the list (sgs_vlr_persist_reconfig(), sgs_persist_schedule()). *)
TimerGuardsQueue == queue # <<>> => timer /\ persist /\ batched

(* A flush never brings back an association the VLR dropped or moved: for  *)
(* each IMSI whose writes were not refused, the row after the pending      *)
(* operations is the VLR's association or no row at all.                   *)
NeverResurrects ==
  \A i \in Imsis \ dirty : ApplyAll(queue, {}, db)[i] \in {assoc[i], None}

(* The flush converges: it leaves exactly the VLR's association for each   *)
(* IMSI whose writes were not refused and whose upsert did not coalesce    *)
(* into a place before the deletion of its own MME's rows.                 *)
FlushConverges ==
  \A i \in Imsis \ (dirty \cup overtaken) :
    ApplyAll(queue, {}, db)[i] = assoc[i]

=============================================================================
