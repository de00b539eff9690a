--------------------------- MODULE TableRegistry ---------------------------
(***************************************************************************)
(* The registry of database tables (db_sources.DataSourceStore), the        *)
(* snapshot each table keeps on disk, the recommendation that may lead to   *)
(* its registration, and everything that changes them at once: the          *)
(* administrators' handlers (routes/admin_data.py) and the refresh of one   *)
(* table (db_scheduler.refresh_one_table), run by four pool threads and by  *)
(* the scheduler's own.                                                     *)
(*                                                                         *)
(* The model follows ONE physical table of one source, which may be         *)
(* registered under several ids.  Every step is one section under the       *)
(* store's lock, one query of the source, or one file operation; between    *)
(* two of them any other request or thread may run.                         *)
(***************************************************************************)
EXTENDS Integers, FiniteSets

CONSTANTS
  Ids,        \* table ids
  Admins,     \* concurrent requests of source managers
  Sched,      \* the scheduler's thread
  MaxSrc      \* bound on the versions of the source table

ASSUME SchedIsNoAdmin == Sched \notin Admins
ASSUME RegistryBounds == MaxSrc \in Nat \ {0}

VARIABLES
  src,       \* version of the table's rows and columns in the source
  row,       \* registry.json: the table doc of every id
  rec,       \* registry.json: the recommendation of the physical table
  snap,      \* the version the snapshot of an id holds, 0 without a file
  req,       \* what every request and thread is doing
  wanted,    \* what an administrator last said of the recommendation (history)
  tainted    \* ids whose fingerprint is not to be trusted (history)

vars == <<src, row, rec, snap, req, wanted, tainted>>

Procs == Admins \cup {Sched}
Modes == {"snapshot", "live"}

NoFp == 0                        \* last_fingerprint None
Gone == [mode |-> "gone", fp |-> NoFp]
NoRec == [status |-> "none", prior |-> "open", of |-> "none"]
Idle == [kind |-> "idle", at |-> "idle", t |-> "none", doc |-> Gone,
         fp |-> NoFp, data |-> 0, solo |-> TRUE]

Registered(rows) == {t \in Ids : rows[t] # Gone}

Become(p, r) == req' = [req EXCEPT ![p] = r]
Goes(p, at) == Become(p, [req[p] EXCEPT !.at = at])

-----------------------------------------------------------------------------
(* Writers of the registry, each one lock section.                          *)

\* Mutant: the status before the registration is not remembered once only.
ReconciledAgain(rows) ==
  IF rec.status = "none" THEN {rec}
  ELSE IF Registered(rows) # {}
       THEN {[status |-> "registered", prior |-> rec.status, of |-> t] : t \in Registered(rows)}
  ELSE IF rec.status = "registered"
       THEN {[status |-> rec.prior, prior |-> "open", of |-> "none"]}
  ELSE {rec}

\* _reconcile_recommendations: called by every mutation of the tables.
Reconciled(rows) ==
  IF rec.status = "none" THEN {rec}
  ELSE IF Registered(rows) # {}
       THEN {[status |-> "registered",
              prior |-> IF rec.status = "registered" THEN rec.prior ELSE rec.status,
              of |-> t] : t \in Registered(rows)}
  ELSE IF rec.status = "registered"
       THEN {[status |-> rec.prior, prior |-> "open", of |-> "none"]}
  ELSE {rec}

\* Mutant: the tables change and the recommendation does not hear of it.
WriteRowSilently(t, doc) ==
  /\ row' = [row EXCEPT ![t] = doc]
  /\ UNCHANGED rec

\* Mutant: a registration that goes opens the recommendation again.
WriteRowBlanketOpen(t, doc) ==
  /\ row' = [row EXCEPT ![t] = doc]
  /\ rec' \in {IF r.status \in {"none", "registered"} THEN r ELSE [r EXCEPT !.status = "open"]
               : r \in Reconciled(row')}

\* upsert_table (doc a table doc) and delete_table (doc Gone): an id that the
\* registry does not hold is appended.
WriteRow(t, doc) ==
  /\ row' = [row EXCEPT ![t] = doc]
  /\ rec' \in Reconciled(row')

\* set_table_mode: nothing when the table is gone; the fingerprint stays.
SetMode(t, mode) ==
  row' = IF row[t] = Gone THEN row ELSE [row EXCEPT ![t].mode = mode]

-----------------------------------------------------------------------------
(* refresh_one_table.                                                       *)

Refreshing(t) ==
  {p \in Procs : req[p].t = t /\ req[p].at \in {"fingerprint", "read", "swap", "mark"}}

\* p goes on as r, and no refresh under way of t has run alone.
Disturb(p, r, t) ==
  req' = [q \in Procs |-> IF q = p THEN r
                          ELSE IF q \in Refreshing(t) THEN [req[q] EXCEPT !.solo = FALSE]
                          ELSE req[q]]

\* What the caller does with the answer: Accept rolls its registration back,
\* the switch to snapshot goes back to live, everybody else is done.
Answer(p, ok) ==
  IF ~ok /\ req[p].kind \in {"accept", "switch"} THEN Goes(p, "undo") ELSE Become(p, Idle)

\* The row is read once, at the start.
ReadRow(p) ==
  /\ req[p].at = "open"
  /\ LET t == req[p].t IN
     \/ row[t].mode # "snapshot" /\ Answer(p, row[t].mode = "live")
     \/ /\ row[t].mode = "snapshot"
        /\ Disturb(p, [req[p] EXCEPT !.at = "fingerprint",
                                     !.doc = IF req[p].kind = "sched" THEN row[t] ELSE Gone,
                                     !.solo = Refreshing(t) = {}], t)
     \/ row[t].mode = "snapshot" /\ Answer(p, FALSE)   \* no connection, or no credential
  /\ UNCHANGED <<src, row, rec, snap, wanted, tainted>>

\* fingerprint_table: the source's version, or none when the probe fails.  The
\* scheduler's refresh ends here when it is the stored one (mark_checked).
Fingerprint(p) ==
  /\ req[p].at = "fingerprint"
  /\ \E fp \in {src, NoFp} :
       IF req[p].kind = "sched" /\ fp # NoFp /\ fp = req[p].doc.fp
       THEN Become(p, Idle)
       ELSE Become(p, [req[p] EXCEPT !.at = "read", !.fp = fp, !.doc = Gone])
  /\ UNCHANGED <<src, row, rec, snap, wanted, tainted>>

\* snapshot_table: one query into a file of the thread's own.
ReadData(p) ==
  /\ req[p].at = "read"
  /\ Become(p, [req[p] EXCEPT !.at = "swap", !.data = src])
  /\ UNCHANGED <<src, row, rec, snap, wanted, tainted>>

\* os.replace
Swap(p) ==
  /\ req[p].at = "swap"
  /\ snap' = [snap EXCEPT ![req[p].t] = req[p].data]
  /\ Become(p, [req[p] EXCEPT !.at = "mark", !.data = 0])
  /\ UNCHANGED <<src, row, rec, wanted, tainted>>

\* Mutant: a refresh that failed stores its fingerprint as well.
RefreshFailsMarked(p) ==
  /\ req[p].at \in {"read", "swap"}
  /\ row' = IF row[req[p].t] = Gone THEN row ELSE [row EXCEPT ![req[p].t].fp = req[p].fp]
  /\ Answer(p, FALSE)
  /\ UNCHANGED <<src, rec, snap, wanted, tainted>>

\* No columns, or a snapshot that fails: mark_refreshed(error) keeps the stamp,
\* the fingerprint and the file of the last good refresh.
RefreshFails(p) ==
  /\ req[p].at \in {"read", "swap"}
  /\ Answer(p, FALSE)
  /\ UNCHANGED <<src, row, rec, snap, wanted, tainted>>

\* Mutant: the row that was read at the start is written back whole.
MarkRow(p) ==
  /\ req[p].at = "mark"
  /\ LET t == req[p].t IN
     /\ row' = [row EXCEPT ![t] = [mode |-> "snapshot", fp |-> req[p].fp]]
     /\ tainted' = IF req[p].solo THEN tainted \ {t} ELSE tainted \cup {t}
  /\ Answer(p, TRUE)
  /\ UNCHANGED <<src, rec, snap, wanted>>

\* mark_refreshed: fields of the row the registry holds now, if it holds one.
Mark(p) ==
  /\ req[p].at = "mark"
  /\ LET t == req[p].t IN
     /\ row' = IF row[t] = Gone THEN row ELSE [row EXCEPT ![t].fp = req[p].fp]
     /\ tainted' = IF req[p].solo THEN tainted \ {t} ELSE tainted \cup {t}
  /\ Answer(p, TRUE)
  /\ UNCHANGED <<src, rec, snap, wanted>>

Refresh(p) ==
  ReadRow(p) \/ Fingerprint(p) \/ ReadData(p) \/ Swap(p) \/ RefreshFails(p) \/ Mark(p)

-----------------------------------------------------------------------------
(* Requests of source managers.  A handler that awaits (introspection, the   *)
(* count, the draft, a pool thread) gives the event loop away.              *)

Begin(p, kind, at, t, doc) ==
  /\ req[p] = Idle
  /\ Become(p, [Idle EXCEPT !.kind = kind, !.at = at, !.t = t, !.doc = doc])

\* Refresh now, and the tables of a connection one after the other.
RefreshNow(p, t) ==
  /\ p \in Admins /\ row[t] # Gone /\ Begin(p, "now", "open", t, Gone)
  /\ UNCHANGED <<src, row, rec, snap, wanted, tainted>>

\* run_all_due: tables that are live when the list is read are left out.
RefreshDue(t) ==
  /\ row[t].mode = "snapshot" /\ Begin(Sched, "sched", "open", t, Gone)
  /\ UNCHANGED <<src, row, rec, snap, wanted, tainted>>

\* save_table up to its awaits: an edit of a registered id, or a registration
\* when no table carries the physical key.
SaveChecks(p, t, mode) ==
  /\ p \in Admins
  /\ row[t] # Gone \/ Registered(row) = {}
  /\ Begin(p, "save", "upsert", t, [mode |-> mode, fp |-> NoFp])
  /\ UNCHANGED <<src, row, rec, snap, wanted, tainted>>

\* rec_accept up to its thread: an open recommendation of a table that is not
\* registered; a registered one only has its status brought up to date.
AcceptChecks(p, t) ==
  /\ p \in Admins /\ rec.status = "open"
  /\ IF Registered(row) = {}
     THEN Begin(p, "accept", "upsert", t, [mode |-> "snapshot", fp |-> NoFp]) /\ UNCHANGED rec
     ELSE req[p] = Idle /\ rec' \in Reconciled(row) /\ UNCHANGED req
  /\ UNCHANGED <<src, row, snap, wanted, tainted>>

\* accept_relations and delete_relation: the doc as it is read.
RelateReads(p, t) ==
  /\ p \in Admins /\ row[t] # Gone /\ Begin(p, "relate", "upsert", t, row[t])
  /\ UNCHANGED <<src, row, rec, snap, wanted, tainted>>

\* A refusal after the awaits (structure changed, too large, no draft).
Refused(p) ==
  /\ req[p].at \in {"upsert", "flip"} /\ req[p].kind # "relate"
  /\ Become(p, Idle)
  /\ UNCHANGED <<src, row, rec, snap, wanted, tainted>>

\* upsert_table, whatever became of the row meanwhile.  A saved or accepted
\* snapshot table is refreshed next, as by Refresh now.
Upsert(p) ==
  /\ req[p].at = "upsert"
  /\ LET t == req[p].t  doc == req[p].doc IN
     /\ WriteRow(t, doc)
     /\ IF req[p].kind # "relate" /\ doc.mode = "snapshot"
        THEN Become(p, [Idle EXCEPT !.kind = IF req[p].kind = "save" THEN "now" ELSE "accept",
                                    !.at = "open", !.t = t])
        ELSE Become(p, Idle)
  /\ UNCHANGED <<src, snap, wanted, tainted>>

\* set_table_mode to live: the parquet is kept.
SwitchToLive(p, t) ==
  /\ p \in Admins /\ req[p] = Idle /\ row[t].mode = "snapshot"
  /\ SetMode(t, "live")
  /\ UNCHANGED <<src, rec, snap, req, wanted, tainted>>

\* To snapshot: the rows are counted, the mode is set, a refresh is taken.
SwitchChecks(p, t) ==
  /\ p \in Admins /\ row[t].mode = "live" /\ Begin(p, "switch", "flip", t, Gone)
  /\ UNCHANGED <<src, row, rec, snap, wanted, tainted>>

Flip(p) ==
  /\ req[p].at = "flip"
  /\ SetMode(req[p].t, "snapshot")
  /\ IF row[req[p].t] = Gone THEN Become(p, Idle) ELSE Goes(p, "open")
  /\ UNCHANGED <<src, rec, snap, wanted, tainted>>

SwitchUndone(p) ==
  /\ req[p].at = "undo" /\ req[p].kind = "switch"
  /\ SetMode(req[p].t, "live")
  /\ Become(p, Idle)
  /\ UNCHANGED <<src, rec, snap, wanted, tainted>>

\* delete_table: the row, then (after the lock) the snapshot.
Delete(p, t) ==
  /\ p \in Admins /\ row[t] # Gone /\ Begin(p, "delete", "drop", t, Gone)
  /\ WriteRow(t, Gone)
  /\ UNCHANGED <<src, snap, wanted, tainted>>

AcceptUndone(p) ==
  /\ req[p].at = "undo" /\ req[p].kind = "accept"
  /\ WriteRow(req[p].t, Gone)
  /\ IF row[req[p].t] = Gone THEN Become(p, Idle) ELSE Goes(p, "drop")
  /\ UNCHANGED <<src, snap, wanted, tainted>>

DropSnapshot(p) ==
  /\ req[p].at = "drop"
  /\ snap' = [snap EXCEPT ![req[p].t] = 0]
  /\ Disturb(p, Idle, req[p].t)
  /\ tainted' = tainted \cup {req[p].t}
  /\ UNCHANGED <<src, row, rec, wanted>>

\* upsert_recommendations: nothing for a table that is registered already.
Recommend ==
  /\ rec.status = "none" /\ Registered(row) = {}
  /\ rec' = [NoRec EXCEPT !.status = "open"] /\ wanted' = "open"
  /\ UNCHANGED <<src, row, snap, req, tainted>>

\* set_recommendation_status: dismissed and restored, never while registered.
SetStatus(s) ==
  /\ rec.status \in {"open", "dismissed"} \ {s}
  /\ rec' = [rec EXCEPT !.status = s] /\ wanted' = s
  /\ UNCHANGED <<src, row, snap, req, tainted>>

-----------------------------------------------------------------------------
SourceChanges ==
  /\ src < MaxSrc /\ src' = src + 1
  /\ UNCHANGED <<row, rec, snap, req, wanted, tainted>>

\* The web service restarts: its requests and threads are gone.
Restart ==
  /\ req' = [p \in Procs |-> Idle]
  /\ UNCHANGED <<src, row, rec, snap, wanted, tainted>>

Init ==
  /\ src = 1
  /\ row = [t \in Ids |-> Gone] /\ snap = [t \in Ids |-> 0]
  /\ rec = NoRec /\ wanted = "open" /\ tainted = {}
  /\ req = [p \in Procs |-> Idle]

Asked(p, t) ==
  \/ RefreshNow(p, t) \/ AcceptChecks(p, t) \/ RelateReads(p, t)
  \/ SwitchToLive(p, t) \/ SwitchChecks(p, t) \/ Delete(p, t)
  \/ \E mode \in Modes : SaveChecks(p, t, mode)

Continued(p) ==
  Refused(p) \/ Upsert(p) \/ Flip(p) \/ SwitchUndone(p) \/ AcceptUndone(p) \/ DropSnapshot(p)

Next ==
  \/ \E p \in Procs : Refresh(p)
  \/ \E p \in Admins : Continued(p)
  \/ \E p \in Admins, t \in Ids : Asked(p, t)
  \/ \E t \in Ids : RefreshDue(t)
  \/ Recommend
  \/ \E s \in {"open", "dismissed"} : SetStatus(s)
  \/ SourceChanges
  \/ Restart

Spec == Init /\ [][Next]_vars

-----------------------------------------------------------------------------
Docs == [mode : Modes, fp : 0..MaxSrc] \cup {Gone}
Recs == [status : {"none", "open", "dismissed", "registered"},
         prior : {"open", "dismissed"}, of : Ids \cup {"none"}]
Kinds == {"idle", "now", "sched", "save", "accept", "relate", "switch", "delete"}
Places == {"idle", "open", "fingerprint", "read", "swap", "mark", "upsert", "flip",
           "undo", "drop"}
Requests ==
  [kind : Kinds, at : Places, t : Ids \cup {"none"}, doc : Docs,
   fp : 0..MaxSrc, data : 0..MaxSrc, solo : BOOLEAN]

\* Types.
TypeOK ==
  /\ src \in 1..MaxSrc
  /\ row \in [Ids -> Docs]
  /\ snap \in [Ids -> 0..MaxSrc]
  /\ rec \in Recs
  /\ wanted \in {"open", "dismissed"} /\ tainted \subseteq Ids
  /\ req \in [Procs -> Requests]

(* A recommendation is `registered' exactly while a table of its physical    *)
(* key is, and names one that is: through saves, accepts that roll back,      *)
(* removals and documents written back late, in any order.                   *)
RecTracksRegistry ==
  rec.status # "none" =>
    /\ rec.status = "registered" <=> Registered(row) # {}
    /\ rec.status = "registered" => rec.of \in Registered(row)

(* What an administrator decided of a recommendation stands when the table   *)
(* is registered and removed again: a dismissed one never comes back as      *)
(* open by a rollback or a removal.                                          *)
DismissalStands ==
  /\ rec.status \in {"open", "dismissed"} => rec.status = wanted
  /\ rec.status = "registered" => rec.prior = wanted

(* A fingerprint the next scheduled refresh may skip on belongs to data the  *)
(* snapshot holds: the file is at least as new, whatever failed, and through *)
(* restarts between the file and the row.  It is not so once two refreshes   *)
(* of one table have overlapped, or its snapshot was dropped by a removal    *)
(* and the id registered again (a document written back late): those ids     *)
(* are `tainted' until a refresh that no other and no removal ran into.      *)
FingerprintHasItsSnapshot ==
  \A t \in Registered(row) \ tainted : row[t].fp <= snap[t]

(* A refresh writes only its own fields: while its query ran the table may   *)
(* have been removed or made live, and no step of a refresh registers it     *)
(* again or changes its mode.                                                *)
RefreshLeavesTheRow ==
  [][\A p \in Procs : Refresh(p) =>
       \A t \in Ids : row'[t].mode = row[t].mode]_vars

(* A physical table is registered once (the comment above the check in       *)
(* save_table).  The check is made before the awaits, the registration after *)
(* them.                                                                     *)
RegisteredOnce == Cardinality(Registered(row)) <= 1

=============================================================================
