------------------------ MODULE TableRegistry_proofs ------------------------
(***************************************************************************)
(* Theorems about TableRegistry, for every set of ids, administrators and  *)
(* versions of the source, and about the scheduler that starts its         *)
(* refreshes (RefreshScheduler), for every set of tables, clock face and   *)
(* stale age.                                                              *)
(***************************************************************************)
EXTENDS TableRegistry, RefreshScheduler, TLAPS

\* A request that is under way is about a table id.
Busy == \A p \in Procs : req[p].at # "idle" => req[p].t \in Ids

TInv == TypeOK /\ Busy

LEMMA IdleIsARequest == Idle \in Requests
  BY RegistryBounds DEF Idle, Requests, Kinds, Places, Docs, Gone, NoFp

(* A request with one field replaced, then with several. *)

LEMMA SetKind ==
  ASSUME NEW r \in Requests, NEW k \in Kinds
  PROVE  LET v == [r EXCEPT !.kind = k] IN
         /\ v \in Requests /\ v.kind = k /\ v.at = r.at /\ v.t = r.t
         /\ v.doc = r.doc /\ v.fp = r.fp /\ v.data = r.data /\ v.solo = r.solo
  BY DEF Requests, Kinds, Places

LEMMA SetAt ==
  ASSUME NEW r \in Requests, NEW a \in Places
  PROVE  LET v == [r EXCEPT !.at = a] IN
         /\ v \in Requests /\ v.kind = r.kind /\ v.at = a /\ v.t = r.t
         /\ v.doc = r.doc /\ v.fp = r.fp /\ v.data = r.data /\ v.solo = r.solo
  BY DEF Requests, Kinds, Places

LEMMA SetT ==
  ASSUME NEW r \in Requests, NEW u \in Ids \cup {"none"}
  PROVE  LET v == [r EXCEPT !.t = u] IN
         /\ v \in Requests /\ v.kind = r.kind /\ v.at = r.at /\ v.t = u
         /\ v.doc = r.doc /\ v.fp = r.fp /\ v.data = r.data /\ v.solo = r.solo
  BY DEF Requests, Kinds, Places

LEMMA SetDoc ==
  ASSUME NEW r \in Requests, NEW d \in Docs
  PROVE  LET v == [r EXCEPT !.doc = d] IN
         /\ v \in Requests /\ v.kind = r.kind /\ v.at = r.at /\ v.t = r.t
         /\ v.doc = d /\ v.fp = r.fp /\ v.data = r.data /\ v.solo = r.solo
  BY DEF Requests, Kinds, Places

LEMMA SetFp ==
  ASSUME NEW r \in Requests, NEW f \in 0..MaxSrc
  PROVE  LET v == [r EXCEPT !.fp = f] IN
         /\ v \in Requests /\ v.kind = r.kind /\ v.at = r.at /\ v.t = r.t
         /\ v.doc = r.doc /\ v.fp = f /\ v.data = r.data /\ v.solo = r.solo
  BY DEF Requests, Kinds, Places

LEMMA SetData ==
  ASSUME NEW r \in Requests, NEW n \in 0..MaxSrc
  PROVE  LET v == [r EXCEPT !.data = n] IN
         /\ v \in Requests /\ v.kind = r.kind /\ v.at = r.at /\ v.t = r.t
         /\ v.doc = r.doc /\ v.fp = r.fp /\ v.data = n /\ v.solo = r.solo
  BY DEF Requests, Kinds, Places

LEMMA SetSolo ==
  ASSUME NEW r \in Requests, NEW s \in BOOLEAN
  PROVE  LET v == [r EXCEPT !.solo = s] IN
         /\ v \in Requests /\ v.kind = r.kind /\ v.at = r.at /\ v.t = r.t
         /\ v.doc = r.doc /\ v.fp = r.fp /\ v.data = r.data /\ v.solo = s
  BY DEF Requests, Kinds, Places

AtData(r, a, n) == [r EXCEPT !.at = a, !.data = n]

LEMMA SetAtData ==
  ASSUME NEW r \in Requests, NEW a \in Places, NEW n \in 0..MaxSrc
  PROVE  LET v == AtData(r, a, n) IN
         /\ v \in Requests /\ v.kind = r.kind /\ v.at = a /\ v.t = r.t
         /\ v.doc = r.doc /\ v.fp = r.fp /\ v.data = n /\ v.solo = r.solo
<1> DEFINE v1 == [r EXCEPT !.at = a]
<1>1. /\ v1 \in Requests /\ v1.kind = r.kind /\ v1.at = a /\ v1.t = r.t
     /\ v1.doc = r.doc /\ v1.fp = r.fp /\ v1.data = r.data /\ v1.solo = r.solo
  BY SetAt
<1>2. LET v == [v1 EXCEPT !.data = n] IN
       /\ v \in Requests /\ v.kind = r.kind /\ v.at = a /\ v.t = r.t
       /\ v.doc = r.doc /\ v.fp = r.fp /\ v.data = n /\ v.solo = r.solo
  <2> HIDE DEF v1
  <2> QED
    BY <1>1, SetData
<1> QED
  BY <1>2 DEF AtData

AtFpDoc(r, a, f, d) == [r EXCEPT !.at = a, !.fp = f, !.doc = d]

LEMMA SetAtFpDoc ==
  ASSUME NEW r \in Requests, NEW a \in Places, NEW f \in 0..MaxSrc, NEW d \in Docs
  PROVE  LET v == AtFpDoc(r, a, f, d) IN
         /\ v \in Requests /\ v.kind = r.kind /\ v.at = a /\ v.t = r.t
         /\ v.doc = d /\ v.fp = f /\ v.data = r.data /\ v.solo = r.solo
<1> DEFINE v1 == [r EXCEPT !.at = a]
           v2 == [v1 EXCEPT !.fp = f]
<1>1. /\ v1 \in Requests /\ v1.kind = r.kind /\ v1.at = a /\ v1.t = r.t
     /\ v1.doc = r.doc /\ v1.fp = r.fp /\ v1.data = r.data /\ v1.solo = r.solo
  BY SetAt
<1>2. /\ v2 \in Requests /\ v2.kind = r.kind /\ v2.at = a /\ v2.t = r.t
     /\ v2.doc = r.doc /\ v2.fp = f /\ v2.data = r.data /\ v2.solo = r.solo
  <2> HIDE DEF v1
  <2> QED
    BY <1>1, SetFp
<1>3. LET v == [v2 EXCEPT !.doc = d] IN
       /\ v \in Requests /\ v.kind = r.kind /\ v.at = a /\ v.t = r.t
       /\ v.doc = d /\ v.fp = f /\ v.data = r.data /\ v.solo = r.solo
  <2> HIDE DEF v2
  <2> QED
    BY <1>2, SetDoc
<1> QED
  BY <1>3 DEF AtFpDoc

AtDocSolo(r, a, d, s) == [r EXCEPT !.at = a, !.doc = d, !.solo = s]

LEMMA SetAtDocSolo ==
  ASSUME NEW r \in Requests, NEW a \in Places, NEW d \in Docs, NEW s \in BOOLEAN
  PROVE  LET v == AtDocSolo(r, a, d, s) IN
         /\ v \in Requests /\ v.kind = r.kind /\ v.at = a /\ v.t = r.t
         /\ v.doc = d /\ v.fp = r.fp /\ v.data = r.data /\ v.solo = s
<1> DEFINE v1 == [r EXCEPT !.at = a]
           v2 == [v1 EXCEPT !.doc = d]
<1>1. /\ v1 \in Requests /\ v1.kind = r.kind /\ v1.at = a /\ v1.t = r.t
     /\ v1.doc = r.doc /\ v1.fp = r.fp /\ v1.data = r.data /\ v1.solo = r.solo
  BY SetAt
<1>2. /\ v2 \in Requests /\ v2.kind = r.kind /\ v2.at = a /\ v2.t = r.t
     /\ v2.doc = d /\ v2.fp = r.fp /\ v2.data = r.data /\ v2.solo = r.solo
  <2> HIDE DEF v1
  <2> QED
    BY <1>1, SetDoc
<1>3. LET v == [v2 EXCEPT !.solo = s] IN
       /\ v \in Requests /\ v.kind = r.kind /\ v.at = a /\ v.t = r.t
       /\ v.doc = d /\ v.fp = r.fp /\ v.data = r.data /\ v.solo = s
  <2> HIDE DEF v2
  <2> QED
    BY <1>2, SetSolo
<1> QED
  BY <1>3 DEF AtDocSolo

KindAtT(r, k, a, u) == [r EXCEPT !.kind = k, !.at = a, !.t = u]

LEMMA SetKindAtT ==
  ASSUME NEW r \in Requests, NEW k \in Kinds, NEW a \in Places, NEW u \in Ids \cup {"none"}
  PROVE  LET v == KindAtT(r, k, a, u) IN
         /\ v \in Requests /\ v.kind = k /\ v.at = a /\ v.t = u
         /\ v.doc = r.doc /\ v.fp = r.fp /\ v.data = r.data /\ v.solo = r.solo
<1> DEFINE v1 == [r EXCEPT !.kind = k]
           v2 == [v1 EXCEPT !.at = a]
<1>1. /\ v1 \in Requests /\ v1.kind = k /\ v1.at = r.at /\ v1.t = r.t
     /\ v1.doc = r.doc /\ v1.fp = r.fp /\ v1.data = r.data /\ v1.solo = r.solo
  BY SetKind
<1>2. /\ v2 \in Requests /\ v2.kind = k /\ v2.at = a /\ v2.t = r.t
     /\ v2.doc = r.doc /\ v2.fp = r.fp /\ v2.data = r.data /\ v2.solo = r.solo
  <2> HIDE DEF v1
  <2> QED
    BY <1>1, SetAt
<1>3. LET v == [v2 EXCEPT !.t = u] IN
       /\ v \in Requests /\ v.kind = k /\ v.at = a /\ v.t = u
       /\ v.doc = r.doc /\ v.fp = r.fp /\ v.data = r.data /\ v.solo = r.solo
  <2> HIDE DEF v2
  <2> QED
    BY <1>2, SetT
<1> QED
  BY <1>3 DEF KindAtT

KindAtTDoc(r, k, a, u, d) == [r EXCEPT !.kind = k, !.at = a, !.t = u, !.doc = d]

LEMMA SetKindAtTDoc ==
  ASSUME NEW r \in Requests, NEW k \in Kinds, NEW a \in Places, NEW u \in Ids \cup {"none"}, NEW d \in Docs
  PROVE  LET v == KindAtTDoc(r, k, a, u, d) IN
         /\ v \in Requests /\ v.kind = k /\ v.at = a /\ v.t = u
         /\ v.doc = d /\ v.fp = r.fp /\ v.data = r.data /\ v.solo = r.solo
<1> DEFINE v1 == [r EXCEPT !.kind = k]
           v2 == [v1 EXCEPT !.at = a]
           v3 == [v2 EXCEPT !.t = u]
<1>1. /\ v1 \in Requests /\ v1.kind = k /\ v1.at = r.at /\ v1.t = r.t
     /\ v1.doc = r.doc /\ v1.fp = r.fp /\ v1.data = r.data /\ v1.solo = r.solo
  BY SetKind
<1>2. /\ v2 \in Requests /\ v2.kind = k /\ v2.at = a /\ v2.t = r.t
     /\ v2.doc = r.doc /\ v2.fp = r.fp /\ v2.data = r.data /\ v2.solo = r.solo
  <2> HIDE DEF v1
  <2> QED
    BY <1>1, SetAt
<1>3. /\ v3 \in Requests /\ v3.kind = k /\ v3.at = a /\ v3.t = u
     /\ v3.doc = r.doc /\ v3.fp = r.fp /\ v3.data = r.data /\ v3.solo = r.solo
  <2> HIDE DEF v2
  <2> QED
    BY <1>2, SetT
<1>4. LET v == [v3 EXCEPT !.doc = d] IN
       /\ v \in Requests /\ v.kind = k /\ v.at = a /\ v.t = u
       /\ v.doc = d /\ v.fp = r.fp /\ v.data = r.data /\ v.solo = r.solo
  <2> HIDE DEF v3
  <2> QED
    BY <1>3, SetDoc
<1> QED
  BY <1>4 DEF KindAtTDoc

At(r, a) == [r EXCEPT !.at = a]

LEMMA MoveAt ==
  ASSUME NEW r \in Requests, NEW a \in Places
  PROVE  LET v == At(r, a) IN
         /\ v \in Requests /\ v.kind = r.kind /\ v.at = a /\ v.t = r.t
         /\ v.doc = r.doc /\ v.fp = r.fp /\ v.data = r.data /\ v.solo = r.solo
  BY SetAt DEF At

\* A request that goes on as a well-formed one leaves all requests well-formed.
LEMMA Becoming ==
  ASSUME TInv, NEW p \in Procs, NEW r \in Requests, r.at # "idle" => r.t \in Ids,
         Become(p, r)
  PROVE  req' \in [Procs -> Requests] /\ Busy'
  BY DEF TInv, TypeOK, Busy, Become

LEMMA Going ==
  ASSUME TInv, NEW p \in Procs, req[p].at # "idle",
         NEW at \in Places, Goes(p, at)
  PROVE  req' \in [Procs -> Requests] /\ Busy'
<1>1. At(req[p], at) \in Requests /\ At(req[p], at).t \in Ids
  BY MoveAt DEF TInv, TypeOK, Busy
<1>2. Become(p, At(req[p], at))
  BY DEF Goes, At
<1> QED
  BY <1>1, <1>2, Becoming

LEMMA Answering ==
  ASSUME TInv, NEW p \in Procs, req[p].at # "idle", NEW ok, Answer(p, ok)
  PROVE  req' \in [Procs -> Requests] /\ Busy'
<1>1. CASE Goes(p, "undo")
  BY <1>1, Going DEF Places
<1>2. CASE Become(p, Idle)
  BY <1>2, IdleIsARequest, Becoming DEF Idle
<1> QED
  BY <1>1, <1>2 DEF Answer

LEMMA Beginning ==
  ASSUME TInv, NEW p \in Procs, NEW t \in Ids, NEW doc \in Docs, NEW kind \in Kinds,
         NEW at \in Places, Begin(p, kind, at, t, doc)
  PROVE  req' \in [Procs -> Requests] /\ Busy'
<1> DEFINE r == KindAtTDoc(Idle, kind, at, t, doc)
<1>1. r \in Requests /\ r.t = t
  BY IdleIsARequest, SetKindAtTDoc
<1>2. Become(p, r)
  BY DEF Begin, KindAtTDoc
<1> QED
  BY <1>1, <1>2, Becoming

LEMMA Disturbing ==
  ASSUME TInv, NEW p \in Procs, NEW r \in Requests, r.at # "idle" => r.t \in Ids,
         NEW t, Disturb(p, r, t)
  PROVE  req' \in [Procs -> Requests] /\ Busy'
<1>1. \A q \in Procs : [req[q] EXCEPT !.solo = FALSE] \in Requests
  BY DEF TInv, TypeOK, Requests
<1>2. \A q \in Procs : req'[q] \in {r, req[q], [req[q] EXCEPT !.solo = FALSE]}
  BY DEF Disturb
<1>3. \A q \in Procs : req'[q] \in Requests
  BY <1>1, <1>2 DEF TInv, TypeOK
<1>4. \A q \in Procs : /\ [req[q] EXCEPT !.solo = FALSE].at = req[q].at
                       /\ [req[q] EXCEPT !.solo = FALSE].t = req[q].t
  BY DEF TInv, TypeOK, Requests
<1>5. Busy'
  BY <1>2, <1>4 DEF Busy, TInv
<1> QED
  BY <1>3, <1>5 DEF Disturb

\* Every mutation of the tables leaves a well-formed recommendation.
LEMMA Reconciling ==
  ASSUME rec \in Recs, NEW rows, NEW r \in Reconciled(rows)
  PROVE  r \in Recs
  BY DEF Reconciled, Recs, Registered

LEMMA Writing ==
  ASSUME TInv, NEW t \in Ids, NEW doc \in Docs, WriteRow(t, doc)
  PROVE  row' \in [Ids -> Docs] /\ rec' \in Recs
  BY Reconciling DEF TInv, TypeOK, WriteRow

LEMMA SettingMode ==
  ASSUME TInv, NEW t \in Ids, NEW mode \in Modes, SetMode(t, mode)
  PROVE  row' \in [Ids -> Docs]
  BY DEF TInv, TypeOK, SetMode, Docs, Modes

\* What a step must keep for TInv.
LEMMA Kept ==
  ASSUME TInv, src' \in 1..MaxSrc, row' \in [Ids -> Docs], snap' \in [Ids -> 0..MaxSrc],
         rec' \in Recs, wanted' \in {"open", "dismissed"}, tainted' \subseteq Ids,
         req' \in [Procs -> Requests], Busy'
  PROVE  TInv'
  BY DEF TInv, TypeOK, Procs

(***************************************************************************)
(* Types are kept by every step: of a refresh, of a handler that goes on,  *)
(* of one that begins, and of the rest.                                    *)
(***************************************************************************)
LEMMA RefreshTypes ==
  ASSUME TInv, NEW p \in Procs, Refresh(p)
  PROVE  TInv'
<1> USE DEF TInv
<1>1. CASE ReadRow(p)
  <2> DEFINE d == IF req[p].kind = "sched" THEN row[req[p].t] ELSE Gone
             s == Refreshing(req[p].t) = {}
             r == AtDocSolo(req[p], "fingerprint", d, s)
  <2>1. req[p].at = "open" /\ req[p].t \in Ids
    BY <1>1 DEF ReadRow, Busy
  <2>2. CASE \E ok \in BOOLEAN : Answer(p, ok)
    <3>1. req' \in [Procs -> Requests] /\ Busy'
      BY <2>1, <2>2, Answering
    <3> QED
      BY <1>1, <3>1, Kept DEF ReadRow, TypeOK
  <2>3. CASE Disturb(p, r, req[p].t)
    <3>1. d \in Docs /\ s \in BOOLEAN
      BY <2>1 DEF TypeOK, Docs
    <3>2. req[p] \in Requests /\ "fingerprint" \in Places
      BY DEF TypeOK, Places
    <3> HIDE DEF d, s
    <3>3. r \in Requests /\ r.t \in Ids
      BY <2>1, <3>1, <3>2, SetAtDocSolo
    <3>4. req' \in [Procs -> Requests] /\ Busy'
      BY <2>3, <3>3, Disturbing
    <3> QED
      BY <1>1, <3>4, Kept DEF ReadRow, TypeOK
  <2> QED
    BY <1>1, <2>2, <2>3 DEF ReadRow, AtDocSolo
<1>2. CASE Fingerprint(p)
  <2>1. req[p].at = "fingerprint" /\ req[p].t \in Ids
    BY <1>2 DEF Fingerprint, Busy
  <2>2. PICK fp \in {src, NoFp} :
          \/ Become(p, Idle)
          \/ Become(p, [req[p] EXCEPT !.at = "read", !.fp = fp, !.doc = Gone])
    BY <1>2 DEF Fingerprint
  <2> DEFINE r == AtFpDoc(req[p], "read", fp, Gone)
  <2>4. /\ fp \in 0..MaxSrc /\ req[p] \in Requests /\ "read" \in Places
        /\ Gone \in Docs
    BY RegistryBounds DEF TypeOK, NoFp, Places, Docs
  <2>5. r \in Requests /\ r.t \in Ids
    BY <2>1, <2>4, SetAtFpDoc
  <2>6. req' \in [Procs -> Requests] /\ Busy'
    <3>1. CASE Become(p, Idle)
      BY <3>1, IdleIsARequest, Becoming DEF Idle
    <3>2. CASE Become(p, r)
      BY <3>2, <2>5, Becoming
    <3> QED
      BY <2>2, <3>1, <3>2 DEF AtFpDoc
  <2> QED
    BY <1>2, <2>6, Kept DEF Fingerprint, TypeOK
<1>3. CASE ReadData(p)
  <2> DEFINE r == AtData(req[p], "swap", src)
  <2>1. r \in Requests /\ r.t \in Ids
    <3>1. /\ req[p] \in Requests /\ "swap" \in Places /\ req[p].t \in Ids
          /\ src \in 0..MaxSrc /\ 0 \in 0..MaxSrc
      BY <1>3, RegistryBounds DEF ReadData, Busy, TypeOK, Places
    <3> QED
      BY <3>1, SetAtData
  <2>2. req' \in [Procs -> Requests] /\ Busy'
    BY <1>3, <2>1, Becoming DEF ReadData, AtData
  <2> QED
    BY <1>3, <2>2, Kept DEF ReadData, TypeOK
<1>4. CASE Swap(p)
  <2> DEFINE r == AtData(req[p], "mark", 0)
  <2>1. r \in Requests /\ r.t \in Ids
    <3>1. /\ req[p] \in Requests /\ "mark" \in Places /\ req[p].t \in Ids
          /\ src \in 0..MaxSrc /\ 0 \in 0..MaxSrc
      BY <1>4, RegistryBounds DEF Swap, Busy, TypeOK, Places
    <3> QED
      BY <3>1, SetAtData
  <2>2. req' \in [Procs -> Requests] /\ Busy'
    BY <1>4, <2>1, Becoming DEF Swap, AtData
  <2>3. snap' \in [Ids -> 0..MaxSrc]
    BY <1>4 DEF Swap, TypeOK, Requests
  <2> QED
    BY <1>4, <2>2, <2>3, Kept DEF Swap, TypeOK
<1>5. CASE RefreshFails(p)
  <2>1. req' \in [Procs -> Requests] /\ Busy'
    BY <1>5, Answering DEF RefreshFails
  <2> QED
    BY <1>5, <2>1, Kept DEF RefreshFails, TypeOK
<1>6. CASE Mark(p)
  <2>1. req' \in [Procs -> Requests] /\ Busy'
    BY <1>6, Answering DEF Mark
  <2>2. req[p].t \in Ids /\ req[p].fp \in 0..MaxSrc
    BY <1>6 DEF Mark, Busy, TypeOK, Requests
  <2>3. row' \in [Ids -> Docs]
    <3>1. CASE row[req[p].t] = Gone
      BY <1>6, <3>1 DEF Mark, TypeOK
    <3>2. CASE row[req[p].t] # Gone
      <4>1. [row[req[p].t] EXCEPT !.fp = req[p].fp] \in Docs
        BY <3>2, <2>2 DEF TypeOK, Docs
      <4> QED
        BY <1>6, <3>2, <4>1 DEF Mark, TypeOK
    <3> QED
      BY <3>1, <3>2
  <2>4. tainted' \subseteq Ids
    BY <1>6, <2>2 DEF Mark, TypeOK
  <2> QED
    BY <1>6, <2>1, <2>3, <2>4, Kept DEF Mark, TypeOK
<1> QED
  BY <1>1, <1>2, <1>3, <1>4, <1>5, <1>6 DEF Refresh

LEMMA ContinuedTypes ==
  ASSUME TInv, NEW p \in Admins, Continued(p)
  PROVE  TInv'
<1> USE DEF TInv
<1>p. p \in Procs
  BY DEF Procs
<1>1. CASE Refused(p)
  <2>1. req' \in [Procs -> Requests] /\ Busy'
    BY <1>p, <1>1, IdleIsARequest, Becoming DEF Refused, Idle
  <2> QED
    BY <1>1, <2>1, Kept DEF Refused, TypeOK
<1>2. CASE Upsert(p)
  <2> DEFINE t == req[p].t
             kind == IF req[p].kind = "save" THEN "now" ELSE "accept"
             r == KindAtT(Idle, kind, "open", t)
  <2>1. t \in Ids /\ req[p].doc \in Docs
    BY <1>p, <1>2 DEF Upsert, Busy, TypeOK, Requests
  <2>2. row' \in [Ids -> Docs] /\ rec' \in Recs
    BY <1>2, <2>1, Writing DEF Upsert
  <2>3. Become(p, r) \/ Become(p, Idle)
    BY <1>2 DEF Upsert, KindAtT
  <2>4. r \in Requests /\ r.t = t
    <3>1. kind \in Kinds /\ "open" \in Places
      BY DEF Kinds, Places
    <3> HIDE DEF kind
    <3> QED
      BY <2>1, <3>1, IdleIsARequest, SetKindAtT
  <2>5. req' \in [Procs -> Requests] /\ Busy'
    <3> HIDE DEF r
    <3>1. CASE Become(p, r)
      BY <1>p, <2>1, <2>4, <3>1, Becoming
    <3>2. CASE Become(p, Idle)
      BY <1>p, <3>2, IdleIsARequest, Becoming DEF Idle
    <3> QED
      BY <2>3, <3>1, <3>2
  <2> QED
    BY <1>2, <2>2, <2>5, Kept DEF Upsert, TypeOK
<1>3. CASE Flip(p)
  <2>1. req[p].at = "flip" /\ req[p].t \in Ids
    BY <1>p, <1>3 DEF Flip, Busy
  <2>2. row' \in [Ids -> Docs]
    BY <1>3, <2>1, SettingMode DEF Flip, Modes
  <2>3. req' \in [Procs -> Requests] /\ Busy'
    <3>1. CASE Become(p, Idle)
      BY <1>p, <3>1, IdleIsARequest, Becoming DEF Idle
    <3>2. CASE Goes(p, "open")
      BY <1>p, <2>1, <3>2, Going DEF Places
    <3> QED
      BY <1>3, <3>1, <3>2 DEF Flip
  <2> QED
    BY <1>3, <2>2, <2>3, Kept DEF Flip, TypeOK
<1>4. CASE SwitchUndone(p)
  <2>1. req[p].t \in Ids
    BY <1>p, <1>4 DEF SwitchUndone, Busy
  <2>2. row' \in [Ids -> Docs]
    BY <1>4, <2>1, SettingMode DEF SwitchUndone, Modes
  <2>3. req' \in [Procs -> Requests] /\ Busy'
    BY <1>p, <1>4, IdleIsARequest, Becoming DEF SwitchUndone, Idle
  <2> QED
    BY <1>4, <2>2, <2>3, Kept DEF SwitchUndone, TypeOK
<1>5. CASE AcceptUndone(p)
  <2>1. req[p].at = "undo" /\ req[p].t \in Ids /\ Gone \in Docs
    BY <1>p, <1>5 DEF AcceptUndone, Busy, Docs
  <2>2. row' \in [Ids -> Docs] /\ rec' \in Recs
    BY <1>5, <2>1, Writing DEF AcceptUndone
  <2>3. req' \in [Procs -> Requests] /\ Busy'
    <3>1. CASE Become(p, Idle)
      BY <1>p, <3>1, IdleIsARequest, Becoming DEF Idle
    <3>2. CASE Goes(p, "drop")
      BY <1>p, <2>1, <3>2, Going DEF Places
    <3> QED
      BY <1>5, <3>1, <3>2 DEF AcceptUndone
  <2> QED
    BY <1>5, <2>2, <2>3, Kept DEF AcceptUndone, TypeOK
<1>6. CASE DropSnapshot(p)
  <2>1. req[p].t \in Ids
    BY <1>p, <1>6 DEF DropSnapshot, Busy
  <2>2. snap' \in [Ids -> 0..MaxSrc] /\ tainted' \subseteq Ids
    BY <1>6, <2>1, RegistryBounds DEF DropSnapshot, TypeOK
  <2>3. Idle.at = "idle"
    BY DEF Idle
  <2>4. req' \in [Procs -> Requests] /\ Busy'
    BY <1>p, <1>6, <2>3, IdleIsARequest, Disturbing DEF DropSnapshot
  <2> QED
    BY <1>6, <2>2, <2>4, Kept DEF DropSnapshot, TypeOK
<1> QED
  BY <1>1, <1>2, <1>3, <1>4, <1>5, <1>6 DEF Continued

LEMMA AskedTypes ==
  ASSUME TInv, NEW p \in Admins, NEW t \in Ids, Asked(p, t)
  PROVE  TInv'
<1> USE DEF TInv
<1>p. p \in Procs /\ Gone \in Docs /\ row[t] \in Docs
  BY DEF Procs, Docs, TypeOK
<1>d. [mode |-> "snapshot", fp |-> NoFp] \in Docs
  BY RegistryBounds DEF Docs, Modes, NoFp
<1>1. CASE RefreshNow(p, t)
  <2>1. req' \in [Procs -> Requests] /\ Busy'
    BY <1>p, <1>1, Beginning DEF RefreshNow, Kinds, Places
  <2> QED
    BY <1>1, <2>1, Kept DEF RefreshNow, TypeOK
<1>2. CASE AcceptChecks(p, t)
  <2>1. CASE Registered(row) = {}
    <3>1. req' \in [Procs -> Requests] /\ Busy'
      BY <1>p, <1>d, <1>2, <2>1, Beginning DEF AcceptChecks, Kinds, Places
    <3> QED
      BY <1>2, <2>1, <3>1, Kept DEF AcceptChecks, TypeOK
  <2>2. CASE Registered(row) # {}
    <3>1. rec' \in Recs
      BY <1>2, <2>2, Reconciling DEF AcceptChecks, TypeOK
    <3>2. req' \in [Procs -> Requests] /\ Busy'
      BY <1>2, <2>2 DEF AcceptChecks, TypeOK, Busy
    <3> QED
      BY <1>2, <3>1, <3>2, Kept DEF AcceptChecks, TypeOK
  <2> QED
    BY <2>1, <2>2
<1>3. CASE RelateReads(p, t)
  <2>1. req' \in [Procs -> Requests] /\ Busy'
    BY <1>p, <1>3, Beginning DEF RelateReads, Kinds, Places
  <2> QED
    BY <1>3, <2>1, Kept DEF RelateReads, TypeOK
<1>4. CASE SwitchToLive(p, t)
  <2>1. row' \in [Ids -> Docs]
    BY <1>4, SettingMode DEF SwitchToLive, Modes
  <2>2. Busy'
    BY <1>4 DEF SwitchToLive, Busy
  <2> QED
    BY <1>4, <2>1, <2>2, Kept DEF SwitchToLive, TypeOK
<1>5. CASE SwitchChecks(p, t)
  <2>1. req' \in [Procs -> Requests] /\ Busy'
    BY <1>p, <1>5, Beginning DEF SwitchChecks, Kinds, Places
  <2> QED
    BY <1>5, <2>1, Kept DEF SwitchChecks, TypeOK
<1>6. CASE Delete(p, t)
  <2>1. req' \in [Procs -> Requests] /\ Busy'
    BY <1>p, <1>6, Beginning DEF Delete, Kinds, Places
  <2>2. row' \in [Ids -> Docs] /\ rec' \in Recs
    BY <1>p, <1>6, Writing DEF Delete
  <2> QED
    BY <1>6, <2>1, <2>2, Kept DEF Delete, TypeOK
<1>7. ASSUME NEW mode \in Modes, SaveChecks(p, t, mode)
      PROVE  TInv'
  <2>1. [mode |-> mode, fp |-> NoFp] \in Docs
    BY RegistryBounds DEF Docs, NoFp
  <2>2. req' \in [Procs -> Requests] /\ Busy'
    BY <1>p, <1>7, <2>1, Beginning DEF SaveChecks, Kinds, Places
  <2> QED
    BY <1>7, <2>2, Kept DEF SaveChecks, TypeOK
<1> QED
  BY <1>1, <1>2, <1>3, <1>4, <1>5, <1>6, <1>7 DEF Asked

LEMMA InitialTypes == Init => TInv
<1> SUFFICES ASSUME Init PROVE TInv
  OBVIOUS
<1>1. src \in 1..MaxSrc /\ row \in [Ids -> Docs] /\ snap \in [Ids -> 0..MaxSrc]
  BY RegistryBounds DEF Init, Docs
<1>2. rec \in Recs
  BY DEF Init, NoRec, Recs
<1>3. req \in [Procs -> Requests]
  BY IdleIsARequest DEF Init
<1>4. Busy
  BY DEF Init, Busy, Idle
<1> QED
  BY <1>1, <1>2, <1>3, <1>4 DEF Init, TInv, TypeOK

LEMMA NextTypes == TInv /\ [Next]_vars => TInv'
<1> SUFFICES ASSUME TInv, [Next]_vars PROVE TInv'
  OBVIOUS
<1> USE DEF TInv
<1>1. ASSUME NEW p \in Procs, Refresh(p) PROVE TInv'
  BY <1>1, RefreshTypes
<1>2. ASSUME NEW p \in Admins, Continued(p) PROVE TInv'
  BY <1>2, ContinuedTypes
<1>3. ASSUME NEW p \in Admins, NEW t \in Ids, Asked(p, t) PROVE TInv'
  BY <1>3, AskedTypes
<1>4. ASSUME NEW t \in Ids, RefreshDue(t) PROVE TInv'
  <2>1. req' \in [Procs -> Requests] /\ Busy'
    BY <1>4, Beginning DEF RefreshDue, Kinds, Places, Procs, Docs
  <2> QED
    BY <1>4, <2>1, Kept DEF RefreshDue, TypeOK
<1>5. CASE Recommend
  BY <1>5, Kept DEF Recommend, TypeOK, Busy, NoRec, Recs
<1>6. ASSUME NEW s \in {"open", "dismissed"}, SetStatus(s) PROVE TInv'
  <2>1. rec' \in Recs
    BY <1>6 DEF SetStatus, TypeOK, Recs
  <2> QED
    BY <1>6, <2>1, Kept DEF SetStatus, TypeOK, Busy
<1>7. CASE SourceChanges
  BY <1>7, RegistryBounds, Kept DEF SourceChanges, TypeOK, Busy
<1>8. CASE Restart
  <2>1. req' \in [Procs -> Requests] /\ Busy'
    BY <1>8, IdleIsARequest DEF Restart, Busy, Idle
  <2> QED
    BY <1>8, <2>1, Kept DEF Restart, TypeOK
<1>9. CASE UNCHANGED vars
  BY <1>9, Kept DEF vars, TypeOK, Busy
<1> QED
  BY <1>1, <1>2, <1>3, <1>4, <1>5, <1>6, <1>7, <1>8, <1>9 DEF Next

LEMMA TypesHold == Spec => []TInv
  BY InitialTypes, NextTypes, PTL DEF Spec

(***************************************************************************)
(* Every reachable state is well-formed, for any number of ids, requests   *)
(* and versions (the fields the registry keeps of a table and of a          *)
(* recommendation).                                                        *)
(***************************************************************************)
THEOREM TypeCorrect == Spec => []TypeOK
<1>1. TInv => TypeOK
  BY DEF TInv
<1> QED
  BY <1>1, TypesHold, PTL

-----------------------------------------------------------------------------
(***************************************************************************)
(* The recommendation and the registry                                     *)
(***************************************************************************)

\* Both properties of the recommendation, for a record, a set of registered
\* ids and the last decision.
Tracks(r, ids) ==
  r.status # "none" =>
    /\ r.status = "registered" <=> ids # {}
    /\ r.status = "registered" => r.of \in ids
Stands(r, said) ==
  /\ r.status \in {"open", "dismissed"} => r.status = said
  /\ r.status = "registered" => r.prior = said

RecInv == Tracks(rec, Registered(row)) /\ Stands(rec, wanted)

\* Reconciling makes the record fit the tables, whatever it was before, and
\* keeps what was decided.
LEMMA ReconciledFits ==
  ASSUME rec \in Recs, Stands(rec, wanted), NEW rows, NEW r \in Reconciled(rows)
  PROVE  Tracks(r, Registered(rows)) /\ Stands(r, wanted)
<1>1. CASE rec.status = "none"
  BY <1>1 DEF Reconciled, Tracks, Stands
<1>2. CASE rec.status # "none" /\ Registered(rows) # {}
  <2>1. PICK t \in Registered(rows) :
          r = [status |-> "registered",
               prior |-> IF rec.status = "registered" THEN rec.prior ELSE rec.status,
               of |-> t]
    BY <1>2 DEF Reconciled
  <2> QED
    BY <1>2, <2>1 DEF Tracks, Stands, Recs
<1>3. CASE rec.status = "registered" /\ Registered(rows) = {}
  BY <1>3 DEF Reconciled, Tracks, Stands, Recs
<1>4. CASE rec.status \in {"open", "dismissed"} /\ Registered(rows) = {}
  BY <1>4 DEF Reconciled, Tracks, Stands, Recs
<1> QED
  BY <1>1, <1>2, <1>3, <1>4 DEF Recs

LEMMA WritingFits ==
  ASSUME TInv, RecInv, NEW t, NEW doc, WriteRow(t, doc), UNCHANGED wanted
  PROVE  RecInv'
  BY ReconciledFits DEF TInv, TypeOK, RecInv, WriteRow, Registered, Tracks, Stands

\* A step that registers and removes no id and leaves the record alone.
LEMMA FramingFits ==
  ASSUME RecInv, Registered(row') = Registered(row), UNCHANGED <<rec, wanted>>
  PROVE  RecInv'
  BY DEF RecInv, Registered, Tracks, Stands

LEMMA ModeRegistersNothing ==
  ASSUME TInv, NEW t \in Ids, NEW mode \in Modes, SetMode(t, mode)
  PROVE  Registered(row') = Registered(row)
<1>1. CASE row[t] = Gone
  BY <1>1 DEF SetMode
<1>2. CASE row[t] # Gone
  <2>1. [row[t] EXCEPT !.mode = mode] # Gone
    BY <1>2 DEF TInv, TypeOK, Docs, Modes, Gone
  <2> QED
    BY <1>2, <2>1 DEF SetMode, TInv, TypeOK, Registered
<1> QED
  BY <1>1, <1>2

\* mark_refreshed finds the row gone and leaves it so, or keeps its mode.
LEMMA MarkingKeepsModes ==
  ASSUME TInv, NEW p \in Procs, Mark(p)
  PROVE  /\ Registered(row') = Registered(row)
         /\ \A t \in Ids : row'[t].mode = row[t].mode
<1> DEFINE t == req[p].t
<1>1. CASE row[t] = Gone
  BY <1>1 DEF Mark
<1>2. CASE row[t] # Gone
  <2>1. /\ [row[t] EXCEPT !.fp = req[p].fp].mode = row[t].mode
        /\ t \in Ids
    BY <1>2 DEF Mark, TInv, TypeOK, Busy, Docs
  <2>2. row' = [row EXCEPT ![t] = [row[t] EXCEPT !.fp = req[p].fp]]
    BY <1>2 DEF Mark
  <2>3. row[t].mode \in Modes /\ Gone.mode = "gone"
    BY <1>2, <2>1 DEF TInv, TypeOK, Docs, Gone
  <2>4. [row[t] EXCEPT !.fp = req[p].fp] # Gone
    BY <2>1, <2>3 DEF Modes
  <2> HIDE DEF t
  <2>5. \A u \in Ids : row'[u].mode = row[u].mode /\ (row'[u] = Gone <=> row[u] = Gone)
    BY <1>2, <2>1, <2>2, <2>4 DEF TInv, TypeOK
  <2> QED
    BY <2>5 DEF Registered
<1> QED
  BY <1>1, <1>2

LEMMA RecommendationFits == TInv /\ RecInv /\ [Next]_vars => RecInv'
<1> SUFFICES ASSUME TInv, RecInv, [Next]_vars PROVE RecInv'
  OBVIOUS
<1>1. ASSUME NEW p \in Procs, Refresh(p) PROVE RecInv'
  <2>1. Registered(row') = Registered(row)
    <3>1. CASE Mark(p)
      BY <3>1, MarkingKeepsModes
    <3>2. CASE ~Mark(p)
      BY <1>1, <3>2 DEF Refresh, ReadRow, Fingerprint, ReadData, Swap, RefreshFails
    <3> QED
      BY <3>1, <3>2
  <2>2. UNCHANGED <<rec, wanted>>
    BY <1>1 DEF Refresh, ReadRow, Fingerprint, ReadData, Swap, RefreshFails, Mark
  <2> QED
    BY <2>1, <2>2, FramingFits
<1>2. ASSUME NEW p \in Admins, Continued(p) PROVE RecInv'
  <2>1. req[p].at # "idle" => req[p].t \in Ids
    BY DEF TInv, Busy, Procs
  <2>2. CASE Refused(p) \/ DropSnapshot(p)
    BY <2>2, FramingFits DEF Refused, DropSnapshot
  <2>3. CASE Upsert(p) \/ AcceptUndone(p)
    BY <2>3, WritingFits DEF Upsert, AcceptUndone
  <2>4. CASE Flip(p) \/ SwitchUndone(p)
    BY <2>1, <2>4, ModeRegistersNothing, FramingFits DEF Flip, SwitchUndone, Modes
  <2> QED
    BY <1>2, <2>2, <2>3, <2>4 DEF Continued
<1>3. ASSUME NEW p \in Admins, NEW t \in Ids, Asked(p, t) PROVE RecInv'
  <2>1. CASE \/ RefreshNow(p, t) \/ RelateReads(p, t) \/ SwitchChecks(p, t)
             \/ \E mode \in Modes : SaveChecks(p, t, mode)
    BY <2>1, FramingFits DEF RefreshNow, RelateReads, SwitchChecks, SaveChecks
  <2>2. CASE SwitchToLive(p, t)
    BY <2>2, ModeRegistersNothing, FramingFits DEF SwitchToLive, Modes
  <2>3. CASE Delete(p, t)
    BY <2>3, WritingFits DEF Delete
  <2>4. CASE AcceptChecks(p, t)
    <3>1. CASE UNCHANGED rec
      BY <2>4, <3>1, FramingFits DEF AcceptChecks
    <3>2. CASE rec' \in Reconciled(row)
      BY <2>4, <3>2, ReconciledFits DEF AcceptChecks, RecInv, TInv, TypeOK, Registered
    <3> QED
      BY <2>4, <3>1, <3>2 DEF AcceptChecks
  <2> QED
    BY <1>3, <2>1, <2>2, <2>3, <2>4 DEF Asked
<1>4. CASE (\E t \in Ids : RefreshDue(t)) \/ SourceChanges \/ Restart \/ UNCHANGED vars
  BY <1>4, FramingFits DEF RefreshDue, SourceChanges, Restart, vars
<1>5. CASE Recommend
  BY <1>5 DEF Recommend, RecInv, Tracks, Stands, NoRec, Registered
<1>6. ASSUME NEW s \in {"open", "dismissed"}, SetStatus(s) PROVE RecInv'
  <2>1. rec'.status = s /\ UNCHANGED row /\ wanted' = s
    BY <1>6 DEF SetStatus, TInv, TypeOK, Recs
  <2>2. Registered(row) = {}
    BY <1>6 DEF SetStatus, RecInv, Tracks
  <2> QED
    BY <2>1, <2>2 DEF RecInv, Tracks, Stands, Registered
<1> QED
  BY <1>1, <1>2, <1>3, <1>4, <1>5, <1>6 DEF Next

LEMMA RecommendationHolds == Spec => []RecInv
<1>1. Init => RecInv
  BY DEF Init, RecInv, Tracks, Stands, NoRec
<1> QED
  BY <1>1, TypesHold, RecommendationFits, PTL DEF Spec

(***************************************************************************)
(* A recommendation is `registered' exactly while a table of its physical  *)
(* key is, through saves, accepts rolled back and removals in any order.   *)
(***************************************************************************)
THEOREM RecommendationTracks == Spec => []RecTracksRegistry
<1>1. RecInv => RecTracksRegistry
  BY DEF RecInv, Tracks, RecTracksRegistry
<1> QED
  BY <1>1, RecommendationHolds, PTL

(***************************************************************************)
(* What an administrator decided of a recommendation stands when the table *)
(* is registered and removed again.                                        *)
(***************************************************************************)
THEOREM DecisionStands == Spec => []DismissalStands
<1>1. RecInv => DismissalStands
  BY DEF RecInv, Stands, DismissalStands
<1> QED
  BY <1>1, RecommendationHolds, PTL

(***************************************************************************)
(* No step of a refresh registers a table that was removed, or changes a   *)
(* mode that was set, while its query ran.                                 *)
(***************************************************************************)
THEOREM RefreshKeepsTheRow == Spec => RefreshLeavesTheRow
<1>1. TInv /\ [Next]_vars =>
        [\A p \in Procs : Refresh(p) =>
           \A t \in Ids : row'[t].mode = row[t].mode]_vars
  <2> SUFFICES ASSUME TInv, NEW p \in Procs, Refresh(p)
               PROVE  \A t \in Ids : row'[t].mode = row[t].mode
    OBVIOUS
  <2>1. CASE Mark(p)
    BY <2>1, MarkingKeepsModes
  <2>2. CASE ~Mark(p)
    BY <2>2 DEF Refresh, ReadRow, Fingerprint, ReadData, Swap, RefreshFails
  <2> QED
    BY <2>1, <2>2
<1> QED
  BY <1>1, TypesHold, PTL DEF Spec, RefreshLeavesTheRow

-----------------------------------------------------------------------------
(***************************************************************************)
(* Fingerprints and snapshots                                              *)
(***************************************************************************)

UnderWay == {"fingerprint", "read", "swap", "mark"}

\* No fingerprint that the registry holds of t, or that a document still to
\* be written would bring, is newer than n.
AtMost(t, n) ==
  /\ row[t].fp <= n
  /\ \A q \in Procs : req[q].at = "upsert" /\ req[q].t = t => req[q].doc.fp <= n

\* A refresh that has run alone is the only one of its table.
SoloInv ==
  \A p, q \in Procs :
     /\ req[p].at \in UnderWay /\ req[q].at \in UnderWay
     /\ req[p].t = req[q].t /\ req[p].solo
     => p = q

\* What a refresh knows of its fingerprint and of its data.
FpInv ==
  /\ \A t \in Ids : AtMost(t, src)
  /\ \A p \in Procs : req[p].at \in {"read", "swap", "mark"} => req[p].fp <= src
  /\ \A p \in Procs : req[p].at = "swap" => req[p].fp <= req[p].data
  /\ \A p \in Procs : req[p].at = "swap" /\ (req[p].solo \/ req[p].t \notin tainted)
                        => AtMost(req[p].t, req[p].data)
  /\ \A p \in Procs : req[p].at = "mark" /\ req[p].solo
                        => /\ req[p].fp <= snap[req[p].t]
                           /\ AtMost(req[p].t, snap[req[p].t])
  /\ \A t \in Ids \ tainted : AtMost(t, snap[t])

\* q goes on where it was, or was disturbed there.
Milder(q) ==
  /\ req'[q].at = req[q].at /\ req'[q].t = req[q].t /\ req'[q].doc = req[q].doc
  /\ req'[q].fp = req[q].fp /\ req'[q].data = req[q].data
  /\ req'[q].solo => req[q].solo

\* q has read nothing of the source, and what it may write is nothing newer.
Early(q) ==
  /\ req'[q].at \notin {"read", "swap", "mark"}
  /\ req'[q].at = "upsert" =>
       \A n \in Nat : AtMost(req'[q].t, n) => req'[q].doc.fp <= n

\* Nor is q refreshing at all.
Harmless(q) == Early(q) /\ req'[q].at \notin UnderWay

LEMMA Numbers ==
  ASSUME TInv
  PROVE  /\ src \in Nat
         /\ \A t \in Ids : row[t].fp \in Nat /\ snap[t] \in Nat
         /\ \A q \in Procs : req[q].fp \in Nat /\ req[q].data \in Nat /\ req[q].doc.fp \in Nat
<1>1. \A d \in Docs : d.fp \in Nat
  BY DEF Docs, Gone, NoFp
<1> QED
  BY <1>1, RegistryBounds DEF TInv, TypeOK, Requests

LEMMA AtMostGrows ==
  ASSUME TInv, NEW t \in Ids, NEW m \in Nat, NEW n \in Nat, m <= n, AtMost(t, m)
  PROVE  AtMost(t, n)
  BY Numbers DEF AtMost

\* A step that moves no refresh on, and brings no newer fingerprint.
LEMMA EarlyStep ==
  ASSUME TInv, TInv', FpInv, src <= src', UNCHANGED <<snap, tainted>>,
         \A q \in Procs : Milder(q) \/ Early(q),
         \A t \in Ids, n \in Nat : AtMost(t, n) => row'[t].fp <= n
  PROVE  FpInv'
<1>2. ASSUME NEW t \in Ids, NEW n \in Nat, AtMost(t, n)
      PROVE  AtMost(t, n)'
  <2>1. ASSUME NEW q \in Procs, req'[q].at = "upsert", req'[q].t = t
        PROVE  req'[q].doc.fp <= n
    BY <1>2, <2>1 DEF Milder, Early, AtMost
  <2> QED
    BY <1>2, <2>1 DEF AtMost, Procs
<1>3. \A t \in Ids : AtMost(t, src)'
  <2> TAKE t \in Ids
  <2>0. src \in Nat /\ src' \in Nat
    BY Numbers, RegistryBounds DEF TInv, TypeOK
  <2>1. AtMost(t, src')
    BY <2>0, AtMostGrows DEF FpInv
  <2> DEFINE n == src'
  <2>2. n \in Nat /\ AtMost(t, n)
    BY <2>0, <2>1
  <2>3. row'[t].fp <= src'
    BY <2>2
  <2>4. ASSUME NEW q \in Procs, req'[q].at = "upsert", req'[q].t = t
        PROVE  req'[q].doc.fp <= src'
    BY <2>2, <2>4 DEF Milder, Early, AtMost
  <2> QED
    BY <2>3, <2>4 DEF AtMost, Procs
<1>4. \A p \in Procs : req'[p].at \in {"read", "swap", "mark"} => req'[p].fp <= src'
  BY Numbers, RegistryBounds DEF TInv, TypeOK, FpInv, Milder, Early, UnderWay
<1>5. \A p \in Procs : req'[p].at = "swap" => req'[p].fp <= req'[p].data
  BY DEF FpInv, Milder, Early, UnderWay
<1>6. ASSUME NEW p \in Procs, req'[p].at \in {"read", "swap", "mark"}
      PROVE  Milder(p) /\ req[p].t \in Ids
  BY <1>6 DEF Early, Milder, UnderWay, TInv, Busy
<1>7. ASSUME NEW p \in Procs, req'[p].at = "swap", req'[p].solo \/ req'[p].t \notin tainted'
      PROVE  AtMost(req[p].t, req[p].data)'
  <2>1. Milder(p) /\ req[p].t \in Ids
    BY <1>6, <1>7 DEF UnderWay
  <2>2. AtMost(req[p].t, req[p].data)
    BY <1>7, <2>1 DEF Milder, FpInv
  <2> DEFINE t == req[p].t
             n == req[p].data
  <2>3. n \in Nat /\ t \in Ids /\ AtMost(t, n) /\ req'[p].t = t /\ req'[p].data = n
    BY <2>1, <2>2, Numbers DEF Milder
  <2> HIDE DEF t, n
  <2>4. row'[t].fp <= n
    BY <2>3
  <2>5. ASSUME NEW q \in Procs, req'[q].at = "upsert", req'[q].t = t
        PROVE  req'[q].doc.fp <= n
    BY <2>3, <2>5 DEF Milder, Early, AtMost
  <2> QED
    BY <2>3, <2>4, <2>5 DEF AtMost, Procs
<1>8. ASSUME NEW p \in Procs, req'[p].at = "mark", req'[p].solo
      PROVE  req'[p].fp <= snap'[req'[p].t] /\ AtMost(req[p].t, snap[req[p].t])'
  <2>1. Milder(p) /\ req[p].t \in Ids
    BY <1>6, <1>8 DEF UnderWay
  <2>2. req[p].fp <= snap[req[p].t] /\ AtMost(req[p].t, snap[req[p].t])
    BY <1>8, <2>1 DEF Milder, FpInv
  <2> DEFINE t == req[p].t
             n == snap[t]
  <2>3. n \in Nat /\ t \in Ids /\ AtMost(t, n) /\ req'[p].t = t /\ snap'[req'[p].t] = n
    BY <2>1, <2>2, Numbers DEF Milder
  <2> HIDE DEF t, n
  <2>4. row'[t].fp <= n
    BY <2>3
  <2>5. ASSUME NEW q \in Procs, req'[q].at = "upsert", req'[q].t = t
        PROVE  req'[q].doc.fp <= n
    BY <2>3, <2>5 DEF Milder, Early, AtMost
  <2>6. req'[p].fp <= snap'[req'[p].t]
    BY <2>1, <2>2 DEF Milder
  <2> QED
    BY <2>3, <2>4, <2>5, <2>6 DEF AtMost, Procs
<1>9. ASSUME NEW t \in Ids \ tainted'
      PROVE  AtMost(t, snap[t])'
  <2> DEFINE n == snap[t]
  <2>1. n \in Nat /\ AtMost(t, n) /\ snap'[t] = n
    BY Numbers DEF FpInv
  <2> HIDE DEF n
  <2>2. row'[t].fp <= n
    BY <2>1
  <2>3. ASSUME NEW q \in Procs, req'[q].at = "upsert", req'[q].t = t
        PROVE  req'[q].doc.fp <= n
    BY <2>1, <2>3 DEF Milder, Early, AtMost
  <2> QED
    BY <2>1, <2>2, <2>3 DEF AtMost, Procs
<1> QED
  BY <1>3, <1>4, <1>5, <1>7, <1>8, <1>9 DEF FpInv, Procs

\* A step that leaves every refresh where it is, or ends it.
LEMMA QuietStep ==
  ASSUME TInv, TInv', SoloInv, FpInv, src <= src', UNCHANGED <<snap, tainted>>,
         \A q \in Procs : Milder(q) \/ Harmless(q),
         \A t \in Ids, n \in Nat : AtMost(t, n) => row'[t].fp <= n
  PROVE  SoloInv' /\ FpInv'
<1>1. SoloInv'
  BY DEF SoloInv, Milder, Harmless
<1>2. FpInv'
  BY EarlyStep DEF Harmless
<1> QED
  BY <1>1, <1>2

\* A request that goes on where nothing is refreshed and nothing newer is
\* about to be written.
LEMMA QuietRequest ==
  ASSUME TInv, NEW p \in Procs, NEW r, Become(p, r), r.at \notin UnderWay,
         r.at = "upsert" => \A n \in Nat : AtMost(r.t, n) => r.doc.fp <= n
  PROVE  \A q \in Procs : Milder(q) \/ Harmless(q)
  BY DEF TInv, TypeOK, Become, Milder, Harmless, Early, UnderWay

LEMMA QuietAnswer ==
  ASSUME TInv, NEW p \in Procs, NEW ok, Answer(p, ok)
  PROVE  \A q \in Procs : Milder(q) \/ Harmless(q)
<1>1. CASE Goes(p, "undo")
  <2>1. At(req[p], "undo").at = "undo"
    BY MoveAt DEF TInv, TypeOK, Places
  <2>2. Become(p, At(req[p], "undo"))
    BY <1>1 DEF Goes, At
  <2> QED
    BY <2>1, <2>2, QuietRequest DEF UnderWay
<1>2. CASE Become(p, Idle)
  BY <1>2, QuietRequest DEF Idle, UnderWay
<1> QED
  BY <1>1, <1>2 DEF Answer

LEMMA QuietGoing ==
  ASSUME TInv, NEW p \in Procs, NEW at \in Places \ (UnderWay \cup {"upsert"}), Goes(p, at)
  PROVE  \A q \in Procs : Milder(q) \/ Harmless(q)
<1>1. At(req[p], at).at = at
  BY MoveAt DEF TInv, TypeOK
<1>2. Become(p, At(req[p], at))
  BY DEF Goes, At
<1> QED
  BY <1>1, <1>2, QuietRequest

LEMMA QuietBeginning ==
  ASSUME TInv, NEW p \in Procs, NEW t \in Ids, NEW doc \in Docs, NEW kind \in Kinds,
         NEW at \in Places \ UnderWay, Begin(p, kind, at, t, doc),
         doc.fp = NoFp \/ doc.fp = row[t].fp
  PROVE  \A q \in Procs : Milder(q) \/ Harmless(q)
<1> DEFINE r == KindAtTDoc(Idle, kind, at, t, doc)
<1>1. r.at = at /\ r.t = t /\ r.doc = doc
  BY IdleIsARequest, SetKindAtTDoc
<1>2. Become(p, r)
  BY DEF Begin, KindAtTDoc
<1>3. \A n \in Nat : AtMost(t, n) => doc.fp <= n
  BY DEF AtMost, NoFp
<1> HIDE DEF r
<1> QED
  BY <1>1, <1>2, <1>3, QuietRequest

LEMMA QuietMode ==
  ASSUME TInv, NEW u \in Ids, NEW mode \in Modes, SetMode(u, mode)
  PROVE  \A t \in Ids, n \in Nat : AtMost(t, n) => row'[t].fp <= n
<1>1. \A t \in Ids : row'[t].fp = row[t].fp
  <2>1. CASE row[u] = Gone
    BY <2>1 DEF SetMode
  <2>2. CASE row[u] # Gone
    <3>1. [row[u] EXCEPT !.mode = mode].fp = row[u].fp
      BY <2>2 DEF TInv, TypeOK, Docs
    <3>2. row' = [row EXCEPT ![u] = [row[u] EXCEPT !.mode = mode]]
      BY <2>2 DEF SetMode
    <3> DEFINE d == [row[u] EXCEPT !.mode = mode]
    <3>3. d.fp = row[u].fp /\ row' = [row EXCEPT ![u] = d]
      BY <3>1, <3>2
    <3> HIDE DEF d
    <3> QED
      BY <3>3 DEF TInv, TypeOK
  <2> QED
    BY <2>1, <2>2
<1> QED
  BY <1>1 DEF AtMost

LEMMA QuietRow ==
  ASSUME TInv, NEW u \in Ids, NEW doc, WriteRow(u, doc),
         \A n \in Nat : AtMost(u, n) => doc.fp <= n
  PROVE  \A t \in Ids, n \in Nat : AtMost(t, n) => row'[t].fp <= n
  BY DEF TInv, TypeOK, WriteRow, AtMost

\* Quiet steps of handlers and of the rest.
LEMMA HandlersAreQuiet ==
  ASSUME TInv, TInv', SoloInv, FpInv, NEW p \in Admins, Continued(p), ~DropSnapshot(p)
  PROVE  SoloInv' /\ FpInv'
<1>p. p \in Procs /\ src <= src
  BY Numbers DEF Procs
<1>s. \A t \in Ids, n \in Nat : AtMost(t, n) => row[t].fp <= n
  BY DEF AtMost
<1>1. CASE Refused(p)
  <2>1. \A q \in Procs : Milder(q) \/ Harmless(q)
    BY <1>p, <1>1, QuietRequest DEF Refused, Idle, UnderWay
  <2> QED
    BY <1>p, <1>s, <1>1, <2>1, QuietStep DEF Refused
<1>2. CASE Upsert(p)
  <2> DEFINE t == req[p].t
             kind == IF req[p].kind = "save" THEN "now" ELSE "accept"
             r == KindAtT(Idle, kind, "open", t)
  <2>1. t \in Ids /\ \A n \in Nat : AtMost(t, n) => req[p].doc.fp <= n
    BY <1>p, <1>2 DEF Upsert, TInv, Busy, AtMost
  <2>2. \A u \in Ids, n \in Nat : AtMost(u, n) => row'[u].fp <= n
    BY <1>2, <2>1, QuietRow DEF Upsert
  <2>3. Become(p, r) \/ Become(p, Idle)
    BY <1>2 DEF Upsert, KindAtT
  <2>4. r.at = "open"
    <3>1. kind \in Kinds /\ "open" \in Places
      BY DEF Kinds, Places
    <3> HIDE DEF kind
    <3> QED
      BY <2>1, <3>1, IdleIsARequest, SetKindAtT
  <2> HIDE DEF r
  <2>5. \A q \in Procs : Milder(q) \/ Harmless(q)
    BY <1>p, <2>3, <2>4, QuietRequest DEF Idle, UnderWay
  <2> QED
    BY <1>p, <1>2, <2>2, <2>5, QuietStep DEF Upsert
<1>3. CASE Flip(p)
  <2>1. \A q \in Procs : Milder(q) \/ Harmless(q)
    <3>1. CASE Become(p, Idle)
      BY <1>p, <3>1, QuietRequest DEF Idle, UnderWay
    <3>2. CASE Goes(p, "open")
      BY <1>p, <3>2, QuietGoing DEF Places, UnderWay
    <3> QED
      BY <1>3, <3>1, <3>2 DEF Flip
  <2>2. \A t \in Ids, n \in Nat : AtMost(t, n) => row'[t].fp <= n
    BY <1>p, <1>3, QuietMode DEF Flip, Modes, TInv, Busy
  <2> QED
    BY <1>p, <1>3, <2>1, <2>2, QuietStep DEF Flip
<1>4. CASE SwitchUndone(p)
  <2>1. \A q \in Procs : Milder(q) \/ Harmless(q)
    BY <1>p, <1>4, QuietRequest DEF SwitchUndone, Idle, UnderWay
  <2>2. \A t \in Ids, n \in Nat : AtMost(t, n) => row'[t].fp <= n
    BY <1>p, <1>4, QuietMode DEF SwitchUndone, Modes, TInv, Busy
  <2> QED
    BY <1>p, <1>4, <2>1, <2>2, QuietStep DEF SwitchUndone
<1>5. CASE AcceptUndone(p)
  <2>1. \A q \in Procs : Milder(q) \/ Harmless(q)
    <3>1. CASE Become(p, Idle)
      BY <1>p, <3>1, QuietRequest DEF Idle, UnderWay
    <3>2. CASE Goes(p, "drop")
      BY <1>p, <3>2, QuietGoing DEF Places, UnderWay
    <3> QED
      BY <1>5, <3>1, <3>2 DEF AcceptUndone
  <2>2. \A t \in Ids, n \in Nat : AtMost(t, n) => row'[t].fp <= n
    BY <1>p, <1>5, QuietRow DEF AcceptUndone, Gone, NoFp, TInv, Busy
  <2> QED
    BY <1>p, <1>5, <2>1, <2>2, QuietStep DEF AcceptUndone
<1> QED
  BY <1>1, <1>2, <1>3, <1>4, <1>5 DEF Continued

LEMMA RequestsAreQuiet ==
  ASSUME TInv, TInv', SoloInv, FpInv, NEW p \in Admins, NEW t \in Ids, Asked(p, t)
  PROVE  SoloInv' /\ FpInv'
<1>p. /\ p \in Procs /\ src <= src /\ Gone \in Docs /\ Gone.fp = NoFp /\ row[t] \in Docs
      /\ \A mode \in Modes : [mode |-> mode, fp |-> NoFp] \in Docs
  BY Numbers, RegistryBounds DEF Procs, Docs, Gone, NoFp, TInv, TypeOK
<1>s. \A u \in Ids, n \in Nat : AtMost(u, n) => row[u].fp <= n
  BY DEF AtMost
<1>1. CASE RefreshNow(p, t)
  <2>1. \A q \in Procs : Milder(q) \/ Harmless(q)
    BY <1>p, <1>1, QuietBeginning DEF RefreshNow, Kinds, Places, UnderWay
  <2> QED
    BY <1>p, <1>s, <1>1, <2>1, QuietStep DEF RefreshNow
<1>2. CASE AcceptChecks(p, t)
  <2>1. \A q \in Procs : Milder(q) \/ Harmless(q)
    <3>1. CASE Registered(row) = {}
      BY <1>p, <1>2, <3>1, QuietBeginning DEF AcceptChecks, Kinds, Places, UnderWay, Modes
    <3>2. CASE UNCHANGED req
      BY <3>2 DEF Milder
    <3> QED
      BY <1>2, <3>1, <3>2 DEF AcceptChecks
  <2> QED
    BY <1>p, <1>s, <1>2, <2>1, QuietStep DEF AcceptChecks
<1>3. CASE RelateReads(p, t)
  <2>1. \A q \in Procs : Milder(q) \/ Harmless(q)
    BY <1>p, <1>3, QuietBeginning DEF RelateReads, Kinds, Places, UnderWay
  <2> QED
    BY <1>p, <1>s, <1>3, <2>1, QuietStep DEF RelateReads
<1>4. CASE SwitchToLive(p, t)
  <2>1. \A q \in Procs : Milder(q)
    BY <1>4 DEF SwitchToLive, Milder
  <2>2. \A u \in Ids, n \in Nat : AtMost(u, n) => row'[u].fp <= n
    BY <1>4, QuietMode DEF SwitchToLive, Modes
  <2> QED
    BY <1>p, <1>4, <2>1, <2>2, QuietStep DEF SwitchToLive
<1>5. CASE SwitchChecks(p, t)
  <2>1. \A q \in Procs : Milder(q) \/ Harmless(q)
    BY <1>p, <1>5, QuietBeginning DEF SwitchChecks, Kinds, Places, UnderWay
  <2> QED
    BY <1>p, <1>s, <1>5, <2>1, QuietStep DEF SwitchChecks
<1>6. CASE Delete(p, t)
  <2>1. \A q \in Procs : Milder(q) \/ Harmless(q)
    BY <1>p, <1>6, QuietBeginning DEF Delete, Kinds, Places, UnderWay
  <2>2. \A u \in Ids, n \in Nat : AtMost(u, n) => row'[u].fp <= n
    BY <1>p, <1>6, QuietRow DEF Delete, NoFp
  <2> QED
    BY <1>p, <1>6, <2>1, <2>2, QuietStep DEF Delete
<1>7. ASSUME NEW mode \in Modes, SaveChecks(p, t, mode)
      PROVE  SoloInv' /\ FpInv'
  <2>1. [mode |-> mode, fp |-> NoFp].fp = NoFp
    OBVIOUS
  <2>2. \A q \in Procs : Milder(q) \/ Harmless(q)
    <3> DEFINE doc == [mode |-> mode, fp |-> NoFp]
    <3>1. doc \in Docs /\ doc.fp = NoFp
      BY <1>p, <1>7, <2>1
    <3>2. Begin(p, "save", "upsert", t, doc)
      BY <1>7 DEF SaveChecks
    <3> HIDE DEF doc
    <3> QED
      BY <1>p, <3>1, <3>2, QuietBeginning DEF Kinds, Places, UnderWay
  <2> QED
    BY <1>p, <1>s, <1>7, <2>2, QuietStep DEF SaveChecks
<1> QED
  BY <1>1, <1>2, <1>3, <1>4, <1>5, <1>6, <1>7 DEF Asked

\* AtMost(t, n) in the next state, for an n of this one.
AtMostNext(t, n) ==
  /\ row'[t].fp <= n
  /\ \A q \in Procs : req'[q].at = "upsert" /\ req'[q].t = t => req'[q].doc.fp <= n

LEMMA WritersKept ==
  ASSUME TInv, UNCHANGED row, \A q \in Procs : Milder(q) \/ req'[q].at # "upsert",
         NEW t, NEW n, AtMost(t, n)
  PROVE  AtMostNext(t, n)
  BY DEF AtMost, AtMostNext, Milder

LEMMA SnapshotIsRead ==
  ASSUME TInv, TInv', SoloInv, FpInv, NEW p \in Procs, ReadData(p)
  PROVE  SoloInv' /\ FpInv'
<1> DEFINE r == AtData(req[p], "swap", src)
<1>1. /\ req[p] \in Requests /\ req[p].at = "read" /\ req[p].t \in Ids
      /\ "swap" \in Places /\ src \in 0..MaxSrc
  BY RegistryBounds DEF ReadData, TInv, TypeOK, Busy, Places
<1>2. /\ r.at = "swap" /\ r.t = req[p].t /\ r.fp = req[p].fp /\ r.data = src
      /\ r.solo = req[p].solo
  BY <1>1, SetAtData
<1>3. req' = [req EXCEPT ![p] = r]
  BY DEF ReadData, Become, AtData
<1> HIDE DEF r
<1>4. req'[p] = r /\ \A q \in Procs \ {p} : req'[q] = req[q]
  BY <1>3 DEF TInv, TypeOK
<1>5. UNCHANGED <<src, row, snap, tainted>>
  BY DEF ReadData
<1>6. \A t, n : AtMost(t, n) => AtMostNext(t, n)
  BY <1>2, <1>4, <1>5, WritersKept DEF Milder
<1>7. SoloInv'
  BY <1>1, <1>2, <1>4 DEF SoloInv, UnderWay
<1>8. \A t \in Ids : AtMostNext(t, src)
  BY <1>6 DEF FpInv
<1>9. /\ \A q \in Procs : req'[q].at \in {"read", "swap", "mark"} => req'[q].fp <= src
      /\ \A q \in Procs : req'[q].at = "swap" => req'[q].fp <= req'[q].data
  BY <1>1, <1>2, <1>4 DEF FpInv
<1>10. ASSUME NEW q \in Procs, req'[q].at = "swap", req'[q].solo \/ req'[q].t \notin tainted
       PROVE  AtMostNext(req'[q].t, req'[q].data)
  BY <1>1, <1>2, <1>4, <1>6, <1>8, <1>10 DEF FpInv
<1>11. ASSUME NEW q \in Procs, req'[q].at = "mark", req'[q].solo
       PROVE  req'[q].fp <= snap[req'[q].t] /\ AtMostNext(req'[q].t, snap[req'[q].t])
  BY <1>2, <1>4, <1>6, <1>11 DEF FpInv
<1>12. \A t \in Ids \ tainted : AtMostNext(t, snap[t])
  BY <1>6 DEF FpInv
<1> QED
  BY <1>5, <1>7, <1>8, <1>9, <1>10, <1>11, <1>12 DEF FpInv, AtMost, AtMostNext, Procs

LEMMA FileIsReplaced ==
  ASSUME TInv, TInv', SoloInv, FpInv, NEW p \in Procs, Swap(p)
  PROVE  SoloInv' /\ FpInv'
<1> DEFINE r == AtData(req[p], "mark", 0)
           u == req[p].t
<1>1. /\ req[p] \in Requests /\ req[p].at = "swap" /\ u \in Ids
      /\ "mark" \in Places /\ 0 \in 0..MaxSrc
  BY RegistryBounds DEF Swap, TInv, TypeOK, Busy, Places
<1>2. r.at = "mark" /\ r.t = u /\ r.fp = req[p].fp /\ r.solo = req[p].solo
  BY <1>1, SetAtData
<1>3. req' = [req EXCEPT ![p] = r]
  BY DEF Swap, Become, AtData
<1> HIDE DEF r
<1>4. req'[p] = r /\ \A q \in Procs \ {p} : req'[q] = req[q]
  BY <1>3 DEF TInv, TypeOK
<1>5. UNCHANGED <<src, row, tainted>>
  BY DEF Swap
<1>5a. snap'[u] = req[p].data /\ \A t \in Ids \ {u} : snap'[t] = snap[t]
  BY <1>1 DEF Swap, TInv, TypeOK
<1>6. \A t, n : AtMost(t, n) => AtMostNext(t, n)
  BY <1>2, <1>4, <1>5, WritersKept DEF Milder
<1>7. SoloInv'
  BY <1>1, <1>2, <1>4 DEF SoloInv, UnderWay
<1>8. \A t \in Ids : AtMostNext(t, src)
  BY <1>6 DEF FpInv
<1>9. /\ \A q \in Procs : req'[q].at \in {"read", "swap", "mark"} => req'[q].fp <= src
      /\ \A q \in Procs : req'[q].at = "swap" => req'[q].fp <= req'[q].data
  BY <1>1, <1>2, <1>4 DEF FpInv
<1>10. ASSUME NEW q \in Procs, req'[q].at = "swap", req'[q].solo \/ req'[q].t \notin tainted
       PROVE  AtMostNext(req'[q].t, req'[q].data)
  BY <1>2, <1>4, <1>6, <1>10 DEF FpInv
<1>11. ASSUME NEW q \in Procs, req'[q].at = "mark", req'[q].solo
       PROVE  req'[q].fp <= snap'[req'[q].t] /\ AtMostNext(req'[q].t, snap'[req'[q].t])
  <2>1. CASE q = p
    <3>1. req[p].fp <= req[p].data /\ AtMost(u, req[p].data)
      BY <1>1, <1>2, <1>4, <1>11, <2>1 DEF FpInv
    <3> QED
      BY <1>2, <1>4, <1>5a, <1>6, <2>1, <3>1
  <2>2. CASE q # p
    <3>1. req'[q] = req[q] /\ req[q].t \in Ids
      BY <1>4, <1>11, <2>2 DEF TInv, Busy
    <3>2. req[q].t # u
      BY <1>1, <1>11, <2>2, <3>1 DEF SoloInv, UnderWay
    <3>3. req[q].fp <= snap[req[q].t] /\ AtMost(req[q].t, snap[req[q].t])
      BY <1>11, <3>1 DEF FpInv
    <3> QED
      BY <1>5a, <1>6, <3>1, <3>2, <3>3
  <2> QED
    BY <2>1, <2>2
<1>12. ASSUME NEW t \in Ids \ tainted
       PROVE  AtMostNext(t, snap'[t])
  BY <1>1, <1>5a, <1>6, <1>12 DEF FpInv
<1> QED
  BY <1>5, <1>7, <1>8, <1>9, <1>10, <1>11, <1>12 DEF FpInv, AtMost, AtMostNext, Procs

LEMMA RowIsMarked ==
  ASSUME TInv, TInv', SoloInv, FpInv, NEW p \in Procs, Mark(p)
  PROVE  SoloInv' /\ FpInv'
<1> DEFINE u == req[p].t
<1>1. req[p].at = "mark" /\ u \in Ids /\ req[p].fp <= src
  BY DEF Mark, TInv, Busy, FpInv
<1>2. Become(p, Idle)
  BY DEF Mark, Answer
<1>3. req'[p] = Idle /\ \A q \in Procs \ {p} : req'[q] = req[q]
  BY <1>2 DEF Become, TInv, TypeOK
<1>4. UNCHANGED <<src, snap>>
  BY DEF Mark
<1>5. /\ \A t \in Ids \ {u} : row'[t] = row[t]
      /\ row'[u].fp = req[p].fp \/ row'[u].fp = 0
  <2>1. CASE row[u] = Gone
    BY <2>1 DEF Mark, Gone, NoFp
  <2>2. CASE row[u] # Gone
    <3> DEFINE d == [row[u] EXCEPT !.fp = req[p].fp]
    <3>1. d.fp = req[p].fp
      BY <1>1, <2>2 DEF TInv, TypeOK, Docs
    <3>2. row' = [row EXCEPT ![u] = d]
      BY <2>2 DEF Mark
    <3> HIDE DEF d
    <3> QED
      BY <1>1, <3>1, <3>2 DEF TInv, TypeOK
  <2> QED
    BY <2>1, <2>2
<1>5a. tainted' = IF req[p].solo THEN tainted \ {u} ELSE tainted \cup {u}
  BY DEF Mark
<1>6. \A t \in Ids \ {u} : \A n : AtMost(t, n) => AtMostNext(t, n)
  BY <1>3, <1>5 DEF AtMost, AtMostNext, Idle
<1>6a. \A n \in Nat : AtMost(u, n) /\ req[p].fp <= n => AtMostNext(u, n)
  BY <1>3, <1>5 DEF AtMost, AtMostNext, Idle
<1>7. SoloInv'
  BY <1>3 DEF SoloInv, UnderWay, Idle
<1>8. \A t \in Ids : AtMostNext(t, src)
  BY <1>1, <1>6, <1>6a, Numbers DEF FpInv
<1>9. /\ \A q \in Procs : req'[q].at \in {"read", "swap", "mark"} => req'[q].fp <= src
      /\ \A q \in Procs : req'[q].at = "swap" => req'[q].fp <= req'[q].data
  BY <1>3 DEF FpInv, Idle
<1>9a. ASSUME NEW q \in Procs, req'[q].at \in UnderWay, req'[q].t = u
       PROVE  u \in tainted' /\ ~req'[q].solo
  <2>1. q # p /\ req'[q] = req[q]
    BY <1>3, <1>9a DEF Idle, UnderWay
  <2> QED
    BY <1>1, <1>5a, <1>9a, <2>1 DEF SoloInv, UnderWay
<1>10. ASSUME NEW q \in Procs, req'[q].at = "swap", req'[q].solo \/ req'[q].t \notin tainted'
       PROVE  AtMostNext(req'[q].t, req'[q].data)
  <2>1. req'[q] = req[q] /\ req[q].t \in Ids
    BY <1>3, <1>10 DEF Idle, TInv, Busy
  <2>2. req[q].t # u
    BY <1>9a, <1>10, <2>1 DEF UnderWay
  <2>3. AtMost(req[q].t, req[q].data)
    BY <1>5a, <1>10, <2>1, <2>2 DEF FpInv
  <2> QED
    BY <1>6, <2>1, <2>2, <2>3
<1>11. ASSUME NEW q \in Procs, req'[q].at = "mark", req'[q].solo
       PROVE  req'[q].fp <= snap[req'[q].t] /\ AtMostNext(req'[q].t, snap[req'[q].t])
  <2>1. req'[q] = req[q] /\ req[q].t \in Ids
    BY <1>3, <1>11 DEF Idle, TInv, Busy
  <2>2. req[q].t # u
    BY <1>9a, <1>11, <2>1 DEF UnderWay
  <2>3. req[q].fp <= snap[req[q].t] /\ AtMost(req[q].t, snap[req[q].t])
    BY <1>11, <2>1 DEF FpInv
  <2> QED
    BY <1>6, <2>1, <2>2, <2>3
<1>12. ASSUME NEW t \in Ids \ tainted'
       PROVE  AtMostNext(t, snap[t])
  <2>1. CASE t = u
    <3>1. req[p].solo
      BY <1>5a, <1>12, <2>1
    <3> QED
      BY <1>1, <1>6a, <2>1, <3>1, Numbers DEF FpInv
  <2>2. CASE t # u
    BY <1>5a, <1>6, <1>12, <2>2 DEF FpInv
  <2> QED
    BY <2>1, <2>2
<1> QED
  BY <1>4, <1>7, <1>8, <1>9, <1>10, <1>11, <1>12 DEF FpInv, AtMost, AtMostNext, Procs

\* What a disturbance leaves of the other requests.
LEMMA DisturbedAreMilder ==
  ASSUME TInv, NEW p \in Procs, NEW r, NEW t, Disturb(p, r, t)
  PROVE  /\ req'[p] = r
         /\ \A q \in Procs \ {p} : /\ Milder(q)
                                   /\ q \in Refreshing(t) => ~req'[q].solo
<1>1. \A q \in Procs : [req[q] EXCEPT !.solo = FALSE].at = req[q].at
                     /\ [req[q] EXCEPT !.solo = FALSE].t = req[q].t
                     /\ [req[q] EXCEPT !.solo = FALSE].doc = req[q].doc
                     /\ [req[q] EXCEPT !.solo = FALSE].fp = req[q].fp
                     /\ [req[q] EXCEPT !.solo = FALSE].data = req[q].data
                     /\ ~[req[q] EXCEPT !.solo = FALSE].solo
  BY SetSolo DEF TInv, TypeOK
<1>2. req'[p] = r
  BY DEF Disturb
<1>3. \A q \in Procs \ {p} :
        req'[q] = IF q \in Refreshing(t) THEN [req[q] EXCEPT !.solo = FALSE] ELSE req[q]
  BY DEF Disturb
<1> QED
  BY <1>1, <1>2, <1>3 DEF Milder

LEMMA SnapshotIsDropped ==
  ASSUME TInv, TInv', SoloInv, FpInv, NEW p \in Procs, DropSnapshot(p)
  PROVE  SoloInv' /\ FpInv'
<1> DEFINE u == req[p].t
<1>1. /\ u \in Ids /\ UNCHANGED <<src, row>> /\ tainted' = tainted \cup {u}
      /\ \A t \in Ids \ {u} : snap'[t] = snap[t]
  BY DEF DropSnapshot, TInv, TypeOK, Busy
<1>2. /\ req'[p].at = "idle"
      /\ \A q \in Procs \ {p} : Milder(q) /\ (q \in Refreshing(u) => ~req'[q].solo)
  BY DisturbedAreMilder DEF DropSnapshot, Idle
<1>3. \A t, n : AtMost(t, n) => AtMostNext(t, n)
  BY <1>1, <1>2, WritersKept
<1>4. SoloInv'
  BY <1>2 DEF SoloInv, Milder, UnderWay
<1>5. /\ \A q \in Procs : req'[q].at \in {"read", "swap", "mark"} => req'[q].fp <= src
      /\ \A q \in Procs : req'[q].at = "swap" => req'[q].fp <= req'[q].data
  BY <1>2 DEF FpInv, Milder
<1>6. ASSUME NEW q \in Procs, req'[q].at = "swap", req'[q].solo \/ req'[q].t \notin tainted'
      PROVE  AtMostNext(req'[q].t, req'[q].data)
  BY <1>1, <1>2, <1>3, <1>6 DEF FpInv, Milder
<1>7. ASSUME NEW q \in Procs, req'[q].at = "mark", req'[q].solo
      PROVE  req'[q].fp <= snap'[req'[q].t] /\ AtMostNext(req'[q].t, snap'[req'[q].t])
  <2>1. q # p /\ Milder(q) /\ req[q].t \in Ids
    BY <1>2, <1>7 DEF Milder, TInv, Busy
  <2>2. req[q].t # u
    BY <1>2, <1>7, <2>1 DEF Refreshing, Milder
  <2>3. req[q].fp <= snap[req[q].t] /\ AtMost(req[q].t, snap[req[q].t])
    BY <1>7, <2>1 DEF FpInv, Milder
  <2> QED
    BY <1>1, <1>3, <2>1, <2>2, <2>3 DEF Milder
<1>8. \A t \in Ids \ tainted' : AtMostNext(t, snap'[t])
  BY <1>1, <1>3 DEF FpInv
<1> QED
  BY <1>1, <1>3, <1>4, <1>5, <1>6, <1>7, <1>8 DEF FpInv, AtMost, AtMostNext, Procs

LEMMA SourceIsProbed ==
  ASSUME TInv, TInv', SoloInv, FpInv, NEW p \in Procs, Fingerprint(p)
  PROVE  SoloInv' /\ FpInv'
<1>1. UNCHANGED <<src, row, snap, tainted>> /\ req[p].at = "fingerprint"
  BY DEF Fingerprint
<1>2. PICK f \in {src, NoFp} :
        Become(p, Idle) \/ Become(p, AtFpDoc(req[p], "read", f, Gone))
  BY DEF Fingerprint, AtFpDoc
<1>3. f \in 0..MaxSrc /\ f <= src
  BY RegistryBounds DEF TInv, TypeOK, NoFp
<1>4. CASE Become(p, Idle)
  <2>1. \A q \in Procs : Milder(q) \/ Harmless(q)
    BY <1>4, QuietRequest DEF Idle, UnderWay
  <2> QED
    BY <1>1, <2>1, Numbers, QuietStep DEF AtMost
<1>5. CASE Become(p, AtFpDoc(req[p], "read", f, Gone))
  <2> DEFINE r == AtFpDoc(req[p], "read", f, Gone)
  <2>1. r.at = "read" /\ r.t = req[p].t /\ r.fp = f /\ r.solo = req[p].solo
    <3>1. req[p] \in Requests /\ "read" \in Places /\ Gone \in Docs
      BY DEF TInv, TypeOK, Places, Docs
    <3> QED
      BY <1>3, <3>1, SetAtFpDoc
  <2> HIDE DEF r
  <2>2. req'[p] = r /\ \A q \in Procs \ {p} : req'[q] = req[q]
    BY <1>5 DEF r, Become, TInv, TypeOK
  <2>3. \A t, n : AtMost(t, n) => AtMostNext(t, n)
    BY <1>1, <2>1, <2>2, WritersKept DEF Milder
  <2>4. SoloInv'
    BY <1>1, <2>1, <2>2 DEF SoloInv, UnderWay
  <2>5. /\ \A q \in Procs : req'[q].at \in {"read", "swap", "mark"} => req'[q].fp <= src
        /\ \A q \in Procs : req'[q].at = "swap" => req'[q].fp <= req'[q].data
    BY <1>3, <2>1, <2>2 DEF FpInv
  <2>6. ASSUME NEW q \in Procs, req'[q].at = "swap", req'[q].solo \/ req'[q].t \notin tainted
        PROVE  AtMostNext(req'[q].t, req'[q].data)
    BY <2>1, <2>2, <2>3, <2>6 DEF FpInv
  <2>7. ASSUME NEW q \in Procs, req'[q].at = "mark", req'[q].solo
        PROVE  req'[q].fp <= snap[req'[q].t] /\ AtMostNext(req'[q].t, snap[req'[q].t])
    BY <2>1, <2>2, <2>3, <2>7 DEF FpInv
  <2>8. (\A t \in Ids : AtMostNext(t, src)) /\ (\A t \in Ids \ tainted : AtMostNext(t, snap[t]))
    BY <2>3 DEF FpInv
  <2> QED
    BY <1>1, <2>4, <2>5, <2>6, <2>7, <2>8 DEF FpInv, AtMost, AtMostNext, Procs
<1> QED
  BY <1>2, <1>4, <1>5

LEMMA RefreshBegins ==
  ASSUME TInv, TInv', SoloInv, FpInv, NEW p \in Procs, ReadRow(p)
  PROVE  SoloInv' /\ FpInv'
<1>s. UNCHANGED <<src, row, snap, tainted>> /\ src <= src'
  BY Numbers DEF ReadRow
<1>r. \A t \in Ids, n \in Nat : AtMost(t, n) => row'[t].fp <= n
  BY <1>s DEF AtMost
<1>1. CASE \E ok \in BOOLEAN : Answer(p, ok)
  <2>1. \A q \in Procs : Milder(q) \/ Harmless(q)
    BY <1>1, QuietAnswer
  <2> QED
    BY <1>s, <1>r, <2>1, QuietStep
<1>2. ASSUME NEW d \in Docs, NEW s \in BOOLEAN, s <=> Refreshing(req[p].t) = {},
             Disturb(p, AtDocSolo(req[p], "fingerprint", d, s), req[p].t)
      PROVE  SoloInv' /\ FpInv'
  <2> DEFINE r == AtDocSolo(req[p], "fingerprint", d, s)
             u == req[p].t
  <2>1. r.at = "fingerprint" /\ r.t = u /\ r.solo = s
    <3>1. req[p] \in Requests /\ "fingerprint" \in Places
      BY DEF TInv, TypeOK, Places
    <3> QED
      BY <1>2, <3>1, SetAtDocSolo
  <2> HIDE DEF r
  <2>2. /\ req'[p] = r
        /\ \A q \in Procs \ {p} : Milder(q) /\ (q \in Refreshing(u) => ~req'[q].solo)
    BY <1>2, DisturbedAreMilder DEF r
  <2>3. \A q \in Procs : Milder(q) \/ Early(q)
    BY <2>1, <2>2 DEF Early
  <2>4. FpInv'
    BY <1>s, <1>r, <2>3, EarlyStep
  <2>5. ASSUME NEW x \in Procs, NEW y \in Procs,
               req'[x].at \in UnderWay, req'[y].at \in UnderWay,
               req'[x].t = req'[y].t, req'[x].solo
        PROVE  x = y
    <3>1. CASE x # p /\ y # p
      BY <2>2, <2>5, <3>1 DEF SoloInv, Milder
    <3>2. CASE x = p /\ y # p
      <4>1. y \in Refreshing(u)
        BY <2>1, <2>2, <2>5, <3>2 DEF Milder, Refreshing, UnderWay
      <4> QED
        BY <1>2, <2>1, <2>2, <2>5, <3>2, <4>1
    <3>3. CASE x # p /\ y = p
      <4>1. x \in Refreshing(u)
        BY <2>1, <2>2, <2>5, <3>3 DEF Milder, Refreshing, UnderWay
      <4> QED
        BY <2>2, <2>5, <3>3, <4>1
    <3> QED
      BY <3>1, <3>2, <3>3
  <2> QED
    BY <2>4, <2>5 DEF SoloInv, Procs
<1> QED
  <2> DEFINE d == IF req[p].kind = "sched" THEN row[req[p].t] ELSE Gone
             s == Refreshing(req[p].t) = {}
  <2>1. d \in Docs /\ s \in BOOLEAN
    BY DEF ReadRow, TInv, TypeOK, Busy, Docs
  <2>2. (\E ok \in BOOLEAN : Answer(p, ok))
        \/ Disturb(p, AtDocSolo(req[p], "fingerprint", d, s), req[p].t)
    BY DEF ReadRow, AtDocSolo
  <2>3. s <=> Refreshing(req[p].t) = {}
    OBVIOUS
  <2> HIDE DEF d, s
  <2> QED
    BY <1>1, <1>2, <2>1, <2>2, <2>3

LEMMA FingerprintsFit ==
  TInv /\ TInv' /\ SoloInv /\ FpInv /\ [Next]_vars => SoloInv' /\ FpInv'
<1> SUFFICES ASSUME TInv, TInv', SoloInv, FpInv, [Next]_vars PROVE SoloInv' /\ FpInv'
  OBVIOUS
<1>s. src <= src /\ \A t \in Ids, n \in Nat : AtMost(t, n) => row[t].fp <= n
  BY Numbers DEF AtMost
<1>1. ASSUME NEW p \in Procs, Refresh(p) PROVE SoloInv' /\ FpInv'
  <2>1. CASE RefreshFails(p)
    <3>1. \A q \in Procs : Milder(q) \/ Harmless(q)
      BY <2>1, QuietAnswer DEF RefreshFails
    <3> QED
      BY <1>s, <2>1, <3>1, QuietStep DEF RefreshFails
  <2> QED
    BY <1>1, <2>1, RefreshBegins, SourceIsProbed, SnapshotIsRead, FileIsReplaced,
       RowIsMarked DEF Refresh
<1>2. ASSUME NEW p \in Admins, Continued(p) PROVE SoloInv' /\ FpInv'
  BY <1>2, HandlersAreQuiet, SnapshotIsDropped DEF Procs
<1>3. ASSUME NEW p \in Admins, NEW t \in Ids, Asked(p, t) PROVE SoloInv' /\ FpInv'
  BY <1>3, RequestsAreQuiet
<1>4. ASSUME NEW t \in Ids, RefreshDue(t) PROVE SoloInv' /\ FpInv'
  <2>1. Begin(Sched, "sched", "open", t, Gone) /\ Sched \in Procs /\ Gone \in Docs
        /\ Gone.fp = NoFp
    BY <1>4 DEF RefreshDue, Procs, Docs, Gone
  <2>2. \A q \in Procs : Milder(q) \/ Harmless(q)
    BY <2>1, QuietBeginning DEF Kinds, Places, UnderWay
  <2> QED
    BY <1>s, <1>4, <2>2, QuietStep DEF RefreshDue
<1>5. CASE Recommend \/ (\E s \in {"open", "dismissed"} : SetStatus(s)) \/ UNCHANGED vars
  <2>1. UNCHANGED <<src, row, snap, req, tainted>>
    BY <1>5 DEF Recommend, SetStatus, vars
  <2>2. \A q \in Procs : Milder(q)
    BY <2>1 DEF Milder
  <2> QED
    BY <1>s, <2>1, <2>2, QuietStep
<1>6. CASE SourceChanges
  <2>1. UNCHANGED <<row, snap, req, tainted>> /\ src <= src'
    BY <1>6, Numbers DEF SourceChanges
  <2>2. \A q \in Procs : Milder(q)
    BY <2>1 DEF Milder
  <2> QED
    BY <1>s, <2>1, <2>2, QuietStep
<1>7. CASE Restart
  <2>1. \A q \in Procs : Harmless(q)
    BY <1>7 DEF Restart, Harmless, Early, Idle, UnderWay
  <2> QED
    BY <1>s, <1>7, <2>1, QuietStep DEF Restart
<1> QED
  BY <1>1, <1>2, <1>3, <1>4, <1>5, <1>6, <1>7 DEF Next

(***************************************************************************)
(* A fingerprint the next scheduled refresh may skip on belongs to data    *)
(* the snapshot holds, or newer, for every table whose last refresh no     *)
(* other refresh and no removal ran into.                                  *)
(***************************************************************************)
THEOREM FingerprintsHaveSnapshots == Spec => []FingerprintHasItsSnapshot
<1>1. Init => SoloInv /\ FpInv
  BY RegistryBounds DEF Init, SoloInv, FpInv, AtMost, UnderWay, Idle, Gone, NoFp
<1>2. FpInv => FingerprintHasItsSnapshot
  BY DEF FpInv, AtMost, FingerprintHasItsSnapshot, Registered
<1>3. TInv /\ TInv' /\ (SoloInv /\ FpInv) /\ [Next]_vars => (SoloInv /\ FpInv)'
  BY FingerprintsFit
<1> QED
  BY <1>1, <1>2, <1>3, TypesHold, PTL DEF Spec
-----------------------------------------------------------------------------
(* The scheduler.                                                           *)

Stamps == [Schedules -> {"none", "paid", "owed"}]

HeldType == [on : BOOLEAN, own : SUBSET Tables, stamp : Stamps]

\* Until it fires, every schedule found due has a moment to its credit or a
\* stamp that could not be written: in the registry, in what the loop holds
\* while it waits, and among the tables that wait for the global run to end.
Owed == credit \cup unwritten

CreditInv ==
  /\ own \in SUBSET Tables /\ enabled \in BOOLEAN
  /\ stamp \in Stamps /\ held \in HeldType /\ late \in SUBSET Tables
  /\ \A s \in Schedules : stamp[s] = "owed" => s \in Owed
  /\ pc = "wait" => \A s \in Schedules : held.stamp[s] = "owed" => s \in Owed
  /\ pc \in {"global", "run global", "tables"} =>
       late \subseteq Owed /\ \A s \in late : held.stamp[s] = "owed" => s \in credit

LEMMA OwesIsStamps ==
  ASSUME NEW stamps \in Stamps, NEW moment
  PROVE  /\ Owes(stamps, moment) \in Stamps
         /\ \A s \in Schedules : Owes(stamps, moment)[s] = "owed" => stamps[s] = "owed" \/ FireAt[s] = moment
  BY DEF Owes, Stamps

LEMMA CreditInit == SchedulerInit => CreditInv
  BY DEF SchedulerInit, CreditInv, NothingHeld, HeldType, Stamps

LEMMA CreditStep == CreditInv /\ [SchedulerNext]_schedulerVars => CreditInv'
<1> SUFFICES ASSUME CreditInv, [SchedulerNext]_schedulerVars PROVE CreditInv'
  OBVIOUS
<1> USE DEF CreditInv
<1>h. /\ held.on \in BOOLEAN /\ held.own \in SUBSET Tables /\ held.stamp \in Stamps
      /\ Tables \subseteq Schedules /\ Global \in Schedules
  BY DEF HeldType, Schedules
<1>s. \A sc \in Stamps : [held EXCEPT !.stamp = sc] \in HeldType
                         /\ [held EXCEPT !.stamp = sc].stamp = sc
  BY DEF HeldType
<1>n. NothingHeld \in HeldType
  BY DEF NothingHeld, HeldType, Stamps
<1>1. CASE UNCHANGED schedulerVars
  BY <1>1 DEF schedulerVars, history, Owed
<1>2. CASE Tick
  <2> DEFINE tick == (phase + 1) % Period
             later == Owes(held.stamp, tick)
  <2>1. /\ stamp' = Owes(stamp, tick) /\ held' = [held EXCEPT !.stamp = later]
        /\ credit' = credit \cup {s \in Schedules : FireAt[s] = tick}
        /\ UNCHANGED <<own, enabled, pc, late, unwritten>>
    BY <1>2 DEF Tick
  <2> HIDE DEF tick
  <2>2. /\ stamp' \in Stamps /\ later \in Stamps
        /\ \A s \in Schedules : stamp'[s] = "owed" => stamp[s] = "owed" \/ FireAt[s] = tick
        /\ \A s \in Schedules : later[s] = "owed" => held.stamp[s] = "owed" \/ FireAt[s] = tick
    BY <1>h, <2>1, OwesIsStamps
  <2> HIDE DEF later
  <2>3. held' \in HeldType /\ held'.stamp = later
    BY <1>s, <2>1, <2>2
  <2> QED
    BY <1>h, <2>1, <2>2, <2>3 DEF Owed
<1>3. CASE Read
  <2> DEFINE first == {s \in own \cup {Global} : stamp[s] = "none"}
             stamps == Written(first, {}, Paid)
  <2>1. /\ held' = [on |-> enabled, own |-> own, stamp |-> stamps]
        /\ unwritten' = unwritten \ first
        /\ pc' = "wait" /\ UNCHANGED <<own, enabled, late, credit>>
    BY <1>3 DEF Read
  <2>2. PICK failed \in SUBSET first : stamp' = Written(first, failed, Paid)
    BY <1>3 DEF Read
  <2>3. /\ stamps \in Stamps /\ stamp' \in Stamps
        /\ \A s \in Schedules : stamps[s] = "owed" => stamp[s] = "owed" /\ s \notin first
        /\ \A s \in Schedules : stamp'[s] = "owed" => stamp[s] = "owed" /\ s \notin first
    BY <2>2 DEF Stamps, Written, Paid
  <2> HIDE DEF stamps, first
  <2> QED
    BY <2>1, <2>3 DEF HeldType, Owed
<1>4. CASE Wake
  <2> DEFINE due == Overdue(held.own)
             later == [s \in Schedules |-> IF s \in due THEN "paid" ELSE held.stamp[s]]
  <2>1. /\ pc = "wait" /\ late' = due /\ held' = [held EXCEPT !.stamp = later]
        /\ UNCHANGED <<own, enabled>>
    BY <1>4 DEF Wake, Wakes
  <2>2. \/ UNCHANGED <<stamp, credit, unwritten>> /\ pc' \in {"tables", "read"}
        \/ /\ credit' = credit \ {Global} /\ pc' = "global"
           /\ \E failed \in SUBSET {Global} :
                /\ stamp' = Written({Global}, failed, Paid)
                /\ unwritten' = (unwritten \ {Global}) \cup failed
    BY <1>4 DEF Wake, WakesToTables, history
  <2>3. due \subseteq Owed /\ due \subseteq Tables
    BY <1>h, <2>1 DEF Overdue
  <2>4. held' \in HeldType
    <3>1. later \in Stamps
      BY <1>h DEF Stamps
    <3> HIDE DEF later
    <3> QED
      BY <1>s, <2>1, <3>1
  <2>p. \A s \in due : held'.stamp[s] # "owed"
    <3>1. \A s \in due : later[s] = "paid"
      BY <1>h, <2>3
    <3>2. later \in Stamps
      BY <1>h DEF Stamps
    <3> HIDE DEF due, later
    <3> QED
      BY <1>s, <2>1, <3>1, <3>2
  <2> HIDE DEF due, later
  <2>5. CASE UNCHANGED <<stamp, credit, unwritten>> /\ pc' \in {"tables", "read"}
    BY <2>1, <2>3, <2>4, <2>5, <2>p DEF Owed
  <2>6. ASSUME NEW failed \in SUBSET {Global},
               credit' = credit \ {Global}, pc' = "global",
               stamp' = Written({Global}, failed, Paid),
               unwritten' = (unwritten \ {Global}) \cup failed
        PROVE  CreditInv'
    <3>1. stamp' \in Stamps /\ \A s \in Schedules : stamp'[s] = "owed" => s \in Owed'
      BY <1>h, <2>6 DEF Stamps, Written, Paid, Owed
    <3>2. due \subseteq Owed'
      BY <2>3, <2>6, GlobalIsNoTable DEF Owed
    <3> QED
      BY <2>1, <2>3, <2>4, <2>6, <2>p, <3>1, <3>2
  <2> QED
    BY <2>2, <2>5, <2>6
<1>5. CASE StampTables
  <2>1. /\ pc = "tables" /\ pc' = "overrides" /\ UNCHANGED <<own, enabled, held, late>>
        /\ credit' = credit \ {s \in late : held.stamp[s] = "paid"}
    BY <1>5 DEF StampTables
  <2>2. PICK failed \in SUBSET late : /\ stamp' = Written(late, failed, held.stamp)
                                      /\ unwritten' = (unwritten \ late) \cup failed
    BY <1>5 DEF StampTables
  <2>3. stamp' \in Stamps
    BY <1>h, <2>2 DEF Stamps, Written
  <2>4. \A s \in Schedules : stamp'[s] = "owed" => s \in Owed'
    <3> SUFFICES ASSUME NEW s \in Schedules, stamp'[s] = "owed" PROVE s \in Owed'
      OBVIOUS
    <3>1. CASE s \notin late
      BY <2>1, <2>2, <3>1 DEF Written, Owed
    <3>2. CASE s \in failed
      BY <2>2, <3>2 DEF Owed
    <3>3. CASE s \in late \ failed
      <4>1. held.stamp[s] = "owed"
        BY <2>2, <3>3 DEF Written
      <4> QED
        BY <1>h, <2>1, <3>3, <4>1 DEF Owed
    <3> QED
      BY <3>1, <3>2, <3>3
  <2> QED
    BY <2>1, <2>3, <2>4
\* The run of a list, and the end of the loop.
<1>6. CASE RunSkipped \/ RunStarts \/ RunRefused \/ RunTable \/ RunEnds \/ Leave
  <2>1. /\ UNCHANGED <<own, enabled, stamp, credit, unwritten>>
        /\ \/ UNCHANGED <<held, late>>
           \/ held' = NothingHeld /\ late' = {}
        /\ pc' # "wait"
        /\ pc' \in {"global", "run global", "tables"} => pc \in {"global", "run global"}
    BY <1>6 DEF RunSkipped, RunStarts, RunRefused, RunTable, RunEnds, Leave, After, history
  <2> QED
    BY <1>n, <2>1 DEF Owed
\* The others.
<1>7. CASE Toggle \/ Stop \/ Crash \/ Start
  <2>1. /\ UNCHANGED <<own, stamp, credit, unwritten>> /\ enabled' \in BOOLEAN
        /\ \/ UNCHANGED <<pc, held, late>>
           \/ pc' = "down" /\ held' = NothingHeld /\ late' = {}
           \/ pc' = "read" /\ UNCHANGED <<held, late>>
    BY <1>7 DEF Toggle, Stop, Crash, Start, history
  <2> QED
    BY <1>n, <2>1 DEF Owed
<1>8. ASSUME NEW t \in Tables, SetOwn(t) PROVE CreditInv'
  <2>1. /\ own' = IF t \in own THEN own \ {t} ELSE own \cup {t}
        /\ stamp' = [stamp EXCEPT ![t] = "none"]
        /\ UNCHANGED <<enabled, pc, held, late, credit, unwritten>>
    BY <1>8 DEF SetOwn, history
  <2>2. stamp' \in Stamps /\ \A s \in Schedules : stamp'[s] = "owed" => stamp[s] = "owed"
    BY <1>h, <2>1 DEF Stamps
  <2> QED
    BY <2>1, <2>2 DEF Owed
<1> QED
  BY <1>1, <1>2, <1>3, <1>4, <1>5, <1>6, <1>7, <1>8 DEF SchedulerNext, Loop, Round

(* No moment fires twice: whatever the schedules, the clock and the stale     *)
(* age, and however many edits, stops, crashes and failed writes come         *)
(* between, a schedule fires only when a moment of it passed since the        *)
(* moments it fired for, or when its stamp could not be written then.         *)
THEOREM MomentsFireOnce == SchedulerSpec => NoMomentFiresTwice
<1>1. CreditInv /\ [SchedulerNext]_schedulerVars => [FiresOnCredit]_schedulerVars
  <2> SUFFICES ASSUME CreditInv PROVE FiresOnCredit
    OBVIOUS
  <2>1. Wake /\ pc' = "global" => Global \in credit \cup unwritten
    BY DEF Wake, Wakes, WakesToTables, GlobalIsDue, Overdue, CreditInv, Owed, Schedules
  <2>2. StampTables => late \subseteq credit \cup unwritten
    BY DEF StampTables, CreditInv, Owed
  <2> QED
    BY <2>1, <2>2 DEF FiresOnCredit
<1> QED
  BY <1>1, CreditInit, CreditStep, PTL DEF SchedulerSpec, NoMomentFiresTwice

=============================================================================
