------------------------- MODULE ExecutorHop_proofs -------------------------
(***************************************************************************)
(* Proofs about the executor hop, for every set of jobs, every number of   *)
(* slots and every bound on restarts.                                      *)
(***************************************************************************)
EXTENDS ExecutorHop, FiniteSetTheorems, TLAPS

(* What a sweep records of an entry, at each of its steps, is a scan.        *)
LEMMA ScanRecords ==
  /\ NoScan \in Scans
  /\ \A e \in Entries, a \in {"fresh", "aged"}, c \in BOOLEAN :
       [entry |-> e, age |-> a, checked |-> c] \in Scans
  /\ \A s \in Scans : [s EXCEPT !.checked = TRUE] \in Scans
  /\ \A s \in Scans : s.entry \in Entries \cup {None} /\ s.checked \in BOOLEAN
BY DEF NoScan, Scans

(* Every step keeps the variables in their types.                           *)
LEMMA TypeStep == TypeOK /\ [Next]_vars => TypeOK'
<1> USE SlotsArePositive, RestartsAreBounded DEF TypeOK,
      CallStates, Waiting, Holding, TaskStates, InFlight, Answers, Outcomes, Refusals, Present
<1> SUFFICES ASSUME TypeOK, [Next]_vars PROVE TypeOK'
  OBVIOUS
<1>1. CASE UNCHANGED vars
  BY <1>1 DEF vars, webVars, boxVars
<1>2. ASSUME NEW j \in Jobs, Execute(j) PROVE TypeOK'
  BY <1>2 DEF Execute, boxVars
<1>3. ASSUME NEW j \in Jobs, Dispatch(j) PROVE TypeOK'
  <2>1. CASE AcquireGate(j)    BY <2>1 DEF AcquireGate, boxVars
  <2>2. CASE QueueExpired(j)   BY <2>2 DEF QueueExpired, boxVars
  <2>3. CASE CreateJobDir(j)   BY <2>3 DEF CreateJobDir, boxVars
  <2>4. CASE Post(j)           BY <2>4 DEF Post
  <2>5. CASE PrepareFailed(j)  
    <3>1. dir' \in [Entries -> {"absent", "fresh", "aged"}]
      BY <2>5 DEF PrepareFailed, boxVars
    <3>2. gate' \in Nat /\ slots' \in Nat
      BY <2>5 DEF PrepareFailed, boxVars
    <3> QED BY <2>5, <3>1, <3>2 DEF PrepareFailed, boxVars
  <2>6. CASE Unavailable(j)    BY <2>6 DEF Unavailable
  <2>7. CASE ReceiveAnswer(j)  BY <2>7 DEF ReceiveAnswer, boxVars
  <2>8. CASE ReadAnswer(j)     BY <2>8 DEF ReadAnswer, ResultsOf, boxVars
  <2>9. CASE CleanUp(j)        BY <2>9 DEF CleanUp, boxVars
  <2>10. CASE WebSweepAct(j)   BY <2>10, ScanRecords DEF WebSweepAct, boxVars
  <2>11. CASE ReleaseGate(j)   BY <2>11 DEF ReleaseGate, boxVars
  <2> QED BY <1>3, <2>1, <2>2, <2>3, <2>4, <2>5, <2>6, <2>7, <2>8, <2>9, <2>10, <2>11
          DEF Dispatch
<1>4. ASSUME NEW j \in Jobs, Serve(j) PROVE TypeOK'
  <2>1. CASE RejectRequest(j)  BY <2>1 DEF RejectRequest, webVars
  <2>2. CASE AcceptRequest(j)  BY <2>2 DEF AcceptRequest, webVars
  <2>3. CASE QueueTimeout(j)   BY <2>3 DEF QueueTimeout, Answer, webVars
  <2>4. CASE StartJob(j)       
    <3>1. dir' \in [Entries -> {"absent", "fresh", "aged"}]
      BY <2>4 DEF StartJob, webVars
    <3>2. gate' \in Nat /\ slots' \in Nat
      BY <2>4 DEF StartJob, webVars
    <3> QED BY <2>4, <3>1, <3>2 DEF StartJob, webVars
  <2>5. CASE StartFailed(j)    BY <2>5 DEF StartFailed, Answer, webVars
  <2>6. CASE FinishJob(j)      
    <3>1. dir' \in [Entries -> {"absent", "fresh", "aged"}]
      BY <2>6 DEF FinishJob, Answer, webVars
    <3>2. gate' \in Nat /\ slots' \in Nat
      BY <2>6 DEF FinishJob, Answer, webVars
    <3> QED BY <2>6, <3>1, <3>2 DEF FinishJob, Answer, webVars
  <2> QED BY <1>4, <2>1, <2>2, <2>3, <2>4, <2>5, <2>6 DEF Serve
<1>5. ASSUME NEW j \in Jobs, SealDir(j) \/ LeaveStray(j) PROVE TypeOK'
  BY <1>5 DEF SealDir, LeaveStray, Entries, webVars, boxVars
<1>6. ASSUME NEW j \in Jobs, NEW e \in Entries, WebSweepStat(j, e) PROVE TypeOK'
  <2>1. dir[e] \in {"fresh", "aged"}
    BY <1>6 DEF WebSweepStat
  <2> QED BY <1>6, <2>1, ScanRecords DEF WebSweepStat, boxVars
<1>7. ASSUME NEW e \in Entries, BoxSweepStat(e) \/ GrowOld(e) PROVE TypeOK'
  <2>1. CASE BoxSweepStat(e)
    <3>1. dir[e] \in {"fresh", "aged"}
      BY <2>1 DEF BoxSweepStat
    <3> QED BY <2>1, <3>1, ScanRecords DEF BoxSweepStat, webVars
  <2>2. CASE GrowOld(e)
    BY <2>2 DEF GrowOld, webVars, boxVars
  <2> QED BY <1>7, <2>1, <2>2
<1>8. CASE BoxSweepCheck \/ BoxSweepRemove
  BY <1>8, ScanRecords DEF BoxSweepCheck, BoxSweepRemove, webVars
<1>9. CASE WebCrash \/ WebStart
  BY <1>9, ScanRecords DEF WebCrash, WebStart, boxVars
<1>10. CASE BoxCrash \/ BoxStart
  BY <1>10, ScanRecords DEF BoxCrash, BoxStart, webVars
<1> QED
  BY <1>1, <1>2, <1>3, <1>4, <1>5, <1>6, <1>7, <1>8, <1>9, <1>10 DEF Next

(* The variables have their types: in particular the gate and the semaphore *)
(* never go below zero.                                                     *)
THEOREM TypeCorrect == Spec => []TypeOK
<1>1. Init => TypeOK
  BY ScanRecords, SlotsArePositive, RestartsAreBounded
  DEF Init, TypeOK, CallStates, Waiting, Holding, TaskStates, InFlight, Answers, Outcomes, Refusals
<1> QED
  BY <1>1, TypeStep, PTL DEF Spec
-----------------------------------------------------------------------------
(* What is known of a call and of its job at every place of the call is kept *)
(* by every step.                                                           *)
LEMMA FlowStep ==
  IInv /\ [Next]_vars => (NotPostedInv /\ TaskInv /\ ResultInv)'
<1> SUFFICES ASSUME IInv, [Next]_vars PROVE (NotPostedInv /\ TaskInv /\ ResultInv)'
  OBVIOUS
<1> DEFINE Flow == NotPostedInv /\ TaskInv /\ ResultInv
<1> USE DEF IInv, TypeOK, NotPostedInv, TaskInv, ResultInv, NotPosted, Leaving,
      InFlight, Answers, Waiting, Holding, Refusals
<1>quiet. ASSUME UNCHANGED <<call, result, task, ran>> PROVE Flow'
  BY <1>quiet
<1>1. CASE UNCHANGED vars
  BY <1>1, <1>quiet DEF vars, webVars, boxVars
<1>2. ASSUME NEW i \in Jobs, Execute(i) PROVE Flow'
  BY <1>2 DEF Execute, boxVars
<1>3. ASSUME NEW i \in Jobs, Dispatch(i) PROVE Flow'
  <2>1. CASE AcquireGate(i)    BY <2>1 DEF AcquireGate, boxVars
  <2>2. CASE QueueExpired(i)   BY <2>2 DEF QueueExpired, boxVars
  <2>3. CASE CreateJobDir(i)   BY <2>3 DEF CreateJobDir, boxVars
  <2>4. CASE Post(i)           BY <2>4 DEF Post
  <2>5. CASE PrepareFailed(i)  BY <2>5 DEF PrepareFailed, boxVars
  <2>6. CASE Unavailable(i)    BY <2>6 DEF Unavailable
  <2>7. CASE ReceiveAnswer(i)  BY <2>7 DEF ReceiveAnswer, boxVars
  <2>8. CASE ReadAnswer(i)     BY <2>8 DEF ReadAnswer, ResultsOf, boxVars
  <2>9. CASE CleanUp(i)        BY <2>9 DEF CleanUp, boxVars
  <2>10. CASE WebSweepAct(i)   BY <2>10, <1>quiet DEF WebSweepAct, boxVars
  <2>11. CASE ReleaseGate(i)   BY <2>11 DEF ReleaseGate, boxVars
  <2> QED BY <1>3, <2>1, <2>2, <2>3, <2>4, <2>5, <2>6, <2>7, <2>8, <2>9, <2>10, <2>11
          DEF Dispatch
<1>4. ASSUME NEW i \in Jobs, Serve(i) PROVE Flow'
  <2>1. CASE RejectRequest(i)  BY <2>1 DEF RejectRequest, webVars
  <2>2. CASE AcceptRequest(i)  BY <2>2 DEF AcceptRequest, webVars
  <2>3. CASE QueueTimeout(i)   BY <2>3 DEF QueueTimeout, Answer, webVars
  <2>4. CASE StartJob(i)       BY <2>4 DEF StartJob, webVars
  <2>5. CASE StartFailed(i)    BY <2>5 DEF StartFailed, Answer, webVars
  <2>6. CASE FinishJob(i)      BY <2>6 DEF FinishJob, Answer, webVars
  <2> QED BY <1>4, <2>1, <2>2, <2>3, <2>4, <2>5, <2>6 DEF Serve
<1>5. ASSUME NEW i \in Jobs,
             SealDir(i) \/ LeaveStray(i) \/ \E e \in Entries : WebSweepStat(i, e)
      PROVE  Flow'
  BY <1>5, <1>quiet DEF SealDir, LeaveStray, WebSweepStat, webVars, boxVars
<1>6. ASSUME NEW e \in Entries, BoxSweepStat(e) \/ GrowOld(e) PROVE Flow'
  BY <1>6, <1>quiet DEF BoxSweepStat, GrowOld, webVars, boxVars
<1>7. CASE BoxSweepCheck \/ BoxSweepRemove \/ WebStart \/ BoxStart
  BY <1>7, <1>quiet DEF BoxSweepCheck, BoxSweepRemove, WebStart, BoxStart, webVars, boxVars
<1>8. CASE WebCrash
  BY <1>8 DEF WebCrash, CallStates, boxVars
<1>9. CASE BoxCrash
  BY <1>9 DEF BoxCrash, webVars
<1> QED
  BY <1>1, <1>2, <1>3, <1>4, <1>5, <1>6, <1>7, <1>8, <1>9 DEF Next

(* The active sets cover what must not be lost, no aged entry and no removal *)
(* the sandbox decided on is that of a job it may still hold for a waiting   *)
(* dispatcher, and so the directory of such a job stays.                     *)
LEMMA VolumeStep ==
  IInv /\ [Next]_vars => (ActiveInv /\ AgeInv /\ DirKeptInFlight)'
<1> SUFFICES ASSUME IInv, [Next]_vars PROVE (ActiveInv /\ AgeInv /\ DirKeptInFlight)'
  OBVIOUS
<1> DEFINE Volume == ActiveInv /\ AgeInv /\ DirKeptInFlight
<1> USE StraysAreNoJobs, NoneIsNoEntry DEF IInv, TypeOK, ActiveInv, AgeInv, DirKeptInFlight,
      NotPosted, Leaving, InFlight, Holding, Present
<1>scan. boxScan \in Scans /\ boxScan.checked \in BOOLEAN
  BY ScanRecords
<1>none. NoScan.entry = None /\ NoScan.checked = FALSE
  BY DEF NoScan
<1>entry. Jobs \subseteq Entries
  BY DEF Entries
<1>quiet. ASSUME UNCHANGED <<web, box, call, task, webActive, boxActive, boxScan, dir>>
          PROVE  Volume'
  BY <1>quiet
<1>1. CASE UNCHANGED vars
  BY <1>1, <1>quiet DEF vars, webVars, boxVars
<1>2. ASSUME NEW i \in Jobs, Execute(i) PROVE Volume'
  BY <1>2 DEF Execute, boxVars
<1>3. ASSUME NEW i \in Jobs, Dispatch(i) PROVE Volume'
  <2>1. CASE AcquireGate(i)    BY <2>1 DEF AcquireGate, boxVars
  <2>2. CASE QueueExpired(i)   BY <2>2 DEF QueueExpired, boxVars
  <2>3. CASE CreateJobDir(i)   BY <2>3, <1>entry DEF CreateJobDir, boxVars
  <2>4. CASE Post(i)           BY <2>4 DEF Post
  <2>5. CASE PrepareFailed(i)  BY <2>5, <1>entry DEF PrepareFailed, boxVars
  <2>6. CASE Unavailable(i)    BY <2>6 DEF Unavailable
  <2>7. CASE ReceiveAnswer(i)  BY <2>7 DEF ReceiveAnswer, boxVars
  <2>8. CASE ReadAnswer(i)     BY <2>8 DEF ReadAnswer, boxVars
  <2>9. CASE CleanUp(i)        BY <2>9, <1>entry DEF CleanUp, boxVars
  <2>10. CASE WebSweepAct(i)   BY <2>10, <1>entry, ScanRecords DEF WebSweepAct, boxVars
  <2>11. CASE ReleaseGate(i)   BY <2>11 DEF ReleaseGate, boxVars
  <2> QED BY <1>3, <2>1, <2>2, <2>3, <2>4, <2>5, <2>6, <2>7, <2>8, <2>9, <2>10, <2>11
          DEF Dispatch
<1>4. ASSUME NEW i \in Jobs, Serve(i) PROVE Volume'
  <2> USE <1>entry DEF NotPostedInv, TaskInv, Answers
  <2>1. CASE RejectRequest(i)  BY <2>1 DEF RejectRequest, webVars
  <2>2. CASE AcceptRequest(i)  BY <2>2 DEF AcceptRequest, webVars
  <2>3. CASE QueueTimeout(i)   BY <2>3 DEF QueueTimeout, Answer, webVars
  <2>4. CASE StartJob(i)       BY <2>4 DEF StartJob, webVars
  <2>5. CASE StartFailed(i)    BY <2>5 DEF StartFailed, Answer, webVars
  <2>6. CASE FinishJob(i)      BY <2>6 DEF FinishJob, Answer, webVars
  <2> QED BY <1>4, <2>1, <2>2, <2>3, <2>4, <2>5, <2>6 DEF Serve
<1>5. ASSUME NEW i \in Jobs, NEW e \in Entries, WebSweepStat(i, e) PROVE Volume'
  BY <1>5, <1>quiet DEF WebSweepStat, boxVars
<1>6. ASSUME NEW i \in Jobs, SealDir(i) PROVE Volume'
  BY <1>6, <1>quiet DEF SealDir, webVars, boxVars
<1>7. ASSUME NEW i \in Jobs, LeaveStray(i) PROVE Volume'
  BY <1>7, <1>entry DEF LeaveStray, webVars, boxVars
<1>8. ASSUME NEW e \in Entries, BoxSweepStat(e) PROVE Volume'
  BY <1>8 DEF BoxSweepStat, webVars
<1>9. ASSUME NEW e \in Entries, GrowOld(e) PROVE Volume'
  BY <1>9, <1>entry DEF GrowOld, WebIsPrompt, webVars, boxVars
<1>10. CASE BoxSweepCheck
  <2>1. CASE boxScan' = NoScan
    BY <1>10, <2>1, <1>none DEF BoxSweepCheck, webVars
  <2>2. CASE /\ boxScan.entry \notin boxActive /\ boxScan.age # "fresh"
             /\ boxScan' = [boxScan EXCEPT !.checked = TRUE]
    <3>1. /\ boxScan.age = "aged" /\ boxScan'.checked
          /\ boxScan'.age = boxScan.age /\ boxScan'.entry = boxScan.entry
      BY <2>2, <1>scan DEF Scans
    <3> QED BY <1>10, <2>2, <3>1 DEF BoxSweepCheck, webVars
  <2> QED BY <1>10, <2>1, <2>2 DEF BoxSweepCheck
<1>11. CASE BoxSweepRemove
  BY <1>11, <1>none, <1>entry DEF BoxSweepRemove, webVars
<1>12. CASE WebCrash
  BY <1>12 DEF WebCrash, CallStates, Waiting, boxVars
<1>13. CASE WebStart
  BY <1>13, <1>entry DEF WebStart, boxVars
<1>14. CASE BoxCrash
  BY <1>14, <1>none DEF BoxCrash, Answers, webVars
<1>15. CASE BoxStart
  BY <1>15, <1>entry DEF BoxStart, webVars
<1> QED
  BY <1>1, <1>2, <1>3, <1>4, <1>5, <1>6, <1>7, <1>8, <1>9, <1>10, <1>11, <1>12,
     <1>13, <1>14, <1>15 DEF Next

(* The inductive invariant.                                                  *)
THEOREM Invariance == Spec => []IInv
<1>1. Init => IInv
  <2> SUFFICES ASSUME Init PROVE IInv
    OBVIOUS
  <2>1. TypeOK
    BY ScanRecords, SlotsArePositive, RestartsAreBounded
    DEF Init, TypeOK, CallStates, Waiting, Holding, TaskStates, InFlight, Answers, Outcomes, Refusals
  <2>2. NoScan.entry = None /\ NoScan.checked = FALSE /\ NoScan.age = "fresh"
    BY DEF NoScan
  <2>3. NotPostedInv /\ TaskInv /\ ResultInv
    BY DEF Init, NotPostedInv, TaskInv, ResultInv, InFlight, Leaving
  <2>4. ActiveInv /\ AgeInv /\ DirKeptInFlight
    BY <2>2, NoneIsNoEntry
    DEF Init, ActiveInv, AgeInv, DirKeptInFlight, Entries, InFlight, Holding, NotPosted
  <2> QED BY <2>1, <2>3, <2>4 DEF IInv
<1>2. IInv /\ [Next]_vars => IInv'
  BY TypeStep, FlowStep, VolumeStep DEF IInv
<1> QED
  BY <1>1, <1>2, PTL DEF Spec

(* The directory of a job that runs or queues for a dispatcher that still    *)
(* waits is there, whatever the two sweeps and the restarts do.              *)
THEOREM DirsAreKept == Spec => []DirKeptInFlight
<1>1. IInv => DirKeptInFlight
  BY DEF IInv
<1> QED
  BY <1>1, Invariance, PTL
-----------------------------------------------------------------------------
(* Moving one dispatch to another place changes the set of slot holders by  *)
(* at most that dispatch, and its cardinality accordingly.                  *)
LEMMA HoldersMove ==
  ASSUME TypeOK, NEW j \in Jobs, NEW s \in CallStates,
         call' = [call EXCEPT ![j] = s]
  PROVE  /\ Cardinality(Holders) \in Nat
         /\ s \in Holding <=> call[j] \in Holding =>
              Cardinality(Holders') = Cardinality(Holders)
         /\ s \in Holding /\ call[j] \notin Holding =>
              Cardinality(Holders') = Cardinality(Holders) + 1
         /\ s \notin Holding /\ call[j] \in Holding =>
              Cardinality(Holders') = Cardinality(Holders) - 1
<1>1. IsFiniteSet(Holders)
  BY JobsAreFinite, FS_Subset DEF Holders
<1>2. Cardinality(Holders) \in Nat
  BY <1>1, FS_CardinalityType
<1>3. CASE s \in Holding
  <2>1. Holders' = Holders \cup {j}
    BY <1>3 DEF Holders, TypeOK
  <2> QED BY <1>1, <1>2, <1>3, <2>1, FS_AddElement DEF Holders
<1>4. CASE s \notin Holding
  <2>1. Holders' = Holders \ {j}
    BY <1>4 DEF Holders, TypeOK
  <2> QED BY <1>1, <1>2, <1>4, <2>1, FS_RemoveElement DEF Holders
<1> QED BY <1>3, <1>4

(* The same for the jobs that run in the sandbox.                            *)
LEMMA RunningMove ==
  ASSUME TypeOK, NEW j \in Jobs, NEW a \in TaskStates,
         task' = [task EXCEPT ![j] = a]
  PROVE  /\ Cardinality(Running) \in Nat
         /\ a = "running" <=> task[j] = "running" =>
              Cardinality(Running') = Cardinality(Running)
         /\ a = "running" /\ task[j] # "running" =>
              Cardinality(Running') = Cardinality(Running) + 1
         /\ a # "running" /\ task[j] = "running" =>
              Cardinality(Running') = Cardinality(Running) - 1
<1>1. IsFiniteSet(Running)
  BY JobsAreFinite, FS_Subset DEF Running
<1>2. Cardinality(Running) \in Nat
  BY <1>1, FS_CardinalityType
<1>3. CASE a = "running"
  <2>1. Running' = Running \cup {j}
    BY <1>3 DEF Running, TypeOK
  <2> QED BY <1>1, <1>2, <1>3, <2>1, FS_AddElement DEF Running
<1>4. CASE a # "running"
  <2>1. Running' = Running \ {j}
    BY <1>4 DEF Running, TypeOK
  <2> QED BY <1>1, <1>2, <1>4, <2>1, FS_RemoveElement DEF Running
<1> QED BY <1>3, <1>4

-----------------------------------------------------------------------------
(* No slot is ever lost or invented on either side: the free slots are those *)
(* nobody holds, through every error path, timeout, answer and restart.      *)
THEOREM SlotsAreBalanced == Spec => []SlotsBalanced
<1>1. Init => SlotsBalanced
  <2> SUFFICES ASSUME Init PROVE SlotsBalanced
    OBVIOUS
  <2>1. Holders = {} /\ Running = {}
    BY DEF Init, Holders, Running, Holding
  <2> QED BY <2>1, FS_EmptySet, SlotsArePositive DEF Init, SlotsBalanced
<1>2. IInv /\ SlotsBalanced /\ [Next]_vars => SlotsBalanced'
  <2> SUFFICES ASSUME IInv, TypeOK, SlotsBalanced, [Next]_vars PROVE SlotsBalanced'
    BY DEF IInv
  <2> USE DEF SlotsBalanced
  <2>types. gate \in Nat /\ slots \in Nat /\ WebSlots \in Nat /\ BoxSlots \in Nat
    BY SlotsArePositive DEF TypeOK
  <2>quiet. ASSUME UNCHANGED <<gate, slots, call, task>> PROVE SlotsBalanced'
    BY <2>quiet DEF Holders, Running
  <2>1. CASE UNCHANGED vars
    BY <2>1, <2>quiet DEF vars, webVars, boxVars
  <2>2. ASSUME NEW j \in Jobs, UNCHANGED <<slots, task>>,
               NEW s \in CallStates, call' = [call EXCEPT ![j] = s],
               \/ /\ s \in Holding <=> call[j] \in Holding
                  /\ gate' = gate
               \/ /\ s \in Holding /\ call[j] \notin Holding
                  /\ gate' = gate - 1
               \/ /\ s \notin Holding /\ call[j] \in Holding
                  /\ gate' = gate + 1
        PROVE  SlotsBalanced'
    <3>1. Running' = Running
      BY <2>2 DEF Running
    <3>2. slots' + Cardinality(Running') = BoxSlots
      BY <2>2, <3>1
    <3>3. Cardinality(Holders) \in Nat
      BY <2>2, HoldersMove
    <3>4. CASE s \in Holding <=> call[j] \in Holding
      <4>1. Cardinality(Holders') = Cardinality(Holders)
        BY <2>2, <3>4, HoldersMove
      <4> QED BY <2>2, <3>2, <3>4, <4>1
    <3>5. CASE s \in Holding /\ ~(call[j] \in Holding)
      <4>1. Cardinality(Holders') = Cardinality(Holders) + 1
        BY <2>2, <3>5, HoldersMove
      <4> QED BY <2>2, <2>types, <3>2, <3>3, <3>5, <4>1
    <3>6. CASE ~(s \in Holding) /\ call[j] \in Holding
      <4>1. Cardinality(Holders') = Cardinality(Holders) - 1
        BY <2>2, <3>6, HoldersMove
      <4> QED BY <2>2, <2>types, <3>2, <3>3, <3>6, <4>1
    <3> QED BY <3>4, <3>5, <3>6
  <2>3. ASSUME NEW j \in Jobs, UNCHANGED <<gate, call>>,
               NEW a \in TaskStates, task' = [task EXCEPT ![j] = a],
               \/ /\ a = "running" <=> task[j] = "running"
                  /\ slots' = slots
               \/ /\ a = "running" /\ task[j] # "running"
                  /\ slots' = slots - 1
               \/ /\ a # "running" /\ task[j] = "running"
                  /\ slots' = slots + 1
        PROVE  SlotsBalanced'
    <3>1. Holders' = Holders
      BY <2>3 DEF Holders
    <3>2. gate' + Cardinality(Holders') = WebSlots
      BY <2>3, <3>1
    <3>3. Cardinality(Running) \in Nat
      BY <2>3, RunningMove
    <3>4. CASE a = "running" <=> task[j] = "running"
      <4>1. Cardinality(Running') = Cardinality(Running)
        BY <2>3, <3>4, RunningMove
      <4> QED BY <2>3, <3>2, <3>4, <4>1
    <3>5. CASE a = "running" /\ ~(task[j] = "running")
      <4>1. Cardinality(Running') = Cardinality(Running) + 1
        BY <2>3, <3>5, RunningMove
      <4> QED BY <2>3, <2>types, <3>2, <3>3, <3>5, <4>1
    <3>6. CASE ~(a = "running") /\ task[j] = "running"
      <4>1. Cardinality(Running') = Cardinality(Running) - 1
        BY <2>3, <3>6, RunningMove
      <4> QED BY <2>3, <2>types, <3>2, <3>3, <3>6, <4>1
    <3> QED BY <3>4, <3>5, <3>6
  <2>4. ASSUME NEW j \in Jobs, Execute(j) PROVE SlotsBalanced'
    BY <2>2, <2>4 DEF Execute, boxVars, CallStates, Holding, Waiting
  <2>5. ASSUME NEW j \in Jobs, Dispatch(j) PROVE SlotsBalanced'
    <3> USE DEF CallStates, Holding, Waiting
    <3>1. CASE AcquireGate(j)    BY <2>2, <3>1 DEF AcquireGate, boxVars
    <3>2. CASE QueueExpired(j)   BY <2>2, <3>2 DEF QueueExpired, boxVars
    <3>3. CASE CreateJobDir(j)   BY <2>2, <3>3 DEF CreateJobDir, boxVars
    <3>4. CASE Post(j)
      <4>1. call[j] = "writing" /\ call' = [call EXCEPT ![j] = "posting"]
        BY <3>4 DEF Post
      <4>2. task' = [task EXCEPT ![j] = "sent"] /\ UNCHANGED <<gate, slots>>
        BY <3>4 DEF Post
      <4>3. Running' = Running /\ Holders' = Holders
        BY <4>1, <4>2 DEF Running, Holders, TypeOK, IInv, NotPostedInv, NotPosted
      <4> QED BY <4>2, <4>3
    <3>5. CASE PrepareFailed(j)  BY <2>2, <3>5 DEF PrepareFailed, boxVars
    <3>6. CASE Unavailable(j)
      <4>1. Running' = Running /\ Holders' = Holders
        BY <3>6 DEF Unavailable, Running, Holders, TypeOK
      <4> QED BY <3>6, <4>1 DEF Unavailable
    <3>7. CASE ReceiveAnswer(j)  BY <2>2, <3>7 DEF ReceiveAnswer, boxVars
    <3>8. CASE ReadAnswer(j)     BY <2>2, <3>8 DEF ReadAnswer, boxVars
    <3>9. CASE CleanUp(j)        BY <2>2, <3>9 DEF CleanUp, boxVars
    <3>10. CASE WebSweepAct(j)   BY <2>quiet, <3>10 DEF WebSweepAct, boxVars
    <3>11. CASE ReleaseGate(j)   BY <2>2, <3>11 DEF ReleaseGate, boxVars
    <3> QED BY <2>5, <3>1, <3>2, <3>3, <3>4, <3>5, <3>6, <3>7, <3>8, <3>9, <3>10, <3>11
            DEF Dispatch
  <2>6. ASSUME NEW j \in Jobs, Serve(j) PROVE SlotsBalanced'
    <3> USE DEF TaskStates, InFlight, Answers
    <3>1. CASE RejectRequest(j)  BY <2>3, <3>1 DEF RejectRequest, webVars
    <3>2. CASE AcceptRequest(j)  BY <2>3, <3>2 DEF AcceptRequest, webVars
    <3>3. CASE QueueTimeout(j)   BY <2>3, <3>3 DEF QueueTimeout, Answer, webVars
    <3>4. CASE StartJob(j)       BY <2>3, <3>4 DEF StartJob, webVars
    <3>5. CASE StartFailed(j)    BY <2>3, <3>5 DEF StartFailed, Answer, webVars
    <3>6. CASE FinishJob(j)      BY <2>3, <3>6 DEF FinishJob, Answer, webVars
    <3> QED BY <2>6, <3>1, <3>2, <3>3, <3>4, <3>5, <3>6 DEF Serve
  <2>7. ASSUME NEW j \in Jobs,
               SealDir(j) \/ LeaveStray(j) \/ \E e \in Entries : WebSweepStat(j, e)
        PROVE  SlotsBalanced'
    BY <2>7, <2>quiet DEF SealDir, LeaveStray, WebSweepStat, webVars, boxVars
  <2>8. ASSUME NEW e \in Entries, BoxSweepStat(e) \/ GrowOld(e) PROVE SlotsBalanced'
    BY <2>8, <2>quiet DEF BoxSweepStat, GrowOld, webVars, boxVars
  <2>9. CASE BoxSweepCheck \/ BoxSweepRemove \/ WebStart \/ BoxStart
    BY <2>9, <2>quiet DEF BoxSweepCheck, BoxSweepRemove, WebStart, BoxStart, webVars, boxVars
  <2>10. CASE WebCrash
    <3>1. Holders' = {} /\ Running' = Running
      BY <2>10 DEF WebCrash, Holders, Running, Holding, TypeOK, boxVars
    <3> QED BY <2>10, <2>types, <3>1, FS_EmptySet DEF WebCrash, boxVars
  <2>11. CASE BoxCrash
    <3>1. Running' = {} /\ Holders' = Holders
      BY <2>11 DEF BoxCrash, Holders, Running, Answers, TypeOK, webVars
    <3> QED BY <2>11, <2>types, <3>1, FS_EmptySet DEF BoxCrash, webVars
  <2> QED
    BY <2>1, <2>4, <2>5, <2>6, <2>7, <2>8, <2>9, <2>10, <2>11 DEF Next
<1> QED
  BY <1>1, <1>2, Invariance, PTL DEF Spec
-----------------------------------------------------------------------------
(* Where the sandbox reads no fewer slots than the web service (both read     *)
(* EXECUTOR_MAX_CONCURRENT), a caller that got a slot finds the sandbox full  *)
(* only when a job runs there whose own dispatcher is gone.  The gate is what *)
(* keeps this true: were every running job awaited, their dispatchers and the *)
(* caller itself would hold more slots of the gate than there are.            *)
THEOREM QueuesBehindAbandoned ==
  ASSUME WebSlots <= BoxSlots
  PROVE  Spec => []QueuedOnlyBehindAbandoned
<1>1. TypeOK /\ SlotsBalanced => QueuedOnlyBehindAbandoned
  <2> SUFFICES ASSUME TypeOK, SlotsBalanced, NEW j \in Jobs,
                      call[j] = "posting", task[j] = "queued", slots = 0,
                      \A i \in Jobs : task[i] = "running" => call[i] = "posting"
               PROVE  FALSE
    BY DEF QueuedOnlyBehindAbandoned
  <2>1. IsFiniteSet(Holders) /\ IsFiniteSet(Running)
    BY JobsAreFinite, FS_Subset DEF Holders, Running
  <2>2. Running \cup {j} \in SUBSET Holders
    BY DEF Running, Holders, Holding
  <2>3. j \notin Running
    BY DEF Running
  <2>4. Cardinality(Running \cup {j}) = Cardinality(Running) + 1
    BY <2>1, <2>3, FS_AddElement
  <2>5. Cardinality(Running \cup {j}) <= Cardinality(Holders)
    BY <2>1, <2>2, FS_Subset
  <2>6. Cardinality(Running) \in Nat /\ Cardinality(Holders) \in Nat
    BY <2>1, FS_CardinalityType
  <2>7. gate \in Nat /\ slots \in Nat
    BY DEF TypeOK
  <2> QED
    BY <2>4, <2>5, <2>6, <2>7, SlotsArePositive DEF SlotsBalanced
<1> QED
  BY <1>1, TypeCorrect, SlotsAreBalanced, PTL

-----------------------------------------------------------------------------
(* The hop implements the contract: in particular a call that was told that  *)
(* its job was refused (busy, not prepared, rejected) was told the truth, for *)
(* ever; an answer is that of a job that ran; and after any result but an     *)
(* unknown one the job is never started.                                     *)
THEOREM Implementation == Spec => ImplementsContract
<1>1. Init => Contract!Init
  BY DEF Init, Contract!Init, Phase
<1>2. IInv /\ SlotsBalanced /\ [Next]_vars => [Contract!Next]_(Contract!vars)
  <2> SUFFICES ASSUME IInv, SlotsBalanced, [Next]_vars
               PROVE  Contract!Next \/ UNCHANGED Contract!vars
    BY DEF Contract!vars
  <2> USE DEF IInv, TypeOK
  <2>quiet. ASSUME UNCHANGED <<call, result, ran>> PROVE UNCHANGED Contract!vars
    BY <2>quiet DEF Contract!vars, Phase
  <2>move. ASSUME NEW i \in Jobs, NEW s \in Holding, call[i] \in Holding,
                  call' = [call EXCEPT ![i] = s], UNCHANGED ran,
                  \A j \in Jobs \ {i} : result'[j] = result[j]
           PROVE  UNCHANGED Contract!vars
    BY <2>move DEF Contract!vars, Phase, Holding
  <2>return. ASSUME NEW i \in Jobs, call[i] \in Holding, UNCHANGED ran,
                    call' = [call EXCEPT ![i] = "done"],
                    NEW r \in Outcomes \ {"none"}, result' = [result EXCEPT ![i] = r],
                    r = "answer" => i \in ran,
                    r \in Refusals => i \notin ran
             PROVE  Contract!Next
    <3>1. Phase(i) = "inside"
      BY <2>return DEF Phase, Holding
    <3>2. /\ [j \in Jobs |-> Phase(j)]' = [[j \in Jobs |-> Phase(j)] EXCEPT ![i] = "returned"]
          /\ [j \in Jobs |-> IF call[j] = "done" THEN result[j] ELSE "none"]'
               = [[j \in Jobs |-> IF call[j] = "done" THEN result[j] ELSE "none"]
                    EXCEPT ![i] = r]
      BY <2>return DEF Phase
    <3>3. r \in Contract!Results
      BY DEF Outcomes, Refusals, Contract!Results, Contract!Refusals, Contract!Settled, Contract!Unknown
    <3>4. Contract!Return(i, r)
      BY <2>return, <3>1, <3>2 DEF Contract!Return, Contract!Refusals, Refusals
    <3> QED BY <3>3, <3>4 DEF Contract!Next
  <2>1. CASE UNCHANGED vars
    BY <2>1, <2>quiet DEF vars, webVars, boxVars
  <2>2. ASSUME NEW i \in Jobs, Execute(i) PROVE Contract!Next
    <3>1. Contract!Call(i)
      BY <2>2 DEF Execute, Contract!Call, Phase, boxVars
    <3> QED BY <3>1 DEF Contract!Next
  <2>3. ASSUME NEW i \in Jobs, AcquireGate(i) PROVE Contract!Next
    <3>1. Contract!Inside = Holders
      BY DEF Contract!Inside, Holders, Phase, CallStates, Waiting, Holding
    <3>2. Cardinality(Holders) < WebSlots
      <4>1. Cardinality(Holders) \in Nat
        BY JobsAreFinite, FS_Subset, FS_CardinalityType DEF Holders
      <4> QED BY <2>3, <4>1, SlotsArePositive DEF AcquireGate, SlotsBalanced
    <3>3. Contract!Enter(i)
      <4>1. /\ [j \in Jobs |-> Phase(j)]' = [[j \in Jobs |-> Phase(j)] EXCEPT ![i] = "inside"]
            /\ [j \in Jobs |-> IF call[j] = "done" THEN result[j] ELSE "none"]'
                 = [j \in Jobs |-> IF call[j] = "done" THEN result[j] ELSE "none"]
        BY <2>3 DEF AcquireGate, Phase, boxVars
      <4>2. Phase(i) = "waiting" /\ UNCHANGED ran
        BY <2>3 DEF AcquireGate, Phase, boxVars
      <4>3. Contract!Cardinality(Contract!Inside) < WebSlots
        BY <3>1, <3>2 DEF Contract!Cardinality, Cardinality
      <4> QED BY <4>1, <4>2, <4>3 DEF Contract!Enter
    <3> QED BY <3>3 DEF Contract!Next
  <2>4. ASSUME NEW i \in Jobs, QueueExpired(i) PROVE Contract!Next
    <3>1. Contract!Busy(i)
      BY <2>4 DEF QueueExpired, Contract!Busy, Phase, boxVars
    <3> QED BY <3>1 DEF Contract!Next
  <2>5. ASSUME NEW i \in Jobs, PrepareFailed(i) PROVE Contract!Next
    <3>1. i \notin ran
      BY <2>5 DEF PrepareFailed, NotPostedInv, NotPosted
    <3> QED BY <2>5, <2>return, <3>1 DEF PrepareFailed, Holding, Outcomes, Refusals, boxVars
  <2>6. ASSUME NEW i \in Jobs, ReleaseGate(i) PROVE Contract!Next
    <3>1. /\ result[i] \in Outcomes \ {"none"}
          /\ result[i] = "answer" => i \in ran
          /\ result[i] \in Refusals => i \notin ran
      BY <2>6 DEF ReleaseGate, ResultInv, Leaving
    <3>2. result' = [result EXCEPT ![i] = result[i]]
      BY <2>6 DEF ReleaseGate
    <3> QED BY <2>6, <2>return, <3>1, <3>2 DEF ReleaseGate, Holding, boxVars
  <2>7. ASSUME NEW i \in Jobs,
               \/ CreateJobDir(i) \/ Post(i) \/ Unavailable(i) \/ ReceiveAnswer(i)
               \/ ReadAnswer(i) \/ CleanUp(i)
        PROVE  UNCHANGED Contract!vars
    <3> USE <2>move DEF Holding
    <3>1. CASE CreateJobDir(i)   BY <3>1 DEF CreateJobDir, boxVars
    <3>2. CASE Post(i)           BY <3>2 DEF Post
    <3>3. CASE Unavailable(i)    BY <3>3 DEF Unavailable
    <3>4. CASE ReceiveAnswer(i)  BY <3>4 DEF ReceiveAnswer, boxVars
    <3>5. CASE ReadAnswer(i)     BY <3>5 DEF ReadAnswer, boxVars
    <3>6. CASE CleanUp(i)        BY <3>6 DEF CleanUp, boxVars
    <3> QED BY <2>7, <3>1, <3>2, <3>3, <3>4, <3>5, <3>6
  <2>8. ASSUME NEW i \in Jobs, StartJob(i) PROVE Contract!Next
    <3>1. /\ call[i] = "posting" \/ (call[i] \in Leaving /\ result[i] \in {"unavailable", "lost"})
          /\ i \notin ran
      BY <2>8 DEF StartJob, TaskInv, InFlight
    <3>2. Contract!MayStart(i)
      BY <3>1 DEF Contract!MayStart, Contract!Unknown, Phase, Leaving
    <3>3. Contract!Run(i)
      BY <2>8, <3>1, <3>2 DEF StartJob, Contract!Run, Phase, webVars
    <3> QED BY <3>3 DEF Contract!Next
  <2>9. ASSUME NEW i \in Jobs,
               \/ WebSweepAct(i) \/ RejectRequest(i) \/ AcceptRequest(i) \/ QueueTimeout(i)
               \/ StartFailed(i) \/ FinishJob(i) \/ SealDir(i) \/ LeaveStray(i)
               \/ \E e \in Entries : WebSweepStat(i, e)
        PROVE  UNCHANGED Contract!vars
    BY <2>9, <2>quiet DEF WebSweepAct, RejectRequest, AcceptRequest, QueueTimeout,
       StartFailed, FinishJob, Answer, SealDir, LeaveStray, WebSweepStat, webVars, boxVars
  <2>10. ASSUME NEW e \in Entries, BoxSweepStat(e) \/ GrowOld(e)
         PROVE  UNCHANGED Contract!vars
    BY <2>10, <2>quiet DEF BoxSweepStat, GrowOld, webVars, boxVars
  <2>11. CASE BoxSweepCheck \/ BoxSweepRemove \/ WebStart \/ BoxCrash \/ BoxStart
    BY <2>11, <2>quiet DEF BoxSweepCheck, BoxSweepRemove, WebStart, BoxCrash, BoxStart,
       webVars, boxVars
  <2>12. CASE WebCrash
    <3>1. Contract!Lose
      BY <2>12 DEF WebCrash, Contract!Lose, Phase, CallStates, Waiting, Holding, boxVars
    <3> QED BY <3>1 DEF Contract!Next
  <2> QED
    BY <2>1, <2>2, <2>3, <2>4, <2>5, <2>6, <2>7, <2>8, <2>9, <2>10, <2>11, <2>12
    DEF Next, Dispatch, Serve
<1> QED
  BY <1>1, <1>2, Invariance, SlotsAreBalanced, PTL DEF Spec, ImplementsContract, Contract!Spec
=============================================================================
