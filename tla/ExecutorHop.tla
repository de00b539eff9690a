---------------------------- MODULE ExecutorHop ----------------------------
(***************************************************************************)
(* The hop between the web service and the sandbox that runs generated     *)
(* code: the dispatcher (executor_client.py) with its gate, the sandbox's  *)
(* /execute (executor/app.py) with its semaphore, and the jobs directory   *)
(* both containers mount.  Each side removes orphaned directories from it  *)
(* with a sweep of its own, keyed on a set of active job ids that only     *)
(* that side knows.  Both containers may be restarted at any moment.       *)
(*                                                                         *)
(* What happens between the spawn of a runner and its answer is one step   *)
(* pair here (StartJob, FinishJob); module JobRunner is that part.         *)
(***************************************************************************)
EXTENDS Naturals, FiniteSets

CONSTANTS
  Jobs,          \* dispatches; each creates one job id (uuid4) of its own
  Strays,        \* entries of the jobs root that are not job-id shaped
  WebSlots,      \* EXECUTOR_MAX_CONCURRENT as the web service reads it
  BoxSlots,      \* EXECUTOR_MAX_CONCURRENT as the sandbox reads it
  MaxRestarts,   \* bound on container crashes, both sides together
  None           \* no entry under examination

ASSUME StraysAreNoJobs == Strays \cap Jobs = {}
ASSUME NoneIsNoEntry == None \notin Jobs \cup Strays
ASSUME SlotsArePositive == WebSlots \in Nat \ {0} /\ BoxSlots \in Nat \ {0}
ASSUME JobsAreFinite == IsFiniteSet(Jobs)
ASSUME RestartsAreBounded == MaxRestarts \in Nat

VARIABLES
  web, box,      \* is the container up
  gate,          \* free slots of the dispatch gate (_GATE)
  call,          \* where each dispatch is (execute / _dispatch)
  result,        \* what the dispatch returns
  webActive,     \* executor_client._ACTIVE_JOBS
  webScan,       \* the entry a dispatcher's sweep examines, with its age
  slots,         \* free slots of the sandbox semaphore
  task,          \* the request of each job inside the sandbox
  boxActive,     \* executor.app._ACTIVE_JOBS
  boxScan,       \* the entry the sandbox's sweep thread examines
  ran,           \* jobs whose generated code was started (history)
  dir,           \* the jobs root: is the entry there, and how old
  sealed,        \* entries the web uid cannot remove, or leaves alone as its own
  restarts

webVars == <<web, gate, call, result, webActive, webScan>>
boxVars == <<box, slots, task, boxActive, boxScan, ran>>
vars == <<webVars, boxVars, dir, sealed, restarts>>

Entries == Jobs \cup Strays

Waiting == {"waiting"}
\* The slot is held from the gate's acquire to its release.
Holding == {"preparing", "writing", "posting", "reading", "closing", "sweeping"}
CallStates == {"idle", "done"} \cup Waiting \cup Holding

InFlight == {"queued", "running"}
Answers == {"ran", "queue_timeout", "failed", "rejected"}
TaskStates == {"none", "sent"} \cup InFlight \cup Answers

\* What a caller is told.  A queue timeout and a hard timeout read the same to
\* it (timeout_error_text), and so do most reasons of a crash.
Refusals == {"busy", "prepare_failed", "rejected"}
Outcomes == {"none", "unavailable", "lost", "answer", "timeout", "crashed", "unreadable"}
            \cup Refusals

NoScan == [entry |-> None, age |-> "fresh", checked |-> FALSE]
Scans == [entry : Entries \cup {None}, age : {"fresh", "aged"}, checked : BOOLEAN]

Holders == {j \in Jobs : call[j] \in Holding}
Running == {j \in Jobs : task[j] = "running"}

Present(e) == dir[e] # "absent"

-----------------------------------------------------------------------------
Init ==
  /\ web = "up" /\ box = "up"
  /\ gate = WebSlots
  /\ call = [j \in Jobs |-> "idle"]
  /\ result = [j \in Jobs |-> "none"]
  /\ webActive = {}
  /\ webScan = [j \in Jobs |-> NoScan]
  /\ slots = BoxSlots
  /\ task = [j \in Jobs |-> "none"]
  /\ boxActive = {}
  /\ boxScan = NoScan
  /\ ran = {}
  /\ dir = [e \in Entries |-> "absent"]
  /\ sealed = {}
  /\ restarts = 0

-----------------------------------------------------------------------------
(* The dispatcher: executor_client.execute and _dispatch.                  *)

Execute(j) ==
  /\ web = "up" /\ call[j] = "idle"
  /\ call' = [call EXCEPT ![j] = "waiting"]
  /\ UNCHANGED <<web, gate, result, webActive, webScan, boxVars, dir, sealed, restarts>>

\* Mutants (each definition is followed by the one it alters).
AcquireGateUnguarded(j) ==
  /\ call[j] = "waiting"
  /\ gate' = gate - 1
  /\ call' = [call EXCEPT ![j] = "preparing"]
  /\ webActive' = webActive \cup {j}
  /\ UNCHANGED <<web, result, webScan, boxVars, dir, sealed, restarts>>

\* The gate is taken before anything is created, and the job id is
\* registered before its directory exists.
AcquireGate(j) ==
  /\ call[j] = "waiting" /\ gate > 0
  /\ gate' = gate - 1
  /\ call' = [call EXCEPT ![j] = "preparing"]
  /\ webActive' = webActive \cup {j}
  /\ UNCHANGED <<web, result, webScan, boxVars, dir, sealed, restarts>>

\* EXEC_QUEUE_EXPIRED: no slot within EXECUTOR_QUEUE_MAX_S.
QueueExpired(j) ==
  /\ call[j] = "waiting" /\ gate = 0
  /\ call' = [call EXCEPT ![j] = "done"]
  /\ result' = [result EXCEPT ![j] = "busy"]
  /\ UNCHANGED <<web, gate, webActive, webScan, boxVars, dir, sealed, restarts>>

CreateJobDir(j) ==
  /\ call[j] = "preparing"
  /\ dir' = [dir EXCEPT ![j] = "fresh"]
  /\ call' = [call EXCEPT ![j] = "writing"]
  /\ UNCHANGED <<web, gate, result, webActive, webScan, boxVars, sealed, restarts>>

\* write_inputs succeeded and the POST is sent.
Post(j) ==
  /\ call[j] = "writing"
  /\ call' = [call EXCEPT ![j] = "posting"]
  /\ task' = [task EXCEPT ![j] = "sent"]
  /\ UNCHANGED <<web, gate, result, webActive, webScan, box, slots, boxActive,
                 boxScan, ran, dir, sealed, restarts>>

\* Mutant: the early return keeps the slot.
PrepareFailedKeepsSlot(j) ==
  /\ call[j] \in {"preparing", "writing"}
  /\ dir' = [dir EXCEPT ![j] = "absent"]
  /\ webActive' = webActive \ {j}
  /\ call' = [call EXCEPT ![j] = "done"]
  /\ result' = [result EXCEPT ![j] = "prepare_failed"]
  /\ UNCHANGED <<web, gate, webScan, boxVars, sealed, restarts>>

\* EXEC_INPUT_FAILED: this path removes the directory and forgets the id
\* itself, runs no sweep, and gives the slot back.  A create_job_dir that
\* fails half way returns no path, so nobody removes what it made.
PrepareFailed(j) ==
  /\ call[j] \in {"preparing", "writing"}
  /\ \/ dir' = [dir EXCEPT ![j] = "absent"]
     \/ call[j] = "preparing" /\ dir' = [dir EXCEPT ![j] = "fresh"]
  /\ webActive' = webActive \ {j}
  /\ gate' = gate + 1
  /\ call' = [call EXCEPT ![j] = "done"]
  /\ result' = [result EXCEPT ![j] = "prepare_failed"]
  /\ UNCHANGED <<web, webScan, boxVars, sealed, restarts>>

\* Mutant: the POST has no read timeout, only connecting can fail.
UnavailableWhenRefused(j) ==
  /\ call[j] = "posting" /\ task[j] = "sent"
  /\ call' = [call EXCEPT ![j] = "closing"]
  /\ result' = [result EXCEPT ![j] = "unavailable"]
  /\ task' = [task EXCEPT ![j] = "none"]
  /\ UNCHANGED <<web, gate, webActive, webScan, box, slots, boxActive, boxScan,
                 ran, dir, sealed, restarts>>

\* Mutant: a read timeout is told as if the job had been refused.
UnavailableAsRejected(j) ==
  /\ call[j] = "posting"
  /\ call' = [call EXCEPT ![j] = "closing"]
  /\ result' = [result EXCEPT ![j] = "rejected"]
  /\ \/ UNCHANGED task
     \/ task[j] = "sent" /\ task' = [task EXCEPT ![j] = "none"]
  /\ UNCHANGED <<web, gate, webActive, webScan, box, slots, boxActive, boxScan,
                 ran, dir, sealed, restarts>>

\* Any exception of the POST: refused connection, reset, read timeout of
\* budget + _READ_TIMEOUT_MARGIN_S.  A request the sandbox has not picked up
\* yet may be lost or still be delivered.
Unavailable(j) ==
  /\ call[j] = "posting"
  /\ call' = [call EXCEPT ![j] = "closing"]
  /\ result' = [result EXCEPT ![j] = "unavailable"]
  /\ \/ UNCHANGED task
     \/ task[j] = "sent" /\ task' = [task EXCEPT ![j] = "none"]
  /\ UNCHANGED <<web, gate, webActive, webScan, box, slots, boxActive, boxScan,
                 ran, dir, sealed, restarts>>

\* A non-200 status ends the dispatch; so does a body over the cap, whatever
\* it said.  Any other answer is still to be read with the job's outputs.
ReceiveAnswer(j) ==
  /\ call[j] = "posting" /\ task[j] \in Answers
  /\ \/ /\ task[j] = "rejected"
        /\ call' = [call EXCEPT ![j] = "closing"]
        /\ result' = [result EXCEPT ![j] = "rejected"]
     \/ /\ call' = [call EXCEPT ![j] = "closing"]
        /\ result' = [result EXCEPT ![j] = "unreadable"]
     \/ /\ task[j] # "rejected"
        /\ call' = [call EXCEPT ![j] = "reading"]
        /\ UNCHANGED result
  /\ UNCHANGED <<web, gate, webActive, webScan, boxVars, dir, sealed, restarts>>

\* deserialize_result and _log_outcome: the status decides; a response that
\* does not validate, or whose result file cannot be read, is unreadable.
ResultsOf(j) ==
  CASE task[j] = "ran" -> {"answer", "timeout", "crashed", "unreadable"}
    [] task[j] = "queue_timeout" -> {"timeout"}
    [] OTHER -> {"crashed"}

ReadAnswer(j) ==
  /\ call[j] = "reading"
  /\ call' = [call EXCEPT ![j] = "closing"]
  /\ \E r \in ResultsOf(j) : result' = [result EXCEPT ![j] = r]
  /\ UNCHANGED <<web, gate, webActive, webScan, boxVars, dir, sealed, restarts>>

\* The finally clause: remove the directory (which fails on modes the job
\* changed and then leaves it to the sweeps), forget the id, then sweep.
CleanUp(j) ==
  /\ call[j] = "closing"
  /\ dir' = IF j \in sealed THEN dir ELSE [dir EXCEPT ![j] = "absent"]
  /\ webActive' = webActive \ {j}
  /\ call' = [call EXCEPT ![j] = "sweeping"]
  /\ UNCHANGED <<web, gate, result, webScan, boxVars, sealed, restarts>>

\* sweep_orphans, one entry at a time: lstat ...
WebSweepStat(j, e) ==
  /\ call[j] = "sweeping" /\ webScan[j] = NoScan /\ Present(e)
  /\ webScan' = [webScan EXCEPT ![j] = [entry |-> e, age |-> dir[e], checked |-> FALSE]]
  /\ UNCHANGED <<web, gate, call, result, webActive, boxVars, dir, sealed, restarts>>

\* ... then skip an active id, then skip a fresh entry, then rmtree, which
\* fails on a sealed entry (EXEC_ORPHAN_LEFT_TO_SANDBOX).
WebSweepAct(j) ==
  LET e == webScan[j].entry IN
  /\ call[j] = "sweeping" /\ e # None
  /\ webScan' = [webScan EXCEPT ![j] = NoScan]
  /\ dir' = IF e \notin webActive /\ webScan[j].age = "aged" /\ e \notin sealed
            THEN [dir EXCEPT ![e] = "absent"] ELSE dir
  /\ UNCHANGED <<web, gate, call, result, webActive, boxVars, sealed, restarts>>

ReleaseGate(j) ==
  /\ call[j] = "sweeping" /\ webScan[j] = NoScan
  /\ gate' = gate + 1
  /\ call' = [call EXCEPT ![j] = "done"]
  /\ UNCHANGED <<web, result, webActive, webScan, boxVars, dir, sealed, restarts>>

\* The web container dies: every dispatch in it is lost, with the gate and
\* the active ids; directories and the sandbox's work stay.
WebCrash ==
  /\ web = "up" /\ restarts < MaxRestarts
  /\ web' = "down" /\ restarts' = restarts + 1
  /\ gate' = WebSlots /\ webActive' = {}
  /\ webScan' = [j \in Jobs |-> NoScan]
  /\ call' = [j \in Jobs |-> IF call[j] = "idle" THEN "idle" ELSE "done"]
  /\ result' = [j \in Jobs |-> IF call[j] \in Waiting \cup Holding THEN "lost" ELSE result[j]]
  /\ UNCHANGED <<boxVars, dir, sealed>>

\* startup: the sweep runs before the service answers anything.
WebStart ==
  /\ web = "down"
  /\ web' = "up"
  /\ dir' = [e \in Entries |-> IF dir[e] = "aged" /\ e \notin sealed THEN "absent" ELSE dir[e]]
  /\ UNCHANGED <<gate, call, result, webActive, webScan, boxVars, sealed, restarts>>

-----------------------------------------------------------------------------
(* The sandbox: executor.app.execute and _execute_accepted.                *)

\* Not ready, unhealthy or invalid; also JOB_DIR_INVALID, the only answer
\* left when the directory is gone.
RejectRequest(j) ==
  /\ box = "up" /\ task[j] = "sent"
  /\ task' = [task EXCEPT ![j] = "rejected"]
  /\ UNCHANGED <<webVars, box, slots, boxActive, boxScan, ran, dir, sealed, restarts>>

\* Mutant: the id is registered only when the job gets its slot.
AcceptRequestUnregistered(j) ==
  /\ box = "up" /\ task[j] = "sent" /\ Present(j)
  /\ task' = [task EXCEPT ![j] = "queued"]
  /\ UNCHANGED <<webVars, box, slots, boxActive, boxScan, ran, dir, sealed, restarts>>

AcceptRequest(j) ==
  /\ box = "up" /\ task[j] = "sent" /\ Present(j)
  /\ boxActive' = boxActive \cup {j}
  /\ task' = [task EXCEPT ![j] = "queued"]
  /\ UNCHANGED <<webVars, box, slots, boxScan, ran, dir, sealed, restarts>>

\* The finally clause of execute: the directory's age restarts, the id goes.
Answer(j, a) ==
  /\ task' = [task EXCEPT ![j] = a]
  /\ boxActive' = boxActive \ {j}
  /\ dir' = IF Present(j) THEN [dir EXCEPT ![j] = "fresh"] ELSE dir

\* The caller's budget ran out while the job waited for the semaphore.
QueueTimeout(j) ==
  /\ task[j] = "queued"
  /\ Answer(j, "queue_timeout")
  /\ UNCHANGED <<webVars, box, slots, boxScan, ran, sealed, restarts>>

\* job.json is written into the directory, which makes it young again.
StartJob(j) ==
  /\ task[j] = "queued" /\ slots > 0 /\ Present(j)
  /\ slots' = slots - 1
  /\ task' = [task EXCEPT ![j] = "running"]
  /\ ran' = ran \cup {j}
  /\ dir' = [dir EXCEPT ![j] = "fresh"]
  /\ UNCHANGED <<webVars, box, boxActive, boxScan, sealed, restarts>>

\* The slot is taken and given back: job.json could not be written or the
\* runner could not be spawned.
StartFailed(j) ==
  /\ task[j] = "queued" /\ slots > 0
  /\ Answer(j, "failed")
  /\ UNCHANGED <<webVars, box, slots, boxScan, ran, sealed, restarts>>

\* Mutant: the semaphore is not released.
FinishJobKeepsSlot(j) ==
  /\ task[j] = "running"
  /\ Answer(j, "ran")
  /\ UNCHANGED <<webVars, box, slots, boxScan, ran, sealed, restarts>>

FinishJob(j) ==
  /\ task[j] = "running"
  /\ slots' = slots + 1
  /\ Answer(j, "ran")
  /\ UNCHANGED <<webVars, box, boxScan, ran, sealed, restarts>>

\* What generated code may do to the volume: take the modes of what it owns
\* under its own directory away, and leave an entry in the jobs root.
SealDir(j) ==
  /\ task[j] = "running" /\ Present(j)
  /\ sealed' = sealed \cup {j}
  /\ UNCHANGED <<webVars, boxVars, dir, restarts>>

LeaveStray(j) ==
  /\ task[j] = "running"
  /\ \E s \in Strays :
       /\ ~Present(s)
       /\ dir' = [dir EXCEPT ![s] = "fresh"]
       /\ sealed' = sealed \/ sealed' = sealed \cup {s}
  /\ UNCHANGED <<webVars, boxVars, restarts>>

\* _sweep_orphans on its thread, one entry at a time: lstat, then the active
\* set under the lock, then the age lstat saw, then a removal that repairs
\* modes first.
BoxSweepStat(e) ==
  /\ box = "up" /\ boxScan = NoScan /\ Present(e)
  /\ boxScan' = [entry |-> e, age |-> dir[e], checked |-> FALSE]
  /\ UNCHANGED <<webVars, box, slots, task, boxActive, ran, dir, sealed, restarts>>

BoxSweepCheck ==
  /\ boxScan.entry # None /\ ~boxScan.checked
  /\ boxScan' = IF boxScan.entry \in boxActive \/ boxScan.age = "fresh"
                THEN NoScan ELSE [boxScan EXCEPT !.checked = TRUE]
  /\ UNCHANGED <<webVars, box, slots, task, boxActive, ran, dir, sealed, restarts>>

\* Mutant: the removal repairs no modes.
BoxSweepRemoveNoRepair ==
  /\ boxScan.checked
  /\ dir' = IF boxScan.entry \in sealed THEN dir ELSE [dir EXCEPT ![boxScan.entry] = "absent"]
  /\ boxScan' = NoScan
  /\ UNCHANGED <<webVars, box, slots, task, boxActive, ran, sealed, restarts>>

BoxSweepRemove ==
  /\ boxScan.checked
  /\ dir' = [dir EXCEPT ![boxScan.entry] = "absent"]
  /\ sealed' = sealed \ {boxScan.entry}
  /\ boxScan' = NoScan
  /\ UNCHANGED <<webVars, box, slots, task, boxActive, ran, restarts>>

BoxCrash ==
  /\ box = "up" /\ restarts < MaxRestarts
  /\ box' = "down" /\ restarts' = restarts + 1
  /\ slots' = BoxSlots /\ boxActive' = {} /\ boxScan' = NoScan
  /\ task' = [j \in Jobs |-> IF task[j] \in Answers THEN task[j] ELSE "none"]
  /\ UNCHANGED <<webVars, ran, dir, sealed>>

\* lifespan: the aged entries go before the first job is accepted.
BoxStart ==
  /\ box = "down"
  /\ box' = "up"
  /\ dir' = [e \in Entries |-> IF dir[e] = "aged" THEN "absent" ELSE dir[e]]
  /\ sealed' = {e \in sealed : dir[e] # "aged"}
  /\ UNCHANGED <<webVars, slots, task, boxActive, boxScan, ran, restarts>>

-----------------------------------------------------------------------------
(* Time.  An entry is aged once _ORPHAN_MAX_AGE_S (300 s) have passed since *)
(* its directory last changed.  Assumption: the web side's own work before  *)
(* the sandbox accepts the job and after it answered takes less than that.  *)
WebIsPrompt(e) ==
  /\ e \in Jobs
  /\ \/ call[e] \in {"writing", "reading"}
     \/ call[e] = "posting" /\ task[e] \notin InFlight

GrowOld(e) ==
  /\ dir[e] = "fresh" /\ ~WebIsPrompt(e)
  /\ dir' = [dir EXCEPT ![e] = "aged"]
  /\ UNCHANGED <<webVars, boxVars, sealed, restarts>>

-----------------------------------------------------------------------------
Dispatch(j) ==
  \/ AcquireGate(j) \/ QueueExpired(j) \/ CreateJobDir(j) \/ Post(j)
  \/ PrepareFailed(j) \/ Unavailable(j) \/ ReceiveAnswer(j) \/ ReadAnswer(j)
  \/ CleanUp(j) \/ WebSweepAct(j) \/ ReleaseGate(j)

Serve(j) ==
  \/ RejectRequest(j) \/ AcceptRequest(j) \/ QueueTimeout(j)
  \/ StartJob(j) \/ StartFailed(j) \/ FinishJob(j)

Next ==
  \/ \E j \in Jobs :
       \/ Execute(j) \/ Dispatch(j) \/ Serve(j) \/ SealDir(j) \/ LeaveStray(j)
       \/ \E e \in Entries : WebSweepStat(j, e)
  \/ \E e \in Entries : BoxSweepStat(e) \/ GrowOld(e)
  \/ BoxSweepCheck \/ BoxSweepRemove
  \/ WebCrash \/ WebStart \/ BoxCrash \/ BoxStart

Spec == Init /\ [][Next]_vars

\* A dispatcher thread keeps running, every wait in it has a timeout; the
\* sandbox answers what it accepted; time passes; the sandbox's sweep thread
\* comes round to every entry; a stopped container is started again.
Fairness ==
  /\ \A j \in Jobs : WF_vars(Dispatch(j)) /\ WF_vars(Serve(j))
  /\ \A e \in Entries : WF_vars(GrowOld(e)) /\ SF_vars(BoxSweepStat(e))
  /\ WF_vars(BoxSweepCheck) /\ WF_vars(BoxSweepRemove)
  /\ WF_vars(WebStart) /\ WF_vars(BoxStart)

FairSpec == Spec /\ Fairness

-----------------------------------------------------------------------------
TypeOK ==
  /\ web \in {"up", "down"} /\ box \in {"up", "down"}
  /\ gate \in Nat /\ slots \in Nat /\ restarts \in Nat
  /\ call \in [Jobs -> CallStates]
  /\ result \in [Jobs -> Outcomes]
  /\ task \in [Jobs -> TaskStates]
  /\ webActive \subseteq Jobs /\ boxActive \subseteq Jobs /\ ran \subseteq Jobs
  /\ webScan \in [Jobs -> Scans] /\ boxScan \in Scans
  /\ dir \in [Entries -> {"absent", "fresh", "aged"}]
  /\ sealed \subseteq Entries

\* No two sides ever run more than the slots allow, and no slot is lost: on
\* each side the free slots are exactly those nobody holds, through every
\* error path, timeout and restart.
SlotsBalanced ==
  /\ gate + Cardinality(Holders) = WebSlots
  /\ slots + Cardinality(Running) = BoxSlots

\* The directory of a job the sandbox holds for a dispatcher that is still
\* waiting for it is never removed by anyone: not by either sweep, however
\* long the job queues or runs, and not by a restart's startup sweep.
DirKeptInFlight ==
  \A j \in Jobs : call[j] = "posting" /\ task[j] \in InFlight => Present(j)

\* A caller that got a slot waits inside the sandbox only behind a job whose
\* own dispatcher is gone (it gave up on the read, or its process died).
QueuedOnlyBehindAbandoned ==
  \A j \in Jobs :
    call[j] = "posting" /\ task[j] = "queued" /\ slots = 0 =>
      \E i \in Jobs : task[i] = "running" /\ call[i] # "posting"

\* executor_client.execute says of the gate: "the sandbox's own queue stays
\* empty", i.e. no job that was given a slot finds the sandbox full.
SandboxQueueEmpty ==
  \A j \in Jobs : call[j] = "posting" /\ task[j] = "queued" => slots > 0

\* executor.app.execute restarts the directory's age "at COMPLETION: the web
\* service still reads `out/` after this answer", so that it is not eligible
\* for removal while the dispatcher reads.
AnsweredDirReadable ==
  \A j \in Jobs : call[j] = "reading" /\ task[j] = "ran" => Present(j)

\* Every dispatch returns: busy, failed or answered, never stuck.
EveryCallReturns == \A j \in Jobs : call[j] = "waiting" ~> call[j] = "done"

\* Whatever became of its dispatch (answered, given up, lost with the web
\* process, sealed by the job), a job's directory is eventually gone.
DirsEventuallyGone == \A j \in Jobs : call[j] = "done" ~> dir[j] = "absent"

\* The hop implements the contract its callers rely on.
Phase(j) ==
  CASE call[j] = "idle" -> "idle"
    [] call[j] = "waiting" -> "waiting"
    [] call[j] = "done" -> "returned"
    [] OTHER -> "inside"

Contract == INSTANCE ExecutorContract WITH
  Slots <- WebSlots,
  phase <- [j \in Jobs |-> Phase(j)],
  told <- [j \in Jobs |-> IF call[j] = "done" THEN result[j] ELSE "none"],
  executed <- ran

ImplementsContract == Contract!Spec

-----------------------------------------------------------------------------
(* The inductive invariant.  None of the properties above is inductive by   *)
(* itself: each rests on what is known of a job at every place of its call. *)

NotPosted == {"idle", "waiting", "preparing", "writing"}
Leaving == {"closing", "sweeping", "done"}

\* Before its POST a job is unknown to the sandbox.
NotPostedInv ==
  \A j \in Jobs : call[j] \in NotPosted =>
    task[j] = "none" /\ j \notin ran /\ result[j] = "none"

\* What the sandbox still has to do is awaited, or was given up on.
TaskInv ==
  \A j \in Jobs :
    /\ task[j] \in {"sent"} \cup InFlight =>
         \/ call[j] = "posting"
         \/ call[j] \in Leaving /\ result[j] \in {"unavailable", "lost"}
    /\ task[j] \in {"sent", "queued", "queue_timeout", "failed", "rejected"} => j \notin ran
    /\ task[j] \in {"running", "ran"} => j \in ran
    /\ call[j] = "reading" => task[j] \in Answers \ {"rejected"}

\* What a call returns agrees with what its job did.
ResultInv ==
  \A j \in Jobs : call[j] \in Leaving =>
    /\ result[j] # "none"
    /\ result[j] = "answer" => j \in ran
    /\ result[j] \in Refusals => j \notin ran

\* Each side's active set covers what that side must not lose.
ActiveInv ==
  \A j \in Jobs :
    /\ call[j] \in Holding \ {"sweeping"} => j \in webActive
    /\ task[j] \in InFlight => j \in boxActive
    /\ web = "down" => call[j] \in {"idle", "done"}
    /\ box = "down" => task[j] \notin InFlight

\* An entry is not aged, and was not seen aged, while its POST is on the way;
\* so no removal the sandbox decided on can meet a job it then accepted.
AgeInv ==
  /\ boxScan.checked => boxScan.age = "aged"
  /\ \A j \in Jobs :
       /\ call[j] \in NotPosted \ {"writing"} => dir[j] = "absent" /\ boxScan.entry # j
       /\ dir[j] = "aged" \/ (boxScan.entry = j /\ boxScan.age = "aged") =>
            /\ call[j] # "writing"
            /\ ~(call[j] = "posting" /\ task[j] = "sent")
       /\ boxScan.checked /\ boxScan.entry = j => ~(call[j] = "posting" /\ task[j] \in InFlight)

IInv == TypeOK /\ NotPostedInv /\ TaskInv /\ ResultInv /\ ActiveInv /\ AgeInv /\ DirKeptInFlight
=============================================================================
