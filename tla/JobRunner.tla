----------------------------- MODULE JobRunner -----------------------------
(***************************************************************************)
(* What the sandbox does with one accepted job (executor/app.py): it spawns *)
(* the runner, waits for it, kills its process group, sweeps every other    *)
(* process of its own uid, drains the pipes and turns what is left into ONE *)
(* answer.  Generated code may start processes of its own, which inherit    *)
(* the pipes and may leave the runner's process group; a process that was   *)
(* sent SIGKILL takes a while to be gone.  With Slots > 1 the sweep of one  *)
(* job meets the runner of another.                                         *)
(***************************************************************************)
EXTENDS Naturals, FiniteSets

CONSTANTS
  Jobs,           \* a job stands for its runner process too
  Strays,         \* the processes generated code may start
  Nobody,         \* owner of a process that was not started yet
  Slots,          \* EXECUTOR_MAX_CONCURRENT
  MaxPasses       \* _SWEEP_MAX_PASSES

ASSUME ProcessesAreDistinct == Jobs \cap Strays = {} /\ Nobody \notin Jobs \cup Strays
ASSUME PositiveBounds == Slots \in Nat \ {0} /\ MaxPasses \in Nat \ {0}
ASSUME FiniteJobs == IsFiniteSet(Jobs)

VARIABLES
  pc,          \* where the service is with each job
  state,       \* of each process
  owner,       \* the job a process belongs to
  escaped,     \* strays outside their runner's process group (setsid)
  forked,      \* strays that started another one
  wrote,       \* runners that wrote their whole response
  killedBy,    \* who sent a runner the SIGKILL that ended it (history)
  loose,       \* jobs a process of which the service let go unseen (history)
  exit,        \* process.returncode of each runner
  timedOut,    \* jobs whose wait timed out
  answer,      \* the status of each job's answer
  sweep,       \* the pass each job's sweep is in
  swept,       \* runners whose pid is in _SWEPT_PIDS
  runners,     \* _RUNNER_PIDS
  reap,        \* _REAP_PENDING
  unhealthy    \* the _UNHEALTHY latch

procVars == <<state, owner, escaped, forked, wrote, killedBy, loose>>
jobVars == <<pc, exit, timedOut, answer>>
sweepVars == <<sweep, swept, runners, reap, unhealthy>>
vars == <<procVars, jobVars, sweepVars>>

Procs == Jobs \cup Strays

\* A process that is there: it holds its descriptors and /proc shows it, and
\* unless SIGKILL has been sent it runs code.
There == {p \in Procs : state[p] \in {"live", "dying"}}

\* Between _enter_job and _leave_job; the semaphore is held for as long.
InService == {"entered", "waiting", "killing", "list", "read", "kill", "join", "leave"}
InFlight == {j \in Jobs : pc[j] \in InService}
Alone(j) == InFlight \subseteq {j}

NoPass == [pass |-> 0, listed |-> {}, found |-> {}]

\* The service is the parent of its runners, and inherits a stray once no
\* process of its job is left above it.
IsOurChild(p) ==
  p \in Jobs \/ \A q \in There : q # p => owner[q] # owner[p]

-----------------------------------------------------------------------------
Init ==
  /\ pc = [j \in Jobs |-> "new"]
  /\ state = [p \in Procs |-> "free"]
  /\ owner = [p \in Procs |-> IF p \in Jobs THEN p ELSE Nobody]
  /\ escaped = {} /\ forked = {} /\ wrote = {}
  /\ killedBy = [j \in Jobs |-> "none"] /\ loose = {}
  /\ exit = [j \in Jobs |-> "none"]
  /\ timedOut = {}
  /\ answer = [j \in Jobs |-> "none"]
  /\ sweep = [j \in Jobs |-> NoPass]
  /\ swept = {} /\ runners = {} /\ reap = {}
  /\ unhealthy = FALSE

-----------------------------------------------------------------------------
(* Generated code and the kernel.                                            *)

\* Any process of a job starts another, in its own group or in a new one.
Fork(q, s) ==
  /\ state[q] = "live" /\ state[s] = "free"
  /\ state' = [state EXCEPT ![s] = "live"]
  /\ owner' = [owner EXCEPT ![s] = owner[q]]
  /\ \/ escaped' = escaped \cup {s}
     \/ q \notin escaped /\ UNCHANGED escaped
  /\ forked' = forked \cup ({q} \cap Strays)
  /\ UNCHANGED <<wrote, killedBy, loose, jobVars, sweepVars>>

\* A pass that listed s but not what s started since, and that has not read
\* the status of s yet, sees neither if s exits now.
HopsAPass(s) ==
  /\ s \in forked
  /\ \E j \in Jobs : /\ pc[j] = "read" /\ s \in sweep[j].listed
                    /\ \E p \in Procs \ sweep[j].listed :
                         owner[p] = owner[s] /\ state[p] \notin {"free", "gone"}

StrayExits(s) ==
  /\ state[s] = "live"
  /\ state' = [state EXCEPT ![s] = "zombie"]
  /\ loose' = IF HopsAPass(s) THEN loose \cup {owner[s]} ELSE loose
  /\ UNCHANGED <<owner, escaped, forked, wrote, killedBy, jobVars, sweepVars>>

WriteResponse(j) ==
  /\ state[j] = "live" /\ j \notin wrote
  /\ wrote' = wrote \cup {j}
  /\ UNCHANGED <<state, owner, escaped, forked, killedBy, loose, jobVars, sweepVars>>

RunnerExits(j) ==
  /\ state[j] = "live"
  /\ state' = [state EXCEPT ![j] = "zombie"]
  /\ UNCHANGED <<owner, escaped, forked, wrote, killedBy, loose, jobVars, sweepVars>>

\* The OOM killer.
OutOfMemory(j) ==
  /\ state[j] = "live"
  /\ state' = [state EXCEPT ![j] = "dying"]
  /\ killedBy' = [killedBy EXCEPT ![j] = "kernel"]
  /\ UNCHANGED <<owner, escaped, forked, wrote, loose, jobVars, sweepVars>>

\* A killed process has finished exiting.
Die(p) ==
  /\ state[p] = "dying"
  /\ state' = [state EXCEPT ![p] = "zombie"]
  /\ UNCHANGED <<owner, escaped, forked, wrote, killedBy, loose, jobVars, sweepVars>>

-----------------------------------------------------------------------------
(* The service: execute, _execute_accepted, _run_job and _execute_job.       *)

\* The latch is looked at once, on arrival.
Admit(j) ==
  /\ pc[j] = "new"
  /\ IF unhealthy
     THEN /\ pc' = [pc EXCEPT ![j] = "done"]
          /\ answer' = [answer EXCEPT ![j] = "unhealthy"]
     ELSE /\ pc' = [pc EXCEPT ![j] = "queued"]
          /\ UNCHANGED answer
  /\ UNCHANGED <<procVars, exit, timedOut, sweepVars>>

QueueTimeout(j) ==
  /\ pc[j] = "queued"
  /\ pc' = [pc EXCEPT ![j] = "done"]
  /\ answer' = [answer EXCEPT ![j] = "queue_timeout"]
  /\ UNCHANGED <<procVars, exit, timedOut, sweepVars>>

\* The semaphore is acquired and _enter_job counts the job.
EnterJob(j) ==
  /\ pc[j] = "queued" /\ Cardinality(InFlight) < Slots
  /\ pc' = [pc EXCEPT ![j] = "entered"]
  /\ UNCHANGED <<procVars, exit, timedOut, answer, sweepVars>>

\* Popen under the lock, and the pid registered before it is released.  Popen
\* first collects the runners whose own object was dropped uncollected.
Dropped == {i \in Jobs : pc[i] \in {"leave", "done"} /\ state[i] = "zombie"}

Spawn(j) ==
  /\ pc[j] = "entered"
  /\ pc' = [pc EXCEPT ![j] = "waiting"]
  /\ state' = [p \in Procs |-> CASE p = j -> "live" [] p \in Dropped -> "gone" [] OTHER -> state[p]]
  /\ runners' = runners \cup {j}
  /\ UNCHANGED <<owner, escaped, forked, wrote, killedBy, loose, exit, timedOut, answer,
                 sweep, swept, reap, unhealthy>>

\* No scratch directory, no job.json or no process: nothing to sweep.
SpawnFailed(j) ==
  /\ pc[j] = "entered"
  /\ pc' = [pc EXCEPT ![j] = "leave"]
  /\ answer' = [answer EXCEPT ![j] = "crashed"]
  /\ UNCHANGED <<procVars, exit, timedOut, sweepVars>>

\* An exception after Popen (its pid cannot be recorded, a reader thread
\* cannot be started): the job is answered `crashed', its runner goes on, and
\* nobody waits for it or sweeps.
SpawnAbandoned(j) ==
  /\ pc[j] = "entered"
  /\ pc' = [pc EXCEPT ![j] = "leave"]
  /\ answer' = [answer EXCEPT ![j] = "crashed"]
  /\ state' = [p \in Procs |-> CASE p = j -> "live" [] p \in Dropped -> "gone" [] OTHER -> state[p]]
  /\ runners' = runners \/ runners' = runners \cup {j}
  /\ loose' = loose \cup {j}
  /\ UNCHANGED <<owner, escaped, forked, wrote, killedBy, exit, timedOut, sweep, swept, reap,
                 unhealthy>>

\* killpg reaches what is left of the runner's own group.
GroupOf(j) == {p \in Procs : owner[p] = j /\ p \notin escaped /\ state[p] = "live"}
Killed(S) == [p \in Procs |-> IF p \in S /\ state[p] = "live" THEN "dying" ELSE state[p]]

\* Mutant: the readers are joined before the sweep.
BeginSweepLate(j) ==
  /\ pc' = [pc EXCEPT ![j] = "join"]
  /\ sweep' = [sweep EXCEPT ![j] = NoPass]
  /\ swept' = IF Alone(j) THEN {} ELSE swept

\* The start of _sweep_same_uid_processes forgets what earlier sweeps killed
\* unless a sibling is in flight.
BeginSweep(j) ==
  /\ pc' = [pc EXCEPT ![j] = "list"]
  /\ sweep' = [sweep EXCEPT ![j] = NoPass]
  /\ swept' = IF Alone(j) THEN {} ELSE swept

ExitCode(j) == IF killedBy[j] = "none" THEN "normal" ELSE "sigkill"

\* process.wait returns.
RunnerEnded(j) ==
  /\ pc[j] = "waiting" /\ state[j] = "zombie"
  /\ exit' = [exit EXCEPT ![j] = ExitCode(j)]
  /\ state' = [Killed(GroupOf(j)) EXCEPT ![j] = "gone"]
  /\ BeginSweep(j)
  /\ UNCHANGED <<owner, escaped, forked, wrote, killedBy, loose, timedOut, answer,
                 runners, reap, unhealthy>>

\* Mutant: the timeout is not remembered.
HardTimeoutForgotten(j) ==
  /\ pc[j] = "waiting" /\ j \in There
  /\ pc' = [pc EXCEPT ![j] = "killing"]
  /\ state' = Killed(GroupOf(j))
  /\ killedBy' = [killedBy EXCEPT ![j] = IF state[j] = "live" THEN "service" ELSE @]
  /\ UNCHANGED <<owner, escaped, forked, wrote, loose, exit, timedOut, answer, sweepVars>>

\* process.wait raises TimeoutExpired after the rest of the budget.
HardTimeout(j) ==
  /\ pc[j] = "waiting" /\ j \in There
  /\ pc' = [pc EXCEPT ![j] = "killing"]
  /\ timedOut' = timedOut \cup {j}
  /\ state' = Killed(GroupOf(j))
  /\ killedBy' = [killedBy EXCEPT ![j] = IF state[j] = "live" THEN "service" ELSE @]
  /\ UNCHANGED <<owner, escaped, forked, wrote, loose, exit, answer, sweepVars>>

\* The second wait: the runner is collected, or given up on after 5 s.
AwaitKilled(j) ==
  /\ pc[j] = "killing"
  /\ IF state[j] = "zombie"
     THEN /\ state' = [state EXCEPT ![j] = "gone"]
          /\ exit' = [exit EXCEPT ![j] = ExitCode(j)]
     ELSE UNCHANGED <<state, exit>>
  /\ BeginSweep(j)
  /\ UNCHANGED <<owner, escaped, forked, wrote, killedBy, loose, timedOut, answer,
                 runners, reap, unhealthy>>

-----------------------------------------------------------------------------
(* _sweep_same_uid_processes: each pass reaps, lists /proc, reads the status *)
(* of what it listed, and kills what is there.                               *)

\* _reap_swept, given the pids that are pending: what is our zombie is
\* collected, what is not our child is dropped, what still exits stays.
Reapable(pending) == {p \in pending \ runners : state[p] = "zombie" /\ IsOurChild(p)}
StillPending(pending) == {p \in pending \ runners : p \in There /\ IsOurChild(p)}
ReapPending(pending) ==
  /\ state' = [p \in Procs |-> IF p \in Reapable(pending) THEN "gone" ELSE state[p]]
  /\ reap' = StillPending(pending)

ListProcesses(j) ==
  /\ pc[j] = "list"
  /\ ReapPending(reap)
  /\ sweep' = [sweep EXCEPT ![j].listed = {p \in Procs : state'[p] \notin {"free", "gone"}},
                            ![j].found = {}]
  /\ pc' = [pc EXCEPT ![j] = "read"]
  /\ loose' = loose \ {j}     \* what an earlier pass missed is listed now
  /\ UNCHANGED <<owner, escaped, forked, wrote, killedBy, exit, timedOut, answer,
                 swept, runners, unhealthy>>

\* Zombies are not counted; those parented to the service, runners apart, are
\* queued for reaping.
Zombies(j) ==
  {p \in sweep[j].listed \ runners : state[p] = "zombie" /\ IsOurChild(p)}

\* Mutant: the bound is looked at one pass too late.
ReadStatusesOnePassMore(j) ==
  LET found == sweep[j].listed \cap There
      pending == reap \cup Zombies(j)
      last == sweep[j].pass = MaxPasses + 1
  IN
  /\ pc[j] = "read"
  /\ sweep' = [sweep EXCEPT ![j] = IF found = {} \/ last THEN NoPass
                                  ELSE [@ EXCEPT !.listed = {}, !.found = found]]
  /\ IF found = {} /\ ~last
     THEN ReapPending(pending)
     ELSE reap' = pending /\ UNCHANGED state
  /\ pc' = [pc EXCEPT ![j] = IF found = {} \/ last THEN "join" ELSE "kill"]
  /\ unhealthy' = (unhealthy \/ (last /\ found # {}))
  /\ UNCHANGED <<owner, escaped, forked, wrote, killedBy, loose, exit, timedOut, answer,
                 swept, runners>>

ReadStatuses(j) ==
  LET found == sweep[j].listed \cap There
      pending == reap \cup Zombies(j)
      last == sweep[j].pass = MaxPasses
  IN
  /\ pc[j] = "read"
  /\ sweep' = [sweep EXCEPT ![j] = IF found = {} \/ last THEN NoPass
                                  ELSE [@ EXCEPT !.listed = {}, !.found = found]]
  /\ IF found = {} /\ ~last
     THEN ReapPending(pending)
     ELSE reap' = pending /\ UNCHANGED state
  /\ pc' = [pc EXCEPT ![j] = IF found = {} \/ last THEN "join" ELSE "kill"]
  /\ unhealthy' = (unhealthy \/ (last /\ found # {}))
  /\ UNCHANGED <<owner, escaped, forked, wrote, killedBy, loose, exit, timedOut, answer,
                 swept, runners>>

\* Mutant: one snapshot is taken to be enough.
KillFoundOnce(j) ==
  LET hit == {p \in sweep[j].found : state[p] # "gone"} IN
  /\ pc[j] = "kill"
  /\ state' = Killed(hit)
  /\ killedBy' = [i \in Jobs |-> IF i \in hit /\ state[i] = "live" THEN "sweep" ELSE killedBy[i]]
  /\ swept' = swept \cup (hit \cap Jobs)
  /\ reap' = reap \cup (hit \ runners)
  /\ sweep' = [sweep EXCEPT ![j] = NoPass]
  /\ pc' = [pc EXCEPT ![j] = "join"]
  /\ UNCHANGED <<owner, escaped, forked, wrote, loose, exit, timedOut, answer, runners, unhealthy>>

\* kill(2) succeeds on whatever has not been collected yet.
KillFound(j) ==
  LET hit == {p \in sweep[j].found : state[p] # "gone"} IN
  /\ pc[j] = "kill"
  /\ state' = Killed(hit)
  /\ killedBy' = [i \in Jobs |-> IF i \in hit /\ state[i] = "live" THEN "sweep" ELSE killedBy[i]]
  /\ swept' = swept \cup (hit \cap Jobs)
  /\ reap' = reap \cup (hit \ runners)
  /\ sweep' = [sweep EXCEPT ![j] = [NoPass EXCEPT !.pass = sweep[j].pass + 1]]
  /\ pc' = [pc EXCEPT ![j] = "list"]
  /\ UNCHANGED <<owner, escaped, forked, wrote, loose, exit, timedOut, answer, runners, unhealthy>>

-----------------------------------------------------------------------------
\* The response reader returns what it has only at the end of the pipe, which
\* comes when no process of the job holds it any more; its join is bounded.
PipeClosed(j) == \A p \in There : owner[p] # j

Classify(j) ==
  CASE j \in timedOut -> "timeout"
    [] j \notin timedOut /\ j \in wrote /\ PipeClosed(j) -> "response"
    [] OTHER -> IF exit[j] = "sigkill" /\ j \notin swept THEN "killed" ELSE "crashed"

JoinAndAnswer(j) ==
  /\ pc[j] = "join"
  /\ answer' = [answer EXCEPT ![j] = Classify(j)]
  /\ swept' = IF Classify(j) = "crashed" /\ exit[j] = "sigkill" THEN swept \ {j} ELSE swept
  /\ runners' = runners \ {j}
  /\ pc' = [pc EXCEPT ![j] = "leave"]
  /\ UNCHANGED <<procVars, exit, timedOut, sweep, reap, unhealthy>>

\* _leave_job, and the semaphore is released.
LeaveJob(j) ==
  /\ pc[j] = "leave"
  /\ pc' = [pc EXCEPT ![j] = "done"]
  /\ UNCHANGED <<procVars, exit, timedOut, answer, sweepVars>>

-----------------------------------------------------------------------------
Serve(j) ==
  \/ QueueTimeout(j) \/ EnterJob(j) \/ Spawn(j) \/ SpawnFailed(j) \/ SpawnAbandoned(j)
  \/ RunnerEnded(j) \/ HardTimeout(j) \/ AwaitKilled(j)
  \/ ListProcesses(j) \/ ReadStatuses(j) \/ KillFound(j)
  \/ JoinAndAnswer(j) \/ LeaveJob(j)

Next ==
  \/ \E j \in Jobs :
       Admit(j) \/ Serve(j) \/ WriteResponse(j) \/ RunnerExits(j) \/ OutOfMemory(j)
  \/ \E s \in Strays : StrayExits(s) \/ \E q \in Procs : Fork(q, s)
  \/ \E p \in Procs : Die(p)

Spec == Init /\ [][Next]_vars

-----------------------------------------------------------------------------
ProcStates == {"free", "live", "dying", "zombie", "gone"}
PlacesOfJob == {"new", "queued", "done"} \cup InService
Statuses == {"none", "unhealthy", "queue_timeout", "timeout", "response", "killed", "crashed"}

TypeOK ==
  /\ pc \in [Jobs -> PlacesOfJob]
  /\ state \in [Procs -> ProcStates]
  /\ owner \in [Procs -> Jobs \cup {Nobody}]
  /\ escaped \subseteq Strays /\ forked \subseteq Strays
  /\ wrote \subseteq Jobs /\ timedOut \subseteq Jobs /\ loose \subseteq Jobs
  /\ killedBy \in [Jobs -> {"none", "kernel", "service", "sweep"}]
  /\ exit \in [Jobs -> {"none", "normal", "sigkill"}]
  /\ answer \in [Jobs -> Statuses]
  /\ sweep \in [Jobs -> [pass : 0..MaxPasses, listed : SUBSET Procs, found : SUBSET Procs]]
  /\ swept \subseteq Jobs /\ runners \subseteq Jobs /\ reap \subseteq Procs
  /\ unhealthy \in BOOLEAN

\* The sweep comes before the join so that a process that left the group and
\* holds the pipes cannot turn a job that succeeded into a crashed one: a
\* response the runner wrote in time is the answer, unless the service is
\* latched or let go of a process of that very job (loose).
ResponseNotLost ==
  \A j \in Jobs :
    j \in wrote /\ j \notin timedOut /\ answer[j] \in {"killed", "crashed"} =>
      unhealthy \/ j \in loose

\* `killed` tells the planner that the code used too much memory: it is the
\* answer exactly when a SIGKILL that the service did not send ended the
\* runner before it had answered.
KilledMeansKernel ==
  \A j \in Jobs \ loose :
    answer[j] \in {"response", "killed", "crashed"} /\ ~unhealthy =>
      (answer[j] = "killed" <=> (killedBy[j] = "kernel" /\ j \notin wrote))

\* The comment at _SWEPT_PIDS: a runner that dies of the service's own sweep
\* is "never `killed`".
SweptIsNeverKilled == \A j \in Jobs : answer[j] = "killed" => killedBy[j] # "sweep"

\* No process of another job runs beside a job, and none is left as a zombie
\* that nobody will reap, unless the service has latched itself unhealthy or
\* let go of a process of that other job: in one of two ways, a spawn that
\* failed after Popen and a process that exits between the two looks of a
\* pass, having started another one after the first.
RunsAlone ==
  \A j \in Jobs : state[j] = "live" /\ j \notin loose /\ ~unhealthy =>
    \A p \in Procs : owner[p] \notin {j} \cup loose =>
      \/ state[p] \in {"free", "gone"}
      \/ state[p] = "zombie" /\ p \in reap

\* _sweep_same_uid_processes repeats "until a full pass over /proc finds none"
\* and "Returns True when the uid is clean"; nothing starts before the join.
SweptIsClean == \A j \in Jobs : pc[j] = "join" /\ ~unhealthy => There = {}

\* The same docstring: `"no other process exists during an exec" true'.
NoOtherProcess ==
  \A j \in Jobs : pc[j] = "waiting" /\ ~unhealthy => \A p \in There : owner[p] = j

\* Once latched, "From then on `/execute` answers `503 EXECUTOR_UNHEALTHY` to
\* every job": no further job is started beside the survivors.
LatchStopsJobs ==
  [][unhealthy => \A j \in Jobs : state'[j] = "live" => state[j] = "live"]_vars
=============================================================================
