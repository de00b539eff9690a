-------------------------- MODULE JobRunner_proofs --------------------------
(***************************************************************************)
(* Proofs about the sandbox's job runner.  Types hold for every             *)
(* configuration; what the answers mean, and that a job runs alone, holds   *)
(* for the shipped one, one slot.                                           *)
(***************************************************************************)
EXTENDS JobRunner, FiniteSetTheorems, TLAPS

\* A sweep that goes on has a pass left.
PassInv == \A j \in Jobs : pc[j] = "kill" => sweep[j].pass < MaxPasses

OwnedInv == \A p \in Procs : p \in Jobs \/ state[p] # "free" => owner[p] \in Jobs

TInv == TypeOK /\ PassInv /\ OwnedInv

SweepType == [pass : 0..MaxPasses, listed : SUBSET Procs, found : SUBSET Procs]

LEMMA Sweeps ==
  /\ NoPass \in SweepType
  /\ \A w \in SweepType, L, F \in SUBSET Procs :
       LET on == [w EXCEPT !.listed = L, !.found = F]
       IN  on \in SweepType /\ on.pass = w.pass
  /\ \A n \in 0..MaxPasses : [NoPass EXCEPT !.pass = n] \in SweepType
<1>1. NoPass \in SweepType
  BY PositiveBounds DEF NoPass, SweepType
<1>2. ASSUME NEW w \in SweepType, NEW L \in SUBSET Procs, NEW F \in SUBSET Procs
      PROVE  /\ [w EXCEPT !.listed = L, !.found = F] \in SweepType
             /\ [w EXCEPT !.listed = L, !.found = F].pass = w.pass
  BY DEF SweepType
<1>3. \A n \in 0..MaxPasses : [NoPass EXCEPT !.pass = n] \in SweepType
  BY <1>1 DEF SweepType
<1> QED
  BY <1>1, <1>2, <1>3

\* A process that was started belongs to a job.
LEMMA OwnedStep ==
  ASSUME TypeOK, OwnedInv, [Next]_vars
  PROVE  OwnedInv'
<1> USE ProcessesAreDistinct
<1> USE DEF OwnedInv, TypeOK, Procs, procVars, jobVars, sweepVars
<1>1. ASSUME NEW s \in Strays, NEW q \in Procs, Fork(q, s) PROVE OwnedInv'
  BY <1>1 DEF Fork
<1>2. ASSUME NEW j \in Jobs,
             \/ Spawn(j) \/ SpawnAbandoned(j) \/ RunnerEnded(j) \/ HardTimeout(j) \/ AwaitKilled(j)
             \/ ListProcesses(j) \/ ReadStatuses(j) \/ KillFound(j)
      PROVE OwnedInv'
  <2>1. owner' = owner /\ \A p \in Strays : state'[p] # "free" => state[p] # "free"
    <3>1. CASE Spawn(j) \/ SpawnAbandoned(j)
      BY <3>1 DEF Spawn, SpawnAbandoned, Dropped
    <3>2. CASE RunnerEnded(j)
      BY <3>2 DEF RunnerEnded, Killed
    <3>3. CASE HardTimeout(j)
      BY <3>3 DEF HardTimeout, Killed
    <3>4. CASE AwaitKilled(j)
      BY <3>4 DEF AwaitKilled
    <3>5. CASE ListProcesses(j)
      BY <3>5 DEF ListProcesses, ReapPending, Reapable
    <3>6. CASE ReadStatuses(j)
      BY <3>6 DEF ReadStatuses, ReapPending, Reapable
    <3>7. CASE KillFound(j)
      BY <3>7 DEF KillFound, Killed
    <3> QED
      BY <1>2, <3>1, <3>2, <3>3, <3>4, <3>5, <3>6, <3>7
  <2> QED
    BY <2>1
<1>3. ASSUME NEW p \in Procs,
             WriteResponse(p) \/ RunnerExits(p) \/ OutOfMemory(p) \/ Die(p) \/ StrayExits(p)
      PROVE OwnedInv'
  BY <1>3 DEF WriteResponse, RunnerExits, OutOfMemory, Die, StrayExits
<1>4. CASE UNCHANGED <<owner, state>>
  BY <1>4
<1>5. ASSUME NEW j \in Jobs,
             \/ Admit(j) \/ QueueTimeout(j) \/ EnterJob(j) \/ SpawnFailed(j)
             \/ JoinAndAnswer(j) \/ LeaveJob(j)
      PROVE UNCHANGED <<owner, state>>
  BY <1>5 DEF Admit, QueueTimeout, EnterJob, SpawnFailed, JoinAndAnswer, LeaveJob
<1>6. CASE UNCHANGED vars
  BY <1>6 DEF vars
<1> QED
  BY <1>1, <1>2, <1>3, <1>4, <1>5, <1>6 DEF Next, Serve

LEMMA LooseType ==
  ASSUME TypeOK, OwnedInv, NEW s \in Strays, StrayExits(s)
  PROVE  loose' \subseteq Jobs
  BY DEF OwnedInv, StrayExits, TypeOK, Procs

LEMMA TypeStep == TInv /\ [Next]_vars => TInv'
<1> SUFFICES ASSUME TInv, [Next]_vars PROVE TypeOK' /\ PassInv'
  BY OwnedStep DEF TInv
<1> USE ProcessesAreDistinct, PositiveBounds
<1> USE DEF TInv, TypeOK, PassInv, Procs, PlacesOfJob, InService, ProcStates, Statuses,
            procVars, jobVars, sweepVars
<1>n. NoPass \in SweepType /\ sweep \in [Jobs -> SweepType]
  BY Sweeps DEF SweepType
<1>s. ASSUME sweep' \in [Jobs -> SweepType]
      PROVE  sweep' \in [Jobs -> [pass : 0..MaxPasses, listed : SUBSET Procs, found : SUBSET Procs]]
  BY <1>s DEF SweepType
<1>k. \A S : Killed(S) \in [Procs -> ProcStates]
  BY DEF Killed
<1>1. CASE UNCHANGED vars
  BY <1>1 DEF vars
<1>2. ASSUME NEW j \in Jobs, Admit(j) PROVE TypeOK' /\ PassInv'
  BY <1>2, ZenonT(60) DEF Admit
<1>3. ASSUME NEW j \in Jobs, QueueTimeout(j) \/ EnterJob(j) \/ SpawnFailed(j) \/ LeaveJob(j)
      PROVE TypeOK' /\ PassInv'
  <2>1. CASE QueueTimeout(j)
    BY <2>1 DEF QueueTimeout
  <2>2. CASE EnterJob(j)
    BY <2>2 DEF EnterJob
  <2>3. CASE SpawnFailed(j)
    BY <2>3 DEF SpawnFailed
  <2>4. CASE LeaveJob(j)
    BY <2>4 DEF LeaveJob
  <2> QED
    BY <1>3, <2>1, <2>2, <2>3, <2>4
<1>4. ASSUME NEW j \in Jobs, Spawn(j) PROVE TypeOK' /\ PassInv'
  <2>1. state' \in [Procs -> ProcStates]
    BY <1>4 DEF Spawn
  <2> QED
    BY <1>4, <2>1 DEF Spawn
<1>5. ASSUME NEW j \in Jobs, RunnerEnded(j) PROVE TypeOK' /\ PassInv'
  <2>1. state' \in [Procs -> ProcStates]
    BY <1>5, <1>k DEF RunnerEnded
  <2>2. exit' \in [Jobs -> {"none", "normal", "sigkill"}]
    BY <1>5 DEF RunnerEnded, ExitCode
  <2>3. sweep' \in [Jobs -> SweepType] /\ swept' \subseteq Jobs /\ pc' = [pc EXCEPT ![j] = "list"]
    BY <1>5, <1>n DEF RunnerEnded, BeginSweep
  <2>4. \A i \in Jobs : pc'[i] = "kill" => pc[i] = "kill" /\ sweep'[i] = sweep[i]
    BY <1>5, <2>3 DEF RunnerEnded, BeginSweep
  <2> QED
    BY <1>5, <1>s, <2>1, <2>2, <2>3, <2>4 DEF RunnerEnded
<1>6. ASSUME NEW j \in Jobs, HardTimeout(j) PROVE TypeOK' /\ PassInv'
  <2>1. killedBy' \in [Jobs -> {"none", "kernel", "service", "sweep"}]
    BY <1>6 DEF HardTimeout
  <2> QED
    BY <1>6, <1>k, <2>1 DEF HardTimeout
<1>7. ASSUME NEW j \in Jobs, AwaitKilled(j) PROVE TypeOK' /\ PassInv'
  <2>1. state' \in [Procs -> ProcStates] /\ exit' \in [Jobs -> {"none", "normal", "sigkill"}]
    BY <1>7 DEF AwaitKilled, ExitCode
  <2>2. sweep' \in [Jobs -> SweepType] /\ swept' \subseteq Jobs /\ pc' = [pc EXCEPT ![j] = "list"]
    BY <1>7, <1>n DEF AwaitKilled, BeginSweep
  <2>3. \A i \in Jobs : pc'[i] = "kill" => pc[i] = "kill" /\ sweep'[i] = sweep[i]
    BY <1>7, <2>2 DEF AwaitKilled, BeginSweep
  <2> QED
    BY <1>7, <1>s, <2>1, <2>2, <2>3 DEF AwaitKilled
<1>8. ASSUME NEW j \in Jobs, ListProcesses(j) PROVE TypeOK' /\ PassInv'
  <2>1. state' \in [Procs -> ProcStates] /\ reap' \subseteq Procs
    BY <1>8 DEF ListProcesses, ReapPending, StillPending
  <2>2. PICK L \in SUBSET Procs : sweep' = [sweep EXCEPT ![j].listed = L, ![j].found = {}]
    BY <1>8 DEF ListProcesses
  <2> DEFINE on == [sweep[j] EXCEPT !.listed = L, !.found = {}]
  <2>3. on \in SweepType /\ on.pass = sweep[j].pass
    BY <1>n, Sweeps, ZenonT(60)
  <2>4. sweep' = [sweep EXCEPT ![j] = on]
    BY <2>2
  <2> HIDE DEF on
  <2>5. sweep' \in [Jobs -> SweepType] /\ \A i \in Jobs : sweep'[i].pass = sweep[i].pass
    BY <1>n, <2>3, <2>4
  <2> QED
    BY <1>8, <1>s, <2>1, <2>5, ZenonT(60) DEF ListProcesses
<1>9. ASSUME NEW j \in Jobs, ReadStatuses(j) PROVE TypeOK' /\ PassInv'
  <2> DEFINE found == sweep[j].listed \cap There
             last == sweep[j].pass = MaxPasses
             on == [sweep[j] EXCEPT !.listed = {}, !.found = found]
  <2>1. state' \in [Procs -> ProcStates] /\ reap' \subseteq Procs
    BY <1>9, ZenonT(60) DEF ReadStatuses, ReapPending, StillPending, Zombies
  <2>2. on \in SweepType /\ on.pass = sweep[j].pass
    BY <1>n, Sweeps, ZenonT(60) DEF There
  <2>3. sweep' = [sweep EXCEPT ![j] = IF found = {} \/ last THEN NoPass ELSE on]
    BY <1>9 DEF ReadStatuses
  <2>4. pc' = [pc EXCEPT ![j] = IF found = {} \/ last THEN "join" ELSE "kill"]
    BY <1>9 DEF ReadStatuses
  <2> HIDE DEF on
  <2>5. sweep' \in [Jobs -> SweepType]
    BY <1>n, <2>2, <2>3
  <2>p. sweep[j].pass \in 0..MaxPasses
    BY <1>n DEF SweepType
  <2>6. pc'[j] = "kill" => sweep'[j].pass < MaxPasses
    <3> HIDE DEF found
    <3>1. pc'[j] = "kill" => ~last /\ sweep'[j] = on
      BY <1>n, <2>3, <2>4
    <3>n. \A n \in 0..MaxPasses : n # MaxPasses => n < MaxPasses
      OBVIOUS
    <3>2. ~last => sweep[j].pass < MaxPasses
      BY <2>p, <3>n
    <3>3. ~last => on.pass < MaxPasses
      BY <2>2, <3>2
    <3> QED
      BY <3>1, <3>3
  <2>7. PassInv'
    BY <2>3, <2>4, <2>6
  <2> QED
    BY <1>9, <1>s, <2>1, <2>4, <2>5, <2>7 DEF ReadStatuses
<1>10. ASSUME NEW j \in Jobs, KillFound(j) PROVE TypeOK' /\ PassInv'
  <2>1. state' \in [Procs -> ProcStates] /\ reap' \subseteq Procs /\ swept' \subseteq Jobs
    BY <1>10, <1>k DEF KillFound
  <2>2. killedBy' \in [Jobs -> {"none", "kernel", "service", "sweep"}]
    BY <1>10 DEF KillFound
  <2>3. sweep[j].pass \in 0..MaxPasses /\ sweep[j].pass < MaxPasses
    BY <1>10, <1>n DEF KillFound, SweepType
  <2> DEFINE fresh == [NoPass EXCEPT !.pass = sweep[j].pass + 1]
  <2>n. sweep[j].pass + 1 \in 0..MaxPasses
    BY <2>3
  <2>4. fresh \in SweepType
    BY <2>n, Sweeps
  <2>5. sweep' = [sweep EXCEPT ![j] = fresh]
    BY <1>10 DEF KillFound
  <2> HIDE DEF fresh
  <2>7. sweep' \in [Jobs -> SweepType]
    BY <1>n, <2>4, <2>5
  <2>6. \A i \in Jobs : pc'[i] = "kill" => pc[i] = "kill" /\ sweep'[i] = sweep[i]
    BY <1>10, <2>5 DEF KillFound
  <2> QED
    BY <1>10, <1>s, <2>1, <2>2, <2>6, <2>7 DEF KillFound
<1>11. ASSUME NEW j \in Jobs, JoinAndAnswer(j) PROVE TypeOK' /\ PassInv'
  <2>1. Classify(j) \in Statuses
    BY DEF Classify
  <2> QED
    BY <1>11, <2>1 DEF JoinAndAnswer
<1>12. ASSUME NEW j \in Jobs, WriteResponse(j) \/ RunnerExits(j) \/ OutOfMemory(j) PROVE TypeOK' /\ PassInv'
  <2>1. CASE WriteResponse(j)
    BY <2>1 DEF WriteResponse
  <2>2. CASE RunnerExits(j)
    BY <2>2 DEF RunnerExits
  <2>3. CASE OutOfMemory(j)
    BY <2>3 DEF OutOfMemory
  <2> QED
    BY <1>12, <2>1, <2>2, <2>3
<1>13. ASSUME NEW s \in Strays, StrayExits(s) \/ \E q \in Procs : Fork(q, s) PROVE TypeOK' /\ PassInv'
  <2>1. CASE StrayExits(s)
    BY <2>1, LooseType DEF StrayExits
  <2>2. CASE \E q \in Procs : Fork(q, s)
    BY <2>2, SMTT(30) DEF Fork
  <2> QED
    BY <1>13, <2>1, <2>2
<1>14. ASSUME NEW p \in Procs, Die(p) PROVE TypeOK' /\ PassInv'
  BY <1>14 DEF Die
<1>15. ASSUME NEW j \in Jobs, SpawnAbandoned(j) PROVE TypeOK' /\ PassInv'
  <2>1. state' \in [Procs -> ProcStates]
    BY <1>15 DEF SpawnAbandoned
  <2> QED
    BY <1>15, <2>1 DEF SpawnAbandoned
<1> QED
  BY <1>1, <1>2, <1>3, <1>4, <1>5, <1>6, <1>7, <1>8, <1>9, <1>10, <1>11, <1>12, <1>13, <1>14, <1>15
  DEF Next, Serve

LEMMA TypeInit == Init => TInv
<1> SUFFICES ASSUME Init PROVE TInv
  OBVIOUS
<1>1. sweep \in [Jobs -> SweepType]
  BY Sweeps DEF Init
<1>2. owner \in [Procs -> Jobs \cup {Nobody}]
  BY DEF Init, Procs
<1> QED
  BY <1>1, <1>2
  DEF Init, TInv, TypeOK, PassInv, OwnedInv, Procs, PlacesOfJob, InService, ProcStates, Statuses, SweepType

\* Type correctness in every configuration: a sweep makes no more passes than
\* allowed.
THEOREM TypeCorrect == Spec => []TypeOK
<1>1. TInv => TypeOK
  BY DEF TInv
<1> QED
  BY <1>1, TypeInit, TypeStep, PTL DEF Spec

-----------------------------------------------------------------------------
(* One slot: one job is in service, and what is known of a runner follows   *)
(* from where the service is with its job, unless the service let go of it. *)

\* From the start of the runner to the end of the sweep.
Busy == {"waiting", "killing", "list", "read", "kill"}

OneJob == \A i, j \in InFlight : i = j

LetGo(j) == j \in loose /\ pc[j] \in {"leave", "done"} /\ answer[j] = "crashed"

StartInv ==
  \A j \in Jobs :
    /\ pc[j] \in {"new", "queued", "entered"} => /\ state[j] = "free" /\ killedBy[j] = "none"
                                               /\ j \notin wrote
    /\ state[j] = "live" => pc[j] = "waiting" \/ LetGo(j)
    /\ answer[j] # "none" => pc[j] \in {"leave", "done"}
    /\ pc[j] = "killing" => j \in timedOut
    /\ killedBy[j] \in {"none", "kernel"} \/ j \in timedOut \/ LetGo(j)
    /\ owner[j] = j

\* A job whose runner ended by itself: no sweep ever hits that runner.
ExitInv ==
  \A j \in Jobs :
    pc[j] \in {"list", "read", "kill", "join"} /\ j \notin timedOut =>
      exit[j] = ExitCode(j) /\ state[j] = "gone" /\ j \notin swept

JobInv == OneJob /\ StartInv /\ ExitInv

LEMMA JobInit == Init => JobInv
  BY ProcessesAreDistinct DEF Init, JobInv, OneJob, StartInv, ExitInv, InFlight, InService, Procs

LEMMA FreeSlot ==
  ASSUME Slots = 1, Cardinality(InFlight) < Slots
  PROVE  InFlight = {}
<1>1. InFlight \subseteq Jobs
  BY DEF InFlight
<1>2. IsFiniteSet(InFlight)
  BY <1>1, FiniteJobs, FS_Subset
<1> QED
  BY <1>2, FS_CardinalityType, FS_EmptySet

\* Collecting a zombie is all a pass does to a process before it kills.
LEMMA Collected ==
  ASSUME TypeOK, NEW S, ReapPending(S)
  PROVE  \A p \in Procs : state'[p] = state[p] \/ (state[p] = "zombie" /\ state'[p] = "gone")
  BY DEF ReapPending, Reapable, TypeOK

LEMMA JobStep ==
  ASSUME Slots = 1, TypeOK, JobInv, [Next]_vars
  PROVE  JobInv'
<1> USE ProcessesAreDistinct
<1> USE DEF TypeOK, JobInv, OneJob, StartInv, ExitInv, InFlight, InService, Procs, ProcStates,
            PlacesOfJob, ExitCode, LetGo, procVars, jobVars, sweepVars
<1>1. CASE UNCHANGED vars
  BY <1>1 DEF vars
<1>2. ASSUME NEW j \in Jobs, Admit(j) \/ QueueTimeout(j) PROVE JobInv'
  <2>1. CASE Admit(j)
    BY <2>1 DEF Admit
  <2>2. CASE QueueTimeout(j)
    BY <2>2 DEF QueueTimeout
  <2> QED
    BY <1>2, <2>1, <2>2
<1>3. ASSUME NEW j \in Jobs, EnterJob(j) PROVE JobInv'
  <2>1. InFlight = {}
    BY <1>3, FreeSlot DEF EnterJob
  <2> QED
    BY <1>3, <2>1 DEF EnterJob
<1>4. ASSUME NEW j \in Jobs, SpawnFailed(j) \/ LeaveJob(j) PROVE JobInv'
  <2>1. CASE SpawnFailed(j)
    BY <2>1 DEF SpawnFailed
  <2>2. CASE LeaveJob(j)
    BY <2>2 DEF LeaveJob
  <2> QED
    BY <1>4, <2>1, <2>2
<1>5. ASSUME NEW j \in Jobs, Spawn(j) PROVE JobInv'
  BY <1>5 DEF Spawn, Dropped
<1>6. ASSUME NEW j \in Jobs, RunnerEnded(j) PROVE JobInv'
  BY <1>6 DEF RunnerEnded, BeginSweep, Alone, Killed
<1>7. ASSUME NEW j \in Jobs, HardTimeout(j) PROVE JobInv'
  BY <1>7 DEF HardTimeout, Killed, GroupOf
<1>8. ASSUME NEW j \in Jobs, AwaitKilled(j) PROVE JobInv'
  BY <1>8 DEF AwaitKilled, BeginSweep, Alone
<1>9. ASSUME NEW j \in Jobs, ListProcesses(j) PROVE JobInv'
  <2>1. \A p \in Procs : state'[p] = state[p] \/ (state[p] = "zombie" /\ state'[p] = "gone")
    BY <1>9, Collected DEF ListProcesses
  <2>2. /\ pc[j] = "list" /\ pc' = [pc EXCEPT ![j] = "read"]
        /\ loose' = loose \ {j}
        /\ UNCHANGED <<owner, wrote, killedBy, exit, timedOut, answer, swept>>
    BY <1>9 DEF ListProcesses
  <2> QED
    BY <2>1, <2>2
<1>10. ASSUME NEW j \in Jobs, ReadStatuses(j) PROVE JobInv'
  <2>1. \A p \in Procs : state'[p] = state[p] \/ (state[p] = "zombie" /\ state'[p] = "gone")
    BY <1>10, Collected DEF ReadStatuses
  <2>2. /\ pc[j] = "read" /\ \E at \in {"join", "kill"} : pc' = [pc EXCEPT ![j] = at]
        /\ UNCHANGED <<owner, wrote, killedBy, loose, exit, timedOut, answer, swept>>
    BY <1>10 DEF ReadStatuses
  <2> QED
    BY <2>1, <2>2
<1>11. ASSUME NEW j \in Jobs, KillFound(j) PROVE JobInv'
  BY <1>11 DEF KillFound, Killed
<1>12. ASSUME NEW j \in Jobs, JoinAndAnswer(j) PROVE JobInv'
  BY <1>12 DEF JoinAndAnswer
<1>13. ASSUME NEW j \in Jobs, WriteResponse(j) \/ RunnerExits(j) \/ OutOfMemory(j) PROVE JobInv'
  BY <1>13 DEF WriteResponse, RunnerExits, OutOfMemory
<1>14. ASSUME NEW s \in Strays, StrayExits(s) \/ \E q \in Procs : Fork(q, s) PROVE JobInv'
  BY <1>14 DEF StrayExits, Fork
<1>15. ASSUME NEW p \in Procs, Die(p) PROVE JobInv'
  BY <1>15 DEF Die
<1>16. ASSUME NEW j \in Jobs, SpawnAbandoned(j) PROVE JobInv'
  BY <1>16 DEF SpawnAbandoned, Dropped
<1> QED
  BY <1>1, <1>2, <1>3, <1>4, <1>5, <1>6, <1>7, <1>8, <1>9, <1>10, <1>11, <1>12, <1>13, <1>14,
     <1>15, <1>16 DEF Next, Serve

-----------------------------------------------------------------------------
(* What is left of other jobs.                                              *)

Ended(p) == state[p] \in {"free", "gone"} \/ (state[p] = "zombie" /\ p \in reap)

\* Whatever started since a pass listed /proc was started by a process the
\* pass listed and finds again, or the service is letting go of its job.
SeenInv ==
  \A j \in Jobs : pc[j] = "read" =>
    \A p \in Procs \ sweep[j].listed : owner[p] \notin loose =>
      \/ state[p] \in {"free", "gone"}
      \/ \E q \in sweep[j].listed \cap forked : state[q] = "live" /\ owner[q] = owner[p]

\* Between two jobs nothing is left but what the service let go of, or the
\* latch is set.
QuietInv ==
  ~unhealthy /\ (\A j \in Jobs : pc[j] \notin Busy) =>
    \A p \in Procs : owner[p] \notin loose => p \notin There /\ (p \in Strays => Ended(p))

\* And nothing else but its own processes joins a job whose runner runs.
WaitInv ==
  ~unhealthy => \A j \in Jobs : pc[j] = "waiting" =>
    \A p \in Procs : owner[p] \notin {j} \cup loose => Ended(p)

ProcInv == SeenInv /\ QuietInv /\ WaitInv

LEMMA ProcInit == Init => ProcInv
  BY DEF Init, ProcInv, SeenInv, QuietInv, WaitInv, There, Ended, Procs

LEMMA SeenStep ==
  ASSUME TypeOK, JobInv, SeenInv, [Next]_vars
  PROVE  SeenInv'
<1> USE ProcessesAreDistinct
<1> USE DEF SeenInv, TypeOK, Procs, procVars, jobVars, sweepVars
<1>a. \A j \in Jobs : /\ pc[j] = "read" => \A i \in Jobs : i # j => pc[i] \notin InService
                      /\ state[j] = "live" => pc[j] = "waiting" \/ j \in loose
                      /\ owner[j] = j
  BY DEF JobInv, OneJob, StartInv, LetGo, InFlight, InService
<1> USE DEF InService
<1>1. CASE UNCHANGED vars
  BY <1>1 DEF vars
<1>2. ASSUME NEW j \in Jobs, Admit(j) \/ QueueTimeout(j) \/ EnterJob(j) \/ SpawnFailed(j) \/ LeaveJob(j)
             \/ JoinAndAnswer(j)
      PROVE SeenInv'
  <2>1. /\ UNCHANGED <<state, owner, forked, sweep, loose>>
        /\ \A i \in Jobs : pc'[i] = "read" => pc[i] = "read"
    BY <1>2 DEF Admit, QueueTimeout, EnterJob, SpawnFailed, LeaveJob, JoinAndAnswer
  <2> QED
    BY <2>1
<1>3. ASSUME NEW j \in Jobs,
             \/ Spawn(j) \/ SpawnAbandoned(j) \/ RunnerEnded(j) \/ HardTimeout(j)
             \/ AwaitKilled(j) \/ ReadStatuses(j) \/ KillFound(j)
      PROVE SeenInv'
  <2>1. /\ pc[j] \in InService
        /\ \E at \in InService \ {"read"} : pc' = [pc EXCEPT ![j] = at]
    BY <1>3 DEF Spawn, SpawnAbandoned, RunnerEnded, BeginSweep, HardTimeout, AwaitKilled,
                ReadStatuses, KillFound
  <2> QED
    BY <1>a, <2>1
<1>4. ASSUME NEW j \in Jobs, ListProcesses(j) PROVE SeenInv'
  <2> DEFINE L == {p \in Procs : state'[p] \notin {"free", "gone"}}
  <2>1. /\ pc[j] = "list" /\ pc' = [pc EXCEPT ![j] = "read"]
        /\ sweep' = [sweep EXCEPT ![j].listed = L, ![j].found = {}]
    BY <1>4 DEF ListProcesses
  <2> HIDE DEF L
  <2>2. sweep'[j].listed = L
    BY <2>1
  <2>3. \A i \in Jobs : pc'[i] = "read" => i = j
    BY <1>a, <2>1
  <2> QED
    BY <2>2, <2>3 DEF L
<1>5. ASSUME NEW j \in Jobs, WriteResponse(j) \/ RunnerExits(j) \/ OutOfMemory(j) PROVE SeenInv'
  <2>1. UNCHANGED <<pc, sweep, owner, forked, loose>>
    BY <1>5 DEF WriteResponse, RunnerExits, OutOfMemory
  <2>2. \A p \in Procs : p # j => state'[p] = state[p]
    BY <1>5 DEF WriteResponse, RunnerExits, OutOfMemory
  <2>3. state[j] = "live"
    BY <1>5 DEF WriteResponse, RunnerExits, OutOfMemory
  <2>4. \A i \in Jobs : pc[i] = "read" => j \in loose
    BY <1>a, <2>3
  <2> SUFFICES ASSUME NEW i \in Jobs, pc'[i] = "read", NEW p \in Procs \ sweep[i].listed,
                      owner[p] \notin loose, state'[p] \notin {"free", "gone"}
      PROVE  \E q \in sweep[i].listed \cap forked : state'[q] = "live" /\ owner[q] = owner[p]
    BY <2>1
  <2>5. p # j
    BY <1>a, <2>1, <2>4
  <2>6. PICK q \in sweep[i].listed \cap forked : state[q] = "live" /\ owner[q] = owner[p]
    BY <2>1, <2>2, <2>5
  <2>7. q \in Strays /\ q # j
    OBVIOUS
  <2> QED
    BY <2>2, <2>6, <2>7
<1>6. ASSUME NEW s \in Strays, StrayExits(s) PROVE SeenInv'
  <2>1. /\ state[s] = "live" /\ state' = [state EXCEPT ![s] = "zombie"]
        /\ UNCHANGED <<pc, sweep, owner, forked>> /\ loose \subseteq loose'
        /\ HopsAPass(s) => owner[s] \in loose'
    BY <1>6 DEF StrayExits
  <2> SUFFICES ASSUME NEW j \in Jobs, pc[j] = "read", NEW p \in Procs \ sweep[j].listed,
                      owner[p] \notin loose', state'[p] \notin {"free", "gone"}
      PROVE  \E q \in sweep[j].listed \cap forked : state'[q] = "live" /\ owner[q] = owner[p]
    BY <2>1
  <2>2. state[p] \notin {"free", "gone"}
    BY <2>1
  <2>3. PICK q \in sweep[j].listed \cap forked : state[q] = "live" /\ owner[q] = owner[p]
    BY <2>1, <2>2
  <2>4. q # s
    BY <2>1, <2>2, <2>3 DEF HopsAPass
  <2> QED
    BY <2>1, <2>3, <2>4
<1>7. ASSUME NEW s \in Strays, NEW q \in Procs, Fork(q, s) PROVE SeenInv'
  <2>1. /\ state[q] = "live" /\ state[s] = "free" /\ state' = [state EXCEPT ![s] = "live"]
        /\ owner' = [owner EXCEPT ![s] = owner[q]]
        /\ forked' = forked \cup ({q} \cap Strays) /\ UNCHANGED <<pc, sweep, loose>>
    BY <1>7 DEF Fork
  <2> SUFFICES ASSUME NEW j \in Jobs, pc[j] = "read", NEW p \in Procs \ sweep[j].listed,
                      owner'[p] \notin loose, state'[p] \notin {"free", "gone"}
      PROVE  \E r \in sweep[j].listed \cap forked' : state'[r] = "live" /\ owner'[r] = owner'[p]
    BY <2>1
  <2>a. \A r \in Procs : state[r] = "live" => r # s /\ state'[r] = "live" /\ owner'[r] = owner[r]
    BY <2>1
  <2>2. CASE p # s
    <3>1. owner[p] = owner'[p] /\ state[p] = state'[p]
      BY <2>1, <2>2
    <3>2. PICK r \in sweep[j].listed \cap forked : state[r] = "live" /\ owner[r] = owner[p]
      BY <3>1
    <3> QED
      BY <2>1, <2>a, <3>1, <3>2
  <2>3. CASE p = s
    <3>1. owner'[p] = owner[q] /\ owner[q] \notin loose
      BY <2>1, <2>3
    <3>2. q \in Strays
      BY <1>a, <2>1, <3>1
    <3>3. CASE q \in sweep[j].listed
      BY <2>1, <2>a, <3>1, <3>2, <3>3
    <3>4. CASE q \notin sweep[j].listed
      <4>1. PICK r \in sweep[j].listed \cap forked : state[r] = "live" /\ owner[r] = owner[q]
        BY <2>1, <3>1, <3>4
      <4> QED
        BY <2>1, <2>a, <3>1, <4>1
    <3> QED
      BY <3>3, <3>4
  <2> QED
    BY <2>2, <2>3
<1>8. ASSUME NEW p \in Procs, Die(p) PROVE SeenInv'
  BY <1>8 DEF Die
<1> QED
  BY <1>1, <1>2, <1>3, <1>4, <1>5, <1>6, <1>7, <1>8 DEF Next, Serve

LEMMA ProcStep ==
  ASSUME Slots = 1, TypeOK, JobInv, ProcInv, [Next]_vars
  PROVE  QuietInv' /\ WaitInv'
<1> USE ProcessesAreDistinct
<1> USE DEF ProcInv, QuietInv, WaitInv, There, Ended, Busy, TypeOK, Procs,
            procVars, jobVars, sweepVars
<1>a. \A i, j \in Jobs : i # j /\ pc[j] \in InService => pc[i] \notin InService
  BY DEF JobInv, OneJob, InFlight
<1>b. \A j \in Jobs : /\ state[j] = "live" => pc[j] = "waiting" \/ j \in loose
                      /\ pc[j] \in {"new", "queued", "entered"} => state[j] = "free"
                      /\ owner[j] = j
  BY DEF JobInv, StartInv, LetGo
<1> USE DEF InService
<1>1. CASE UNCHANGED vars
  BY <1>1 DEF vars
<1>2. ASSUME NEW j \in Jobs,
             \/ Admit(j) \/ QueueTimeout(j) \/ EnterJob(j) \/ SpawnFailed(j) \/ LeaveJob(j)
             \/ JoinAndAnswer(j)
      PROVE QuietInv' /\ WaitInv'
  <2>1. /\ UNCHANGED <<state, owner, reap, loose, unhealthy>>
        /\ pc[j] \notin Busy
        /\ \E at \in PlacesOfJob \ Busy : pc' = [pc EXCEPT ![j] = at]
    BY <1>2 DEF Admit, QueueTimeout, EnterJob, SpawnFailed, LeaveJob, JoinAndAnswer, PlacesOfJob
  <2>2. \A i \in Jobs : pc'[i] \in Busy <=> pc[i] \in Busy
    BY <2>1
  <2>3. \A i \in Jobs : pc'[i] = "waiting" <=> pc[i] = "waiting"
    BY <2>1
  <2> HIDE DEF Busy
  <2> QED
    BY <2>1, <2>2, <2>3
<1>s. ASSUME NEW j \in Jobs, pc[j] = "entered",
             state' = [p \in Procs |-> CASE p = j -> "live" [] p \in Dropped -> "gone" [] OTHER -> state[p]],
             UNCHANGED <<owner, reap, unhealthy>>, ~unhealthy,
             NEW p \in Procs, owner[p] \notin {j} \cup loose
      PROVE  Ended(p)' /\ p \notin There'
  <2>1. \A i \in Jobs : pc[i] \notin Busy
    BY <1>a, <1>s
  <2>2. p # j /\ p \notin There /\ (p \in Strays => Ended(p))
    BY <1>b, <1>s, <2>1
  <2>3. CASE p \in Strays
    BY <1>s, <2>2, <2>3 DEF Dropped
  <2>4. CASE p \in Jobs
    <3>1. state[p] = "zombie" => p \in Dropped
      BY <1>a, <1>b, <1>s, <2>1, <2>2, <2>4 DEF Dropped, PlacesOfJob
    <3>2. state[p] \in {"free", "gone", "zombie"}
      BY <2>2 DEF ProcStates
    <3> QED
      BY <1>s, <2>2, <3>1, <3>2
  <2> QED
    BY <2>3, <2>4
<1>3. ASSUME NEW j \in Jobs, Spawn(j) PROVE QuietInv' /\ WaitInv'
  <2>1. /\ pc[j] = "entered" /\ pc' = [pc EXCEPT ![j] = "waiting"]
        /\ state' = [p \in Procs |-> CASE p = j -> "live" [] p \in Dropped -> "gone" [] OTHER -> state[p]]
        /\ UNCHANGED <<owner, reap, loose, unhealthy>>
    BY <1>3 DEF Spawn
  <2>2. pc'[j] = "waiting" /\ \A i \in Jobs : i # j => pc'[i] \notin Busy
    BY <1>a, <2>1
  <2>3. ~unhealthy => \A p \in Procs : owner[p] \notin {j} \cup loose => Ended(p)'
    BY <1>s, <2>1
  <2> HIDE DEF Ended
  <2> QED
    BY <2>1, <2>2, <2>3
<1>10. ASSUME NEW j \in Jobs, SpawnAbandoned(j) PROVE QuietInv' /\ WaitInv'
  <2>1. /\ pc[j] = "entered" /\ pc' = [pc EXCEPT ![j] = "leave"]
        /\ state' = [p \in Procs |-> CASE p = j -> "live" [] p \in Dropped -> "gone" [] OTHER -> state[p]]
        /\ loose' = loose \cup {j} /\ UNCHANGED <<owner, reap, unhealthy>>
    BY <1>10 DEF SpawnAbandoned
  <2>2. \A i \in Jobs : pc'[i] \notin Busy
    BY <1>a, <2>1
  <2>3. ~unhealthy => \A p \in Procs : owner[p] \notin {j} \cup loose => Ended(p)' /\ p \notin There'
    BY <1>s, <2>1
  <2>4. WaitInv'
    BY <2>2
  <2>5. QuietInv'
    <3> HIDE DEF Ended, There
    <3> QED
      BY <2>1, <2>3
  <2> QED
    BY <2>4, <2>5
<1>4. ASSUME NEW j \in Jobs,
             RunnerEnded(j) \/ HardTimeout(j) \/ AwaitKilled(j) \/ ListProcesses(j) \/ KillFound(j)
      PROVE QuietInv' /\ WaitInv'
  <2>1. pc[j] \in InService /\ \E at \in Busy \ {"waiting"} : pc' = [pc EXCEPT ![j] = at]
    BY <1>4 DEF RunnerEnded, BeginSweep, HardTimeout, AwaitKilled, ListProcesses, KillFound
  <2>2. pc'[j] \in Busy \ {"waiting"} /\ \A i \in Jobs : i # j => pc'[i] # "waiting"
    BY <1>a, <2>1
  <2> QED
    BY <2>2
<1>5. ASSUME NEW j \in Jobs, ReadStatuses(j) PROVE QuietInv' /\ WaitInv'
  <2>1. pc[j] = "read" /\ \E at \in {"join", "kill"} : pc' = [pc EXCEPT ![j] = at]
    BY <1>5 DEF ReadStatuses
  <2>2. WaitInv'
    BY <1>a, <2>1
  <2>l. UNCHANGED <<owner, loose>>
    BY <1>5 DEF ReadStatuses
  <2> SUFFICES ASSUME ~unhealthy', \A i \in Jobs : pc'[i] \notin Busy,
                      NEW p \in Procs, owner[p] \notin loose
               PROVE  p \notin There' /\ (p \in Strays => Ended(p)')
    BY <2>2, <2>l
  <2> DEFINE pending == reap \cup Zombies(j)
  <2>3. sweep[j].listed \cap There = {}
    <3> DEFINE found == sweep[j].listed \cap There
               last == sweep[j].pass = MaxPasses
    <3>1. /\ pc' = [pc EXCEPT ![j] = IF found = {} \/ last THEN "join" ELSE "kill"]
          /\ unhealthy' = (unhealthy \/ (last /\ found # {}))
      BY <1>5 DEF ReadStatuses
    <3> HIDE DEF found, last
    <3>2. found = {} \/ last
      BY <3>1
    <3>3. found = {}
      BY <3>1, <3>2
    <3> QED
      BY <3>3 DEF found
  <2>4. \A r \in Procs : owner[r] \notin loose =>
          state[r] \in {"free", "gone"} \/ (state[r] = "zombie" /\ r \in sweep[j].listed)
    BY <2>1, <2>3 DEF SeenInv, ProcStates
  <2>5. \A r \in There : owner[r] \in loose
    BY <2>4
  <2>6. p \in Strays /\ state[p] = "zombie" => p \in Zombies(j) /\ p \in Reapable(pending)
    BY <2>4, <2>5 DEF Zombies, Reapable, IsOurChild
  <2>7. (reap' = pending /\ state' = state) \/ ReapPending(pending)
    BY <1>5, <2>3 DEF ReadStatuses
  <2>8. CASE reap' = pending /\ state' = state
    BY <2>4, <2>5, <2>6, <2>8
  <2>9. CASE ReapPending(pending)
    <3>1. p \notin There'
      BY <2>5, <2>9 DEF ReapPending
    <3>2. p \in Strays => state'[p] \in {"free", "gone"}
      BY <2>4, <2>6, <2>9 DEF ReapPending
    <3> QED
      BY <3>1, <3>2
  <2> QED
    BY <2>7, <2>8, <2>9
<1>6. ASSUME NEW j \in Jobs, WriteResponse(j) \/ RunnerExits(j) \/ OutOfMemory(j)
      PROVE QuietInv' /\ WaitInv'
  BY <1>6, <1>b DEF WriteResponse, RunnerExits, OutOfMemory
<1>7. ASSUME NEW s \in Strays, StrayExits(s) PROVE QuietInv' /\ WaitInv'
  BY <1>7 DEF StrayExits
<1>8. ASSUME NEW s \in Strays, NEW q \in Procs, Fork(q, s) PROVE QuietInv' /\ WaitInv'
  BY <1>8 DEF Fork
<1>9. ASSUME NEW p \in Procs, Die(p) PROVE QuietInv' /\ WaitInv'
  BY <1>9 DEF Die
<1> QED
  BY <1>1, <1>2, <1>3, <1>4, <1>5, <1>6, <1>7, <1>8, <1>9, <1>10 DEF Next, Serve

-----------------------------------------------------------------------------
(* What the answers say.                                                    *)

\* At the join nothing is left that could hold the pipe, or the latch is set,
\* or the service let go of a process of the job.
LEMMA PipeIsClosed ==
  ASSUME TypeOK, JobInv, ProcInv, NEW j \in Jobs \ loose, pc[j] = "join", ~unhealthy
  PROVE  PipeClosed(j)
  BY DEF JobInv, OneJob, InFlight, InService, ProcInv, QuietInv, Busy, PipeClosed, There

\* The two promises about answers are inductive beside the invariants.
AnswerInv == ResponseNotLost /\ KilledMeansKernel

LEMMA AnswerStep ==
  ASSUME Slots = 1, TypeOK, JobInv, ProcInv, AnswerInv, [Next]_vars
  PROVE  AnswerInv'
<1> USE DEF AnswerInv, ResponseNotLost, KilledMeansKernel, TypeOK, procVars, jobVars, sweepVars
<1>a. \A j \in Jobs :
        /\ pc[j] \in {"new", "queued", "entered"} => killedBy[j] = "none" /\ j \notin wrote
        /\ state[j] = "live" => pc[j] = "waiting" \/ j \in loose
        /\ answer[j] # "none" => pc[j] \in {"leave", "done"}
        /\ killedBy[j] \in {"none", "kernel"} \/ j \in timedOut \/ j \in loose
        /\ pc[j] = "join" /\ j \notin timedOut => exit[j] = ExitCode(j) /\ j \notin swept
  BY DEF JobInv, StartInv, ExitInv, LetGo
<1>1. CASE UNCHANGED vars
  BY <1>1 DEF vars
<1>2. ASSUME NEW j \in Jobs, Admit(j) \/ QueueTimeout(j) \/ SpawnFailed(j) PROVE AnswerInv'
  <2>1. /\ pc[j] \in {"new", "queued", "entered"}
        /\ UNCHANGED <<wrote, killedBy, timedOut, loose, unhealthy>>
        /\ \E a \in {"unhealthy", "queue_timeout", "crashed"} :
             answer' = answer \/ answer' = [answer EXCEPT ![j] = a]
    BY <1>2 DEF Admit, QueueTimeout, SpawnFailed
  <2> QED
    BY <1>a, <2>1
<1>3. ASSUME NEW j \in Jobs,
             \/ EnterJob(j) \/ Spawn(j) \/ LeaveJob(j) \/ RunnerEnded(j) \/ AwaitKilled(j)
             \/ ListProcesses(j)
      PROVE AnswerInv'
  <2>1. /\ UNCHANGED <<wrote, killedBy, timedOut, answer, unhealthy>>
        /\ loose' = loose \/ (loose' = loose \ {j} /\ answer[j] = "none")
    BY <1>3, <1>a DEF EnterJob, Spawn, LeaveJob, RunnerEnded, AwaitKilled, ListProcesses
  <2> QED
    BY <2>1
<1>4. ASSUME NEW j \in Jobs, HardTimeout(j) PROVE AnswerInv'
  BY <1>4, <1>a DEF HardTimeout
<1>5. ASSUME NEW j \in Jobs, ReadStatuses(j) PROVE AnswerInv'
  <2>1. UNCHANGED <<wrote, killedBy, timedOut, answer, loose>> /\ (unhealthy => unhealthy')
    BY <1>5 DEF ReadStatuses
  <2> QED
    BY <2>1
<1>6. ASSUME NEW j \in Jobs, KillFound(j) PROVE AnswerInv'
  <2>1. \A i \in Jobs \ loose : answer[i] # "none" => killedBy'[i] = killedBy[i]
    BY <1>6, <1>a DEF KillFound
  <2> QED
    BY <1>6, <2>1 DEF KillFound
<1>7. ASSUME NEW j \in Jobs, JoinAndAnswer(j) PROVE AnswerInv'
  <2>1. /\ pc[j] = "join" /\ answer' = [answer EXCEPT ![j] = Classify(j)]
        /\ UNCHANGED <<wrote, killedBy, timedOut, loose, unhealthy>>
    BY <1>7 DEF JoinAndAnswer
  <2>2. ASSUME ~unhealthy, j \notin timedOut, j \notin loose
        PROVE  /\ j \in wrote => Classify(j) = "response"
               /\ j \notin wrote => Classify(j) = IF killedBy[j] = "kernel" THEN "killed" ELSE "crashed"
    BY <1>a, <2>1, <2>2, PipeIsClosed DEF Classify, ExitCode
  <2>3. j \in timedOut => Classify(j) = "timeout"
    BY DEF Classify
  <2> HIDE DEF Classify
  <2> QED
    BY <2>1, <2>2, <2>3
<1>8. ASSUME NEW j \in Jobs, WriteResponse(j) \/ RunnerExits(j) \/ OutOfMemory(j) PROVE AnswerInv'
  BY <1>8, <1>a DEF WriteResponse, RunnerExits, OutOfMemory
<1>9. ASSUME NEW s \in Strays, StrayExits(s) \/ \E q \in Procs : Fork(q, s) PROVE AnswerInv'
  <2>1. UNCHANGED <<wrote, killedBy, timedOut, answer, unhealthy>> /\ loose \subseteq loose'
    BY <1>9 DEF StrayExits, Fork
  <2> QED
    BY <2>1
<1>11. ASSUME NEW j \in Jobs, SpawnAbandoned(j) PROVE AnswerInv'
  <2>1. /\ UNCHANGED <<wrote, killedBy, timedOut, unhealthy>> /\ loose' = loose \cup {j}
        /\ answer' = [answer EXCEPT ![j] = "crashed"]
    BY <1>11 DEF SpawnAbandoned
  <2> QED
    BY <2>1
<1>10. ASSUME NEW p \in Procs, Die(p) PROVE AnswerInv'
  BY <1>10 DEF Die
<1> QED
  BY <1>1, <1>2, <1>3, <1>4, <1>5, <1>6, <1>7, <1>8, <1>9, <1>10, <1>11 DEF Next, Serve

IInv == TInv /\ JobInv /\ ProcInv /\ AnswerInv

LEMMA Invariance ==
  ASSUME Slots = 1
  PROVE  Spec => []IInv
<1>1. Init => IInv
  BY TypeInit, JobInit, ProcInit
  DEF Init, IInv, AnswerInv, ResponseNotLost, KilledMeansKernel
<1>2. IInv /\ [Next]_vars => IInv'
  BY TypeStep, JobStep, SeenStep, ProcStep, AnswerStep DEF IInv, TInv, ProcInv
<1> QED
  BY <1>1, <1>2, PTL DEF Spec

\* With one slot, a response the runner wrote before its time was up is the
\* job's answer, whatever processes the code left behind, or the service is
\* latched unhealthy or let go of a process of that job.
THEOREM ResponsesReachTheCaller ==
  ASSUME Slots = 1
  PROVE  Spec => []ResponseNotLost
<1>1. IInv => ResponseNotLost
  BY DEF IInv, AnswerInv
<1> QED
  BY <1>1, Invariance, PTL

\* With one slot, `killed` is the answer exactly when a SIGKILL of the
\* kernel's ended a runner that had not answered, of every job of which the
\* service let nothing go.
THEOREM KilledIsMemory ==
  ASSUME Slots = 1
  PROVE  Spec => []KilledMeansKernel
<1>1. IInv => KilledMeansKernel
  BY DEF IInv, AnswerInv
<1> QED
  BY <1>1, Invariance, PTL

\* With one slot, no process of another job, not even a zombie nobody will
\* reap, is there beside a runner, unless the service is latched or let go of
\* a process of that other job.
THEOREM JobsRunAlone ==
  ASSUME Slots = 1
  PROVE  Spec => []RunsAlone
<1>1. IInv => RunsAlone
  BY DEF IInv, JobInv, StartInv, LetGo, ProcInv, WaitInv, Ended, RunsAlone
<1> QED
  BY <1>1, Invariance, PTL

-----------------------------------------------------------------------------
\* A job answered `killed` did not time out.
KilledInv == \A j \in Jobs : answer[j] = "killed" => j \notin timedOut

LEMMA KilledStep ==
  ASSUME TypeOK, JobInv, KilledInv, [Next]_vars
  PROVE  KilledInv'
<1> USE DEF KilledInv, TypeOK, procVars, jobVars, sweepVars
<1>1. CASE UNCHANGED vars
  BY <1>1 DEF vars
<1>2. ASSUME NEW j \in Jobs, Admit(j) \/ QueueTimeout(j) \/ SpawnFailed(j) \/ SpawnAbandoned(j) PROVE KilledInv'
  BY <1>2 DEF Admit, QueueTimeout, SpawnFailed, SpawnAbandoned
<1>3. ASSUME NEW j \in Jobs, HardTimeout(j) PROVE KilledInv'
  BY <1>3 DEF HardTimeout, JobInv, StartInv
<1>4. ASSUME NEW j \in Jobs, JoinAndAnswer(j) PROVE KilledInv'
  <2>1. Classify(j) = "killed" => j \notin timedOut
    BY DEF Classify
  <2> QED
    BY <1>4, <2>1 DEF JoinAndAnswer
<1>5. CASE UNCHANGED <<answer, timedOut>>
  BY <1>5
<1>6. \/ UNCHANGED <<answer, timedOut>> \/ UNCHANGED vars
      \/ \E j \in Jobs : \/ Admit(j) \/ QueueTimeout(j) \/ SpawnFailed(j) \/ SpawnAbandoned(j)
                         \/ HardTimeout(j) \/ JoinAndAnswer(j)
  BY DEF Next, Serve, EnterJob, Spawn, RunnerEnded, AwaitKilled, ListProcesses, ReadStatuses,
         KillFound, LeaveJob, WriteResponse, RunnerExits, OutOfMemory, StrayExits, Fork, Die
<1> QED
  BY <1>1, <1>2, <1>3, <1>4, <1>5, <1>6

\* With one slot the comment at _SWEPT_PIDS holds, latched or not: a runner
\* the service's own sweep killed is never answered `killed`.
THEOREM OneSlotSweepsNoRunner ==
  ASSUME Slots = 1
  PROVE  Spec => []SweptIsNeverKilled
<1> DEFINE Inv == TInv /\ JobInv /\ KilledInv
<1>1. Init => Inv
  BY TypeInit, JobInit DEF Init, KilledInv
<1>2. Inv /\ [Next]_vars => Inv'
  BY TypeStep, JobStep, KilledStep DEF TInv
<1>3. Inv => SweptIsNeverKilled
  BY DEF JobInv, StartInv, LetGo, KilledInv, SweptIsNeverKilled
<1> QED
  BY <1>1, <1>2, <1>3, PTL DEF Spec

=============================================================================
