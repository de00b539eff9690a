-------------------------- MODULE ExecutorContract --------------------------
(***************************************************************************)
(* What `executor_client.execute` promises the four callers that dispatch  *)
(* generated code, with neither the jobs directory nor the sandbox in      *)
(* sight.  A call waits for a slot, is inside it while its job may run,    *)
(* and returns once.  The promise is about what the returned value means:  *)
(* an answer is the answer of a job that ran; a refusal (busy, could not   *)
(* be prepared, rejected) means that the job has not run and never will,   *)
(* so the caller may try again; a timeout, a crash or an unreadable answer *)
(* does not say whether it ran, but nothing of it is started afterwards;   *)
(* only a call that lost its sandbox or its process leaves that open.      *)
(***************************************************************************)
EXTENDS Naturals, FiniteSets

CONSTANTS
  Jobs,     \* the dispatches: each makes one job id of its own
  Slots     \* EXECUTOR_MAX_CONCURRENT of the web service

VARIABLES
  phase,    \* where each call is
  told,     \* what each returned call was told
  executed  \* the jobs whose generated code was started

vars == <<phase, told, executed>>

\* Results that promise the job was never started.
Refusals == {"busy", "prepare_failed", "rejected"}
\* Results that promise it will not be started any more.
Settled == {"timeout", "crashed", "unreadable", "answer"}
\* Results of a call that can no longer know.
Unknown == {"unavailable", "lost"}
Results == Refusals \cup Settled \cup Unknown

Inside == {j \in Jobs : phase[j] = "inside"}

\* The job of a call may be started while the call is inside its slot, and
\* after it only when the call was told that nothing is known.
MayStart(j) ==
  \/ phase[j] = "inside"
  \/ phase[j] = "returned" /\ told[j] \in Unknown

Init ==
  /\ phase = [j \in Jobs |-> "idle"]
  /\ told = [j \in Jobs |-> "none"]
  /\ executed = {}

Call(j) ==
  /\ phase[j] = "idle"
  /\ phase' = [phase EXCEPT ![j] = "waiting"]
  /\ UNCHANGED <<told, executed>>

Enter(j) ==
  /\ phase[j] = "waiting"
  /\ Cardinality(Inside) < Slots
  /\ phase' = [phase EXCEPT ![j] = "inside"]
  /\ UNCHANGED <<told, executed>>

Busy(j) ==
  /\ phase[j] = "waiting"
  /\ phase' = [phase EXCEPT ![j] = "returned"]
  /\ told' = [told EXCEPT ![j] = "busy"]
  /\ UNCHANGED executed

Run(j) ==
  /\ MayStart(j)
  /\ j \notin executed
  /\ executed' = executed \cup {j}
  /\ UNCHANGED <<phase, told>>

Return(j, r) ==
  /\ phase[j] = "inside"
  /\ r = "answer" => j \in executed
  /\ r \in Refusals => j \notin executed
  /\ phase' = [phase EXCEPT ![j] = "returned"]
  /\ told' = [told EXCEPT ![j] = r]
  /\ UNCHANGED executed

\* The web process dies: every call in it is lost at once.
Lose ==
  LET open == {j \in Jobs : phase[j] \in {"waiting", "inside"}} IN
  /\ phase' = [j \in Jobs |-> IF j \in open THEN "returned" ELSE phase[j]]
  /\ told' = [j \in Jobs |-> IF j \in open THEN "lost" ELSE told[j]]
  /\ UNCHANGED executed

Next ==
  \/ \E j \in Jobs :
       \/ Call(j) \/ Enter(j) \/ Busy(j) \/ Run(j)
       \/ \E r \in Results : Return(j, r)
  \/ Lose

Spec == Init /\ [][Next]_vars
=============================================================================
