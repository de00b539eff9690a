-------------------------- MODULE RefreshScheduler --------------------------
(***************************************************************************)
(* The thread that refreshes tables on schedule (db_scheduler._loop and     *)
(* run_all_due) with the stamps and the lock file it keeps on disk.         *)
(*                                                                         *)
(* Time is a clock face: schedule s fires whenever `phase' is FireAt[s].    *)
(* Of a stamp (a last-fired time) only this is ever asked: has a moment of  *)
(* its schedule passed since?  So a stamp is "none", "paid" or "owed", and  *)
(* the clock turns "paid" into "owed", in the registry and in the copy the  *)
(* loop holds while it waits.                                               *)
(***************************************************************************)
EXTENDS Integers, FiniteSets

CONSTANTS
  Tables,
  Global,      \* the global schedule
  FireAt,      \* schedule -> the phase at which it fires
  Period,      \* length of the clock face
  StaleAge,    \* DB_REFRESH_LOCK_STALE_S, in ticks
  MaxChanges,  \* bound on schedule edits by administrators
  MaxCrashes,  \* bound on the restarts of the web service
  MaxFaults    \* bound on the file operations that fail

Schedules == Tables \cup {Global}

ASSUME GlobalIsNoTable == Global \notin Tables
ASSUME ClockFace == Period \in Nat \ {0} /\ FireAt \in [Schedules -> 0..(Period - 1)]
ASSUME SchedulerBounds == {StaleAge, MaxChanges, MaxCrashes, MaxFaults} \subseteq Nat

VARIABLES
  phase,
  own,       \* tables with a schedule of their own, the others inherit
  enabled,   \* the global schedule is on
  stamp,     \* last_fired_at and schedule_last_fired_at
  lock,      \* the lock file: 0 absent, else its age + 1, capped
  pc,        \* where the loop is
  held,      \* what the loop read before it waited
  todo,      \* tables the run under way has left
  late,      \* schedules found due in this round, still to be run
  stopping,  \* _STOP is set
  keyed,     \* encryption_ready(): the process has the key to the connections
  credit,    \* schedules of which a moment passed since their last run (history)
  unwritten, \* schedules whose stamp could not be written when they last fired (history)
  changes, crashes, faults

history == <<credit, unwritten>>
schedulerVars == <<phase, own, enabled, stamp, lock, pc, held, todo, late, stopping, keyed,
          history, changes, crashes, faults>>

NothingHeld == [on |-> FALSE, own |-> {}, stamp |-> [s \in Schedules |-> "none"]]

-----------------------------------------------------------------------------
(* The clock.                                                               *)

Owes(stamps, at) == [s \in Schedules |->
  IF stamps[s] = "paid" /\ FireAt[s] = at THEN "owed" ELSE stamps[s]]

Tick ==
  LET now == (phase + 1) % Period IN   \* due_now: strictly after the stamp
  /\ phase' = now
  /\ stamp' = Owes(stamp, now)
  /\ held' = [held EXCEPT !.stamp = Owes(held.stamp, now)]
  /\ credit' = credit \cup {s \in Schedules : FireAt[s] = now}
  /\ lock' = IF lock \in 1..StaleAge THEN lock + 1 ELSE lock
  /\ UNCHANGED <<own, enabled, pc, todo, late, stopping, keyed, unwritten, changes, crashes, faults>>

-----------------------------------------------------------------------------
(* The loop.                                                                *)

\* mark_fired and mark_table_fired swallow the failure of their write, and so
\* does the removal of the lock file.
MayFail(failed) == IF failed = {} THEN faults' = faults
                                  ELSE faults < MaxFaults /\ faults' = faults + 1

\* The stamps of some schedules are written, all but those that fail.
Written(schedules, failed, stamps) ==
  [s \in Schedules |-> IF s \in schedules \ failed THEN stamps[s] ELSE stamp[s]]

Paid == [s \in Schedules |-> "paid"]

\* Mutant: the stamps are set to now at the start of every round.
ReadAnew ==
  /\ pc = "read" /\ ~stopping
  /\ stamp' = Written(own \cup {Global}, {}, Paid)
  /\ held' = [on |-> enabled, own |-> own, stamp |-> Written(own \cup {Global}, {}, Paid)]
  /\ pc' = "wait"
  /\ UNCHANGED <<phase, own, enabled, lock, todo, late, history, changes, crashes, faults>>

\* One round begins: settings and tables are read, and stamps that were never
\* set are set to now, in the registry and in what the loop holds.
Read ==
  /\ pc = "read" /\ ~stopping
  /\ LET first == {s \in own \cup {Global} : stamp[s] = "none"} IN
     /\ \E failed \in SUBSET first : MayFail(failed) /\ stamp' = Written(first, failed, Paid)
     /\ held' = [on |-> enabled, own |-> own, stamp |-> Written(first, {}, Paid)]
     /\ unwritten' = unwritten \ first
  /\ pc' = "wait"
  /\ UNCHANGED <<phase, own, enabled, lock, todo, late, credit, changes, crashes>>

Overdue(schedules) == {s \in schedules : held.stamp[s] = "owed"}

\* The wait is over: what was read before it decides what is due now.  For the
\* tables found due `held' keeps what their stamp will be, this very moment.
Wakes ==
  /\ pc = "wait" /\ ~stopping
  /\ LET due == Overdue(held.own) IN
     /\ late' = due
     /\ held' = [held EXCEPT !.stamp = [s \in Schedules |-> IF s \in due THEN "paid" ELSE @[s]]]
  /\ UNCHANGED <<phase, own, enabled, lock, todo, changes, crashes>>

GlobalIsDue == held.on /\ Overdue({Global}) # {}

WakesToTables ==
  /\ ~GlobalIsDue
  /\ pc' = IF late' # {} THEN "tables" ELSE "read"
  /\ UNCHANGED <<stamp, history, faults>>

\* Mutant: the global run goes without its stamp.
WakeUnstamped ==
  /\ Wakes
  /\ \/ WakesToTables
     \/ /\ GlobalIsDue
        /\ pc' = "global" /\ credit' = credit \ {Global}
        /\ UNCHANGED <<stamp, unwritten, faults>>

\* The global stamp is written before the global run, which goes on when the
\* write has failed.
Wake ==
  /\ Wakes
  /\ \/ WakesToTables
     \/ /\ GlobalIsDue
        /\ \E failed \in SUBSET {Global} :
             /\ MayFail(failed)
             /\ stamp' = Written({Global}, failed, Paid)
             /\ unwritten' = (unwritten \ {Global}) \cup failed
        /\ pc' = "global" /\ credit' = credit \ {Global}

\* mark_table_fired for every table found due, with the time of the wake; a
\* moment that passed during the global run still is owed.  Their run goes on
\* whichever writes have failed.
StampTables ==
  /\ pc = "tables"
  /\ \E failed \in SUBSET late :
       /\ MayFail(failed)
       /\ stamp' = Written(late, failed, held.stamp)
       /\ unwritten' = (unwritten \ late) \cup failed
  /\ credit' = credit \ {s \in late : held.stamp[s] = "paid"}
  /\ pc' = "overrides"
  /\ UNCHANGED <<phase, own, enabled, lock, held, todo, late, changes, crashes>>

\* Mutant: a lock file that is in the way stays there.
LockIsFreeNever == lock = 0

\* _acquire_run_lock: no file, or one older than the stale age, which is
\* removed first.
LockIsFree == lock = 0 \/ lock > StaleAge

After(at) == IF at = "global" /\ late # {} THEN "tables" ELSE "read"

\* run_all_due without the key: it returns before it looks at the lock.
RunSkipped ==
  /\ pc \in {"global", "overrides"} /\ ~keyed
  /\ pc' = After(pc)
  /\ UNCHANGED <<phase, own, enabled, stamp, lock, held, todo, late, history, changes, crashes, faults>>

\* run_all_due with the lock: the run of the inheriting tables (those that
\* inherited when they were read), or of the tables found due.  It also goes on
\* without a file when none can be created.
RunStarts ==
  /\ pc \in {"global", "overrides"} /\ keyed /\ LockIsFree
  /\ lock' \in {0, 1}
  /\ IF pc = "global"
     THEN todo' = Tables \ held.own /\ pc' = "run global"
     ELSE todo' = late /\ pc' = "run overrides"
  /\ UNCHANGED <<phase, own, enabled, stamp, held, late, history, changes, crashes, faults>>

\* run_all_due refused by the lock, or by a stale one that cannot be removed:
\* the moment is not made up for.
RunRefused ==
  /\ pc \in {"global", "overrides"} /\ keyed /\ lock # 0
  /\ MayFail(IF LockIsFree THEN {lock} ELSE {})
  /\ pc' = After(pc)
  /\ UNCHANGED <<phase, own, enabled, stamp, lock, held, todo, late, history, changes, crashes>>

\* One table, whatever comes of it.
RunTable ==
  /\ pc \in {"run global", "run overrides"} /\ ~stopping
  /\ \E t \in todo : todo' = todo \ {t}
  /\ UNCHANGED <<phase, own, enabled, stamp, lock, pc, held, late, history, changes, crashes, faults>>

\* The list is done, or left for a stop: the lock file is removed, unless that
\* fails.
RunEnds ==
  /\ pc \in {"run global", "run overrides"} /\ (todo = {} \/ stopping)
  /\ \E failed \in SUBSET ({lock} \ {0}) :
       MayFail(failed) /\ lock' = IF failed = {} THEN 0 ELSE lock
  /\ todo' = {}
  /\ pc' = After(IF pc = "run global" THEN "global" ELSE "overrides")
  /\ UNCHANGED <<phase, own, enabled, stamp, held, late, history, changes, crashes>>

\* The loop sees the stop at the start of a round, or in its wait.
Leave ==
  /\ pc \in {"read", "wait"} /\ stopping
  /\ pc' = "down" /\ held' = NothingHeld /\ late' = {}
  /\ UNCHANGED <<phase, own, enabled, stamp, lock, todo, history, changes, crashes, faults>>

Round ==
  \/ Read \/ Wake \/ StampTables
  \/ RunSkipped \/ RunStarts \/ RunRefused \/ RunTable \/ RunEnds

Loop == (Round \/ Leave) /\ UNCHANGED <<stopping, keyed>>

-----------------------------------------------------------------------------
(* Administrators, and the process.                                         *)

\* set_refresh_settings: the stamp is not touched.
Toggle ==
  /\ changes < MaxChanges /\ changes' = changes + 1
  /\ enabled' = ~enabled
  /\ UNCHANGED <<phase, own, stamp, lock, pc, held, todo, late, stopping, keyed, history, crashes, faults>>

\* set_table_schedule: a schedule of its own or the global one again; either
\* way the table's stamp is reset.
SetOwn(t) ==
  /\ changes < MaxChanges /\ changes' = changes + 1
  /\ own' = IF t \in own THEN own \ {t} ELSE own \cup {t}
  /\ stamp' = [stamp EXCEPT ![t] = "none"]
  /\ UNCHANGED <<phase, enabled, lock, pc, held, todo, late, stopping, keyed, history, crashes, faults>>

\* stop(), at the end of the service: the loop is told.
Stop ==
  /\ pc # "down" /\ ~stopping
  /\ crashes < MaxCrashes /\ crashes' = crashes + 1
  /\ stopping' = TRUE
  /\ UNCHANGED <<phase, own, enabled, stamp, lock, pc, held, todo, late, keyed, history, changes, faults>>

\* The process dies, or ends without the loop that a stop gave up waiting for:
\* the registry and the lock file stay.
Crash ==
  /\ pc # "down"
  /\ crashes < MaxCrashes /\ crashes' = crashes + 1
  /\ pc' = "down" /\ held' = NothingHeld /\ todo' = {} /\ late' = {}
  /\ UNCHANGED <<phase, own, enabled, stamp, lock, stopping, keyed, history, changes, faults>>

\* A new process, started with the key or without.
Start ==
  /\ pc = "down"
  /\ pc' = "read" /\ stopping' = FALSE /\ keyed' \in BOOLEAN
  /\ UNCHANGED <<phase, own, enabled, stamp, lock, held, todo, late, history, changes, crashes, faults>>

\* An image that kept no stamps is upgraded.
SchedulerInit ==
  /\ phase = 0 /\ own \in SUBSET Tables /\ enabled = TRUE
  /\ stamp = [s \in Schedules |-> "none"]
  /\ lock = 0 /\ pc = "down" /\ held = NothingHeld
  /\ todo = {} /\ late = {} /\ credit = {} /\ unwritten = {}
  /\ stopping = FALSE /\ keyed = TRUE /\ changes = 0 /\ crashes = 0 /\ faults = 0

SchedulerNext ==
  \/ Tick \/ Loop \/ Toggle \/ Stop \/ Crash \/ Start
  \/ \E t \in Tables : SetOwn(t)

SchedulerSpec == SchedulerInit /\ [][SchedulerNext]_schedulerVars

\* The clock runs, the service is started again, and the thread is scheduled:
\* every wait is bounded and refresh_one_table never raises.
FairSpec == SchedulerSpec /\ WF_schedulerVars(Tick) /\ WF_schedulerVars(Loop) /\ WF_schedulerVars(Start)

-----------------------------------------------------------------------------
\* What fires in a step had a moment since it fired last, or could not be
\* stamped then.
FiresOnCredit ==
  /\ Wake /\ pc' = "global" => Global \in credit \cup unwritten
  /\ StampTables => late \subseteq credit \cup unwritten

(* No moment fires twice: a schedule fires only when a moment of it has       *)
(* passed since the moments it fired for before, whatever crash, slow run or  *)
(* edit came between, and never as a storm at the first start.  The one       *)
(* exception is a schedule whose last stamp could not be written.             *)
NoMomentFiresTwice == [][FiresOnCredit]_schedulerVars

(* The same without the exception, as the docstring of _loop has it: "Stamps  *)
(* are written BEFORE the run (backward clock jump / slow run can't           *)
(* double-fire)".  It fails: the run also goes on after a stamp that could    *)
(* not be written, and the next round finds the same moment due again.        *)
NeverFiresAgain == [][
  /\ Wake /\ pc' = "global" => Global \in credit
  /\ StampTables => late \subseteq credit]_schedulerVars

(* A moment that passed is found and fired, also one that passed while the    *)
(* service was down: the catch-up of _loop.                                   *)
EveryMomentIsFired ==
  /\ (enabled /\ stamp[Global] = "owed") ~> (~enabled \/ pc = "global")
  /\ \A t \in Tables :
       (t \in own /\ stamp[t] = "owed") ~> (t \notin own \/ (pc = "overrides" /\ t \in late))

(* A lock file left behind by a run that died refuses runs only until its     *)
(* age: as long as the schedule is on and the key is there, it goes.          *)
LockIsReclaimed == (lock # 0) ~> (lock = 0 \/ ~enabled \/ ~keyed)

=============================================================================
