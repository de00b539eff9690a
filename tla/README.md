# A verification project for the PowerDataChat on-prem client

PowerDataChat's client is a Python web application that a customer runs beside
its own data: users ask questions in a chat, an external "brain" service plans
an answer and writes Python code for it, and a second container (the sandbox)
runs that code over the customer's tables. This directory holds TLA+ models of
the parts whose correctness depends on the order in which several actors take
their steps, the TLC runs that check small instances of them, and TLAPS proofs
about each of them: every invariant and every action property a passing run
checks is also a theorem (section 4).

`PROJECT.json` lists every run, the lines of the source each definition was
translated from, and a mutated form of a definition that each checked property
detects.

## 1. The system

| Component | Source | State it keeps | Operations | Interacts with | What is hard |
|---|---|---|---|---|---|
| Dispatcher | `executor_client.py`, `exec_transport.py` | dispatch gate, active job ids, jobs directory | `execute`, `sweep_orphans`, `startup` | callers in worker threads; the sandbox over HTTP and a shared volume | early returns, read timeouts, restarts, two sweeps on one tree |
| Sandbox service | `executor/app.py` | semaphore, active ids, in-flight count, swept/pending/runner pids, unhealthy latch | `/execute`, orphan sweep thread, `lifespan` | dispatcher; runner processes | queueing against the caller's budget, process escape, kill races |
| Runner | `executor/runner.py`, `code_exec.py` | one process per job | run one job, write one response | sandbox through pipes | writes its response before its children are gone |
| Share records | `local_store.py`, `routes/chat.py`, `routes/auth.py`, `routes/dashboards.py`, `routes/admin_users.py` | `shared_with`, `conv_shares`, `conv_granted`, `chat_grants` | share and unshare of chats, conversations and dashboards; account removal | event loop and worker threads under `_LOCK` | three roads to one access, each with a record of its own |
| Sign-in limiter | `auth_limiter.py` | one entry per address and per peer | `begin`, `success` | the sign-in, reset and reset-link routes | windows, lockouts, eviction |
| Accounts and sessions | `local_store.py` (`AuthStore`), `app.py`, `routes/auth.py`, `routes/admin_users.py` | profile, auth record, session generation and its cache, reset links | create, set password, end sessions, remove, mint/consume/restore a link, invite | every request through the session gate; background mail threads | cache against removal, rollback of a link, a half-written account |
| Microsoft sign-in | `routes/sso.py`, `sso_store.py`, `signin_domains.py` | bound identities | sign-in, bind | identity provider, accounts | an identity whose address changes |
| Refresh scheduler | `db_scheduler.py`, `schedule_utils.py` | fire stamps, run lock file | loop, `run_all_due`, `refresh_one_table` | registry, chat metas, an administrator's manual refresh | crash between stamp and run, a stale lock reclaimed |
| Database sources | `db_sources.py`, `db_connector.py`, `routes/admin_data.py` | registry of connections and tables, recommendations, parquet snapshots | register, accept, edit, switch mode, refresh, delete | scheduler, chats | several administrators and the scheduler at one row |
| Chat turns | `routes/chat.py`, `local_store.py` (histories) | registries of generating, cancelled and in-flight turns; the histories | ask, stop, edit, stream, look up a chart's code | planner, browser | stop against the next turn, a reader that leaves, an edit that rewrites the history |
| Planner loop | `run_chat_local.py` | worklist of charts, frames and failed SELECTs of one turn | plan, run, retry, regenerate, split, answer | brain, dispatcher, live databases | a worklist that grows while it is worked off, frames of an earlier SELECT |
| Data frame cache | `local_store.py` (`LRUTTLCache`, `.parquet_cache`, `.profiles`) | frames in memory under a signature, parquet copies under a manifest, profiles under a stamp | load, store, evict, rebuild, profile | chat turns; Add Data; refreshes of snapshots | three copies of one file, each with a stat taken at another moment |
| Roles | `roles_store.py` | one file | lookups, edits | routes | - |
| Brain client | `brain_client.py` | tenant flag | HTTP calls | external service | - |
| Analysis code | `narrative.py`, `plot_utils.py`, `relation_discovery.py`, `routes/report.py`, ... | none that is shared | data processing | - | sequential |

The web service is ONE uvicorn worker: its handlers share one event loop, which
gives way only at an `await`; blocking work runs on thread pools and meets the
loop at `local_store._LOCK`. The sandbox is a second process with the same
structure. The brain is outside.

What makes each part correct:

* **Hop.** Slots are neither lost nor exceeded on any path; the directory of a
  job in flight is never removed; what a caller is told about its job is true;
  every call returns and nothing is left on the volume.
* **Job.** A response written in time is the answer; `killed` means that the
  kernel did it; no process of one user's job runs beside another's.
* **Sharing.** Taking a share back takes exactly the access it created: not
  what was shared on purpose, not what another share still needs; records and
  lists agree.
* **Limiter.** Guesses per window are bounded, and neither a spray of addresses
  nor a colleague behind the same proxy changes that.
* **Accounts.** A session that was ended never passes again, a link is used
  once, an identity is one account, and removing an account beats whatever is
  in flight for it.
* **Refresh.** A due moment fires once and is not forgotten; a lock left by a
  crash is taken over; what a refresh stores in a row is true of its snapshot,
  and leaves what others wrote.
* **Turns.** A conversation that no longer counts as generating has its answer
  saved; a chart that was shown has its code to be found; a turn ends, and its
  code runs on the rows of the SELECT last named for each of its tables.
* **Data.** What is served under a source's present stat is its present content.

## 2. Modules

| Module | Models | Runs |
|---|---|---|
| `ExecutorContract` | what `execute` promises its callers; abstract | via `Hop` |
| `ExecutorHop` | dispatcher, sandbox queue, shared volume, both sweeps, restarts | `Hop`, `HopLive` |
| `JobRunner` | one accepted job inside the sandbox: processes, signals, sweep, answer | `Runner` |
| `ShareLedger` | the share records of one owner toward one recipient | `Ledger`, `LedgerUnshare` |
| `AuthLimiter` | the sign-in limiter | `Limiter` |
| `AccountSessions` | accounts, session generations, links, Microsoft identities | `Accounts` |
| `TableRegistry` | one registered table, its snapshot and its recommendation | `Registry` |
| `RefreshScheduler` | rounds, fire stamps and the run lock | `Schedule` |
| `ChatTurns` | turns, edits and code lookups over the registries and histories | `Turns`, `TurnsStop` |
| `PlannerLoop` | one streamed turn inside `run_chat_multi_plot` | `Planner` |
| `FrameCache` | the copies of one chat's data in memory and on disk | by hand (section 3); TLAPS |
| `ExecutorHop_proofs`, `JobRunner_proofs`, `ShareLedger_proofs`, `ChatTurns_proofs`, `PlannerLoop_proofs`, `FrameCache_proofs` | theorems about the modules they are named for | TLAPS |
| `TableRegistry_proofs` | theorems about `TableRegistry` and `RefreshScheduler` | TLAPS |
| `AccountSessions_proofs` | theorems about `AccountSessions` and `AuthLimiter` | TLAPS |
| `MC...` | instances for TLC | |

The modules meet at the calls of the program: a turn (`ChatTurns`) is one
`PlannerLoop`, each `Runs` of that loop is one `execute` of `ExecutorHop`, and
one job of the hop is a job of `JobRunner`; each `RunTable` of
`RefreshScheduler` is one scheduled refresh of `TableRegistry`. Each module
takes of the one below it every outcome it may have (`Outcomes` of the
planner, `FinishJob` of the hop), and nothing more.

The scheduler's theorems stand beside the registry's, and the limiter's beside
the accounts', because the two of each pair share the code they are called
from; for that the smaller module of each names its initial states, steps and
specification `SchedulerInit`, `SchedulerNext`, `SchedulerSpec` and
`LimiterInit`, `LimiterNext`, `LimiterSpec`.

In each module a definition that starts with `Mutant:` in its comment is the
definition below it with a plausible bug; nothing else uses it.

### ExecutorHop

One `Jobs` element is one dispatch and the job id it creates. `call[j]` is the
place in `execute`/`_dispatch`: `idle`, `waiting` (for the gate), `preparing`
(slot held, id registered), `writing` (directory exists), `posting`, `reading`
(outputs), `closing` (the `finally`), `sweeping`, `done`. `task[j]` is the same
job inside the sandbox: `sent`, `queued`, `running`, then an answer. `dir[e]`
is an entry of the jobs root: absent, `fresh`, or `aged` (older than 300 s).
`sealed` are entries the web uid cannot remove, and those it leaves alone as
the sandbox's. Each sweep is split where the code is: list and `lstat`, then
the check of the active set and the age, then the removal. `webScan[j]` and
`boxScan` hold what a sweep read and has not used yet; that gap is where the
interesting interleavings are. A crash of either container (`WebCrash`,
`BoxCrash`) forgets what the process kept and leaves the volume; a start runs
the startup sweep before anything else.

A `POST` whose sender gave up may be lost or still be delivered
(`Unavailable`). What happens between a runner's spawn and its answer is the
pair `StartJob`/`FinishJob` here and module `JobRunner` in full.

Assumptions: `WebIsPrompt` says that the web service's own work on a directory
(writing inputs, delivering the request, reading outputs) takes less than the
300 s after which a sweep calls a directory old; generated code does not
remove or rename its own job's live directory. The web service's sweep is rate
limited in the code (once in 60 s), so a dispatch may or may not sweep: the
model lets it examine any number of entries, including none.

### ExecutorContract

Three variables: `phase`, `told`, `executed`. It says what a returned value
means: an answer comes from a job that ran; a refusal (`busy`, could not be
prepared, rejected) from one that has not run and never will, so that it is
safe to ask again; after a timeout, a crash or an unreadable answer nothing is
started any more; only `unavailable`, or the loss of the web process, leaves it
open. `ExecutorHop` refines it with the mapping at the end of that module.

### JobRunner

`Jobs` are runner processes too, `Strays` the processes generated code may
start, in its own process group or a new one. Process states are `free`,
`live`, `dying` (was sent SIGKILL, still holds its descriptors), `zombie`,
`gone`. The sweep is three steps per pass: list `/proc`, read the statuses,
kill. `killedBy` is a history of who ended a runner, so that the
classification (`killed` or `crashed`) can be compared with the truth.

`loose` is a history of the jobs that the service let go of a process of, in
the two ways it can. A process that was listed starts another one and exits
before its status is read (`HopsAPass`): the pass finds neither, and returns
that the uid is clean. It leaves `loose` when a later pass lists anew. And an
exception after `Popen` (`SpawnAbandoned`; the pid is recorded or a reader
thread fails to start) answers `crashed` while the runner goes on, which nobody
waits for and nothing sweeps. The properties are stated of the other jobs, and
the configurations `MCJobRunnerSweep.cfg` and `MCJobRunnerAlone.cfg` show what
the two do (section 3).

Reuse of pids, the cap of 4096 swept pids, and junk written by children into
the response pipe are not modelled.

### ShareLedger

One owner, one recipient. Access to a chat is `listed` (`sharing.shared_with`
of its meta); the three records are `convShared` and `granted` (`conv_shares`,
`conv_granted` of the meta) and `grants[d]` (`chat_grants` of a dashboard).
Every step is one section of `_LOCK`. What the event loop is in the middle of
is `loop`: no other handler runs meanwhile, but the actions that the code runs
on worker threads do (`UnshareChat`, `UnshareConversation`, the account
removal). A handler that reads before an `await` and goes on afterwards keeps
what it read (`opened`). `madeBy` is a history of the road by which the
recipient got on the list.

The recipient's own index rows (sidebar, copies of conversations, dashboard
pointers) are not modelled: no access decision reads them. The choice of the
dashboard that inherits a grant is by index order in the code and
nondeterministic here. Tiles of chats the owner does not own are never granted
and are left out, as are failures of single file writes.

### AuthLimiter

A key space is its order of last use and an entry per key; failures leave an
entry from the front, up to the first that still lies in the window, as
`_prune` takes them off its deque. The handlers call
`begin` and `success` without an `await` between them, so one attempt is one
step; its outcome (right or wrong) is chosen freely. Reset requests count
addresses in a space of their own by the same rules; the model keeps only what
the shared peer sees of them. Time is a clock in seconds that ticks between
attempts. `wrong` and `missed` are histories that the properties compare the
counters with; they end when the key is evicted. `MaxTime` bounds the clock for TLC and
is any number in the proofs.

### AccountSessions

An account is two files, `profile.json` and `auth.json`: `acct[a]` says which of
the two exist and what the second holds (generation, whether there is a
password, the Microsoft mark and identity, the one link). `cache` is
`_SESSION_GEN_CACHE`; `session[b]` the signed cookie of a browser, which the
server cannot take back. Handlers run on the event loop and give it away only
where they await: `loop` is the one between two of its lock sections, `pending`
a request that awaits its body after the gate let it in, `invite` an
invitation that awaits its mail. On threads, and so between any two steps, run
the removal of an account (`RemoveUser`, and `RemoveUserFails` when its folder
cannot be removed), the end of its sessions (`BumpGeneration`) and the
background worker that mails reset links (`SenderChecks`, `SenderMints`,
`SenderMails`). `HalfAccount` is an account of which only the first file could
be written. An upgraded install has accounts without a generation and cookies
without one (`Init`).

`spent` is a history: the links that were used, or that stood when a password
was set or the account removed. Generations and links are numbers that are
never issued twice, as their 128 random bits are not. Not modelled: the
lifetimes of cookies and links (an expired one is refused, which changes
nothing), the forced change of a temporary password, the first administrator,
unreadable records.

### TableRegistry

`row[t]` is the row of one table id (mode and stored fingerprint), `snap[t]`
the version of the data in its parquet, `src` the version in the customer's
database, `rec` the recommendation of the same physical table. Requests are
processes that await between their steps: `req[p]` holds the place of each and
the document it read at its start, which it writes back whole where the code
does. A refresh is split where the code awaits or where another thread may
come between: read the row, take the fingerprint, read the data, swap the
parquet, mark the row. `Reconciled` is the hook that every write of the
registry ends with and that settles the recommendation. `tainted` are the ids
whose refreshes overlapped or met a removal (a history that
`FingerprintHasItsSnapshot` excepts), `wanted` what an administrator last decided of the
recommendation.

### RefreshScheduler

`phase` is the clock within one period, `stamp` the stored fire times reduced
to what the code asks of them (is a moment owed since the stamp), `pc` the
place of the loop, `lock` the age of the lock file (0: none). One step is one
section of the loop thread between two reads of something others write. `stopping` is
`_STOP`; `Crash` leaves the lock and the stamps, `Start` begins with both.
`Owes` is what `due_now` finds in a stamp. "Fired" means that the run
was asked for: a run refused by a busy lock, or cut short by a stop, is not
made up for, and the code says so.

Writes may fail (`MayFail`, up to `MaxFaults` times): `mark_fired` and
`mark_table_fired` log the failure and the run goes on, so a stamp may keep its
old value (`Wake`, `StampTables`); the history `unwritten` holds the schedules
that last fired that way. A lock file may fail to be removed, at the end of a
run or when it is stale. `keyed` is whether the process has the key to the
connections; without it `run_all_due` returns before it takes the lock
(`RunSkipped`), and one that is there stays.

The stamps of several tables found late are written in one step, although each
is a write of its own. A failed READ of the registry is not modelled: `read_doc`
then returns an empty document (`db_sources.py:318`), which is a different
registry to everybody who reads it. Nor are several web processes on one data
directory.

### ChatTurns

A turn is a handler on the loop, and a worker thread from the first pull of
the response's body to its `finally`. `hist[c]` is the stored history of a
conversation, `generating` and `cancel` the two registries with one entry
per conversation, `inflight` the codes of charts that are shown and not yet
stored. An answer may come in one piece (`single`: the one event of a turn
whose plan has no separate charts); a Stop that is seen behind it saves a row
without its code (`_build_stopped_record(None, ...)`, `routes/chat.py:871`),
and `dropped` remembers that. The browser may leave before the body is pulled (`NeverPulled`), press
Stop at any time, edit the last question (which rewrites the history in two
steps, `EditOpens` and `EditWrites`), and ask for a chart's code
(`LookupRegistry`, `LookupFile`). A generator may fail, and so may a write. The
full-table records of a one-shot tabular answer, which the lookup accepts too,
are not modelled.

### PlannerLoop

One turn of `run_chat_multi_plot`. `work` is the worklist of charts, each a
code with how often it was sent back to be drawn again; `live` what the turn
keeps of live tables: the SELECT named for each, the frames in hand with the
query they came from, the SELECTs that failed. `next` is the code about to
run, `goal` where its outcome is looked at. The
brain answers anything at each call, or raises (`BrainRaises`); code has any of
the outcomes a dispatch returns (`Outcomes`). Each live fetch is a step, since a
table may be free, filtered by the user's role (then no SELECT of the planner's is
used) or missing. A plan of charts has at least one; the
note that a role was denied a table, which the code keeps to the end of the
turn, is here the outcome of the run that met it.

### FrameCache

A source (an uploaded file, or the central snapshot of a database table) is a
`stamp`, its stat, and `bytes`, its content, named by the stamp it was written
under. `WriteBytes` is one piece of a write, `CopyStat` the times that
`shutil.copy2` sets after the last. A frame is the content it was read from.
`memSig`, `memFrames` are the chat's entry of `_DATAFRAME_CACHE`; `mStamp`,
`mKeys`, `parquet` the manifests and entries of `.parquet_cache`; `pStamp`,
`profile` the profiles. `at[l]` is the place of a loading thread, one step for
each stat, read, replaced or removed file, so that sources change and loaders
meet anywhere between. `GiveUp` is a write of the copies that failed at any of
its files, `Restart` a restart of the web service, which the disk survives.
`raced` is a history: the files that were parsed while another loader was
writing their copies, until they change again.

Assumption: no two states of a source share size and modification time; the
code relies on it. Files that are parsed on every load (`.parquet`), the
pickled entries apart from the parquet ones, byte budget and order of eviction
(any entry may go at any time) and live placeholders are left out.

## 3. Runs

| Run | Instance | What it shows |
|---|---|---|
| `Hop` | 2 jobs, 1 stray, 1 slot on each side, 2 restarts | `SlotsBalanced`, `QueuedOnlyBehindAbandoned`, `DirKeptInFlight`, refinement of the contract |
| `HopLive` | 2 jobs, 1 slot, 1 restart, fairness | `EveryCallReturns`, `DirsEventuallyGone` |
| `Runner` | 2 jobs, 1 slot, 2 strays, 2 passes | `ResponseNotLost`, `KilledMeansKernel`, `RunsAlone` |
| `Ledger` | 1 chat, 2 conversations, 2 dashboards (one deletable) | `ConvRecordsAreLive`, `ChatShareIsKept`, `NeededAccessIsKept` |
| `LedgerUnshare` | 1 chat, 2 conversations, 1 dashboard | finding 1 below |
| `Limiter` | 3 addresses, room for 2, 1 peer, clock to 6 | `GuessesAreBounded`, `PeerCountIsExact`, `LockoutOutlivesSpray` |
| `Accounts` | 2 addresses (one of an approved domain, one invited), 1 identity, 1 browser, 1 administrator, 2 generations, 2 links, 1 fault | `CacheIsRecord`, `EndedStaysEnded`, `SpentLinksStayDead`, `OneAccountPerIdentity`, `SsoOnlyStaysPasswordless` |
| `Registry` | 1 table id, 2 administrators and the scheduler, 2 versions of the data | `RecTracksRegistry`, `DismissalStands`, `FingerprintHasItsSnapshot`, `RefreshLeavesTheRow` |
| `Schedule` | 2 tables, 3 phases, stale age 4, 1 schedule change, 1 crash or stop, 1 failed file operation, fairness | `NoMomentFiresTwice`, `EveryMomentIsFired`, `LockIsReclaimed` |
| `Turns` | 2 turns, 2 conversations, 1 code, 2 events a turn, fairness | `CodeShownIsStored`, `UnmarkedIsSaved`, `MarksAreCleared` |
| `TurnsStop` | 2 turns, 1 conversation | finding 2 |
| `Planner` | 1 free and 1 filtered table, 1 SELECT, 2 charts of 1 block, 1 table, 3 retries, 1 regeneration, 2 parts, fairness | `RunsOnItsQuery`, `FailedSelectStands`, `TurnEnds` |

Every passing run but `HopLive` and `Schedule`, which ask temporal questions, and
`Limiter` also checks the module's `TypeOK`. Eleven more configurations are kept
to be run by hand; TLC finds each of their properties violated (section *What
the code does otherwise*). Two are run by hand, too, and pass. `MCFrameCache.cfg`
has one loader, one file with two sheets, one table, three changes of each
(11,022,752 distinct states, two and a half minutes); it checks `TypeOK`,
`MemoryIsCurrent`, `TablesInMemoryAreCurrent` and `DiskIsCurrent`.
`MCFrameCacheOverlap.cfg` has two loaders at one file with two sheets
(1,271,680 distinct states) and checks `OnlyOverlapsStale`, what of the two
survives when loads overlap.

**Bounds.** In the hop, two jobs are enough for one to hold what the other
needs (slot, queue place, sweep), and jobs interact in pairs only: through a
counter, or one sweeping the other. Two restarts allow one of each container,
or the same one twice. A third job makes the space too large for a run; the
proofs cover every number, and more slots than one. In `JobRunner` two strays give
one that escapes and one that it starts; two passes are one that finds
something and one that must be clean. In the ledger, one chat suffices because
no operation relates two chats except by doing the same to each; two
conversations and two dashboards give every record a second one that may need
the same access. The limiter's thresholds are as small as they can be with a
free failure, a spaced one and a lockout (2 + 1), the window and the lockout
equal (4), and the clock runs past the end of a first lockout.

In `Accounts` two generations are the account's first and the one that ends it,
which is what a session, a link or a handler can outlive; the second address is
there for an identity that comes with either. In `Registry` all interference is
between requests at one row, so one id suffices (rows are independent but for
the recommendation, and the proofs cover any number of ids); two
administrators and the scheduler are the three that meet. In `Schedule` two
tables let one be refused while the other runs, three phases give a moment
before, at and after a fire time, and the stale age is longer than a period so
that a whole period is missed behind a dead lock; one edit, one crash and one
failed write are enough for each to meet each (with two edits and two crashes
the three properties also hold, over 2,699,394 distinct states). In `Turns` two turns are the
one before and the one after, in one conversation or in two. `Planner` keeps
the shipped number of retries (3); two charts and one block leave the worklist
something to grow by regeneration and by splitting.

`CHECK_DEADLOCK FALSE` is set where the system really may stop: all dispatches
of the instance have returned, all jobs are answered, the clock's bound is
reached, the generations and links of the instance are used up, all turns are
over. The ledger and the scheduler never stop.

**Fairness** (`HopLive`). Each dispatcher thread and each accepted request
keeps running, because every wait in them has a timeout and no lock is held
across one (the timeout of a read is one of `httpx`, for each read and not for
the whole call; the sandbox sends its answer in one piece); the sandbox's sweep
thread wakes every 60 s and lists every entry
(strong fairness, because an entry it skips as active comes up again in the
next round); time passes; a stopped container is started again by the
orchestrator. Nothing is assumed of the generated code beyond the hard timeout
and the kill that `FinishJob` stands for. Restarts are bounded
(`MaxRestarts`), as no system makes progress while it is restarted forever.

**Fairness** (`Schedule`, `Turns`, `Planner`). The scheduler's thread keeps
running (every wait in it has a timeout, every table's refresh is inside a `try`),
files fail only so often (`MaxFaults`), time passes, and a process that went
down is started again. A worker thread of a turn
runs to its `finally`, and so does the handler of an edit; nothing is assumed of
the browser, which may never pull the body or leave at any time, nor of anybody
who might press Stop. The planner's turn takes steps as long as it has one:
each call of the brain or the dispatcher returns or raises, by its timeout.

### Disagreements between the code and what is said of it

1. `LedgerUnshare`. Share Chat's Remove leaves the `chat_grants` record of a
   dashboard behind; if a conversation share gives the access again, unsharing
   the dashboard takes it away, against `local_store.py:3657`. (That a
   conversation share made WHILE the dashboard's grant is alive loses access
   with it is intended, and tested.)
2. `TurnsStop`. Stop marks the conversation, not the turn, and the page allows
   the next question at once. The worker of that question clears the mark when
   it starts (`routes/chat.py:1903`); the worker that was to stop has not
   looked at it yet and runs on to its last chart, against the docstring at
   `routes/chat.py:1752`.

### What the code does otherwise

Configurations to be run by hand (`tlc -config X.cfg M`), each with one property that
TLC finds violated:

* `MCExecutorHopStale.cfg` (`AnsweredDirReadable`). The sandbox's sweep reads a
  directory's age first and the active set afterwards (`executor/app.py:356`,
  `:363`). A job longer than 300 s that answers in between is judged by its age
  before the answer, and the directory is removed while the web service reads
  its outputs: what the comment at `executor/app.py:1153` says the `utime` is
  there to prevent.
* `MCJobRunnerKilled.cfg` (`SweptIsNeverKilled`). With more than one slot, the
  sweep of a job that is alone clears the record of the runners an earlier
  sweep killed, and one of them is then answered `killed`, against the comment
  at `executor/app.py:119` and `docs/EXECUTOR_PROTOCOL.md:448`.
* `MCJobRunnerLatch.cfg` (`LatchStopsJobs`). A job that was already in the
  queue is started after the service latched itself unhealthy, against
  `docs/EXECUTOR_PROTOCOL.md:520`.
* `MCJobRunnerSweep.cfg` (`SweptIsClean`). A process that is in the listing of
  `/proc` (`executor/app.py:549`) starts another one and exits before its
  status is read (`:556`). The pass sees neither, and returns that nothing was
  found while the second process runs on. The docstring at
  `executor/app.py:628` says that the kill is repeated "until a full pass over
  /proc finds none" and "Returns True when the uid is clean"; a further fork
  and exit in each later pass hides the process from all of them.
* `MCJobRunnerAlone.cfg` (`NoOtherProcess`). An exception after `Popen`
  (`executor/app.py:933`) takes the road of a spawn that failed (`:937`), which
  neither kills the runner nor sweeps: the next job runs beside it, against
  `executor/app.py:632` ("what makes "no other process exists during an
  exec" true").
* `MCRefreshSchedulerAgain.cfg` (`NeverFiresAgain`). `mark_fired` and
  `mark_table_fired` log a failed write of the registry and return
  (`db_sources.py:936`), and the loop goes on to the run
  (`db_scheduler.py:663`). The next round reads the old stamp and fires the
  same moment again, in each round for as long as writes fail. The docstring at
  `db_scheduler.py:617` says "Stamps are written BEFORE the run (backward clock
  jump / slow run can't double-fire)", the one at `db_sources.py:929` calls
  the stamp "the double-run / backward-clock guard".
* `MCChatTurnsSingle.cfg` (`StoppedCodeIsStored`). A Stop that is seen behind an
  answer in one piece saves "Response stopped by user." without the code of the
  chart the browser already shows (`routes/chat.py:871`), and the entry that
  kept the code findable is removed right after, so the chart can no longer be
  refreshed or pinned. The comment at `routes/chat.py:981` says that a chart
  "shown right after Stop" is "refreshable and pinnable before its history row
  exists", the one at `:2127` of the codes removed there that "they are in
  the history now".
* `MCAccountSessionsBack.cfg` (`NotWrittenBack`). `ensure_invited_user` creates
  the placeholder in one lock section and marks it in another, and the second
  (`local_store.py:1225`) does not look whether the account is still there: a
  removal between them leaves an `auth.json` alone. The docstring at
  `local_store.py:1243` calls that look "the write guard of every writer except
  `create_account`".
* `MCTableRegistryOnce.cfg` (`RegisteredOnce`). `save_table` and the acceptance
  of a recommendation check that no other row registers the same table, then
  await the probes of the source, then write without checking again: two saves
  at once register it twice, against the comment at
  `routes/admin_data.py:2416`.
* `MCFrameCacheRebuild.cfg` (`MemoryIsCurrent`, 29 states). One loader has taken the
  stat of a file and parsed it; the file is overwritten; a second loader parses
  the new content. Both write the same parquet entry (`local_store.py:430`),
  each replace atomic, the first loader's last. The second's manifest, with the
  new stat, now stands over the old content, and does not heal: every later
  load finds the stat it expects. `local_store.py:407` says "concurrent
  rebuilds can't corrupt each other", `:521` "a changed file can never serve
  stale data". It takes the overlap of two rebuilds: `OnlyOverlapsGoStale` below.
* `MCFrameCacheProfile.cfg` (`ProfileIsCurrent`, 14 states). `ensure_chat_profiles`
  takes a source's stat after the frames were loaded (`local_store.py:788`); a
  file overwritten between the two gets the profile of its old content under
  its new stat, where the parse of that file takes the stat first.

Met on the way, where nothing in the repository promises otherwise: deleting a
shared dashboard revokes none of the grants it made; `share_dashboard` goes on
after a concurrent delete and grants chats without a record; the dispatcher's
read timeout (budget + 30 s) is shorter than the sandbox's longest way to an
answer; the comment at `executor/app.py:107` says that the process sweep is
skipped with a raised limit while the code at `:979` runs it at every
concurrency; `executor_client.py:844` says "the sandbox's own queue stays
empty", which holds until a caller gives up on its read or the web service
restarts (`QueuedOnlyBehindAbandoned` is what does hold);
`AUTH_FAIL_THRESHOLD = 1` gives every fresh key a wait, so that a spray can
evict a lockout.

Accounts: `clear_reset_token` drops whatever link the record holds, also a
newer one; two administrators who invite one address and whose mails both fail
put back a link that nobody received; a change of password in flight stamps
its session again after that browser's logout.

Registry: two overlapping refreshes of a table can leave the newer fingerprint
beside the older parquet, which later scheduled runs then skip over (hence
`tainted`); a save that writes back a document read before a removal registers
the table again; a refresh of descriptions overwrites those saved meanwhile; an
edit from live to snapshot whose refresh fails keeps the mode and an older
parquet.

Turns: the record of a turn that failed drops the codes of charts it already
showed (`CodeShownIsStored` excepts it, and the turns of
`MCChatTurnsSingle.cfg`); a question whose reader left before
the body was pulled stays without an answer; the rewrite of a history by an
edit loses a row appended meanwhile by a turn of the same conversation.

Planner: an outage on the LAST retry of a block is not recognized as one
(`retry_count < 3` at `run_chat_local.py:2321`), and the worklist goes on,
against the comment at `:2388`; the skip of degenerate charts may leave none;
one `sql` map for the whole turn fetches a table again for charts that did not
change. So a chart written for the plan's SELECT may run on the rows of one
that another chart's retry sent (`run_chat_local.py:230`, `:2346`), where the
comment at `:2168` has "a table is fetched once per turn and every block sees
the same frame"; `RunsOnItsQuery` says what `_merge_retry_sql` does, and no
more.

Scheduler: without the encryption key a run returns before it looks at the lock
(`db_scheduler.py:549`), so that a stale one stays until the key is back, and
`LockIsReclaimed` excepts that.

## 4. Proofs

`ExecutorHop_proofs` proves, for every set of jobs and strays, every number of
slots on each side and every number of restarts:

| Theorem | Statement |
|---|---|
| `TypeCorrect` | `Spec => []TypeOK` |
| `Invariance` | `Spec => []IInv` |
| `DirsAreKept` | `Spec => []DirKeptInFlight` |
| `SlotsAreBalanced` | `Spec => []SlotsBalanced` |
| `QueuesBehindAbandoned` | `WebSlots <= BoxSlots`: `Spec => []QueuedOnlyBehindAbandoned` |
| `Implementation` | `Spec => ImplementsContract` |

They rest on the named assumptions of `ExecutorHop`: jobs are a finite set
disjoint from the strays, slots are positive. `WebSlots <= BoxSlots` holds of a
deployment because both containers read their number from
`EXECUTOR_MAX_CONCURRENT` (`settings.py:203`, `executor/app.py:171`); where
they were given different ones, the statement is not claimed.

*The inductive invariant.* `DirKeptInFlight` cannot be shown from one step to
the next: a removal is decided two steps before it happens. `AgeInv` carries
what is needed across that gap: while a request is on its way to the sandbox its
directory is not aged and was not seen aged, so that a removal the sandbox has
decided on is never of a job it then accepts. `ActiveInv` says that each
side's active set covers what that side may lose; `TaskInv` and `NotPostedInv`
relate a call's place to what the sandbox knows of its job; `ResultInv` relates
what a call returns to what its job did, which is what the refinement needs.
The lemmas `FlowStep` (calls and tasks) and `VolumeStep` (directories and
sweeps) prove the halves of the induction, one step per action.

*Slots.* `SlotsBalanced` counts: `HoldersMove` and `RunningMove` say how the
cardinality of the holders changes with one call or task, and the crash steps
reset both sides of the equation at once. `QueuesBehindAbandoned` is a second
use of the count: were every running job still awaited, their dispatchers and
the caller itself would hold more slots of the gate than there are.

*Refinement.* Every step of the hop is a step of the contract or a stutter;
`WebCrash` is `Lose`, `StartJob` is `Run`, `AcquireGate` is `Enter` because
`SlotsBalanced` turns a free slot into room among the calls inside.

`JobRunner_proofs` proves, for every set of jobs and strays and every number of
passes:

| Theorem | Statement |
|---|---|
| `TypeCorrect` | `Spec => []TypeOK`, for every number of slots |
| `ResponsesReachTheCaller` | `Slots = 1`: `Spec => []ResponseNotLost` |
| `KilledIsMemory` | `Slots = 1`: `Spec => []KilledMeansKernel` |
| `JobsRunAlone` | `Slots = 1`: `Spec => []RunsAlone` |
| `OneSlotSweepsNoRunner` | `Slots = 1`: `Spec => []SweptIsNeverKilled` |

One slot is the default of `EXECUTOR_MAX_CONCURRENT`; a higher limit is
"documented as forfeiting the isolation" (`executor/app.py:980`). Of the
generated code nothing is assumed: what it can do to a pass of the sweep, and a
spawn that is abandoned, is in `loose`, and the three statements are of every
job outside it. That `Slots = 1`
is needed shows in the last theorem: with two slots TLC finds a runner swept and
reported `killed` (`MCJobRunnerKilled.cfg`).

*The inductive invariant.* `OneJob` says that one slot leaves one job between
entering and leaving. `ExitInv` says that a job that sweeps without having
timed out has already reaped its runner, so the sweep's signals cannot be what
ended it. `SeenInv` is what a pass knows between reading `/proc` and reading the
statuses: whatever it did not list is over, or a listed process that started
another one is still there to be found, or its job is in `loose`. A pass that
finds nothing therefore leaves nothing of the other jobs, `QuietInv` carries
that to the next job, and `WaitInv` through its run.

`ShareLedger_proofs` proves, for every set of chats, conversations and
dashboards:

| Theorem | Statement |
|---|---|
| `TypeCorrect` | `Spec => []TypeOK` |
| `Invariance` | `Spec => []LedgerInv` |
| `RecordsAreLive` | `Spec => []ConvRecordsAreLive` |
| `ChatSharesAreKept` | `Spec => ChatShareIsKept` |
| `NeededAccessStays` | `Spec => NeededAccessIsKept` |

They rest on the two assumptions of `ShareLedger`: every conversation has a
chat, and the deletable dashboards are dashboards. So the one chat of the run
`Ledger` is no restriction.

*The inductive invariant.* `ConvRecordsAreLive` is inductive with the types;
the case that matters is a conversation unshare which leaves `conv_granted`
alone because another conversation of the chat is still recorded.
`ChatShareIsKept` needs more, since an unshare acts on a record written long
before: `OnPurposeInv` says that a chat shared on purpose is in no record, nor
among what a running handler is about to record or to revoke, and `GoneInv`
that Share Chat, which clears the records of the docs it finds, misses none.
`RevokingInv` carries the need of other dashboards from the section that
selects the chats to revoke to the one that revokes them: between the two only
threads run, and they can only take needs away. `WhoTakesOff` then names the
steps by which a chat can leave the list, and both action properties follow.

`TableRegistry_proofs` proves, for every number of table ids and
administrators and every number of data versions:

| Theorem | Statement |
|---|---|
| `TypeCorrect` | `Spec => []TypeOK` |
| `RecommendationTracks` | `Spec => []RecTracksRegistry` |
| `DecisionStands` | `Spec => []DismissalStands` |
| `RefreshKeepsTheRow` | `Spec => RefreshLeavesTheRow` |
| `FingerprintsHaveSnapshots` | `Spec => []FingerprintHasItsSnapshot` |
| `MomentsFireOnce` | `SchedulerSpec => NoMomentFiresTwice` |

*The argument.* `TInv` adds to the types where a request may stand (`Busy`).
`RecInv` joins the two statements about the recommendation: what every write
of the registry does to it is one lemma about `Reconciled`, and each writer is
then an instance of it. For the fingerprint the invariant has to say what a
refresh carries across its awaits: `SoloInv` that outside `tainted` a table
has one refresh in flight, `FpInv` that the fingerprint it took is not newer
than the data it read, nor that than the parquet it swapped in.

`MomentsFireOnce` is about `RefreshScheduler`, for every set of tables, period,
stale age and number of edits and crashes. `CreditInv` says that whatever is owed has a
moment that passed and was not yet fired for: in the stored stamps, in the copy
of them a run at the lock's wait holds, and among the tables found late at the
start of a round, unless its last stamp could not be written (`unwritten`).
The copy is the case that matters: it is written back after others may have
fired.

`AccountSessions_proofs` proves, for every number of addresses, identities,
browsers, administrators, generations, links and faults:

| Theorem | Statement |
|---|---|
| `TypeCorrect` | `Spec => []TypeOK` |
| `CacheTracksRecord` | `Spec => []CacheIsRecord` |
| `RefusalIsFinal` | `Spec => EndedStaysEnded` |
| `DeadLinksStayDead` | `Spec => []SpentLinksStayDead` |
| `IdentityIsOneAccount` | `Spec => []OneAccountPerIdentity` |
| `SsoOnlyKeepsNoPassword` | `Spec => SsoOnlyStaysPasswordless` |

and about `AuthLimiter`, for every set of addresses and peers and every value
of its settings:

| Theorem | Statement |
|---|---|
| `GuessingIsBounded` | `LimiterSpec => []GuessesAreBounded` |
| `PeerIsCounted` | `LimiterSpec => []PeerCountIsExact` |
| `LockedKeysGoLast` | `LimiterSpec => LockoutOutlivesSpray` |

*The argument for the accounts.* Types come first (`TInv`: `TypeOK` and where a handler or the
sender may stand). `StoreSteps`, `LoopSteps` and `InviteSteps` then summarize the actions: a
step changes the record of at most one address, in one of thirteen ways, and
everything after argues about those ways and not about forty actions.
`GInv` says that every generation in a record, in the cache or in a cookie was issued,
that the cache is the record, and that no two addresses share one; a
generation issued later equals none of them, so a refused cookie stays
refused. `IdInv` carries the lookup of an identity to its binding: while a
handler is about to bind, no other account holds that identity, because the
event loop is its own. `LinkInv` places every link the system still remembers
(in a record, in a handler, in an invitation to be rolled back), and `DeadInv`
says that a remembered link which is spent is marked used or can no longer be
put back. `SsoInv` excludes that a Microsoft-only account stands between the check of a link
and its use.

*The argument for the limiter.* `IsSpace` says that a space holds a key once, and an
empty entry for each key it does not hold. The lemmas on `Pruned`, `Without`,
`Victim`, `Create` and `Lookup` say what each keeps of that and of the other
keys' entries. `AddrCounts` and `PeerCounts` say that the failures an entry
counts are the wrong guesses of the window; `Earned`, that an entry never has
more failures than guesses behind it and no wait without `Threshold` of them,
which is why `Victim` takes a locked key last. `Bounded` is the strengthening
the bound on guesses needs: a full entry is locked until its last failure has
left the window, so that a next failure finds it emptied. For that the lockout must be as long as
the window, which is the condition inside `GuessesAreBounded`; the shipped
settings (900 s each) meet it.

`FrameCache_proofs` proves, for every number of files, tables, sheets and
changes, with no assumption on the constants but those written in the theorem:

| Theorem | Statement |
|---|---|
| `TypeCorrect` | `Spec => []TypeOK` |
| `TablesStayCurrent` | no name is a file and a table: `Spec => []TablesInMemoryAreCurrent`, for any number of loaders |
| `OnlyOverlapsGoStale` | `Spec => []OnlyOverlapsStale`, for any number of loaders |

*The argument.* Frames are `Fresh` as of a stat when it is not in the future
and, if it is the source's present one, they are its present content.
`FreshSurvives` says that no step takes that away, whatever happens to the
source; so it is enough that frames are filed under a stat taken before they
were read. For the tables that is `TablesFresh` alone: a snapshot has no copy on
disk to write. For files, `FileFresh` follows one file's load: what it holds is
fresh as of its stat. The copies on disk are where loads meet. `RewriteFresh`
says that what a rebuild writes is fresh under the manifest that stands meanwhile,
and that each entry is still to be written or already its own; `ReadBeside`,
that it is fresh for a reader of the old manifest, too; `Apart`, that two
rebuilds of one file are both `Spoilt`: the file changed since the stat, so that
the manifest will select nothing, or is in `raced`. That last
case is the one in which `MemoryIsCurrent` and `DiskIsCurrent` themselves fail
(`MCFrameCacheRebuild.cfg`), and outside `raced` the theorem states both.

`ChatTurns_proofs` proves, for every number of turns, conversations, codes and
events:

| Theorem | Statement |
|---|---|
| `TypeCorrect` | `Spec => []TypeOK` |
| `ShownCodesAreFound` | `Spec => []CodeShownIsStored` |
| `MarksOutliveWrites` | `Spec => []UnmarkedIsSaved` |

*The inductive invariant.* Types already need a count: an entry of the
registry of codes is a number that turns add to and take from, and it never
goes below zero because it is the cardinality of the shares the turns hold
(`CountInv`, with `PlaceInv` for where a turn holds none). `ShownInv` follows each
code a browser was shown: it is in the registry while its turn works, and in
the history once the turn wrote it, unless the conversation was cut or the turn
`dropped` its answer for a Stop.
`LookupInv` carries that across the lookup's two reads, the registry first
and the files after it, between which the turn may store the code and give up
its share. `MarkInv` says that a working turn is marked until it clears its
mark, and that two turns of one conversation know of each other (`shared`).

`PlannerLoop_proofs` proves, for every set of live tables, SELECTs and codes
and every one of the loop's caps:

| Theorem | Statement |
|---|---|
| `TypeCorrect` | `Spec => []TypeOK` |
| `RunsMatchQueries` | `Spec => []RunsOnItsQuery` |
| `FailedSelectsStand` | `Spec => FailedSelectStands` |

*The argument.* `RoomInv` bounds the charts a worklist can still produce.
`LiveSteps` names the few ways a step can change what the turn keeps of live
tables, and both invariants argue about those. `QInv` says that a fetched frame
came from the SELECT now named for its table, and that a filtered table is never
read by a SELECT of the planner's. `OwedInv` says that a SELECT that failed is
still the one named for its table and still remembered as refused, until the
planner names another.

**Left to TLC.** Liveness under fairness cannot be proved with the installed
provers: `EveryCallReturns`, `DirsEventuallyGone` (`HopLive`),
`EveryMomentIsFired`, `LockIsReclaimed` (`Schedule`), `MarksAreCleared`
(`Turns`), `TurnEnds` (`Planner`). Everything about a `JobRunner` with more than
one slot but its types is model-checked only, and false where section 3
says so.

## 5. Plan

Done: the inventory; every module of section 2, its runs, and proofs of every
invariant and action property they check.

Next, in this order:

1. What holds of `JobRunner` with several slots: which of its statements
   survive when a sweep may meet a neighbour's runner.
2. An abstract specification of a refresh (the row's fingerprint is never
   ahead of its snapshot), implemented by `TableRegistry` outside `tainted`.
3. The removal of a connection with its tables in `TableRegistry`.

Not modelled, and not planned: analysis, narrative, report and plot code
(sequential work on data frames), SQL generation and drivers, code checking and
sanitizing (syntax-directed), roles (a lookup), the HTTP client of the brain, the browser front end,
diagnostics. Together these are most of the repository's lines and have no
state that two actors meet at.
