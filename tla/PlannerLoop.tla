---------------------------- MODULE PlannerLoop ----------------------------
(***************************************************************************)
(* One turn of the planner loop (run_chat_local.py): the brain plans code, *)
(* the live tables the code names are fetched, the sandbox runs it, and    *)
(* what fails or may not be shown goes back to the brain. A plan of chart  *)
(* blocks is a worklist whose items may be sent back, doubled or dropped   *)
(* (run_chat_multi_plot); any other plan runs one code                     *)
(* (_run_single_from_plan).                                                *)
(*                                                                         *)
(* The brain and the sandbox are the environment: any reply, any outcome.  *)
(* Of a code the model keeps the live tables it names, of a table the      *)
(* query its frame came from. What an answer says is left out.             *)
(***************************************************************************)
EXTENDS Integers, FiniteSets, Sequences

CONSTANTS
  Keys,         \* the chat's live tables
  Filtered,     \* those an administrator filtered: default read only
  Selects,      \* queries the planner may send
  Default,      \* the default read
  Code,         \* the codes: of each, the live tables it names
  MaxRetries,   \* 3: retries after an execution error
  MaxPlots,     \* _MAX_MULTI_PLOTS
  MaxBlocks,    \* _MAX_MULTI_PLOT_CANDIDATES
  MaxTables,    \* _MAX_MIXED_TABLE_BLOCKS
  MaxRegen,     \* 1: _MAX_MULTI_AXES_RETRY, _MAX_PLOTLY_REGEN, _MAX_MATRIX_REGEN
  MaxParts      \* bound: blocks of one reply, axes of one figure

ASSUME ConstantsAssumption ==
  /\ Filtered \subseteq Keys /\ Code \subseteq SUBSET Keys
  /\ Default \notin Selects
  /\ MaxRetries \in Nat /\ MaxPlots \in Nat \ {0} /\ MaxBlocks \in Nat
  /\ MaxTables \in Nat /\ MaxRegen \in Nat /\ MaxParts \in Nat \ {0}

VARIABLES
  at,       \* where the generator is
  flow,     \* "multi" or "single"
  work,     \* the deque of chart items
  item,     \* the item under way
  tables,   \* table blocks still to run
  out,      \* the item's outcome so far (plot_out / exec_out)
  came,     \* what the last attempt came back with
  retries,  \* retry_count
  produced, \* charts emitted
  live,     \* the turn's live state
  next,     \* the code about to run
  goal,     \* and where its outcome is looked at
  owed      \* history: tables whose SELECT failed and was not replaced since

loopVars == <<flow, work, item, tables, out, retries, produced>>
vars == <<at, loopVars, came, live, next, goal, owed>>

Queries == Selects \cup {Default}
Sent == [Keys -> Queries]

\* An item of the deque: its code, and how often it was sent back for its
\* axes, for interactivity, for its encoding.
Fresh(code) == [code |-> code, axes |-> 0, plotly |-> 0, matrix |-> 0]
NoItem == Fresh({})

(***************************************************************************)
(* Outcomes of an attempt: a chart that may be shown, one with several     *)
(* axes, a static one, a number grid; a result without a picture; an error *)
(* of the code; a fetch that failed; a role that no longer covers a table; *)
(* the sandbox's own failure.                                              *)
(***************************************************************************)
Ran == {"ok", "axes", "static", "matrix", "bare", "error"}
Outcomes == Ran \cup {"live", "denied", "outage"}

\* No rewrite of the code can help.
EndsTheTurn(o) == o \in {"denied", "outage"}

\* plot_out["error"]: several axes are one in the single flow only.
Wrong(o) == \/ o \in {"error", "live", "denied", "outage"}
            \/ o = "axes" /\ flow = "single"

-----------------------------------------------------------------------------
(***************************************************************************)
(* The live state: sql is sql_map, fetched and used are fetched and        *)
(* sql_used, read the keys of live_rows, refused is failed_sql; frame is   *)
(* the query the frame in place came from.                                 *)
(***************************************************************************)
NoLive == [sql |-> [k \in Keys |-> Default], fetched |-> {}, read |-> {},
           refused |-> [k \in Keys |-> Default], used |-> [k \in Keys |-> Default],
           frame |-> [k \in Keys |-> Default]]

Named(sent) == {k \in Keys : sent[k] # Default}

\* Mutant: a new SELECT leaves the frame in place.
MergedKept(sent) ==
  [live EXCEPT !.sql = [k \in Keys |-> IF k \in Named(sent) THEN sent[k] ELSE @[k]],
               !.refused = [k \in Keys |-> IF k \in Named(sent) THEN Default ELSE @[k]]]

\* _merge_retry_sql: each SELECT of a reply replaces the one known, drops its
\* table from `fetched` and from the failed ones.
Merged(sent) ==
  [live EXCEPT !.sql = [k \in Keys |-> IF k \in Named(sent) THEN sent[k] ELSE @[k]],
               !.fetched = @ \ Named(sent),
               !.refused = [k \in Keys |-> IF k \in Named(sent) THEN Default ELSE @[k]]]

\* A reply of the brain that carries these SELECTs.
Replied(sent) == live' = Merged(sent) /\ owed' = owed \ Named(sent)

\* The attempt, the item, the block is over: what was noted about it is stale.
Forgets == next' = {} /\ goal' = "code" /\ came' = "ok"
Leaves(where) == /\ at' = where /\ Forgets
                 /\ item' = NoItem /\ out' = "ok" /\ retries' = 0
kept == <<flow, work, tables, produced, live, owed>>

\* Fetch what `code` names, run it, come back to `where`.
Runs(code, where) == at' = "ensure" /\ next' = code /\ goal' = where

\* The item's own code is judged at once; other attempts are looked at first.
Comes(outcome) ==
  /\ \/ goal = "code" /\ at' = "judge" /\ out' = outcome /\ Forgets
     \/ goal # "code" /\ at' = goal /\ came' = outcome /\ UNCHANGED <<out, next, goal>>
  /\ UNCHANGED <<flow, work, item, tables, retries, produced>>

\* What a table is read with: never a SELECT behind an administrator's filter.
QueryOf(k) == IF k \in Filtered THEN Default ELSE live.sql[k]

\* A filtered table is read once a turn: a SELECT sent for it only dropped it
\* from `fetched`.
Held(k) == k \in Filtered \cap live.read

\* Mutant: a SELECT that failed may run again.
AgainNever(k) == FALSE

\* The SELECT that failed before and was not replaced.
Again(k) == QueryOf(k) # Default /\ live.refused[k] = QueryOf(k)

Missing == next \ live.fetched

\* _ensure_live, one referenced table at a time, before every executor call.
RoleDenies ==
  /\ at = "ensure" /\ Missing # {}
  /\ Comes("denied")
  /\ UNCHANGED <<live, owed>>

KeepsFrame(k) ==
  /\ at = "ensure" /\ k \in Missing /\ Held(k)
  /\ live' = [live EXCEPT !.fetched = @ \cup {k}]
  /\ UNCHANGED <<at, loopVars, came, next, goal, owed>>

RefusesAgain(k) ==
  /\ at = "ensure" /\ k \in Missing /\ ~Held(k) /\ Again(k)
  /\ Comes("live")
  /\ UNCHANGED <<live, owed>>

Reads(k) == at = "ensure" /\ k \in Missing /\ ~Held(k) /\ ~Again(k)

Fetches(k) ==
  /\ Reads(k)
  /\ live' = [live EXCEPT !.fetched = @ \cup {k}, !.read = @ \cup {k},
                          !.used[k] = QueryOf(k), !.frame[k] = QueryOf(k)]
  /\ UNCHANGED <<at, loopVars, came, next, goal, owed>>

\* Refused by the guard or failed in the database; a query the guard refused
\* did not run and is not recorded as used.
FetchFails(k, guard) ==
  /\ Reads(k)
  /\ live' = [live EXCEPT !.used[k] = IF guard THEN Default ELSE QueryOf(k),
                          !.refused[k] = QueryOf(k)]
  /\ owed' = IF QueryOf(k) = Default THEN owed ELSE owed \cup {k}
  /\ Comes("live")

\* render_plot_safe or safe_execute, with every frame in place.
Dispatches(outcome) ==
  /\ at = "ensure" /\ Missing = {}
  /\ outcome \in Ran \cup {"outage"}
  /\ Comes(outcome)
  /\ UNCHANGED <<live, owed>>

-----------------------------------------------------------------------------
(***************************************************************************)
(* The plan                                                                *)
(***************************************************************************)

\* Chart blocks (a lone PLOT_CODE is a worklist of one), with table blocks
\* taken out of them; the candidates are capped before the loop.
PlansCharts(sent, codes, tabs) ==
  /\ at = "plan"
  /\ flow' = "multi"
  /\ work' = [i \in 1..(IF Len(codes) > MaxBlocks THEN MaxBlocks ELSE Len(codes)) |->
                Fresh(codes[i])]
  /\ tables' = SubSeq(tabs, 1, IF Len(tabs) > MaxTables THEN MaxTables ELSE Len(tabs))
  /\ at' = "next"
  /\ Replied(sent)
  /\ UNCHANGED <<item, out, retries, produced, came, next, goal>>

PlansSingle(sent, code) ==
  /\ at = "plan"
  /\ flow' = "single"
  /\ item' = Fresh(code)
  /\ Runs(code, "code")
  /\ Replied(sent)
  /\ UNCHANGED <<work, tables, out, retries, produced, came>>

\* Prose, a greeting, NO_CODE: nothing runs.
PlansProse ==
  /\ at = "plan"
  /\ at' = "done"
  /\ UNCHANGED <<loopVars, came, live, next, goal, owed>>

-----------------------------------------------------------------------------
(***************************************************************************)
(* The worklist                                                            *)
(***************************************************************************)

\* Mutant: the cap is looked at one chart too late.
MoreChartsByOne == work # <<>> /\ produced <= MaxPlots

MoreCharts == work # <<>> /\ produced < MaxPlots

TakesItem ==
  /\ at = "next" /\ MoreCharts
  /\ item' = Head(work)
  /\ work' = Tail(work)
  /\ retries' = 0
  /\ Runs(Head(work).code, "code")
  /\ UNCHANGED <<flow, tables, out, produced, came, live, owed>>

ChartsAreOver ==
  /\ at = "next" /\ ~MoreCharts
  /\ at' = "tables"
  /\ UNCHANGED <<loopVars, came, live, next, goal, owed>>

\* The error loop of both flows: only while retries are left is the outcome
\* looked at for an outage or a denial.
Retryable == Wrong(out) /\ retries < MaxRetries

EndsHere ==
  /\ at = "judge" /\ Retryable /\ EndsTheTurn(out)
  /\ Leaves(IF flow = "multi" THEN "narrative" ELSE "done")
  /\ UNCHANGED kept

AsksAgain == at = "judge" /\ Retryable /\ ~EndsTheTurn(out)

\* Prose or no code is a failed attempt; the old outcome stays.
RetryGivesNoCode(sent) ==
  /\ AsksAgain
  /\ retries' = retries + 1
  /\ Replied(sent)
  /\ UNCHANGED <<at, flow, work, item, tables, out, produced, came, next, goal>>

\* A rewrite of the code replaces it.
RetryGivesCode(sent, code) ==
  /\ AsksAgain
  /\ retries' = retries + 1
  /\ item' = [item EXCEPT !.code = code]
  /\ Runs(code, "code")
  /\ Replied(sent)
  /\ UNCHANGED <<flow, work, tables, out, produced, came>>

\* A chart rewritten as analysis code is tried beside the chart's own.
RetryGivesPython(sent, code) ==
  /\ AsksAgain /\ flow = "multi"
  /\ retries' = retries + 1
  /\ Runs(code, "python")
  /\ Replied(sent)
  /\ UNCHANGED <<flow, work, item, tables, out, produced, came>>

\* Accepted only with a picture; another failure leaves the chart's as it was.
PythonIsBack ==
  /\ at = "python"
  /\ \/ /\ came \in {"ok", "static", "matrix"}
        /\ item' = [item EXCEPT !.code = next]
        /\ out' = came
        /\ at' = "shape"
        /\ Forgets /\ UNCHANGED retries
     \/ EndsTheTurn(came) /\ Leaves("narrative")
     \/ /\ came \notin {"ok", "static", "matrix"} /\ ~EndsTheTurn(came)
        /\ at' = "judge"
        /\ Forgets /\ UNCHANGED <<item, out, retries>>
  /\ UNCHANGED kept

\* Every retry failed: the block is skipped.
SkipsBlock ==
  /\ at = "judge" /\ Wrong(out) /\ ~Retryable
  /\ Leaves(IF flow = "multi" THEN "next" ELSE "done")
  /\ UNCHANGED kept

Rendered ==
  /\ at = "judge" /\ ~Wrong(out)
  /\ at' = "shape"
  /\ UNCHANGED <<loopVars, came, live, next, goal, owed>>

-----------------------------------------------------------------------------
(***************************************************************************)
(* One figure per chart, interactive, readable: each sent back at most so  *)
(* often.                                                                  *)
(***************************************************************************)

Shaping(o) == at = "shape" /\ flow = "multi" /\ out = o

SentBack(o) == /\ Shaping(o)
               /\ CASE o = "axes" -> item.axes < MaxRegen
                    [] o = "static" -> item.plotly < MaxRegen
                    [] o = "matrix" -> item.matrix < MaxRegen

\* The reply splits the figure into blocks of their own, at the end of the deque.
RegeneratesAxes(sent, codes) ==
  /\ SentBack("axes")
  /\ work' = work \o [i \in 1..Len(codes) |->
                        [item EXCEPT !.code = codes[i], !.axes = @ + 1]]
  /\ Leaves("next")
  /\ Replied(sent)
  /\ UNCHANGED <<flow, tables, produced>>

\* No code came, or none may be asked for any more: split the figure itself.
SplitsFigure(sent) ==
  /\ Shaping("axes")
  /\ SentBack("axes") \/ Named(sent) = {}
  /\ Runs(item.code, "split")
  /\ Replied(sent)
  /\ UNCHANGED <<loopVars, came>>

\* One chart per axis, up to the cap, or the whole group dropped as a
\* duplicate; an attempt that gave no axes is dropped in silence.
SplitIsBack(parts) ==
  /\ at = "split"
  /\ \/ /\ came = "axes"
        /\ produced' = IF produced + parts > MaxPlots THEN MaxPlots ELSE produced + parts
     \/ produced' = produced
  /\ Leaves("next")
  /\ UNCHANGED <<flow, work, tables, live, owed>>

\* Mutant: a redraw starts with no redraws counted.
RedrawnAfresh(code) == Fresh(code)

Redrawn(code) == [item EXCEPT !.code = code,
                              !.plotly = IF out = "static" THEN @ + 1 ELSE @,
                              !.matrix = IF out = "matrix" THEN @ + 1 ELSE @]

\* A static chart or a grid is redrawn next.
RedrawsChart(sent, code) ==
  /\ SentBack("static") \/ SentBack("matrix")
  /\ work' = <<Redrawn(code)>> \o work
  /\ Leaves("next")
  /\ Replied(sent)
  /\ UNCHANGED <<flow, tables, produced>>

\* No redraw came: the chart is kept, a static one may still be a grid.
KeepsChart(sent, as) ==
  /\ SentBack("static") \/ SentBack("matrix")
  /\ as \in IF out = "static" THEN {"ok", "matrix"} ELSE {"ok"}
  /\ out' = as
  /\ Replied(sent)
  /\ UNCHANGED <<at, flow, work, item, tables, retries, produced, came, next, goal>>

Final == /\ at = "shape" /\ flow = "multi" /\ out # "axes"
         /\ ~SentBack("static") /\ ~SentBack("matrix")

EmitsChart ==
  /\ Final
  /\ produced' = produced + 1
  /\ Leaves("next")
  /\ UNCHANGED <<flow, work, tables, live, owed>>

\* A chart without variance goes if another was shown or may still be, a
\* duplicate if its like was shown.
DropsChart ==
  /\ Final
  /\ produced >= 1 \/ work # <<>>
  /\ Leaves("next")
  /\ UNCHANGED kept

\* The single flow composes its answer.
AnswersSingle ==
  /\ at = "shape" /\ flow = "single"
  /\ Leaves("done")
  /\ UNCHANGED kept

-----------------------------------------------------------------------------
(***************************************************************************)
(* Table blocks, the narrative, the end                                    *)
(***************************************************************************)

TakesTable ==
  /\ at = "tables" /\ tables # <<>>
  /\ tables' = Tail(tables)
  /\ Runs(Head(tables), "table")
  /\ UNCHANGED <<flow, work, item, out, retries, produced, came, live, owed>>

TableIsBack ==
  /\ at = "table"
  /\ Leaves(IF EndsTheTurn(came) THEN "narrative" ELSE "tables")
  /\ UNCHANGED kept

TablesAreOver ==
  /\ at = "tables" /\ tables = <<>>
  /\ at' = "narrative"
  /\ UNCHANGED <<loopVars, came, live, next, goal, owed>>

\* The narrative, with at most one retry of it that may raise or time out
\* without ending the turn and whose code never runs; then the done event.
Finishes ==
  /\ at = "narrative"
  /\ at' = "done"
  /\ UNCHANGED <<loopVars, came, live, next, goal, owed>>

\* A call the brain does not answer ends the generator. A table's text is the
\* exception: what its block raises is logged.
BrainRaises ==
  /\ \/ at = "plan" \/ AsksAgain \/ at = "shape"
     \/ at = "split" /\ came = "axes"
  /\ Leaves("raised")
  /\ UNCHANGED kept

-----------------------------------------------------------------------------
Init ==
  /\ at = "plan" /\ flow = "multi"
  /\ work = <<>> /\ tables = <<>>
  /\ item = NoItem /\ out = "ok" /\ came = "ok"
  /\ retries = 0 /\ produced = 0
  /\ live = NoLive
  /\ next = {} /\ goal = "code"
  /\ owed = {}

Replies == UNION {[1..n -> Code] : n \in 1..MaxParts}

Next ==
  \/ \E sent \in Sent :
       \/ \E codes \in Replies, tabs \in Replies \cup {<<>>} : PlansCharts(sent, codes, tabs)
       \/ \E code \in Code : \/ PlansSingle(sent, code)
                             \/ RetryGivesCode(sent, code)
                             \/ RetryGivesPython(sent, code)
                             \/ RedrawsChart(sent, code)
       \/ RetryGivesNoCode(sent)
       \/ \E codes \in Replies : RegeneratesAxes(sent, codes)
       \/ SplitsFigure(sent)
       \/ \E as \in {"ok", "matrix"} : KeepsChart(sent, as)
  \/ PlansProse
  \/ RoleDenies
  \/ \E k \in Keys : \/ KeepsFrame(k) \/ RefusesAgain(k) \/ Fetches(k)
                     \/ \E guard \in BOOLEAN : FetchFails(k, guard)
  \/ \E outcome \in Outcomes : Dispatches(outcome)
  \/ TakesItem \/ ChartsAreOver \/ EndsHere \/ PythonIsBack \/ SkipsBlock \/ Rendered
  \/ \E parts \in 1..MaxParts : SplitIsBack(parts)
  \/ EmitsChart \/ DropsChart \/ AnswersSingle
  \/ TakesTable \/ TableIsBack \/ TablesAreOver \/ Finishes
  \/ BrainRaises

Spec == Init /\ [][Next]_vars

\* The generator's thread is scheduled, and each of its waits has a timeout.
FairSpec == Spec /\ WF_vars(Next)

-----------------------------------------------------------------------------
Places == {"plan", "next", "ensure", "judge", "python", "split", "shape", "tables",
           "table", "narrative", "done", "raised"}

ItemType == [code : Code \cup {{}}, axes : 0..MaxRegen, plotly : 0..MaxRegen, matrix : 0..MaxRegen]

\* Types; no more charts than the cap, no more regenerations than allowed.
TypeOK ==
  /\ at \in Places /\ flow \in {"multi", "single"}
  /\ work \in Seq(ItemType) /\ item \in ItemType
  /\ tables \in Seq(Code) /\ Len(tables) <= MaxTables
  /\ out \in Outcomes /\ came \in Outcomes
  /\ retries \in 0..MaxRetries /\ produced \in 0..MaxPlots
  /\ live \in [sql : Sent, fetched : SUBSET Keys, read : SUBSET Keys, refused : Sent,
               used : Sent, frame : Sent]
  /\ next \in Code \cup {{}} /\ goal \in {"code", "python", "split", "table"}
  /\ owed \in SUBSET Keys

(***************************************************************************)
(* When a code runs, the frame of every live table it names came from the  *)
(* planner's latest SELECT for that table, or from the default read where  *)
(* none was sent or an administrator filters the table, and sql_used says  *)
(* so: a retry's SELECT may arrive after the table was read for another    *)
(* block.                                                                  *)
(***************************************************************************)
RunsOnItsQuery ==
  (at = "ensure" /\ Missing = {}) =>
     \A k \in next : /\ k \in live.read
                     /\ live.frame[k] = QueryOf(k)
                     /\ live.used[k] = QueryOf(k)

\* No table of `owed` is read in this step, in place of its SELECT or with it.
FailuresStand == \A k \in owed : /\ k \notin live'.read \ live.read
                                /\ live'.frame[k] = live.frame[k]
                                /\ ~(Reads(k) /\ live' # live)

(***************************************************************************)
(* "A SELECT that failed is never re-run and never replaced by a default   *)
(* read until the planner sends a new one", over every retry and block of  *)
(* the turn.                                                               *)
(***************************************************************************)
FailedSelectStands == [][FailuresStand]_vars

(***************************************************************************)
(* Whatever the brain and the sandbox answer, the turn ends: every way     *)
(* back into the worklist is counted.                                      *)
(***************************************************************************)
TurnEnds == <>(at \in {"done", "raised"})
=============================================================================
