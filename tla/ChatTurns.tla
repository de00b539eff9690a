----------------------------- MODULE ChatTurns -----------------------------
(***************************************************************************)
(* The turns of one chat (routes/chat.py): the streaming worker that       *)
(* answers a question, edit-regenerate, Stop, and the lookup that decides  *)
(* whether a code the browser posts back is code the chat holds.           *)
(*                                                                         *)
(* What they share: a conversation's rows (a .jsonl file nothing locks),   *)
(* the set of conversations being answered, the set of conversations told  *)
(* to stop, and the counted registry of the codes of turns under way.      *)
(* Every route handler runs on the one event loop: between two awaits it   *)
(* is alone with respect to other handlers, never with respect to worker   *)
(* threads and to the lookups of the pool.                                 *)
(***************************************************************************)
EXTENDS Integers, FiniteSets, Sequences

CONSTANTS Turns, Convs, Codes, None, MaxEvents

ASSUME NoneAssumption == None \notin Turns \cup Codes /\ MaxEvents \in Nat

VARIABLES
  hist,        \* conversation |-> its rows
  generating,  \* _INPROGRESS_CONVS
  cancel,      \* _CANCEL_CONVS
  inflight,    \* _INFLIGHT_CODES of this chat: code |-> count
  turn,        \* what each turn's handler and worker are at
  loop,        \* the turn whose handler holds the event loop, or None
  lookup,      \* one code_is_stored call
  cut          \* history: conversations an edit has rewritten

vars == <<hist, generating, cancel, inflight, turn, loop, lookup, cut>>

Stages == {"idle", "load", "response", "run", "queue", "boundary", "persist",
           "drop", "unmark", "clear", "over",
           "open", "write", "reload", "blocking", "append", "index", "reply"}

Row == [turn : Turns, ai : BOOLEAN, codes : SUBSET Codes]

(***************************************************************************)
(* conv, charts (what was streamed), held (its share of the registry),     *)
(* kept (the rows an edit keeps), next and single (w_single: a one-shot    *)
(* answer has arrived) are the code's; failed and saved are how it ended;  *)
(* shown is what its browser holds. told, dropped and shared are history:  *)
(* a Stop came while the worker could still obey it (kept until its row is *)
(* written); its one-shot answer was dropped for a Stop; another worker of *)
(* the same conversation overlapped it.                                    *)
(***************************************************************************)
Idle == [at |-> "idle", conv |-> None, next |-> None, charts |-> {}, shown |-> {},
         held |-> [x \in Codes |-> 0], kept |-> <<>>, events |-> 0,
         single |-> FALSE, failed |-> FALSE, saved |-> FALSE, told |-> FALSE,
         dropped |-> FALSE, shared |-> FALSE]

NoLookup == [at |-> "idle", turn |-> None, code |-> None, unread |-> {}]

\* A worker thread is between its start clear and its final clear.
Working(t) == turn[t].at \in {"run", "queue", "boundary", "persist", "drop",
                              "unmark", "clear"}

Human(t) == [turn |-> t, ai |-> FALSE, codes |-> {}]
Answer(t, codes) == [turn |-> t, ai |-> TRUE, codes |-> codes]

\* append_history: one line at the end of the file, under no lock.
Appended(c, row) == [hist EXCEPT ![c] = Append(@, row)]

\* Other handlers wait for the loop; worker threads do not.
LoopFree == loop = None

Goes(t, at) == turn' = [turn EXCEPT ![t].at = at]

-----------------------------------------------------------------------------
(***************************************************************************)
(* chat_stream                                                             *)
(***************************************************************************)

\* The checks passed; the handler awaits the frames, schema and profiles.
Ask(t, c) ==
  /\ LoopFree
  /\ turn[t] = Idle
  /\ turn' = [turn EXCEPT ![t].at = "load", ![t].conv = c]
  /\ UNCHANGED <<hist, generating, cancel, inflight, loop, lookup, cut>>

\* No data in the chat: nothing was appended yet.
AskRefused(t) ==
  /\ LoopFree
  /\ turn[t].at = "load"
  /\ Goes(t, "over")
  /\ UNCHANGED <<hist, generating, cancel, inflight, loop, lookup, cut>>

\* The question's row is written before the conversation is marked.
AskAppends(t) ==
  /\ LoopFree
  /\ turn[t].at = "load"
  /\ hist' = Appended(turn[t].conv, Human(t))
  /\ Goes(t, "response")
  /\ UNCHANGED <<generating, cancel, inflight, loop, lookup, cut>>

\* The browser is gone before the response body is first pulled: the worker
\* is started by that pull, so the question stays without an answer.
NeverPulled(t) ==
  /\ LoopFree
  /\ turn[t].at = "response"
  /\ Goes(t, "over")
  /\ UNCHANGED <<hist, generating, cancel, inflight, loop, lookup, cut>>

\* _clear_cancel, _mark_generating: the worker's first two lock sections.
WorkerStarts(t) ==
  LET c == turn[t].conv
      others == {u \in Turns \ {t} : Working(u) /\ turn[u].conv = c}
  IN  /\ turn[t].at = "response"
      /\ cancel' = cancel \ {c}
      /\ generating' = generating \cup {c}
      /\ turn' = [u \in Turns |->
                    IF u = t THEN [turn[t] EXCEPT !.at = "run",
                                                  !.shared = others # {}]
                    ELSE [turn[u] EXCEPT !.shared = @ \/ u \in others]]
      /\ UNCHANGED <<hist, inflight, loop, lookup, cut>>

\* Mutant: the registry as a set: a code registered twice is there once.
RegistersOnce(t, x, single) ==
  /\ turn[t].at = "run"
  /\ turn[t].events < MaxEvents /\ ~turn[t].single /\ (single => turn[t].events = 0)
  /\ inflight' = [inflight EXCEPT ![x] = 1]
  /\ turn' = [turn EXCEPT ![t].at = "queue", ![t].next = x, ![t].held[x] = @ + 1,
                          ![t].events = @ + 1, ![t].single = single]
  /\ UNCHANGED <<hist, generating, cancel, loop, lookup, cut>>

\* The generator yields an event that shows a code: it is registered before
\* the event is queued. A done event registers its charts' codes again; a
\* one-shot answer is the only event of its turn.
Registers(t, x, single) ==
  /\ turn[t].at = "run"
  /\ turn[t].events < MaxEvents /\ ~turn[t].single /\ (single => turn[t].events = 0)
  /\ inflight' = [inflight EXCEPT ![x] = @ + 1]
  /\ turn' = [turn EXCEPT ![t].at = "queue", ![t].next = x, ![t].held[x] = @ + 1,
                          ![t].events = @ + 1, ![t].single = single]
  /\ UNCHANGED <<hist, generating, cancel, loop, lookup, cut>>

\* The event goes to the browser and into what the worker accumulates.
Queues(t) ==
  /\ turn[t].at = "queue"
  /\ turn' = [turn EXCEPT ![t].at = "boundary", ![t].next = None,
                          ![t].shown = @ \cup {turn[t].next},
                          ![t].charts = @ \cup {turn[t].next}]
  /\ UNCHANGED <<hist, generating, cancel, inflight, loop, lookup, cut>>

\* The cooperative stop: looked at after each event, nowhere else. The record
\* of a stopped turn is built from what its partial and done events brought: a
\* one-shot answer that was shown already is not in it.
StopsHere(t) ==
  /\ turn[t].at = "boundary"
  /\ turn[t].conv \in cancel
  /\ turn' = [turn EXCEPT ![t].at = "persist", ![t].dropped = turn[t].single,
                          ![t].charts = IF turn[t].single THEN {} ELSE @]
  /\ UNCHANGED <<hist, generating, cancel, inflight, loop, lookup, cut>>

GoesOn(t) ==
  /\ turn[t].at = "boundary"
  /\ turn[t].conv \notin cancel
  /\ Goes(t, "run")
  /\ UNCHANGED <<hist, generating, cancel, inflight, loop, lookup, cut>>

\* Mutant: the mark goes when the generator ends, before the row is written.
GeneratedUnmarks(t, failed) ==
  /\ turn[t].at = "run" /\ (turn[t].single => ~failed)
  /\ generating' = generating \ {turn[t].conv}
  /\ turn' = [turn EXCEPT ![t].at = "persist", ![t].failed = failed]
  /\ UNCHANGED <<hist, cancel, inflight, loop, lookup, cut>>

\* Mutant: an exception leaves the worker without its `finally`.
GeneratedEscapes(t, failed) ==
  /\ turn[t].at = "run" /\ (turn[t].single => ~failed)
  /\ turn' = [turn EXCEPT ![t].at = IF failed THEN "over" ELSE "persist",
                          ![t].failed = failed]
  /\ UNCHANGED <<hist, generating, cancel, inflight, loop, lookup, cut>>

\* The generator is exhausted, or a brain call or the analysis raised: the
\* record of a failed turn is its sentence, without the charts' codes. Behind
\* a one-shot answer the generator only returns.
Generated(t, failed) ==
  /\ turn[t].at = "run" /\ (turn[t].single => ~failed)
  /\ turn' = [turn EXCEPT ![t].at = "persist", ![t].failed = failed]
  /\ UNCHANGED <<hist, generating, cancel, inflight, loop, lookup, cut>>

\* The one append of the AI row; a write that raises is logged and dropped.
Persists(t) ==
  /\ turn[t].at = "persist"
  /\ \/ /\ hist' = Appended(turn[t].conv,
                            Answer(t, IF turn[t].failed THEN {} ELSE turn[t].charts))
        /\ turn' = [turn EXCEPT ![t].at = "drop", ![t].saved = TRUE,
                                ![t].charts = {}, ![t].events = 0, ![t].single = FALSE,
                                ![t].told = FALSE]
     \/ /\ turn' = [turn EXCEPT ![t].at = "drop",
                                ![t].charts = {}, ![t].events = 0, ![t].single = FALSE,
                                ![t].told = FALSE]
        /\ UNCHANGED hist
  /\ UNCHANGED <<generating, cancel, inflight, loop, lookup, cut>>

\* Mutant: a finished turn removes its codes, whoever else carries them.
ReleasedForAll(t) == [x \in Codes |-> IF turn[t].held[x] > 0 THEN 0 ELSE inflight[x]]

\* _inflight_discard: the turn's own share of each count.
Released(t) == [x \in Codes |-> inflight[x] - turn[t].held[x]]

Drops(t) ==
  /\ turn[t].at = "drop"
  /\ inflight' = Released(t)
  /\ turn' = [turn EXCEPT ![t].at = "unmark", ![t].held = [x \in Codes |-> 0]]
  /\ UNCHANGED <<hist, generating, cancel, loop, lookup, cut>>

\* The marks are per conversation, not per turn.
Unmarks(t) ==
  /\ turn[t].at = "unmark"
  /\ generating' = generating \ {turn[t].conv}
  /\ Goes(t, "clear")
  /\ UNCHANGED <<hist, cancel, inflight, loop, lookup, cut>>

Clears(t) ==
  /\ turn[t].at = "clear"
  /\ cancel' = cancel \ {turn[t].conv}
  /\ Goes(t, "over")
  /\ UNCHANGED <<hist, generating, inflight, loop, lookup, cut>>

\* conversation_stop: sets the flag whatever runs.
Stop(c) ==
  /\ LoopFree
  /\ hist[c] # <<>>
  /\ c \notin cancel
  /\ cancel' = cancel \cup {c}
  /\ turn' = [t \in Turns |->
                IF turn[t].conv = c /\ turn[t].at \in {"run", "queue", "boundary"}
                THEN [turn[t] EXCEPT !.told = TRUE] ELSE turn[t]]
  /\ UNCHANGED <<hist, generating, inflight, loop, lookup, cut>>

-----------------------------------------------------------------------------
(***************************************************************************)
(* edit_regenerate. It marks nothing and looks at no stop flag.            *)
(***************************************************************************)

LastHuman(rows) ==
  LET humans == {i \in 1..Len(rows) : ~rows[i].ai}
  IN  CHOOSE i \in humans : \A j \in humans : j <= i

\* get_history and the read of truncate_conv_history: the rows before the last
\* question. Appends between the two reads do not change those rows.
EditReads(t, c) ==
  /\ LoopFree
  /\ turn[t] = Idle
  /\ Len(hist[c]) >= 2
  /\ \E i \in 1..Len(hist[c]) : ~hist[c][i].ai
  /\ turn' = [turn EXCEPT ![t].at = "open", ![t].conv = c,
                          ![t].kept = SubSeq(hist[c], 1, LastHuman(hist[c]) - 1)]
  /\ loop' = t
  /\ UNCHANGED <<hist, generating, cancel, inflight, lookup, cut>>

\* open("w") empties the file; the rows follow when it is closed, over
\* whatever a worker appended in between.
EditOpens(t) ==
  /\ turn[t].at = "open"
  /\ hist' = [hist EXCEPT ![turn[t].conv] = <<>>]
  /\ cut' = cut \cup {turn[t].conv}
  /\ Goes(t, "write")
  /\ UNCHANGED <<generating, cancel, inflight, loop, lookup>>

EditWrites(t) ==
  /\ turn[t].at = "write"
  /\ hist' = [hist EXCEPT ![turn[t].conv] = turn[t].kept]
  /\ loop' = None
  /\ turn' = [turn EXCEPT ![t].at = "reload", ![t].kept = <<>>]
  /\ UNCHANGED <<generating, cancel, inflight, lookup, cut>>

\* No data, or the load raised: the rows are gone and nothing replaces them.
EditRefused(t) ==
  /\ LoopFree
  /\ turn[t].at = "reload"
  /\ Goes(t, "over")
  /\ UNCHANGED <<hist, generating, cancel, inflight, loop, lookup, cut>>

EditAppends(t) ==
  /\ LoopFree
  /\ turn[t].at = "reload"
  /\ hist' = Appended(turn[t].conv, Human(t))
  /\ Goes(t, "blocking")
  /\ UNCHANGED <<generating, cancel, inflight, loop, lookup, cut>>

\* A brain error is answered by its sentence, any other leaves no AI row.
EditFails(t) ==
  /\ LoopFree
  /\ turn[t].at = "blocking"
  /\ \/ hist' = Appended(turn[t].conv, Answer(t, {}))
     \/ UNCHANGED hist
  /\ turn' = [turn EXCEPT ![t].at = "over", ![t].failed = TRUE]
  /\ UNCHANGED <<generating, cancel, inflight, loop, lookup, cut>>

\* The whole run is back: its codes are registered, the row is appended, and
\* only then does the response show them.
EditRegisters(t, codes) ==
  /\ LoopFree
  /\ turn[t].at = "blocking"
  /\ inflight' = [x \in Codes |-> inflight[x] + (IF x \in codes THEN 1 ELSE 0)]
  /\ turn' = [turn EXCEPT ![t].at = "append", ![t].charts = codes,
                          ![t].held = [x \in Codes |-> IF x \in codes THEN 1 ELSE 0]]
  /\ loop' = t
  /\ UNCHANGED <<hist, generating, cancel, lookup, cut>>

\* An append that raises leaves through the same `finally`.
EditPersists(t) ==
  /\ turn[t].at = "append"
  /\ \/ /\ hist' = Appended(turn[t].conv, Answer(t, turn[t].charts))
        /\ turn' = [turn EXCEPT ![t].at = "reply", ![t].saved = TRUE]
     \/ /\ turn' = [turn EXCEPT ![t].at = "reply", ![t].failed = TRUE]
        /\ UNCHANGED hist
  /\ UNCHANGED <<generating, cancel, inflight, loop, lookup, cut>>

EditReplies(t) ==
  /\ turn[t].at = "reply"
  /\ inflight' = Released(t)
  /\ turn' = [turn EXCEPT ![t].at = "over", ![t].held = [x \in Codes |-> 0],
                          ![t].shown = IF turn[t].saved THEN turn[t].charts ELSE {},
                          ![t].charts = {}]
  /\ loop' = None
  /\ UNCHANGED <<hist, generating, cancel, lookup, cut>>

-----------------------------------------------------------------------------
(***************************************************************************)
(* code_is_stored, on a thread of the pool: the registry first, then the   *)
(* conversations' files one by one.                                        *)
(***************************************************************************)

LookupBegins(t, x) ==
  /\ LoopFree
  /\ lookup.at = "idle"
  /\ x \in turn[t].shown
  /\ lookup' = [at |-> "registry", turn |-> t, code |-> x, unread |-> Convs]
  /\ UNCHANGED <<hist, generating, cancel, inflight, turn, loop, cut>>

LookupRegistry ==
  /\ lookup.at = "registry"
  /\ lookup' = IF inflight[lookup.code] > 0 THEN NoLookup
               ELSE [lookup EXCEPT !.at = "files"]
  /\ UNCHANGED <<hist, generating, cancel, inflight, turn, loop, cut>>

HoldsCode(c, x) == \E i \in 1..Len(hist[c]) : hist[c][i].ai /\ x \in hist[c][i].codes

LookupFile(c) ==
  /\ lookup.at = "files"
  /\ c \in lookup.unread
  /\ lookup' = IF HoldsCode(c, lookup.code) THEN NoLookup
               ELSE [lookup EXCEPT !.unread = @ \ {c}]
  /\ UNCHANGED <<hist, generating, cancel, inflight, turn, loop, cut>>

\* Nothing found: 403, the button is dead.
Refused == lookup.at = "files" /\ lookup.unread = {}

LookupRefuses ==
  /\ Refused
  /\ lookup' = NoLookup
  /\ UNCHANGED <<hist, generating, cancel, inflight, turn, loop, cut>>

-----------------------------------------------------------------------------
Init ==
  /\ hist = [c \in Convs |-> <<>>]
  /\ generating = {} /\ cancel = {} /\ cut = {}
  /\ inflight = [x \in Codes |-> 0]
  /\ turn = [t \in Turns |-> Idle]
  /\ loop = None
  /\ lookup = NoLookup

\* The streaming worker, and an edit that holds the event loop.
Worker(t) ==
  \/ WorkerStarts(t)
  \/ \E x \in Codes, single \in BOOLEAN : Registers(t, x, single)
  \/ Queues(t) \/ StopsHere(t) \/ GoesOn(t)
  \/ \E failed \in BOOLEAN : Generated(t, failed)
  \/ Persists(t) \/ Drops(t) \/ Unmarks(t) \/ Clears(t)

Handler(t) ==
  \/ \E c \in Convs : Ask(t, c) \/ EditReads(t, c)
  \/ AskRefused(t) \/ AskAppends(t) \/ NeverPulled(t)
  \/ EditOpens(t) \/ EditWrites(t) \/ EditRefused(t) \/ EditAppends(t) \/ EditFails(t)
  \/ \E codes \in SUBSET Codes : EditRegisters(t, codes)
  \/ EditPersists(t) \/ EditReplies(t)

Lookup ==
  \/ \E t \in Turns, x \in Codes : LookupBegins(t, x)
  \/ LookupRegistry
  \/ \E c \in Convs : LookupFile(c)
  \/ LookupRefuses

Next ==
  \/ \E t \in Turns : Worker(t) \/ Handler(t)
  \/ \E c \in Convs : Stop(c)
  \/ Lookup

Spec == Init /\ [][Next]_vars

(***************************************************************************)
(* Threads are scheduled, a generator ends (its brain calls and its jobs   *)
(* time out), and a handler that holds the loop does not wait.             *)
(***************************************************************************)
Fairness ==
  \A t \in Turns : /\ WF_vars(Worker(t))
                   /\ WF_vars(EditOpens(t) \/ EditWrites(t)
                              \/ EditPersists(t) \/ EditReplies(t))

FairSpec == Spec /\ Fairness

-----------------------------------------------------------------------------
TypeOK ==
  /\ hist \in [Convs -> Seq(Row)]
  /\ generating \subseteq Convs /\ cancel \subseteq Convs /\ cut \subseteq Convs
  /\ inflight \in [Codes -> Nat]
  /\ turn \in [Turns ->
       [at : Stages, conv : Convs \cup {None}, next : Codes \cup {None},
        charts : SUBSET Codes, shown : SUBSET Codes, held : [Codes -> Nat],
        kept : Seq(Row), events : 0..MaxEvents, single : BOOLEAN,
        failed : BOOLEAN, saved : BOOLEAN, told : BOOLEAN, dropped : BOOLEAN,
        shared : BOOLEAN]]
  /\ loop \in Turns \cup {None}
  /\ lookup \in [at : {"idle", "registry", "files"}, turn : Turns \cup {None},
                 code : Codes \cup {None}, unread : SUBSET Convs]

(***************************************************************************)
(* A chart the browser was shown can be refreshed and pinned: the lookup   *)
(* of its code is refused only when its turn failed, could not be written  *)
(* or was a one-shot answer dropped for a Stop, or its conversation was    *)
(* rewritten by an edit. The lookup reads the registry and the files in    *)
(* several steps, while the turn moves its code from the one to the other  *)
(* and a second turn with the same code takes its own share out.           *)
(***************************************************************************)
Settled(t) == turn[t].at \in {"drop", "unmark", "clear", "over"}

Unkept(t) == Settled(t) /\ (turn[t].failed \/ ~turn[t].saved)

CodeShownIsStored ==
  Refused => \/ Unkept(lookup.turn)
             \/ Settled(lookup.turn) /\ turn[lookup.turn].dropped
             \/ turn[lookup.turn].conv \in cut

(***************************************************************************)
(* The same without the exception of the Stop, as two comments have it:    *)
(* "a chart streamed on a `partial` event (or shown right after Stop) is   *)
(* refreshable and pinnable before its history row exists", and of the     *)
(* codes whose registration ends, "they are in the history now". It fails: *)
(* a Stop seen behind a one-shot answer saves a row without its code.      *)
(***************************************************************************)
StoppedCodeIsStored ==
  Refused => Unkept(lookup.turn) \/ turn[lookup.turn].conv \in cut

(***************************************************************************)
(* "A status poll that now sees generating=false will find the AI turn     *)
(* saved": of a worker that has started, once its conversation is not      *)
(* marked, the answer is among the rows. Only a write that raised, an edit *)
(* of the conversation, and a second worker of the same conversation (the  *)
(* mark is one per conversation) are excepted.                             *)
(***************************************************************************)
HasAnswer(t) == \E i \in 1..Len(hist[turn[t].conv]) :
                   hist[turn[t].conv][i].turn = t /\ hist[turn[t].conv][i].ai

UnmarkedIsSaved ==
  \A t \in Turns :
     (Working(t) /\ turn[t].conv \notin generating)
       => \/ turn[t].shared \/ turn[t].conv \in cut
          \/ Settled(t) /\ (HasAnswer(t) \/ ~turn[t].saved)

(***************************************************************************)
(* The page is not blocked for good: a conversation marked as being        *)
(* answered is unmarked again.                                             *)
(***************************************************************************)
MarksAreCleared == \A c \in Convs : (c \in generating) ~> (c \notin generating)

(***************************************************************************)
(* "Cooperative: the worker halts at the NEXT chart boundary": a worker    *)
(* that was told to stop does not go on from a boundary.                   *)
(***************************************************************************)
StopIsObeyed == [][\A t \in Turns : GoesOn(t) => ~turn[t].told]_vars
=============================================================================
