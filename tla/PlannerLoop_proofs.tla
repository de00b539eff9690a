------------------------- MODULE PlannerLoop_proofs -------------------------
(***************************************************************************)
(* Proofs about one turn of the planner loop, for every set of live        *)
(* tables, SELECTs and codes and every one of its caps.                    *)
(***************************************************************************)
EXTENDS PlannerLoop, SequenceTheorems, TLAPS

LiveType == [sql : Sent, fetched : SUBSET Keys, read : SUBSET Keys, refused : Sent,
             used : Sent, frame : Sent]

\* What a reply's SELECTs do to the live state, field by field.
LEMMA MergedFields ==
  ASSUME live \in LiveType, NEW sent \in Sent
  PROVE  /\ Merged(sent) \in LiveType
         /\ Merged(sent).read = live.read
         /\ Merged(sent).used = live.used
         /\ Merged(sent).frame = live.frame
         /\ Merged(sent).fetched = live.fetched \ Named(sent)
         /\ \A k \in Keys : Merged(sent).sql[k] = IF k \in Named(sent) THEN sent[k] ELSE live.sql[k]
         /\ \A k \in Keys : Merged(sent).refused[k] = IF k \in Named(sent) THEN Default ELSE live.refused[k]
<1> DEFINE s == [k \in Keys |-> IF k \in Named(sent) THEN sent[k] ELSE live.sql[k]]
           r == [k \in Keys |-> IF k \in Named(sent) THEN Default ELSE live.refused[k]]
<1>1. s \in Sent /\ r \in Sent
  BY DEF LiveType, Sent, Queries
<1>2. Merged(sent) = [live EXCEPT !.sql = s, !.fetched = live.fetched \ Named(sent), !.refused = r]
  BY DEF Merged
<1> HIDE DEF s, r
<1>3. /\ Merged(sent) \in LiveType
      /\ Merged(sent).read = live.read
      /\ Merged(sent).used = live.used
      /\ Merged(sent).frame = live.frame
      /\ Merged(sent).fetched = live.fetched \ Named(sent)
      /\ Merged(sent).sql = s
      /\ Merged(sent).refused = r
  BY <1>1, <1>2 DEF LiveType
<1> QED
  BY <1>3 DEF s, r

LEMMA QueryIsSent ==
  ASSUME live \in LiveType, NEW k \in Keys
  PROVE  QueryOf(k) \in Queries
  BY DEF QueryOf, LiveType, Sent, Queries

-----------------------------------------------------------------------------
(* Every step changes the live state in one of five ways.                   *)

LiveStep ==
  \/ UNCHANGED <<live, owed>>
  \/ \E sent \in Sent : Replied(sent)
  \/ \E k \in Keys : KeepsFrame(k)
  \/ \E k \in Keys : Fetches(k)
  \/ \E k \in Keys, guard \in BOOLEAN : FetchFails(k, guard)

LEMMA LiveSteps == [Next]_vars => LiveStep
  BY DEF Next, vars, kept, LiveStep, PlansCharts, PlansSingle, RetryGivesCode, RetryGivesPython,
     RedrawsChart, RetryGivesNoCode, RegeneratesAxes, SplitsFigure, KeepsChart, PlansProse,
     RoleDenies, RefusesAgain, Dispatches, TakesItem, ChartsAreOver, EndsHere,
     PythonIsBack, SkipsBlock, Rendered, SplitIsBack, EmitsChart, DropsChart, AnswersSingle,
     TakesTable, TableIsBack, TablesAreOver, Finishes, BrainRaises

LEMMA LiveTypeStep ==
  ASSUME live \in LiveType, owed \in SUBSET Keys, LiveStep
  PROVE  live' \in LiveType /\ owed' \in SUBSET Keys
<1>1. CASE UNCHANGED <<live, owed>>
  BY <1>1
<1>2. ASSUME NEW sent \in Sent, Replied(sent) PROVE live' \in LiveType /\ owed' \in SUBSET Keys
  BY <1>2, MergedFields DEF Replied
<1>3. ASSUME NEW k \in Keys, KeepsFrame(k) PROVE live' \in LiveType /\ owed' \in SUBSET Keys
  BY <1>3 DEF KeepsFrame, LiveType
<1>4. ASSUME NEW k \in Keys, Fetches(k) PROVE live' \in LiveType /\ owed' \in SUBSET Keys
  BY <1>4, QueryIsSent DEF Fetches, LiveType, Sent
<1>5. ASSUME NEW k \in Keys, NEW guard \in BOOLEAN, FetchFails(k, guard)
      PROVE live' \in LiveType /\ owed' \in SUBSET Keys
  <2>1. QueryOf(k) \in Queries /\ Default \in Queries
    BY QueryIsSent DEF Queries
  <2>2. (IF guard THEN Default ELSE QueryOf(k)) \in Queries
    BY <2>1
  <2> QED
    BY <1>5, <2>1, <2>2 DEF FetchFails, LiveType, Sent
<1> QED
  BY <1>1, <1>2, <1>3, <1>4, <1>5 DEF LiveStep

-----------------------------------------------------------------------------
(* The worklist.                                                            *)

LEMMA FreshItems == \A code \in Code \cup {{}} : Fresh(code) \in ItemType
  BY ConstantsAssumption DEF Fresh, ItemType

\* An item with another code, sent back once more for one reason.
LEMMA ItemAgain ==
  ASSUME NEW i \in ItemType, NEW code \in Code
  PROVE  /\ [i EXCEPT !.code = code] \in ItemType
         /\ i.axes < MaxRegen => [i EXCEPT !.code = code, !.axes = @ + 1] \in ItemType
         /\ i.plotly < MaxRegen => [i EXCEPT !.code = code, !.plotly = @ + 1] \in ItemType
         /\ i.matrix < MaxRegen => [i EXCEPT !.code = code, !.matrix = @ + 1] \in ItemType
<1>1. /\ i.axes \in 0..MaxRegen /\ i.plotly \in 0..MaxRegen /\ i.matrix \in 0..MaxRegen
      /\ i.code \in Code \cup {{}} /\ MaxRegen \in Nat
  BY ConstantsAssumption DEF ItemType
<1>2. i = [code |-> i.code, axes |-> i.axes, plotly |-> i.plotly, matrix |-> i.matrix]
  BY DEF ItemType
<1>3. /\ i.axes < MaxRegen => i.axes + 1 \in 0..MaxRegen
      /\ i.plotly < MaxRegen => i.plotly + 1 \in 0..MaxRegen
      /\ i.matrix < MaxRegen => i.matrix + 1 \in 0..MaxRegen
  BY <1>1
<1>4. \A a, p, m \in 0..MaxRegen :
        [code |-> code, axes |-> a, plotly |-> p, matrix |-> m] \in ItemType
  BY DEF ItemType
<1> DEFINE r == [code |-> code, axes |-> i.axes, plotly |-> i.plotly, matrix |-> i.matrix]
           a == i.axes + 1
           p == i.plotly + 1
           m == i.matrix + 1
<1>5. /\ [i EXCEPT !.code = code, !.axes = @ + 1] = [[i EXCEPT !.code = code] EXCEPT !.axes = a]
      /\ [i EXCEPT !.code = code, !.plotly = @ + 1] = [[i EXCEPT !.code = code] EXCEPT !.plotly = p]
      /\ [i EXCEPT !.code = code, !.matrix = @ + 1] = [[i EXCEPT !.code = code] EXCEPT !.matrix = m]
  OBVIOUS
<1>6. [i EXCEPT !.code = code] = r
  BY <1>2
<1> HIDE DEF a, p, m
<1>7. /\ [r EXCEPT !.axes = a] = [code |-> code, axes |-> a, plotly |-> i.plotly, matrix |-> i.matrix]
      /\ [r EXCEPT !.plotly = p] = [code |-> code, axes |-> i.axes, plotly |-> p, matrix |-> i.matrix]
      /\ [r EXCEPT !.matrix = m] = [code |-> code, axes |-> i.axes, plotly |-> i.plotly, matrix |-> m]
  OBVIOUS
<1> HIDE DEF r
<1>8. /\ [i EXCEPT !.code = code, !.axes = @ + 1]
         = [code |-> code, axes |-> a, plotly |-> i.plotly, matrix |-> i.matrix]
      /\ [i EXCEPT !.code = code, !.plotly = @ + 1]
         = [code |-> code, axes |-> i.axes, plotly |-> p, matrix |-> i.matrix]
      /\ [i EXCEPT !.code = code, !.matrix = @ + 1]
         = [code |-> code, axes |-> i.axes, plotly |-> i.plotly, matrix |-> m]
  BY <1>6, <1>7, <1>5
<1>9. /\ i.axes < MaxRegen => [i EXCEPT !.code = code, !.axes = @ + 1] \in ItemType
      /\ i.plotly < MaxRegen => [i EXCEPT !.code = code, !.plotly = @ + 1] \in ItemType
      /\ i.matrix < MaxRegen => [i EXCEPT !.code = code, !.matrix = @ + 1] \in ItemType
  BY <1>1, <1>3, <1>4, <1>8 DEF a, p, m
<1>10. [i EXCEPT !.code = code] \in ItemType
  BY <1>1, <1>4, <1>6 DEF r
<1> QED
  BY <1>9, <1>10

LEMMA RedrawnItem ==
  ASSUME item \in ItemType, NEW code \in Code, SentBack("static") \/ SentBack("matrix")
  PROVE  Redrawn(code) \in ItemType
<1>1. CASE SentBack("static")
  <2>1. out = "static" /\ item.plotly < MaxRegen
    BY <1>1 DEF SentBack, Shaping
  <2>2. Redrawn(code) = [item EXCEPT !.code = code, !.plotly = @ + 1]
    BY <2>1 DEF Redrawn, ItemType
  <2> QED
    BY <2>1, <2>2, ItemAgain
<1>2. CASE SentBack("matrix")
  <2>1. out = "matrix" /\ item.matrix < MaxRegen
    BY <1>2 DEF SentBack, Shaping
  <2>2. Redrawn(code) = [item EXCEPT !.code = code, !.matrix = @ + 1]
    BY <2>1 DEF Redrawn, ItemType
  <2> QED
    BY <2>1, <2>2, ItemAgain
<1> QED
  BY <1>1, <1>2

\* The sequences of a reply, and what the caps leave of them.
LEMMA RepliesAreSequences ==
  ASSUME NEW codes \in Replies
  PROVE  codes \in Seq(Code) /\ Len(codes) \in Nat
<1>1. PICK n \in 1..MaxParts : codes \in [1..n -> Code]
  BY DEF Replies
<1>2. n \in Nat
  BY ConstantsAssumption
<1> QED
  BY <1>1, <1>2

LEMMA CappedItems ==
  ASSUME NEW codes \in Replies, NEW n \in Nat, n <= Len(codes)
  PROVE  [i \in 1..n |-> Fresh(codes[i])] \in Seq(ItemType)
<1>1. codes \in Seq(Code) /\ Len(codes) \in Nat
  BY RepliesAreSequences
<1>2. \A i \in 1..n : codes[i] \in Code
  BY <1>1, ElementOfSeq
<1>3. \A i \in 1..n : Fresh(codes[i]) \in ItemType
  BY <1>2, FreshItems
<1> QED
  BY <1>3

\* While a chart item is under way there is room for one more chart.
OnItem == \/ at \in {"judge", "python", "split", "shape"}
          \/ at = "ensure" /\ goal # "table"

RoomInv == OnItem /\ flow = "multi" => produced < MaxPlots

TInv == TypeOK /\ RoomInv

LEMMA TypeInit == Init => TInv
<1> SUFFICES ASSUME Init PROVE TInv
  OBVIOUS
<1>1. live \in LiveType
  BY DEF Init, NoLive, LiveType, Sent, Queries
<1>2. work \in Seq(ItemType) /\ tables \in Seq(Code) /\ Len(tables) = 0
  BY EmptySeq DEF Init
<1>3. item \in ItemType
  BY FreshItems DEF Init, NoItem
<1> QED
  BY <1>1, <1>2, <1>3, ConstantsAssumption
  DEF Init, TInv, TypeOK, RoomInv, OnItem, LiveType, Places, Outcomes, Ran

\* What an attempt's outcome does to the generator's place.
LEMMA ComesTyped ==
  ASSUME TInv, at = "ensure", NEW outcome \in Outcomes, Comes(outcome)
  PROVE  /\ at' \in Places /\ out' \in Outcomes /\ came' \in Outcomes
         /\ next' \in Code \cup {{}} /\ goal' \in {"code", "python", "split", "table"}
         /\ RoomInv'
         /\ UNCHANGED <<flow, work, item, tables, retries, produced>>
<1>1. CASE goal = "code"
  BY <1>1 DEF Comes, Forgets, TInv, TypeOK, RoomInv, OnItem, Places, Outcomes, Ran
<1>2. CASE goal # "code"
  BY <1>2 DEF Comes, TInv, TypeOK, RoomInv, OnItem, Places
<1> QED
  BY <1>1, <1>2

LEMMA TypeStep == TInv /\ [Next]_vars => TInv'
<1> SUFFICES ASSUME TInv, [Next]_vars PROVE TInv'
  OBVIOUS
<1>l. live' \in LiveType /\ owed' \in SUBSET Keys
  BY LiveSteps, LiveTypeStep DEF TInv, TypeOK, LiveType
<1>f. NoItem \in ItemType /\ {} \in Code \cup {{}} /\ "ok" \in Outcomes /\ 0 \in 0..MaxRetries
      /\ 0 \in 0..MaxPlots
  BY FreshItems, ConstantsAssumption DEF NoItem, Outcomes, Ran
\* The variables but the live state.
<1> DEFINE Rest ==
      /\ at' \in Places /\ flow' \in {"multi", "single"}
      /\ work' \in Seq(ItemType) /\ item' \in ItemType
      /\ tables' \in Seq(Code) /\ Len(tables') <= MaxTables
      /\ out' \in Outcomes /\ came' \in Outcomes
      /\ retries' \in 0..MaxRetries /\ produced' \in 0..MaxPlots
      /\ next' \in Code \cup {{}} /\ goal' \in {"code", "python", "split", "table"}
      /\ RoomInv'
<1> SUFFICES Rest
  BY <1>l DEF TInv, TypeOK, LiveType
<1> USE DEF TInv, TypeOK, RoomInv, OnItem
<1>1. CASE UNCHANGED vars
  BY <1>1 DEF vars, loopVars
<1>2. ASSUME NEW sent \in Sent, NEW codes \in Replies, NEW tabs \in Replies \cup {<<>>},
             PlansCharts(sent, codes, tabs)
      PROVE Rest
  <2> DEFINE n == IF Len(codes) > MaxBlocks THEN MaxBlocks ELSE Len(codes)
             m == IF Len(tabs) > MaxTables THEN MaxTables ELSE Len(tabs)
  <2>1. n \in Nat /\ n <= Len(codes)
    BY RepliesAreSequences, ConstantsAssumption
  <2>2. tabs \in Seq(Code) /\ Len(tabs) \in Nat
    BY RepliesAreSequences, EmptySeq
  <2>3. m \in 0..MaxTables /\ m <= Len(tabs)
    BY <2>2, ConstantsAssumption
  <2>4. [i \in 1..n |-> Fresh(codes[i])] \in Seq(ItemType)
    BY <2>1, CappedItems
  <2>5. SubSeq(tabs, 1, m) \in Seq(Code) /\ Len(SubSeq(tabs, 1, m)) = m
    BY <2>2, <2>3, ConstantsAssumption
  <2>6. work' = [i \in 1..n |-> Fresh(codes[i])] /\ tables' = SubSeq(tabs, 1, m)
    BY <1>2 DEF PlansCharts
  <2> HIDE DEF n, m
  <2>7. work' \in Seq(ItemType) /\ tables' \in Seq(Code) /\ Len(tables') <= MaxTables
    BY <2>3, <2>4, <2>5, <2>6, ConstantsAssumption
  <2> QED
    BY <1>2, <2>7 DEF PlansCharts, Places
<1>3. ASSUME NEW sent \in Sent, NEW code \in Code, PlansSingle(sent, code) PROVE Rest
  BY <1>3, FreshItems DEF PlansSingle, Runs, Places
<1>4. ASSUME NEW sent \in Sent, NEW code \in Code, RetryGivesCode(sent, code) PROVE Rest
  <2>1. item' \in ItemType
    BY <1>4, ItemAgain DEF RetryGivesCode
  <2> QED
    BY <1>4, <2>1, ConstantsAssumption DEF RetryGivesCode, AsksAgain, Retryable, Runs, Places
<1>5. ASSUME NEW sent \in Sent, NEW code \in Code, RetryGivesPython(sent, code) PROVE Rest
  BY <1>5, ConstantsAssumption DEF RetryGivesPython, AsksAgain, Retryable, Runs, Places
<1>6. ASSUME NEW sent \in Sent, NEW code \in Code, RedrawsChart(sent, code) PROVE Rest
  <2>1. Redrawn(code) \in ItemType
    BY <1>6, RedrawnItem DEF RedrawsChart
  <2>2. <<Redrawn(code)>> \o work \in Seq(ItemType)
    BY <2>1
  <2> QED
    BY <1>6, <1>f, <2>2 DEF RedrawsChart, SentBack, Shaping, Leaves, Forgets, Places
<1>7. ASSUME NEW sent \in Sent, RetryGivesNoCode(sent) PROVE Rest
  BY <1>7, ConstantsAssumption DEF RetryGivesNoCode, AsksAgain, Retryable
<1>8. ASSUME NEW sent \in Sent, NEW codes \in Replies, RegeneratesAxes(sent, codes) PROVE Rest
  <2> DEFINE again == [i \in 1..Len(codes) |-> [item EXCEPT !.code = codes[i], !.axes = @ + 1]]
  <2>1. codes \in Seq(Code) /\ Len(codes) \in Nat
    BY RepliesAreSequences
  <2>2. item.axes < MaxRegen
    BY <1>8 DEF RegeneratesAxes, SentBack
  <2>3. \A code \in Code : [item EXCEPT !.code = code, !.axes = @ + 1] \in ItemType
    BY <2>2, ItemAgain
  <2>4. \A i \in 1..Len(codes) : codes[i] \in Code
    BY <2>1, ElementOfSeq
  <2>5. \A i \in 1..Len(codes) : [item EXCEPT !.code = codes[i], !.axes = @ + 1] \in ItemType
    BY <2>3, <2>4
  <2> DEFINE it(i) == [item EXCEPT !.code = codes[i], !.axes = @ + 1]
  <2>6. \A i \in 1..Len(codes) : it(i) \in ItemType
    BY <2>5
  <2>7. again = [i \in 1..Len(codes) |-> it(i)]
    OBVIOUS
  <2> HIDE DEF it
  <2>8. [i \in 1..Len(codes) |-> it(i)] \in Seq(ItemType)
    BY <2>1, <2>6
  <2>9. again \in Seq(ItemType)
    BY <2>7, <2>8
  <2>10. work' = work \o again
    BY <1>8 DEF RegeneratesAxes
  <2> HIDE DEF again
  <2>11. work' \in Seq(ItemType)
    BY <2>9, <2>10
  <2> QED
    BY <1>8, <1>f, <2>11 DEF RegeneratesAxes, Leaves, Forgets, Places
<1>9. ASSUME NEW sent \in Sent, SplitsFigure(sent) PROVE Rest
  BY <1>9 DEF SplitsFigure, Shaping, Runs, loopVars, Places, ItemType
<1>10. ASSUME NEW sent \in Sent, NEW as \in {"ok", "matrix"}, KeepsChart(sent, as) PROVE Rest
  BY <1>10 DEF KeepsChart, Outcomes, Ran
<1>11. CASE PlansProse \/ ChartsAreOver \/ TablesAreOver \/ Finishes
  BY <1>11 DEF PlansProse, ChartsAreOver, TablesAreOver, Finishes, loopVars, Places
<1>12. CASE Rendered
  BY <1>12 DEF Rendered, loopVars, Places
<1>13. CASE RoleDenies
  BY <1>13, ComesTyped DEF RoleDenies, Outcomes
<1>14. ASSUME NEW k \in Keys, KeepsFrame(k) \/ Fetches(k) PROVE Rest
  BY <1>14 DEF KeepsFrame, Fetches, loopVars
<1>15. ASSUME NEW k \in Keys, RefusesAgain(k) PROVE Rest
  BY <1>15, ComesTyped DEF RefusesAgain, Outcomes
<1>16. ASSUME NEW k \in Keys, NEW guard \in BOOLEAN, FetchFails(k, guard) PROVE Rest
  BY <1>16, ComesTyped DEF FetchFails, Reads, Outcomes
<1>17. ASSUME NEW outcome \in Outcomes, Dispatches(outcome) PROVE Rest
  BY <1>17, ComesTyped DEF Dispatches
<1>18. CASE TakesItem
  <2>1. Head(work) \in ItemType /\ Tail(work) \in Seq(ItemType)
    BY <1>18, HeadTailProperties DEF TakesItem, MoreCharts
  <2>2. Head(work).code \in Code \cup {{}} /\ produced < MaxPlots
    BY <1>18, <2>1 DEF ItemType, TakesItem, MoreCharts
  <2> QED
    BY <1>18, <1>f, <2>1, <2>2 DEF TakesItem, Runs, Places
<1>19. CASE EndsHere \/ SkipsBlock
  BY <1>19, <1>f DEF EndsHere, SkipsBlock, Leaves, Forgets, kept, Places
<1>20. CASE PythonIsBack
  <2>1. /\ at' \in Places /\ next' \in Code \cup {{}} /\ goal' = "code" /\ came' = "ok"
        /\ retries' \in 0..MaxRetries /\ item' \in ItemType /\ out' \in Outcomes
    BY <1>20, <1>f DEF PythonIsBack, Leaves, Forgets, kept, Places, ItemType
  <2> QED
    BY <1>20, <1>f, <2>1 DEF PythonIsBack, kept
<1>21. ASSUME NEW parts \in 1..MaxParts, SplitIsBack(parts) PROVE Rest
  BY <1>21, <1>f, ConstantsAssumption DEF SplitIsBack, Leaves, Forgets, Places
<1>22. CASE EmitsChart
  BY <1>22, <1>f, ConstantsAssumption DEF EmitsChart, Final, Leaves, Forgets, Places
<1>23. CASE DropsChart \/ AnswersSingle \/ TableIsBack \/ BrainRaises
  BY <1>23, <1>f DEF DropsChart, AnswersSingle, TableIsBack, BrainRaises, Leaves, Forgets, kept, Places
<1>24. CASE TakesTable
  <2>1. /\ Head(tables) \in Code /\ Tail(tables) \in Seq(Code)
        /\ Len(Tail(tables)) = Len(tables) - 1 /\ Len(tables) \in Nat
    BY <1>24, HeadTailProperties DEF TakesTable
  <2> QED
    BY <1>24, <2>1, ConstantsAssumption DEF TakesTable, Runs, Places
<1> HIDE DEF Rest
<1> QED
  BY <1>1, <1>2, <1>3, <1>4, <1>5, <1>6, <1>7, <1>8, <1>9, <1>10, <1>11, <1>12, <1>13, <1>14,
     <1>15, <1>16, <1>17, <1>18, <1>19, <1>20, <1>21, <1>22, <1>23, <1>24 DEF Next

\* Type correctness of a turn. It includes its caps: no more charts than the
\* cap however a figure is split, no more retries of a block and no more
\* regenerations of an item than allowed.
THEOREM TypeCorrect == Spec => []TypeOK
<1>1. Init => TInv
  BY TypeInit
<1>2. TInv /\ [Next]_vars => TInv'
  BY TypeStep
<1>3. TInv => TypeOK
  BY DEF TInv
<1> QED
  BY <1>1, <1>2, <1>3, PTL DEF Spec

-----------------------------------------------------------------------------
(* What is in `fetched` was read with the query the planner sent last; what *)
(* an administrator filters is only ever read with the default.             *)

QInv ==
  /\ \A k \in live.fetched : /\ k \in live.read
                            /\ live.frame[k] = QueryOf(k)
                            /\ live.used[k] = QueryOf(k)
  /\ \A k \in Filtered : live.frame[k] = Default /\ live.used[k] = Default

LEMMA QueryStep ==
  ASSUME live \in LiveType, QInv, LiveStep
  PROVE  QInv'
<1> USE DEF QInv, QueryOf
<1>1. CASE UNCHANGED <<live, owed>>
  BY <1>1
<1>2. ASSUME NEW sent \in Sent, Replied(sent) PROVE QInv'
  <2>1. live' = Merged(sent)
    BY <1>2 DEF Replied
  <2>2. /\ live'.read = live.read /\ live'.used = live.used /\ live'.frame = live.frame
        /\ live'.fetched = live.fetched \ Named(sent)
        /\ \A k \in Keys : k \notin Named(sent) => live'.sql[k] = live.sql[k]
    BY <2>1, MergedFields
  <2>3. live.fetched \subseteq Keys
    BY DEF LiveType
  <2> QED
    BY <2>2, <2>3
<1>3. ASSUME NEW k \in Keys, KeepsFrame(k) PROVE QInv'
  <2>1. k \in Filtered /\ k \in live.read
    BY <1>3 DEF KeepsFrame, Held
  <2>2. /\ live'.read = live.read /\ live'.used = live.used /\ live'.frame = live.frame
        /\ live'.fetched = live.fetched \cup {k} /\ live'.sql = live.sql
    BY <1>3 DEF KeepsFrame, LiveType
  <2> QED
    BY <2>1, <2>2
<1>4. ASSUME NEW k \in Keys, Fetches(k) PROVE QInv'
  <2>1. /\ live'.read = live.read \cup {k} /\ live'.fetched = live.fetched \cup {k}
        /\ live'.sql = live.sql
        /\ live'.used = [live.used EXCEPT ![k] = QueryOf(k)]
        /\ live'.frame = [live.frame EXCEPT ![k] = QueryOf(k)]
    BY <1>4 DEF Fetches, LiveType
  <2>2. /\ \A j \in Keys : /\ live'.used[j] = IF j = k THEN QueryOf(k) ELSE live.used[j]
                          /\ live'.frame[j] = IF j = k THEN QueryOf(k) ELSE live.frame[j]
        /\ live.fetched \subseteq Keys /\ Filtered \subseteq Keys
    BY <2>1, ConstantsAssumption DEF LiveType, Sent
  <2> QED
    BY <2>1, <2>2
<1>5. ASSUME NEW k \in Keys, NEW guard \in BOOLEAN, FetchFails(k, guard) PROVE QInv'
  <2>1. /\ live'.read = live.read /\ live'.fetched = live.fetched /\ live'.frame = live.frame
        /\ live'.sql = live.sql
        /\ live'.used = [live.used EXCEPT ![k] = IF guard THEN Default ELSE QueryOf(k)]
    BY <1>5 DEF FetchFails, LiveType
  <2>2. k \notin live.fetched
    BY <1>5 DEF FetchFails, Reads, Missing
  <2>3. /\ \A j \in Keys \ {k} : live'.used[j] = live.used[j]
        /\ k \in Filtered => live'.used[k] = Default
        /\ live.fetched \subseteq Keys /\ Filtered \subseteq Keys
    BY <2>1, ConstantsAssumption DEF LiveType, Sent
  <2> QED
    BY <2>1, <2>2, <2>3
<1> QED
  BY <1>1, <1>2, <1>3, <1>4, <1>5 DEF LiveStep

\* No code runs on the frame of an earlier SELECT, whatever order replies,
\* failed fetches and the blocks that share a table come in.
THEOREM RunsMatchQueries == Spec => []RunsOnItsQuery
<1>1. Init => TInv /\ QInv
  BY TypeInit, ConstantsAssumption DEF Init, QInv, NoLive
<1>2. TInv /\ QInv /\ [Next]_vars => TInv' /\ QInv'
  BY TypeStep, LiveSteps, QueryStep DEF TInv, TypeOK, LiveType
<1>3. TInv /\ QInv => RunsOnItsQuery
  BY DEF QInv, RunsOnItsQuery, Missing
<1> QED
  BY <1>1, <1>2, <1>3, PTL DEF Spec

-----------------------------------------------------------------------------
(* A SELECT that failed is still the table's, still noted as failed, and    *)
(* its table still not fetched, until a reply names the table.              *)

OwedInv ==
  \A k \in owed : /\ k \notin Filtered /\ k \notin live.fetched
                 /\ live.sql[k] # Default /\ live.refused[k] = live.sql[k]

LEMMA OwedStep ==
  ASSUME live \in LiveType, owed \in SUBSET Keys, OwedInv, LiveStep
  PROVE  OwedInv' /\ FailuresStand
<1> DEFINE Stands == \A k \in owed : /\ k \notin live'.read \ live.read
                                   /\ live'.frame[k] = live.frame[k]
<1>0. \A k \in owed : ~Reads(k)
  BY DEF OwedInv, Reads, Again, QueryOf
<1> SUFFICES OwedInv' /\ Stands
  BY <1>0 DEF FailuresStand
<1> USE DEF OwedInv
<1>1. CASE UNCHANGED <<live, owed>>
  BY <1>1
<1>2. ASSUME NEW sent \in Sent, Replied(sent) PROVE OwedInv' /\ Stands
  <2>1. live' = Merged(sent) /\ owed' = owed \ Named(sent)
    BY <1>2 DEF Replied
  <2>2. /\ live'.read = live.read /\ live'.frame = live.frame
        /\ live'.fetched = live.fetched \ Named(sent)
        /\ \A k \in Keys : k \notin Named(sent) => /\ live'.sql[k] = live.sql[k]
                                                /\ live'.refused[k] = live.refused[k]
    BY <2>1, MergedFields
  <2> QED
    BY <2>1, <2>2
<1>3. ASSUME NEW k \in Keys, KeepsFrame(k) PROVE OwedInv' /\ Stands
  <2>1. k \in Filtered
    BY <1>3 DEF KeepsFrame, Held
  <2>2. /\ live'.read = live.read /\ live'.frame = live.frame /\ live'.refused = live.refused
        /\ live'.fetched = live.fetched \cup {k} /\ live'.sql = live.sql /\ owed' = owed
    BY <1>3 DEF KeepsFrame, LiveType
  <2> QED
    BY <2>1, <2>2
<1>4. ASSUME NEW k \in Keys, Fetches(k) PROVE OwedInv' /\ Stands
  <2>1. k \notin owed
    BY <1>0, <1>4 DEF Fetches
  <2>2. /\ live'.read = live.read \cup {k} /\ live'.fetched = live.fetched \cup {k}
        /\ live'.sql = live.sql /\ live'.refused = live.refused /\ owed' = owed
        /\ live'.frame = [live.frame EXCEPT ![k] = QueryOf(k)]
    BY <1>4 DEF Fetches, LiveType
  <2>3. \A j \in owed : live'.frame[j] = live.frame[j]
    BY <2>1, <2>2 DEF LiveType, Sent
  <2> QED
    BY <2>1, <2>2, <2>3
<1>5. ASSUME NEW k \in Keys, NEW guard \in BOOLEAN, FetchFails(k, guard)
      PROVE OwedInv' /\ Stands
  <2>1. /\ live'.read = live.read /\ live'.fetched = live.fetched /\ live'.frame = live.frame
        /\ live'.sql = live.sql
        /\ live'.refused = [live.refused EXCEPT ![k] = QueryOf(k)]
        /\ owed' = IF QueryOf(k) = Default THEN owed ELSE owed \cup {k}
    BY <1>5 DEF FetchFails, LiveType
  <2>2. k \notin live.fetched /\ k \notin owed
    BY <1>0, <1>5 DEF FetchFails, Reads, Missing
  <2>3. \A j \in Keys : live'.refused[j] = IF j = k THEN QueryOf(k) ELSE live.refused[j]
    BY <2>1 DEF LiveType, Sent
  <2>4. QueryOf(k) # Default => k \notin Filtered /\ QueryOf(k) = live.sql[k]
    BY DEF QueryOf
  <2> QED
    BY <2>1, <2>2, <2>3, <2>4
<1> QED
  BY <1>1, <1>2, <1>3, <1>4, <1>5 DEF LiveStep

\* A failed SELECT is neither run again nor replaced by a default read before
\* the planner sends a new one, over every retry and block of the turn.
THEOREM FailedSelectsStand == Spec => FailedSelectStands
<1>1. Init => TInv /\ OwedInv
  BY TypeInit DEF Init, OwedInv
<1>2. TInv /\ OwedInv /\ [Next]_vars => TInv' /\ OwedInv'
  BY TypeStep, LiveSteps, OwedStep DEF TInv, TypeOK, LiveType
<1>3. TInv /\ OwedInv /\ [Next]_vars
      => [FailuresStand]_vars
  BY LiveSteps, OwedStep DEF TInv, TypeOK, LiveType
<1> QED
  BY <1>1, <1>2, <1>3, PTL DEF Spec, FailedSelectStands

=============================================================================
