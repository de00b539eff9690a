-------------------------- MODULE ChatTurns_proofs --------------------------
(***************************************************************************)
(* Proofs about the turns of one chat, for every set of turns,             *)
(* conversations and codes and every number of events.                     *)
(***************************************************************************)
EXTENDS ChatTurns, SequenceTheorems, FiniteSetTheorems, WellFoundedInduction, TLAPS

TurnType ==
  [at : Stages, conv : Convs \cup {None}, next : Codes \cup {None},
   charts : SUBSET Codes, shown : SUBSET Codes, held : [Codes -> Nat],
   kept : Seq(Row), events : 0..MaxEvents, single : BOOLEAN,
   failed : BOOLEAN, saved : BOOLEAN, told : BOOLEAN, dropped : BOOLEAN,
   shared : BOOLEAN]

NoShare == [x \in Codes |-> 0]

\* Where a turn holds no share of the registry.
Shareless == {"idle", "load", "response", "unmark", "clear", "over",
              "open", "write", "reload", "blocking"}

PlaceInv ==
  \A t \in Turns :
    /\ turn[t].at # "idle" => turn[t].conv \in Convs
    /\ turn[t].at = "queue" => turn[t].next \in Codes
    /\ turn[t].at \in Shareless => turn[t].held = NoShare

-----------------------------------------------------------------------------
(* The registry: a code's count is the number of shares, and a share is a   *)
(* pair of a turn and a number.                                             *)

Shares(x) == {s \in Turns \X (Nat \ {0}) : s[2] <= turn[s[1]].held[x]}

CountInv == \A x \in Codes : IsFiniteSet(Shares(x)) /\ inflight[x] = Cardinality(Shares(x))

Helds == \A t \in Turns : turn[t].held \in [Codes -> Nat]

LEMMA SharesKept ==
  ASSUME NEW x \in Codes, \A u \in Turns : turn'[u].held[x] = turn[u].held[x]
  PROVE  Shares(x)' = Shares(x)
  BY DEF Shares

LEMMA SharesGrow ==
  ASSUME NEW x \in Codes, Helds, IsFiniteSet(Shares(x)), NEW t \in Turns,
         \A u \in Turns : turn'[u].held[x] = IF u = t THEN turn[t].held[x] + 1 ELSE turn[u].held[x]
  PROVE  /\ IsFiniteSet(Shares(x)')
         /\ Cardinality(Shares(x)') = Cardinality(Shares(x)) + 1
<1> DEFINE n == turn[t].held[x] + 1
<1>1. turn[t].held[x] \in Nat /\ n \in Nat \ {0}
  BY DEF Helds
<1>2. <<t, n>> \notin Shares(x)
  BY <1>1 DEF Shares
<1>3. Shares(x)' = Shares(x) \cup {<<t, n>>}
  <2>1. ASSUME NEW u \in Turns, NEW m \in Nat \ {0}
        PROVE  m <= turn'[u].held[x] <=> (m <= turn[u].held[x] \/ (u = t /\ m = n))
    <3>1. turn[u].held[x] \in Nat
      BY DEF Helds
    <3> QED
      BY <1>1, <3>1
  <2> HIDE DEF n
  <2> QED
    BY <1>1, <2>1 DEF Shares
<1> HIDE DEF n
<1> QED
  BY <1>2, <1>3, FS_AddElement

\* The first n shares of a turn are n.
LEMMA OwnShares ==
  ASSUME NEW t, NEW n \in Nat
  PROVE  IsFiniteSet({t} \X (1..n)) /\ Cardinality({t} \X (1..n)) = n
<1>1. IsFiniteSet({t}) /\ Cardinality({t}) = 1
  BY FS_Singleton
<1>2. IsFiniteSet(1..n) /\ Cardinality(1..n) = IF 1 > n THEN 0 ELSE n - 1 + 1
  BY FS_Interval
<1>3. Cardinality(1..n) = n
  BY <1>2
<1>4. /\ IsFiniteSet({t} \X (1..n))
      /\ Cardinality({t} \X (1..n)) = Cardinality({t}) * Cardinality(1..n)
  BY <1>1, <1>2, FS_Product
<1> QED
  BY <1>1, <1>3, <1>4

LEMMA SharesGo ==
  ASSUME NEW x \in Codes, Helds, IsFiniteSet(Shares(x)), NEW t \in Turns,
         \A u \in Turns : turn'[u].held[x] = IF u = t THEN 0 ELSE turn[u].held[x]
  PROVE  /\ IsFiniteSet(Shares(x)')
         /\ Cardinality(Shares(x)') = Cardinality(Shares(x)) - turn[t].held[x]
<1> DEFINE own == {t} \X (1..turn[t].held[x])
<1>1. turn[t].held[x] \in Nat
  BY DEF Helds
<1>2. IsFiniteSet(own) /\ Cardinality(own) = turn[t].held[x]
  BY <1>1, OwnShares
<1>3. own \subseteq Shares(x)
  BY <1>1 DEF Shares
<1>4. Shares(x)' = Shares(x) \ own
  BY <1>1 DEF Shares
<1>5. Shares(x) \cap own = own
  BY <1>3
<1> HIDE DEF own
<1>6. /\ IsFiniteSet(Shares(x) \ own)
      /\ Cardinality(Shares(x) \ own) = Cardinality(Shares(x)) - Cardinality(Shares(x) \cap own)
  BY FS_Difference
<1> QED
  BY <1>2, <1>4, <1>5, <1>6

LEMMA SharesBound ==
  ASSUME NEW x \in Codes, Helds, IsFiniteSet(Shares(x)), NEW t \in Turns
  PROVE  turn[t].held[x] \in Nat /\ turn[t].held[x] <= Cardinality(Shares(x))
<1>1. turn[t].held[x] \in Nat
  BY DEF Helds
<1> DEFINE own == {t} \X (1..turn[t].held[x])
<1>2. own \in SUBSET Shares(x)
  BY <1>1 DEF Shares
<1>3. Cardinality(own) = turn[t].held[x]
  BY <1>1, OwnShares
<1>4. Cardinality(own) <= Cardinality(Shares(x))
  BY <1>2, FS_Subset
<1> QED
  BY <1>1, <1>3, <1>4

-----------------------------------------------------------------------------
(* The rows an edit keeps.                                                  *)

LEMMA LeastNatural ==
  ASSUME NEW S \in SUBSET Nat, S # {}
  PROVE  \E n \in S : \A m \in S : n <= m
<1> DEFINE R == {ss \in Nat \X Nat : ss[1] < ss[2]}
<1>1. IsWellFoundedOn(R, Nat)
  BY NatLessThanWellFounded DEF OpToRel
<1> HIDE DEF R
<1>2. PICK n \in S : \A m \in S : ~(<<m, n>> \in R)
  BY <1>1, WFMin
<1>3. \A m \in S : ~(m < n)
  BY <1>2 DEF R
<1> QED
  BY <1>3

LEMMA LastHumanIsARow ==
  ASSUME NEW rows \in Seq(Row), \E i \in 1..Len(rows) : ~rows[i].ai
  PROVE  LastHuman(rows) \in 1..Len(rows)
<1> DEFINE humans == {i \in 1..Len(rows) : ~rows[i].ai}
           left == {Len(rows) - i : i \in humans}
<1>1. Len(rows) \in Nat
  OBVIOUS
<1>2. left \in SUBSET Nat /\ left # {}
  BY <1>1
<1>3. PICK n \in left : \A m \in left : n <= m
  BY <1>2, LeastNatural
<1>4. PICK i \in humans : n = Len(rows) - i
  BY <1>3
<1>5. ASSUME NEW j \in humans PROVE j <= i
  <2>1. Len(rows) - j \in left
    OBVIOUS
  <2>2. Len(rows) - i <= Len(rows) - j
    BY <1>3, <1>4, <2>1
  <2> QED
    BY <1>1, <2>2
<1>6. LastHuman(rows) \in humans
  BY <1>5 DEF LastHuman
<1> QED
  BY <1>6

LEMMA KeptRows ==
  ASSUME NEW rows \in Seq(Row), \E i \in 1..Len(rows) : ~rows[i].ai
  PROVE  SubSeq(rows, 1, LastHuman(rows) - 1) \in Seq(Row)
<1>1. LastHuman(rows) \in 1..Len(rows) /\ Len(rows) \in Nat
  BY LastHumanIsARow
<1>2. \A i \in 1..(LastHuman(rows) - 1) : rows[i] \in Row
  BY <1>1, ElementOfSeq
<1> QED
  BY <1>1, <1>2, SubSeqProperties

\* A row is added at the end of one conversation.
LEMMA Appends ==
  ASSUME hist \in [Convs -> Seq(Row)], NEW c \in Convs, NEW row \in Row
  PROVE  /\ Appended(c, row) \in [Convs -> Seq(Row)]
         /\ \A d \in Convs : /\ Len(Appended(c, row)[d]) = Len(hist[d]) + (IF d = c THEN 1 ELSE 0)
                            /\ \A i \in 1..Len(hist[d]) : Appended(c, row)[d][i] = hist[d][i]
         /\ Appended(c, row)[c][Len(hist[c]) + 1] = row
<1>1. Append(hist[c], row) \in Seq(Row)
  BY AppendProperties
<1>2. Appended(c, row) \in [Convs -> Seq(Row)]
  BY <1>1 DEF Appended
<1>3. \A d \in Convs : Appended(c, row)[d] = IF d = c THEN Append(hist[c], row) ELSE hist[d]
  BY DEF Appended
<1>4. \A d \in Convs : Len(hist[d]) \in Nat
  OBVIOUS
<1>5. /\ Len(Append(hist[c], row)) = Len(hist[c]) + 1
      /\ \A i \in 1..Len(hist[c]) : Append(hist[c], row)[i] = hist[c][i]
      /\ Append(hist[c], row)[Len(hist[c]) + 1] = row
  BY AppendProperties
<1> QED
  BY <1>2, <1>3, <1>4, <1>5, SMTT(30)

LEMMA RowTypes ==
  ASSUME NEW t \in Turns
  PROVE  Human(t) \in Row /\ \A codes \in SUBSET Codes : Answer(t, codes) \in Row
  BY DEF Human, Answer, Row

-----------------------------------------------------------------------------
(* Types.                                                                   *)

TInv == TypeOK /\ PlaceInv /\ CountInv

LEMMA TypeInit == Init => TInv
<1> SUFFICES ASSUME Init PROVE TInv
  OBVIOUS
<1>1. Idle \in TurnType
  BY NoneAssumption, EmptySeq DEF Idle, TurnType, Stages
<1>2. NoLookup \in [at : {"idle", "registry", "files"}, turn : Turns \cup {None},
                    code : Codes \cup {None}, unread : SUBSET Convs]
  BY DEF NoLookup
<1>3. hist \in [Convs -> Seq(Row)]
  BY EmptySeq DEF Init
<1>4. TypeOK
  BY <1>1, <1>2, <1>3 DEF Init, TypeOK, TurnType
<1>5. PlaceInv
  BY DEF Init, PlaceInv, Idle, NoShare
<1>6. \A x \in Codes : Shares(x) = {}
  BY DEF Init, Shares, Idle
<1>7. CountInv
  BY <1>6, FS_EmptySet DEF Init, CountInv
<1> QED
  BY <1>4, <1>5, <1>7 DEF TInv

-----------------------------------------------------------------------------
(* What each step makes of the turn that takes it.                          *)

Becomes(t, r) == turn' = [turn EXCEPT ![t] = r] /\ r \in TurnType

\* Nothing of a turn but its place, or what is named apart, is changed.
SameConv(t, r) == r.conv = turn[t].conv /\ r.shared = turn[t].shared
SameEnd(t, r) == /\ r.failed = turn[t].failed /\ r.saved = turn[t].saved
                 /\ r.dropped = turn[t].dropped
SameCodes(t, r) == /\ r.charts = turn[t].charts /\ r.shown = turn[t].shown
                   /\ r.held = turn[t].held
SameTurn(t, r) == SameConv(t, r) /\ SameEnd(t, r) /\ SameCodes(t, r)

Typed == turn \in [Turns -> TurnType]

LEMMA Fields ==
  ASSUME Typed, NEW t \in Turns
  PROVE  /\ turn[t].at \in Stages /\ turn[t].conv \in Convs \cup {None}
         /\ turn[t].next \in Codes \cup {None} /\ turn[t].charts \in SUBSET Codes
         /\ turn[t].shown \in SUBSET Codes /\ turn[t].held \in [Codes -> Nat]
         /\ turn[t].kept \in Seq(Row) /\ turn[t].events \in 0..MaxEvents
         /\ turn[t].failed \in BOOLEAN /\ turn[t].saved \in BOOLEAN
         /\ turn[t].told \in BOOLEAN /\ turn[t].shared \in BOOLEAN
         /\ turn[t].single \in BOOLEAN /\ turn[t].dropped \in BOOLEAN
  BY DEF Typed, TurnType

LEMMA Became ==
  ASSUME Typed, NEW t \in Turns, NEW r, Becomes(t, r)
  PROVE  /\ Typed' /\ turn'[t] = r
         /\ \A u \in Turns : u # t => turn'[u] = turn[u]
  BY DEF Typed, Becomes

LEMMA GoesTo ==
  ASSUME Typed, NEW t \in Turns, NEW at \in Stages, Goes(t, at)
  PROVE  \E r : Becomes(t, r) /\ r.at = at /\ SameTurn(t, r) /\ r.next = turn[t].next
<1> DEFINE r == [turn[t] EXCEPT !.at = at]
<1>1. turn' = [turn EXCEPT ![t] = r]
  BY DEF Typed, Goes
<1>2. r \in TurnType /\ r.at = at /\ SameTurn(t, r) /\ r.next = turn[t].next
  BY DEF Typed, TurnType, SameTurn, SameConv, SameEnd, SameCodes
<1> QED
  BY <1>1, <1>2 DEF Becomes

LEMMA AsksTo ==
  ASSUME Typed, NEW t \in Turns, NEW c \in Convs, Ask(t, c)
  PROVE  \E r : /\ Becomes(t, r) /\ r.at = "load" /\ r.conv = c
                /\ SameEnd(t, r) /\ SameCodes(t, r)
<1> DEFINE r == [turn[t] EXCEPT !.at = "load", !.conv = c]
<1>1. turn' = [turn EXCEPT ![t] = r]
  BY DEF Typed, Ask
<1>2. r \in TurnType /\ r.at = "load" /\ r.conv = c /\ SameEnd(t, r) /\ SameCodes(t, r)
  BY ZenonT(60) DEF Typed, TurnType, Stages, SameEnd, SameCodes
<1> QED
  BY <1>1, <1>2 DEF Becomes

LEMMA RegistersTo ==
  ASSUME Typed, NEW t \in Turns, NEW x \in Codes, NEW single \in BOOLEAN, Registers(t, x, single)
  PROVE  \E r : /\ Becomes(t, r) /\ r.at = "queue" /\ r.next = x
                /\ SameConv(t, r) /\ SameEnd(t, r)
                /\ r.charts = turn[t].charts /\ r.shown = turn[t].shown
                /\ \A y \in Codes : r.held[y] = IF y = x THEN turn[t].held[y] + 1 ELSE turn[t].held[y]
<1> DEFINE h == [turn[t].held EXCEPT ![x] = @ + 1]
           e == turn[t].events + 1
<1>1. turn[t].held \in [Codes -> Nat] /\ turn[t].events \in 0..MaxEvents
  BY Fields
<1>2. /\ h \in [Codes -> Nat]
      /\ \A y \in Codes : h[y] = IF y = x THEN turn[t].held[y] + 1 ELSE turn[t].held[y]
  BY <1>1
<1>3. e \in 0..MaxEvents
  BY <1>1, NoneAssumption DEF Registers
<1> DEFINE r == [turn[t] EXCEPT !.at = "queue", !.next = x, !.held = h, !.events = e, !.single = single]
<1>4. turn' = [turn EXCEPT ![t] = r]
  BY ZenonT(60) DEF Typed, Registers
<1> HIDE DEF h, e
<1>5. turn[t] \in TurnType
  BY DEF Typed
<1>s. single \in BOOLEAN
  OBVIOUS
<1>6. r \in TurnType
  BY <1>2, <1>3, <1>5, <1>s DEF TurnType, Stages
<1>7. /\ r.at = "queue" /\ r.next = x /\ r.held = h
      /\ SameConv(t, r) /\ SameEnd(t, r)
      /\ r.charts = turn[t].charts /\ r.shown = turn[t].shown
  BY <1>5 DEF TurnType, SameConv, SameEnd
<1> HIDE DEF r
<1> QED
  BY <1>2, <1>4, <1>6, <1>7 DEF Becomes

LEMMA QueuesTo ==
  ASSUME Typed, NEW t \in Turns, turn[t].next \in Codes, Queues(t)
  PROVE  \E r : /\ Becomes(t, r) /\ r.at = "boundary"
                /\ SameConv(t, r) /\ SameEnd(t, r) /\ r.held = turn[t].held
                /\ r.charts = turn[t].charts \cup {turn[t].next}
                /\ r.shown = turn[t].shown \cup {turn[t].next}
<1> DEFINE s == turn[t].shown \cup {turn[t].next}
           k == turn[t].charts \cup {turn[t].next}
<1>1. s \in SUBSET Codes /\ k \in SUBSET Codes
  BY Fields
<1> DEFINE r == [turn[t] EXCEPT !.at = "boundary", !.next = None, !.shown = s, !.charts = k]
<1>2. turn' = [turn EXCEPT ![t] = r]
  BY DEF Typed, Queues
<1> HIDE DEF s, k
<1>3. turn[t] \in TurnType
  BY DEF Typed
<1>4. r \in TurnType
  BY <1>1, <1>3 DEF TurnType, Stages
<1>5. /\ r.at = "boundary" /\ SameConv(t, r) /\ SameEnd(t, r)
      /\ r.held = turn[t].held /\ r.charts = k /\ r.shown = s
  BY <1>3 DEF TurnType, SameConv, SameEnd
<1> QED
  BY <1>2, <1>4, <1>5 DEF Becomes, s, k

LEMMA StopsHereTo ==
  ASSUME Typed, NEW t \in Turns, StopsHere(t)
  PROVE  \E r : /\ Becomes(t, r) /\ r.at = "persist" /\ SameConv(t, r)
                /\ r.failed = turn[t].failed /\ r.saved = turn[t].saved
                /\ r.shown = turn[t].shown /\ r.held = turn[t].held
                /\ r.charts \subseteq turn[t].charts
                /\ r.dropped \/ r.charts = turn[t].charts
<1> DEFINE d == turn[t].single
           k == IF turn[t].single THEN {} ELSE turn[t].charts
<1>1. turn[t] \in TurnType
  BY DEF Typed
<1>2. /\ d \in BOOLEAN /\ k \in SUBSET Codes /\ k \subseteq turn[t].charts
      /\ d \/ k = turn[t].charts
  BY Fields
<1> DEFINE r == [turn[t] EXCEPT !.at = "persist", !.dropped = d, !.charts = k]
<1>3. turn' = [turn EXCEPT ![t] = r]
  BY DEF Typed, StopsHere
<1> HIDE DEF d, k
<1>4. r \in TurnType
  BY <1>1, <1>2 DEF TurnType, Stages
<1>5. /\ r.at = "persist" /\ SameConv(t, r)
      /\ r.failed = turn[t].failed /\ r.saved = turn[t].saved
      /\ r.shown = turn[t].shown /\ r.held = turn[t].held
      /\ r.charts = k /\ r.dropped = d
  BY <1>1 DEF TurnType, SameConv
<1> QED
  BY <1>2, <1>3, <1>4, <1>5 DEF Becomes

LEMMA GeneratedTo ==
  ASSUME Typed, NEW t \in Turns, NEW failed \in BOOLEAN, Generated(t, failed)
  PROVE  \E r : /\ Becomes(t, r)
                /\ r.at = "persist" /\ r.failed = failed /\ r.saved = turn[t].saved /\ r.dropped = turn[t].dropped
                /\ SameConv(t, r) /\ SameCodes(t, r)
<1>1. turn[t] \in TurnType
  BY DEF Typed
<1>2. failed \in BOOLEAN
  OBVIOUS
<1> DEFINE r == [turn[t] EXCEPT !.at = "persist", !.failed = failed]
<1>3. turn' = [turn EXCEPT ![t] = r]
  BY DEF Typed, Generated
<1>4. r \in TurnType
  BY <1>1, <1>2 DEF TurnType, Stages
<1>5. /\ r.at = "persist" /\ r.failed = failed /\ r.saved = turn[t].saved /\ r.dropped = turn[t].dropped
      /\ SameConv(t, r) /\ SameCodes(t, r)
  BY <1>1 DEF TurnType, SameConv, SameEnd, SameCodes
<1> QED
  BY <1>3, <1>4, <1>5 DEF Becomes

LEMMA SavesTo ==
  ASSUME Typed, NEW t \in Turns, turn' = [turn EXCEPT ![t].at = "drop", ![t].saved = TRUE, ![t].charts = {}, ![t].events = 0, ![t].single = FALSE, ![t].told = FALSE]
  PROVE  \E r : /\ Becomes(t, r)
                /\ r.at = "drop" /\ r.failed = turn[t].failed /\ r.saved = TRUE /\ r.dropped = turn[t].dropped /\ r.charts = {}
                /\ SameConv(t, r) /\ r.held = turn[t].held /\ r.shown = turn[t].shown
<1>1. turn[t] \in TurnType
  BY DEF Typed
<1>2. 0 \in 0..MaxEvents
  BY NoneAssumption
<1> DEFINE r == [turn[t] EXCEPT !.at = "drop", !.saved = TRUE, !.charts = {}, !.events = 0, !.single = FALSE, !.told = FALSE]
<1>3. turn' = [turn EXCEPT ![t] = r]
  BY DEF Typed, Becomes
<1>4. r \in TurnType
  BY <1>1, <1>2 DEF TurnType, Stages
<1>5. /\ r.at = "drop" /\ r.failed = turn[t].failed /\ r.saved = TRUE /\ r.dropped = turn[t].dropped /\ r.charts = {}
      /\ SameConv(t, r) /\ r.held = turn[t].held /\ r.shown = turn[t].shown
  BY <1>1 DEF TurnType, SameConv, SameEnd, SameCodes
<1> QED
  BY <1>3, <1>4, <1>5 DEF Becomes

LEMMA LosesTo ==
  ASSUME Typed, NEW t \in Turns, turn' = [turn EXCEPT ![t].at = "drop", ![t].charts = {}, ![t].events = 0, ![t].single = FALSE, ![t].told = FALSE]
  PROVE  \E r : /\ Becomes(t, r)
                /\ r.at = "drop" /\ SameEnd(t, r) /\ r.charts = {}
                /\ SameConv(t, r) /\ r.held = turn[t].held /\ r.shown = turn[t].shown
<1>1. turn[t] \in TurnType
  BY DEF Typed
<1>2. 0 \in 0..MaxEvents
  BY NoneAssumption
<1> DEFINE r == [turn[t] EXCEPT !.at = "drop", !.charts = {}, !.events = 0, !.single = FALSE, !.told = FALSE]
<1>3. turn' = [turn EXCEPT ![t] = r]
  BY DEF Typed, Becomes
<1>4. r \in TurnType
  BY <1>1, <1>2 DEF TurnType, Stages
<1>5. /\ r.at = "drop" /\ SameEnd(t, r) /\ r.charts = {}
      /\ SameConv(t, r) /\ r.held = turn[t].held /\ r.shown = turn[t].shown
  BY <1>1 DEF TurnType, SameConv, SameEnd, SameCodes
<1> QED
  BY <1>3, <1>4, <1>5 DEF Becomes

LEMMA DropsTo ==
  ASSUME Typed, NEW t \in Turns, Drops(t)
  PROVE  \E r : /\ Becomes(t, r)
                /\ r.at = "unmark" /\ SameConv(t, r) /\ SameEnd(t, r) /\ r.shown = turn[t].shown
                /\ r.held = NoShare
<1> DEFINE h == NoShare
<1>1. turn[t] \in TurnType
  BY DEF Typed
<1>2. h \in [Codes -> Nat]
  BY DEF NoShare
<1> DEFINE r == [turn[t] EXCEPT !.at = "unmark", !.held = h]
<1>3. turn' = [turn EXCEPT ![t] = r]
  BY DEF Typed, Drops, NoShare
<1> HIDE DEF h
<1>4. r \in TurnType
  BY <1>1, <1>2 DEF TurnType, Stages
<1>5. /\ r.at = "unmark" /\ SameConv(t, r) /\ SameEnd(t, r) /\ r.shown = turn[t].shown
      /\ r.held = h
  BY <1>1 DEF TurnType, SameConv, SameEnd, SameCodes
<1> QED
  BY <1>3, <1>4, <1>5 DEF Becomes, h

LEMMA EditReadsTo ==
  ASSUME Typed, NEW t \in Turns, NEW c \in Convs, hist[c] \in Seq(Row), EditReads(t, c)
  PROVE  \E r : /\ Becomes(t, r)
                /\ r.at = "open" /\ r.conv = c /\ SameEnd(t, r) /\ SameCodes(t, r)
<1> DEFINE k == SubSeq(hist[c], 1, LastHuman(hist[c]) - 1)
<1>1. turn[t] \in TurnType
  BY DEF Typed
<1>2. k \in Seq(Row)
  BY KeptRows DEF EditReads
<1> DEFINE r == [turn[t] EXCEPT !.at = "open", !.conv = c, !.kept = k]
<1>3. turn' = [turn EXCEPT ![t] = r]
  BY DEF Typed, EditReads
<1> HIDE DEF k
<1>4. r \in TurnType
  BY <1>1, <1>2 DEF TurnType, Stages
<1>5. /\ r.at = "open" /\ r.conv = c /\ SameEnd(t, r) /\ SameCodes(t, r)
  BY <1>1 DEF TurnType, SameConv, SameEnd, SameCodes
<1> QED
  BY <1>3, <1>4, <1>5 DEF Becomes, k

LEMMA EditWritesTo ==
  ASSUME Typed, NEW t \in Turns, EditWrites(t)
  PROVE  \E r : /\ Becomes(t, r)
                /\ r.at = "reload" /\ SameTurn(t, r)
<1>1. turn[t] \in TurnType
  BY DEF Typed
<1>2. <<>> \in Seq(Row)
  BY EmptySeq
<1> DEFINE r == [turn[t] EXCEPT !.at = "reload", !.kept = <<>>]
<1>3. turn' = [turn EXCEPT ![t] = r]
  BY DEF Typed, EditWrites
<1>4. r \in TurnType
  BY <1>1, <1>2 DEF TurnType, Stages
<1>5. /\ r.at = "reload" /\ SameTurn(t, r)
  BY <1>1 DEF TurnType, SameConv, SameEnd, SameCodes, SameTurn
<1> QED
  BY <1>3, <1>4, <1>5 DEF Becomes

LEMMA EditFailsTo ==
  ASSUME Typed, NEW t \in Turns, EditFails(t)
  PROVE  \E r : /\ Becomes(t, r)
                /\ r.at = "over" /\ r.saved = turn[t].saved /\ r.dropped = turn[t].dropped /\ SameConv(t, r) /\ SameCodes(t, r)
<1>1. turn[t] \in TurnType
  BY DEF Typed
<1>2. TRUE \in BOOLEAN
  OBVIOUS
<1> DEFINE r == [turn[t] EXCEPT !.at = "over", !.failed = TRUE]
<1>3. turn' = [turn EXCEPT ![t] = r]
  BY DEF Typed, EditFails
<1>4. r \in TurnType
  BY <1>1, <1>2 DEF TurnType, Stages
<1>5. /\ r.at = "over" /\ r.saved = turn[t].saved /\ r.dropped = turn[t].dropped /\ SameConv(t, r) /\ SameCodes(t, r)
  BY <1>1 DEF TurnType, SameConv, SameEnd, SameCodes
<1> QED
  BY <1>3, <1>4, <1>5 DEF Becomes

LEMMA EditRegistersTo ==
  ASSUME Typed, NEW t \in Turns, NEW codes \in SUBSET Codes, EditRegisters(t, codes)
  PROVE  \E r : /\ Becomes(t, r)
                /\ r.at = "append" /\ SameConv(t, r) /\ SameEnd(t, r)
                /\ r.charts = codes /\ r.shown = turn[t].shown
                /\ r.held = [x \in Codes |-> IF x \in codes THEN 1 ELSE 0]
<1> DEFINE h == [x \in Codes |-> IF x \in codes THEN 1 ELSE 0]
<1>1. turn[t] \in TurnType
  BY DEF Typed
<1>2. h \in [Codes -> Nat]
  OBVIOUS
<1> DEFINE r == [turn[t] EXCEPT !.at = "append", !.charts = codes, !.held = h]
<1>3. turn' = [turn EXCEPT ![t] = r]
  BY DEF Typed, EditRegisters
<1> HIDE DEF h
<1>4. r \in TurnType
  BY <1>1, <1>2 DEF TurnType, Stages
<1>5. /\ r.at = "append" /\ SameConv(t, r) /\ SameEnd(t, r)
      /\ r.charts = codes /\ r.shown = turn[t].shown
      /\ r.held = h
  BY <1>1 DEF TurnType, SameConv, SameEnd, SameCodes
<1> QED
  BY <1>3, <1>4, <1>5 DEF Becomes, h

LEMMA EditSavesTo ==
  ASSUME Typed, NEW t \in Turns, turn' = [turn EXCEPT ![t].at = "reply", ![t].saved = TRUE]
  PROVE  \E r : /\ Becomes(t, r)
                /\ r.at = "reply" /\ r.failed = turn[t].failed /\ r.saved = TRUE /\ r.dropped = turn[t].dropped
                /\ SameConv(t, r) /\ SameCodes(t, r)
<1>1. turn[t] \in TurnType
  BY DEF Typed
<1>2. TRUE \in BOOLEAN
  OBVIOUS
<1> DEFINE r == [turn[t] EXCEPT !.at = "reply", !.saved = TRUE]
<1>3. turn' = [turn EXCEPT ![t] = r]
  BY DEF Typed, Becomes
<1>4. r \in TurnType
  BY <1>1, <1>2 DEF TurnType, Stages
<1>5. /\ r.at = "reply" /\ r.failed = turn[t].failed /\ r.saved = TRUE /\ r.dropped = turn[t].dropped
      /\ SameConv(t, r) /\ SameCodes(t, r)
  BY <1>1 DEF TurnType, SameConv, SameEnd, SameCodes
<1> QED
  BY <1>3, <1>4, <1>5 DEF Becomes

LEMMA EditLosesTo ==
  ASSUME Typed, NEW t \in Turns, turn' = [turn EXCEPT ![t].at = "reply", ![t].failed = TRUE]
  PROVE  \E r : /\ Becomes(t, r)
                /\ r.at = "reply" /\ r.saved = turn[t].saved /\ r.dropped = turn[t].dropped
                /\ SameConv(t, r) /\ SameCodes(t, r)
<1>1. turn[t] \in TurnType
  BY DEF Typed
<1>2. TRUE \in BOOLEAN
  OBVIOUS
<1> DEFINE r == [turn[t] EXCEPT !.at = "reply", !.failed = TRUE]
<1>3. turn' = [turn EXCEPT ![t] = r]
  BY DEF Typed, Becomes
<1>4. r \in TurnType
  BY <1>1, <1>2 DEF TurnType, Stages
<1>5. /\ r.at = "reply" /\ r.saved = turn[t].saved /\ r.dropped = turn[t].dropped
      /\ SameConv(t, r) /\ SameCodes(t, r)
  BY <1>1 DEF TurnType, SameConv, SameEnd, SameCodes
<1> QED
  BY <1>3, <1>4, <1>5 DEF Becomes

LEMMA EditRepliesTo ==
  ASSUME Typed, NEW t \in Turns, EditReplies(t)
  PROVE  \E r : /\ Becomes(t, r)
                /\ r.at = "over" /\ SameConv(t, r) /\ SameEnd(t, r)
                /\ r.held = NoShare
                /\ r.shown = IF turn[t].saved THEN turn[t].charts ELSE {}
<1> DEFINE h == NoShare
           s == IF turn[t].saved THEN turn[t].charts ELSE {}
<1>1. turn[t] \in TurnType
  BY DEF Typed
<1>2. h \in [Codes -> Nat] /\ s \in SUBSET Codes
  BY Fields DEF NoShare
<1> DEFINE r == [turn[t] EXCEPT !.at = "over", !.held = h, !.shown = s, !.charts = {}]
<1>3. turn' = [turn EXCEPT ![t] = r]
  BY DEF Typed, EditReplies, NoShare
<1> HIDE DEF h, s
<1>4. r \in TurnType
  BY <1>1, <1>2 DEF TurnType, Stages
<1>5. /\ r.at = "over" /\ SameConv(t, r) /\ SameEnd(t, r)
      /\ r.held = h
      /\ r.shown = s
  BY <1>1 DEF TurnType, SameConv, SameEnd, SameCodes
<1> QED
  BY <1>3, <1>4, <1>5 DEF Becomes, h, s

\* A worker's start, and a Stop, note what they meet in every turn.
LEMMA StartsTo ==
  ASSUME Typed, NEW t \in Turns, WorkerStarts(t)
  PROVE  /\ Typed' /\ turn'[t].at = "run" /\ turn'[t].conv = turn[t].conv
         /\ SameEnd(t, turn'[t]) /\ SameCodes(t, turn'[t])
         /\ \A u \in Turns \ {t} :
              /\ turn'[u].at = turn[u].at /\ turn'[u].conv = turn[u].conv
              /\ turn'[u].next = turn[u].next
              /\ SameEnd(u, turn'[u]) /\ SameCodes(u, turn'[u])
              /\ turn[u].shared => turn'[u].shared
              /\ Working(u) /\ turn[u].conv = turn[t].conv => turn'[u].shared /\ turn'[t].shared
<1> DEFINE others == {u \in Turns \ {t} : Working(u) /\ turn[u].conv = turn[t].conv}
           b == others # {}
           a(u) == turn[u].shared \/ u \in others
           mine == [turn[t] EXCEPT !.at = "run", !.shared = b]
           theirs(u) == [turn[u] EXCEPT !.shared = a(u)]
<1>1. b \in BOOLEAN /\ \A u \in Turns : a(u) \in BOOLEAN
  OBVIOUS
<1>2. turn' = [u \in Turns |-> IF u = t THEN mine ELSE theirs(u)]
  BY DEF WorkerStarts
<1> HIDE DEF b, a
<1>3. /\ mine \in TurnType /\ mine.at = "run" /\ mine.conv = turn[t].conv
      /\ SameEnd(t, mine) /\ SameCodes(t, mine) /\ mine.shared = b
  BY <1>1, ZenonT(60) DEF Typed, TurnType, Stages, SameEnd, SameCodes
<1>4. \A u \in Turns :
        /\ theirs(u) \in TurnType /\ theirs(u).at = turn[u].at /\ theirs(u).conv = turn[u].conv
        /\ theirs(u).next = turn[u].next
        /\ SameEnd(u, theirs(u)) /\ SameCodes(u, theirs(u)) /\ theirs(u).shared = a(u)
  BY <1>1, ZenonT(60) DEF Typed, TurnType, SameEnd, SameCodes
<1> HIDE DEF mine, theirs
<1>5. turn'[t] = mine /\ \A u \in Turns \ {t} : turn'[u] = theirs(u)
  BY <1>2
<1>6. \A u \in Turns : /\ turn[u].shared => a(u)
                       /\ u # t /\ Working(u) /\ turn[u].conv = turn[t].conv => a(u) /\ b
  BY DEF a, b
<1> QED
  BY <1>2, <1>3, <1>4, <1>5, <1>6 DEF Typed

LEMMA StopsTo ==
  ASSUME Typed, NEW c \in Convs, Stop(c)
  PROVE  /\ Typed'
         /\ \A u \in Turns : /\ turn'[u].at = turn[u].at /\ turn'[u].next = turn[u].next
                             /\ SameTurn(u, turn'[u])
<1> DEFINE told(u) == turn[u].conv = c /\ turn[u].at \in {"run", "queue", "boundary"}
           tells(u) == [turn[u] EXCEPT !.told = TRUE]
<1>1. turn' = [u \in Turns |-> IF told(u) THEN tells(u) ELSE turn[u]]
  BY DEF Stop
<1>2. \A u \in Turns :
        /\ tells(u) \in TurnType /\ tells(u).at = turn[u].at /\ tells(u).next = turn[u].next
        /\ SameTurn(u, tells(u))
  BY ZenonT(60) DEF Typed, TurnType, SameTurn, SameConv, SameEnd, SameCodes
<1>3. \A u \in Turns : SameTurn(u, turn[u])
  BY DEF SameTurn, SameConv, SameEnd, SameCodes
<1> HIDE DEF told, tells
<1> QED
  BY <1>1, <1>2, <1>3 DEF Typed

-----------------------------------------------------------------------------
(* Each step keeps the types, the places and the counts.                    *)

LEMMA TypedHere == TypeOK <=> /\ Typed
                              /\ hist \in [Convs -> Seq(Row)]
                              /\ generating \subseteq Convs /\ cancel \subseteq Convs /\ cut \subseteq Convs
                              /\ inflight \in [Codes -> Nat]
                              /\ loop \in Turns \cup {None}
                              /\ lookup \in [at : {"idle", "registry", "files"}, turn : Turns \cup {None},
                                             code : Codes \cup {None}, unread : SUBSET Convs]
  BY DEF TypeOK, Typed, TurnType

\* What a step of one turn must show.
LEMMA Moves ==
  ASSUME TInv, NEW t \in Turns, NEW r, Becomes(t, r),
         r.at # "idle" => r.conv \in Convs,
         r.at = "queue" => r.next \in Codes,
         r.at \in Shareless => r.held = NoShare
  PROVE  Typed' /\ PlaceInv'
<1>1. Typed
  BY TypedHere DEF TInv
<1> QED
  BY <1>1, Became DEF TInv, PlaceInv

LEMMA CountsKept ==
  ASSUME TInv, inflight' = inflight, \A u \in Turns : turn'[u].held = turn[u].held
  PROVE  CountInv' /\ inflight' \in [Codes -> Nat]
<1>1. ASSUME NEW x \in Codes PROVE Shares(x)' = Shares(x)
  BY <1>1, SharesKept
<1> QED
  BY <1>1 DEF TInv, CountInv, TypeOK

LEMMA CountsGo ==
  ASSUME TInv, NEW t \in Turns, inflight' = Released(t),
         turn'[t].held = NoShare, \A u \in Turns : u # t => turn'[u].held = turn[u].held
  PROVE  CountInv' /\ inflight' \in [Codes -> Nat]
<1>1. Helds
  BY TypedHere, Fields DEF TInv, Helds
<1>2. ASSUME NEW x \in Codes
      PROVE  /\ IsFiniteSet(Shares(x)') /\ inflight'[x] = Cardinality(Shares(x)')
             /\ inflight'[x] \in Nat
  <2>1. IsFiniteSet(Shares(x)) /\ inflight[x] = Cardinality(Shares(x)) /\ inflight[x] \in Nat
    BY DEF TInv, CountInv, TypeOK
  <2>2. \A u \in Turns : turn'[u].held[x] = IF u = t THEN 0 ELSE turn[u].held[x]
    BY DEF NoShare
  <2>3. /\ IsFiniteSet(Shares(x)')
        /\ Cardinality(Shares(x)') = Cardinality(Shares(x)) - turn[t].held[x]
    BY <1>1, <2>1, <2>2, SharesGo
  <2>4. turn[t].held[x] \in Nat /\ turn[t].held[x] <= Cardinality(Shares(x))
    BY <1>1, <2>1, SharesBound
  <2>5. inflight'[x] = inflight[x] - turn[t].held[x]
    BY DEF Released
  <2> QED
    BY <2>1, <2>3, <2>4, <2>5
<1>3. inflight' = [x \in Codes |-> inflight'[x]]
  BY DEF Released
<1> QED
  BY <1>2, <1>3 DEF CountInv

LEMMA CountsGrow ==
  ASSUME TInv, NEW t \in Turns, NEW S \in SUBSET Codes,
         inflight' = [x \in Codes |-> inflight[x] + (IF x \in S THEN 1 ELSE 0)],
         \A x \in Codes : turn'[t].held[x] = IF x \in S THEN turn[t].held[x] + 1 ELSE turn[t].held[x],
         \A u \in Turns : u # t => turn'[u].held = turn[u].held
  PROVE  CountInv' /\ inflight' \in [Codes -> Nat]
<1>1. Helds
  BY TypedHere, Fields DEF TInv, Helds
<1>2. ASSUME NEW x \in Codes
      PROVE  /\ IsFiniteSet(Shares(x)') /\ inflight'[x] = Cardinality(Shares(x)')
             /\ inflight'[x] \in Nat
  <2>1. IsFiniteSet(Shares(x)) /\ inflight[x] = Cardinality(Shares(x)) /\ inflight[x] \in Nat
    BY DEF TInv, CountInv, TypeOK
  <2>2. CASE x \in S
    <3>1. \A u \in Turns : turn'[u].held[x] = IF u = t THEN turn[t].held[x] + 1 ELSE turn[u].held[x]
      BY <2>2
    <3>2. IsFiniteSet(Shares(x)') /\ Cardinality(Shares(x)') = Cardinality(Shares(x)) + 1
      BY <1>1, <2>1, <3>1, SharesGrow
    <3> QED
      BY <2>1, <2>2, <3>2
  <2>3. CASE x \notin S
    <3>1. Shares(x)' = Shares(x)
      BY <2>3, SharesKept
    <3> QED
      BY <2>1, <2>3, <3>1
  <2> QED
    BY <2>2, <2>3
<1> QED
  BY <1>2 DEF CountInv

LEMMA TypeStep == TInv /\ [Next]_vars => TInv'
<1> SUFFICES ASSUME TInv, [Next]_vars PROVE TInv'
  OBVIOUS
<1>t. TypeOK /\ Typed /\ PlaceInv
  BY TypedHere DEF TInv
<1>s. ASSUME Typed', PlaceInv', CountInv', inflight' \in [Codes -> Nat],
             hist' \in [Convs -> Seq(Row)], generating' \subseteq Convs, cancel' \subseteq Convs,
             cut' \subseteq Convs, loop' \in Turns \cup {None},
             lookup' \in [at : {"idle", "registry", "files"}, turn : Turns \cup {None},
                         code : Codes \cup {None}, unread : SUBSET Convs]
      PROVE  TInv'
  BY <1>s DEF TInv, TypeOK, Typed, TurnType
\* The steps that keep every share.
<1>k. ASSUME NEW t \in Turns, NEW r, Becomes(t, r), r.held = turn[t].held, UNCHANGED inflight
      PROVE  CountInv' /\ inflight' \in [Codes -> Nat]
  <2>1. \A u \in Turns : turn'[u].held = turn[u].held
    BY <1>t, <1>k, Became
  <2> QED
    BY <1>k, <2>1, CountsKept
<1>1. CASE UNCHANGED vars
  <2>1. CountInv' /\ Typed' /\ PlaceInv'
    BY <1>1, <1>t, CountsKept DEF vars, Typed, PlaceInv
  <2> QED
    BY <1>1, <1>t, <1>s, <2>1 DEF vars, TypeOK
<1>2. ASSUME NEW t \in Turns, NEW c \in Convs, Ask(t, c) PROVE TInv'
  <2>1. PICK r : Becomes(t, r) /\ r.at = "load" /\ r.conv = c /\ SameCodes(t, r)
    BY <1>2, <1>t, AsksTo
  <2>2. turn[t].at = "idle"
    BY <1>2 DEF Ask, Idle
  <2>3. Typed' /\ PlaceInv'
    BY <1>t, <2>1, <2>2, Moves DEF SameCodes, PlaceInv, Shareless
  <2> QED
    BY <1>2, <1>t, <1>s, <1>k, <2>1, <2>3 DEF Ask, TypeOK, SameCodes
<1>3. ASSUME NEW t \in Turns, NEW at \in Stages \ {"idle", "queue"}, Goes(t, at), turn[t].at # "idle",
             at \in Shareless => turn[t].at \in Shareless, UNCHANGED inflight
      PROVE  Typed' /\ PlaceInv' /\ CountInv' /\ inflight' \in [Codes -> Nat]
  <2>1. PICK r : Becomes(t, r) /\ r.at = at /\ SameTurn(t, r)
    BY <1>3, <1>t, GoesTo
  <2> QED
    BY <1>3, <1>t, <1>k, <2>1, Moves DEF SameTurn, SameConv, SameCodes, PlaceInv
<1>4. ASSUME NEW t \in Turns,
             \/ AskRefused(t) \/ NeverPulled(t) \/ GoesOn(t) \/ Unmarks(t) \/ Clears(t)
             \/ EditOpens(t) \/ EditRefused(t)
      PROVE  TInv'
  <2>1. /\ \E at \in Stages \ {"idle", "queue"} : /\ Goes(t, at)
                                                  /\ at \in Shareless => turn[t].at \in Shareless
        /\ turn[t].at # "idle" /\ UNCHANGED <<inflight, loop, lookup>>
        /\ generating' \subseteq generating /\ cancel' \subseteq cancel
    BY <1>4 DEF AskRefused, NeverPulled, GoesOn, Unmarks, Clears, EditOpens, EditRefused,
                Stages, Shareless
  <2>2. turn[t].conv \in Convs
    BY <1>t, <2>1 DEF PlaceInv
  <2>3. hist' \in [Convs -> Seq(Row)] /\ cut' \subseteq Convs
    <3>1. CASE EditOpens(t)
      BY <1>t, <2>2, <3>1, EmptySeq DEF TypeOK, EditOpens
    <3>2. UNCHANGED <<hist, cut>> \/ EditOpens(t)
      BY <1>4 DEF AskRefused, NeverPulled, GoesOn, Unmarks, Clears, EditRefused
    <3> QED
      BY <1>t, <3>1, <3>2 DEF TypeOK
  <2>4. Typed' /\ PlaceInv' /\ CountInv' /\ inflight' \in [Codes -> Nat]
    BY <1>3, <2>1
  <2> QED
    BY <1>t, <1>s, <2>1, <2>3, <2>4 DEF TypeOK
<1>5. ASSUME NEW t \in Turns, AskAppends(t) \/ EditAppends(t) PROVE TInv'
  <2>1. /\ \E at \in {"response", "blocking"} : Goes(t, at)
        /\ turn[t].at \in {"load", "reload"} /\ UNCHANGED <<inflight, loop, lookup, generating, cancel, cut>>
        /\ hist' = Appended(turn[t].conv, Human(t))
    BY <1>5 DEF AskAppends, EditAppends
  <2>2. turn[t].conv \in Convs
    BY <1>t, <2>1 DEF PlaceInv
  <2>3. hist' \in [Convs -> Seq(Row)]
    BY <1>t, <2>1, <2>2, Appends, RowTypes DEF TypeOK
  <2>4. Typed' /\ PlaceInv' /\ CountInv' /\ inflight' \in [Codes -> Nat]
    BY <1>3, <2>1 DEF Stages, Shareless
  <2> QED
    BY <1>t, <1>s, <2>1, <2>3, <2>4 DEF TypeOK
<1>6. ASSUME NEW t \in Turns, WorkerStarts(t) PROVE TInv'
  <2>1. turn[t].at = "response" /\ turn[t].conv \in Convs
    BY <1>6, <1>t DEF WorkerStarts, PlaceInv
  <2>2. Typed' /\ PlaceInv' /\ \A u \in Turns : turn'[u].held = turn[u].held
    BY <1>6, <1>t, <2>1, StartsTo DEF PlaceInv, SameCodes, Shareless
  <2>3. CountInv' /\ inflight' \in [Codes -> Nat]
    BY <1>6, <2>2, CountsKept DEF WorkerStarts
  <2> QED
    BY <1>6, <1>t, <1>s, <2>1, <2>2, <2>3 DEF TypeOK, WorkerStarts
<1>7. ASSUME NEW t \in Turns, NEW x \in Codes, NEW single \in BOOLEAN, Registers(t, x, single) PROVE TInv'
  <2>1. PICK r : /\ Becomes(t, r) /\ r.at = "queue" /\ r.next = x /\ SameConv(t, r)
                 /\ \A y \in Codes : r.held[y] = IF y = x THEN turn[t].held[y] + 1 ELSE turn[t].held[y]
    BY <1>7, <1>t, RegistersTo
  <2>2. turn[t].conv \in Convs /\ UNCHANGED <<hist, generating, cancel, loop, lookup, cut>>
    BY <1>7, <1>t DEF PlaceInv, Registers
  <2>3. Typed' /\ PlaceInv'
    BY <2>1, <2>2, Moves DEF SameConv, Shareless
  <2>4. inflight' = [y \in Codes |-> inflight[y] + (IF y \in {x} THEN 1 ELSE 0)]
    <3>1. inflight \in [Codes -> Nat] /\ inflight' = [inflight EXCEPT ![x] = @ + 1]
      BY <1>7, <1>t DEF Registers, TypeOK
    <3>2. \A y \in Codes : inflight[y] + (IF y \in {x} THEN 1 ELSE 0)
                          = IF y = x THEN inflight[x] + 1 ELSE inflight[y]
      BY <3>1
    <3> QED
      BY <3>1, <3>2
  <2>5. /\ turn'[t] = r /\ \A u \in Turns : u # t => turn'[u].held = turn[u].held
    BY <1>t, <2>1, Became
  <2>6. {x} \in SUBSET Codes
    OBVIOUS
  <2>7. CountInv' /\ inflight' \in [Codes -> Nat]
    BY <2>1, <2>4, <2>5, <2>6, CountsGrow, ZenonT(60)
  <2> QED
    BY <1>t, <1>s, <2>2, <2>3, <2>7 DEF TypeOK
<1>8. ASSUME NEW t \in Turns, Queues(t) PROVE TInv'
  <2>1. turn[t].conv \in Convs /\ turn[t].next \in Codes
    BY <1>8, <1>t DEF PlaceInv, Queues
  <2>2. PICK r : Becomes(t, r) /\ r.at = "boundary" /\ SameConv(t, r) /\ r.held = turn[t].held
    BY <1>8, <1>t, <2>1, QueuesTo
  <2>3. Typed' /\ PlaceInv'
    BY <2>1, <2>2, Moves DEF SameConv, Shareless
  <2> QED
    BY <1>8, <1>t, <1>s, <1>k, <2>2, <2>3 DEF TypeOK, Queues
<1>9. ASSUME NEW t \in Turns, NEW failed \in BOOLEAN, Generated(t, failed) PROVE TInv'
  <2>1. turn[t].conv \in Convs
    BY <1>9, <1>t DEF PlaceInv, Generated
  <2>2. PICK r : Becomes(t, r) /\ r.at = "persist" /\ SameConv(t, r) /\ SameCodes(t, r)
    BY <1>9, <1>t, GeneratedTo
  <2>3. Typed' /\ PlaceInv'
    BY <2>1, <2>2, Moves DEF SameConv, Shareless
  <2> QED
    BY <1>9, <1>t, <1>s, <1>k, <2>2, <2>3 DEF TypeOK, Generated, SameCodes
<1>10. ASSUME NEW t \in Turns, Persists(t) PROVE TInv'
  <2>1. turn[t].at = "persist" /\ turn[t].conv \in Convs
    BY <1>10, <1>t DEF PlaceInv, Persists
  <2>2. \E r : Becomes(t, r) /\ r.at = "drop" /\ SameConv(t, r) /\ r.held = turn[t].held
    BY <1>10, <1>t, SavesTo, LosesTo DEF Persists
  <2>3. PICK r : Becomes(t, r) /\ r.at = "drop" /\ SameConv(t, r) /\ r.held = turn[t].held
    BY <2>2
  <2>4. Typed' /\ PlaceInv'
    BY <2>1, <2>3, Moves DEF SameConv, Shareless
  <2>5. hist' \in [Convs -> Seq(Row)]
    <3> DEFINE row == Answer(t, IF turn[t].failed THEN {} ELSE turn[t].charts)
    <3>1. hist \in [Convs -> Seq(Row)]
      BY <1>t DEF TypeOK
    <3>2. (IF turn[t].failed THEN {} ELSE turn[t].charts) \in SUBSET Codes
      BY <1>t, Fields
    <3>3. row \in Row
      BY <3>2, RowTypes
    <3>4. hist' = Appended(turn[t].conv, row) \/ hist' = hist
      BY <1>10 DEF Persists
    <3> HIDE DEF row
    <3> QED
      BY <2>1, <3>1, <3>3, <3>4, Appends
  <2> QED
    BY <1>10, <1>t, <1>s, <1>k, <2>3, <2>4, <2>5 DEF TypeOK, Persists
<1>11. ASSUME NEW t \in Turns, Drops(t) PROVE TInv'
  <2>1. turn[t].at = "drop" /\ turn[t].conv \in Convs
    BY <1>11, <1>t DEF PlaceInv, Drops
  <2>2. PICK r : Becomes(t, r) /\ r.at = "unmark" /\ SameConv(t, r) /\ r.held = NoShare
    BY <1>11, <1>t, DropsTo
  <2>3. Typed' /\ PlaceInv'
    BY <2>1, <2>2, Moves DEF SameConv
  <2>4. turn'[t] = r /\ \A u \in Turns : u # t => turn'[u].held = turn[u].held
    BY <1>t, <2>2, Became
  <2>5. CountInv' /\ inflight' \in [Codes -> Nat]
    BY <1>11, <2>2, <2>4, CountsGo DEF Drops
  <2> QED
    BY <1>11, <1>t, <1>s, <2>3, <2>5 DEF TypeOK, Drops
<1>12. ASSUME NEW c \in Convs, Stop(c) PROVE TInv'
  <2>1. Typed' /\ PlaceInv' /\ \A u \in Turns : turn'[u].held = turn[u].held
    BY <1>12, <1>t, StopsTo DEF PlaceInv, SameTurn, SameConv, SameCodes
  <2>2. CountInv' /\ inflight' \in [Codes -> Nat]
    BY <1>12, <2>1, CountsKept DEF Stop
  <2> QED
    BY <1>12, <1>t, <1>s, <2>1, <2>2 DEF TypeOK, Stop
<1>13. ASSUME NEW t \in Turns, NEW c \in Convs, EditReads(t, c) PROVE TInv'
  <2>1. PICK r : Becomes(t, r) /\ r.at = "open" /\ r.conv = c /\ SameCodes(t, r)
    BY <1>13, <1>t, EditReadsTo DEF TypeOK
  <2>2. turn[t].at = "idle"
    BY <1>13 DEF EditReads, Idle
  <2>3. Typed' /\ PlaceInv'
    BY <1>t, <2>1, <2>2, Moves DEF SameCodes, PlaceInv, Shareless
  <2> QED
    BY <1>13, <1>t, <1>s, <1>k, <2>1, <2>3 DEF EditReads, TypeOK, SameCodes
<1>14. ASSUME NEW t \in Turns, EditWrites(t) PROVE TInv'
  <2>1. turn[t].at = "write" /\ turn[t].conv \in Convs /\ turn[t].kept \in Seq(Row)
    BY <1>14, <1>t, Fields DEF PlaceInv, EditWrites
  <2>2. PICK r : Becomes(t, r) /\ r.at = "reload" /\ SameTurn(t, r)
    BY <1>14, <1>t, EditWritesTo
  <2>3. Typed' /\ PlaceInv'
    BY <1>t, <2>1, <2>2, Moves DEF SameTurn, SameConv, SameCodes, PlaceInv, Shareless
  <2> QED
    BY <1>14, <1>t, <1>s, <1>k, <2>1, <2>2, <2>3 DEF TypeOK, EditWrites, SameTurn, SameCodes
<1>15. ASSUME NEW t \in Turns, EditFails(t) PROVE TInv'
  <2>1. turn[t].at = "blocking" /\ turn[t].conv \in Convs
    BY <1>15, <1>t DEF PlaceInv, EditFails
  <2>2. PICK r : Becomes(t, r) /\ r.at = "over" /\ SameConv(t, r) /\ SameCodes(t, r)
    BY <1>15, <1>t, EditFailsTo
  <2>3. Typed' /\ PlaceInv'
    BY <1>t, <2>1, <2>2, Moves DEF SameConv, SameCodes, PlaceInv, Shareless
  <2>4. hist' \in [Convs -> Seq(Row)]
    <3>1. UNCHANGED hist \/ hist' = Appended(turn[t].conv, Answer(t, {}))
      BY <1>15 DEF EditFails
    <3>2. hist \in [Convs -> Seq(Row)] /\ Answer(t, {}) \in Row
      BY <1>t, RowTypes DEF TypeOK
    <3> QED
      BY <2>1, <3>1, <3>2, Appends
  <2> QED
    BY <1>15, <1>t, <1>s, <1>k, <2>2, <2>3, <2>4 DEF TypeOK, EditFails, SameCodes
<1>16. ASSUME NEW t \in Turns, NEW codes \in SUBSET Codes, EditRegisters(t, codes) PROVE TInv'
  <2>1. turn[t].at = "blocking" /\ turn[t].conv \in Convs /\ turn[t].held = NoShare
    BY <1>16, <1>t DEF PlaceInv, EditRegisters, Shareless
  <2>2. PICK r : /\ Becomes(t, r) /\ r.at = "append" /\ SameConv(t, r)
                 /\ r.held = [x \in Codes |-> IF x \in codes THEN 1 ELSE 0]
    BY <1>16, <1>t, EditRegistersTo
  <2>3. Typed' /\ PlaceInv'
    BY <2>1, <2>2, Moves DEF SameConv, Shareless
  <2>4. turn'[t] = r /\ \A u \in Turns : u # t => turn'[u].held = turn[u].held
    BY <1>t, <2>2, Became
  <2>5. \A x \in Codes : turn'[t].held[x] = IF x \in codes THEN turn[t].held[x] + 1 ELSE turn[t].held[x]
    BY <2>1, <2>2, <2>4 DEF NoShare
  <2>6. inflight' = [x \in Codes |-> inflight[x] + (IF x \in codes THEN 1 ELSE 0)]
    BY <1>16 DEF EditRegisters
  <2>7. CountInv' /\ inflight' \in [Codes -> Nat]
    BY <2>4, <2>5, <2>6, CountsGrow
  <2> QED
    BY <1>16, <1>t, <1>s, <2>3, <2>7 DEF TypeOK, EditRegisters
<1>17. ASSUME NEW t \in Turns, EditPersists(t) PROVE TInv'
  <2>1. turn[t].at = "append" /\ turn[t].conv \in Convs /\ turn[t].charts \in SUBSET Codes
    BY <1>17, <1>t, Fields DEF PlaceInv, EditPersists
  <2>2. PICK r : Becomes(t, r) /\ r.at = "reply" /\ SameConv(t, r) /\ SameCodes(t, r)
    BY <1>17, <1>t, EditSavesTo, EditLosesTo DEF EditPersists
  <2>3. Typed' /\ PlaceInv'
    BY <2>1, <2>2, Moves DEF SameConv, Shareless
  <2>4. hist' \in [Convs -> Seq(Row)]
    BY <1>17, <1>t, <2>1, Appends, RowTypes, SMTT(30) DEF TypeOK, EditPersists
  <2> QED
    BY <1>17, <1>t, <1>s, <1>k, <2>2, <2>3, <2>4 DEF TypeOK, EditPersists, SameCodes
<1>18. ASSUME NEW t \in Turns, EditReplies(t) PROVE TInv'
  <2>1. turn[t].at = "reply" /\ turn[t].conv \in Convs
    BY <1>18, <1>t DEF PlaceInv, EditReplies
  <2>2. PICK r : Becomes(t, r) /\ r.at = "over" /\ SameConv(t, r) /\ r.held = NoShare
    BY <1>18, <1>t, EditRepliesTo
  <2>3. Typed' /\ PlaceInv'
    BY <2>1, <2>2, Moves DEF SameConv
  <2>4. turn'[t] = r /\ \A u \in Turns : u # t => turn'[u].held = turn[u].held
    BY <1>t, <2>2, Became
  <2>5. CountInv' /\ inflight' \in [Codes -> Nat]
    BY <1>18, <2>2, <2>4, CountsGo DEF EditReplies
  <2> QED
    BY <1>18, <1>t, <1>s, <2>3, <2>5 DEF TypeOK, EditReplies
<1>19. CASE Lookup
  <2>1. UNCHANGED <<hist, generating, cancel, inflight, turn, loop, cut>>
    BY <1>19 DEF Lookup, LookupBegins, LookupRegistry, LookupFile, LookupRefuses
  <2>2. lookup' \in [at : {"idle", "registry", "files"}, turn : Turns \cup {None},
                    code : Codes \cup {None}, unread : SUBSET Convs]
    <3> DEFINE LookupType == [at : {"idle", "registry", "files"}, turn : Turns \cup {None},
                              code : Codes \cup {None}, unread : SUBSET Convs]
    <3>1. NoLookup \in LookupType /\ lookup \in LookupType
      BY <1>t DEF NoLookup, TypeOK
    <3>2. [lookup EXCEPT !.at = "files"] \in LookupType
      BY <3>1
    <3>3. ASSUME NEW c \in Convs PROVE [lookup EXCEPT !.unread = @ \ {c}] \in LookupType
      BY <3>1
    <3>4. ASSUME NEW t \in Turns, NEW x \in Codes
          PROVE  [at |-> "registry", turn |-> t, code |-> x, unread |-> Convs] \in LookupType
      OBVIOUS
    <3> HIDE DEF LookupType
    <3>5. lookup' \in LookupType
      BY <1>19, <3>1, <3>2, <3>3, <3>4 DEF Lookup, LookupBegins, LookupRegistry, LookupFile, LookupRefuses
    <3> QED
      BY <3>5 DEF LookupType
  <2>3. CountInv' /\ Typed' /\ PlaceInv'
    BY <1>t, <2>1, CountsKept DEF Typed, PlaceInv
  <2> QED
    BY <1>t, <1>s, <2>1, <2>2, <2>3 DEF TypeOK
<1>20. ASSUME NEW t \in Turns, StopsHere(t) PROVE TInv'
  <2>1. turn[t].conv \in Convs
    BY <1>20, <1>t DEF PlaceInv, StopsHere
  <2>2. PICK r : /\ Becomes(t, r) /\ r.at = "persist" /\ SameConv(t, r)
                 /\ r.held = turn[t].held
    BY <1>20, <1>t, StopsHereTo
  <2>3. Typed' /\ PlaceInv'
    BY <2>1, <2>2, Moves DEF SameConv, Shareless
  <2> QED
    BY <1>20, <1>t, <1>s, <1>k, <2>2, <2>3 DEF TypeOK, StopsHere
<1> QED
  BY <1>1, <1>2, <1>4, <1>5, <1>6, <1>7, <1>8, <1>9, <1>10, <1>11, <1>12, <1>13, <1>14, <1>15,
     <1>16, <1>17, <1>18, <1>19, <1>20 DEF Next, Worker, Handler

\* Type correctness of the turns of a chat. It includes the registry: no
\* count of it ever goes below zero, whatever shares turns take and give back.
THEOREM TypeCorrect == Spec => []TypeOK
<1>1. TInv => TypeOK
  BY DEF TInv
<1> QED
  BY <1>1, TypeInit, TypeStep, PTL DEF Spec

-----------------------------------------------------------------------------
(* What a browser was shown, turn by turn.                                  *)

Generating == {"run", "queue", "boundary", "persist"}
Final == {"unmark", "clear", "over"}

Kept(t, x) == turn[t].conv \in cut \/ HoldsCode(turn[t].conv, x)

\* While a turn runs it holds a share of every code it has shown; when it
\* has given them back, a saved turn's codes are in its conversation's file,
\* unless they were of a one-shot answer dropped for a Stop.
ShownOf(t) ==
  /\ turn[t].at \in {"idle", "load", "response"} => turn[t].charts = {}
  /\ turn[t].at \notin Generating \cup Final \cup {"drop"} => turn[t].shown = {}
  /\ turn[t].at \in Generating =>
       /\ turn[t].dropped \/ turn[t].shown \subseteq turn[t].charts
       /\ \A x \in turn[t].charts \cup turn[t].shown : turn[t].held[x] > 0
  /\ turn[t].at = "queue" => turn[t].held[turn[t].next] > 0
  /\ turn[t].at = "drop" => \A x \in turn[t].shown : turn[t].held[x] > 0
  /\ turn[t].saved => turn[t].at \in Final \cup {"drop", "reply"}
  /\ turn[t].saved /\ ~turn[t].failed /\ ~turn[t].dropped =>
       /\ \A x \in turn[t].shown : Kept(t, x)
       /\ turn[t].at = "reply" => \A x \in turn[t].charts : Kept(t, x)
  /\ turn[t].at \in {"drop", "unmark", "clear"} /\ turn[t].saved =>
       turn[t].conv \in cut \/ HasAnswer(t)
  /\ turn[t].at = "write" => turn[t].conv \in cut
  /\ turn[t].dropped => turn[t].at \in Final \cup {"persist", "drop"}

ShownInv == \A t \in Turns : ShownOf(t)

\* Rows are only added, but in the conversations an edit has rewritten.
Grows ==
  /\ cut \subseteq cut'
  /\ \A c \in Convs : \/ c \in cut'
                     \/ /\ Len(hist[c]) <= Len(hist'[c])
                        /\ \A i \in 1..Len(hist[c]) : hist'[c][i] = hist[c][i]

LEMMA AppendGrows ==
  ASSUME TypeOK, NEW c \in Convs, NEW row \in Row, hist' = Appended(c, row), cut' = cut
  PROVE  /\ Grows
         /\ \E i \in 1..Len(hist'[c]) : hist'[c][i] = row
<1>0. hist \in [Convs -> Seq(Row)]
  BY DEF TypeOK
<1>1. /\ \A d \in Convs : /\ Len(Appended(c, row)[d]) = Len(hist[d]) + (IF d = c THEN 1 ELSE 0)
                         /\ \A i \in 1..Len(hist[d]) : Appended(c, row)[d][i] = hist[d][i]
      /\ Appended(c, row)[c][Len(hist[c]) + 1] = row
  BY <1>0, Appends
<1>2. \A d \in Convs : Len(hist[d]) \in Nat
  BY <1>0
<1>3. ASSUME NEW d \in Convs PROVE Len(hist[d]) <= Len(hist'[d])
  <2>1. \A n \in Nat : n <= n + (IF d = c THEN 1 ELSE 0)
    OBVIOUS
  <2>2. Len(hist'[d]) = Len(hist[d]) + (IF d = c THEN 1 ELSE 0)
    BY <1>1
  <2> QED
    BY <1>2, <2>1, <2>2
<1>4. Grows
  BY <1>1, <1>3 DEF Grows
<1>5. Len(hist[c]) + 1 \in 1..Len(hist'[c])
  <2>1. Len(hist[c]) \in Nat /\ Len(hist'[c]) = Len(hist[c]) + 1
    BY <1>1, <1>2
  <2> QED
    BY <2>1
<1> QED
  BY <1>1, <1>4, <1>5

LEMMA HistGrows ==
  ASSUME TInv, ShownInv, [Next]_vars
  PROVE  Grows
<1>t. TypeOK /\ Typed /\ PlaceInv /\ \A c \in Convs : Len(hist[c]) \in Nat
  <2>1. TypeOK /\ Typed /\ PlaceInv
    BY TypedHere DEF TInv
  <2> QED
    BY <2>1 DEF TypeOK
<1>1. CASE UNCHANGED <<hist, cut>>
  BY <1>t, <1>1 DEF Grows
<1>2. ASSUME NEW t \in Turns, EditOpens(t) PROVE Grows
  <2>1. turn[t].conv \in Convs
    BY <1>2, <1>t DEF EditOpens, PlaceInv
  <2> QED
    BY <1>2, <1>t, <2>1 DEF EditOpens, Grows, TypeOK
<1>3. ASSUME NEW t \in Turns, EditWrites(t) PROVE Grows
  <2>1. turn[t].conv \in cut
    BY <1>3 DEF EditWrites, ShownInv, ShownOf
  <2> QED
    BY <1>3, <1>t, <2>1 DEF EditWrites, Grows, TypeOK
<1>4. ASSUME NEW t \in Turns, NEW row \in Row, hist' = Appended(turn[t].conv, row),
             turn[t].at # "idle", cut' = cut
      PROVE  Grows
  BY <1>4, <1>t, AppendGrows DEF PlaceInv
<1>5. ASSUME NEW t \in Turns,
             AskAppends(t) \/ Persists(t) \/ EditAppends(t) \/ EditFails(t) \/ EditPersists(t)
      PROVE  Grows
  <2>1. /\ turn[t].at # "idle" /\ cut' = cut
    BY <1>5 DEF AskAppends, Persists, EditAppends, EditFails, EditPersists
  <2>2. {} \in SUBSET Codes /\ turn[t].charts \in SUBSET Codes
    BY <1>t, Fields
  <2>3. UNCHANGED hist \/ \E row \in Row : hist' = Appended(turn[t].conv, row)
    BY <1>5, <2>2, RowTypes DEF AskAppends, Persists, EditAppends, EditFails, EditPersists
  <2> QED
    BY <1>1, <1>4, <2>1, <2>3
<1>6. ASSUME NEW t \in Turns, Worker(t) PROVE UNCHANGED <<hist, cut>> \/ Persists(t)
  BY <1>6 DEF Worker, WorkerStarts, Registers, Queues, StopsHere, GoesOn, Generated, Drops, Unmarks, Clears
<1>7. ASSUME NEW t \in Turns, Handler(t)
      PROVE  \/ UNCHANGED <<hist, cut>>
             \/ EditOpens(t) \/ EditWrites(t) \/ AskAppends(t)
             \/ EditAppends(t) \/ EditFails(t) \/ EditPersists(t)
  BY <1>7 DEF Handler, Ask, AskRefused, NeverPulled, EditReads, EditRefused, EditRegisters, EditReplies
<1>8. ASSUME Lookup \/ (\E c \in Convs : Stop(c)) \/ UNCHANGED vars PROVE UNCHANGED <<hist, cut>>
  BY <1>8 DEF Lookup, LookupBegins, LookupRegistry, LookupFile, LookupRefuses, Stop, vars
<1> QED
  BY <1>1, <1>2, <1>3, <1>5, <1>6, <1>7, <1>8 DEF Next

LEMMA KeptStays ==
  ASSUME TypeOK, TypeOK', Grows, NEW t \in Turns, turn[t].conv \in Convs, turn'[t].conv = turn[t].conv
  PROVE  /\ \A x : Kept(t, x) => Kept(t, x)'
         /\ turn[t].conv \in cut \/ HasAnswer(t) => turn'[t].conv \in cut' \/ HasAnswer(t)'
<1>0. PICK c \in Convs : turn[t].conv = c /\ turn'[t].conv = c
  OBVIOUS
<1>h. hist \in [Convs -> Seq(Row)] /\ hist' \in [Convs -> Seq(Row)]
  BY DEF TypeOK
<1>1. /\ Len(hist[c]) \in Nat /\ Len(hist'[c]) \in Nat
      /\ (c \in cut => c \in cut')
      /\ \/ c \in cut'
         \/ /\ Len(hist[c]) <= Len(hist'[c])
            /\ \A i \in 1..Len(hist[c]) : hist'[c][i] = hist[c][i]
  BY <1>h DEF Grows
<1>2. c \in cut' \/ \A i \in 1..Len(hist[c]) : i \in 1..Len(hist'[c]) /\ hist'[c][i] = hist[c][i]
  BY <1>1
<1>3. ASSUME NEW x, HoldsCode(c, x), c \notin cut' PROVE HoldsCode(c, x)'
  <2>1. PICK i \in 1..Len(hist[c]) : hist[c][i].ai /\ x \in hist[c][i].codes
    BY <1>3 DEF HoldsCode
  <2>2. i \in 1..Len(hist'[c]) /\ hist'[c][i] = hist[c][i]
    BY <1>2, <1>3, <2>1
  <2>3. \E j \in 1..Len(hist'[c]) : hist'[c][j].ai /\ x \in hist'[c][j].codes
    BY <2>1, <2>2
  <2> QED
    BY <2>3 DEF HoldsCode
<1>4. ASSUME HasAnswer(t), c \notin cut' PROVE HasAnswer(t)'
  <2>1. PICK i \in 1..Len(hist[c]) : hist[c][i].turn = t /\ hist[c][i].ai
    BY <1>0, <1>4 DEF HasAnswer
  <2>2. i \in 1..Len(hist'[c]) /\ hist'[c][i] = hist[c][i]
    BY <1>2, <1>4, <2>1
  <2>3. \E j \in 1..Len(hist'[c]) : hist'[c][j].turn = t /\ hist'[c][j].ai
    BY <2>1, <2>2
  <2> QED
    BY <1>0, <2>3 DEF HasAnswer
<1> QED
  BY <1>0, <1>1, <1>3, <1>4 DEF Kept

\* A turn another one's step leaves alone keeps what it had.
LEMMA ShownStays ==
  ASSUME TInv, TypeOK', ShownInv, Grows, NEW u \in Turns, turn'[u].at = turn[u].at,
         turn'[u].next = turn[u].next, turn'[u].conv = turn[u].conv,
         SameEnd(u, turn'[u]), SameCodes(u, turn'[u])
  PROVE  ShownOf(u)'
<1>1. ShownOf(u) /\ TypeOK /\ (turn[u].at = "idle" \/ turn[u].conv \in Convs)
  BY DEF ShownInv, TInv, PlaceInv
<1>2. /\ turn'[u].conv = turn[u].conv /\ turn'[u].failed = turn[u].failed
      /\ turn'[u].saved = turn[u].saved /\ turn'[u].charts = turn[u].charts
      /\ turn'[u].dropped = turn[u].dropped
      /\ turn'[u].shown = turn[u].shown /\ turn'[u].held = turn[u].held
  BY DEF SameEnd, SameCodes
<1>3. turn[u].conv \in cut => turn'[u].conv \in cut'
  BY <1>2 DEF Grows
<1>4. CASE turn[u].at = "idle"
  BY <1>1, <1>2, <1>4 DEF ShownOf, Generating, Final
<1>5. CASE turn[u].conv \in Convs
  <2>1. /\ \A x : Kept(u, x) => Kept(u, x)'
        /\ turn[u].conv \in cut \/ HasAnswer(u) => turn'[u].conv \in cut' \/ HasAnswer(u)'
    BY <1>1, <1>2, <1>5, KeptStays
  <2> QED
    BY <1>1, <1>2, <1>3, <2>1 DEF ShownOf, Generating, Final
<1> QED
  BY <1>1, <1>4, <1>5

\* Every turn but t keeps its ShownOf in a step of t.
LEMMA ShownMoves ==
  ASSUME TInv, TypeOK', ShownInv, Grows, NEW t \in Turns, NEW r, Becomes(t, r), ShownOf(t)'
  PROVE  ShownInv'
<1>1. Typed
  BY TypedHere DEF TInv
<1>2. ASSUME NEW u \in Turns, u # t PROVE ShownOf(u)'
  <2>1. turn'[u] = turn[u]
    BY <1>1, <1>2, Became
  <2>2. SameEnd(u, turn'[u]) /\ SameCodes(u, turn'[u])
    BY <2>1 DEF SameEnd, SameCodes
  <2> QED
    BY <2>1, <2>2, ShownStays
<1> QED
  BY <1>2 DEF ShownInv

LEMMA ShownStep == TInv /\ ShownInv /\ TInv' /\ [Next]_vars => ShownInv'
<1> SUFFICES ASSUME TInv, ShownInv, TInv', [Next]_vars PROVE ShownInv'
  OBVIOUS
<1>t. TypeOK /\ TypeOK' /\ Typed /\ PlaceInv /\ Grows
  BY TypedHere, HistGrows DEF TInv
<1>k. ASSUME NEW t \in Turns, turn[t].conv \in Convs, turn'[t].conv = turn[t].conv
      PROVE  /\ \A x : Kept(t, x) => Kept(t, x)'
             /\ turn[t].conv \in cut \/ HasAnswer(t) => turn'[t].conv \in cut' \/ HasAnswer(t)'
  BY <1>t, <1>k, KeptStays
<1>s. ASSUME NEW t \in Turns, NEW r, Becomes(t, r)
      PROVE  turn'[t] = r /\ (ShownOf(t)' => ShownInv')
  BY <1>t, <1>s, Became, ShownMoves
<1>1. CASE UNCHANGED turn
  <2>1. ASSUME NEW u \in Turns PROVE ShownOf(u)'
    <3>1. turn'[u] = turn[u] /\ SameEnd(u, turn'[u]) /\ SameCodes(u, turn'[u])
      BY <1>1 DEF SameEnd, SameCodes
    <3> QED
      BY <1>t, <3>1, ShownStays
  <2> QED
    BY <2>1 DEF ShownInv
<1>2. ASSUME NEW t \in Turns, NEW c \in Convs, Ask(t, c) \/ EditReads(t, c) PROVE ShownInv'
  <2>1. turn[t].at = "idle" /\ turn[t].saved = FALSE
    BY <1>2 DEF Ask, EditReads, Idle
  <2>2. PICK r : Becomes(t, r) /\ r.at \in {"load", "open"} /\ SameEnd(t, r) /\ SameCodes(t, r)
    BY <1>2, <1>t, AsksTo, EditReadsTo DEF TypeOK
  <2>3. turn'[t] = r /\ (ShownOf(t)' => ShownInv')
    BY <2>2, <1>s
  <2>4. ShownOf(t)'
    BY <2>1, <2>2, <2>3 DEF ShownInv, ShownOf, SameEnd, SameCodes, Generating, Final
  <2> QED
    BY <2>3, <2>4
\* The steps that only move a turn to another place.
<1>3. ASSUME NEW t \in Turns, NEW at \in Stages, Goes(t, at) \/ EditWrites(t),
             EditWrites(t) => at = "reload",
             <<turn[t].at, at>> \in
                {<<"load", "over">>, <<"load", "response">>, <<"response", "over">>,
                 <<"boundary", "run">>, <<"unmark", "clear">>,
                 <<"clear", "over">>, <<"open", "write">>, <<"write", "reload">>,
                 <<"reload", "over">>, <<"reload", "blocking">>},
             at = "write" => turn[t].conv \in cut'
      PROVE  ShownInv'
  <2>1. PICK r : Becomes(t, r) /\ r.at = at /\ SameTurn(t, r)
    BY <1>3, <1>t, GoesTo, EditWritesTo
  <2>2. turn'[t] = r /\ (ShownOf(t)' => ShownInv')
    BY <2>1, <1>s
  <2>3. /\ turn'[t].at = at /\ turn'[t].conv = turn[t].conv /\ turn'[t].failed = turn[t].failed
        /\ turn'[t].saved = turn[t].saved /\ turn'[t].charts = turn[t].charts
        /\ turn'[t].dropped = turn[t].dropped
        /\ turn'[t].shown = turn[t].shown /\ turn'[t].held = turn[t].held
    BY <2>1, <2>2 DEF SameTurn, SameConv, SameEnd, SameCodes
  <2>4. turn[t].conv \in Convs /\ ShownOf(t)
    BY <1>3, <1>t DEF PlaceInv, ShownInv
  <2>5. /\ \A x : Kept(t, x) => Kept(t, x)'
        /\ turn[t].conv \in cut \/ HasAnswer(t) => turn'[t].conv \in cut' \/ HasAnswer(t)'
    BY <1>k, <2>3, <2>4
  <2>6. ShownOf(t)'
    BY <1>3, <2>3, <2>4, <2>5 DEF ShownOf, Generating, Final
  <2> QED
    BY <2>2, <2>6
<1>4. ASSUME NEW t \in Turns,
             \/ AskRefused(t) \/ AskAppends(t) \/ NeverPulled(t) \/ GoesOn(t)
             \/ Unmarks(t) \/ Clears(t) \/ EditOpens(t) \/ EditWrites(t) \/ EditRefused(t) \/ EditAppends(t)
      PROVE  ShownInv'
  <2>1. CASE \/ AskRefused(t) \/ AskAppends(t) \/ NeverPulled(t) \/ GoesOn(t)
             \/ Unmarks(t) \/ Clears(t) \/ EditRefused(t) \/ EditAppends(t)
    <3>1. \E at \in Stages : /\ Goes(t, at) /\ at # "write"
                             /\ <<turn[t].at, at>> \in
                                  {<<"load", "over">>, <<"load", "response">>, <<"response", "over">>,
                                   <<"boundary", "run">>, <<"unmark", "clear">>,
                                   <<"clear", "over">>, <<"reload", "over">>, <<"reload", "blocking">>}
      BY <2>1 DEF AskRefused, AskAppends, NeverPulled, GoesOn, Unmarks, Clears, EditRefused,
                  EditAppends, Stages
    <3>2. ~EditWrites(t) \/ turn[t].at = "write"
      BY DEF EditWrites
    <3> QED
      BY <1>3, <3>1, <3>2
  <2>2. CASE EditOpens(t)
    BY <1>3, <2>2 DEF EditOpens, EditWrites, Stages
  <2>3. CASE EditWrites(t)
    BY <1>3, <2>3 DEF EditWrites, Stages
  <2> QED
    BY <1>4, <2>1, <2>2, <2>3
<1>5. ASSUME NEW t \in Turns, WorkerStarts(t) PROVE ShownInv'
  <2>1. /\ turn[t].at = "response" /\ turn'[t].at = "run" /\ turn'[t].conv = turn[t].conv
        /\ SameEnd(t, turn'[t]) /\ SameCodes(t, turn'[t])
        /\ \A u \in Turns \ {t} :
             /\ turn'[u].at = turn[u].at /\ turn'[u].conv = turn[u].conv
             /\ turn'[u].next = turn[u].next
             /\ SameEnd(u, turn'[u]) /\ SameCodes(u, turn'[u])
    BY <1>5, <1>t, StartsTo DEF WorkerStarts
  <2>2. ShownOf(t)'
    BY <2>1 DEF ShownInv, ShownOf, SameEnd, SameCodes, Generating, Final
  <2>3. ASSUME NEW u \in Turns \ {t} PROVE ShownOf(u)'
    BY <1>t, <2>1, ShownStays
  <2> QED
    BY <2>2, <2>3 DEF ShownInv
<1>6. ASSUME NEW c \in Convs, Stop(c) PROVE ShownInv'
  <2>1. ASSUME NEW u \in Turns PROVE ShownOf(u)'
    <3>1. /\ turn'[u].at = turn[u].at /\ turn'[u].next = turn[u].next
          /\ turn'[u].conv = turn[u].conv /\ SameEnd(u, turn'[u]) /\ SameCodes(u, turn'[u])
      BY <1>6, <1>t, StopsTo DEF SameTurn, SameConv
    <3> QED
      BY <1>t, <3>1, ShownStays
  <2> QED
    BY <2>1 DEF ShownInv
<1>7. ASSUME NEW t \in Turns, NEW x \in Codes, NEW single \in BOOLEAN, Registers(t, x, single) PROVE ShownInv'
  <2>1. PICK r : /\ Becomes(t, r) /\ r.at = "queue" /\ r.next = x /\ SameEnd(t, r)
                 /\ r.charts = turn[t].charts /\ r.shown = turn[t].shown
                 /\ \A y \in Codes : r.held[y] = IF y = x THEN turn[t].held[y] + 1 ELSE turn[t].held[y]
    BY <1>7, <1>t, RegistersTo
  <2>2. turn'[t] = r /\ (ShownOf(t)' => ShownInv')
    BY <2>1, <1>s
  <2>3. /\ turn[t].at = "run" /\ ShownOf(t) /\ turn[t].held \in [Codes -> Nat]
        /\ turn[t].charts \in SUBSET Codes /\ turn[t].shown \in SUBSET Codes
    BY <1>7, <1>t, Fields DEF Registers, ShownInv
  <2>4. \A n \in Nat : n + 1 > 0
    OBVIOUS
  <2>5. r.held[x] > 0 /\ \A y \in turn[t].charts \cup turn[t].shown : r.held[y] > 0
    <3>1. \A y \in Codes : turn[t].held[y] > 0 => r.held[y] > 0
      BY <2>1, <2>3, <2>4
    <3>2. r.held[x] > 0
      BY <2>1, <2>3, <2>4
    <3> QED
      BY <2>3, <3>1, <3>2 DEF ShownOf, Generating
  <2>6. turn[t].shown \subseteq turn[t].charts /\ ~turn[t].saved /\ ~turn[t].dropped
    BY <2>3 DEF ShownOf, Generating, Final
  <2>7. ShownOf(t)'
    BY <2>1, <2>2, <2>5, <2>6 DEF ShownOf, SameEnd, Generating, Final
  <2> QED
    BY <2>2, <2>7
<1>8. ASSUME NEW t \in Turns, Queues(t) PROVE ShownInv'
  <2>1. turn[t].at = "queue" /\ turn[t].next \in Codes /\ ShownOf(t)
    BY <1>8, <1>t DEF Queues, PlaceInv, ShownInv
  <2>2. PICK r : /\ Becomes(t, r) /\ r.at = "boundary" /\ SameEnd(t, r) /\ r.held = turn[t].held
                 /\ r.charts = turn[t].charts \cup {turn[t].next}
                 /\ r.shown = turn[t].shown \cup {turn[t].next}
    BY <1>8, <1>t, <2>1, QueuesTo
  <2>3. turn'[t] = r /\ (ShownOf(t)' => ShownInv')
    BY <2>2, <1>s
  <2>4. ShownOf(t)'
    BY <2>1, <2>2, <2>3 DEF ShownOf, SameEnd, Generating, Final
  <2> QED
    BY <2>3, <2>4
<1>9. ASSUME NEW t \in Turns, NEW failed \in BOOLEAN, Generated(t, failed) PROVE ShownInv'
  <2>1. turn[t].at = "run" /\ ShownOf(t)
    BY <1>9 DEF Generated, ShownInv
  <2>2. PICK r : /\ Becomes(t, r) /\ r.at = "persist" /\ r.saved = turn[t].saved
                 /\ r.dropped = turn[t].dropped /\ SameCodes(t, r)
    BY <1>9, <1>t, GeneratedTo
  <2>3. turn'[t] = r /\ (ShownOf(t)' => ShownInv')
    BY <2>2, <1>s
  <2>4. ShownOf(t)'
    BY <2>1, <2>2, <2>3 DEF ShownOf, SameCodes, Generating, Final
  <2> QED
    BY <2>3, <2>4
\* The answer is written: its row is among the rows, with its codes.
<1>w. ASSUME NEW t \in Turns, NEW S \in SUBSET Codes, hist' = Appended(turn[t].conv, Answer(t, S)),
             cut' = cut, turn[t].conv \in Convs, turn'[t].conv = turn[t].conv
      PROVE  HasAnswer(t)' /\ \A x \in S : Kept(t, x)'
  <2>1. PICK i \in 1..Len(hist'[turn[t].conv]) : hist'[turn[t].conv][i] = Answer(t, S)
    BY <1>t, <1>w, AppendGrows, RowTypes
  <2>2. /\ Answer(t, S).turn = t /\ Answer(t, S).ai = TRUE /\ Answer(t, S).codes = S
    BY DEF Answer
  <2>3. HasAnswer(t)'
    BY <1>w, <2>1, <2>2 DEF HasAnswer
  <2>4. \A x \in S : HoldsCode(turn[t].conv, x)'
    BY <1>w, <2>1, <2>2 DEF HoldsCode
  <2> QED
    BY <1>w, <2>3, <2>4 DEF Kept
<1>10. ASSUME NEW t \in Turns, Persists(t) PROVE ShownInv'
  <2>1. /\ turn[t].at = "persist" /\ turn[t].conv \in Convs /\ cut' = cut /\ ShownOf(t)
        /\ turn[t].charts \in SUBSET Codes
    BY <1>10, <1>t, Fields DEF Persists, PlaceInv, ShownInv
  <2>2. /\ \A x \in turn[t].shown : turn[t].held[x] > 0
        /\ turn[t].dropped \/ turn[t].shown \subseteq turn[t].charts
    BY <2>1 DEF ShownOf, Generating
  <2>3. ~turn[t].saved
    BY <2>1 DEF ShownOf, Final
  <2>4. CASE turn' = [turn EXCEPT ![t].at = "drop", ![t].charts = {}, ![t].events = 0, ![t].single = FALSE, ![t].told = FALSE]
    <3>1. PICK r : /\ Becomes(t, r) /\ r.at = "drop" /\ SameEnd(t, r) /\ r.charts = {}
                   /\ SameConv(t, r) /\ r.held = turn[t].held /\ r.shown = turn[t].shown
      BY <1>t, <2>4, LosesTo
    <3>2. turn'[t] = r /\ (ShownOf(t)' => ShownInv')
      BY <3>1, <1>s
    <3>3. ShownOf(t)'
      BY <2>2, <2>3, <3>1, <3>2 DEF ShownOf, SameEnd, Generating, Final
    <3> QED
      BY <3>2, <3>3
  <2>5. CASE /\ hist' = Appended(turn[t].conv, Answer(t, IF turn[t].failed THEN {} ELSE turn[t].charts))
             /\ turn' = [turn EXCEPT ![t].at = "drop", ![t].saved = TRUE, ![t].charts = {}, ![t].events = 0, ![t].single = FALSE, ![t].told = FALSE]
    <3>1. PICK r : /\ Becomes(t, r)
                   /\ r.at = "drop" /\ r.failed = turn[t].failed /\ r.saved = TRUE /\ r.dropped = turn[t].dropped /\ r.charts = {}
                   /\ SameConv(t, r) /\ r.held = turn[t].held /\ r.shown = turn[t].shown
      BY <1>t, <2>5, SavesTo
    <3>2. turn'[t] = r /\ (ShownOf(t)' => ShownInv')
      BY <3>1, <1>s
    <3>3. (IF turn[t].failed THEN {} ELSE turn[t].charts) \in SUBSET Codes
      BY <2>1
    <3>4. /\ HasAnswer(t)'
          /\ \A x \in (IF turn[t].failed THEN {} ELSE turn[t].charts) : Kept(t, x)'
      BY <1>w, <2>1, <2>5, <3>1, <3>2, <3>3 DEF SameConv
    <3>5. ShownOf(t)'
      BY <2>2, <3>1, <3>2, <3>4 DEF ShownOf, Generating, Final
    <3> QED
      BY <3>2, <3>5
  <2> QED
    BY <1>10, <2>4, <2>5 DEF Persists
<1>11. ASSUME NEW t \in Turns, Drops(t) PROVE ShownInv'
  <2>1. turn[t].at = "drop" /\ turn[t].conv \in Convs /\ ShownOf(t)
    BY <1>11, <1>t DEF Drops, PlaceInv, ShownInv
  <2>2. PICK r : /\ Becomes(t, r) /\ r.at = "unmark" /\ SameConv(t, r) /\ SameEnd(t, r)
                 /\ r.shown = turn[t].shown
    BY <1>11, <1>t, DropsTo
  <2>3. turn'[t] = r /\ (ShownOf(t)' => ShownInv') /\ turn'[t].conv = turn[t].conv
    BY <2>2, <1>s DEF SameConv
  <2>4. /\ \A x : Kept(t, x) => Kept(t, x)'
        /\ turn[t].conv \in cut \/ HasAnswer(t) => turn'[t].conv \in cut' \/ HasAnswer(t)'
    BY <1>k, <2>1, <2>3
  <2>5. ShownOf(t)'
    BY <2>1, <2>2, <2>3, <2>4 DEF ShownOf, SameEnd, Generating, Final
  <2> QED
    BY <2>3, <2>5
<1>12. ASSUME NEW t \in Turns, EditFails(t) PROVE ShownInv'
  <2>1. turn[t].at = "blocking" /\ ~turn[t].saved
    BY <1>12 DEF EditFails, ShownInv, ShownOf, Final
  <2>2. PICK r : Becomes(t, r) /\ r.at = "over" /\ r.saved = turn[t].saved /\ r.dropped = turn[t].dropped /\ SameCodes(t, r)
    BY <1>12, <1>t, EditFailsTo
  <2>3. turn'[t] = r /\ (ShownOf(t)' => ShownInv')
    BY <2>2, <1>s
  <2>4. ShownOf(t)'
    BY <2>1, <2>2, <2>3 DEF ShownOf, Generating, Final
  <2> QED
    BY <2>3, <2>4
<1>13. ASSUME NEW t \in Turns, NEW codes \in SUBSET Codes, EditRegisters(t, codes) PROVE ShownInv'
  <2>1. turn[t].at = "blocking" /\ ~turn[t].saved /\ ~turn[t].dropped /\ turn[t].shown = {}
    BY <1>13 DEF EditRegisters, ShownInv, ShownOf, Generating, Final
  <2>2. PICK r : Becomes(t, r) /\ r.at = "append" /\ SameEnd(t, r) /\ r.shown = turn[t].shown
    BY <1>13, <1>t, EditRegistersTo
  <2>3. turn'[t] = r /\ (ShownOf(t)' => ShownInv')
    BY <2>2, <1>s
  <2>4. ShownOf(t)'
    BY <2>1, <2>2, <2>3 DEF ShownOf, SameEnd, Generating, Final
  <2> QED
    BY <2>3, <2>4
<1>14. ASSUME NEW t \in Turns, EditPersists(t) PROVE ShownInv'
  <2>1. /\ turn[t].at = "append" /\ turn[t].conv \in Convs /\ cut' = cut
        /\ ~turn[t].saved /\ ~turn[t].dropped
        /\ turn[t].shown = {} /\ turn[t].charts \in SUBSET Codes
    BY <1>14, <1>t, Fields DEF EditPersists, PlaceInv, ShownInv, ShownOf, Generating, Final
  <2>2. CASE turn' = [turn EXCEPT ![t].at = "reply", ![t].failed = TRUE]
    <3>1. PICK r : /\ Becomes(t, r) /\ r.at = "reply" /\ r.saved = turn[t].saved
                   /\ r.dropped = turn[t].dropped /\ SameCodes(t, r)
      BY <1>t, <2>2, EditLosesTo
    <3>2. turn'[t] = r /\ (ShownOf(t)' => ShownInv')
      BY <3>1, <1>s
    <3>3. ShownOf(t)'
      BY <2>1, <3>1, <3>2 DEF ShownOf, SameCodes, Generating, Final
    <3> QED
      BY <3>2, <3>3
  <2>3. CASE /\ hist' = Appended(turn[t].conv, Answer(t, turn[t].charts))
             /\ turn' = [turn EXCEPT ![t].at = "reply", ![t].saved = TRUE]
    <3>1. PICK r : /\ Becomes(t, r) /\ r.at = "reply" /\ r.saved = TRUE
                   /\ r.dropped = turn[t].dropped
                   /\ SameConv(t, r) /\ SameCodes(t, r)
      BY <1>t, <2>3, EditSavesTo
    <3>2. turn'[t] = r /\ (ShownOf(t)' => ShownInv')
      BY <3>1, <1>s
    <3>3. \A x \in turn[t].charts : Kept(t, x)'
      BY <1>w, <2>1, <2>3, <3>1, <3>2 DEF SameConv
    <3>4. ShownOf(t)'
      BY <2>1, <3>1, <3>2, <3>3 DEF ShownOf, SameCodes, Generating, Final
    <3> QED
      BY <3>2, <3>4
  <2> QED
    BY <1>14, <2>2, <2>3 DEF EditPersists
<1>15. ASSUME NEW t \in Turns, EditReplies(t) PROVE ShownInv'
  <2>1. turn[t].at = "reply" /\ turn[t].conv \in Convs /\ ShownOf(t)
    BY <1>15, <1>t DEF EditReplies, PlaceInv, ShownInv
  <2>2. PICK r : /\ Becomes(t, r) /\ r.at = "over" /\ SameConv(t, r) /\ SameEnd(t, r)
                 /\ r.shown = IF turn[t].saved THEN turn[t].charts ELSE {}
    BY <1>15, <1>t, EditRepliesTo
  <2>3. turn'[t] = r /\ (ShownOf(t)' => ShownInv') /\ turn'[t].conv = turn[t].conv
    BY <2>2, <1>s DEF SameConv
  <2>4. \A x : Kept(t, x) => Kept(t, x)'
    BY <1>k, <2>1, <2>3
  <2>5. ShownOf(t)'
    BY <2>1, <2>2, <2>3, <2>4 DEF ShownOf, SameEnd, Generating, Final
  <2> QED
    BY <2>3, <2>5
<1>17. ASSUME NEW t \in Turns, StopsHere(t) PROVE ShownInv'
  <2>1. turn[t].at = "boundary" /\ ShownOf(t)
    BY <1>17 DEF StopsHere, ShownInv
  <2>2. PICK r : /\ Becomes(t, r) /\ r.at = "persist"
                 /\ r.saved = turn[t].saved /\ r.shown = turn[t].shown
                 /\ r.held = turn[t].held /\ r.charts \subseteq turn[t].charts
                 /\ r.dropped \/ r.charts = turn[t].charts
    BY <1>17, <1>t, StopsHereTo
  <2>3. turn'[t] = r /\ (ShownOf(t)' => ShownInv')
    BY <2>2, <1>s
  <2>4. turn[t].shown \subseteq turn[t].charts \/ r.dropped
    <3>1. ~turn[t].dropped
      BY <2>1 DEF ShownOf, Generating, Final
    <3> QED
      BY <2>1, <3>1 DEF ShownOf, Generating
  <2>5. ShownOf(t)'
    BY <2>1, <2>2, <2>3, <2>4 DEF ShownOf, Generating, Final
  <2> QED
    BY <2>3, <2>5
<1>16. Lookup \/ UNCHANGED vars => UNCHANGED turn
  BY DEF Lookup, LookupBegins, LookupRegistry, LookupFile, LookupRefuses, vars
<1> QED
  BY <1>1, <1>2, <1>4, <1>5, <1>6, <1>7, <1>8, <1>9, <1>10, <1>11, <1>12, <1>13, <1>14, <1>15, <1>16, <1>17
     DEF Next, Worker, Handler

-----------------------------------------------------------------------------
(* The marks of the conversations, and the lookups.                         *)

\* A worker that is alone in its conversation keeps it marked to the end, and
\* one that is not knows it.
MarkInv ==
  \A t \in Turns :
    /\ Working(t) /\ turn[t].at # "clear" /\ ~turn[t].shared => turn[t].conv \in generating
    /\ \A u \in Turns \ {t} :
         Working(t) /\ Working(u) /\ turn[t].conv = turn[u].conv => turn[t].shared

\* What a lookup knows once the registry did not have the code: its turn has
\* given back its share, and the file that holds the code is yet to be read.
LookupInv ==
  /\ lookup.at # "idle" => /\ lookup.turn \in Turns /\ lookup.code \in Codes
                           /\ lookup.code \in turn[lookup.turn].shown
  /\ lookup.at = "registry" => lookup.unread = Convs
  /\ lookup.at = "files" =>
       /\ turn[lookup.turn].at \in Final
       /\ \/ turn[lookup.turn].failed \/ ~turn[lookup.turn].saved
          \/ turn[lookup.turn].dropped \/ turn[lookup.turn].conv \in cut
          \/ /\ turn[lookup.turn].conv \in lookup.unread
             /\ HoldsCode(turn[lookup.turn].conv, lookup.code)

\* A step of one turn: what was shown stays, what has ended stays so, and it
\* neither becomes a worker nor moves to another conversation.
ShowsOn(t, r) ==
  /\ turn[t].shown \subseteq r.shown
  /\ turn[t].at \in Final => r.at \in Final /\ r.conv = turn[t].conv /\ SameEnd(t, r)

WorksOn(t, r) ==
  r.at \in Generating \cup {"drop", "unmark", "clear"} =>
     /\ turn[t].at \in Generating \cup {"drop", "unmark", "clear"}
     /\ SameConv(t, r)
     /\ turn[t].at = "clear" => r.at = "clear"

LEMMA HandlerSteps ==
  ASSUME Typed, PlaceInv, hist \in [Convs -> Seq(Row)], ShownInv, NEW t \in Turns, Handler(t)
  PROVE  /\ \E r : Becomes(t, r) /\ ShowsOn(t, r) /\ WorksOn(t, r)
         /\ UNCHANGED <<generating, lookup>>
<1>1. UNCHANGED <<generating, lookup>>
  BY DEF Handler, Ask, AskRefused, AskAppends, NeverPulled, EditReads, EditOpens, EditWrites, EditRefused,
         EditAppends, EditFails, EditRegisters, EditPersists, EditReplies
<1>2. ASSUME NEW c \in Convs, Ask(t, c) \/ EditReads(t, c)
      PROVE  \E r : Becomes(t, r) /\ ShowsOn(t, r) /\ WorksOn(t, r)
  <2>1. turn[t].at = "idle"
    BY <1>2 DEF Ask, EditReads, Idle
  <2>2. PICK r : Becomes(t, r) /\ r.at \in {"load", "open"} /\ SameCodes(t, r)
    BY <1>2, AsksTo, EditReadsTo
  <2>3. ShowsOn(t, r) /\ WorksOn(t, r)
    BY <2>1, <2>2 DEF ShowsOn, WorksOn, SameCodes, Generating, Final
  <2> QED
    BY <2>2, <2>3
<1>3. ASSUME \/ AskRefused(t) \/ AskAppends(t) \/ NeverPulled(t) \/ EditOpens(t) \/ EditWrites(t)
             \/ EditRefused(t) \/ EditAppends(t)
      PROVE  \E r : Becomes(t, r) /\ ShowsOn(t, r) /\ WorksOn(t, r)
  <2>1. \/ \E at \in {"over", "response", "write", "blocking"} : Goes(t, at)
        \/ EditWrites(t)
    BY <1>3 DEF AskRefused, AskAppends, NeverPulled, EditOpens, EditRefused, EditAppends
  <2>2. turn[t].at \notin Final
    BY <1>3 DEF AskRefused, AskAppends, NeverPulled, EditOpens, EditWrites, EditRefused, EditAppends, Final
  <2>3. PICK r : /\ Becomes(t, r) /\ r.at \in {"over", "response", "write", "blocking", "reload"}
                 /\ SameTurn(t, r)
    BY <2>1, GoesTo, EditWritesTo DEF Stages
  <2>4. ShowsOn(t, r) /\ WorksOn(t, r)
    BY <2>2, <2>3 DEF ShowsOn, WorksOn, SameTurn, SameCodes, Generating, Final
  <2> QED
    BY <2>3, <2>4
<1>4. ASSUME EditFails(t) \/ EditPersists(t) PROVE \E r : Becomes(t, r) /\ ShowsOn(t, r) /\ WorksOn(t, r)
  <2>1. turn[t].at \notin Final
    BY <1>4 DEF EditFails, EditPersists, Final
  <2>2. PICK r : Becomes(t, r) /\ r.at \in {"over", "reply"} /\ SameCodes(t, r)
    BY <1>4, EditFailsTo, EditSavesTo, EditLosesTo DEF EditPersists
  <2>3. ShowsOn(t, r) /\ WorksOn(t, r)
    BY <2>1, <2>2 DEF ShowsOn, WorksOn, SameCodes, Generating, Final
  <2> QED
    BY <2>2, <2>3
<1>5. ASSUME NEW codes \in SUBSET Codes, EditRegisters(t, codes)
      PROVE  \E r : Becomes(t, r) /\ ShowsOn(t, r) /\ WorksOn(t, r)
  <2>1. turn[t].at = "blocking"
    BY <1>5 DEF EditRegisters
  <2>2. PICK r : Becomes(t, r) /\ r.at = "append" /\ r.shown = turn[t].shown
    BY <1>5, EditRegistersTo
  <2>3. ShowsOn(t, r) /\ WorksOn(t, r)
    BY <2>1, <2>2 DEF ShowsOn, WorksOn, Generating, Final
  <2> QED
    BY <2>2, <2>3
<1>6. ASSUME EditReplies(t) PROVE \E r : Becomes(t, r) /\ ShowsOn(t, r) /\ WorksOn(t, r)
  <2>1. turn[t].at = "reply" /\ turn[t].shown = {}
    BY <1>6 DEF EditReplies, ShownInv, ShownOf, Generating, Final
  <2>2. PICK r : Becomes(t, r) /\ r.at = "over"
    BY <1>6, EditRepliesTo
  <2>3. ShowsOn(t, r) /\ WorksOn(t, r)
    BY <2>1, <2>2 DEF ShowsOn, WorksOn, Generating, Final
  <2> QED
    BY <2>2, <2>3
<1> QED
  BY <1>1, <1>2, <1>3, <1>4, <1>5, <1>6 DEF Handler

LEMMA WorkerSteps ==
  ASSUME Typed, PlaceInv, NEW t \in Turns, Worker(t), ~WorkerStarts(t)
  PROVE  /\ \E r : /\ Becomes(t, r) /\ ShowsOn(t, r) /\ WorksOn(t, r)
                   /\ Unmarks(t) => r.at = "clear"
         /\ UNCHANGED lookup
         /\ Unmarks(t) \/ UNCHANGED generating
<1> DEFINE Steps == \E r : /\ Becomes(t, r) /\ ShowsOn(t, r) /\ WorksOn(t, r)
                           /\ Unmarks(t) => r.at = "clear"
<1>1. UNCHANGED lookup /\ (Unmarks(t) \/ UNCHANGED generating)
  BY DEF Worker, Registers, Queues, StopsHere, GoesOn, Generated, Persists, Drops, Unmarks, Clears
<1>2. ASSUME NEW r, Becomes(t, r), turn[t].at \in Generating \cup {"drop"}, SameConv(t, r),
             turn[t].shown \subseteq r.shown
      PROVE  Steps
  <2>1. ShowsOn(t, r) /\ WorksOn(t, r) /\ ~Unmarks(t)
    BY <1>2 DEF ShowsOn, WorksOn, Generating, Final, Unmarks
  <2> QED
    BY <1>2, <2>1
<1>3. ASSUME NEW x \in Codes, NEW single \in BOOLEAN, Registers(t, x, single) PROVE Steps
  <2>1. turn[t].at \in Generating
    BY <1>3 DEF Registers, Generating
  <2> QED
    BY <1>2, <1>3, <2>1, RegistersTo
<1>4. ASSUME Queues(t) PROVE Steps
  <2>1. turn[t].at \in Generating /\ turn[t].next \in Codes
    BY <1>4 DEF Queues, Generating, PlaceInv
  <2>2. PICK r : /\ Becomes(t, r) /\ SameConv(t, r)
                 /\ r.shown = turn[t].shown \cup {turn[t].next}
    BY <1>4, <2>1, QueuesTo
  <2> QED
    BY <1>2, <2>1, <2>2
<1>9. ASSUME StopsHere(t) PROVE Steps
  <2>1. turn[t].at \in Generating
    BY <1>9 DEF StopsHere, Generating
  <2>2. PICK r : Becomes(t, r) /\ SameConv(t, r) /\ r.shown = turn[t].shown
    BY <1>9, StopsHereTo
  <2> QED
    BY <1>2, <2>1, <2>2
<1>5. ASSUME GoesOn(t) PROVE Steps
  <2>1. turn[t].at \in Generating /\ \E at \in Stages : Goes(t, at)
    BY <1>5 DEF GoesOn, Generating, Stages
  <2>2. PICK r : Becomes(t, r) /\ SameTurn(t, r)
    BY <2>1, GoesTo
  <2> QED
    BY <1>2, <2>1, <2>2 DEF SameTurn, SameCodes
<1>6. ASSUME NEW failed \in BOOLEAN, Generated(t, failed) PROVE Steps
  <2>1. turn[t].at \in Generating
    BY <1>6 DEF Generated, Generating
  <2> QED
    BY <1>2, <1>6, <2>1, GeneratedTo DEF SameCodes
<1>7. ASSUME Persists(t) \/ Drops(t) PROVE Steps
  <2>1. turn[t].at \in Generating \cup {"drop"}
    BY <1>7 DEF Persists, Drops, Generating
  <2>2. PICK r : Becomes(t, r) /\ SameConv(t, r) /\ r.shown = turn[t].shown
    BY <1>7, SavesTo, LosesTo, DropsTo, ZenonT(60) DEF Persists
  <2> QED
    BY <1>2, <2>1, <2>2
<1>8. ASSUME Unmarks(t) \/ Clears(t) PROVE Steps
  <2>1. turn[t].at \in {"unmark", "clear"}
    BY <1>8 DEF Unmarks, Clears
  <2>2. PICK at \in {"clear", "over"} :
          Goes(t, at) /\ (Unmarks(t) => at = "clear") /\ (turn[t].at = "clear" => at = "over")
    BY <1>8 DEF Unmarks, Clears
  <2>3. PICK r : Becomes(t, r) /\ r.at = at /\ SameTurn(t, r)
    <3>1. at \in Stages
      BY DEF Stages
    <3> QED
      BY <2>2, <3>1, GoesTo
  <2>4. ShowsOn(t, r) /\ WorksOn(t, r)
    BY <2>1, <2>2, <2>3 DEF ShowsOn, WorksOn, SameTurn, SameConv, SameCodes, Generating, Final
  <2> QED
    BY <2>2, <2>3, <2>4
<1> QED
  BY <1>1, <1>3, <1>4, <1>5, <1>6, <1>7, <1>8, <1>9 DEF Worker

\* The same of every turn, in any step.
LEMMA TurnSteps ==
  ASSUME TInv, ShownInv, [Next]_vars, NEW u \in Turns
  PROVE  /\ ShowsOn(u, turn'[u])
         /\ (\E t \in Turns : WorkerStarts(t)) \/ WorksOn(u, turn'[u])
<1>t. TypeOK /\ Typed /\ PlaceInv /\ hist \in [Convs -> Seq(Row)]
  BY TypedHere DEF TInv
<1>s. ShowsOn(u, turn[u]) /\ WorksOn(u, turn[u])
  BY DEF ShowsOn, WorksOn, SameEnd, SameConv
<1>1. ASSUME NEW t \in Turns, NEW r, Becomes(t, r), ShowsOn(t, r), WorksOn(t, r)
      PROVE  ShowsOn(u, turn'[u]) /\ WorksOn(u, turn'[u])
  <2>1. turn'[t] = r /\ (u # t => turn'[u] = turn[u])
    BY <1>1, <1>t, Became
  <2> QED
    BY <1>1, <1>s, <2>1
<1>2. ASSUME NEW t \in Turns, Handler(t) PROVE ShowsOn(u, turn'[u]) /\ WorksOn(u, turn'[u])
  BY <1>1, <1>2, <1>t, HandlerSteps
<1>3. ASSUME NEW t \in Turns, Worker(t), ~WorkerStarts(t)
      PROVE  ShowsOn(u, turn'[u]) /\ WorksOn(u, turn'[u])
  BY <1>1, <1>3, <1>t, WorkerSteps
<1>4. ASSUME NEW t \in Turns, WorkerStarts(t) PROVE ShowsOn(u, turn'[u])
  <2>1. turn[t].at = "response"
    BY <1>4 DEF WorkerStarts
  <2>2. CASE u = t
    BY <1>4, <1>t, <2>1, <2>2, StartsTo DEF ShowsOn, SameCodes, Final
  <2>3. CASE u # t
    BY <1>4, <1>t, <2>3, StartsTo DEF ShowsOn, SameCodes
  <2> QED
    BY <2>2, <2>3
<1>5. ASSUME NEW c \in Convs, Stop(c) PROVE ShowsOn(u, turn'[u]) /\ WorksOn(u, turn'[u])
  BY <1>5, <1>t, StopsTo DEF ShowsOn, WorksOn, SameTurn, SameConv, SameCodes
<1>6. CASE Lookup \/ UNCHANGED vars
  <2>1. turn' = turn
    BY <1>6 DEF Lookup, LookupBegins, LookupRegistry, LookupFile, LookupRefuses, vars
  <2> QED
    BY <1>s, <2>1
<1> QED
  BY <1>2, <1>3, <1>4, <1>5, <1>6 DEF Next

IInv == TInv /\ ShownInv /\ MarkInv /\ LookupInv

LEMMA MarkStep == TInv /\ ShownInv /\ MarkInv /\ [Next]_vars => MarkInv'
<1> SUFFICES ASSUME TInv, ShownInv, MarkInv, [Next]_vars PROVE MarkInv'
  OBVIOUS
<1>t. TypeOK /\ Typed /\ PlaceInv
  BY TypedHere DEF TInv
<1>w. \A u \in Turns : Working(u) <=> turn[u].at \in Generating \cup {"drop", "unmark", "clear"}
  BY DEF Working, Generating
<1>v. \A u \in Turns : Working(u)' <=> turn'[u].at \in Generating \cup {"drop", "unmark", "clear"}
  BY DEF Working, Generating
<1>1. ASSUME NEW t \in Turns, WorkerStarts(t) PROVE MarkInv'
  <2>1. /\ turn[t].at = "response" /\ generating' = generating \cup {turn[t].conv}
        /\ ~Working(t)
    BY <1>1 DEF WorkerStarts, Working
  <2>2. /\ turn'[t].at = "run" /\ turn'[t].conv = turn[t].conv
        /\ \A u \in Turns \ {t} :
             /\ turn'[u].at = turn[u].at /\ turn'[u].conv = turn[u].conv
             /\ turn[u].shared => turn'[u].shared
             /\ Working(u) /\ turn[u].conv = turn[t].conv => turn'[u].shared /\ turn'[t].shared
    BY <1>1, <1>t, StartsTo
  <2>3. \A u \in Turns \ {t} : Working(u)' <=> Working(u)
    BY <1>w, <1>v, <2>2
  <2>4. ASSUME NEW u \in Turns, Working(u)', turn'[u].at # "clear", ~turn'[u].shared
        PROVE  turn'[u].conv \in generating'
    <3>1. CASE u = t
      BY <2>1, <2>2, <3>1
    <3>2. CASE u # t
      BY <2>1, <2>2, <2>3, <2>4, <3>2 DEF MarkInv
    <3> QED
      BY <3>1, <3>2
  <2>5. ASSUME NEW u \in Turns, NEW v \in Turns \ {u}, Working(u)', Working(v)',
               turn'[u].conv = turn'[v].conv
        PROVE  turn'[u].shared
    <3>1. CASE u = t
      BY <2>2, <2>3, <2>5, <3>1
    <3>2. CASE v = t
      BY <2>2, <2>3, <2>5, <3>2
    <3>3. CASE u # t /\ v # t
      BY <2>2, <2>3, <2>5, <3>3 DEF MarkInv
    <3> QED
      BY <3>1, <3>2, <3>3
  <2> QED
    BY <2>4, <2>5 DEF MarkInv
<1>2. ASSUME \A t \in Turns : ~WorkerStarts(t) PROVE MarkInv'
  <2>1. ASSUME NEW u \in Turns, Working(u)'
        PROVE  /\ Working(u) /\ turn'[u].conv = turn[u].conv /\ turn'[u].shared = turn[u].shared
               /\ turn[u].at = "clear" => turn'[u].at = "clear"
    BY <1>2, <1>w, <1>v, <2>1, TurnSteps DEF WorksOn, SameConv
  <2>2. ASSUME NEW u \in Turns, NEW v \in Turns \ {u}, Working(u)', Working(v)',
               turn'[u].conv = turn'[v].conv
        PROVE  turn'[u].shared
    BY <2>1, <2>2 DEF MarkInv
  <2>3. ASSUME NEW u \in Turns, Working(u)', turn'[u].at # "clear", ~turn'[u].shared
        PROVE  turn'[u].conv \in generating'
    <3>1. /\ Working(u) /\ turn'[u].conv = turn[u].conv /\ ~turn[u].shared
          /\ turn[u].conv \in generating
      BY <2>1, <2>3 DEF MarkInv
    <3>2. CASE UNCHANGED generating
      BY <3>1, <3>2
    <3>3. ASSUME NEW t \in Turns, Unmarks(t) PROVE turn'[u].conv \in generating'
      <4>1. turn[t].at = "unmark" /\ generating' = generating \ {turn[t].conv} /\ Worker(t)
        BY <3>3 DEF Unmarks, Worker
      <4>2. Working(t) /\ turn'[t].at = "clear"
        BY <1>2, <1>t, <1>w, <3>3, <4>1, WorkerSteps, Became
      <4>3. u # t
        BY <2>3, <4>2
      <4>4. turn[u].conv # turn[t].conv
        BY <3>1, <4>2, <4>3 DEF MarkInv
      <4> QED
        BY <3>1, <4>1, <4>4
    <3>4. UNCHANGED generating \/ \E t \in Turns : Unmarks(t)
      <4>1. ASSUME NEW t \in Turns, Handler(t) PROVE UNCHANGED generating
        BY <1>t, <4>1, HandlerSteps DEF TypeOK
      <4>2. ASSUME NEW t \in Turns, Worker(t) PROVE Unmarks(t) \/ UNCHANGED generating
        BY <1>2, <1>t, <4>2, WorkerSteps
      <4>3. Lookup \/ (\E c \in Convs : Stop(c)) \/ UNCHANGED vars => UNCHANGED generating
        BY DEF Lookup, LookupBegins, LookupRegistry, LookupFile, LookupRefuses, Stop, vars
      <4> QED
        BY <4>1, <4>2, <4>3 DEF Next
    <3> QED
      BY <3>2, <3>3, <3>4
  <2> QED
    BY <2>2, <2>3 DEF MarkInv
<1> QED
  BY <1>1, <1>2

LEMMA LookupStep == TInv /\ ShownInv /\ LookupInv /\ TInv' /\ [Next]_vars => LookupInv'
<1> SUFFICES ASSUME TInv, ShownInv, LookupInv, TInv', [Next]_vars PROVE LookupInv'
  OBVIOUS
<1>t. TypeOK /\ TypeOK' /\ Typed /\ PlaceInv /\ CountInv /\ Grows
  BY TypedHere, HistGrows DEF TInv
<1>l. lookup \in [at : {"idle", "registry", "files"}, turn : Turns \cup {None},
                  code : Codes \cup {None}, unread : SUBSET Convs]
  BY <1>t DEF TypeOK
<1>n. ASSUME lookup' = NoLookup PROVE LookupInv'
  BY <1>n DEF LookupInv, NoLookup
<1>1. CASE UNCHANGED lookup
  <2>1. \A u \in Turns : ShowsOn(u, turn'[u])
    BY TurnSteps
  <2>2. ASSUME lookup.at # "idle"
        PROVE  lookup.turn \in Turns /\ lookup.code \in Codes /\ lookup.code \in turn'[lookup.turn].shown
    BY <2>1, <2>2 DEF LookupInv, ShowsOn
  <2>3. ASSUME lookup.at = "files"
        PROVE  /\ turn'[lookup.turn].at \in Final
               /\ \/ turn'[lookup.turn].failed \/ ~turn'[lookup.turn].saved
                  \/ turn'[lookup.turn].dropped \/ turn'[lookup.turn].conv \in cut'
                  \/ /\ turn'[lookup.turn].conv \in lookup.unread
                     /\ HoldsCode(turn[lookup.turn].conv, lookup.code)'
    <3>1. PICK t \in Turns : lookup.turn = t /\ turn[t].at \in Final
      BY <2>3 DEF LookupInv
    <3>2. turn[t].conv \in Convs
      BY <1>t, <3>1 DEF PlaceInv, Final
    <3>3. /\ turn'[t].at \in Final /\ turn'[t].conv = turn[t].conv
          /\ turn'[t].failed = turn[t].failed /\ turn'[t].saved = turn[t].saved
          /\ turn'[t].dropped = turn[t].dropped
      BY <2>1, <3>1 DEF ShowsOn, SameEnd
    <3>4. \A x : Kept(t, x) => Kept(t, x)'
      BY <1>t, <3>2, <3>3, KeptStays
    <3>5. \/ turn[t].failed \/ ~turn[t].saved \/ turn[t].dropped
          \/ turn[t].conv \in cut
          \/ turn[t].conv \in lookup.unread /\ HoldsCode(turn[t].conv, lookup.code)
      BY <2>3, <3>1 DEF LookupInv
    <3>6. PICK x : lookup.code = x /\ lookup'.code = x /\ lookup'.turn = t
      BY <1>1, <3>1
    <3>7. turn[t].conv \in cut => turn'[t].conv \in cut'
      BY <1>t, <3>3 DEF Grows
    <3>8. HoldsCode(turn[t].conv, x) => turn'[t].conv \in cut' \/ HoldsCode(turn[t].conv, x)'
      BY <3>4 DEF Kept
    <3> QED
      BY <1>1, <3>1, <3>3, <3>5, <3>6, <3>7, <3>8
  <2> QED
    BY <1>1, <2>2, <2>3 DEF LookupInv
<1>2. ASSUME NEW t \in Turns, NEW x \in Codes, LookupBegins(t, x) PROVE LookupInv'
  BY <1>2 DEF LookupBegins, LookupInv
<1>3. CASE LookupRegistry
  <2>1. CASE inflight[lookup.code] > 0
    BY <1>3, <1>n, <2>1 DEF LookupRegistry
  <2>2. CASE ~(inflight[lookup.code] > 0)
    <3>1. /\ lookup.at = "registry" /\ lookup' = [lookup EXCEPT !.at = "files"]
          /\ UNCHANGED <<hist, turn, cut>>
      BY <1>3, <2>2 DEF LookupRegistry
    <3>2. PICK t \in Turns, x \in Codes : lookup.turn = t /\ lookup.code = x
      BY <3>1 DEF LookupInv
    <3>3. x \in turn[t].shown /\ lookup.unread = Convs
      BY <3>1, <3>2 DEF LookupInv
    <3>4. ~(turn[t].held[x] > 0)
      <4>1. Helds /\ IsFiniteSet(Shares(x)) /\ inflight[x] = Cardinality(Shares(x)) /\ inflight[x] \in Nat
        BY <1>t, Fields DEF CountInv, Helds, TypeOK
      <4>2. turn[t].held[x] \in Nat /\ turn[t].held[x] <= inflight[x]
        BY <4>1, SharesBound
      <4> QED
        BY <2>2, <3>2, <4>1, <4>2
    <3>5. turn[t].at \in Final
      BY <3>3, <3>4 DEF ShownInv, ShownOf, Generating
    <3>6. turn[t].conv \in Convs
      BY <1>t, <3>5 DEF PlaceInv, Final
    <3>7. turn[t].failed \/ ~turn[t].saved \/ turn[t].dropped \/ Kept(t, x)
      BY <3>3 DEF ShownInv, ShownOf
    <3>8. /\ lookup'.at = "files" /\ lookup'.turn = t /\ lookup'.code = x /\ lookup'.unread = Convs
      BY <1>l, <3>1, <3>2, <3>3
    <3> QED
      BY <3>1, <3>3, <3>5, <3>6, <3>7, <3>8 DEF LookupInv, Kept, HoldsCode
  <2> QED
    BY <2>1, <2>2
<1>4. ASSUME NEW c \in Convs, LookupFile(c) PROVE LookupInv'
  <2>1. CASE HoldsCode(c, lookup.code)
    BY <1>4, <1>n, <2>1 DEF LookupFile
  <2>2. CASE ~HoldsCode(c, lookup.code)
    <3>1. /\ lookup.at = "files" /\ lookup' = [lookup EXCEPT !.unread = @ \ {c}]
          /\ UNCHANGED <<hist, turn, cut>>
      BY <1>4, <2>2 DEF LookupFile
    <3>2. /\ lookup'.at = "files" /\ lookup'.turn = lookup.turn /\ lookup'.code = lookup.code
          /\ lookup'.unread = lookup.unread \ {c}
      BY <1>l, <3>1
    <3>3. PICK t \in Turns : lookup.turn = t /\ turn[t].at \in Final
      BY <3>1 DEF LookupInv
    <3>4. turn[t].conv \in Convs
      BY <1>t, <3>3 DEF PlaceInv, Final
    <3>5. PICK x : lookup.code = x /\ lookup'.code = x /\ lookup'.turn = t
      BY <3>2, <3>3
    <3>6. /\ x \in Codes /\ x \in turn[t].shown
          /\ \/ turn[t].failed \/ ~turn[t].saved \/ turn[t].dropped \/ turn[t].conv \in cut
             \/ turn[t].conv \in lookup.unread /\ HoldsCode(turn[t].conv, x)
      BY <3>1, <3>3, <3>5 DEF LookupInv
    <3>7. turn[t].conv \in lookup.unread /\ HoldsCode(turn[t].conv, x) =>
            turn[t].conv \in lookup.unread \ {c} /\ HoldsCode(turn[t].conv, x)'
      BY <2>2, <3>1, <3>4, <3>5 DEF HoldsCode
    <3>8. \/ turn'[t].failed \/ ~turn'[t].saved \/ turn'[t].dropped \/ turn'[t].conv \in cut'
          \/ turn'[t].conv \in lookup'.unread /\ HoldsCode(turn[t].conv, x)'
      BY <3>1, <3>2, <3>6, <3>7
    <3>9. turn' = turn /\ lookup'.turn = t /\ lookup'.code = x /\ lookup'.at = "files"
      BY <3>1, <3>2, <3>5
    <3> QED
      BY <3>3, <3>6, <3>8, <3>9 DEF LookupInv, HoldsCode
  <2> QED
    BY <2>1, <2>2
<1>5. LookupRefuses => LookupInv'
  BY <1>n DEF LookupRefuses
<1>6. ASSUME NEW t \in Turns, Worker(t) \/ Handler(t) PROVE UNCHANGED lookup
  <2>1. WorkerStarts(t) => UNCHANGED lookup
    BY DEF WorkerStarts
  <2> QED
    BY <1>6, <1>t, <2>1, WorkerSteps, HandlerSteps DEF TypeOK
<1>7. (\E c \in Convs : Stop(c)) \/ UNCHANGED vars => UNCHANGED lookup
  BY DEF Stop, vars
<1> QED
  BY <1>1, <1>2, <1>3, <1>4, <1>5, <1>6, <1>7 DEF Next, Lookup

LEMMA IInit == Init => IInv
<1> SUFFICES ASSUME Init PROVE IInv
  OBVIOUS
<1>1. ShownInv
  BY DEF Init, ShownInv, ShownOf, Idle, Generating, Final
<1>2. MarkInv
  BY DEF Init, MarkInv, Working, Idle
<1>3. LookupInv
  BY DEF Init, LookupInv, NoLookup
<1> QED
  BY <1>1, <1>2, <1>3, TypeInit DEF IInv

LEMMA IStep == IInv /\ [Next]_vars => IInv'
  BY TypeStep, ShownStep, MarkStep, LookupStep DEF IInv

\* A lookup of a code a browser was shown is refused only when its turn failed,
\* was not written or was a one-shot answer dropped for a Stop, or its
\* conversation was rewritten: however the steps of turns with the same code
\* fall between its reads, one of them finds it.
THEOREM ShownCodesAreFound == Spec => []CodeShownIsStored
<1>1. IInv => CodeShownIsStored
  <2> SUFFICES ASSUME IInv, Refused
               PROVE  \/ Unkept(lookup.turn)
                      \/ Settled(lookup.turn) /\ turn[lookup.turn].dropped
                      \/ turn[lookup.turn].conv \in cut
    BY DEF CodeShownIsStored
  <2> QED
    BY DEF IInv, LookupInv, Refused, Unkept, Settled, Final
<1> QED
  BY <1>1, IInit, IStep, PTL DEF Spec

\* A poll that sees a conversation unmarked finds the answer of its worker
\* saved, with the exceptions the property names.
THEOREM MarksOutliveWrites == Spec => []UnmarkedIsSaved
<1>1. IInv => UnmarkedIsSaved
  <2> SUFFICES ASSUME IInv, NEW t \in Turns, Working(t), turn[t].conv \notin generating,
                      ~turn[t].shared
               PROVE  turn[t].conv \in cut \/ (Settled(t) /\ (HasAnswer(t) \/ ~turn[t].saved))
    BY DEF UnmarkedIsSaved
  <2>1. turn[t].at = "clear"
    BY DEF IInv, MarkInv
  <2>2. ShownOf(t)
    BY DEF IInv, ShownInv
  <2> QED
    BY <2>1, <2>2 DEF ShownOf, Settled
<1> QED
  BY <1>1, IInit, IStep, PTL DEF Spec

=============================================================================
