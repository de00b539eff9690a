------------------------- MODULE FrameCache_proofs -------------------------
(***************************************************************************)
(* Theorems about FrameCache, for every set of files, tables and sheets.    *)
(***************************************************************************)
EXTENDS FrameCache, TLAPS

LEMMA FramesAreNumbers ==
  ASSUME NEW b \in Nat
  PROVE  FramesOf(b) \in [Keys -> Nat] /\ SheetsOf(b) \in SUBSET Keys
  BY DEF FramesOf, SheetsOf

LEMMA NoFramesAreNumbers ==
  NoFrames \in [Keys -> Nat] /\ Nothing \in [Sources -> [Keys -> Nat]] /\ NoStats \in [Sources -> Nat]
  BY DEF NoFrames, Nothing, NoStats

LEMMA SetOut ==
  ASSUME NEW o \in [Loaders -> [Sources -> [Keys -> Nat]]],
         NEW l \in Loaders, NEW s \in Sources, NEW f \in [Keys -> Nat]
  PROVE  [o EXCEPT ![l][s] = f] \in [Loaders -> [Sources -> [Keys -> Nat]]]
  OBVIOUS

LEMMA SetKeep ==
  ASSUME NEW p \in [Loaders -> [Keys -> Nat]],
         NEW l \in Loaders, NEW k \in Keys, NEW n \in Nat
  PROVE  [p EXCEPT ![l][k] = n] \in [Loaders -> [Keys -> Nat]]
  OBVIOUS

LEMMA SourcesHoldBoth == Files \subseteq Sources /\ Tables \subseteq Sources
  BY DEF Sources

LEMMA TypeInit == Init => TypeOK
<1> SUFFICES ASSUME Init PROVE TypeOK
  OBVIOUS
<1>1. \A l \in Loaders : at[l] \in InFile => cur[l] \in Files
  BY DEF Init, InFile
<1> HIDE DEF NoFrames, Nothing, NoStats
<1>2. [l \in Loaders |-> NoStats] \in [Loaders -> [Sources -> Nat]]
      /\ [l \in Loaders |-> Nothing] \in [Loaders -> [Sources -> [Keys -> Nat]]]
      /\ [l \in Loaders |-> NoFrames] \in [Loaders -> [Keys -> Nat]]
      /\ [f \in Files |-> NoFrames] \in [Files -> [Keys -> Nat]]
  BY NoFramesAreNumbers
<1> QED
  BY <1>1, <1>2, NoFramesAreNumbers DEF Init, TypeOK

\* Every action keeps every variable in its set.
LEMMA TypeStep == TypeOK /\ [Next]_vars => TypeOK'
<1> SUFFICES ASSUME TypeOK, [Next]_vars PROVE TypeOK'
  OBVIOUS
<1> USE NoFramesAreNumbers, SourcesHoldBoth DEF TypeOK, InFile
<1>1. ASSUME NEW s \in Sources, WriteBytes(s) PROVE TypeOK'
  BY <1>1 DEF WriteBytes, disk, profs, mem, call, one
<1>2. ASSUME NEW f \in Files, CopyStat(f) PROVE TypeOK'
  BY <1>2 DEF CopyStat, disk, profs, mem, call, one
<1>3. CASE Evict
  BY <1>3 DEF Evict, Dropped, sources, disk, profs, call, one
<1>4. CASE Restart
  <2>1. /\ [l \in Loaders |-> NoStats] \in [Loaders -> [Sources -> Nat]]
        /\ [l \in Loaders |-> Nothing] \in [Loaders -> [Sources -> [Keys -> Nat]]]
        /\ [l \in Loaders |-> NoFrames] \in [Loaders -> [Keys -> Nat]]
    OBVIOUS
  <2> QED
    BY <1>4, <2>1 DEF Restart, Lost, Dropped, sources, disk, profs
<1>5. ASSUME NEW l \in Loaders, Load(l) PROVE TypeOK'
  <2> USE DEF sources, disk, profs, mem, call, one
  <2>1. CASE Begin(l)
    BY <2>1 DEF Begin
  <2>2. CASE Sign(l)
    BY <2>2 DEF Sign
  <2>3. CASE Hit(l)
    <3>1. out' \in [Loaders -> [Sources -> [Keys -> Nat]]]
      BY <2>3 DEF Hit
    <3> QED
      BY <2>3, <3>1 DEF Hit
  <2>4. CASE Miss(l)
    BY <2>4 DEF Miss
  <2>5. CASE ReadTable(l)
    <3>1. PICK t \in todo[l] :
            /\ out' \in {[out EXCEPT ![l][t] = FramesOf(bytes[t])], out}
            /\ todo' = [todo EXCEPT ![l] = @ \ {t}]
      BY <2>5 DEF ReadTable
    <3>2. FramesOf(bytes[t]) \in [Keys -> Nat]
      BY FramesAreNumbers
    <3>3. out' \in [Loaders -> [Sources -> [Keys -> Nat]]]
      <4>1. out \in [Loaders -> [Sources -> [Keys -> Nat]]] /\ t \in Sources
        OBVIOUS
      <4> HIDE DEF TypeOK
      <4>2. [out EXCEPT ![l][t] = FramesOf(bytes[t])] \in [Loaders -> [Sources -> [Keys -> Nat]]]
        BY <3>2, <4>1, SetOut
      <4> QED
        BY <3>1, <4>1, <4>2
    <3>4. todo' \in [Loaders -> SUBSET Sources]
      BY <3>1
    <3> QED
      BY <2>5, <3>3, <3>4 DEF ReadTable
  <2>6. CASE Store(l)
    <3>1. memHeld' \in BOOLEAN /\ memSig' \in [Sources -> Nat]
          /\ memFrames' \in [Sources -> [Keys -> Nat]]
      <4>1. \/ memHeld' = TRUE /\ memSig' = sig[l] /\ memFrames' = out[l]
            \/ memHeld' = FALSE /\ memSig' = NoStats /\ memFrames' = Nothing
            \/ memHeld' = memHeld /\ memSig' = memSig /\ memFrames' = memFrames
        BY <2>6 DEF Store, Dropped
      <4>2. /\ sig[l] \in [Sources -> Nat] /\ memSig \in [Sources -> Nat]
            /\ out[l] \in [Sources -> [Keys -> Nat]]
            /\ memFrames \in [Sources -> [Keys -> Nat]] /\ memHeld \in BOOLEAN
        OBVIOUS
      <4> HIDE DEF TypeOK
      <4> QED
        BY <4>1, <4>2
    <3>2. at' \in [Loaders -> {"idle", "sign", "load", "ready", "profile"} \cup InFile]
          /\ \A m \in Loaders : at'[m] \in InFile => cur'[m] \in Files
      BY <2>6 DEF Store
    <3> QED
      BY <2>6, <3>1, <3>2 DEF Store
  <2>7. CASE SkipAbsent(l)
    BY <2>7 DEF SkipAbsent
  <2>8. CASE Stat(l)
    <3>1. PICK f \in todo[l] \cap Files :
            cur' = [cur EXCEPT ![l] = f] /\ stat' = [stat EXCEPT ![l] = stamp[f]]
      BY <2>8 DEF Stat
    <3>2. cur' \in [Loaders -> Sources] /\ stat' \in [Loaders -> Nat]
      BY <3>1
    <3>3. \A m \in Loaders : at'[m] \in InFile => cur'[m] \in Files
      BY <2>8, <3>1 DEF Stat
    <3> QED
      BY <2>8, <3>2, <3>3 DEF Stat
  <2>9. CASE ReadManifest(l)
    <3>1. /\ at' \in [Loaders -> {"idle", "sign", "load", "ready", "profile"} \cup InFile]
          /\ left' \in [Loaders -> SUBSET Keys]
      <4>1. mKeys[cur[l]] \in SUBSET Keys
        BY <2>9 DEF ReadManifest
      <4> QED
        BY <2>9, <4>1 DEF ReadManifest
    <3>2. \A m \in Loaders : at'[m] \in InFile => cur'[m] \in Files
      BY <2>9 DEF ReadManifest
    <3> QED
      BY <2>9, <3>1, <3>2 DEF ReadManifest
  <2>10. CASE ReadEntry(l)
    <3>1. PICK k \in left[l] :
            IF parquet[cur[l]][k] # 0
            THEN /\ keep' = [keep EXCEPT ![l][k] = parquet[cur[l]][k]]
                 /\ left' = [left EXCEPT ![l] = @ \ {k}]
                 /\ UNCHANGED at
            ELSE at' = [at EXCEPT ![l] = "parse"] /\ UNCHANGED <<keep, left>>
      BY <2>10 DEF ReadEntry
    <3>2. cur[l] \in Files /\ k \in Keys
      BY <2>10 DEF ReadEntry
    <3>3. parquet[cur[l]][k] \in Nat
      BY <3>2
    <3>t. /\ keep \in [Loaders -> [Keys -> Nat]] /\ left \in [Loaders -> SUBSET Keys]
          /\ at \in [Loaders -> {"idle", "sign", "load", "ready", "profile"} \cup InFile]
      OBVIOUS
    <3> HIDE DEF TypeOK
    <3>4. keep' \in [Loaders -> [Keys -> Nat]]
      <4>1. [keep EXCEPT ![l][k] = parquet[cur[l]][k]] \in [Loaders -> [Keys -> Nat]]
        BY <3>t, <3>2, <3>3, SetKeep
      <4> QED
        BY <4>1, <3>1, <3>t
    <3>5. /\ at' \in [Loaders -> {"idle", "sign", "load", "ready", "profile"} \cup InFile]
          /\ left' \in [Loaders -> SUBSET Keys]
      <4>1. CASE parquet[cur[l]][k] # 0
        BY <4>1, <3>1, <3>t
      <4>2. CASE parquet[cur[l]][k] = 0
        <5>1. at' = [at EXCEPT ![l] = "parse"] /\ left' = left
          BY <4>2, <3>1
        <5> QED
          BY <5>1, <3>t
      <4> QED
        BY <4>1, <4>2
    <3>6. \A m \in Loaders : at'[m] \in InFile => cur'[m] \in Files
      BY <2>10, <3>1, <3>2 DEF ReadEntry, TypeOK
    <3> QED
      BY <2>10, <3>4, <3>5, <3>6 DEF ReadEntry, TypeOK
  <2>11. CASE Parse(l)
    <3>1. bytes[cur[l]] \in Nat
      OBVIOUS
    <3> QED
      BY <2>11, <3>1, FramesAreNumbers DEF Parse
  <2>12. CASE WriteEntry(l)
    BY <2>12 DEF WriteEntry
  <2>13. CASE GiveUp(l)
    BY <2>13 DEF GiveUp
  <2>14. CASE FindStale(l)
    BY <2>14 DEF FindStale
  <2>15. CASE SwapManifest(l)
    BY <2>15 DEF SwapManifest, Held
  <2>16. CASE UnlinkStale(l)
    <3>1. PICK k \in left[l] :
            /\ parquet' \in {[parquet EXCEPT ![cur[l]][k] = 0], parquet}
            /\ left' = [left EXCEPT ![l] = @ \ {k}]
      BY <2>16 DEF UnlinkStale
    <3>2. CASE parquet' = parquet
      BY <2>16, <3>1, <3>2 DEF UnlinkStale
    <3>3. CASE parquet' = [parquet EXCEPT ![cur[l]][k] = 0]
      BY <2>16, <3>1, <3>3 DEF UnlinkStale
    <3> QED
      BY <3>1, <3>2, <3>3
  <2>17. CASE Collect(l)
    BY <2>17 DEF Collect, Forgets
  <2>18. CASE ProfileWanted(l)
    BY <2>18 DEF ProfileWanted
  <2>19. CASE WriteProfile(l)
    BY <2>19 DEF WriteProfile
  <2>20. CASE Return(l)
    BY <2>20 DEF Return
  <2> QED
    BY <1>5, <2>1, <2>2, <2>3, <2>4, <2>5, <2>6, <2>7, <2>8, <2>9, <2>10, <2>11,
       <2>12, <2>13, <2>14, <2>15, <2>16, <2>17, <2>18, <2>19, <2>20 DEF Load
<1>6. CASE UNCHANGED vars
  BY <1>6 DEF vars, sources, disk, profs, mem, call, one
<1> QED
  BY <1>1, <1>2, <1>3, <1>4, <1>5, <1>6 DEF Next

\* Type correctness of the caches and of the loads under way.
THEOREM TypeCorrect == Spec => []TypeOK
<1>1. Init => TypeOK
  BY TypeInit
<1>2. TypeOK /\ [Next]_vars => TypeOK'
  BY TypeStep
<1> QED
  BY <1>1, <1>2, PTL DEF Spec

-----------------------------------------------------------------------------
(* Frames fr of source s are fresh as of stat n: n is no stat of the        *)
(* future, and if it is the present one, and no overlap spoilt the copies   *)
(* of s, then fr is the present content.                                    *)

Fresh(st, by, ra, s, n, fr) ==
  /\ n <= st[s]
  /\ n = st[s] /\ s \notin ra => \A k \in Keys : fr[k] \in {0, FramesOf(by[s])[k]}

\* What is fresh stays fresh: a change of the source makes its stat the past's.
LEMMA FreshSurvives ==
  ASSUME TypeOK, [Next]_vars, NEW s \in Sources, NEW n \in Nat, NEW fr,
         Fresh(stamp, bytes, raced, s, n, fr)
  PROVE  Fresh(stamp', bytes', raced', s, n, fr)
<1>1. ASSUME NEW z \in Sources, WriteBytes(z) PROVE Fresh(stamp', bytes', raced', s, n, fr)
  BY <1>1 DEF WriteBytes, Fresh, TypeOK
<1>2. ASSUME NEW z \in Files, CopyStat(z) PROVE Fresh(stamp', bytes', raced', s, n, fr)
  BY <1>2, SourcesHoldBoth DEF CopyStat, Fresh, TypeOK
<1>3. CASE UNCHANGED sources
  BY <1>3 DEF sources, Fresh
<1>4. CASE \E l \in Loaders : Parse(l)
  BY <1>4 DEF Parse, Fresh
<1>5. CASE \E l \in Loaders : Load(l)
  BY <1>3, <1>4, <1>5 DEF Load, Begin, Sign, Hit, Miss, ReadTable, Store, SkipAbsent, Stat,
     ReadManifest, ReadEntry, WriteEntry, GiveUp, FindStale, SwapManifest,
     UnlinkStale, Collect, ProfileWanted, WriteProfile, Return
<1> QED
  BY <1>1, <1>2, <1>3, <1>5 DEF Next, Evict, Restart, vars, sources

LEMMA NothingIsFresh ==
  ASSUME TypeOK, NEW s \in Sources, NEW n \in Nat, n <= stamp[s]
  PROVE  Fresh(stamp, bytes, raced, s, n, NoFrames)
  BY DEF Fresh, NoFrames

-----------------------------------------------------------------------------
(* The database tables, for any number of loaders.                          *)

\* What memory holds and what a loader collected of a table is fresh as of
\* the stat in its signature.
TablesFresh ==
  \A t \in Tables :
    /\ Fresh(stamp, bytes, raced, t, memSig[t], memFrames[t])
    /\ \A l \in Loaders : Fresh(stamp, bytes, raced, t, sig[l][t], out[l][t])

\* A loader has nothing before its signature is taken.
EmptyAtFirst == \A l \in Loaders : at[l] \in {"idle", "sign"} => out[l] = Nothing

LEMMA EmptyAtFirstStep ==
  ASSUME TypeOK, EmptyAtFirst, [Next]_vars PROVE EmptyAtFirst'
<1> USE DEF EmptyAtFirst
<1>1. CASE UNCHANGED <<at, out>>
  BY <1>1
<1>2. ASSUME NEW l \in Loaders, Load(l) PROVE EmptyAtFirst'
  <2>1. CASE Collect(l) \/ ReadTable(l)
    BY <2>1 DEF Collect, ReadTable, TypeOK
  <2>2. CASE Return(l)
    BY <2>2 DEF Return, TypeOK
  <2>3. CASE Hit(l)
    BY <2>3 DEF Hit, TypeOK
  <2>4. CASE ~(Collect(l) \/ ReadTable(l) \/ Return(l) \/ Hit(l))
    <3>1. out' = out
      BY <1>2, <2>4 DEF Load, Begin, Sign, Miss, Store, SkipAbsent, Stat,
         ReadManifest, ReadEntry, Parse, WriteEntry, GiveUp, FindStale, SwapManifest,
         UnlinkStale, ProfileWanted, WriteProfile, call
    <3>2. \A m \in Loaders : at'[m] \in {"idle", "sign"} => at[m] \in {"idle", "sign"}
      BY <1>2, <2>4 DEF Load, Begin, Sign, Miss, Store, SkipAbsent, Stat,
         ReadManifest, ReadEntry, Parse, WriteEntry, GiveUp, FindStale, SwapManifest,
         UnlinkStale, ProfileWanted, WriteProfile, TypeOK
    <3> QED
      BY <3>1, <3>2
  <2> QED
    BY <2>1, <2>2, <2>3, <2>4
<1>3. CASE Restart
  BY <1>3 DEF Restart, Lost
<1> QED
  BY <1>1, <1>2, <1>3 DEF Next, WriteBytes, CopyStat, Evict, vars, call

LEMMA TablesFreshStep ==
  ASSUME Files \cap Tables = {}, TypeOK, TypeOK', EmptyAtFirst, TablesFresh, [Next]_vars
  PROVE  TablesFresh'
<1> SUFFICES ASSUME NEW t \in Tables
             PROVE  /\ Fresh(stamp', bytes', raced', t, memSig'[t], memFrames'[t])
                    /\ \A m \in Loaders : Fresh(stamp', bytes', raced', t, sig'[m][t], out'[m][t])
  BY DEF TablesFresh
<1>t. t \in Sources /\ t \notin Files
  BY SourcesHoldBoth
<1>z. Fresh(stamp', bytes', raced', t, 0, NoFrames)
  BY <1>t DEF Fresh, NoFrames, TypeOK
<1>m. Fresh(stamp', bytes', raced', t, memSig[t], memFrames[t])
  BY <1>t, FreshSurvives DEF TablesFresh, TypeOK
<1>o. \A m \in Loaders : Fresh(stamp', bytes', raced', t, sig[m][t], out[m][t])
  BY <1>t, FreshSurvives DEF TablesFresh, TypeOK
<1>n. NoStats[t] = 0 /\ Nothing[t] = NoFrames
  BY <1>t DEF NoStats, Nothing
<1>1. CASE UNCHANGED <<memSig, memFrames, sig, out>>
  BY <1>1, <1>m, <1>o
<1>2. CASE Restart
  BY <1>2, <1>z, <1>n DEF Restart, Dropped, Lost
<1>3. CASE Evict
  BY <1>3, <1>z, <1>n, <1>o DEF Evict, Dropped, call
<1>4. ASSUME NEW l \in Loaders, Load(l)
      PROVE  /\ Fresh(stamp', bytes', raced', t, memSig'[t], memFrames'[t])
             /\ \A m \in Loaders : Fresh(stamp', bytes', raced', t, sig'[m][t], out'[m][t])
  <2>1. CASE Sign(l)
    <3>1. PICK s \in todo[l] : sig' = [sig EXCEPT ![l][s] = stamp[s]]
      BY <2>1 DEF Sign
    <3>2. stamp' = stamp /\ bytes' = bytes /\ raced' = raced /\ out' = out /\ memSig' = memSig /\ memFrames' = memFrames
      BY <2>1 DEF Sign, sources, mem
    <3>3. out[l][t] = NoFrames
      BY <2>1, <1>n DEF Sign, EmptyAtFirst
    <3>4. Fresh(stamp, bytes, raced, t, stamp[t], NoFrames)
      BY <1>t, NothingIsFresh DEF TypeOK
    <3>5. ASSUME NEW m \in Loaders PROVE Fresh(stamp', bytes', raced', t, sig'[m][t], out'[m][t])
      <4>1. CASE m = l /\ s = t
        <5>1. sig'[m][t] = stamp[t]
          BY <4>1, <3>1, <1>t DEF TypeOK
        <5> QED
          BY <5>1, <4>1, <3>2, <3>3, <3>4
      <4>2. CASE ~(m = l /\ s = t)
        <5>1. sig'[m][t] = sig[m][t]
          BY <4>2, <3>1, <1>t DEF TypeOK
        <5> QED
          BY <5>1, <3>2, <1>o
      <4> QED
        BY <4>1, <4>2
    <3> QED
      BY <3>2, <3>5, <1>m
  <2>2. CASE Hit(l)
    BY <2>2, <1>m, <1>o DEF Hit, mem, TypeOK
  <2>3. CASE Store(l)
    BY <2>3, <1>m, <1>o, <1>z, <1>n DEF Store, Dropped, mem, call, TypeOK
  <2>4. CASE ReadTable(l)
    <3>1. PICK s \in todo[l] : out' \in {[out EXCEPT ![l][s] = FramesOf(bytes[s])], out}
      BY <2>4 DEF ReadTable
    <3>2. stamp' = stamp /\ bytes' = bytes /\ raced' = raced /\ sig' = sig /\ memSig' = memSig /\ memFrames' = memFrames
      BY <2>4 DEF ReadTable, sources, mem
    <3>3. Fresh(stamp, bytes, raced, t, sig[l][t], FramesOf(bytes[t]))
      BY <1>t DEF TablesFresh, Fresh
    <3>4. ASSUME NEW m \in Loaders PROVE out'[m][t] = out[m][t] \/ (m = l /\ out'[m][t] = FramesOf(bytes[t]))
      <4>1. out \in [Loaders -> [Sources -> [Keys -> Nat]]]
        BY DEF TypeOK
      <4>2. CASE out' = out
        BY <4>2
      <4>3. CASE out' = [out EXCEPT ![l][s] = FramesOf(bytes[s])]
        BY <4>3, <4>1, <1>t
      <4> QED
        BY <3>1, <4>2, <4>3
    <3> QED
      BY <3>2, <3>3, <3>4, <1>m, <1>o
  <2>5. CASE Collect(l)
    <3>1. cur[l] \in Files
      BY <2>5 DEF Collect, TypeOK, InFile
    <3>2. \A m \in Loaders : out'[m][t] = out[m][t]
      BY <2>5, <3>1, <1>t DEF Collect, TypeOK
    <3> QED
      BY <2>5, <3>2, <1>m, <1>o DEF Collect, mem
  <2>6. CASE Return(l)
    BY <2>6, <1>m, <1>o, <1>z, <1>n DEF Return, mem, TypeOK
  <2>7. CASE UNCHANGED <<memSig, memFrames, sig, out>>
    BY <2>7, <1>m, <1>o
  <2> QED
    BY <1>4, <2>1, <2>2, <2>3, <2>4, <2>5, <2>6, <2>7 DEF Load, Begin, Miss,
       SkipAbsent, Stat, ReadManifest, ReadEntry, Parse, WriteEntry, GiveUp, FindStale,
       SwapManifest, UnlinkStale, ProfileWanted, WriteProfile, mem, call
<1> QED
  BY <1>1, <1>2, <1>3, <1>4 DEF Next, WriteBytes, CopyStat, vars, mem, call

\* However many loads overlap, a database table served from memory under the
\* stat its snapshot has now is that snapshot: a refresh is never hidden by
\* the memory cache.
THEOREM TablesStayCurrent ==
  ASSUME Files \cap Tables = {}
  PROVE  Spec => []TablesInMemoryAreCurrent
<1> DEFINE Inv == TypeOK /\ EmptyAtFirst /\ TablesFresh
<1>1. Init => Inv
  <2> SUFFICES ASSUME Init PROVE EmptyAtFirst /\ TablesFresh
    BY TypeInit
  <2>1. \A t \in Tables : Fresh(stamp, bytes, raced, t, 0, NoFrames) /\ NoStats[t] = 0 /\ Nothing[t] = NoFrames
    BY SourcesHoldBoth DEF Init, Fresh, NoFrames, NoStats, Nothing
  <2> QED
    BY <2>1 DEF Init, EmptyAtFirst, TablesFresh
<1>2. Inv /\ [Next]_vars => Inv'
  BY TypeStep, EmptyAtFirstStep, TablesFreshStep
<1>3. Inv => TablesInMemoryAreCurrent
  BY SourcesHoldBoth DEF TablesFresh, Fresh, TablesInMemoryAreCurrent, MemoryIsCurrentOf,
     Current, TypeOK
<1> QED
  BY <1>1, <1>2, <1>3, PTL DEF Spec
-----------------------------------------------------------------------------
(* Memory and disk, for any number of loaders: everything is fresh as of    *)
(* the stat it is filed under.                                              *)

Shown(f) == [k \in Keys |-> IF k \in mKeys[f] THEN parquet[f][k] ELSE 0]

MemoryFresh == \A s \in Sources : Fresh(stamp, bytes, raced, s, memSig[s], memFrames[s])

DiskFresh == \A f \in Files : Fresh(stamp, bytes, raced, f, mStamp[f], Shown(f))

AnswerFresh ==
  \A l \in Loaders : \A s \in Sources : Fresh(stamp, bytes, raced, s, sig[l][s], out[l][s])

\* The file under way was stat'ed after it was signed, and is read after that.
FileFresh ==
  \A l \in Loaders :
    /\ at[l] \notin InFile \ {"manifest"} => keep[l] = NoFrames
    /\ at[l] \in InFile => sig[l][cur[l]] <= stat[l] /\ stat[l] <= stamp[cur[l]]
    /\ at[l] \in InFile \ {"parse"} => Fresh(stamp, bytes, raced, cur[l], stat[l], keep[l])

\* The entries a reader has yet to read.
Unread(l) == [k \in Keys |-> IF k \in left[l] THEN parquet[cur[l]][k] ELSE 0]

ReadFresh ==
  \A l \in Loaders :
    at[l] = "entries" => Fresh(stamp, bytes, raced, cur[l], stat[l], Unread(l))

Rewriting(l) == at[l] \in {"write", "swap"}

Spoilt(l) == stat[l] < stamp[cur[l]] \/ cur[l] \in raced

\* A rebuild writes what may stand under the manifest it will replace, and
\* has written it by the time it does.
RewriteFresh ==
  \A l \in Loaders :
    Rewriting(l) =>
      /\ Fresh(stamp, bytes, raced, cur[l], mStamp[cur[l]], keep[l])
      /\ \/ Spoilt(l)
         \/ \A k \in Keys : \/ parquet[cur[l]][k] \in {0, keep[l][k]}
                            \/ keep[l][k] = 0
                            \/ at[l] = "write" /\ k \in left[l]

\* Two rebuilds of a file overlap only where they do no harm or are recorded.
Apart ==
  \A l, m \in Loaders :
    Rewriting(l) /\ Rewriting(m) /\ cur[l] = cur[m] => l = m \/ Spoilt(l)

\* A rebuild writes what a reader of the same file may read.
ReadBeside ==
  \A l, m \in Loaders :
    at[l] = "entries" /\ Rewriting(m) /\ cur[l] = cur[m] =>
      Fresh(stamp, bytes, raced, cur[l], stat[l], keep[m])

LInv == /\ MemoryFresh /\ DiskFresh /\ AnswerFresh /\ FileFresh
        /\ ReadFresh /\ RewriteFresh /\ Apart /\ ReadBeside

-----------------------------------------------------------------------------
(* What a step leaves alone.                                                *)

\* A step of loader m leaves the others' locals alone.
LEMMA OthersStay ==
  ASSUME TypeOK, NEW m \in Loaders, Load(m), NEW l \in Loaders, l # m
  PROVE  /\ at'[l] = at[l] /\ cur'[l] = cur[l] /\ stat'[l] = stat[l]
         /\ keep'[l] = keep[l] /\ left'[l] = left[l] /\ sig'[l] = sig[l] /\ out'[l] = out[l]
  BY DEF Load, Begin, Sign, Hit, Miss, ReadTable, Store, SkipAbsent, Stat, ReadManifest,
     ReadEntry, Parse, WriteEntry, GiveUp, FindStale, SwapManifest, UnlinkStale, Collect,
     Forgets, ProfileWanted, WriteProfile, Return, call, one, TypeOK

\* Every step of the system: of a loader, of a restart, or of a source or the
\* memory, which leaves disk and loaders alone.
Quiet == UNCHANGED <<disk, at, call, one>>

LEMMA StepKinds == [Next]_vars => Quiet \/ Restart \/ \E m \in Loaders : Load(m)
  BY DEF Next, Quiet, WriteBytes, CopyStat, Evict, vars

\* The stat of a source never goes back; only its change lifts a mark, and
\* only a parse sets one.
LEMMA SourcesGrow ==
  ASSUME TypeOK, [Next]_vars, NEW s \in Sources
  PROVE  /\ stamp'[s] >= stamp[s]
         /\ s \in raced => s \in raced' \/ stamp'[s] > stamp[s]
<1>1. ASSUME NEW z \in Sources, WriteBytes(z)
      PROVE  stamp'[s] >= stamp[s] /\ (s \in raced => s \in raced' \/ stamp'[s] > stamp[s])
  BY <1>1 DEF WriteBytes, TypeOK
<1>2. ASSUME NEW f \in Files, CopyStat(f)
      PROVE  stamp'[s] >= stamp[s] /\ (s \in raced => s \in raced' \/ stamp'[s] > stamp[s])
  BY <1>2, SourcesHoldBoth DEF CopyStat, TypeOK
<1>3. ASSUME NEW l \in Loaders, Parse(l)
      PROVE  stamp'[s] >= stamp[s] /\ (s \in raced => s \in raced' \/ stamp'[s] > stamp[s])
  BY <1>3 DEF Parse, TypeOK
<1>4. CASE UNCHANGED sources
  BY <1>4 DEF sources, TypeOK
<1> QED
  BY <1>1, <1>2, <1>3, <1>4 DEF Next, Load, Begin, Sign, Hit, Miss, ReadTable, Store, SkipAbsent,
     Stat, ReadManifest, ReadEntry, WriteEntry, GiveUp, FindStale, SwapManifest,
     UnlinkStale, Collect, ProfileWanted, WriteProfile, Return, Evict, Restart, vars, sources

\* Of a loader's step, all but a parse leaves the sources alone, and all but
\* three the disk.
LEMMA LoadKeepsSources ==
  ASSUME NEW m \in Loaders, Load(m), ~Parse(m)
  PROVE  stamp' = stamp /\ bytes' = bytes /\ raced' = raced
  BY DEF Load, Begin, Sign, Hit, Miss, ReadTable, Store, SkipAbsent, Stat,
     ReadManifest, ReadEntry, WriteEntry, GiveUp, FindStale, SwapManifest,
     UnlinkStale, Collect, ProfileWanted, WriteProfile, Return, sources

LEMMA LoadKeepsDisk ==
  ASSUME NEW m \in Loaders, Load(m), ~WriteEntry(m), ~SwapManifest(m), ~UnlinkStale(m)
  PROVE  mStamp' = mStamp /\ mKeys' = mKeys /\ parquet' = parquet
  BY DEF Load, Begin, Sign, Hit, Miss, ReadTable, Store, SkipAbsent, Stat,
     ReadManifest, ReadEntry, Parse, GiveUp, FindStale, Collect, ProfileWanted,
     WriteProfile, Return, disk

\* The three.
LEMMA WritesOneEntry ==
  ASSUME TypeOK, NEW m \in Loaders, WriteEntry(m)
  PROVE  /\ at[m] = "write" /\ at' = at /\ cur' = cur /\ stat' = stat /\ keep' = keep
         /\ cur[m] \in Files /\ mStamp' = mStamp /\ mKeys' = mKeys
         /\ \E k \in left[m] :
              /\ left' = [left EXCEPT ![m] = @ \ {k}]
              /\ \A f \in Files : \A j \in Keys :
                   parquet'[f][j] = IF f = cur[m] /\ j = k THEN keep[m][k] ELSE parquet[f][j]
<1>1. PICK k \in left[m] : /\ parquet' = [parquet EXCEPT ![cur[m]][k] = keep[m][k]]
                           /\ left' = [left EXCEPT ![m] = @ \ {k}]
  BY DEF WriteEntry
<1>2. \A f \in Files : \A j \in Keys :
        parquet'[f][j] = IF f = cur[m] /\ j = k THEN keep[m][k] ELSE parquet[f][j]
  BY <1>1 DEF TypeOK
<1> QED
  BY <1>1, <1>2 DEF WriteEntry, TypeOK, InFile

LEMMA SwapsOneManifest ==
  ASSUME TypeOK, NEW m \in Loaders, SwapManifest(m)
  PROVE  /\ at[m] = "swap" /\ at' = [at EXCEPT ![m] = "unlink"]
         /\ cur' = cur /\ stat' = stat /\ keep' = keep /\ left' = left
         /\ cur[m] \in Files /\ parquet' = parquet
         /\ \A f \in Files :
              /\ mStamp'[f] = IF f = cur[m] THEN stat[m] ELSE mStamp[f]
              /\ mKeys'[f] = IF f = cur[m] THEN Held(m) ELSE mKeys[f]
  BY DEF SwapManifest, one, TypeOK, InFile

LEMMA UnlinksOneEntry ==
  ASSUME TypeOK, NEW m \in Loaders, UnlinkStale(m)
  PROVE  /\ at[m] = "unlink" /\ at' = at /\ cur' = cur /\ stat' = stat /\ keep' = keep
         /\ mStamp' = mStamp /\ mKeys' = mKeys
         /\ \A f \in Files : \A j \in Keys : parquet'[f][j] \in {0, parquet[f][j]}
<1>1. PICK k \in left[m] : parquet' \in {[parquet EXCEPT ![cur[m]][k] = 0], parquet}
  BY DEF UnlinkStale
<1>2. \A f \in Files : \A j \in Keys : parquet'[f][j] \in {0, parquet[f][j]}
  <2>1. CASE parquet' = parquet
    BY <2>1
  <2>2. CASE parquet' = [parquet EXCEPT ![cur[m]][k] = 0]
    BY <2>2 DEF TypeOK
  <2> QED
    BY <1>1, <2>1, <2>2
<1> QED
  BY <1>2 DEF UnlinkStale

-----------------------------------------------------------------------------
(* What the caches and the answers hold.                                    *)

LEMMA MemoryFreshStep ==
  ASSUME TypeOK, TypeOK', MemoryFresh, AnswerFresh, [Next]_vars
  PROVE  MemoryFresh'
<1> SUFFICES ASSUME NEW s \in Sources
             PROVE  Fresh(stamp', bytes', raced', s, memSig'[s], memFrames'[s])
  BY DEF MemoryFresh
<1>z. Fresh(stamp', bytes', raced', s, 0, NoFrames) /\ NoStats[s] = 0 /\ Nothing[s] = NoFrames
  BY DEF Fresh, NoFrames, TypeOK, NoStats, Nothing
<1>m. Fresh(stamp', bytes', raced', s, memSig[s], memFrames[s])
  BY FreshSurvives DEF MemoryFresh, TypeOK
<1>o. \A l \in Loaders : Fresh(stamp', bytes', raced', s, sig[l][s], out[l][s])
  BY FreshSurvives DEF AnswerFresh, TypeOK
<1>1. CASE UNCHANGED mem
  BY <1>1, <1>m DEF mem
<1>2. CASE Evict \/ Restart
  BY <1>2, <1>z DEF Evict, Restart, Dropped
<1>3. ASSUME NEW l \in Loaders, Store(l)
      PROVE  Fresh(stamp', bytes', raced', s, memSig'[s], memFrames'[s])
  BY <1>3, <1>m, <1>o, <1>z DEF Store, Dropped, mem
<1> QED
  BY <1>1, <1>2, <1>3 DEF Next, Load, Begin, Sign, Hit, Miss, ReadTable, SkipAbsent, Stat,
     ReadManifest, ReadEntry, Parse, WriteEntry, GiveUp, FindStale, SwapManifest,
     UnlinkStale, Collect, ProfileWanted, WriteProfile, Return, WriteBytes, CopyStat, vars

LEMMA AnswerFreshStep ==
  ASSUME TypeOK, TypeOK', EmptyAtFirst, MemoryFresh, AnswerFresh, FileFresh, [Next]_vars
  PROVE  AnswerFresh'
<1> SUFFICES ASSUME NEW l \in Loaders, NEW s \in Sources
             PROVE  Fresh(stamp', bytes', raced', s, sig'[l][s], out'[l][s])
  BY DEF AnswerFresh
<1>z. Fresh(stamp', bytes', raced', s, 0, NoFrames) /\ NoStats[s] = 0 /\ Nothing[s] = NoFrames
  BY DEF Fresh, NoFrames, TypeOK, NoStats, Nothing
<1>m. Fresh(stamp', bytes', raced', s, memSig[s], memFrames[s])
  BY FreshSurvives DEF MemoryFresh, TypeOK
<1>o. Fresh(stamp', bytes', raced', s, sig[l][s], out[l][s])
  BY FreshSurvives DEF AnswerFresh, TypeOK
<1>1. CASE sig'[l] = sig[l] /\ out'[l] = out[l]
  BY <1>1, <1>o
<1>2. CASE Restart
  BY <1>2, <1>z DEF Restart, Lost
<1>3. CASE Sign(l)
  <2>1. PICK z \in todo[l] : sig' = [sig EXCEPT ![l][z] = stamp[z]]
    BY <1>3 DEF Sign
  <2>2. stamp' = stamp /\ bytes' = bytes /\ raced' = raced /\ out' = out
    BY <1>3 DEF Sign, sources
  <2>3. out[l][s] = NoFrames
    BY <1>3, <1>z DEF Sign, EmptyAtFirst
  <2>4. Fresh(stamp, bytes, raced, s, stamp[s], NoFrames)
    BY NothingIsFresh DEF TypeOK
  <2>5. sig'[l][s] = sig[l][s] \/ sig'[l][s] = stamp[s]
    BY <2>1 DEF TypeOK
  <2> QED
    BY <2>2, <2>3, <2>4, <2>5, <1>o
<1>4. CASE Hit(l)
  BY <1>4, <1>m DEF Hit, TypeOK
<1>5. CASE ReadTable(l)
  <2>1. PICK z \in todo[l] : out' \in {[out EXCEPT ![l][z] = FramesOf(bytes[z])], out}
    BY <1>5 DEF ReadTable
  <2>2. stamp' = stamp /\ bytes' = bytes /\ raced' = raced /\ sig' = sig
    BY <1>5 DEF ReadTable, sources
  <2>3. Fresh(stamp, bytes, raced, s, sig[l][s], FramesOf(bytes[s]))
    BY DEF AnswerFresh, Fresh
  <2>4. out'[l][s] = out[l][s] \/ out'[l][s] = FramesOf(bytes[s])
    <3>1. out \in [Loaders -> [Sources -> [Keys -> Nat]]]
      BY DEF TypeOK
    <3>2. CASE out' = out
      BY <3>2
    <3>3. CASE out' = [out EXCEPT ![l][z] = FramesOf(bytes[z])]
      BY <3>3, <3>1
    <3> QED
      BY <2>1, <3>2, <3>3
  <2> QED
    BY <2>2, <2>3, <2>4, <1>o
<1>6. CASE Collect(l)
  <2>1. at[l] \in InFile /\ at[l] # "parse"
    BY <1>6 DEF Collect, InFile
  <2>2. /\ Fresh(stamp, bytes, raced, cur[l], stat[l], keep[l])
        /\ sig[l][cur[l]] <= stat[l] /\ stat[l] <= stamp[cur[l]]
    BY <2>1 DEF FileFresh
  <2>3. stamp' = stamp /\ bytes' = bytes /\ raced' = raced /\ sig' = sig
    BY <1>6 DEF Collect, sources
  <2>4. Fresh(stamp, bytes, raced, cur[l], sig[l][cur[l]], keep[l])
    <3>1. /\ sig[l][cur[l]] \in Nat /\ stat[l] \in Nat /\ stamp[cur[l]] \in Nat
      BY DEF TypeOK
    <3> QED
      BY <2>2, <3>1 DEF Fresh
  <2>5. out'[l][s] = IF s = cur[l] THEN keep[l] ELSE out[l][s]
    BY <1>6 DEF Collect, TypeOK
  <2> QED
    BY <2>3, <2>4, <2>5, <1>o
<1>7. CASE Return(l)
  BY <1>7, <1>z DEF Return, TypeOK
<1>8. CASE Load(l)
  BY <1>1, <1>3, <1>4, <1>5, <1>6, <1>7, <1>8 DEF Load, Begin, Miss, Store,
     SkipAbsent, Stat, ReadManifest, ReadEntry, Parse, WriteEntry, GiveUp, FindStale,
     SwapManifest, UnlinkStale, ProfileWanted, WriteProfile, call
<1>9. ASSUME NEW m \in Loaders, Load(m), m # l
      PROVE  Fresh(stamp', bytes', raced', s, sig'[l][s], out'[l][s])
  BY <1>1, <1>9, OthersStay
<1> QED
  BY <1>1, <1>2, <1>8, <1>9, StepKinds DEF Quiet, call

LEMMA DiskFreshStep ==
  ASSUME TypeOK, TypeOK', DiskFresh, FileFresh, RewriteFresh, [Next]_vars
  PROVE  DiskFresh'
<1> SUFFICES ASSUME NEW f \in Files
             PROVE  Fresh(stamp', bytes', raced', f, mStamp'[f], Shown(f)')
  BY DEF DiskFresh
<1>o. Fresh(stamp', bytes', raced', f, mStamp[f], Shown(f))
  BY FreshSurvives, SourcesHoldBoth DEF DiskFresh, TypeOK
<1>1. CASE UNCHANGED disk
  BY <1>1, <1>o DEF disk, Shown
<1>2. ASSUME NEW m \in Loaders, WriteEntry(m)
      PROVE  Fresh(stamp', bytes', raced', f, mStamp'[f], Shown(f)')
  <2>1. PICK k \in left[m] : \A j \in Keys :
          parquet'[f][j] = IF f = cur[m] /\ j = k THEN keep[m][k] ELSE parquet[f][j]
    BY <1>2, WritesOneEntry
  <2>2. at[m] = "write" /\ mStamp' = mStamp /\ mKeys' = mKeys /\ cur[m] \in Files
    BY <1>2, WritesOneEntry
  <2>3. f = cur[m] => Fresh(stamp', bytes', raced', f, mStamp[f], keep[m])
    <3>1. Fresh(stamp, bytes, raced, cur[m], mStamp[cur[m]], keep[m])
      BY <2>2 DEF RewriteFresh, Rewriting
    <3> QED
      BY <2>2, <3>1, FreshSurvives, SourcesHoldBoth DEF TypeOK
  <2>4. \A j \in Keys : Shown(f)'[j] \in {0, Shown(f)[j]} \/ (f = cur[m] /\ Shown(f)'[j] = keep[m][j])
    BY <2>1, <2>2 DEF Shown
  <2> QED
    BY <2>2, <2>3, <2>4, <1>o DEF Fresh
<1>3. ASSUME NEW m \in Loaders, SwapManifest(m)
      PROVE  Fresh(stamp', bytes', raced', f, mStamp'[f], Shown(f)')
  <2>1. /\ at[m] = "swap" /\ parquet' = parquet
        /\ mStamp'[f] = IF f = cur[m] THEN stat[m] ELSE mStamp[f]
        /\ mKeys'[f] = IF f = cur[m] THEN Held(m) ELSE mKeys[f]
    BY <1>3, SwapsOneManifest
  <2>2. CASE f # cur[m]
    BY <2>1, <2>2, <1>o DEF Shown
  <2>3. CASE f = cur[m]
    <3>1. /\ Fresh(stamp, bytes, raced, f, stat[m], keep[m])
          /\ \/ Spoilt(m)
             \/ \A k \in Keys : keep[m][k] = 0 \/ parquet[f][k] \in {0, keep[m][k]}
      BY <2>1, <2>3 DEF FileFresh, RewriteFresh, Rewriting, InFile
    <3>2. stamp' = stamp /\ bytes' = bytes /\ raced' = raced
      BY <1>3 DEF SwapManifest, sources
    <3>3. CASE Spoilt(m)
      <4>1. stat[m] \in Nat /\ stamp[f] \in Nat
        BY SourcesHoldBoth DEF TypeOK
      <4> QED
        BY <2>1, <2>3, <3>1, <3>2, <3>3, <4>1 DEF Fresh, Spoilt
    <3>4. CASE \A k \in Keys : keep[m][k] = 0 \/ parquet[f][k] \in {0, keep[m][k]}
      <4>1. \A k \in Keys : Shown(f)'[k] \in {0, keep[m][k]}
        BY <2>1, <2>3, <3>4 DEF Shown, Held
      <4> QED
        BY <2>1, <2>3, <3>1, <3>2, <4>1 DEF Fresh
    <3> QED
      BY <3>1, <3>3, <3>4
  <2> QED
    BY <2>2, <2>3
<1>4. ASSUME NEW m \in Loaders, UnlinkStale(m)
      PROVE  Fresh(stamp', bytes', raced', f, mStamp'[f], Shown(f)')
  <2>1. /\ mStamp' = mStamp /\ mKeys' = mKeys
        /\ \A j \in Keys : parquet'[f][j] \in {0, parquet[f][j]}
    BY <1>4, UnlinksOneEntry
  <2>2. \A j \in Keys : Shown(f)'[j] \in {0, Shown(f)[j]}
    BY <2>1 DEF Shown
  <2> QED
    BY <2>1, <2>2, <1>o DEF Fresh
<1>5. ASSUME NEW m \in Loaders, Load(m)
      PROVE  Fresh(stamp', bytes', raced', f, mStamp'[f], Shown(f)')
  <2>1. CASE ~WriteEntry(m) /\ ~SwapManifest(m) /\ ~UnlinkStale(m)
    BY <1>1, <1>5, <2>1, LoadKeepsDisk DEF disk
  <2> QED
    BY <2>1, <1>2, <1>3, <1>4
<1> QED
  BY <1>1, <1>5, StepKinds DEF Quiet, Restart

-----------------------------------------------------------------------------
(* What the loads under way hold.                                           *)

LEMMA FileFreshStep ==
  ASSUME TypeOK, TypeOK', AnswerFresh, FileFresh, ReadFresh, [Next]_vars
  PROVE  FileFresh'
<1> SUFFICES ASSUME NEW l \in Loaders
    PROVE  /\ at'[l] \notin InFile \ {"manifest"} => keep'[l] = NoFrames
           /\ at'[l] \in InFile =>
                sig'[l][cur'[l]] <= stat'[l] /\ stat'[l] <= stamp'[cur'[l]]
           /\ at'[l] \in InFile \ {"parse"} =>
                Fresh(stamp', bytes', raced', cur'[l], stat'[l], keep'[l])
  BY DEF FileFresh
<1> DEFINE Goal == /\ at'[l] \notin InFile \ {"manifest"} => keep'[l] = NoFrames
                   /\ at'[l] \in InFile =>
                        sig'[l][cur'[l]] <= stat'[l] /\ stat'[l] <= stamp'[cur'[l]]
                   /\ at'[l] \in InFile \ {"parse"} =>
                        Fresh(stamp', bytes', raced', cur'[l], stat'[l], keep'[l])
<1>t. /\ cur[l] \in Sources /\ stat[l] \in Nat /\ stamp[cur[l]] \in Nat
      /\ stamp'[cur[l]] \in Nat /\ sig[l][cur[l]] \in Nat
  BY DEF TypeOK
<1>l. /\ at[l] \notin InFile \ {"manifest"} => keep[l] = NoFrames
      /\ at[l] \in InFile => sig[l][cur[l]] <= stat[l] /\ stat[l] <= stamp[cur[l]]
      /\ at[l] \in InFile \ {"parse"} => Fresh(stamp, bytes, raced, cur[l], stat[l], keep[l])
  BY DEF FileFresh
<1>k. at[l] \in InFile \ {"parse"} => Fresh(stamp', bytes', raced', cur[l], stat[l], keep[l])
  BY <1>t, <1>l, FreshSurvives
<1>g. at[l] \in InFile => sig[l][cur[l]] <= stat[l] /\ stat[l] <= stamp'[cur[l]]
  BY <1>t, <1>l, SourcesGrow
<1>1. CASE at'[l] = at[l] /\ cur'[l] = cur[l] /\ stat'[l] = stat[l] /\ keep'[l] = keep[l] /\ sig'[l] = sig[l]
  BY <1>1, <1>l, <1>k, <1>g
<1>2. CASE Restart
  BY <1>2 DEF Restart, Lost, InFile
<1>3. CASE Begin(l) \/ Sign(l) \/ Hit(l) \/ Miss(l) \/ ReadTable(l) \/ Store(l) \/ SkipAbsent(l)
           \/ Return(l)
  <2>1. at[l] \notin InFile /\ at'[l] \notin InFile /\ keep' = keep
    BY <1>3 DEF Begin, Sign, Hit, Miss, ReadTable, Store, SkipAbsent, Return, one, InFile, TypeOK
  <2> QED
    BY <2>1, <1>l
<1>4. CASE Stat(l)
  <2>1. PICK f \in todo[l] \cap Files :
          cur' = [cur EXCEPT ![l] = f] /\ stat' = [stat EXCEPT ![l] = stamp[f]]
    BY <1>4 DEF Stat
  <2>2. /\ at[l] = "load" /\ at'[l] = "manifest" /\ cur'[l] = f /\ stat'[l] = stamp[f]
        /\ stamp' = stamp /\ bytes' = bytes /\ raced' = raced /\ keep' = keep /\ sig' = sig
    BY <1>4, <2>1 DEF Stat, sources, call, TypeOK
  <2>3. sig[l][f] <= stamp[f] /\ f \in Sources /\ stamp[f] \in Nat
    BY SourcesHoldBoth DEF AnswerFresh, Fresh, TypeOK
  <2>4. keep[l] = NoFrames
    BY <2>2, <1>l DEF InFile
  <2>5. Fresh(stamp, bytes, raced, f, stamp[f], NoFrames)
    BY <2>3, NothingIsFresh
  <2> QED
    BY <2>2, <2>3, <2>4, <2>5
<1>5. CASE ReadManifest(l) \/ WriteEntry(l) \/ GiveUp(l) \/ FindStale(l) \/ SwapManifest(l) \/ UnlinkStale(l)
  <2>1. /\ sig' = sig /\ cur' = cur /\ stat' = stat /\ keep' = keep
        /\ at[l] \in InFile \ {"parse"} /\ at'[l] \in InFile \ {"manifest"}
    BY <1>5 DEF ReadManifest, WriteEntry, GiveUp, FindStale, SwapManifest, UnlinkStale, call, one,
       InFile, TypeOK
  <2> QED
    BY <2>1, <1>k, <1>g
<1>6. CASE ReadEntry(l)
  <2>1. PICK k \in left[l] :
          IF parquet[cur[l]][k] # 0
          THEN /\ keep' = [keep EXCEPT ![l][k] = parquet[cur[l]][k]]
               /\ left' = [left EXCEPT ![l] = @ \ {k}]
               /\ UNCHANGED at
          ELSE at' = [at EXCEPT ![l] = "parse"] /\ UNCHANGED <<keep, left>>
    BY <1>6 DEF ReadEntry
  <2>2. /\ stamp' = stamp /\ bytes' = bytes /\ raced' = raced /\ sig' = sig /\ cur' = cur
        /\ stat' = stat /\ at[l] = "entries" /\ at[l] \in InFile \ {"parse"} /\ k \in Keys
    BY <1>6 DEF ReadEntry, sources, call, InFile, TypeOK
  <2>3. CASE parquet[cur[l]][k] = 0
    <3>1. at'[l] = "parse"
      BY <2>1, <2>3 DEF TypeOK
    <3> QED
      BY <2>2, <3>1, <1>g DEF InFile
  <2>4. CASE parquet[cur[l]][k] # 0
    <3>1. /\ at' = at
          /\ \A j \in Keys : keep'[l][j] = IF j = k THEN parquet[cur[l]][k] ELSE keep[l][j]
      BY <2>1, <2>2, <2>4 DEF TypeOK
    <3>2. Fresh(stamp, bytes, raced, cur[l], stat[l], Unread(l))
      BY <2>2 DEF ReadFresh
    <3>3. Unread(l)[k] = parquet[cur[l]][k]
      BY <2>2 DEF Unread
    <3>4. Fresh(stamp, bytes, raced, cur[l], stat[l], keep[l])
      BY <1>l, <2>2
    <3>5. Fresh(stamp, bytes, raced, cur[l], stat[l], keep'[l])
      BY <3>1, <3>2, <3>3, <3>4 DEF Fresh
    <3> QED
      BY <2>2, <3>1, <3>5, <1>g DEF InFile
  <2> QED
    BY <2>3, <2>4
<1>7. CASE Parse(l)
  <2>1. /\ stamp' = stamp /\ bytes' = bytes /\ sig' = sig /\ cur' = cur /\ stat' = stat
        /\ at[l] = "parse" /\ at[l] \in InFile
    BY <1>7 DEF Parse, call, InFile
  <2>2. keep'[l] = FramesOf(bytes[cur[l]]) /\ at'[l] \in InFile \ {"manifest"}
    BY <1>7 DEF Parse, InFile, TypeOK
  <2>3. Fresh(stamp, bytes, raced', cur[l], stat[l], FramesOf(bytes[cur[l]]))
    BY <2>1, <1>l DEF Fresh
  <2> QED
    BY <2>1, <2>2, <2>3, <1>g
<1>8. CASE Collect(l)
  <2>1. at'[l] = "load" /\ keep'[l] = NoFrames
    BY <1>8 DEF Collect, Forgets, TypeOK
  <2> QED
    BY <2>1 DEF InFile
<1>9. CASE ProfileWanted(l) \/ WriteProfile(l)
  <2>1. at[l] \notin InFile /\ at'[l] \notin InFile /\ keep' = keep
    BY <1>9 DEF ProfileWanted, WriteProfile, InFile, TypeOK
  <2> QED
    BY <2>1, <1>l
<1>10. CASE Load(l)
  BY <1>3, <1>4, <1>5, <1>6, <1>7, <1>8, <1>9, <1>10 DEF Load
<1>11. ASSUME NEW m \in Loaders, Load(m), m # l PROVE Goal
  BY <1>1, <1>11, OthersStay
<1> QED
  BY <1>1, <1>2, <1>10, <1>11, StepKinds DEF Quiet, call, one

\* What is spoilt for a load stays so.
LEMMA SpoiltSurvives ==
  ASSUME TypeOK, TypeOK', FileFresh, [Next]_vars, NEW l \in Loaders, at[l] \in InFile, Spoilt(l),
         cur'[l] = cur[l], stat'[l] = stat[l]
  PROVE  Spoilt(l)'
<1>1. /\ stat[l] <= stamp[cur[l]] /\ cur[l] \in Sources
      /\ stat[l] \in Nat /\ stamp[cur[l]] \in Nat /\ stamp'[cur[l]] \in Nat
  BY DEF FileFresh, TypeOK
<1>2. /\ stamp'[cur[l]] >= stamp[cur[l]]
      /\ cur[l] \in raced => cur[l] \in raced' \/ stamp'[cur[l]] > stamp[cur[l]]
  BY <1>1, SourcesGrow
<1> QED
  BY <1>1, <1>2 DEF Spoilt

\* Whoever is in the midst of a rebuild after a step was there before, or
\* has just parsed.
LEMMA RewritesOn ==
  ASSUME TypeOK, [Next]_vars, NEW l \in Loaders, Rewriting(l)', ~Parse(l)
  PROVE  /\ Rewriting(l) /\ cur'[l] = cur[l] /\ stat'[l] = stat[l] /\ keep'[l] = keep[l]
         /\ at[l] = "write" \/ at'[l] = "swap"
<1> USE DEF Rewriting
<1>1. CASE Quiet
  BY <1>1 DEF Quiet, one
<1>2. CASE Restart
  BY <1>2 DEF Restart, Lost
<1>3. CASE Load(l)
  BY <1>3 DEF Load, Begin, Sign, Hit, Miss, ReadTable, Store, SkipAbsent, Stat, ReadManifest,
     ReadEntry, WriteEntry, GiveUp, FindStale, SwapManifest, UnlinkStale, Collect,
     ProfileWanted, WriteProfile, Return, one, TypeOK
<1>4. ASSUME NEW m \in Loaders, Load(m), m # l
      PROVE  /\ Rewriting(l) /\ cur'[l] = cur[l] /\ stat'[l] = stat[l] /\ keep'[l] = keep[l]
             /\ at[l] = "write" \/ at'[l] = "swap"
  BY <1>4, OthersStay
<1> QED
  BY <1>1, <1>2, <1>3, <1>4, StepKinds

\* Of two rebuilds of a file, the second to parse records the overlap.
LEMMA ApartStep ==
  ASSUME TypeOK, TypeOK', FileFresh, Apart, [Next]_vars
  PROVE  Apart'
<1> SUFFICES ASSUME NEW l \in Loaders, NEW m \in Loaders, l # m,
                    Rewriting(l)', Rewriting(m)', cur'[l] = cur'[m]
             PROVE  Spoilt(l)'
  BY DEF Apart, Rewriting
<1>1. ASSUME NEW p \in Loaders, NEW q \in Loaders, p # q, Rewriting(p)', Rewriting(q)',
             cur'[p] = cur'[q], Parse(p)
      PROVE  cur'[p] \in raced'
  <2>1. cur' = cur /\ at'[p] # "collect" /\ at'[q] = at[q]
    BY <1>1 DEF Parse, Rewriting, TypeOK
  <2>2. Rewrites(q, cur[p]) /\ SheetsOf(bytes[cur[p]]) # {}
    BY <1>1, <2>1 DEF Rewrites, Rewriting, Parse, TypeOK
  <2> QED
    BY <1>1, <2>1, <2>2 DEF Parse
<1>2. CASE Parse(l) \/ Parse(m)
  BY <1>1, <1>2 DEF Spoilt
<1>3. CASE ~Parse(l) /\ ~Parse(m)
  <2>1. /\ Rewriting(l) /\ Rewriting(m) /\ cur'[l] = cur[l] /\ cur'[m] = cur[m]
        /\ stat'[l] = stat[l]
    BY <1>3, RewritesOn
  <2>2. Spoilt(l) /\ at[l] \in InFile
    BY <2>1 DEF Apart, Rewriting, InFile
  <2> QED
    BY <2>1, <2>2, SpoiltSurvives
<1> QED
  BY <1>2, <1>3

\* A spoilt load's frames are of no consequence.
LEMMA SpoiltIsFresh ==
  ASSUME TypeOK, FileFresh, NEW l \in Loaders, at[l] \in InFile, Spoilt(l), NEW fr
  PROVE  Fresh(stamp, bytes, raced, cur[l], stat[l], fr)
<1>1. stat[l] <= stamp[cur[l]] /\ stat[l] \in Nat /\ stamp[cur[l]] \in Nat
  BY DEF FileFresh, TypeOK
<1> QED
  BY <1>1 DEF Fresh, Spoilt

LEMMA ReadBesideStep ==
  ASSUME TypeOK, TypeOK', DiskFresh, FileFresh, RewriteFresh, ReadBeside, [Next]_vars
  PROVE  ReadBeside'
<1> SUFFICES ASSUME NEW l \in Loaders, NEW m \in Loaders, at'[l] = "entries",
                    Rewriting(m)', cur'[l] = cur'[m]
             PROVE  Fresh(stamp', bytes', raced', cur'[l], stat'[l], keep'[m])
  BY DEF ReadBeside, Rewriting
<1>t. /\ cur[l] \in Sources /\ stat[l] \in Nat /\ stamp[cur[l]] \in Nat
  BY DEF TypeOK
<1>1. CASE Parse(m)
  <2>1. /\ l # m /\ stamp' = stamp /\ bytes' = bytes /\ cur' = cur /\ stat' = stat
        /\ keep'[m] = FramesOf(bytes[cur[m]]) /\ at'[l] = at[l]
    BY <1>1 DEF Parse, Rewriting, TypeOK
  <2>2. stat[l] <= stamp[cur[l]]
    BY <2>1 DEF FileFresh, InFile
  <2> QED
    BY <2>1, <2>2 DEF Fresh
<1>2. CASE ~Parse(m)
  <2>1. Rewriting(m) /\ cur'[m] = cur[m] /\ keep'[m] = keep[m]
    BY <1>2, RewritesOn
  <2>2. CASE ReadManifest(l)
    <3>1. /\ cur' = cur /\ stat' = stat /\ mStamp[cur[l]] = stat[l]
      BY <2>2 DEF ReadManifest, TypeOK
    <3>2. Fresh(stamp, bytes, raced, cur[l], stat[l], keep[m])
      BY <2>1, <3>1 DEF RewriteFresh
    <3> QED
      BY <2>1, <3>1, <3>2, <1>t, FreshSurvives
  <2>3. CASE at[l] = "entries" /\ cur'[l] = cur[l] /\ stat'[l] = stat[l]
    <3>1. Fresh(stamp, bytes, raced, cur[l], stat[l], keep[m])
      BY <2>1, <2>3 DEF ReadBeside
    <3> QED
      BY <2>1, <2>3, <3>1, <1>t, FreshSurvives
  <2>4. CASE Load(l)
    BY <2>2, <2>3, <2>4 DEF Load, Begin, Sign, Hit, Miss, ReadTable, Store, SkipAbsent, Stat,
       ReadEntry, Parse, WriteEntry, GiveUp, FindStale, SwapManifest, UnlinkStale, Collect,
       ProfileWanted, WriteProfile, Return, one, TypeOK
  <2>5. ASSUME NEW n \in Loaders, Load(n), n # l
        PROVE  Fresh(stamp', bytes', raced', cur'[l], stat'[l], keep'[m])
    BY <2>3, <2>5, OthersStay
  <2>6. CASE Restart
    BY <2>6 DEF Restart, Lost
  <2> QED
    BY <2>3, <2>4, <2>5, <2>6, StepKinds DEF Quiet, one
<1> QED
  BY <1>1, <1>2

LEMMA ReadFreshStep ==
  ASSUME TypeOK, TypeOK', DiskFresh, FileFresh, ReadFresh, ReadBeside, [Next]_vars
  PROVE  ReadFresh'
<1> SUFFICES ASSUME NEW l \in Loaders, at'[l] = "entries"
             PROVE  Fresh(stamp', bytes', raced', cur'[l], stat'[l], Unread(l)')
  BY DEF ReadFresh
<1>t. cur[l] \in Sources /\ cur'[l] \in Files /\ stat[l] \in Nat
  BY DEF TypeOK, InFile
<1>1. CASE ReadManifest(l)
  <2>1. /\ cur' = cur /\ stat' = stat /\ parquet' = parquet
        /\ mStamp[cur[l]] = stat[l] /\ left'[l] = mKeys[cur[l]] /\ cur[l] \in Files
    BY <1>1 DEF ReadManifest, disk, InFile, TypeOK
  <2>2. Fresh(stamp', bytes', raced', cur[l], stat[l], Shown(cur[l]))
    BY <2>1, <1>t, FreshSurvives DEF DiskFresh
  <2>3. Unread(l)' = Shown(cur[l])
    BY <2>1 DEF Unread, Shown
  <2> QED
    BY <2>1, <2>2, <2>3
<1>2. ASSUME at[l] = "entries", cur'[l] = cur[l], stat'[l] = stat[l], left'[l] \subseteq left[l],
             \A k \in Keys : parquet'[cur[l]][k] \in {0, parquet[cur[l]][k]}
      PROVE  Fresh(stamp', bytes', raced', cur'[l], stat'[l], Unread(l)')
  <2>1. Fresh(stamp', bytes', raced', cur[l], stat[l], Unread(l))
    BY <1>2, <1>t, FreshSurvives DEF ReadFresh
  <2>2. \A k \in Keys : Unread(l)'[k] \in {0, Unread(l)[k]}
    BY <1>2 DEF Unread
  <2> QED
    BY <1>2, <2>1, <2>2 DEF Fresh
<1>3. CASE ReadEntry(l)
  <2>1. /\ at[l] = "entries" /\ cur' = cur /\ stat' = stat /\ parquet' = parquet
        /\ left'[l] \subseteq left[l]
    BY <1>3 DEF ReadEntry, disk, TypeOK
  <2> QED
    BY <1>2, <2>1
<1>4. CASE Load(l)
  BY <1>1, <1>3, <1>4 DEF Load, Begin, Sign, Hit, Miss, ReadTable, Store, SkipAbsent, Stat,
     Parse, WriteEntry, GiveUp, FindStale, SwapManifest, UnlinkStale, Collect,
     ProfileWanted, WriteProfile, Return, one, TypeOK
<1>5. ASSUME NEW m \in Loaders, Load(m), m # l
      PROVE  Fresh(stamp', bytes', raced', cur'[l], stat'[l], Unread(l)')
  <2>1. at[l] = "entries" /\ cur'[l] = cur[l] /\ stat'[l] = stat[l] /\ left'[l] = left[l]
    BY <1>5, OthersStay
  <2>2. CASE WriteEntry(m)
    <3>1. PICK k \in left[m] : \A f \in Files : \A j \in Keys :
            parquet'[f][j] = IF f = cur[m] /\ j = k THEN keep[m][k] ELSE parquet[f][j]
      BY <2>2, WritesOneEntry
    <3>2. CASE cur[l] = cur[m]
      <4>1. Fresh(stamp', bytes', raced', cur[l], stat[l], keep[m])
        <5>1. Fresh(stamp, bytes, raced, cur[l], stat[l], keep[m])
          BY <2>1, <2>2, <3>2, WritesOneEntry DEF ReadBeside, Rewriting
        <5> QED
          BY <5>1, <1>t, FreshSurvives
      <4>2. Fresh(stamp', bytes', raced', cur[l], stat[l], Unread(l))
        BY <2>1, <1>t, FreshSurvives DEF ReadFresh
      <4>3. \A j \in Keys : Unread(l)'[j] \in {0, keep[m][j], Unread(l)[j]}
        BY <2>1, <3>1, <1>t DEF Unread
      <4> QED
        BY <2>1, <4>1, <4>2, <4>3 DEF Fresh
    <3>3. CASE cur[l] # cur[m]
      BY <2>1, <3>1, <3>3, <1>2, <1>t
    <3> QED
      BY <3>2, <3>3
  <2>3. CASE SwapManifest(m)
    BY <2>1, <2>3, <1>2, SwapsOneManifest
  <2>4. CASE UnlinkStale(m)
    BY <2>1, <2>4, <1>2, <1>t, UnlinksOneEntry
  <2>5. CASE ~WriteEntry(m) /\ ~SwapManifest(m) /\ ~UnlinkStale(m)
    BY <1>5, <2>1, <2>5, <1>2, LoadKeepsDisk
  <2> QED
    BY <2>2, <2>3, <2>4, <2>5
<1>6. CASE Restart
  BY <1>6 DEF Restart, Lost
<1>7. CASE Quiet
  BY <1>7, <1>2 DEF Quiet, disk, one
<1> QED
  BY <1>4, <1>5, <1>6, <1>7, StepKinds

LEMMA RewriteFreshStep ==
  ASSUME TypeOK, TypeOK', DiskFresh, FileFresh, RewriteFresh, Apart, [Next]_vars
  PROVE  RewriteFresh'
<1> SUFFICES ASSUME NEW l \in Loaders, Rewriting(l)'
    PROVE  /\ Fresh(stamp', bytes', raced', cur'[l], mStamp'[cur'[l]], keep'[l])
           /\ \/ Spoilt(l)'
              \/ \A k \in Keys : \/ parquet'[cur'[l]][k] \in {0, keep'[l][k]}
                                 \/ keep'[l][k] = 0
                                 \/ at'[l] = "write" /\ k \in left'[l]
  BY DEF RewriteFresh
<1> DEFINE Copied == \A k \in Keys : \/ parquet[cur[l]][k] \in {0, keep[l][k]}
                                     \/ keep[l][k] = 0
                                     \/ at[l] = "write" /\ k \in left[l]
<1>1. CASE Parse(l)
  <2>1. /\ stamp' = stamp /\ bytes' = bytes /\ mStamp' = mStamp /\ cur' = cur /\ stat' = stat
        /\ keep'[l] = FramesOf(bytes[cur[l]]) /\ left'[l] = SheetsOf(bytes[cur[l]])
        /\ at'[l] = "write" /\ cur[l] \in Files
    BY <1>1 DEF Parse, disk, Rewriting, InFile, TypeOK
  <2>2. mStamp[cur[l]] <= stamp[cur[l]]
    BY <2>1 DEF DiskFresh, Fresh
  <2>3. \A k \in Keys : keep'[l][k] = 0 \/ k \in left'[l]
    BY <2>1 DEF FramesOf
  <2> QED
    BY <2>1, <2>2, <2>3 DEF Fresh
<1>2. CASE ~Parse(l)
  <2>1. /\ Rewriting(l) /\ cur'[l] = cur[l] /\ stat'[l] = stat[l] /\ keep'[l] = keep[l]
        /\ at[l] = "write" \/ at'[l] = "swap"
        /\ cur[l] \in Files /\ cur[l] \in Sources /\ at[l] \in InFile
    BY <1>2, RewritesOn DEF Rewriting, InFile, TypeOK
  <2>2. Fresh(stamp, bytes, raced, cur[l], mStamp[cur[l]], keep[l]) /\ (Spoilt(l) \/ Copied)
    BY <2>1 DEF RewriteFresh
  <2>3. /\ Spoilt(l) => Spoilt(l)'
        /\ Fresh(stamp', bytes', raced', cur[l], mStamp[cur[l]], keep[l])
    <3>1. mStamp[cur[l]] \in Nat
      BY <2>1 DEF TypeOK
    <3> QED
      BY <2>1, <2>2, <3>1, SpoiltSurvives, FreshSurvives
  <2>4. ASSUME mStamp' = mStamp, at'[l] = at[l], left'[l] = left[l],
               \A k \in Keys : parquet'[cur[l]][k] \in {0, parquet[cur[l]][k]}
        PROVE  /\ Fresh(stamp', bytes', raced', cur'[l], mStamp'[cur'[l]], keep'[l])
               /\ \/ Spoilt(l)'
                  \/ \A k \in Keys : \/ parquet'[cur'[l]][k] \in {0, keep'[l][k]}
                                     \/ keep'[l][k] = 0
                                     \/ at'[l] = "write" /\ k \in left'[l]
    BY <2>1, <2>2, <2>3, <2>4
  <2>5. CASE WriteEntry(l)
    <3>1. PICK k \in left[l] :
            /\ left' = [left EXCEPT ![l] = @ \ {k}]
            /\ \A f \in Files : \A j \in Keys :
                 parquet'[f][j] = IF f = cur[l] /\ j = k THEN keep[l][k] ELSE parquet[f][j]
      BY <2>5, WritesOneEntry
    <3>2. at' = at /\ mStamp' = mStamp /\ left'[l] = left[l] \ {k}
      BY <2>5, <3>1, WritesOneEntry DEF TypeOK
    <3> QED
      BY <2>1, <2>2, <2>3, <3>1, <3>2
  <2>6. CASE FindStale(l)
    <3>1. left[l] = {} /\ mStamp' = mStamp /\ parquet' = parquet
      BY <2>6 DEF FindStale, disk
    <3> QED
      BY <2>1, <2>2, <2>3, <3>1
  <2>7. CASE Load(l)
    BY <2>1, <2>5, <2>6, <2>7, <1>2 DEF Load, Begin, Sign, Hit, Miss, ReadTable, Store, SkipAbsent,
       Stat, ReadManifest, ReadEntry, GiveUp, SwapManifest, UnlinkStale, Collect,
       ProfileWanted, WriteProfile, Return, Rewriting, TypeOK
  <2>8. ASSUME NEW m \in Loaders, Load(m), m # l
        PROVE  /\ Fresh(stamp', bytes', raced', cur'[l], mStamp'[cur'[l]], keep'[l])
               /\ \/ Spoilt(l)'
                  \/ \A k \in Keys : \/ parquet'[cur'[l]][k] \in {0, keep'[l][k]}
                                     \/ keep'[l][k] = 0
                                     \/ at'[l] = "write" /\ k \in left'[l]
    <3>1. at'[l] = at[l] /\ left'[l] = left[l]
      BY <2>8, OthersStay
    <3>2. Rewriting(m) /\ cur[m] = cur[l] => Spoilt(l) /\ Spoilt(m)
      BY <2>1, <2>8 DEF Apart
    <3>3. CASE WriteEntry(m)
      <4>1. Rewriting(m) /\ mStamp' = mStamp
        BY <3>3, WritesOneEntry DEF Rewriting
      <4>2. CASE cur[m] = cur[l]
        BY <2>1, <2>3, <3>2, <4>1, <4>2
      <4>3. CASE cur[m] # cur[l]
        <5>1. \A j \in Keys : parquet'[cur[l]][j] = parquet[cur[l]][j]
          BY <2>1, <3>3, <4>3, WritesOneEntry
        <5> QED
          BY <2>4, <3>1, <4>1, <5>1
      <4> QED
        BY <4>2, <4>3
    <3>4. CASE SwapManifest(m)
      <4>1. /\ Rewriting(m) /\ at[m] \in InFile /\ parquet' = parquet
            /\ mStamp'[cur[l]] = IF cur[l] = cur[m] THEN stat[m] ELSE mStamp[cur[l]]
        BY <2>1, <3>4, SwapsOneManifest DEF Rewriting, InFile
      <4>2. CASE cur[m] = cur[l]
        <5>1. Fresh(stamp, bytes, raced, cur[m], stat[m], keep[l])
          BY <3>2, <4>1, <4>2, SpoiltIsFresh
        <5>2. Fresh(stamp', bytes', raced', cur[l], stat[m], keep[l])
          BY <4>2, <5>1, <2>1, FreshSurvives DEF TypeOK
        <5> QED
          BY <2>1, <2>3, <3>2, <4>1, <4>2, <5>2
      <4>3. CASE cur[m] # cur[l]
        BY <2>1, <2>2, <2>3, <3>1, <4>1, <4>3
      <4> QED
        BY <4>2, <4>3
    <3>5. CASE UnlinkStale(m)
      BY <2>1, <2>4, <3>1, <3>5, UnlinksOneEntry
    <3>6. CASE ~WriteEntry(m) /\ ~SwapManifest(m) /\ ~UnlinkStale(m)
      BY <2>4, <2>8, <3>1, <3>6, LoadKeepsDisk
    <3> QED
      BY <3>3, <3>4, <3>5, <3>6
  <2>9. CASE Restart
    BY <2>9 DEF Restart, Lost, Rewriting
  <2>10. CASE Quiet
    BY <2>10, <2>4 DEF Quiet, disk, one
  <2> QED
    BY <2>7, <2>8, <2>9, <2>10, StepKinds
<1> QED
  BY <1>1, <1>2

-----------------------------------------------------------------------------
\* However many loads overlap, and whatever the files go through meanwhile:
\* the memory cache serves outdated frames under a current signature, and a
\* current manifest names outdated copies, only of a file two of whose
\* rebuilds overlapped since it last changed.
THEOREM OnlyOverlapsGoStale == Spec => []OnlyOverlapsStale
<1> DEFINE Inv == TypeOK /\ EmptyAtFirst /\ LInv
<1>1. Init => Inv
  <2> SUFFICES ASSUME Init PROVE EmptyAtFirst /\ LInv
    BY TypeInit
  <2>1. \A s \in Sources :
          /\ Fresh(stamp, bytes, raced, s, 0, NoFrames)
          /\ NoStats[s] = 0 /\ Nothing[s] = NoFrames
    BY DEF Init, Fresh, NoFrames, NoStats, Nothing
  <2>2. MemoryFresh /\ AnswerFresh /\ EmptyAtFirst
    BY <2>1 DEF Init, EmptyAtFirst, MemoryFresh, AnswerFresh
  <2>3. DiskFresh
    BY <2>1, SourcesHoldBoth DEF Init, Fresh, Shown, NoFrames, DiskFresh
  <2>4. FileFresh
    BY DEF Init, FileFresh, InFile
  <2>5. ReadFresh /\ RewriteFresh /\ Apart /\ ReadBeside
    BY DEF Init, ReadFresh, RewriteFresh, Apart, ReadBeside, Rewriting
  <2> QED
    BY <2>2, <2>3, <2>4, <2>5 DEF LInv
<1>2. Inv /\ [Next]_vars => Inv'
  <2> SUFFICES ASSUME Inv, [Next]_vars PROVE Inv'
    OBVIOUS
  <2>1. TypeOK' /\ EmptyAtFirst'
    BY TypeStep, EmptyAtFirstStep
  <2>2. MemoryFresh' /\ DiskFresh' /\ AnswerFresh'
    BY <2>1, MemoryFreshStep, DiskFreshStep, AnswerFreshStep DEF LInv
  <2>3. FileFresh' /\ ReadFresh'
    BY <2>1, FileFreshStep, ReadFreshStep DEF LInv
  <2>4. RewriteFresh' /\ Apart' /\ ReadBeside'
    BY <2>1, RewriteFreshStep, ApartStep, ReadBesideStep DEF LInv
  <2> QED
    BY <2>1, <2>2, <2>3, <2>4 DEF LInv
<1>3. Inv => OnlyOverlapsStale
  <2> SUFFICES ASSUME Inv PROVE OnlyOverlapsStale
    OBVIOUS
  <2>1. MemoryIsCurrentOf(Sources \ raced)
    BY DEF LInv, MemoryFresh, Fresh, MemoryIsCurrentOf, Current
  <2>2. DiskIsCurrentOf(Files \ raced)
    BY SourcesHoldBoth DEF LInv, DiskFresh, Fresh, Shown, DiskIsCurrentOf, Current, TypeOK
  <2> QED
    BY <2>1, <2>2 DEF OnlyOverlapsStale
<1> QED
  BY <1>1, <1>2, <1>3, PTL DEF Spec
=============================================================================
