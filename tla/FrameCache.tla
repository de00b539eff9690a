----------------------------- MODULE FrameCache -----------------------------
(***************************************************************************)
(* The caches in front of one chat's data (local_store): the frames in      *)
(* memory under a signature of their sources, the parquet copies of the     *)
(* parsed files under a manifest each, and the profiles with their stamps.  *)
(*                                                                         *)
(* A source's stat (size and mtime) is a stamp that no two of its states    *)
(* share; its content is named by the stamp it was written under.  A frame  *)
(* is the content it was read from, 0 when there is none.                   *)
(***************************************************************************)
EXTENDS Naturals

CONSTANTS
  Files,     \* uploaded files of the chat
  Tables,    \* its database tables, each a central snapshot
  Keys,      \* sheets a file may hold
  KeysOf,    \* content -> the sheets it holds
  Loaders,   \* threads that load the chat's frames
  MaxStamp   \* bound on the changes of a source

Sources == Files \cup Tables

VARIABLES
  stamp, bytes,               \* of each source; stamp 0: absent
  mStamp, mKeys, parquet,     \* .parquet_cache: manifests and entries
  pStamp, profile,            \* .profiles
  memHeld, memSig, memFrames, \* the chat's entry of _DATAFRAME_CACHE
  at, todo, sig, out,         \* _load_dataframes_cached, per loader
  cur, stat, keep, left,      \* _load_one_file_cached, per loader
  raced                       \* (history) files two rebuilds of whose copies
                              \* overlapped since they last changed

sources == <<stamp, bytes, raced>>
disk    == <<mStamp, mKeys, parquet>>
profs   == <<pStamp, profile>>
mem     == <<memHeld, memSig, memFrames>>
call    == <<todo, sig, out>>
one     == <<cur, stat, keep, left>>
vars    == <<sources, disk, profs, mem, at, call, one>>

NoFrames == [k \in Keys |-> 0]

\* What the parser makes of a content.
SheetsOf(b) == {k \in Keys : k \in KeysOf[b]}
FramesOf(b) == [k \in Keys |-> IF k \in SheetsOf(b) THEN b ELSE 0]

Nothing == [s \in Sources |-> NoFrames]
NoStats == [s \in Sources |-> 0]

\* No load is under way.
Lost ==
  /\ at' = [l \in Loaders |-> "idle"] /\ todo' = [l \in Loaders |-> {}]
  /\ sig' = [l \in Loaders |-> NoStats] /\ out' = [l \in Loaders |-> Nothing]
  /\ stat' = [l \in Loaders |-> 0]
  /\ keep' = [l \in Loaders |-> NoFrames] /\ left' = [l \in Loaders |-> {}]

Init ==
  /\ stamp = NoStats /\ bytes = NoStats /\ raced = {}
  /\ mStamp = [f \in Files |-> 0] /\ mKeys = [f \in Files |-> {}]
  /\ parquet = [f \in Files |-> NoFrames]
  /\ pStamp = NoStats /\ profile = Nothing
  /\ memHeld = FALSE /\ memSig = NoStats /\ memFrames = Nothing
  /\ at = [l \in Loaders |-> "idle"]
  /\ todo = [l \in Loaders |-> {}]
  /\ sig = [l \in Loaders |-> NoStats]
  /\ out = [l \in Loaders |-> Nothing]
  /\ cur \in [Loaders -> Sources] /\ stat = [l \in Loaders |-> 0]
  /\ keep = [l \in Loaders |-> NoFrames] /\ left = [l \in Loaders |-> {}]

-----------------------------------------------------------------------------
(* The sources.  Add Data copies a file over the old one: bytes first, in   *)
(* pieces, then the times of its original.  A snapshot is replaced whole.   *)

WriteBytes(s) ==
  /\ stamp[s] < MaxStamp
  /\ stamp' = [stamp EXCEPT ![s] = @ + 1]
  /\ bytes' = [bytes EXCEPT ![s] = stamp[s] + 1]
  /\ raced' = raced \ {s}
  /\ UNCHANGED <<disk, profs, mem, at, call, one>>

CopyStat(f) ==
  /\ stamp[f] \in 1..(MaxStamp - 1)
  /\ stamp' = [stamp EXCEPT ![f] = @ + 1]
  /\ raced' = raced \ {f}
  /\ UNCHANGED <<bytes, disk, profs, mem, at, call, one>>

-----------------------------------------------------------------------------
(* _load_dataframes_cached.                                                 *)

Begin(l) ==
  /\ at[l] = "idle"
  /\ at' = [at EXCEPT ![l] = "sign"]
  /\ todo' = [todo EXCEPT ![l] = Sources]
  /\ UNCHANGED <<sources, disk, profs, mem, sig, out, one>>

\* _files_signature and _db_signature: a stat each, in any order.
Sign(l) ==
  /\ at[l] = "sign"
  /\ \E s \in todo[l] :
       /\ sig' = [sig EXCEPT ![l][s] = stamp[s]]
       /\ todo' = [todo EXCEPT ![l] = @ \ {s}]
  /\ UNCHANGED <<sources, disk, profs, mem, at, out, one>>

\* LRUTTLCache.get and the comparison of signatures.
Hit(l) ==
  /\ at[l] = "sign" /\ todo[l] = {}
  /\ memHeld /\ memSig = sig[l]
  /\ out' = [out EXCEPT ![l] = memFrames]
  /\ at' = [at EXCEPT ![l] = "ready"]
  /\ UNCHANGED <<sources, disk, profs, mem, todo, sig, one>>

Miss(l) ==
  /\ at[l] = "sign" /\ todo[l] = {}
  /\ ~(memHeld /\ memSig = sig[l])
  /\ todo' = [todo EXCEPT ![l] = Sources]
  /\ at' = [at EXCEPT ![l] = "load"]
  /\ UNCHANGED <<sources, disk, profs, mem, sig, out, one>>

\* _load_db_snapshots, after the files; an unreadable one is skipped.
ReadTable(l) ==
  /\ at[l] = "load" /\ todo[l] \cap Files = {}
  /\ \E t \in todo[l] :
       /\ out' \in {[out EXCEPT ![l][t] = FramesOf(bytes[t])], out}
       /\ todo' = [todo EXCEPT ![l] = @ \ {t}]
  /\ UNCHANGED <<sources, disk, profs, mem, at, sig, one>>

Dropped == memHeld' = FALSE /\ memSig' = NoStats /\ memFrames' = Nothing

\* LRUTTLCache.set: kept, or refused for its size, or it failed.
Store(l) ==
  /\ at[l] = "load" /\ todo[l] = {}
  /\ at' = [at EXCEPT ![l] = "ready"]
  /\ \/ /\ out[l] # Nothing
        /\ memHeld' = TRUE /\ memSig' = sig[l] /\ memFrames' = out[l]
     \/ /\ out[l] # Nothing
        /\ Dropped
     \/ UNCHANGED mem
  /\ UNCHANGED <<sources, disk, profs, call, one>>

\* The least recently used entry, an expired one, a room made for another.
Evict ==
  /\ memHeld
  /\ Dropped
  /\ UNCHANGED <<sources, disk, profs, at, call, one>>

-----------------------------------------------------------------------------
(* _load_one_file_cached.                                                   *)

SkipAbsent(l) ==
  /\ at[l] = "load"
  /\ \E f \in todo[l] \cap Files :
       /\ stamp[f] = 0
       /\ todo' = [todo EXCEPT ![l] = @ \ {f}]
  /\ UNCHANGED <<sources, disk, profs, mem, at, sig, out, one>>

Stat(l) ==
  /\ at[l] = "load"
  /\ \E f \in todo[l] \cap Files :
       /\ stamp[f] # 0
       /\ cur' = [cur EXCEPT ![l] = f]
       /\ stat' = [stat EXCEPT ![l] = stamp[f]]
  /\ at' = [at EXCEPT ![l] = "manifest"]
  /\ UNCHANGED <<sources, disk, profs, mem, call, keep, left>>

\* _parquet_cache_read
ReadManifest(l) ==
  /\ at[l] = "manifest"
  /\ IF mStamp[cur[l]] = stat[l] /\ mKeys[cur[l]] # {}
     THEN /\ at' = [at EXCEPT ![l] = "entries"]
          /\ left' = [left EXCEPT ![l] = mKeys[cur[l]]]
     ELSE at' = [at EXCEPT ![l] = "parse"] /\ UNCHANGED left
  /\ UNCHANGED <<sources, disk, profs, mem, call, cur, stat, keep>>

ReadEntry(l) ==
  /\ at[l] = "entries"
  /\ \E k \in left[l] :
       IF parquet[cur[l]][k] # 0
       THEN /\ keep' = [keep EXCEPT ![l][k] = parquet[cur[l]][k]]
            /\ left' = [left EXCEPT ![l] = @ \ {k}]
            /\ UNCHANGED at
       ELSE at' = [at EXCEPT ![l] = "parse"] /\ UNCHANGED <<keep, left>>
  /\ UNCHANGED <<sources, disk, profs, mem, call, cur, stat>>

\* Between the parse of a file and the swap of its manifest.
Rewrites(l, f) == at[l] \in {"write", "swap"} /\ cur[l] = f

\* _load_one_file
Parse(l) ==
  /\ at[l] = "parse"
  /\ LET b == bytes[cur[l]] IN
     /\ keep' = [keep EXCEPT ![l] = FramesOf(b)]
     /\ left' = [left EXCEPT ![l] = SheetsOf(b)]
     /\ at' = [at EXCEPT ![l] = IF SheetsOf(b) = {} THEN "collect" ELSE "write"]
  /\ raced' = IF SheetsOf(bytes[cur[l]]) # {} /\ \E m \in Loaders : Rewrites(m, cur[l])
              THEN raced \cup {cur[l]} ELSE raced
  /\ UNCHANGED <<stamp, bytes, disk, profs, mem, call, cur, stat>>

\* _parquet_cache_write: one replaced file per frame, or it gives up.
WriteEntry(l) ==
  /\ at[l] = "write"
  /\ \E k \in left[l] :
       /\ parquet' = [parquet EXCEPT ![cur[l]][k] = keep[l][k]]
       /\ left' = [left EXCEPT ![l] = @ \ {k}]
  /\ UNCHANGED <<sources, mStamp, mKeys, profs, mem, at, call, cur, stat, keep>>

GiveUp(l) ==
  /\ at[l] = "write"
  /\ at' = [at EXCEPT ![l] = "collect"]
  /\ UNCHANGED <<sources, disk, profs, mem, call, one>>

Held(l) == {k \in Keys : keep[l][k] # 0}

\* The entries only the manifest on disk names, to be removed in the end.
FindStale(l) ==
  /\ at[l] = "write" /\ left[l] = {}
  /\ left' = [left EXCEPT ![l] = mKeys[cur[l]] \ Held(l)]
  /\ at' = [at EXCEPT ![l] = "swap"]
  /\ UNCHANGED <<sources, disk, profs, mem, call, cur, stat, keep>>

SwapManifest(l) ==
  /\ at[l] = "swap"
  /\ mStamp' = [mStamp EXCEPT ![cur[l]] = stat[l]]
  /\ mKeys' = [mKeys EXCEPT ![cur[l]] = Held(l)]
  /\ at' = [at EXCEPT ![l] = "unlink"]
  /\ UNCHANGED <<sources, parquet, profs, mem, call, one>>

\* An unlink that fails is passed over.
UnlinkStale(l) ==
  /\ at[l] = "unlink"
  /\ \E k \in left[l] :
       /\ parquet' \in {[parquet EXCEPT ![cur[l]][k] = 0], parquet}
       /\ left' = [left EXCEPT ![l] = @ \ {k}]
  /\ UNCHANGED <<sources, mStamp, mKeys, profs, mem, at, call, cur, stat, keep>>

\* The locals of one file's load go out of scope.
Forgets(l) ==
  /\ stat' = [stat EXCEPT ![l] = 0]
  /\ keep' = [keep EXCEPT ![l] = NoFrames]
  /\ left' = [left EXCEPT ![l] = {}]

\* The file's frames join the result.
Collect(l) ==
  /\ \/ at[l] = "collect"
     \/ at[l] \in {"entries", "unlink"} /\ left[l] = {}
  /\ out' = [out EXCEPT ![l][cur[l]] = keep[l]]
  /\ todo' = [todo EXCEPT ![l] = @ \ {cur[l]}]
  /\ at' = [at EXCEPT ![l] = "load"]
  /\ Forgets(l)
  /\ UNCHANGED <<sources, disk, profs, mem, sig, cur>>

-----------------------------------------------------------------------------
(* ensure_chat_profiles, with the frames the caller loaded; a profile is    *)
(* named by the frames it describes.                                        *)

ProfileWanted(l) ==
  /\ at[l] = "ready"
  /\ \E s \in Sources :
       /\ out[l][s] # NoFrames /\ pStamp[s] # stamp[s]
       /\ cur' = [cur EXCEPT ![l] = s]
       /\ stat' = [stat EXCEPT ![l] = stamp[s]]
  /\ at' = [at EXCEPT ![l] = "profile"]
  /\ UNCHANGED <<sources, disk, profs, mem, call, keep, left>>

WriteProfile(l) ==
  /\ at[l] = "profile"
  /\ pStamp' = [pStamp EXCEPT ![cur[l]] = stat[l]]
  /\ profile' = [profile EXCEPT ![cur[l]] = out[l][cur[l]]]
  /\ at' = [at EXCEPT ![l] = "ready"]
  /\ stat' = [stat EXCEPT ![l] = 0]
  /\ UNCHANGED <<sources, disk, mem, call, cur, keep, left>>

Return(l) ==
  /\ at[l] = "ready"
  /\ at' = [at EXCEPT ![l] = "idle"]
  /\ sig' = [sig EXCEPT ![l] = NoStats]
  /\ out' = [out EXCEPT ![l] = Nothing]
  /\ UNCHANGED <<sources, disk, profs, mem, todo, one>>

\* The web service restarts: memory is gone, the disk stays.
Restart ==
  /\ Dropped /\ Lost
  /\ UNCHANGED <<sources, disk, profs, cur>>

-----------------------------------------------------------------------------
Load(l) ==
  \/ Begin(l) \/ Sign(l) \/ Hit(l) \/ Miss(l) \/ ReadTable(l) \/ Store(l)
  \/ SkipAbsent(l) \/ Stat(l) \/ ReadManifest(l) \/ ReadEntry(l) \/ Parse(l)
  \/ WriteEntry(l) \/ GiveUp(l) \/ FindStale(l) \/ SwapManifest(l)
  \/ UnlinkStale(l) \/ Collect(l)
  \/ ProfileWanted(l) \/ WriteProfile(l) \/ Return(l)

Next ==
  \/ \E l \in Loaders : Load(l)
  \/ \E s \in Sources : WriteBytes(s)
  \/ \E f \in Files : CopyStat(f)
  \/ Evict \/ Restart

Spec == Init /\ [][Next]_vars

-----------------------------------------------------------------------------
\* Where a loader is within the load of one file.
InFile == {"manifest", "entries", "parse", "write", "swap", "unlink", "collect"}

TypeOK ==
  /\ stamp \in [Sources -> Nat] /\ bytes \in [Sources -> Nat]
  /\ mStamp \in [Files -> Nat] /\ mKeys \in [Files -> SUBSET Keys]
  /\ parquet \in [Files -> [Keys -> Nat]]
  /\ pStamp \in [Sources -> Nat] /\ profile \in [Sources -> [Keys -> Nat]]
  /\ memHeld \in BOOLEAN /\ memSig \in [Sources -> Nat]
  /\ memFrames \in [Sources -> [Keys -> Nat]]
  /\ at \in [Loaders -> {"idle", "sign", "load", "ready", "profile"} \cup InFile]
  /\ todo \in [Loaders -> SUBSET Sources]
  /\ sig \in [Loaders -> [Sources -> Nat]]
  /\ out \in [Loaders -> [Sources -> [Keys -> Nat]]]
  /\ cur \in [Loaders -> Sources] /\ stat \in [Loaders -> Nat]
  /\ keep \in [Loaders -> [Keys -> Nat]] /\ left \in [Loaders -> SUBSET Keys]
  /\ raced \subseteq Files
  /\ \A l \in Loaders : at[l] \in InFile => cur[l] \in Files

\* A frame of source s that is not an outdated one.
Current(s, k, v) == v \in {0, FramesOf(bytes[s])[k]}

\* What the memory holds of sources S under the stats they have now is what
\* they contain now.
MemoryIsCurrentOf(S) ==
  memHeld => \A s \in S : memSig[s] = stamp[s] =>
               \A k \in Keys : Current(s, k, memFrames[s][k])

\* The comment's claim: "a changed file can never serve stale data".
MemoryIsCurrent == MemoryIsCurrentOf(Sources)

\* The same of the database tables alone.
TablesInMemoryAreCurrent == MemoryIsCurrentOf(Tables)

\* The parquet copies that the current stat of a file of F selects are of its
\* current content.
DiskIsCurrentOf(F) ==
  \A f \in F : mStamp[f] = stamp[f] =>
    \A k \in mKeys[f] : Current(f, k, parquet[f][k])

\* The comment's claim: "concurrent rebuilds can't corrupt each other".
DiskIsCurrent == DiskIsCurrentOf(Files)

\* Memory and disk are current of every file whose copies no two overlapping
\* rebuilds wrote since it last changed, however many loads are under way:
\* a reader beside a rebuild, two readers, a rebuild left half done, a change
\* at any point of them do no harm.
OnlyOverlapsStale == MemoryIsCurrentOf(Sources \ raced) /\ DiskIsCurrentOf(Files \ raced)

\* A profile stamped with a source's current stat describes its current content.
ProfileIsCurrent ==
  \A s \in Sources : pStamp[s] = stamp[s] =>
    \A k \in Keys : Current(s, k, profile[s][k])
=============================================================================
