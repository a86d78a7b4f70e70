------------------------------ MODULE OpfsPool ------------------------------
(***************************************************************************)
(* The synchronous OPFS filesystem of a database (storage/opfs-pool.ts,    *)
(* DirectOpfsPool): logical PostgreSQL paths live in one state file that   *)
(* is replaced atomically, file bytes in flat backing files that are       *)
(* written in place, flushed separately and recycled through a pool of     *)
(* spares.  Any step may fail, and the machine may crash between any two:  *)
(* a crash loses the pool object, and of each backing file either keeps or *)
(* loses what was written since its last flush.                            *)
(*                                                                         *)
(* A file's bytes are abstracted to which file they belong to and to how   *)
(* many times it was written.  Directories carry no bytes and are left     *)
(* out: a namespace is a map from paths to files.                          *)
(***************************************************************************)
EXTENDS Integers, FiniteSets, FiniteSetsExt

CONSTANTS Wal,       \* paths under pg_wal/
          Data,      \* the other paths that PostgreSQL keeps
          Volatile,  \* VOLATILE_DATABASE_FILES
          Seed,      \* the paths in the cluster seed
          Essential, \* PG_VERSION and pg_control, which PostgreSQL never unlinks
          Files,     \* the file records; bound: how many exist at one time
          Backings,  \* the names of backing files; bound: the quota
          None,      \* no file, no backing file
          MaxWrites, \* bound: writes to one file
          MaxRefs,   \* bound: descriptors of one file
          Reserve    \* PREOPENED_FILE_RESERVE

ASSUME PoolAssumption ==
  /\ Wal \cap Data = {} /\ Volatile \cap (Wal \cup Data) = {}
  /\ Seed \subseteq Wal \cup Data /\ Essential \subseteq Seed \cap Data
  /\ None \notin Files \cup Backings
  /\ MaxWrites \in Nat /\ MaxRefs \in Nat \ {0} /\ Reserve \in Nat

Paths == Wal \cup Data \cup Volatile

VARIABLES
  phase, backingAt, fileAt, \* the state file: its phase and its entries
  disk,                     \* the backing files that exist
  cached, kept,             \* their bytes as written, and as last flushed
  pc,                       \* what the owner of the database is doing
  boundary,                 \* the boundary of the sync under way
  entries, home, writes, references, \* the pool: path -> file, file -> backing
  dirty, spares, pendingReclaims,
  initializationComplete, namespaceDirty,
  opening,                  \* the pool is being opened
  report,                   \* what the last open reported
  touched,                  \* the files written since the pool was opened
  published                 \* a "ready" state file was once written

stateFile == <<phase, backingAt, fileAt>>
bytes == <<disk, cached, kept>>
pool == <<entries, home, writes, references, dirty, spares, pendingReclaims,
          initializationComplete, namespaceDirty>>
promise == <<touched, published>>
vars == <<stateFile, bytes, pc, boundary, pool, opening, report, promise>>

NoNames == [p \in Paths |-> None]
Blank == <<None, 0>>

Init ==
  /\ phase = "absent" /\ backingAt = NoNames /\ fileAt = NoNames
  /\ disk = {} /\ cached = [b \in Backings |-> Blank] /\ kept = cached
  /\ pc = "down" /\ boundary = "operation"
  /\ entries = NoNames /\ home = [f \in Files |-> None]
  /\ writes = [f \in Files |-> 0] /\ references = [f \in Files |-> 0]
  /\ dirty = {} /\ spares = {} /\ pendingReclaims = {}
  /\ initializationComplete = FALSE /\ namespaceDirty = FALSE
  /\ opening = FALSE /\ report = "none"
  /\ touched = {} /\ published = FALSE

-----------------------------------------------------------------------------
(* Helpers *)

Named == {entries[p] : p \in Paths} \ {None}
Live == Named \cup pendingReclaims \cup {f \in Files : references[f] > 0}
Staged == {f \in Named : home[f] = None}
Referenced == {backingAt[p] : p \in Paths} \ {None}
isWalRecord(f) == \E p \in Wal : entries[p] = f

\* A file, and a backing file (newBackingNames), that nothing refers to.
FreshFile(f) ==
  /\ f \notin Live /\ \A p \in Paths : f # fileAt[p]
  /\ \A b \in disk : f # cached[b][1] /\ f # kept[b][1]
newBackingNames == Backings \ (disk \cup Referenced)

\* flushRecord on every file of F: a staged file stays dirty.
Flushed(F) == {f \in F \cap dirty : home[f] # None}
FlushAll(F) ==
  /\ kept' = [b \in Backings |-> IF \E f \in Flushed(F) : home[f] = b
                                 THEN cached[b] ELSE kept[b]]
  /\ dirty' = dirty \ Flushed(F)

\* What closing the handles, or a crash, leaves of the pool object: nothing.
PoolGone ==
  /\ entries' = NoNames /\ home' = [f \in Files |-> None]
  /\ writes' = [f \in Files |-> 0] /\ references' = [f \in Files |-> 0]
  /\ dirty' = {} /\ spares' = {} /\ pendingReclaims' = {}
  /\ initializationComplete' = FALSE /\ namespaceDirty' = FALSE
  /\ touched' = {}

-----------------------------------------------------------------------------
(* open *)

\* readPoolState: no state file, a malformed one, or one of the two phases.
Open ==
  /\ pc = "down"
  /\ opening' = (phase # "empty")
  /\ \/ /\ phase = "absent"
        /\ pc' = "seed" /\ boundary' = "seed" /\ report' = "none"
        /\ UNCHANGED bytes
     \/ /\ phase = "empty"
        /\ report' = "corrupt"
        /\ UNCHANGED <<pc, boundary, bytes>>
     \/ /\ phase = "initializing"      \* resetPoolClusterSeed
        /\ disk' = {}
        /\ cached' = [b \in Backings |-> Blank] /\ kept' = cached'
        /\ pc' = "seed" /\ boundary' = "seed" /\ report' = "none"
     \/ /\ phase = "ready"
        /\ pc' = "hydrate" /\ report' = "none"
        /\ UNCHANGED <<boundary, bytes>>
  /\ UNCHANGED <<stateFile, pool, promise>>

\* initializePoolState: each file of the seed gets a complete backing file.
SeedFile ==
  /\ pc = "seed"
  /\ \E p \in Seed, f \in Files, b \in newBackingNames :
       /\ entries[p] = None /\ FreshFile(f)
       /\ entries' = [entries EXCEPT ![p] = f]
       /\ home' = [home EXCEPT ![f] = b]
       /\ disk' = disk \cup {b}
       /\ cached' = [cached EXCEPT ![b] = <<f, 0>>]
       /\ kept' = [kept EXCEPT ![b] = <<f, 0>>]
  /\ UNCHANGED <<stateFile, pc, boundary, writes, references, dirty, spares,
                 pendingReclaims, initializationComplete, namespaceDirty,
                 opening, report, promise>>

\* hydrate, validateEssentials and restoreSpares: every entry must have its
\* backing file; the other backing files become spares, up to the reserve, and
\* the rest are removed.  Then removeVolatileEntries, which syncs when it removed
\* something; as nothing is dirty yet its flushWal does nothing.
Hydrate ==
  LET missing == ~(Referenced \subseteq disk) \/ \E p \in Essential : backingAt[p] = None
      unused == disk \ Referenced
  IN
  /\ pc = "hydrate"
  /\ \/ /\ missing
        /\ report' = "corrupt" /\ pc' = "down" /\ opening' = FALSE
        /\ PoolGone
        /\ UNCHANGED <<bytes, boundary>>
     \/ /\ ~missing
        /\ \E keep \in SUBSET unused :
             /\ Cardinality(keep) = Min({Reserve, Cardinality(unused)})
             /\ spares' = keep /\ disk' = Referenced \cup keep
        /\ cached' = [b \in Backings |-> IF b \in Referenced THEN cached[b] ELSE Blank]
        /\ kept' = [b \in Backings |-> IF b \in Referenced THEN kept[b] ELSE Blank]
        /\ entries' = [p \in Paths |-> IF p \in Volatile THEN None ELSE fileAt[p]]
        /\ pendingReclaims' = {fileAt[p] : p \in Volatile} \ {None}
        /\ home' = [f \in Files |->
             IF \E p \in Paths : fileAt[p] = f
             THEN backingAt[CHOOSE p \in Paths : fileAt[p] = f] ELSE None]
        /\ writes' = [f \in Files |-> IF home'[f] = None THEN 0 ELSE cached[home'[f]][2]]
        /\ namespaceDirty' = (pendingReclaims' # {})
        /\ initializationComplete' = (phase = "ready")
        /\ boundary' = "operation"
        /\ pc' = IF namespaceDirty' THEN "stage" ELSE "spares"
        /\ UNCHANGED <<references, dirty, opening, report, touched>>
  /\ UNCHANGED <<stateFile, published>>

\* maintainSpares creates backing files up to the reserve.
CreateSpare ==
  /\ pc = "spares"
  /\ Cardinality(spares) < Reserve
  /\ \E b \in newBackingNames :
       /\ spares' = spares \cup {b}
       /\ disk' = disk \cup {b}
       /\ cached' = [cached EXCEPT ![b] = Blank]
       /\ kept' = [kept EXCEPT ![b] = Blank]
  /\ UNCHANGED <<stateFile, pc, boundary, entries, home, writes, references,
                 dirty, pendingReclaims, initializationComplete,
                 namespaceDirty, opening, report, promise>>

\* After a sync a failure to create spares is swallowed; on open it is not
\* (see OpenFails).
SparesDone ==
  /\ pc = "spares"
  /\ opening => Cardinality(spares) >= Reserve
  /\ pc' = "run" /\ opening' = FALSE /\ boundary' = "operation"
  /\ UNCHANGED <<stateFile, bytes, pool, report, promise>>

-----------------------------------------------------------------------------
(* Requests of the guest: each is one synchronous call *)

\* open with FLAG_CREATE: takeSpare gives a backing file when there is a spare
\* and stages the file in memory when there is none.
CreateFile(p, f) ==
  /\ pc = "run" /\ entries[p] = None /\ FreshFile(f)
  /\ entries' = [entries EXCEPT ![p] = f]
  /\ references' = [references EXCEPT ![f] = 1]
  /\ writes' = [writes EXCEPT ![f] = 0]
  /\ namespaceDirty' = TRUE
  /\ touched' = touched \cup {f}
  /\ \/ \E b \in spares :
          /\ spares' = spares \ {b}
          /\ home' = [home EXCEPT ![f] = b]
          /\ cached' = [cached EXCEPT ![b] = <<f, 0>>]
          /\ dirty' = dirty \cup {f}
     \/ /\ spares = {}
        /\ home' = [home EXCEPT ![f] = None]
        /\ dirty' = dirty \ {f}
        /\ UNCHANGED <<spares, cached>>
  /\ UNCHANGED <<stateFile, disk, kept, pc, boundary, pendingReclaims,
                 initializationComplete, opening, report, published>>

OpenFile(p) ==
  /\ pc = "run" /\ entries[p] # None /\ references[entries[p]] < MaxRefs
  /\ references' = [references EXCEPT ![entries[p]] = @ + 1]
  /\ UNCHANGED <<stateFile, bytes, pc, boundary, entries, home, writes, dirty,
                 spares, pendingReclaims, initializationComplete,
                 namespaceDirty, opening, report, promise>>

\* write and truncate
Write(f) ==
  /\ pc = "run" /\ references[f] > 0 /\ writes[f] < MaxWrites
  /\ writes' = [writes EXCEPT ![f] = @ + 1]
  /\ cached' = IF home[f] = None THEN cached
               ELSE [cached EXCEPT ![home[f]] = <<f, writes[f] + 1>>]
  /\ dirty' = dirty \cup {f}
  /\ touched' = touched \cup {f}
  /\ UNCHANGED <<stateFile, disk, kept, pc, boundary, entries, home,
                 references, spares, pendingReclaims, initializationComplete,
                 namespaceDirty, opening, report, published>>

\* flush
Flush(f) ==
  /\ pc = "run" /\ references[f] > 0
  /\ FlushAll({f})
  /\ UNCHANGED <<stateFile, disk, cached, pc, boundary, entries, home, writes,
                 references, spares, pendingReclaims, initializationComplete,
                 namespaceDirty, opening, report, promise>>

\* queueReclaim of a file that lost its last path and its last descriptor.
queueReclaim(f) ==
  IF home[f] = None
  THEN /\ dirty' = dirty \ {f} /\ writes' = [writes EXCEPT ![f] = 0]
       /\ touched' = touched \ {f}
       /\ UNCHANGED pendingReclaims
  ELSE /\ pendingReclaims' = pendingReclaims \cup {f}
       /\ UNCHANGED <<dirty, writes, touched>>

\* detach
detach(f) ==
  IF references[f] = 0 THEN queueReclaim(f)
  ELSE UNCHANGED <<dirty, writes, touched, pendingReclaims>>

CloseDescriptor(f) ==
  /\ pc = "run" /\ references[f] > 0
  /\ references' = [references EXCEPT ![f] = @ - 1]
  /\ IF references[f] = 1 /\ f \notin Named
     THEN queueReclaim(f) ELSE UNCHANGED <<dirty, writes, touched, pendingReclaims>>
  /\ UNCHANGED <<stateFile, bytes, pc, boundary, entries, home, spares,
                 initializationComplete, namespaceDirty, opening, report, published>>

\* removeFile and unlinkDescriptor
RemoveFile(p) ==
  /\ pc = "run" /\ entries[p] # None
  /\ entries' = [entries EXCEPT ![p] = None]
  /\ detach(entries[p])
  /\ namespaceDirty' = TRUE
  /\ UNCHANGED <<stateFile, bytes, pc, boundary, home, references, spares,
                 initializationComplete, opening, report, published>>

\* Mutant: the replaced file is not detached.
RenameForgets(from, to) ==
  /\ pc = "run" /\ from # to /\ entries[from] # None
  /\ entries' = [entries EXCEPT ![from] = None, ![to] = entries[from]]
  /\ namespaceDirty' = TRUE
  /\ UNCHANGED <<stateFile, bytes, pc, boundary, home, references, spares,
                 dirty, writes, touched, pendingReclaims,
                 initializationComplete, opening, report, published>>

\* Mutant: a rename does not count as a change of the namespace.
RenameSilent(from, to) ==
  /\ pc = "run" /\ from # to /\ entries[from] # None
  /\ IF entries[to] = None THEN UNCHANGED <<dirty, writes, touched, pendingReclaims>>
     ELSE detach(entries[to])
  /\ entries' = [entries EXCEPT ![from] = None, ![to] = entries[from]]
  /\ UNCHANGED <<stateFile, bytes, pc, boundary, home, references, spares,
                 namespaceDirty, initializationComplete, opening, report, published>>

Rename(from, to) ==
  /\ pc = "run" /\ from # to /\ entries[from] # None
  /\ IF entries[to] = None THEN UNCHANGED <<dirty, writes, touched, pendingReclaims>>
     ELSE detach(entries[to])
  /\ entries' = [entries EXCEPT ![from] = None, ![to] = entries[from]]
  /\ namespaceDirty' = TRUE
  /\ UNCHANGED <<stateFile, bytes, pc, boundary, home, references, spares,
                 initializationComplete, opening, report, published>>

-----------------------------------------------------------------------------
(* sync, and the end of the pool *)

\* flushAll or flushWal.  The session publishes a new database with one full
\* boundary before anything else; afterwards it syncs at every operation and at
\* a clean close.
Sync ==
  /\ pc = "run"
  /\ boundary' \in IF initializationComplete THEN {"operation", "close"} ELSE {"full"}
  /\ FlushAll(IF boundary' \in {"full", "close"} THEN Files
              ELSE {f \in Files : isWalRecord(f)})
  /\ pc' = "stage"
  /\ UNCHANGED <<stateFile, disk, cached, entries, home, writes, references,
                 spares, pendingReclaims, initializationComplete,
                 namespaceDirty, opening, report, promise>>

completesInitialization == ~initializationComplete /\ boundary = "full"

\* materializeStagedFiles: a staged file gets a backing file, written and flushed.
Materialize ==
  /\ pc = "stage"
  /\ \E f \in Staged, b \in newBackingNames :
       /\ home' = [home EXCEPT ![f] = b]
       /\ disk' = disk \cup {b}
       /\ cached' = [cached EXCEPT ![b] = <<f, writes[f]>>]
       /\ kept' = [kept EXCEPT ![b] = <<f, writes[f]>>]
       /\ dirty' = dirty \ {f}
  /\ UNCHANGED <<stateFile, pc, boundary, entries, writes, references, spares,
                 pendingReclaims, initializationComplete, namespaceDirty,
                 opening, report, promise>>

\* Mutant: the namespace is published before the files it maps are flushed.
StageDoneUnflushed ==
  /\ pc = "stage" /\ Staged = {}
  /\ pc' = IF namespaceDirty \/ completesInitialization THEN "commit" ELSE "reclaim"
  /\ UNCHANGED <<stateFile, bytes, boundary, pool, opening, report, promise>>

\* A changed namespace is published after every dirty file was flushed.
StageDone ==
  /\ pc = "stage" /\ Staged = {}
  /\ IF namespaceDirty \/ completesInitialization
     THEN pc' = "commit" /\ FlushAll(Files)
     ELSE pc' = "reclaim" /\ UNCHANGED <<kept, dirty>>
  /\ UNCHANGED <<stateFile, disk, cached, boundary, entries, home, writes,
                 references, spares, pendingReclaims, initializationComplete,
                 namespaceDirty, opening, report, promise>>

\* writePoolState first gets the handle of the state file, which creates it
\* empty when it is missing: in the first open.
CreateState ==
  /\ pc = "seed" /\ \A p \in Seed : entries[p] # None
  /\ phase' = IF phase = "absent" THEN "empty" ELSE phase
  /\ pc' = "commit"
  /\ UNCHANGED <<backingAt, fileAt, bytes, boundary, pool, opening, report, promise>>

\* Closing the writable replaces the state file by serializePoolState.
WriteState ==
  /\ phase' = IF initializationComplete \/ completesInitialization
              THEN "ready" ELSE "initializing"
  /\ fileAt' = entries
  /\ backingAt' = [p \in Paths |-> IF entries[p] = None THEN None ELSE home[entries[p]]]
  /\ published' = (published \/ phase' = "ready")

CommitState ==
  /\ pc = "commit"
  /\ WriteState
  /\ IF boundary = "seed" THEN pc' = "hydrate" /\ PoolGone
     ELSE /\ pc' = "reclaim"
          /\ namespaceDirty' = FALSE
          /\ initializationComplete' = (initializationComplete \/ completesInitialization)
          /\ UNCHANGED <<entries, home, writes, references, dirty, spares,
                         pendingReclaims, touched>>
  /\ UNCHANGED <<bytes, boundary, opening, report>>

\* Mutant: reclaimed backing files are spares before the state file is written.
ReclaimEarly ==
  LET free == {home[f] : f \in pendingReclaims}
  IN
  /\ pc \in {"commit", "reclaim"}
  /\ spares' = spares \cup free
  /\ cached' = [b \in Backings |-> IF b \in free THEN Blank ELSE cached[b]]
  /\ kept' = [b \in Backings |-> IF b \in free THEN Blank ELSE kept[b]]
  /\ home' = [f \in Files |-> IF f \in pendingReclaims THEN None ELSE home[f]]
  /\ writes' = [f \in Files |-> IF f \in pendingReclaims THEN 0 ELSE writes[f]]
  /\ dirty' = dirty \ pendingReclaims /\ touched' = touched \ pendingReclaims
  /\ pendingReclaims' = {}
  /\ pc' = IF pc = "commit" THEN pc ELSE IF boundary = "close" THEN "close" ELSE "spares"
  /\ UNCHANGED <<stateFile, disk, boundary, entries, references,
                 initializationComplete, namespaceDirty, opening, report, published>>

\* publishReclaims: the sync has succeeded.  The bytes of a spare are no file's.
Reclaim ==
  LET free == {home[f] : f \in pendingReclaims}
  IN
  /\ pc = "reclaim"
  /\ spares' = spares \cup free
  /\ cached' = [b \in Backings |-> IF b \in free THEN Blank ELSE cached[b]]
  /\ kept' = [b \in Backings |-> IF b \in free THEN Blank ELSE kept[b]]
  /\ home' = [f \in Files |-> IF f \in pendingReclaims THEN None ELSE home[f]]
  /\ writes' = [f \in Files |-> IF f \in pendingReclaims THEN 0 ELSE writes[f]]
  /\ dirty' = dirty \ pendingReclaims /\ touched' = touched \ pendingReclaims
  /\ pendingReclaims' = {}
  /\ pc' = IF boundary = "close" THEN "close" ELSE "spares"
  /\ UNCHANGED <<stateFile, disk, boundary, entries, references,
                 initializationComplete, namespaceDirty, opening, report, published>>

\* What an interrupted creation leaves: perhaps an empty backing file.
Interrupted ==
  {disk} \cup {disk \cup {b} : b \in IF pc \in {"seed", "stage", "spares"}
                                      THEN newBackingNames ELSE {}}

\* A step of open fails: the handles are closed and the error is reported.
OpenFails ==
  /\ pc \notin {"down", "run"} /\ opening
  /\ \/ WriteState /\ pc = "commit"   \* the commit happened, its answer did not
     \/ UNCHANGED <<stateFile, published>>
  /\ disk' \in IF pc = "seed" THEN Interrupted ELSE {disk}
  /\ pc' = "down" /\ opening' = FALSE /\ report' = "none"
  /\ PoolGone /\ boundary' = "operation"
  /\ UNCHANGED <<cached, kept>>

\* A step of sync fails: a close drops the pool all the same, otherwise the
\* session is poisoned and closed (Drop) or, when serving, syncs once more.
SyncFails ==
  /\ pc \in {"stage", "commit"} /\ ~opening
  /\ \/ WriteState /\ pc = "commit"
     \/ UNCHANGED <<stateFile, published>>
  /\ IF boundary = "close" THEN pc' = "down" /\ PoolGone
     ELSE pc' = "run" /\ UNCHANGED <<pool, touched>>
  /\ boundary' = "operation"
  /\ UNCHANGED <<bytes, opening, report>>

\* closeHandles, after the sync of a clean close or for close('failed'): nothing
\* is flushed.
Drop ==
  /\ pc \in {"run", "close"}
  /\ pc' = "down" /\ PoolGone /\ boundary' = "operation"
  /\ UNCHANGED <<stateFile, bytes, opening, report, published>>

\* The machine stops: of each backing file either the flushed bytes or the
\* written ones survive.
Crash ==
  /\ \E lost \in SUBSET {b \in disk : cached[b] # kept[b]} :
       LET survives(b) == IF b \in lost THEN kept[b] ELSE cached[b]
       IN  /\ cached' = [b \in Backings |-> survives(b)]
           /\ kept' = [b \in Backings |-> survives(b)]
  /\ disk' \in Interrupted
  /\ pc' = "down" /\ opening' = FALSE /\ report' = "none"
  /\ PoolGone /\ boundary' = "operation"
  /\ UNCHANGED <<stateFile, published>>

Next ==
  \/ Open \/ SeedFile \/ Hydrate \/ CreateSpare \/ SparesDone
  \/ \E p \in Paths : OpenFile(p) \/ \E f \in Files : CreateFile(p, f)
  \/ \E f \in Files : Write(f) \/ Flush(f) \/ CloseDescriptor(f)
  \/ \E p \in Paths \ Essential : RemoveFile(p)
  \/ \E from, to \in Paths \ Essential : Rename(from, to)
  \/ Sync \/ Materialize \/ StageDone \/ CreateState \/ CommitState
  \/ Reclaim \/ OpenFails \/ SyncFails \/ Drop \/ Crash

Spec == Init /\ [][Next]_vars

-----------------------------------------------------------------------------
(* Properties *)

\* The bytes of a backing file: whose they are and how often it was written.
Content == (Files \cup {None}) \X (0..MaxWrites)

\* Every variable holds a value of its type.
TypeOK ==
  /\ phase \in {"absent", "empty", "initializing", "ready"}
  /\ backingAt \in [Paths -> Backings \cup {None}]
  /\ fileAt \in [Paths -> Files \cup {None}]
  /\ disk \subseteq Backings
  /\ cached \in [Backings -> Content]
  /\ kept \in [Backings -> Content]
  /\ pc \in {"down", "seed", "commit", "hydrate", "spares", "run",
             "stage", "reclaim", "close"}
  /\ boundary \in {"seed", "operation", "full", "close"}
  /\ entries \in [Paths -> Files \cup {None}]
  /\ home \in [Files -> Backings \cup {None}]
  /\ writes \in [Files -> 0..MaxWrites]
  /\ references \in [Files -> 0..MaxRefs]
  /\ dirty \subseteq Files /\ spares \subseteq Backings /\ pendingReclaims \subseteq Files
  /\ initializationComplete \in BOOLEAN /\ namespaceDirty \in BOOLEAN
  /\ opening \in BOOLEAN /\ report \in {"none", "corrupt"}
  /\ touched \subseteq Files /\ published \in BOOLEAN

\* A published entry always has its own file behind it: the backing file
\* exists, no other entry shares it, and neither its written nor its flushed
\* bytes are another file's or a spare's, whatever was recycled, renamed or
\* rewritten since (takeSpare, publishReclaims, flushAll before writePoolState).
\* And once published the database is never reinitialised, lost or reported as
\* corrupt, whichever step fails or crashes ("A published non-empty persistent
\* cluster is never silently reinitialized").
PublishedFilesIntact ==
  /\ phase = "ready" =>
       \A p \in Paths : backingAt[p] # None =>
         /\ backingAt[p] \in disk
         /\ cached[backingAt[p]][1] = fileAt[p]
         /\ kept[backingAt[p]][1] = fileAt[p]
         /\ \A q \in Paths \ {p} : backingAt[q] # backingAt[p]
  /\ published => phase = "ready" /\ report # "corrupt"

\* While the pool is live no backing file has two uses (a file, a spare) and
\* none is lost: each one on disk is a live file's or a spare.
BackingsAccounted ==
  LET used == {home[f] : f \in Live} \ {None}
  IN  pc \in {"run", "stage", "reclaim", "spares", "close"} =>
        /\ used \cap spares = {}
        /\ disk = used \cup spares
        /\ \A f, g \in Live : home[f] = home[g] /\ home[f] # None => f = g

\* When a sync has succeeded, the state file on disk names exactly the files of
\* the live namespace, and the bytes written through this pool to each WAL file
\* (at a close: to each file) are flushed.
SyncedIsDurable ==
  pc \in {"spares", "close"} =>
    /\ fileAt = entries
    /\ \A f \in Named \cap touched :
         isWalRecord(f) \/ boundary \in {"full", "close"} =>
           kept[home[f]] = <<f, writes[f]>>

\* No step, and no crash, takes back flushed bytes of a file that a published
\* state file names, unless it unpublishes that file.
FlushedIsKept ==
  [][\A p, q \in Paths :
       phase = "ready" /\ fileAt[p] # None /\ fileAt'[q] = fileAt[p] =>
         kept'[backingAt'[q]][2] >= kept[backingAt[p]][2]]_vars
=============================================================================
