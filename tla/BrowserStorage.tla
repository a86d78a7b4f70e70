--------------------------- MODULE BrowserStorage ---------------------------
(***************************************************************************)
(* Portable browser storage: PGDATA lives in the memory of a page, and the *)
(* session publishes what changed since the last boundary                  *)
(* (storage/incremental-storage.ts) either as one IndexedDB transaction    *)
(* (indexed-db-provider.ts) or, in the OPFS format that the direct pool    *)
(* also uses, as new backing files followed by the state file              *)
(* (opfs-provider.ts, opfs-pool.ts).  Several tabs compete for the         *)
(* database through a web lock (web-lock.ts); each may open it, restore a  *)
(* backup into it, fail at any step, or die.                               *)
(*                                                                         *)
(* A file's bytes are the number of the guest operation that wrote it.     *)
(***************************************************************************)
EXTENDS Integers

CONSTANTS Tabs,        \* pages and workers of one origin
          Kinds,       \* the providers considered: "opfs", "indexedDb"
          Paths,       \* the paths of PGDATA
          Ancestors,   \* path -> the paths above it
          Essential,   \* the files a valid snapshot must have; the cluster seed
          Volatile,    \* VOLATILE_DATABASE_FILES
          MaxOps,      \* bound: operations of guests, and restores
          MaxBackings  \* bound: backing files that exist at one time (quota)

ASSUME StorageAssumption ==
  /\ Kinds \subseteq {"opfs", "indexedDb"}
  /\ Ancestors \in [Paths -> SUBSET Paths]
  /\ Essential \subseteq Paths /\ Volatile \subseteq Paths \ Essential
  /\ \A p \in Paths : /\ p \notin Ancestors[p]
                       /\ Ancestors[p] \cap (Essential \cup Volatile) = {}
                       /\ \A q \in Ancestors[p] : Ancestors[q] \subseteq Ancestors[p]
  /\ \A p \in Essential \cup Volatile : Ancestors[p] = {}
  /\ MaxOps \in Nat /\ MaxBackings \in Nat
  /\ "none" \notin Tabs

Backings == 1..MaxBackings
Kept == Paths \ Volatile
None == "none"

VARIABLES
  kind,      \* the provider of this database
  lock,      \* the tab that holds the web lock
  phase,     \* the state file (OPFS) or the metadata row (IndexedDB)
  stored,    \* its entries
  data,      \* the backing files
  tab,       \* what each tab knows and does
  ops,       \* the operations of guests so far
  report,    \* what the step told the caller of a tab: a commit state or an error
  promised   \* what the database may hold, from what its users were told

disk == <<phase, stored, data>>
vars == <<kind, lock, disk, tab, ops, report, promised>>

-----------------------------------------------------------------------------
(* Entries and snapshots *)

Absent == <<"absent", 0>>
Dir == <<"dir", 0>>
File(v) == <<"file", v>>
Empty == <<"empty", 0>>   \* a backing file that was created and not written
At(b) == <<"at", b>>      \* an entry of the state file

Files == {File(v) : v \in 0..MaxOps}
Contents == {Absent, Dir} \cup Files
Entries == {Absent, Dir} \cup Files \cup {At(b) : b \in Backings}

Nothing == [p \in Paths |-> Absent]
Seed == [p \in Paths |-> IF p \in Essential THEN File(0) ELSE Absent]

type(e) == IF e[1] \in {"absent", "dir"} THEN e[1] ELSE "file"
Folders == UNION {Ancestors[p] : p \in Paths}
Within(p, root) == p = root \/ root \in Ancestors[p]

\* What reading the stored entries gives, and the published database.
Read(entries) == [p \in Paths |->
  IF entries[p][1] = "at" THEN data[entries[p][2]] ELSE entries[p]]
Persistent(names) == [p \in Paths |-> IF p \in Volatile THEN Absent ELSE names[p]]
Durable == IF phase = "ready" THEN Persistent(Read(stored)) ELSE Nothing

\* validateEntryRelationships, and with the essential files
\* validateSnapshotSemantics.
Related(entries) ==
  \A p \in Paths : entries[p] # Absent =>
    \A q \in Ancestors[p] : entries[q] = Dir
Valid(names) == Related(names) /\ \A p \in Essential : names[p] \in Files

referenced(entries) == {b \in Backings : \E p \in Paths : entries[p] = At(b)}
Missing(entries) == \E b \in referenced(entries) : data[b] = Absent
unused == {b \in Backings : data[b] = Absent}
newBackingName == CHOOSE b \in unused : TRUE

\* pruneUnreferencedData: removals that fail are ignored.  All fail or none: what
\* an outcome in between leaves is as inert as what is left when all fail.
Pruned(entries) ==
  LET garbage == {b \in Backings : data[b] # Absent} \ referenced(entries)
  IN  {[b \in Backings |-> IF b \in gone THEN Absent ELSE data[b]] :
         gone \in {{}, garbage}}

-----------------------------------------------------------------------------
(* The tabs *)

\* A tab without a lease.
Idle ==
  [pc |-> "idle", at |-> None, direct |-> FALSE,
   guest |-> Nothing, journal |-> {},                       \* the mounted PGDATA
   persistedEntries |-> [p \in Paths |-> "absent"],         \* the lease
   hasStoredGeneration |-> FALSE, initializationPending |-> FALSE,
   failed |-> FALSE,                                        \* the session
   entries |-> Nothing, files |-> {},                       \* the apply under way
   base |-> Nothing, unsure |-> FALSE]                      \* for the properties

\* Before a page opens it, the database is new, or one that was used before; the
\* direct pool can leave a volatile file and a spare backing file.
Used == [p \in Paths |-> IF p \in Folders THEN Dir ELSE File(0)]
Leaves == Paths \ Folders
Numberings == {f \in [Leaves -> Backings] : \A p, q \in Leaves : f[p] = f[q] => p = q}

Init ==
  /\ kind \in Kinds /\ lock = None /\ ops = 0 /\ report = None
  /\ \/ phase = "absent" /\ stored = Nothing /\ data = [b \in Backings |-> Absent]
     \/ /\ kind = "indexedDb" /\ phase = "ready" /\ stored = Persistent(Used)
        /\ data = [b \in Backings |-> Absent]
     \/ /\ kind = "opfs" /\ phase = "ready" /\ Numberings # {}
        /\ LET number == CHOOSE f \in Numberings : TRUE
               spare == CHOOSE b \in Backings : \A p \in Leaves : number[p] # b
           IN  /\ stored = [p \in Paths |-> IF p \in Folders THEN Dir ELSE At(number[p])]
               /\ data = [b \in Backings |->
                    IF \E p \in Leaves : number[p] = b THEN File(0)
                    ELSE IF b = spare THEN Empty ELSE Absent]
  /\ tab = [t \in Tabs |-> Idle]
  /\ promised = {[snap |-> Durable, exact |-> TRUE]}

Become(t, x) == tab' = [tab EXCEPT ![t] = x] /\ report' = None
Goto(t, pc) == Become(t, [tab[t] EXCEPT !.pc = pc])
\* The tab releases its web lock, and its memory of the database is gone.
Leave(t, r) == tab' = [tab EXCEPT ![t] = Idle] /\ report' = r /\ lock' = None

\* A backing file that was being created when a step stopped may be left empty.
Interrupted(t) ==
  {data} \cup IF /\ unused # {}
                 /\ \/ tab[t].pc = "seed"
                    \/ tab[t].pc = "write" /\ tab[t].files # {}
              THEN {[data EXCEPT ![newBackingName] = Empty]} ELSE {}

\* acquireExclusiveWebLock with ifAvailable: it never waits.
Acquire(t) ==
  /\ tab[t].pc = "idle"
  /\ IF lock = None THEN lock' = t /\ Goto(t, "locked")
     ELSE report' = "busy" /\ UNCHANGED <<tab, lock>>
  /\ UNCHANGED <<kind, disk, ops, promised>>

-----------------------------------------------------------------------------
(* Opening: acquireOpfsStorage, acquireIndexedDbStorage, acquireIncrementalStorage *)

\* The lease is made and its mount given to the guest.
Lease(t, names, generation, pending) ==
  /\ Become(t, [Idle EXCEPT
       !.pc = "startup", !.guest = names,
       !.hasStoredGeneration = generation, !.initializationPending = pending,
       !.persistedEntries = [p \in Paths |->
         IF generation THEN type(names[p]) ELSE "absent"]])
  /\ promised' = {[snap |-> Durable, exact |-> TRUE]}
  /\ UNCHANGED lock

\* DirectOpfsPool.open (where the realm can try it) and preparePooledOpfsDatabase
\* begin alike: resetPoolClusterSeed discards an unpublished generation.  Only
\* the direct pool seeds a database that has no state file.
OpenPool(t, direct) ==
  /\ tab[t].pc = "locked" /\ kind = "opfs"
  /\ Become(t, [tab[t] EXCEPT !.direct = direct,
       !.pc = IF phase = "initializing" \/ (direct /\ phase = "absent")
              THEN "seed" ELSE "inspect"])
  /\ data' = IF phase = "initializing" THEN [b \in Backings |-> Absent] ELSE data
  /\ UNCHANGED <<kind, lock, phase, stored, ops, promised>>

\* initializePoolState
SeedFile(t) ==
  /\ tab[t].pc = "seed" /\ unused # {}
  /\ \E p \in Essential :
       /\ tab[t].entries[p] = Absent
       /\ Become(t, [tab[t] EXCEPT !.entries[p] = At(newBackingName)])
       /\ data' = [data EXCEPT ![newBackingName] = File(0)]
  /\ UNCHANGED <<kind, lock, phase, stored, ops, promised>>

\* writePoolState gets the handle of the state file, which creates it empty.
SeedState(t) ==
  /\ tab[t].pc = "seed" /\ \A p \in Essential : tab[t].entries[p] # Absent
  /\ phase' = IF phase = "absent" THEN "empty" ELSE phase
  /\ Goto(t, "seedCommit")
  /\ UNCHANGED <<kind, lock, stored, data, ops, promised>>

SeedCommit(t) ==
  /\ tab[t].pc = "seedCommit"
  /\ phase' = "initializing" /\ stored' = tab[t].entries
  /\ Goto(t, "inspect")
  /\ UNCHANGED <<kind, lock, data, ops, promised>>

\* A direct pool that is unavailable, or out of quota, falls back to the
\* portable path, which inspects what the attempt left.
DirectUnavailable(t) ==
  /\ tab[t].pc \in {"seed", "seedCommit"} /\ tab[t].direct
  /\ Goto(t, "inspect")
  /\ data' \in Interrupted(t)
  /\ UNCHANGED <<kind, lock, phase, stored, ops, promised>>

\* inspectPoolState: volatile entries are dropped from the state file, then the
\* snapshot is read and validated.
Inspect(t) ==
  LET entries == Persistent(stored)
      names == Read(entries)
  IN
  /\ tab[t].pc = "inspect"
  /\ \/ /\ phase = "absent" /\ Lease(t, Seed, FALSE, TRUE)
        /\ UNCHANGED disk
     \/ /\ phase = "empty" /\ Leave(t, "corrupt")
        /\ UNCHANGED <<disk, promised>>
     \/ /\ phase \in {"initializing", "ready"}
        /\ stored' = entries
        /\ data' \in IF entries = stored THEN {data} ELSE Pruned(entries)
        /\ IF Missing(entries) \/ ~Valid(names)
           THEN Leave(t, "corrupt") /\ UNCHANGED promised
           ELSE Lease(t, names, TRUE, phase = "initializing")
        /\ UNCHANGED phase
  /\ UNCHANGED <<kind, ops>>

\* readStoredDatabase and validateStoredDatabase: one read transaction.
ReadRows(t) ==
  /\ tab[t].pc = "locked" /\ kind = "indexedDb"
  /\ IF phase = "absent" THEN Lease(t, Seed, FALSE, TRUE)
     ELSE IF Valid(stored) THEN Lease(t, stored, TRUE, FALSE)
     ELSE Leave(t, "corrupt") /\ UNCHANGED promised
  /\ UNCHANGED <<kind, disk, ops>>

\* Mutant: a failed open does not release the lock.
OpenFailsKeepsLock(t) ==
  /\ tab[t].pc \in {"locked", "seed", "seedCommit", "inspect", "startup"}
  /\ Become(t, Idle) /\ UNCHANGED lock
  /\ data' \in Interrupted(t)
  /\ UNCHANGED <<kind, phase, stored, ops, promised>>

\* A step of the open fails, or PostgreSQL does not start: the lease is closed
\* as failed and the lock released.
OpenFails(t) ==
  /\ tab[t].pc \in {"locked", "seed", "seedCommit", "inspect", "startup"}
  /\ Leave(t, "failed")
  /\ data' \in Interrupted(t)
  /\ UNCHANGED <<kind, phase, stored, ops, promised>>

-----------------------------------------------------------------------------
(* The guest: each operation is one synchronous call that journals its path *)

GuestRuns(t) ==
  /\ tab[t].pc \in {"startup", "open", "serving", "cleanup"}
  /\ ~tab[t].failed /\ ops < MaxOps
Mounted(t, p) == \A q \in Ancestors[p] : tab[t].guest[q] = Dir

Touch(t, p, guest) ==
  /\ Become(t, [tab[t] EXCEPT !.guest = guest, !.journal = @ \cup {p}])
  /\ ops' = ops + 1
  /\ UNCHANGED <<kind, lock, disk, promised>>

GuestWrite(t, p) ==
  /\ GuestRuns(t) /\ Mounted(t, p) /\ tab[t].guest[p] # Dir
  /\ Touch(t, p, [tab[t].guest EXCEPT ![p] = File(ops + 1)])

GuestMakeDir(t, p) ==
  /\ GuestRuns(t) /\ Mounted(t, p) /\ tab[t].guest[p] = Absent
  /\ Touch(t, p, [tab[t].guest EXCEPT ![p] = Dir])

GuestRemove(t, p) ==
  /\ GuestRuns(t) /\ tab[t].guest[p] # Absent
  /\ Touch(t, p, [q \in Paths |-> IF Within(q, p) THEN Absent ELSE tab[t].guest[q]])

-----------------------------------------------------------------------------
(* sync: what changed, and how the boundary ends *)

\* snapshotStorageDelta: the journaled subtrees, or everything when no
\* generation is stored; volatile paths never.
scope(x) ==
  IF x.hasStoredGeneration
  THEN {p \in Kept : \E root \in x.journal : Within(p, root)} ELSE Kept
upserts(x) == {p \in scope(x) : x.guest[p] # Absent}
deleted(x) == {p \in scope(x) : /\ x.persistedEntries[p] # "absent"
                               /\ x.persistedEntries[p] # type(x.guest[p])}

\* removeStoredPath takes the descendants too.
without(entries, removed) ==
  [p \in Paths |-> IF \E q \in removed : Within(p, q) THEN Absent ELSE entries[p]]

Target(x) == [snap |-> Persistent(x.guest), exact |-> ~x.unsure]

\* The caller of the sync: the open closes a lease whose first publication
\* fails, a close and a restore leave in any case, a failed operation poisons
\* the session, a failed publishIdle ends the service, whose cleanup syncs again.
Settle(t, x, r) ==
  IF x.at \in {"close", "restore"} \/ (x.at = "full" /\ r # "ok")
  THEN Leave(t, r)
  ELSE /\ tab' = [tab EXCEPT ![t] = [x EXCEPT
            !.at = None, !.entries = Nothing, !.files = {},
            !.base = Nothing,
            !.failed = (r # "ok" /\ x.at # "serve"),
            !.pc = IF x.at # "serve" THEN "open"
                   ELSE IF r = "ok" THEN "serving" ELSE "cleanup"]]
       /\ report' = r
       /\ UNCHANGED lock

\* Mutant: removed paths alone do not make a boundary.
BeginSyncForgetsRemovals(t, boundary) ==
  LET x == [tab[t] EXCEPT !.at = boundary, !.base = Durable]
      idle == /\ x.hasStoredGeneration /\ ~x.initializationPending
              /\ upserts(x) = {}
  IN
  /\ IF idle
     THEN \/ /\ Settle(t, [x EXCEPT !.journal = {}], "ok")
             /\ promised' = {Target(x)}
          \/ Settle(t, x, "unchanged") /\ UNCHANGED promised
     ELSE /\ Become(t, [x EXCEPT !.pc = IF kind = "opfs" THEN "apply" ELSE "transact"])
          /\ promised' = promised \cup {Target(x)}
          /\ UNCHANGED lock
  /\ UNCHANGED <<kind, disk, ops>>

\* Nothing changed: the journal is cleared, which may fail.  Otherwise the store
\* applies the delta.
BeginSync(t, boundary) ==
  LET x == [tab[t] EXCEPT !.at = boundary, !.base = Durable]
      idle == /\ x.hasStoredGeneration /\ ~x.initializationPending
              /\ upserts(x) = {} /\ deleted(x) = {}
  IN
  /\ IF idle
     THEN \/ /\ Settle(t, [x EXCEPT !.journal = {}], "ok")
             /\ promised' = {Target(x)}
          \/ Settle(t, x, "unchanged") /\ UNCHANGED promised
     ELSE /\ Become(t, [x EXCEPT !.pc = IF kind = "opfs" THEN "apply" ELSE "transact"])
          /\ promised' = promised \cup {Target(x)}
          /\ UNCHANGED lock
  /\ UNCHANGED <<kind, disk, ops>>

-----------------------------------------------------------------------------
(* The session: DirectWasixSession *)

\* A new database is published by open, before anyone uses it.
Startup(t) ==
  /\ tab[t].pc = "startup"
  /\ IF tab[t].initializationPending THEN BeginSync(t, "full")
     ELSE Goto(t, "open") /\ UNCHANGED <<kind, lock, disk, ops, promised>>

\* exec, execStream, sync and the end of a tool session
Operation(t) == tab[t].pc = "open" /\ ~tab[t].failed /\ BeginSync(t, "operation")

\* The guest trapped, or an exchange failed: serving ends, anything else poisons.
ExecFails(t) ==
  /\ tab[t].pc \in {"open", "serving", "cleanup"} /\ ~tab[t].failed
  /\ IF tab[t].pc = "serving" THEN Goto(t, "cleanup")
     ELSE Become(t, [tab[t] EXCEPT !.pc = "open", !.failed = TRUE])
  /\ UNCHANGED <<kind, lock, disk, ops, promised>>

\* serve: restartProtocolBackend, publishIdle at every idle point, and at the
\* end resetProtocolSession with one more sync, also after a failure.
Serve(t) ==
  /\ tab[t].pc = "open" /\ ~tab[t].failed
  /\ Goto(t, "serving")
  /\ UNCHANGED <<kind, lock, disk, ops, promised>>
publishIdle(t) == tab[t].pc = "serving" /\ BeginSync(t, "serve")
ServeEnds(t) ==
  \/ /\ tab[t].pc = "serving" /\ Goto(t, "cleanup")
     /\ UNCHANGED <<kind, lock, disk, ops, promised>>
  \/ tab[t].pc = "cleanup" /\ BeginSync(t, "cleanup")

\* close: a healthy session is closed clean unless the guest's close fails.
Close(t) ==
  /\ tab[t].pc = "open"
  /\ \/ ~tab[t].failed /\ BeginSync(t, "close")
     \/ Leave(t, "closed") /\ UNCHANGED <<kind, disk, ops, promised>>

-----------------------------------------------------------------------------
(* restoreOpfsStorage, restoreIndexedDbStorage *)

\* Mutant: a restore does not look whether the database exists.
RestoreOverExisting(t) ==
  LET x == [Idle EXCEPT
             !.at = "restore", !.base = Durable,
             !.guest = [p \in Paths |-> IF p \in Essential THEN File(ops + 1) ELSE Absent],
             !.pc = IF kind = "opfs" THEN "apply" ELSE "transact"]
      refused == \/ phase = "empty"
                 \/ phase = "initializing" /\ (Missing(stored) \/ ~Valid(Read(stored)))
  IN
  /\ tab[t].pc = "locked" /\ ops < MaxOps
  /\ IF refused
     THEN /\ Leave(t, "unchanged")
          /\ IF phase = "ready" /\ kind = "opfs"      \* inspectPoolState
             THEN /\ stored' = Persistent(stored)
                  /\ data' \in IF stored' = stored THEN {data} ELSE Pruned(stored')
             ELSE UNCHANGED <<stored, data>>
          /\ UNCHANGED <<phase, ops, promised>>
     ELSE /\ Become(t, x)
          /\ promised' = promised \cup {Target(x)}
          /\ ops' = ops + 1
          /\ IF phase = "initializing"
             THEN phase' = "absent" /\ stored' = Nothing
                  /\ data' = [b \in Backings |-> Absent]
             ELSE UNCHANGED disk
          /\ UNCHANGED lock
  /\ UNCHANGED kind

\* An existing database is refused; an unpublished generation is removed first.
Restore(t) ==
  LET x == [Idle EXCEPT
             !.at = "restore", !.base = Durable,
             !.guest = [p \in Paths |-> IF p \in Essential THEN File(ops + 1) ELSE Absent],
             !.pc = IF kind = "opfs" THEN "apply" ELSE "transact"]
      refused == \/ phase \in {"ready", "empty"}
                 \/ phase = "initializing" /\ (Missing(stored) \/ ~Valid(Read(stored)))
  IN
  /\ tab[t].pc = "locked" /\ ops < MaxOps
  /\ IF refused
     THEN /\ Leave(t, "unchanged")
          /\ IF phase = "ready" /\ kind = "opfs"      \* inspectPoolState
             THEN /\ stored' = Persistent(stored)
                  /\ data' \in IF stored' = stored THEN {data} ELSE Pruned(stored')
             ELSE UNCHANGED <<stored, data>>
          /\ UNCHANGED <<phase, ops, promised>>
     ELSE /\ Become(t, x)
          /\ promised' = promised \cup {Target(x)}
          /\ ops' = ops + 1
          /\ IF phase = "initializing"
             THEN phase' = "absent" /\ stored' = Nothing
                  /\ data' = [b \in Backings |-> Absent]
             ELSE UNCHANGED disk
          /\ UNCHANGED lock
  /\ UNCHANGED kind

-----------------------------------------------------------------------------
(* The store applies the delta *)

\* The boundary is committed; then the journal is cleared, which may fail.
Published(t) ==
  LET x == [tab[t] EXCEPT
             !.hasStoredGeneration = TRUE, !.initializationPending = FALSE,
             !.persistedEntries = [p \in Paths |->
               IF p \in upserts(tab[t]) THEN type(tab[t].guest[p])
               ELSE IF p \in deleted(tab[t]) THEN "absent"
               ELSE tab[t].persistedEntries[p]]]
  IN
  /\ \/ Settle(t, [x EXCEPT !.journal = {}], "ok")
     \/ x.at # "restore" /\ Settle(t, x, "persisted")
  /\ promised' = {Target(x)}

\* applyStoredDatabaseDelta: one transaction, which commits or aborts.
Transact(t) ==
  /\ tab[t].pc = "transact"
  /\ phase' = "ready"
  /\ stored' = [p \in Paths |->
       IF p \in upserts(tab[t]) THEN tab[t].guest[p]
       ELSE IF p \in deleted(tab[t]) THEN Absent ELSE stored[p]]
  /\ Published(t)
  /\ UNCHANGED <<kind, data, ops>>

Abort(t) ==
  /\ tab[t].pc = "transact"
  /\ Settle(t, tab[t], IF tab[t].at = "restore" THEN "unchanged" ELSE "not-persisted")
  /\ promised' = {[snap |-> Durable, exact |-> TRUE]}
  /\ UNCHANGED <<kind, disk, ops>>

\* Mutant: pruning spares only what the new state file will name.
ApplyPrunesEarly(t) ==
  LET x == tab[t]
      existing == IF phase = "absent" THEN Nothing ELSE stored
      replaced == without(existing, deleted(x) \cap upserts(x))
  IN
  /\ x.pc = "apply" /\ phase # "empty"
  /\ data' \in Pruned(replaced)
  /\ Become(t, [x EXCEPT !.pc = "write",
       !.entries = [p \in Paths |->
         IF p \in upserts(x) /\ x.guest[p] = Dir THEN Dir ELSE replaced[p]],
       !.files = {p \in upserts(x) : x.guest[p] # Dir}])
  /\ UNCHANGED <<kind, lock, phase, stored, ops, promised>>

\* applyPooledOpfsDelta.  It reads the state file, prunes, replaces entries that
\* changed their type and adds the directories;
Apply(t) ==
  LET x == tab[t]
      existing == IF phase = "absent" THEN Nothing ELSE stored
      replaced == without(existing, deleted(x) \cap upserts(x))
  IN
  /\ x.pc = "apply" /\ phase # "empty"
  /\ data' \in Pruned(existing)
  /\ Become(t, [x EXCEPT !.pc = "write",
       !.entries = [p \in Paths |->
         IF p \in upserts(x) /\ x.guest[p] = Dir THEN Dir ELSE replaced[p]],
       !.files = {p \in upserts(x) : x.guest[p] # Dir}])
  /\ UNCHANGED <<kind, lock, phase, stored, ops, promised>>

\* each file goes, complete, to a backing file of its own;
WriteFile(t) ==
  /\ tab[t].pc = "write" /\ unused # {}
  /\ tab[t].files # {}
  /\ LET p == CHOOSE q \in tab[t].files : TRUE
     IN  /\ Become(t, [tab[t] EXCEPT !.files = @ \ {p},
                                     !.entries[p] = At(newBackingName)])
         /\ data' = [data EXCEPT ![newBackingName] = tab[t].guest[p]]
  /\ UNCHANGED <<kind, lock, phase, stored, ops, promised>>

\* the removed paths go, the entries are validated, and writePoolState gets the
\* handle of the state file;
CreateState(t) ==
  LET entries == without(tab[t].entries, deleted(tab[t]) \ upserts(tab[t]))
  IN
  /\ tab[t].pc = "write" /\ tab[t].files = {} /\ Related(entries)
  /\ phase' = IF phase = "absent" THEN "empty" ELSE phase
  /\ Become(t, [tab[t] EXCEPT !.entries = entries, !.pc = "commit"])
  /\ UNCHANGED <<kind, lock, stored, data, ops, promised>>

\* closing the writable replaces the state file;
WriteState(t) == phase' = "ready" /\ stored' = tab[t].entries
Commit(t) ==
  /\ tab[t].pc = "commit"
  /\ WriteState(t)
  /\ Goto(t, "prune")
  /\ UNCHANGED <<kind, lock, data, ops, promised>>

\* and what it no longer names is pruned.
Prune(t) ==
  /\ tab[t].pc = "prune"
  /\ data' \in Pruned(stored)
  /\ Published(t)
  /\ UNCHANGED <<kind, phase, stored, ops>>

\* Mutant: a failure is reported as for an atomic store.
ApplyFailsAtomic(t) ==
  /\ tab[t].pc \in {"apply", "write", "commit"} /\ tab[t].at # "restore"
  /\ \/ /\ UNCHANGED <<phase, stored>> /\ data' \in Interrupted(t)
        /\ Settle(t, tab[t], "not-persisted")
     \/ /\ tab[t].pc = "commit" /\ WriteState(t) /\ UNCHANGED data
        /\ Settle(t, [tab[t] EXCEPT !.unsure = TRUE], "not-persisted")
  /\ UNCHANGED <<kind, ops, promised>>

\* A step of a sync fails; the state file may have been replaced all the same.
ApplyFails(t) ==
  /\ tab[t].pc \in {"apply", "write", "commit"} /\ tab[t].at # "restore"
  /\ \/ /\ UNCHANGED <<phase, stored>> /\ data' \in Interrupted(t)
        /\ Settle(t, tab[t], "unknown")
     \/ /\ tab[t].pc = "commit" /\ WriteState(t) /\ UNCHANGED data
        /\ Settle(t, [tab[t] EXCEPT !.unsure = TRUE], "unknown")
  /\ UNCHANGED <<kind, ops, promised>>

\* A failed restore removes what it made, or cannot say what it left.
RestoreFails(t) ==
  /\ tab[t].pc \in {"apply", "write", "commit"} /\ tab[t].at = "restore"
  /\ \/ /\ phase' = "absent" /\ stored' = Nothing
        /\ data' = [b \in Backings |-> Absent]
        /\ promised' = {[snap |-> Nothing, exact |-> TRUE]}
        /\ Leave(t, "unchanged")
     \/ /\ UNCHANGED <<phase, stored, promised>> /\ data' \in Interrupted(t)
        /\ Leave(t, "unknown")
     \/ /\ tab[t].pc = "commit" /\ WriteState(t) /\ UNCHANGED <<data, promised>>
        /\ Leave(t, "unknown")
  /\ UNCHANGED <<kind, ops>>

\* The page goes away: its lock is released, its memory is lost.
TabDies(t) ==
  /\ tab[t].pc # "idle"
  /\ Leave(t, "died")
  /\ data' \in Interrupted(t)
  /\ UNCHANGED <<kind, phase, stored, ops, promised>>

Next ==
  \E t \in Tabs :
    \/ Acquire(t) \/ OpenPool(t, TRUE) \/ OpenPool(t, FALSE) \/ SeedFile(t)
    \/ SeedState(t) \/ SeedCommit(t) \/ DirectUnavailable(t) \/ Inspect(t)
    \/ ReadRows(t) \/ OpenFails(t) \/ Startup(t)
    \/ \E p \in Paths : GuestWrite(t, p)
    \/ \E p \in Folders : GuestMakeDir(t, p)
    \/ \E p \in Paths \ Essential : GuestRemove(t, p)
    \/ Operation(t) \/ ExecFails(t) \/ Serve(t) \/ publishIdle(t) \/ ServeEnds(t)
    \/ Close(t) \/ Restore(t) \/ Transact(t) \/ Abort(t) \/ Apply(t)
    \/ WriteFile(t) \/ CreateState(t) \/ Commit(t) \/ Prune(t)
    \/ ApplyFails(t) \/ RestoreFails(t) \/ TabDies(t)

Spec == Init /\ [][Next]_vars

-----------------------------------------------------------------------------
(* Properties *)

Steps == {"idle", "locked", "seed", "seedCommit", "inspect", "startup", "open",
          "serving", "cleanup", "apply", "write", "commit", "prune", "transact"}
Applying == {"apply", "write", "commit", "prune", "transact"}

Boundaries == {"full", "operation", "serve", "cleanup", "close", "restore"}
TabSet ==
  [pc : Steps, at : Boundaries \cup {None}, direct : BOOLEAN,
   guest : [Paths -> Contents], journal : SUBSET Paths,
   persistedEntries : [Paths -> {"absent", "dir", "file"}],
   hasStoredGeneration : BOOLEAN, initializationPending : BOOLEAN, failed : BOOLEAN,
   entries : [Paths -> Entries], files : SUBSET Paths,
   base : [Paths -> Contents \cup {Empty}], unsure : BOOLEAN]

\* Every variable holds a value of its type.
TypeOK ==
  /\ kind \in Kinds /\ lock \in Tabs \cup {None} /\ ops \in 0..MaxOps
  /\ phase \in {"absent", "empty", "initializing", "ready"}
  /\ stored \in [Paths -> Entries]
  /\ data \in [Backings -> Files \cup {Absent, Empty}]
  /\ report \in {None, "busy", "corrupt", "failed", "closed", "died", "ok",
                 "unchanged", "not-persisted", "persisted", "unknown"}
  /\ tab \in [Tabs -> TabSet]

\* A tab works on the database exactly while it holds the web lock: no step of
\* an open, a session, a restore or a failure path acts without it, and none
\* leaves it behind (lockHandedToFallback, the finally of close).
LockCoversUse == \A t \in Tabs : tab[t].pc # "idle" <=> lock = t

\* A published database can be opened whatever failed or died: each file it
\* names has a complete backing file of its own, directories come before what
\* is in them, and the essential files are there.
PublishedReadable ==
  phase = "ready" =>
    /\ ~Missing(stored) /\ Valid(Read(stored))
    /\ \A p, q \in Paths : stored[p][1] = "at" =>
         /\ data[stored[p][2]] # Empty
         /\ stored[q] = stored[p] => q = p

\* What is stored is always something its users were told to expect: the
\* PGDATA of the last publication that succeeded, or of a later one whose
\* outcome they do not know.  After an unknown outcome turned out committed, a
\* later success may leave files the guest has removed since; nothing else.
StoredIsPromised ==
  \E s \in promised :
    /\ \A p \in Kept : s.snap[p] # Absent => Durable[p] = s.snap[p]
    /\ s.exact => Durable = s.snap

\* The commit state that a boundary reports is true: after success and after
\* "persisted" the guest's PGDATA is stored; after "not-persisted" and
\* "unchanged" the generation before the boundary still is.
ReportIsHonest ==
  [][\A t \in Tabs :
       tab[t].pc \in Applying /\ tab'[t].pc \notin Applying =>
         /\ report' \in {"ok", "persisted"} =>
              \A p \in Kept : tab[t].guest[p] # Absent => Durable'[p] = tab[t].guest[p]
         /\ report' \in {"not-persisted", "unchanged"} => Durable' = tab[t].base]_vars

\* A published database is never unpublished: no open resets it, no restore
\* replaces or removes it.
PublishedStays == [][phase = "ready" => phase' = "ready"]_vars
=============================================================================
