--------------------------- MODULE OpfsPoolProofs ---------------------------
(***************************************************************************)
(* Theorems about the synchronous OPFS pool, for any paths, number of      *)
(* files and backing files, writes, descriptors and reserve: a published   *)
(* database survives every failure and crash, no backing file has two      *)
(* uses, a successful sync is durable, and flushed bytes are kept.         *)
(*                                                                         *)
(* PoolInv relates three things. The state file names, for each file, a    *)
(* backing file of its own that holds bytes of that file and no other, as  *)
(* written and as flushed (StateFileOK); this part holds without the pool  *)
(* object, so it is what a crash leaves. A pool that serves knows the file *)
(* behind every name and keeps each backing file for one use, as a spare   *)
(* or for a live file, a removed one included until it is reclaimed        *)
(* (NamesOK, HomesOK): that is why a name on disk never comes to mean      *)
(* other bytes. And a file that is not dirty is flushed (BytesOK), which   *)
(* SyncOK turns into what a sync has already covered at each of its steps. *)
(***************************************************************************)
EXTENDS OpfsPool, TLAPS

\* The pool serves: it is hydrated.  While a new database is seeded the state
\* file says nothing about the backing files.
Running == pc \in {"spares", "run", "stage", "reclaim", "close"} \/
           (pc = "commit" /\ boundary # "seed")
Seeding == pc = "seed" \/ (pc = "commit" /\ boundary = "seed")
Mapped  == phase = "ready" \/ Running \/ pc = "hydrate"

\* The state file and the files behind it.
StateFileOK ==
  /\ \A p \in Paths : (backingAt[p] = None) <=> (fileAt[p] = None)
  /\ \A p \in Essential : backingAt[p] # None
  /\ \A p, q \in Paths : fileAt[p] # None /\ p # q =>
       fileAt[p] # fileAt[q] /\ backingAt[p] # backingAt[q]
  /\ \A p \in Paths : backingAt[p] # None =>
       /\ backingAt[p] \in disk
       /\ cached[backingAt[p]][1] = fileAt[p]
       /\ kept[backingAt[p]][1] = fileAt[p]
       /\ kept[backingAt[p]][2] <= cached[backingAt[p]][2]

\* The pool holds nothing: it was not opened, or it was closed.
Gone ==
  /\ entries = NoNames /\ references = [f \in Files |-> 0]
  /\ dirty = {} /\ spares = {} /\ pendingReclaims = {} /\ touched = {}
  /\ ~initializationComplete /\ ~namespaceDirty

\* A new database: every file that was written has its own backing file.
SeedOK ==
  /\ references = [f \in Files |-> 0]
  /\ dirty = {} /\ spares = {} /\ pendingReclaims = {} /\ touched = {}
  /\ ~initializationComplete /\ ~namespaceDirty
  /\ phase # "ready" /\ opening
  /\ \A p \in Paths : entries[p] # None =>
       /\ home[entries[p]] \in disk
       /\ cached[home[entries[p]]] = <<entries[p], 0>>
       /\ kept[home[entries[p]]] = <<entries[p], 0>>
  /\ \A p, q \in Paths : entries[p] # None /\ entries[q] # None /\ p # q =>
       entries[p] # entries[q] /\ home[entries[p]] # home[entries[q]]
  /\ pc = "commit" => \A p \in Seed : entries[p] # None

\* What the pool knows of the state file.
NamesOK ==
  /\ \A p \in Paths : fileAt[p] # None =>
       fileAt[p] \in Live /\ home[fileAt[p]] = backingAt[p]
  /\ \A p, q \in Paths : entries[p] # None /\ p # q => entries[p] # entries[q]
  /\ \A p \in Essential : entries[p] # None
  /\ ~namespaceDirty => fileAt = entries
  /\ \A f \in pendingReclaims : references[f] = 0 /\ f \notin Named /\ home[f] # None

\* Every backing file has one use.
HomesOK ==
  /\ \A b \in Backings : b \in disk <=> b \in spares \/ \E f \in Live : home[f] = b
  /\ \A f \in Live : home[f] \notin spares
  /\ \A f, g \in Live : home[f] = home[g] /\ home[f] # None => f = g

\* What is known of a live file's bytes, written and flushed.
BytesOK ==
  \A f \in Live : home[f] # None =>
    /\ cached[home[f]] = <<f, writes[f]>>
    /\ kept[home[f]][1] = f => kept[home[f]][2] <= writes[f]
    /\ f \notin dirty => /\ kept[home[f]][1] = f
                         /\ f \in touched => kept[home[f]] = <<f, writes[f]>>

\* How far a sync got.
SyncOK ==
  /\ pc \in {"stage", "commit"} /\ phase = "ready" =>
       initializationComplete \/ boundary = "full"
  /\ pc \in {"reclaim", "spares", "close"} => ~namespaceDirty
  /\ pc \in {"commit", "reclaim", "spares", "close"} => Staged = {}
  /\ pc = "commit" => Named \cap dirty = {}
  /\ pc # "run" => \A f \in Named \cap touched :
       (isWalRecord(f) \/ boundary \in {"full", "close"}) /\ home[f] # None => f \notin dirty

\* The phases.
PhaseOK ==
  /\ published => phase = "ready" /\ report # "corrupt"
  /\ pc # "down" => report = "none"
  /\ pc = "seed" => boundary = "seed"
  /\ pc \in {"spares", "run", "stage", "reclaim", "close"} => boundary # "seed"
  /\ pc = "hydrate" => opening
  /\ Running \/ pc = "hydrate" => phase \in {"initializing", "ready"}
  /\ Running /\ initializationComplete => phase = "ready"

PoolInv ==
  /\ TypeOK
  /\ PhaseOK
  /\ Mapped => StateFileOK
  /\ pc \in {"down", "hydrate"} => Gone
  /\ Seeding => SeedOK
  /\ Running => NamesOK /\ HomesOK /\ BytesOK /\ SyncOK

\* The step A keeps the invariant.
Keeps(A) == PoolInv /\ A => PoolInv'
-----------------------------------------------------------------------------
\* The content of a backing file is a pair.
LEMMA PairType == \A f \in Files \cup {None}, n \in 0..MaxWrites : <<f, n>> \in Content
BY Zenon DEF Content

\* Its two parts.
LEMMA PairParts ==
  \A x \in Content : x[1] \in Files \cup {None} /\ x[2] \in 0..MaxWrites /\ x = <<x[1], x[2]>>
BY DEF Content

\* An empty backing file holds a content.
LEMMA BlankType == Blank \in Content
BY PoolAssumption DEF Blank, Content

\* Before the first open there is no database and no pool.
LEMMA InitInv == Init => PoolInv
<1> SUFFICES ASSUME Init PROVE PoolInv
  OBVIOUS
<1>1. TypeOK
  <2>1. cached \in [Backings -> Content] /\ kept \in [Backings -> Content]
    BY BlankType, Zenon DEF Init
  <2>2. entries \in [Paths -> Files \cup {None}] /\ fileAt = entries
        /\ backingAt \in [Paths -> Backings \cup {None}]
    BY Zenon DEF Init, NoNames
  <2>3. home \in [Files -> Backings \cup {None}] /\ writes \in [Files -> 0..MaxWrites]
        /\ references \in [Files -> 0..MaxRefs]
    BY PoolAssumption DEF Init
  <2> QED
    BY <2>1, <2>2, <2>3, Zenon DEF Init, TypeOK
<1>2. PhaseOK /\ ~Mapped /\ ~Seeding /\ ~Running
  BY Zenon DEF Init, PhaseOK, Mapped, Seeding, Running
<1>3. Gone
  BY Zenon DEF Init, Gone
<1> QED
  BY <1>1, <1>2, <1>3, Zenon DEF PoolInv

\* Opening starts from the state file and an empty pool.
LEMMA OpenInv == Keeps(Open)
<1> SUFFICES ASSUME PoolInv, Open PROVE PoolInv'
  BY Zenon DEF Keeps
<1>1. TypeOK'
  BY BlankType, Zenon DEF PoolInv, Open, TypeOK, stateFile, bytes, pool, promise
<1>2. PhaseOK'
  BY Zenon DEF PoolInv, PhaseOK, Running, Open, stateFile, promise
<1>3. Mapped' => StateFileOK'
  BY Zenon DEF PoolInv, Mapped, Running, StateFileOK, Open, stateFile, bytes
<1>4. (pc \in {"down", "hydrate"} => Gone)'
  BY Zenon DEF PoolInv, Gone, Open, pool, promise
<1>5. (Seeding => SeedOK)'
  BY Zenon DEF PoolInv, Seeding, SeedOK, Gone, NoNames, Open, stateFile, pool, promise
<1>6. ~Running'
  BY Zenon DEF Running, Open
<1> QED
  BY <1>1, <1>2, <1>3, <1>4, <1>5, <1>6, Zenon DEF PoolInv

\* Each file of the seed gets a backing file of its own.
LEMMA SeedFileInv == Keeps(SeedFile)
<1> SUFFICES ASSUME PoolInv, SeedFile PROVE PoolInv'
  BY Zenon DEF Keeps
<1>1. TypeOK'
  BY PairType, PoolAssumption DEF PoolInv, SeedFile, TypeOK, newBackingNames, stateFile,
     promise, Paths
<1>2. PhaseOK'
  BY Zenon DEF PoolInv, PhaseOK, Running, SeedFile, stateFile, promise
<1>3. ~Mapped' /\ ~Running' /\ pc' = "seed"
  BY Zenon DEF PoolInv, Mapped, Running, Seeding, SeedOK, SeedFile, stateFile
<1>4. SeedOK'
  BY DEF PoolInv, TypeOK, Seeding, SeedOK, SeedFile, FreshFile, newBackingNames, stateFile,
     promise
<1> QED
  BY <1>1, <1>2, <1>3, <1>4, Zenon DEF PoolInv

\* While the pool serves, a published backing file is its own file's home.
LEMMA PublishedHome ==
  ASSUME TypeOK, StateFileOK, NamesOK, HomesOK, NEW p \in Paths, backingAt[p] # None
  PROVE  /\ fileAt[p] \in Live /\ home[fileAt[p]] = backingAt[p]
         /\ backingAt[p] \notin spares
         /\ \A f \in Live : home[f] = backingAt[p] => f = fileAt[p]
BY DEF StateFileOK, NamesOK, HomesOK

\* Flushing copies what was written, so the same file's bytes.
LEMMA FlushPublished ==
  ASSUME TypeOK, StateFileOK, NEW F, FlushAll(F), UNCHANGED <<stateFile, disk, cached>>
  PROVE  StateFileOK'
<1> SUFFICES ASSUME NEW q \in Paths, backingAt[q] # None
             PROVE  /\ kept'[backingAt[q]][1] = fileAt[q]
                    /\ kept'[backingAt[q]][2] <= cached[backingAt[q]][2]
  BY Zenon DEF StateFileOK, stateFile
<1>1. backingAt[q] \in Backings
  BY Zenon DEF TypeOK
<1>2. kept'[backingAt[q]] = kept[backingAt[q]] \/ kept'[backingAt[q]] = cached[backingAt[q]]
  BY <1>1, Zenon DEF FlushAll
<1>3. cached[backingAt[q]][2] \in Nat
  BY PairParts DEF TypeOK
<1> QED
  BY <1>2, <1>3 DEF StateFileOK

\* A new spare is no file's.
LEMMA CreateSpareInv == Keeps(CreateSpare)
<1> SUFFICES ASSUME PoolInv, CreateSpare PROVE PoolInv'
  BY Zenon DEF Keeps
<1>1. Running /\ TypeOK /\ PhaseOK /\ StateFileOK /\ NamesOK /\ HomesOK /\ BytesOK /\ SyncOK
  BY Zenon DEF PoolInv, Mapped, Running, CreateSpare
<1>2. TypeOK'
  BY <1>1, BlankType DEF TypeOK, CreateSpare, newBackingNames, stateFile, promise
<1>3. PhaseOK' /\ Running' /\ ~Seeding' /\ pc' \notin {"down", "hydrate"}
  BY <1>1, Zenon DEF PhaseOK, Running, Seeding, CreateSpare, stateFile, promise
<1>4. StateFileOK'
  BY <1>1 DEF StateFileOK, CreateSpare, newBackingNames, stateFile
<1>5. NamesOK'
  BY <1>1 DEF NamesOK, Live, Named, CreateSpare, stateFile
<1>6. HomesOK'
  BY <1>1 DEF HomesOK, Live, Named, CreateSpare, newBackingNames
<1>7. BytesOK'
  BY <1>1 DEF TypeOK, BytesOK, HomesOK, Live, Named, CreateSpare, newBackingNames, promise
<1>8. SyncOK'
  BY <1>1 DEF SyncOK, Staged, Named, isWalRecord, CreateSpare, promise
<1> QED
  BY <1>2, <1>3, <1>4, <1>5, <1>6, <1>7, <1>8, Zenon DEF PoolInv

\* The pool starts to serve.
LEMMA SparesDoneInv == Keeps(SparesDone)
<1> SUFFICES ASSUME PoolInv, SparesDone PROVE PoolInv'
  BY Zenon DEF Keeps
<1>1. Running /\ TypeOK /\ PhaseOK /\ StateFileOK /\ NamesOK /\ HomesOK /\ BytesOK /\ SyncOK
  BY Zenon DEF PoolInv, Mapped, Running, SparesDone
<1>2. TypeOK'
  BY <1>1, Zenon DEF TypeOK, SparesDone, stateFile, bytes, pool, promise
<1>3. PhaseOK' /\ Running' /\ ~Seeding' /\ pc' \notin {"down", "hydrate"}
  BY <1>1, Zenon DEF PhaseOK, Running, Seeding, SparesDone, stateFile, pool, promise
<1>4. StateFileOK'
  BY <1>1, Zenon DEF StateFileOK, SparesDone, stateFile, bytes
<1>5. NamesOK'
  BY <1>1 DEF NamesOK, Live, Named, SparesDone, stateFile, pool
<1>6. HomesOK'
  BY <1>1 DEF HomesOK, Live, Named, SparesDone, bytes, pool
<1>7. BytesOK'
  BY <1>1 DEF BytesOK, Live, Named, SparesDone, bytes, pool, promise
<1>8. SyncOK'
  BY Zenon DEF SyncOK, SparesDone
<1> QED
  BY <1>2, <1>3, <1>4, <1>5, <1>6, <1>7, <1>8, Zenon DEF PoolInv

\* A spare becomes the home of a new file, or the file is staged.
LEMMA CreateFileInv == \A p \in Paths, f \in Files : Keeps(CreateFile(p, f))
<1> SUFFICES ASSUME NEW p \in Paths, NEW f \in Files, PoolInv, CreateFile(p, f) PROVE PoolInv'
  BY Zenon DEF Keeps
<1>1. Running /\ TypeOK /\ PhaseOK /\ StateFileOK /\ NamesOK /\ HomesOK /\ BytesOK /\ SyncOK
  BY Zenon DEF PoolInv, Mapped, Running, CreateFile
<1>2. TypeOK'
  BY <1>1, PoolAssumption, PairType DEF TypeOK, CreateFile, stateFile
<1>3. PhaseOK' /\ Running' /\ ~Seeding' /\ pc' \notin {"down", "hydrate"}
  BY <1>1, Zenon DEF PhaseOK, Running, Seeding, CreateFile, stateFile
<1>4. StateFileOK'
  BY <1>1, PublishedHome DEF TypeOK, StateFileOK, CreateFile, stateFile
<1>5. NamesOK'
  BY <1>1 DEF TypeOK, NamesOK, Live, Named, CreateFile, FreshFile, stateFile
<1>6. HomesOK'
  BY <1>1, PoolAssumption DEF TypeOK, HomesOK, Live, Named, CreateFile, FreshFile
<1>7. BytesOK'
  BY <1>1 DEF TypeOK, BytesOK, HomesOK, Live, Named, CreateFile, FreshFile
<1>8. SyncOK'
  BY Zenon DEF SyncOK, CreateFile
<1> QED
  BY <1>2, <1>3, <1>4, <1>5, <1>6, <1>7, <1>8, Zenon DEF PoolInv

\* Another descriptor changes no file.
LEMMA OpenFileInv == \A p \in Paths : Keeps(OpenFile(p))
<1> SUFFICES ASSUME NEW p \in Paths, PoolInv, OpenFile(p) PROVE PoolInv'
  BY Zenon DEF Keeps
<1>1. Running /\ TypeOK /\ PhaseOK /\ StateFileOK /\ NamesOK /\ HomesOK /\ BytesOK /\ SyncOK
  BY Zenon DEF PoolInv, Mapped, Running, OpenFile
<1>2. TypeOK'
  BY <1>1, PoolAssumption DEF TypeOK, OpenFile, stateFile, bytes, promise
<1>3. PhaseOK' /\ Running' /\ ~Seeding' /\ pc' \notin {"down", "hydrate"}
  BY <1>1, Zenon DEF PhaseOK, Running, Seeding, OpenFile, stateFile, promise
<1>4. StateFileOK'
  BY <1>1, Zenon DEF StateFileOK, OpenFile, stateFile, bytes
<1>5. NamesOK'
  BY <1>1 DEF NamesOK, Live, Named, OpenFile, stateFile
<1>6. HomesOK'
  BY <1>1 DEF HomesOK, Live, Named, OpenFile, bytes
<1>7. BytesOK'
  BY <1>1 DEF TypeOK, BytesOK, Live, Named, OpenFile, bytes, promise
<1>8. SyncOK'
  BY Zenon DEF SyncOK, OpenFile
<1> QED
  BY <1>2, <1>3, <1>4, <1>5, <1>6, <1>7, <1>8, Zenon DEF PoolInv

\* A write goes to the file's own home.
LEMMA WriteInv == \A f \in Files : Keeps(Write(f))
<1> SUFFICES ASSUME NEW f \in Files, PoolInv, Write(f) PROVE PoolInv'
  BY Zenon DEF Keeps
<1>1. Running /\ TypeOK /\ PhaseOK /\ StateFileOK /\ NamesOK /\ HomesOK /\ BytesOK /\ SyncOK
  BY Zenon DEF PoolInv, Mapped, Running, Write
<1>2. TypeOK'
  BY <1>1, PoolAssumption, PairType DEF TypeOK, Write, stateFile
<1>3. PhaseOK' /\ Running' /\ ~Seeding' /\ pc' \notin {"down", "hydrate"}
  BY <1>1, Zenon DEF PhaseOK, Running, Seeding, Write, stateFile
<1>4. StateFileOK'
  <2> SUFFICES ASSUME NEW q \in Paths, backingAt[q] # None
               PROVE  /\ cached'[backingAt[q]][1] = fileAt[q]
                      /\ kept[backingAt[q]][2] <= cached'[backingAt[q]][2]
    BY <1>1, Zenon DEF StateFileOK, Write, stateFile
  <2>1. backingAt[q] \in Backings /\ kept[backingAt[q]][1] = fileAt[q]
        /\ kept[backingAt[q]][2] <= cached[backingAt[q]][2]
        /\ cached[backingAt[q]][1] = fileAt[q]
    BY <1>1, Zenon DEF TypeOK, StateFileOK
  <2>2. CASE home[f] # backingAt[q]
    BY <2>1, <2>2 DEF Write
  <2>3. CASE home[f] = backingAt[q]
    <3>1. f \in Live /\ fileAt[q] = f
      BY <1>1, <2>3, PublishedHome, Zenon DEF Write, Live
    <3>2. cached[backingAt[q]] = <<f, writes[f]>>
      BY <1>1, <2>3, <3>1, Zenon DEF BytesOK
    <3>3. cached'[backingAt[q]] = <<f, writes[f] + 1>>
      BY <1>1, <2>3, Zenon DEF TypeOK, Write
    <3>4. kept[backingAt[q]][2] \in Nat /\ writes[f] \in Nat
      BY <1>1, PairParts DEF TypeOK
    <3> QED
      BY <2>1, <3>2, <3>3, <3>4
  <2> QED
    BY <2>2, <2>3, Zenon
<1>5. NamesOK'
  BY <1>1 DEF NamesOK, Live, Named, Write, stateFile
<1>6. HomesOK'
  BY <1>1 DEF HomesOK, Live, Named, Write
<1>7. BytesOK'
  <2>0. Live' = Live
    BY Zenon DEF Live, Named, Write
  <2> SUFFICES ASSUME NEW g \in Live, home[g] # None
               PROVE  /\ cached'[home[g]] = <<g, writes'[g]>>
                      /\ kept[home[g]][1] = g => kept[home[g]][2] <= writes'[g]
                      /\ g \notin dirty' =>
                           /\ kept[home[g]][1] = g
                           /\ g \in touched' => kept[home[g]] = <<g, writes'[g]>>
    BY <2>0, Zenon DEF BytesOK, Write
  <2>1. g \in Files /\ home[g] \in Backings
    BY <1>1, Zenon DEF TypeOK, Live, Named
  <2>2. CASE g # f
    <3>1. home[g] # home[f]
      BY <1>1, <2>2, Zenon DEF HomesOK, Write, Live
    <3> QED
      BY <1>1, <2>1, <2>2, <3>1 DEF BytesOK, Write
  <2>3. CASE g = f
    <3>1. cached'[home[g]] = <<g, writes'[g]>> /\ writes'[g] = writes[g] + 1
      BY <1>1, <2>3, Zenon DEF TypeOK, Write
    <3>2. kept[home[g]][2] \in Nat /\ writes[g] \in Nat
      BY <1>1, <2>1, PairParts DEF TypeOK
    <3> QED
      BY <1>1, <3>1, <3>2 DEF BytesOK, Write
  <2> QED
    BY <2>2, <2>3, Zenon
<1>8. SyncOK'
  BY Zenon DEF SyncOK, Write
<1> QED
  BY <1>2, <1>3, <1>4, <1>5, <1>6, <1>7, <1>8, Zenon DEF PoolInv

\* A flush copies written bytes to kept ones.
LEMMA FlushInv == \A f \in Files : Keeps(Flush(f))
<1> SUFFICES ASSUME NEW f \in Files, PoolInv, Flush(f) PROVE PoolInv'
  BY Zenon DEF Keeps
<1>1. Running /\ TypeOK /\ PhaseOK /\ StateFileOK /\ NamesOK /\ HomesOK /\ BytesOK /\ SyncOK
  BY Zenon DEF PoolInv, Mapped, Running, Flush
<1>2. TypeOK'
  BY <1>1, ZenonT(30) DEF TypeOK, Flush, FlushAll, stateFile, promise
<1>3. PhaseOK' /\ Running' /\ ~Seeding' /\ pc' \notin {"down", "hydrate"}
  BY <1>1, Zenon DEF PhaseOK, Running, Seeding, Flush, stateFile, promise
<1>4. StateFileOK'
  BY <1>1, FlushPublished, Zenon DEF Flush
<1>5. NamesOK'
  BY <1>1 DEF NamesOK, Live, Named, Flush, stateFile
<1>6. HomesOK'
  BY <1>1 DEF HomesOK, Live, Named, Flush
<1>7. BytesOK'
  BY <1>1 DEF TypeOK, BytesOK, Live, Named, Flush, FlushAll, Flushed, promise
<1>8. SyncOK'
  BY Zenon DEF SyncOK, Flush
<1> QED
  BY <1>2, <1>3, <1>4, <1>5, <1>6, <1>7, <1>8, Zenon DEF PoolInv

\* An unlinked file that loses its last descriptor waits for the next sync.
LEMMA CloseDescriptorInv == \A f \in Files : Keeps(CloseDescriptor(f))
<1> SUFFICES ASSUME NEW f \in Files, PoolInv, CloseDescriptor(f) PROVE PoolInv'
  BY Zenon DEF Keeps
<1>1. Running /\ TypeOK /\ PhaseOK /\ StateFileOK /\ NamesOK /\ HomesOK /\ BytesOK /\ SyncOK
  BY Zenon DEF PoolInv, Mapped, Running, CloseDescriptor
<1>2. TypeOK'
  BY <1>1, PoolAssumption DEF TypeOK, CloseDescriptor, queueReclaim, stateFile, bytes
<1>3. PhaseOK' /\ Running' /\ ~Seeding' /\ pc' \notin {"down", "hydrate"}
  BY <1>1, Zenon DEF PhaseOK, Running, Seeding, CloseDescriptor, stateFile
<1>4. StateFileOK'
  BY <1>1, Zenon DEF StateFileOK, CloseDescriptor, stateFile, bytes
<1>5. NamesOK'
  <2>1. /\ entries' = entries /\ home' = home /\ fileAt' = fileAt
        /\ backingAt' = backingAt /\ namespaceDirty' = namespaceDirty /\ Named' = Named
    BY Zenon DEF CloseDescriptor, stateFile, Named
  <2>2. references' = [references EXCEPT ![f] = @ - 1] /\ references \in [Files -> Nat]
    BY <1>1, PoolAssumption DEF CloseDescriptor, TypeOK
  <2>3. /\ pendingReclaims \subseteq pendingReclaims'
        /\ pendingReclaims' \subseteq pendingReclaims \cup {f}
        /\ f \in pendingReclaims' \ pendingReclaims =>
             references[f] = 1 /\ f \notin Named /\ home[f] # None
        /\ references[f] = 1 /\ f \notin Named /\ home[f] # None => f \in pendingReclaims'
    BY Zenon DEF CloseDescriptor, queueReclaim
  <2>4. \A g \in Live : home[g] # None => g \in Live'
    BY <2>1, <2>2, <2>3 DEF Live
  <2>5. \A q \in Paths : fileAt'[q] # None =>
          fileAt'[q] \in Live' /\ home'[fileAt'[q]] = backingAt'[q]
    BY <1>1, <2>1, <2>4, Zenon DEF StateFileOK, NamesOK
  <2>6. references[f] > 0
    BY Zenon DEF CloseDescriptor
  <2>7. \A g \in pendingReclaims' : references'[g] = 0 /\ g \notin Named' /\ home'[g] # None
    BY <1>1, <2>1, <2>2, <2>3, <2>6 DEF NamesOK
  <2> QED
    BY <1>1, <2>1, <2>5, <2>7, Zenon DEF NamesOK
<1>6. HomesOK'
  BY <1>1, PoolAssumption DEF TypeOK, HomesOK, Live, Named, CloseDescriptor, queueReclaim,
     bytes
<1>7. BytesOK'
  BY <1>1 DEF TypeOK, BytesOK, Live, Named, CloseDescriptor, queueReclaim, bytes
<1>8. SyncOK'
  BY Zenon DEF SyncOK, CloseDescriptor
<1> QED
  BY <1>2, <1>3, <1>4, <1>5, <1>6, <1>7, <1>8, Zenon DEF PoolInv

\* An unlinked file keeps its home until the next sync.
LEMMA RemoveFileInv == \A p \in Paths \ Essential : Keeps(RemoveFile(p))
<1> SUFFICES ASSUME NEW p \in Paths \ Essential, PoolInv, RemoveFile(p) PROVE PoolInv'
  BY Zenon DEF Keeps
<1>1. Running /\ TypeOK /\ PhaseOK /\ StateFileOK /\ NamesOK /\ HomesOK /\ BytesOK /\ SyncOK
  BY Zenon DEF PoolInv, Mapped, Running, RemoveFile
<1>2. TypeOK'
  BY <1>1, PoolAssumption DEF TypeOK, RemoveFile, detach, queueReclaim, stateFile, bytes
<1>3. PhaseOK' /\ Running' /\ ~Seeding' /\ pc' \notin {"down", "hydrate"}
  BY <1>1, Zenon DEF PhaseOK, Running, Seeding, RemoveFile, stateFile
<1>4. StateFileOK'
  BY <1>1, Zenon DEF StateFileOK, RemoveFile, stateFile, bytes
<1>5. NamesOK'
  BY <1>1 DEF TypeOK, StateFileOK, NamesOK, Live, Named, RemoveFile, detach, queueReclaim,
     stateFile
<1>6. HomesOK'
  BY <1>1, PoolAssumption DEF TypeOK, HomesOK, Live, Named, RemoveFile, detach,
     queueReclaim, bytes
<1>7. BytesOK'
  BY <1>1 DEF TypeOK, BytesOK, Live, Named, RemoveFile, detach, queueReclaim, bytes
<1>8. SyncOK'
  BY Zenon DEF SyncOK, RemoveFile
<1> QED
  BY <1>2, <1>3, <1>4, <1>5, <1>6, <1>7, <1>8, Zenon DEF PoolInv

\* A rename moves the file and detaches the one it replaces.
LEMMA RenameInv ==
  \A from \in Paths \ Essential, to \in Paths \ Essential : Keeps(Rename(from, to))
<1> SUFFICES ASSUME NEW from \in Paths \ Essential, NEW to \in Paths \ Essential,
                    PoolInv, Rename(from, to)
             PROVE  PoolInv'
  BY Zenon DEF Keeps
<1>1. Running /\ TypeOK /\ PhaseOK /\ StateFileOK /\ NamesOK /\ HomesOK /\ BytesOK /\ SyncOK
  BY Zenon DEF PoolInv, Mapped, Running, Rename
<1>2. TypeOK'
  BY <1>1, PoolAssumption DEF TypeOK, Rename, detach, queueReclaim, stateFile, bytes
<1>3. PhaseOK' /\ Running' /\ ~Seeding' /\ pc' \notin {"down", "hydrate"}
  BY <1>1, Zenon DEF PhaseOK, Running, Seeding, Rename, stateFile
<1>4. StateFileOK'
  BY <1>1, Zenon DEF StateFileOK, Rename, stateFile, bytes
<1>5. NamesOK'
  <2>1. \A q \in Paths : entries'[q] = IF q = from THEN None
                                      ELSE IF q = to THEN entries[from] ELSE entries[q]
    BY <1>1, Zenon DEF TypeOK, Rename
  <2>2. \A f \in Named : f \in Named' \/ f = entries[to]
    BY <2>1, Zenon DEF Named
  <2>3. Named' \subseteq Named
    BY <2>1, Zenon DEF Named
  <2>4. \A q \in Paths : entries[to] # None => entries'[q] # entries[to]
    <3>1. from \in Paths /\ to \in Paths /\ from # to /\ entries[from] # None
      BY Zenon DEF Rename
    <3>2. \A r, q \in Paths : entries[r] # None /\ r # q => entries[r] # entries[q]
      BY <1>1, Zenon DEF NamesOK
    <3> QED
      BY <2>1, <3>2, Zenon
  <2>5. entries[to] \notin Named'
    BY <2>4, Zenon DEF Named
  <2>6. pendingReclaims \subseteq pendingReclaims'
        /\ \A f \in pendingReclaims' \ pendingReclaims :
             f = entries[to] /\ f # None /\ references[f] = 0 /\ home[f] # None
    BY Zenon DEF Rename, detach, queueReclaim
  <2>7. \A f \in Live : home[f] # None => f \in Live'
    BY <1>1 DEF TypeOK, Live, Named, Rename, detach, queueReclaim
  <2>8. \A q \in Paths : fileAt[q] # None =>
          fileAt[q] \in Live' /\ home'[fileAt[q]] = backingAt[q]
    BY <1>1, <2>7, Zenon DEF StateFileOK, NamesOK, Rename
  <2>9. \A f \in pendingReclaims' : references'[f] = 0 /\ f \notin Named' /\ home'[f] # None
    BY <1>1, <2>3, <2>6, <2>5, Zenon DEF NamesOK, Rename
  <2>10. \A q, r \in Paths : entries'[q] # None /\ q # r => entries'[q] # entries'[r]
    BY <1>1, <2>1 DEF NamesOK
  <2>11. \A q \in Essential : entries'[q] # None
    BY <1>1, <2>1, PoolAssumption, Zenon DEF NamesOK, Paths
  <2> QED
    BY <2>8, <2>9, <2>10, <2>11, Zenon DEF NamesOK, Rename, stateFile
<1>6. HomesOK'
  BY <1>1, PoolAssumption DEF TypeOK, HomesOK, Live, Named, Rename, detach, queueReclaim,
     bytes
<1>7. BytesOK'
  BY <1>1 DEF TypeOK, BytesOK, Live, Named, Rename, detach, queueReclaim, bytes
<1>8. SyncOK'
  BY Zenon DEF SyncOK, Rename
<1> QED
  BY <1>2, <1>3, <1>4, <1>5, <1>6, <1>7, <1>8, Zenon DEF PoolInv

\* A sync begins by flushing.
LEMMA SyncInv == Keeps(Sync)
<1> SUFFICES ASSUME PoolInv, Sync PROVE PoolInv'
  BY Zenon DEF Keeps
<1>1. Running /\ TypeOK /\ PhaseOK /\ StateFileOK /\ NamesOK /\ HomesOK /\ BytesOK /\ SyncOK
  BY Zenon DEF PoolInv, Mapped, Running, Sync
<1>2. TypeOK'
  BY <1>1, ZenonT(30) DEF TypeOK, Sync, FlushAll, Flushed, stateFile, promise
<1>3. PhaseOK' /\ Running' /\ ~Seeding' /\ pc' \notin {"down", "hydrate"}
  BY <1>1, Zenon DEF PhaseOK, Running, Seeding, Sync, stateFile, promise
<1>4. StateFileOK'
  BY <1>1, FlushPublished, Zenon DEF Sync
<1>5. NamesOK'
  BY <1>1 DEF NamesOK, Live, Named, Sync, stateFile
<1>6. HomesOK'
  BY <1>1 DEF HomesOK, Live, Named, Sync
<1>7. BytesOK'
  BY <1>1 DEF TypeOK, BytesOK, Live, Named, Sync, FlushAll, Flushed, promise
<1>8. SyncOK'
  BY <1>1, Zenon DEF TypeOK, SyncOK, isWalRecord, Sync, FlushAll, Flushed
<1> QED
  BY <1>2, <1>3, <1>4, <1>5, <1>6, <1>7, <1>8, Zenon DEF PoolInv

\* A staged file gets a home that nothing uses.
LEMMA MaterializeInv == Keeps(Materialize)
<1> SUFFICES ASSUME PoolInv, Materialize PROVE PoolInv'
  BY Zenon DEF Keeps
<1>1. Running /\ TypeOK /\ PhaseOK /\ StateFileOK /\ NamesOK /\ HomesOK /\ BytesOK /\ SyncOK
  BY Zenon DEF PoolInv, Mapped, Running, Materialize
<1>2. TypeOK'
  BY <1>1, PairType DEF TypeOK, Materialize, Staged, Named, newBackingNames, stateFile,
     promise
<1>3. PhaseOK' /\ Running' /\ ~Seeding' /\ pc' \notin {"down", "hydrate"}
  BY <1>1, Zenon DEF PhaseOK, Running, Seeding, Materialize, stateFile, promise
<1>4. StateFileOK'
  BY <1>1 DEF StateFileOK, Materialize, newBackingNames, stateFile
<1>5. NamesOK'
  BY <1>1 DEF StateFileOK, NamesOK, Live, Named, Materialize, Staged, stateFile
<1>6. HomesOK'
  BY <1>1, PoolAssumption DEF TypeOK, HomesOK, Live, Named, Materialize, Staged,
     newBackingNames
<1>7. BytesOK'
  BY <1>1 DEF TypeOK, BytesOK, HomesOK, Live, Named, Materialize, newBackingNames, promise
<1>8. SyncOK'
  BY <1>1 DEF SyncOK, Named, isWalRecord, Materialize, stateFile, promise
<1> QED
  BY <1>2, <1>3, <1>4, <1>5, <1>6, <1>7, <1>8, Zenon DEF PoolInv

\* Every dirty file is flushed before a changed namespace is committed.
LEMMA StageDoneInv == Keeps(StageDone)
<1> SUFFICES ASSUME PoolInv, StageDone PROVE PoolInv'
  BY Zenon DEF Keeps
<1>1. Running /\ TypeOK /\ PhaseOK /\ StateFileOK /\ NamesOK /\ HomesOK /\ BytesOK /\ SyncOK
  BY Zenon DEF PoolInv, Mapped, Running, StageDone
<1>2. TypeOK'
  BY <1>1 DEF TypeOK, StageDone, FlushAll, stateFile, promise
<1>3. PhaseOK' /\ Running' /\ ~Seeding' /\ pc' \notin {"down", "hydrate"}
  BY <1>1, Zenon DEF PhaseOK, Running, Seeding, StageDone, stateFile, promise
<1>4. StateFileOK'
  <2>1. CASE FlushAll(Files)
    BY <1>1, <2>1, FlushPublished, Zenon DEF StageDone
  <2>2. CASE UNCHANGED kept
    BY <1>1, <2>2, Zenon DEF StateFileOK, StageDone, stateFile
  <2> QED
    BY <2>1, <2>2, Zenon DEF StageDone
<1>5. NamesOK'
  BY <1>1 DEF NamesOK, Live, Named, StageDone, stateFile
<1>6. HomesOK'
  BY <1>1 DEF HomesOK, Live, Named, StageDone
<1>7. BytesOK'
  BY <1>1 DEF TypeOK, BytesOK, Live, Named, StageDone, FlushAll, promise
<1>8. SyncOK'
  BY <1>1 DEF TypeOK, SyncOK, Staged, Named, isWalRecord, StageDone, FlushAll, Flushed,
     stateFile, promise
<1> QED
  BY <1>2, <1>3, <1>4, <1>5, <1>6, <1>7, <1>8, Zenon DEF PoolInv

\* Homes are recycled when the state file no longer names them.
LEMMA ReclaimInv == Keeps(Reclaim)
<1> SUFFICES ASSUME PoolInv, Reclaim PROVE PoolInv'
  BY Zenon DEF Keeps
<1>1. Running /\ TypeOK /\ PhaseOK /\ StateFileOK /\ NamesOK /\ HomesOK /\ BytesOK /\ SyncOK
  BY Zenon DEF PoolInv, Mapped, Running, Reclaim
<1> DEFINE free == {home[f] : f \in pendingReclaims}
<1>2. /\ fileAt = entries /\ free \subseteq disk
      /\ \A f \in Live \ pendingReclaims : home[f] \notin free
      /\ \A b \in free : \A p \in Paths : backingAt[p] # b
  <2>1. fileAt = entries
    BY <1>1, Zenon DEF NamesOK, SyncOK, Reclaim
  <2>2. free \subseteq disk
    BY <1>1 DEF TypeOK, NamesOK, HomesOK, Live
  <2>3. \A f \in Live \ pendingReclaims : home[f] \notin free
    BY <1>1 DEF NamesOK, HomesOK, Live
  <2>4. \A p \in Paths : backingAt[p] # None => fileAt[p] \in Live \ pendingReclaims
    BY <1>1, <2>1 DEF StateFileOK, NamesOK, Named
  <2>5. \A p \in Paths : backingAt[p] \notin free
    BY <1>1, <2>3, <2>4 DEF NamesOK, StateFileOK
  <2> QED
    BY <2>1, <2>2, <2>3, <2>5, Zenon
<1>3. Live' = Live \ pendingReclaims
  BY <1>1 DEF NamesOK, Live, Named, Reclaim
<1>4. TypeOK'
  BY <1>1, <1>2, BlankType, PoolAssumption DEF TypeOK, Reclaim, stateFile
<1>5. PhaseOK' /\ Running' /\ ~Seeding' /\ pc' \notin {"down", "hydrate"}
  BY <1>1, Zenon DEF PhaseOK, Running, Seeding, Reclaim, stateFile
<1>6. StateFileOK'
  BY <1>1, <1>2, ZenonT(30) DEF TypeOK, StateFileOK, Reclaim, stateFile
<1>7. NamesOK'
  BY <1>1, <1>2, <1>3 DEF TypeOK, NamesOK, Named, Reclaim, stateFile
<1>8. HomesOK'
  <2>1. spares' = spares \cup free /\ UNCHANGED disk
        /\ \A f \in Live' : home'[f] = home[f]
    BY <1>1, <1>3 DEF TypeOK, Reclaim, Live, Named
  <2>2. \A b \in Backings : b \in disk <=> b \in spares \cup free \/ \E f \in Live' : home[f] = b
    BY <1>1, <1>2, <1>3, Zenon DEF HomesOK
  <2> QED
    BY <1>1, <1>2, <1>3, <2>1 DEF HomesOK
<1>9. BytesOK'
  <2>1. \A f \in Live' : /\ f \in Files /\ home'[f] = home[f] /\ writes'[f] = writes[f]
                         /\ f \notin dirty' => f \notin dirty
                         /\ f \in touched' => f \in touched
    BY <1>1, <1>3, Zenon DEF TypeOK, Reclaim, Live, Named
  <2>2. \A b \in Backings \ free : cached'[b] = cached[b] /\ kept'[b] = kept[b]
    BY Zenon DEF Reclaim
  <2>3. \A f \in Live' : home[f] # None => home[f] \in Backings \ free
    BY <1>1, <1>2, <1>3, <2>1, Zenon DEF TypeOK
  <2> QED
    BY <1>1, <1>3, <2>1, <2>2, <2>3 DEF BytesOK
<1>10. SyncOK'
  BY <1>1 DEF TypeOK, SyncOK, NamesOK, Staged, Named, isWalRecord, Reclaim
<1> QED
  BY <1>4, <1>5, <1>6, <1>7, <1>8, <1>9, <1>10, Zenon DEF PoolInv

\* Hydration finds everything that a readable state file names.
LEMMA HydrateInv == Keeps(Hydrate)
<1> SUFFICES ASSUME PoolInv, Hydrate PROVE PoolInv'
  BY Zenon DEF Keeps
<1>1. TypeOK /\ PhaseOK /\ StateFileOK /\ Gone /\ phase \in {"initializing", "ready"}
      /\ pc = "hydrate" /\ opening /\ report = "none"
  BY Zenon DEF PoolInv, PhaseOK, Mapped, Hydrate
<1>2. Referenced \subseteq disk /\ \A p \in Essential : backingAt[p] # None
  BY <1>1, Zenon DEF StateFileOK, Referenced
<1>3. PICK keep \in SUBSET (disk \ Referenced) : spares' = keep /\ disk' = Referenced \cup keep
  BY <1>2, Zenon DEF Hydrate
<1>4. /\ cached' = [b \in Backings |-> IF b \in Referenced THEN cached[b] ELSE Blank]
      /\ kept' = [b \in Backings |-> IF b \in Referenced THEN kept[b] ELSE Blank]
      /\ entries' = [p \in Paths |-> IF p \in Volatile THEN None ELSE fileAt[p]]
      /\ pendingReclaims' = {fileAt[p] : p \in Volatile} \ {None}
      /\ home' = [f \in Files |->
           IF \E p \in Paths : fileAt[p] = f
           THEN backingAt[CHOOSE p \in Paths : fileAt[p] = f] ELSE None]
      /\ writes' = [f \in Files |-> IF home'[f] = None THEN 0 ELSE cached[home'[f]][2]]
      /\ namespaceDirty' = (pendingReclaims' # {})
      /\ initializationComplete' = (phase = "ready")
      /\ boundary' = "operation"
      /\ pc' = IF namespaceDirty' THEN "stage" ELSE "spares"
      /\ UNCHANGED <<references, dirty, opening, report, touched, published>>
      /\ UNCHANGED <<phase, backingAt, fileAt>>
  BY <1>2, Zenon DEF Hydrate, stateFile
<1>5. \A p \in Paths : fileAt[p] # None =>
        fileAt[p] \in Files /\ home'[fileAt[p]] = backingAt[p] /\ backingAt[p] \in Referenced
  BY <1>1, <1>4, ZenonT(30) DEF TypeOK, StateFileOK, Referenced
<1>6. \A f : f \in Live' <=> f # None /\ \E p \in Paths : fileAt[p] = f
  <2>1. \A f : f \in Named' <=> f # None /\ \E p \in Paths \ Volatile : fileAt[p] = f
    BY <1>4, Zenon DEF Named
  <2>2. \A f : f \in pendingReclaims' <=> f # None /\ \E p \in Volatile : fileAt[p] = f
    BY <1>4, Zenon
  <2>3. {f \in Files : references'[f] > 0} = {}
    BY <1>1, <1>4 DEF Gone
  <2> QED
    BY <2>1, <2>2, <2>3, Zenon DEF Live, Paths
<1>7. TypeOK'
  <2>1. home' \in [Files -> Backings \cup {None}]
    BY <1>1, <1>4, Zenon DEF TypeOK
  <2>2. writes' \in [Files -> 0..MaxWrites]
    BY <1>1, <1>4, PairParts, PoolAssumption DEF TypeOK
  <2>3. cached' \in [Backings -> Content] /\ kept' \in [Backings -> Content]
    BY <1>1, <1>4, BlankType, Zenon DEF TypeOK
  <2>4. pendingReclaims' \subseteq Files /\ entries' \in [Paths -> Files \cup {None}]
    BY <1>1, <1>4 DEF TypeOK, Paths
  <2>5. disk' \subseteq Backings /\ spares' \subseteq Backings
    BY <1>1, <1>2, <1>3, Zenon DEF TypeOK
  <2> QED
    BY <1>1, <1>4, <2>2, <2>3, <2>4, <2>5, Zenon DEF TypeOK
<1>8. PhaseOK' /\ Running' /\ ~Seeding' /\ pc' \notin {"down", "hydrate"}
  BY <1>1, <1>4, Zenon DEF PhaseOK, Running, Seeding
<1>9. StateFileOK'
  <2>1. \A p \in Paths : backingAt[p] # None =>
          /\ backingAt[p] \in disk'
          /\ cached'[backingAt[p]] = cached[backingAt[p]]
          /\ kept'[backingAt[p]] = kept[backingAt[p]]
    BY <1>1, <1>3, <1>4, Zenon DEF TypeOK, Referenced
  <2> QED
    BY <1>1, <1>4, <2>1 DEF StateFileOK
<1>10. NamesOK'
  <2>1. ~namespaceDirty' => fileAt = entries'
    BY <1>1, <1>4, Zenon DEF TypeOK
  <2>2. \A p \in Essential : entries'[p] # None
    BY <1>1, <1>4, PoolAssumption, Zenon DEF StateFileOK, Paths
  <2>3. \A p, q \in Paths : entries'[p] # None /\ p # q => entries'[p] # entries'[q]
    BY <1>1, <1>4, Zenon DEF StateFileOK
  <2>4. \A f \in pendingReclaims' : references'[f] = 0 /\ f \notin Named' /\ home'[f] # None
    <3> SUFFICES ASSUME NEW p \in Volatile, fileAt[p] # None
                 PROVE  /\ references[fileAt[p]] = 0 /\ fileAt[p] \notin Named'
                        /\ home'[fileAt[p]] # None
      BY <1>4, ZenonT(30)
    <3>1. p \in Paths
      BY Zenon DEF Paths
    <3>2. \A q \in Paths : entries'[q] # fileAt[p]
      BY <1>1, <1>4, <3>1, Zenon DEF StateFileOK
    <3> QED
      BY <1>1, <1>5, <3>1, <3>2, Zenon DEF StateFileOK, Gone, Named
  <2>5. fileAt' = fileAt /\ backingAt' = backingAt
    BY <1>4, Zenon
  <2>6. \A p \in Paths : fileAt[p] # None =>
          fileAt[p] \in Live' /\ home'[fileAt[p]] = backingAt[p]
    BY <1>5, <1>6, Zenon
  <2> QED
    BY <2>1, <2>2, <2>3, <2>4, <2>5, <2>6, Zenon DEF NamesOK
<1>11. HomesOK'
  <2>1. \A b \in Backings : b \in Referenced <=> \E f \in Live' : home'[f] = b
    BY <1>1, <1>5, <1>6 DEF StateFileOK, Referenced
  <2>2. \A f \in Live' : home'[f] \in Referenced
    BY <1>5, <1>6, Zenon
  <2>3. \A f, g \in Live' : home'[f] = home'[g] => f = g
    BY <1>1, <1>5, <1>6 DEF StateFileOK
  <2> QED
    BY <1>3, <2>1, <2>2, <2>3, Zenon DEF HomesOK
<1>12. BytesOK'
  <2> SUFFICES ASSUME NEW p \in Paths, fileAt[p] # None
               PROVE  /\ cached'[backingAt[p]] = <<fileAt[p], writes'[fileAt[p]]>>
                      /\ kept'[backingAt[p]][1] = fileAt[p]
                      /\ kept'[backingAt[p]][2] <= writes'[fileAt[p]]
    <3>1. \A p \in Paths : fileAt[p] # None => fileAt[p] \notin touched'
      BY <1>1, <1>4, Zenon DEF Gone
    <3> QED
      BY <1>5, <1>6, <3>1 DEF BytesOK
  <2>1. backingAt[p] \in Backings /\ backingAt[p] \in Referenced /\ fileAt[p] \in Files
    BY <1>1, <1>5, Zenon DEF TypeOK, StateFileOK
  <2>2. cached'[backingAt[p]] = cached[backingAt[p]] /\ kept'[backingAt[p]] = kept[backingAt[p]]
    BY <1>4, <2>1, Zenon
  <2>3. writes'[fileAt[p]] = cached[backingAt[p]][2]
    BY <1>4, <2>1, PoolAssumption
  <2> QED
    BY <1>1, <2>2, <2>3, PairParts DEF TypeOK, StateFileOK
<1>13. SyncOK'
  <2>1. Staged' = {}
    BY <1>1, <1>5, <1>6 DEF Staged, Live, StateFileOK
  <2> QED
    BY <1>1, <1>4, <2>1, Zenon DEF SyncOK, Gone
<1> QED
  BY <1>7, <1>8, <1>9, <1>10, <1>11, <1>12, <1>13, Zenon DEF PoolInv

-----------------------------------------------------------------------------
\* Writing the state file publishes files that are flushed and have a home.
LEMMA WriteStateOK ==
  ASSUME PoolInv, pc = "commit", WriteState, UNCHANGED bytes
  PROVE  /\ StateFileOK'
         /\ phase' \in {"initializing", "ready"} /\ (phase = "ready" => phase' = "ready")
         /\ fileAt' \in [Paths -> Files \cup {None}]
         /\ backingAt' \in [Paths -> Backings \cup {None}]
         /\ published' \in BOOLEAN /\ (published' => phase' = "ready")
<1>1. TypeOK /\ PhaseOK
  BY Zenon DEF PoolInv
<1>2. /\ fileAt' = entries
      /\ backingAt' = [p \in Paths |-> IF entries[p] = None THEN None ELSE home[entries[p]]]
  BY Zenon DEF WriteState
<1>3. \A p \in Paths : entries[p] # None =>
        /\ home[entries[p]] \in disk
        /\ cached[home[entries[p]]][1] = entries[p]
        /\ kept[home[entries[p]]][1] = entries[p]
        /\ kept[home[entries[p]]][2] <= cached[home[entries[p]]][2]
        /\ \A q \in Paths : entries[q] # None /\ p # q =>
             entries[p] # entries[q] /\ home[entries[p]] # home[entries[q]]
  <2>1. CASE Seeding
    BY <2>1 DEF PoolInv, SeedOK
  <2>2. CASE Running
    <3>1. NamesOK /\ HomesOK /\ BytesOK /\ SyncOK
      BY <2>2, Zenon DEF PoolInv
    <3>2. \A p \in Paths : entries[p] # None =>
            entries[p] \in Live /\ home[entries[p]] # None /\ entries[p] \notin dirty
      BY <3>1, Zenon DEF SyncOK, Staged, Named, Live
    <3>3. \A p, q \in Paths : entries[p] # None /\ p # q => entries[p] # entries[q]
      BY <3>1, Zenon DEF NamesOK
    <3>4. \A p \in Paths : entries[p] # None => home[entries[p]] \in disk
      BY <1>1, <3>1, <3>2, Zenon DEF TypeOK, HomesOK
    <3>5. \A p \in Paths : entries[p] # None =>
            /\ cached[home[entries[p]]] = <<entries[p], writes[entries[p]]>>
            /\ kept[home[entries[p]]][1] = entries[p]
            /\ kept[home[entries[p]]][2] <= writes[entries[p]]
      BY <3>1, <3>2, Zenon DEF BytesOK
    <3>6. \A p, q \in Paths : entries[p] # None /\ entries[q] # None /\ p # q =>
            home[entries[p]] # home[entries[q]]
      BY <3>1, <3>2, <3>3, Zenon DEF HomesOK
    <3> QED
      BY <3>4, <3>5, <3>6
  <2> QED
    BY <2>1, <2>2, Zenon DEF Seeding, Running
<1>4. \A p \in Essential : p \in Paths /\ entries[p] # None
  BY PoolAssumption, Zenon DEF PoolInv, Seeding, SeedOK, Running, NamesOK, Paths
<1>5. StateFileOK'
  BY <1>1, <1>2, <1>3, <1>4, PoolAssumption DEF TypeOK, StateFileOK, bytes
<1>6. phase' \in {"initializing", "ready"} /\ (phase = "ready" => phase' = "ready")
      /\ published' \in BOOLEAN /\ (published' => phase' = "ready")
  BY Zenon DEF PoolInv, PhaseOK, TypeOK, Seeding, SeedOK, Running, SyncOK, WriteState,
     completesInitialization
<1>7. /\ fileAt' \in [Paths -> Files \cup {None}]
      /\ backingAt' \in [Paths -> Backings \cup {None}]
  BY <1>1, <1>2, Zenon DEF TypeOK
<1> QED
  BY <1>5, <1>6, <1>7, Zenon

\* Closing, failing or crashing leaves a pool that holds nothing; what matters
\* then is the state file.
LEMMA ClosedInv ==
  ASSUME PoolGone, pc' = "down", TypeOK', PhaseOK', phase' = "ready" => StateFileOK'
  PROVE  PoolInv'
<1>1. Gone'
  BY Zenon DEF PoolGone, Gone
<1>2. ~Running' /\ ~Seeding' /\ (Mapped' => phase' = "ready")
  BY Zenon DEF Running, Seeding, Mapped
<1> QED
  BY <1>1, <1>2, Zenon DEF PoolInv

\* The types of an empty pool.
LEMMA GoneTypes ==
  PoolGone => /\ entries' \in [Paths -> Files \cup {None}]
              /\ home' \in [Files -> Backings \cup {None}]
              /\ writes' \in [Files -> 0..MaxWrites]
              /\ references' \in [Files -> 0..MaxRefs]
              /\ dirty' \subseteq Files /\ spares' \subseteq Backings
              /\ pendingReclaims' \subseteq Files /\ touched' \subseteq Files
              /\ initializationComplete' \in BOOLEAN /\ namespaceDirty' \in BOOLEAN
<1> SUFFICES ASSUME PoolGone
             PROVE  /\ entries' \in [Paths -> Files \cup {None}]
                    /\ home' \in [Files -> Backings \cup {None}]
                    /\ writes' \in [Files -> 0..MaxWrites]
                    /\ references' \in [Files -> 0..MaxRefs]
  BY Zenon DEF PoolGone
<1>1. entries' \in [Paths -> Files \cup {None}] /\ home' \in [Files -> Backings \cup {None}]
  BY Zenon DEF PoolGone, NoNames
<1>2. writes' \in [Files -> 0..MaxWrites] /\ references' \in [Files -> 0..MaxRefs]
  BY PoolAssumption DEF PoolGone
<1> QED
  BY <1>1, <1>2, Zenon

\* The state file is created empty, in the first open only.
LEMMA CreateStateInv == Keeps(CreateState)
<1> SUFFICES ASSUME PoolInv, CreateState PROVE PoolInv'
  BY Zenon DEF Keeps
<1>1. Seeding /\ TypeOK /\ PhaseOK /\ SeedOK /\ boundary = "seed"
  BY Zenon DEF PoolInv, Seeding, PhaseOK, CreateState
<1>2. TypeOK'
  BY <1>1, Zenon DEF TypeOK, CreateState, bytes, pool, promise
<1>3. PhaseOK' /\ ~Running' /\ Seeding' /\ pc' = "commit" /\ ~Mapped'
  BY <1>1, Zenon DEF PhaseOK, SeedOK, Running, Seeding, Mapped, CreateState, promise
<1>4. SeedOK'
  BY <1>1, Zenon DEF SeedOK, CreateState, bytes, pool, promise
<1> QED
  BY <1>2, <1>3, <1>4, Zenon DEF PoolInv

\* The commit of a sync, or of the seed.
LEMMA CommitStateInv == Keeps(CommitState)
<1> SUFFICES ASSUME PoolInv, CommitState PROVE PoolInv'
  BY Zenon DEF Keeps
<1>1. TypeOK /\ PhaseOK /\ pc = "commit" /\ WriteState /\ UNCHANGED bytes
  BY Zenon DEF PoolInv, CommitState
<1>2. /\ StateFileOK' /\ phase' \in {"initializing", "ready"}
      /\ fileAt' \in [Paths -> Files \cup {None}] /\ backingAt' \in [Paths -> Backings \cup {None}]
      /\ published' \in BOOLEAN /\ (published' => phase' = "ready")
  BY <1>1, WriteStateOK, Zenon
<1>3. CASE boundary = "seed"
  <2>1. PoolGone /\ pc' = "hydrate" /\ UNCHANGED <<disk, cached, kept, boundary, opening, report>>
        /\ opening /\ report = "none"
    BY <1>3, Zenon DEF CommitState, bytes, PoolInv, PhaseOK, Seeding, SeedOK
  <2>2. TypeOK'
    BY <1>1, <1>2, <2>1, GoneTypes, Zenon DEF TypeOK
  <2>3. PhaseOK' /\ ~Running' /\ ~Seeding'
    BY <1>2, <2>1, Zenon DEF PhaseOK, Running, Seeding
  <2>4. Gone'
    BY <2>1, Zenon DEF PoolGone, Gone
  <2> QED
    BY <1>2, <2>2, <2>3, <2>4, Zenon DEF PoolInv
<1>4. CASE boundary # "seed"
  <2>1. Running /\ NamesOK /\ HomesOK /\ BytesOK /\ SyncOK
    BY <1>1, <1>4, Zenon DEF PoolInv, Running
  <2>2. /\ pc' = "reclaim" /\ namespaceDirty' = FALSE /\ fileAt' = entries
        /\ initializationComplete' = (initializationComplete \/ completesInitialization)
        /\ UNCHANGED <<entries, home, writes, references, dirty, spares, pendingReclaims, touched>>
        /\ UNCHANGED <<disk, cached, kept, boundary, opening, report>>
        /\ backingAt' = [p \in Paths |-> IF entries[p] = None THEN None ELSE home[entries[p]]]
    BY <1>4, Zenon DEF CommitState, WriteState, bytes
  <2>3. TypeOK'
    BY <1>1, <1>2, <2>2, Zenon DEF TypeOK
  <2>4. PhaseOK' /\ Running' /\ ~Seeding'
    BY <1>1, <1>2, <1>4, <2>2, Zenon DEF PhaseOK, Running, Seeding, WriteState
  <2>5. NamesOK'
    BY <2>1, <2>2 DEF NamesOK, Live, Named
  <2>6. HomesOK' /\ BytesOK'
    BY <2>1, <2>2 DEF HomesOK, BytesOK, Live, Named
  <2>7. SyncOK'
    BY <1>1, <2>1, <2>2, Zenon DEF SyncOK, Staged, Named
  <2> QED
    BY <1>2, <2>2, <2>3, <2>4, <2>5, <2>6, <2>7, Zenon DEF PoolInv
<1> QED
  BY <1>3, <1>4, Zenon

LEMMA InterruptedDisk ==
  ASSUME disk \subseteq Backings, disk' \in Interrupted
  PROVE  disk \subseteq disk' /\ disk' \subseteq Backings
BY Zenon DEF Interrupted, newBackingNames

\* What a failed step, or a crash, leaves on disk is the old state file or a
\* complete new one.
LEMMA OpenFailsInv == Keeps(OpenFails)
<1> SUFFICES ASSUME PoolInv, OpenFails PROVE PoolInv'
  BY Zenon DEF Keeps
<1>1. TypeOK /\ PhaseOK /\ PoolGone /\ pc' = "down" /\ ~opening' /\ report' = "none"
      /\ UNCHANGED <<cached, kept>> /\ boundary' = "operation"
  BY Zenon DEF PoolInv, OpenFails
<1>2. disk \subseteq disk' /\ disk' \subseteq Backings
  <2>1. disk' \in Interrupted
    <3>1. disk' \in IF pc = "seed" THEN Interrupted ELSE {disk}
      BY Zenon DEF OpenFails
    <3>2. disk \in Interrupted
      BY Zenon DEF Interrupted
    <3> QED
      BY <3>1, <3>2, Zenon
  <2>2. disk \subseteq Backings
    BY <1>1, Zenon DEF TypeOK
  <2> QED
    BY <2>1, <2>2, InterruptedDisk, Zenon
<1>3. CASE WriteState /\ pc = "commit"
  <2>1. disk' = disk
    BY <1>3, Zenon DEF OpenFails
  <2>2. /\ StateFileOK' /\ phase' \in {"initializing", "ready"}
        /\ fileAt' \in [Paths -> Files \cup {None}] /\ backingAt' \in [Paths -> Backings \cup {None}]
        /\ published' \in BOOLEAN /\ (published' => phase' = "ready")
    BY <1>1, <1>3, <2>1, WriteStateOK, Zenon DEF bytes
  <2>3. TypeOK' /\ PhaseOK'
    BY <1>1, <1>2, <2>2, GoneTypes, Zenon DEF TypeOK, PhaseOK, Running, OpenFails
  <2> QED
    BY <1>1, <2>2, <2>3, ClosedInv, Zenon
<1>4. CASE UNCHANGED <<stateFile, published>>
  <2>1. UNCHANGED <<phase, backingAt, fileAt, published>>
    BY <1>4, Zenon DEF stateFile
  <2>2. phase' = "ready" => StateFileOK'
    BY <1>1, <1>2, <2>1, Zenon DEF PoolInv, Mapped, StateFileOK
  <2>3. TypeOK' /\ PhaseOK'
    BY <1>1, <1>2, <2>1, GoneTypes, Zenon DEF TypeOK, PhaseOK, Running, OpenFails
  <2> QED
    BY <1>1, <2>2, <2>3, ClosedInv, Zenon
<1> QED
  BY <1>3, <1>4, Zenon DEF OpenFails

\* Closing the handles leaves the state file as it is.
LEMMA DropInv == Keeps(Drop)
<1> SUFFICES ASSUME PoolInv, Drop PROVE PoolInv'
  BY Zenon DEF Keeps
<1>1. TypeOK /\ PhaseOK /\ PoolGone /\ pc' = "down" /\ boundary' = "operation"
      /\ UNCHANGED <<phase, backingAt, fileAt, disk, cached, kept, opening, report, published>>
  BY Zenon DEF PoolInv, Drop, stateFile, bytes
<1>2. TypeOK' /\ PhaseOK'
  BY <1>1, GoneTypes, Zenon DEF TypeOK, PhaseOK, Running
<1>3. phase' = "ready" => StateFileOK'
  BY <1>1, Zenon DEF PoolInv, Mapped, StateFileOK
<1> QED
  BY <1>1, <1>2, <1>3, ClosedInv, Zenon

\* A crash keeps, of each backing file, the written or the flushed bytes.
LEMMA CrashBytes ==
  ASSUME PoolInv, Crash
  PROVE  \A b \in Backings : /\ cached'[b] = kept'[b]
                              /\ cached'[b] \in {cached[b], kept[b]}
BY Zenon DEF Crash

\* A crash does, too.
LEMMA CrashInv == Keeps(Crash)
<1> SUFFICES ASSUME PoolInv, Crash PROVE PoolInv'
  BY Zenon DEF Keeps
<1>1. TypeOK /\ PhaseOK /\ PoolGone /\ pc' = "down" /\ boundary' = "operation"
      /\ opening' = FALSE /\ report' = "none"
      /\ UNCHANGED <<phase, backingAt, fileAt, published>>
  BY Zenon DEF PoolInv, Crash, stateFile
<1>2. disk \subseteq disk' /\ disk' \subseteq Backings
  <2>1. disk' \in Interrupted
    BY Zenon DEF Crash
  <2>2. disk \subseteq Backings
    BY <1>1, Zenon DEF TypeOK
  <2> QED
    BY <2>1, <2>2, InterruptedDisk, Zenon
<1>3. cached' \in [Backings -> Content] /\ kept' \in [Backings -> Content]
  BY <1>1, Zenon DEF Crash, TypeOK
<1>4. TypeOK' /\ PhaseOK'
  BY <1>1, <1>2, <1>3, GoneTypes, ZenonT(30) DEF TypeOK, PhaseOK, Running
<1>5. ASSUME phase' = "ready" PROVE StateFileOK'
  <2>1. StateFileOK
    BY <1>1, <1>5, Zenon DEF PoolInv, Mapped
  <2>2. \A p \in Paths : backingAt[p] # None => backingAt[p] \in Backings
    BY <1>1, Zenon DEF TypeOK
  <2>3. \A b \in Backings : kept'[b][2] \in Nat
    BY <1>3, PairParts
  <2> QED
    BY <1>1, <1>2, <2>1, <2>3, CrashBytes DEF StateFileOK
<1> QED
  BY <1>1, <1>4, <1>5, ClosedInv, Zenon

\* A failed sync leaves the old state file or the new one; the pool goes on or is dropped.
LEMMA SyncFailsInv == Keeps(SyncFails)
<1> SUFFICES ASSUME PoolInv, SyncFails PROVE PoolInv'
  BY Zenon DEF Keeps
<1>0. (WriteState /\ pc = "commit") \/ UNCHANGED <<stateFile, published>>
  BY Zenon DEF SyncFails
<1>1. TypeOK /\ PhaseOK /\ Running /\ pc \in {"stage", "commit"} /\ boundary' = "operation"
      /\ UNCHANGED <<disk, cached, kept, opening, report>>
  BY Zenon DEF PoolInv, SyncFails, Running, Seeding, SeedOK, bytes
<1>2. StateFileOK /\ NamesOK /\ HomesOK /\ BytesOK /\ SyncOK /\ report = "none"
  BY <1>1, Zenon DEF PoolInv, Mapped, PhaseOK
<1>3. /\ StateFileOK' /\ phase' \in {"initializing", "ready"} /\ (phase = "ready" => phase' = "ready")
      /\ fileAt' \in [Paths -> Files \cup {None}] /\ backingAt' \in [Paths -> Backings \cup {None}]
      /\ published' \in BOOLEAN /\ (published' => phase' = "ready")
  <2>1. CASE WriteState /\ pc = "commit"
    BY <1>1, <2>1, WriteStateOK, Zenon DEF bytes
  <2>2. CASE UNCHANGED <<stateFile, published>>
    BY <1>1, <1>2, <2>2, Zenon DEF TypeOK, PhaseOK, StateFileOK, stateFile
  <2> QED
    BY <1>0, <2>1, <2>2, Zenon
<1>4. CASE boundary = "close"
  <2>1. PoolGone /\ pc' = "down"
    BY <1>4, Zenon DEF SyncFails
  <2>2. TypeOK' /\ PhaseOK'
    BY <1>1, <1>3, <2>1, GoneTypes, Zenon DEF TypeOK, PhaseOK, Running
  <2> QED
    BY <1>3, <2>1, <2>2, ClosedInv, Zenon
<1>5. CASE boundary # "close"
  <2>1. pc' = "run" /\ UNCHANGED <<entries, home, writes, references, dirty, spares,
          pendingReclaims, initializationComplete, namespaceDirty, touched>>
    BY <1>5, Zenon DEF SyncFails, pool
  <2>2. TypeOK'
    BY <1>1, <1>3, <2>1, Zenon DEF TypeOK
  <2>3. PhaseOK' /\ Running' /\ ~Seeding'
    BY <1>1, <1>3, <2>1, ZenonT(30) DEF PhaseOK, Running, Seeding
  <2>4. HomesOK' /\ BytesOK' /\ SyncOK'
    BY <1>1, <1>2, <2>1 DEF HomesOK, BytesOK, SyncOK, Live, Named
  <2>5. NamesOK'
    <3>1. CASE WriteState /\ pc = "commit"
      <4>1. /\ fileAt' = entries'
            /\ \A p \in Paths : entries[p] # None => backingAt'[p] = home'[entries[p]]
        BY <2>1, <3>1, Zenon DEF WriteState
      <4>2. Live' = Live /\ Named' = Named
        BY <2>1, Zenon DEF Live, Named
      <4>3. \A p \in Paths : entries[p] # None => entries[p] \in Live
        BY <1>1, ZenonT(30) DEF Live, Named, TypeOK
      <4> QED
        BY <1>2, <2>1, <4>1, <4>2, <4>3, Zenon DEF NamesOK
    <3>2. CASE UNCHANGED <<stateFile, published>>
      BY <1>2, <2>1, <3>2 DEF NamesOK, Live, Named, stateFile
    <3> QED
      BY <1>0, <3>1, <3>2, Zenon
  <2> QED
    BY <1>3, <2>1, <2>2, <2>3, <2>4, <2>5, Zenon DEF PoolInv
<1> QED
  BY <1>4, <1>5, Zenon

-----------------------------------------------------------------------------
\* Every step keeps the invariant.
LEMMA NextInv == PoolInv /\ [Next]_vars => PoolInv'
<1> SUFFICES ASSUME PoolInv, [Next]_vars PROVE PoolInv'
  OBVIOUS
<1>1. CASE Open
  BY <1>1, OpenInv, Zenon DEF Keeps
<1>2. CASE SeedFile
  BY <1>2, SeedFileInv, Zenon DEF Keeps
<1>3. CASE Hydrate
  BY <1>3, HydrateInv, Zenon DEF Keeps
<1>4. CASE CreateSpare
  BY <1>4, CreateSpareInv, Zenon DEF Keeps
<1>5. CASE SparesDone
  BY <1>5, SparesDoneInv, Zenon DEF Keeps
<1>6. CASE \E p \in Paths : OpenFile(p) \/ \E f \in Files : CreateFile(p, f)
  BY <1>6, OpenFileInv, CreateFileInv, Zenon DEF Keeps
<1>7. CASE \E f \in Files : Write(f) \/ Flush(f) \/ CloseDescriptor(f)
  BY <1>7, WriteInv, FlushInv, CloseDescriptorInv, Zenon DEF Keeps
<1>8. CASE \E p \in Paths \ Essential : RemoveFile(p)
  BY <1>8, RemoveFileInv, Zenon DEF Keeps
<1>9. CASE \E from, to \in Paths \ Essential : Rename(from, to)
  BY <1>9, RenameInv, Zenon DEF Keeps
<1>10. CASE Sync
  BY <1>10, SyncInv, Zenon DEF Keeps
<1>11. CASE Materialize
  BY <1>11, MaterializeInv, Zenon DEF Keeps
<1>12. CASE StageDone
  BY <1>12, StageDoneInv, Zenon DEF Keeps
<1>13. CASE CreateState
  BY <1>13, CreateStateInv, Zenon DEF Keeps
<1>14. CASE CommitState
  BY <1>14, CommitStateInv, Zenon DEF Keeps
<1>15. CASE Reclaim
  BY <1>15, ReclaimInv, Zenon DEF Keeps
<1>16. CASE OpenFails
  BY <1>16, OpenFailsInv, Zenon DEF Keeps
<1>17. CASE SyncFails
  BY <1>17, SyncFailsInv, Zenon DEF Keeps
<1>18. CASE Drop
  BY <1>18, DropInv, Zenon DEF Keeps
<1>19. CASE Crash
  BY <1>19, CrashInv, Zenon DEF Keeps
<1>20. CASE UNCHANGED vars
  <2>1. /\ UNCHANGED <<phase, backingAt, fileAt>> /\ UNCHANGED <<disk, cached, kept>>
        /\ UNCHANGED <<entries, home, writes, references, dirty, spares, pendingReclaims>>
        /\ UNCHANGED <<initializationComplete, namespaceDirty, touched, published>>
        /\ UNCHANGED <<pc, boundary, opening, report>>
    BY <1>20, Zenon DEF vars, stateFile, bytes, pool, promise
  <2>2. Named' = Named /\ Staged' = Staged
    BY <2>1, Zenon DEF Named, Staged
  <2>3. Live' = Live
    BY <2>1, <2>2, Zenon DEF Live
  <2>4. TypeOK'
    BY <2>1 DEF PoolInv, TypeOK
  <2>5. Running' = Running /\ Seeding' = Seeding /\ Mapped' = Mapped
    BY <2>1, Zenon DEF Running, Seeding, Mapped
  <2>6. PhaseOK'
    BY <2>1, <2>5, Zenon DEF PoolInv, PhaseOK
  <2>7. (Mapped => StateFileOK)'
    BY <2>1, <2>5, Zenon DEF PoolInv, StateFileOK
  <2>8. (pc \in {"down", "hydrate"} => Gone)'
    BY <2>1, Zenon DEF PoolInv, Gone
  <2>9. (Seeding => SeedOK)'
    BY <2>1, <2>5, Zenon DEF PoolInv, SeedOK
  <2>10. (Running => NamesOK)'
    BY <2>1, <2>2, <2>3, <2>5, Zenon DEF PoolInv, NamesOK
  <2>11. (Running => HomesOK)'
    BY <2>1, <2>3, <2>5, Zenon DEF PoolInv, HomesOK
  <2>12. (Running => BytesOK)'
    BY <2>1, <2>3, <2>5, Zenon DEF PoolInv, BytesOK
  <2>13. (Running => SyncOK)'
    BY <2>1, <2>2, <2>5, Zenon DEF PoolInv, SyncOK, isWalRecord
  <2> QED
    BY <2>4, <2>6, <2>7, <2>8, <2>9, <2>10, <2>11, <2>12, <2>13, Zenon DEF PoolInv
<1> QED
  BY <1>1, <1>2, <1>3, <1>4, <1>5, <1>6, <1>7, <1>8, <1>9, <1>10, <1>11, <1>12, <1>13,
     <1>14, <1>15, <1>16, <1>17, <1>18, <1>19, <1>20, Zenon DEF Next

\* Whatever fails or crashes, and whenever, the state file and the pool agree as
\* PoolInv says (DirectOpfsPool, initializePoolState, writePoolState).
THEOREM PoolInvariant == Spec => []PoolInv
BY InitInv, NextInv, PTL DEF Spec

\* A published database is never lost, shared or reported as corrupt.
THEOREM PublishedIsIntact == Spec => []PublishedFilesIntact
<1>1. PoolInv => PublishedFilesIntact
  BY Zenon DEF PoolInv, Mapped, StateFileOK, PhaseOK, PublishedFilesIntact
<1> QED
  BY <1>1, PoolInvariant, PTL

\* No backing file of a live pool has two uses, and none is lost.
THEOREM BackingsAreAccounted == Spec => []BackingsAccounted
<1>1. PoolInv => BackingsAccounted
  <2> SUFFICES ASSUME PoolInv, pc \in {"run", "stage", "reclaim", "spares", "close"}
               PROVE  BackingsAccounted
    BY Zenon DEF BackingsAccounted
  <2>1. TypeOK /\ HomesOK
    BY Zenon DEF PoolInv, Running
  <2>2. Live \subseteq Files
    BY <2>1 DEF TypeOK, Live, Named
  <2> QED
    BY <2>1, <2>2, PoolAssumption DEF TypeOK, HomesOK, BackingsAccounted
<1> QED
  BY <1>1, PoolInvariant, PTL

\* When a sync has succeeded its names and its bytes are durable.
THEOREM SyncIsDurable == Spec => []SyncedIsDurable
<1>1. PoolInv => SyncedIsDurable
  <2> SUFFICES ASSUME PoolInv, pc \in {"spares", "close"} PROVE SyncedIsDurable
    BY Zenon DEF SyncedIsDurable
  <2>1. NamesOK /\ BytesOK /\ SyncOK
    BY Zenon DEF PoolInv, Running
  <2> QED
    BY <2>1, Zenon DEF NamesOK, BytesOK, SyncOK, Staged, Live, SyncedIsDurable
<1> QED
  BY <1>1, PoolInvariant, PTL

-----------------------------------------------------------------------------
\* What FlushedIsKept says of one step.
FlushedStep ==
  \A p, q \in Paths : phase = "ready" /\ fileAt[p] # None /\ fileAt'[q] = fileAt[p] =>
    kept'[backingAt'[q]][2] >= kept[backingAt[p]][2]

\* A step that leaves the state file alone takes back no flushed bytes behind it ...
LEMMA KeptBehind ==
  ASSUME PoolInv, UNCHANGED stateFile,
         phase = "ready" => \A p \in Paths : backingAt[p] # None =>
           kept'[backingAt[p]] \in {kept[backingAt[p]], cached[backingAt[p]]}
  PROVE  FlushedStep
<1> SUFFICES ASSUME NEW p \in Paths, NEW q \in Paths, phase = "ready",
                    fileAt[p] # None, fileAt'[q] = fileAt[p]
             PROVE  kept'[backingAt'[q]][2] >= kept[backingAt[p]][2]
  BY Zenon DEF FlushedStep
<1>1. TypeOK /\ StateFileOK
  BY Zenon DEF PoolInv, Mapped
<1>2. backingAt'[q] = backingAt[p] /\ backingAt[p] # None /\ backingAt[p] \in Backings
  BY <1>1, Zenon DEF StateFileOK, TypeOK, stateFile
<1>3. kept[backingAt[p]][2] \in Nat /\ cached[backingAt[p]][2] \in Nat
      /\ kept[backingAt[p]][2] <= cached[backingAt[p]][2]
  BY <1>1, PairParts DEF TypeOK, StateFileOK
<1>4. kept'[backingAt[p]] = kept[backingAt[p]] \/ kept'[backingAt[p]] = cached[backingAt[p]]
  BY <1>2, Zenon
<1> QED
  BY <1>2, <1>3

\* ... and one that writes it keeps every file that stays in its place.
LEMMA KeptAcross ==
  ASSUME PoolInv, pc = "commit", WriteState, UNCHANGED kept
  PROVE  FlushedStep
<1> SUFFICES ASSUME NEW p \in Paths, NEW q \in Paths, phase = "ready",
                    fileAt[p] # None, fileAt'[q] = fileAt[p]
             PROVE  kept'[backingAt'[q]][2] >= kept[backingAt[p]][2]
  BY Zenon DEF FlushedStep
<1>1. TypeOK /\ StateFileOK /\ NamesOK
  BY Zenon DEF PoolInv, Mapped, Running, Seeding, SeedOK
<1>2. backingAt'[q] = backingAt[p]
  BY <1>1, Zenon DEF NamesOK, WriteState
<1>3. kept[backingAt[p]][2] \in Nat
  BY <1>1, PairParts DEF TypeOK, StateFileOK
<1> QED
  BY <1>2, <1>3

\* No step takes back flushed bytes.
LEMMA NextKept == PoolInv /\ Next => FlushedStep
<1> SUFFICES ASSUME PoolInv, Next PROVE FlushedStep
  OBVIOUS
<1>1. TypeOK /\ (phase = "ready" => StateFileOK)
  BY Zenon DEF PoolInv, Mapped
<1>2. \A p \in Paths : backingAt[p] # None => backingAt[p] \in Backings /\ backingAt[p] \in Referenced
  BY <1>1, Zenon DEF TypeOK, Referenced
<1>3. CASE Open
  BY <1>3, KeptBehind, Zenon DEF Open, bytes
<1>4. CASE SeedFile
  BY <1>4, KeptBehind, Zenon DEF SeedFile, PoolInv, Seeding, SeedOK
<1>5. CASE Hydrate
  <2>1. UNCHANGED stateFile /\ (UNCHANGED kept \/
          kept' = [b \in Backings |-> IF b \in Referenced THEN kept[b] ELSE Blank])
    BY <1>5, Zenon DEF Hydrate, bytes
  <2> QED
    BY <1>2, <2>1, KeptBehind, Zenon
<1>6. CASE CreateSpare
  <2>1. UNCHANGED stateFile /\ \E b \in newBackingNames : kept' = [kept EXCEPT ![b] = Blank]
    BY <1>6, Zenon DEF CreateSpare
  <2> QED
    BY <1>2, <2>1, KeptBehind DEF newBackingNames
<1>7. CASE UNCHANGED <<stateFile, kept>>
  BY <1>7, KeptBehind, Zenon
<1>8. ASSUME NEW F, FlushAll(F), UNCHANGED stateFile
      PROVE  FlushedStep
  BY <1>2, <1>8, KeptBehind, Zenon DEF FlushAll
<1>9. CASE Materialize
  <2>1. UNCHANGED stateFile /\ \E b \in newBackingNames : \E x : kept' = [kept EXCEPT ![b] = x]
    BY <1>9, Zenon DEF Materialize
  <2> QED
    BY <1>2, <2>1, KeptBehind DEF newBackingNames
<1>10. CASE Reclaim
  <2>1. UNCHANGED stateFile /\ fileAt = entries /\ NamesOK /\ HomesOK /\ Running
    BY <1>10, Zenon DEF Reclaim, PoolInv, Running, NamesOK, SyncOK
  <2>2. StateFileOK
    BY <2>1, Zenon DEF PoolInv, Mapped
  <2>3. \A p \in Paths : backingAt[p] # None => backingAt[p] \notin {home[f] : f \in pendingReclaims}
    <3> SUFFICES ASSUME NEW p \in Paths, backingAt[p] # None, NEW f \in pendingReclaims,
                        home[f] = backingAt[p]
                 PROVE  FALSE
      OBVIOUS
    <3>1. f = fileAt[p]
      BY <1>1, <2>1, <2>2, PublishedHome, Zenon DEF Live
    <3> QED
      BY <2>1, <2>2, <3>1, Zenon DEF NamesOK, Named, StateFileOK
  <2>4. \A b \in Backings : b \notin {home[f] : f \in pendingReclaims} => kept'[b] = kept[b]
    BY <1>10, Zenon DEF Reclaim
  <2> QED
    BY <1>2, <2>1, <2>3, <2>4, KeptBehind, Zenon
<1>11. CASE Crash
  BY <1>2, <1>11, KeptBehind, Zenon DEF Crash
<1>12. CASE WriteState /\ pc = "commit" /\ UNCHANGED kept
  BY <1>12, KeptAcross, Zenon
<1>13. CASE \E p \in Paths : OpenFile(p) \/ \E f \in Files : CreateFile(p, f)
  BY <1>7, <1>13, Zenon DEF OpenFile, CreateFile, bytes
<1>14. CASE \E f \in Files : Write(f) \/ Flush(f) \/ CloseDescriptor(f)
  BY <1>7, <1>8, <1>14, Zenon DEF Write, Flush, CloseDescriptor, bytes
<1>15. CASE \E p \in Paths \ Essential : RemoveFile(p)
  BY <1>7, <1>15, Zenon DEF RemoveFile, bytes
<1>16. CASE \E from, to \in Paths \ Essential : Rename(from, to)
  BY <1>7, <1>16, Zenon DEF Rename, bytes
<1>17. CASE SparesDone \/ Drop
  BY <1>7, <1>17, Zenon DEF SparesDone, Drop, bytes
<1>18. CASE Sync
  BY <1>8, <1>18, Zenon DEF Sync
<1>19. CASE StageDone
  BY <1>7, <1>8, <1>19, Zenon DEF StageDone
<1>20. CASE CreateState
  BY <1>20, Zenon DEF CreateState, PoolInv, Seeding, SeedOK, FlushedStep
<1>21. CASE CommitState
  BY <1>12, <1>21, Zenon DEF CommitState, bytes
<1>22. CASE OpenFails
  BY <1>7, <1>12, <1>22, Zenon DEF OpenFails
<1>23. CASE SyncFails
  BY <1>7, <1>12, <1>23, Zenon DEF SyncFails, bytes
<1> QED
  BY <1>3, <1>4, <1>5, <1>6, <1>9, <1>10, <1>11, <1>13, <1>14, <1>15, <1>16, <1>17, <1>18,
     <1>19, <1>20, <1>21, <1>22, <1>23, Zenon DEF Next

\* No step and no crash takes back flushed bytes of a published file.
THEOREM FlushedStays == Spec => FlushedIsKept
<1>1. PoolInv /\ [Next]_vars => [FlushedStep]_vars
  BY NextKept, Zenon
<1>2. FlushedStep => (\A p, q \in Paths :
       phase = "ready" /\ fileAt[p] # None /\ fileAt'[q] = fileAt[p] =>
         kept'[backingAt'[q]][2] >= kept[backingAt[p]][2])
  BY Zenon DEF FlushedStep
<1> QED
  BY <1>1, <1>2, PoolInvariant, PTL DEF Spec, FlushedIsKept

=============================================================================
