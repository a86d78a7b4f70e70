------------------------ MODULE BrowserStorageProofs ------------------------
(***************************************************************************)
(* Theorems about portable browser storage, for any tabs, paths, guest     *)
(* operations and number of backing files.                                 *)
(*                                                                         *)
(* Only the tab that holds the lock is not idle, so the invariant is about *)
(* that tab and the disk.  A stored generation names complete backing      *)
(* files, each once.  The lease's memory is what makes a delta enough: a   *)
(* path that is outside the journal is stored as the guest has it, and the *)
(* remembered types are those that are stored.  From there the entries     *)
(* that an apply collects come to be the guest's, step by step; after a    *)
(* commit that was reported as unknown the memory is too old to tell what  *)
(* to delete, and only the files that the guest has are sure to be right.  *)
(***************************************************************************)
EXTENDS BrowserStorage, TLAPS

\* What the entries give when the backing files are d, and that each file has a
\* complete backing file of its own.
View(d, e) == [p \in Paths |-> IF e[p][1] = "at" THEN d[e[p][2]] ELSE e[p]]
Backed(d, e) ==
  /\ \A p \in Paths : e[p][1] = "at" => d[e[p][2]] \in Files
  /\ \A p, q \in Paths : e[p][1] = "at" /\ e[q] = e[p] => p = q

Leased == {"startup", "open", "serving", "cleanup"}

(* The disk.  IndexedDB keeps the contents in its rows. *)
DiskInv ==
  /\ kind = "indexedDb" =>
       /\ phase \in {"absent", "ready"} /\ stored \in [Paths -> Contents]
       /\ \A p \in Volatile : stored[p] = Absent
  /\ kind = "opfs" => \A p \in Paths : stored[p] \notin Files
  /\ \A p, q \in Paths : stored[p][1] = "at" /\ stored[q] = stored[p] => p = q
  /\ phase \in {"absent", "empty"} => stored = Nothing
  /\ phase = "initializing" => \A p \in Paths : stored[p] # Absent => p \in Essential
  /\ phase = "ready" => Backed(data, stored) /\ Valid(View(data, stored))

(* A tab that opens the database. *)
OpenInv(x) ==
  /\ x.pc = "idle" => x = Idle
  /\ x.pc = "locked" => x = [Idle EXCEPT !.pc = "locked"]
  /\ x.pc \in {"seed", "seedCommit"} =>
       /\ kind = "opfs" /\ phase \in {"absent", "empty", "initializing"}
       /\ Backed(data, x.entries)
       /\ \A p \in Paths : x.entries[p] # Absent =>
            p \in Essential /\ x.entries[p][1] = "at"
  /\ x.pc = "seed" => phase # "empty"
  /\ x.pc = "seedCommit" => \A p \in Essential : x.entries[p] # Absent
  /\ x.pc = "inspect" => kind = "opfs"

(* A tab with a lease, and a restore: what is stored, and which boundary   *)
(* is under way.                                                           *)
LeaseInv(x) ==
  x.pc \in Leased \cup Applying =>
    /\ Valid(x.guest)
    /\ x.pc \in Leased <=> x.at = None
    /\ x.pc \in Leased \ {"startup"} => ~x.initializationPending
    /\ x.at = "restore" => ~x.hasStoredGeneration
    /\ x.initializationPending => x.at \in {None, "full"}
    /\ ~x.hasStoredGeneration =>
         /\ x.initializationPending \/ x.at = "restore"
         /\ x.pc # "prune" => stored = Nothing /\ phase \in {"absent", "empty"}
         /\ phase = "empty" => x.pc = "commit"
    /\ x.hasStoredGeneration =>
         /\ phase = "ready" \/ (phase = "initializing" /\ x.initializationPending)
         /\ Backed(data, stored) /\ Valid(View(data, stored))
    /\ x.pc = "transact" <=> (x.pc \in Applying /\ kind = "indexedDb")
    /\ kind = "indexedDb" => ~x.unsure

(* What the lease knows about the stored generation. *)
MemoryInv(x) ==
  x.pc \in Leased \cup Applying =>
    /\ ~x.hasStoredGeneration =>
         ~x.unsure /\ \A p \in Paths : x.persistedEntries[p] = "absent"
    /\ x.pc # "prune" => \A p \in Kept \ scope(x) :
         x.guest[p] # Absent \/ ~x.unsure => View(data, stored)[p] = x.guest[p]
    /\ ~x.unsure /\ x.pc # "prune" =>
         \A p \in Kept : x.persistedEntries[p] = type(View(data, stored)[p])
    /\ ~x.unsure => \A p \in Kept \ scope(x) : x.persistedEntries[p] = type(x.guest[p])

(* What an apply has collected: first the files are missing, then it is    *)
(* what the guest has.                                                     *)
Matches(x, names) ==
  \A p \in Kept : x.guest[p] # Absent \/ ~x.unsure => names[p] = x.guest[p]
ApplyInv(x) ==
  /\ x.pc \in {"write", "commit", "prune"} =>
       /\ Backed(data, x.entries)
       /\ \A p \in Paths : x.entries[p] \notin Files
  /\ x.pc = "write" =>
       /\ \A p \in x.files : p \in Kept /\ x.guest[p] \in Files
       /\ \A p \in Kept : x.guest[p] # Absent =>
            p \in x.files \/ View(data, x.entries)[p] = x.guest[p]
       /\ ~x.unsure => \A p \in Kept : x.guest[p] = Absent =>
            View(data, x.entries)[p] = Absent \/ p \in deleted(x)
  /\ x.pc \in {"commit", "prune"} =>
       Related(x.entries) /\ Matches(x, View(data, x.entries))
  /\ x.pc = "prune" => phase = "ready" /\ stored = x.entries

(* What the users were told.  The target of a boundary that is under way   *)
(* is among what may be stored.                                            *)
PromiseInv(x) ==
  x.pc \in Applying =>
    /\ Target(x) \in promised
    /\ x.pc # "prune" => x.base = Durable

TabInv(x) == OpenInv(x) /\ LeaseInv(x) /\ MemoryInv(x) /\ ApplyInv(x) /\ PromiseInv(x)
StorageInv ==
  /\ TypeOK /\ LockCoversUse /\ DiskInv /\ StoredIsPromised
  /\ \A t \in Tabs : TabInv(tab[t])
-----------------------------------------------------------------------------
(* Entries, and what they give *)

LEMMA EntryFacts ==
  /\ Absent[1] = "absent" /\ Dir[1] = "dir" /\ Empty[1] = "empty"
  /\ \A e \in Files : e[1] = "file"
  /\ \A b : At(b)[1] = "at" /\ At(b)[2] = b
<1>1. \A e \in Files : e[1] = "file"
  BY DEF Files, File
<1>2. /\ Absent[1] = "absent" /\ Dir[1] = "dir" /\ Empty[1] = "empty"
      /\ \A b : At(b)[1] = "at" /\ At(b)[2] = b
  BY DEF Absent, Dir, Empty, At
<1> QED
  BY <1>1, <1>2, Zenon

LEMMA EntryCases ==
  ASSUME NEW e \in Entries
  PROVE  e = Absent \/ e = Dir \/ e \in Files \/ (\E b \in Backings : e = At(b))
BY Zenon DEF Entries

LEMMA ContentFacts ==
  /\ Absent # Dir /\ Absent \notin Files /\ Dir \notin Files /\ Empty \notin Files
  /\ Empty # Absent /\ Empty # Dir
  /\ \A e \in Contents : e[1] # "at" /\ e \in Entries
  /\ \A v \in 0..MaxOps : File(v) \in Files
<1>1. /\ Absent # Dir /\ Absent \notin Files /\ Dir \notin Files /\ Empty \notin Files
      /\ Empty # Absent /\ Empty # Dir
  BY EntryFacts, Zenon
<1>2. \A e \in Contents : e[1] # "at" /\ e \in Entries
  BY EntryFacts, Zenon DEF Contents, Entries
<1> QED
  BY <1>1, <1>2, Zenon DEF Files

LEMMA TypeFacts ==
  /\ type(Absent) = "absent" /\ type(Dir) = "dir" /\ \A e \in Files : type(e) = "file"
  /\ \A e \in Contents : /\ type(e) \in {"absent", "dir", "file"}
                         /\ type(e) = "absent" => e = Absent
<1>1. /\ type(Absent) = "absent" /\ type(Dir) = "dir" /\ \A e \in Files : type(e) = "file"
  BY EntryFacts, Zenon DEF type
<1> QED
  BY <1>1, Zenon DEF Contents

\* A path and what is below it.
LEMMA WithinFacts ==
  /\ \A p \in Paths : Within(p, p)
  /\ \A p, q, r \in Paths : Within(p, q) /\ Within(q, r) => Within(p, r)
  /\ \A p \in Essential \cup Volatile, q \in Paths :
       p \in Paths /\ (Within(p, q) => p = q) /\ p \notin Ancestors[q]
  /\ Essential \subseteq Kept
BY StorageAssumption, Zenon DEF Within, Kept

\* A backed entry gives a content of its own kind.
LEMMA ViewCases ==
  ASSUME NEW d, NEW e \in [Paths -> Entries], Backed(d, e), NEW p \in Paths
  PROVE  /\ View(d, e)[p] \in Contents
         /\ e[p] = Absent <=> View(d, e)[p] = Absent
         /\ e[p] = Dir <=> View(d, e)[p] = Dir
<1>1. View(d, e)[p] = IF e[p][1] = "at" THEN d[e[p][2]] ELSE e[p]
  BY Zenon DEF View
<1>2. CASE e[p][1] = "at"
  <2>1. View(d, e)[p] \in Files
    BY <1>1, <1>2, Zenon DEF Backed
  <2> QED
    BY <1>2, <2>1, EntryFacts, ContentFacts, Zenon DEF Contents
<1>3. CASE e[p][1] # "at"
  <2>1. e[p] \in Entries /\ View(d, e)[p] = e[p]
    BY <1>1, <1>3, Zenon
  <2> QED
    BY <1>3, <2>1, EntryCases, EntryFacts, Zenon DEF Contents
<1> QED
  BY <1>2, <1>3, Zenon

\* Backing files that no entry names may change.
LEMMA SameView ==
  ASSUME NEW d, NEW f, NEW e \in [Paths -> Entries], Backed(d, e),
         \A b \in referenced(e) : f[b] = d[b]
  PROVE  View(f, e) = View(d, e) /\ Backed(f, e)
<1>1. ASSUME NEW p \in Paths, e[p][1] = "at" PROVE f[e[p][2]] = d[e[p][2]]
  <2>1. PICK b \in Backings : e[p] = At(b)
    BY <1>1, EntryCases, EntryFacts, Zenon DEF Contents
  <2>2. b \in referenced(e)
    BY <2>1, Zenon DEF referenced
  <2>3. e[p][2] = b
    BY <2>1, EntryFacts, Zenon
  <2> QED
    BY <2>2, <2>3, Zenon
<1>2. \A p \in Paths : (IF e[p][1] = "at" THEN f[e[p][2]] ELSE e[p]) =
                       (IF e[p][1] = "at" THEN d[e[p][2]] ELSE e[p])
  BY <1>1, Zenon
<1> QED
  BY <1>1, <1>2, Zenon DEF View, Backed

DataSet == [Backings -> Files \cup {Absent, Empty}]

LEMMA PrunedKeeps ==
  ASSUME data \in DataSet, NEW e, NEW f \in Pruned(e)
  PROVE  f \in DataSet /\ \A b \in referenced(e) : f[b] = data[b]
<1>1. PICK gone : /\ f = [b \in Backings |-> IF b \in gone THEN Absent ELSE data[b]]
                  /\ gone \cap referenced(e) = {}
  BY Zenon DEF Pruned
<1>2. referenced(e) \subseteq Backings
  BY Zenon DEF referenced
<1> QED
  BY <1>1, <1>2, Zenon DEF DataSet

LEMMA InterruptedKeeps ==
  ASSUME data \in DataSet, NEW t, NEW f \in Interrupted(t)
  PROVE  f \in DataSet /\ \A b \in Backings : data[b] # Absent => f[b] = data[b]
<1>1. CASE f = data
  BY <1>1, Zenon
<1>2. CASE unused # {} /\ f = [data EXCEPT ![newBackingName] = Empty]
  <2>1. newBackingName \in unused
    BY <1>2, Zenon DEF newBackingName
  <2>2. newBackingName \in Backings /\ data[newBackingName] = Absent
    BY <2>1, Zenon DEF unused
  <2> QED
    BY <1>2, <2>2, Zenon DEF DataSet
<1> QED
  BY <1>1, <1>2, Zenon DEF Interrupted

LEMMA EmptySnapshot ==
  /\ Nothing \in [Paths -> Contents] /\ Nothing \in [Paths -> Entries]
  /\ \A p \in Paths : Nothing[p] = Absent
  /\ \A d : View(d, Nothing) = Nothing /\ Backed(d, Nothing)
<1>1. /\ Nothing \in [Paths -> Contents] /\ Nothing \in [Paths -> Entries]
      /\ \A p \in Paths : Nothing[p] = Absent
  BY Zenon DEF Nothing, Contents, Entries
<1>2. \A p \in Paths : Nothing[p][1] # "at"
  BY <1>1, EntryFacts, Zenon
<1>3. ASSUME NEW d PROVE View(d, Nothing) = Nothing /\ Backed(d, Nothing)
  <2>1. \A p \in Paths : (IF Nothing[p][1] = "at" THEN d[Nothing[p][2]] ELSE Nothing[p]) =
                         Absent
    BY <1>1, <1>2, Zenon
  <2>2. View(d, Nothing) = [p \in Paths |-> Absent]
    BY <2>1, Zenon DEF View
  <2> QED
    BY <1>2, <2>2, Zenon DEF Nothing, Backed
<1> QED
  BY <1>1, <1>3, Zenon

\* Rows of IndexedDB have no backing files.
LEMMA ContentView ==
  ASSUME NEW d, NEW e \in [Paths -> Contents]
  PROVE  View(d, e) = e /\ Backed(d, e) /\ e \in [Paths -> Entries]
<1>1. \A p \in Paths : e[p][1] # "at" /\ e[p] \in Entries
  BY ContentFacts, Zenon
<1>2. \A p \in Paths : (IF e[p][1] = "at" THEN d[e[p][2]] ELSE e[p]) = e[p]
  BY <1>1, Zenon
<1>3. View(d, e) = [p \in Paths |-> e[p]]
  BY <1>2, Zenon DEF View
<1> QED
  BY <1>1, <1>3, Zenon DEF Backed

\* Dropping the volatile files.
LEMMA PersistentFacts ==
  ASSUME NEW d, NEW e \in [Paths -> Entries]
  PROVE  /\ Persistent(e) \in [Paths -> Entries]
         /\ \A p \in Kept : Persistent(e)[p] = e[p]
         /\ \A p \in Volatile : Persistent(e)[p] = Absent
         /\ View(d, Persistent(e)) = Persistent(View(d, e))
         /\ Persistent(Persistent(View(d, e))) = Persistent(View(d, e))
         /\ referenced(Persistent(e)) \subseteq referenced(e)
         /\ Backed(d, e) => Backed(d, Persistent(e))
         /\ Valid(View(d, e)) => Valid(View(d, Persistent(e)))
<1> DEFINE g == Persistent(e)
<1>1. /\ g \in [Paths -> Entries] /\ \A p \in Kept : g[p] = e[p]
      /\ \A p \in Volatile : g[p] = Absent
  BY StorageAssumption, Zenon DEF Persistent, Kept, Entries
<1>2. ASSUME NEW p \in Paths
      PROVE  (IF g[p][1] = "at" THEN d[g[p][2]] ELSE g[p]) =
             (IF p \in Volatile THEN Absent ELSE View(d, e)[p])
  <2>1. CASE p \in Volatile
    BY <1>1, <2>1, EntryFacts, Zenon
  <2>2. CASE p \notin Volatile
    BY <1>1, <2>2, Zenon DEF View, Kept
  <2> QED
    BY <2>1, <2>2, Zenon
<1>3. View(d, g) = Persistent(View(d, e))
  BY <1>2, Zenon DEF View, Persistent
<1>4. Persistent(Persistent(View(d, e))) = Persistent(View(d, e))
  BY Zenon DEF Persistent
<1>5. \A b : (\E p \in Paths : g[p] = At(b)) => \E p \in Paths : e[p] = At(b)
  <2>1. \A p \in Paths : g[p] = Absent \/ g[p] = e[p]
    BY <1>1, Zenon DEF Kept
  <2>2. \A b : At(b) # Absent
    BY EntryFacts, Zenon
  <2> QED
    BY <2>1, <2>2, Zenon
<1>6. Backed(d, e) => Backed(d, g)
  <2>1. \A p \in Paths : g[p] = Absent \/ g[p] = e[p]
    BY <1>1, Zenon DEF Kept
  <2>2. \A p \in Paths : g[p][1] = "at" => g[p] = e[p]
    BY <2>1, EntryFacts, Zenon
  <2> QED
    BY <2>2, Zenon DEF Backed
<1>7. ASSUME Valid(View(d, e)) PROVE Valid(View(d, g))
  <2> DEFINE v == View(d, e)
             w == Persistent(v)
  <2>1. \A p \in Paths : w[p] = IF p \in Volatile THEN Absent ELSE v[p]
    BY Zenon DEF Persistent
  <2>2. \A p \in Paths : Ancestors[p] \subseteq Paths
    BY StorageAssumption, Zenon
  <2>3. Related(w)
    BY <1>7, <2>1, <2>2, WithinFacts, Zenon DEF Valid, Related
  <2>4. \A p \in Essential : w[p] \in Files
    BY <1>7, <2>1, WithinFacts, Zenon DEF Valid, Kept
  <2> QED
    BY <1>3, <2>3, <2>4, Zenon DEF Valid
<1> QED
  BY <1>1, <1>3, <1>4, <1>5, <1>6, <1>7, Zenon DEF referenced

-----------------------------------------------------------------------------
(* What a step leaves alone *)

\* The disk, as the invariant needs it: the entries and what they give.
LEMMA DurableIs ==
  /\ Durable = IF phase = "ready" THEN Persistent(View(data, stored)) ELSE Nothing
  /\ Durable' = IF phase' = "ready" THEN Persistent(View(data', stored')) ELSE Nothing
BY Zenon DEF Durable, Read, View

LEMMA IdleType == Idle.pc = "idle" /\ Idle \in TabSet
<1>1. Idle.pc = "idle"
  BY DEF Idle
<1>2. Nothing \in [Paths -> Contents] /\ Nothing \in [Paths -> Entries]
  BY EmptySnapshot, Zenon
<1>3. Nothing \in [Paths -> Contents \cup {Empty}]
  BY <1>2, Zenon
<1>4. [p \in Paths |-> "absent"] \in [Paths -> {"absent", "dir", "file"}]
  OBVIOUS
<1> QED
  BY <1>1, <1>2, <1>3, <1>4 DEF Idle, TabSet, Steps, Boundaries, None

\* A tab that is not open satisfies its part of the invariant on any disk.
LEMMA IdleTab ==
  ASSUME NEW t, tab'[t] = Idle
  PROVE  TabInv(tab[t])'
<1>1. tab'[t].pc = "idle"
  BY IdleType, Zenon
<1>2. "idle" \notin Leased \cup Applying
  BY DEF Leased, Applying
<1>3. (OpenInv(tab[t]))'
  BY <1>1 DEF OpenInv
<1>4. (ApplyInv(tab[t]))'
  BY <1>1 DEF ApplyInv
<1> QED
  BY <1>1, <1>2, <1>3, <1>4, Zenon DEF TabInv, LeaseInv, MemoryInv, PromiseInv

Phases == {"absent", "empty", "initializing", "ready"}
Reports == {None, "busy", "corrupt", "failed", "closed", "died", "ok",
            "unchanged", "not-persisted", "persisted", "unknown"}
\* The types of all but the lock and the tabs.
RestType ==
  /\ kind \in Kinds /\ ops \in 0..MaxOps /\ phase \in Phases
  /\ stored \in [Paths -> Entries] /\ data \in DataSet /\ report \in Reports

LEMMA Types == (TypeOK <=> RestType /\ lock \in Tabs \cup {None} /\ tab \in [Tabs -> TabSet])
BY Zenon DEF TypeOK, RestType, Phases, Reports, DataSet

Alone(t) == \A u \in Tabs \ {t} : tab[u] = Idle

\* A tab that is at work holds the lock, and the others are idle.
LEMMA Holder ==
  ASSUME StorageInv, NEW t \in Tabs, tab[t].pc # "idle" \/ lock = None
  PROVE  /\ Alone(t) /\ RestType /\ tab[t] \in TabSet /\ TabInv(tab[t]) /\ DiskInv
         /\ StoredIsPromised
         /\ tab[t].pc # "idle" => lock = t
<1>1. None \notin Tabs
  BY StorageAssumption, Zenon DEF None
<1>2. \A u \in Tabs \ {t} : lock # u
  BY <1>1, Zenon DEF StorageInv, LockCoversUse
<1>3. Alone(t)
  BY <1>2, Zenon DEF StorageInv, LockCoversUse, Alone, TabInv, OpenInv
<1> QED
  BY <1>3, Types, Zenon DEF StorageInv, LockCoversUse

\* What a step of one tab has to establish.
LEMMA Combine ==
  ASSUME StorageInv, NEW t \in Tabs, Alone(t), NEW y \in TabSet, tab' = [tab EXCEPT ![t] = y],
         lock' = IF y.pc = "idle" THEN None ELSE t,
         RestType', DiskInv', StoredIsPromised', TabInv(tab[t])'
  PROVE  StorageInv'
<1>1. tab \in [Tabs -> TabSet] /\ None \notin Tabs
  BY Types, StorageAssumption, Zenon DEF StorageInv, None
<1>2. tab' \in [Tabs -> TabSet] /\ tab'[t] = y /\ \A u \in Tabs \ {t} : tab'[u] = Idle
  BY <1>1, Zenon DEF Alone
<1>3. lock' \in Tabs \cup {None}
  BY Zenon
<1>4. TypeOK'
  BY <1>2, <1>3, Zenon DEF TypeOK, RestType, Phases, Reports, DataSet
<1>5. LockCoversUse'
  BY <1>1, <1>2, IdleType, Zenon DEF LockCoversUse
<1>6. \A u \in Tabs : TabInv(tab[u])'
  BY <1>2, IdleTab, Zenon
<1> QED
  BY <1>4, <1>5, <1>6, Zenon DEF StorageInv

\* What the users were told stays true.
LEMMA PromiseStays ==
  ASSUME StoredIsPromised, Durable' = Durable, promised \subseteq promised'
  PROVE  StoredIsPromised'
BY Zenon DEF StoredIsPromised

LEMMA PromiseExact ==
  ASSUME NEW s, s.snap = Durable', s \in promised'
  PROVE  StoredIsPromised'
BY Zenon DEF StoredIsPromised

LEMMA TargetIs ==
  ASSUME NEW x
  PROVE  /\ Target(x).snap = Persistent(x.guest) /\ Target(x).exact = ~x.unsure
         /\ \A p \in Kept : p \in Paths /\ Persistent(x.guest)[p] = x.guest[p]
         /\ \A p \in Paths \ Kept : Persistent(x.guest)[p] = Absent
<1>1. Target(x).snap = Persistent(x.guest) /\ Target(x).exact = ~x.unsure
  BY DEF Target
<1> QED
  BY <1>1, Zenon DEF Persistent, Kept

\* What is stored is what the guest has.
LEMMA PromiseMatches ==
  ASSUME NEW x, x.unsure \in BOOLEAN, Target(x) \in promised', phase' = "ready",
         Matches(x, View(data', stored'))
  PROVE  StoredIsPromised' /\ \A p \in Kept : x.guest[p] # Absent => Durable'[p] = x.guest[p]
<1> DEFINE v == View(data', stored')
<1>1. Durable' = Persistent(v)
  BY DurableIs, Zenon
<1>2. \A p \in Paths : Persistent(v)[p] = IF p \in Kept THEN v[p] ELSE Absent
  BY Zenon DEF Persistent, Kept
<1>3. \A p \in Kept : p \in Paths
  BY Zenon DEF Kept
<1>4. \A p \in Kept : x.guest[p] # Absent => Durable'[p] = x.guest[p]
  BY <1>1, <1>2, <1>3, Zenon DEF Matches
<1>5. \A p \in Kept : Target(x).snap[p] # Absent => Durable'[p] = Target(x).snap[p]
  BY <1>4, TargetIs, Zenon
<1>6. ASSUME Target(x).exact PROVE Durable' = Target(x).snap
  <2>1. ~x.unsure
    BY <1>6, TargetIs, Zenon
  <2>2. \A p \in Paths : (IF p \in Volatile THEN Absent ELSE v[p]) =
                         (IF p \in Volatile THEN Absent ELSE x.guest[p])
    BY <2>1, Zenon DEF Matches, Kept
  <2>3. Persistent(v) = Persistent(x.guest)
    BY <2>2, Zenon DEF Persistent
  <2> QED
    BY <1>1, <2>3, TargetIs, Zenon
<1> QED
  BY <1>4, <1>5, <1>6, Zenon DEF StoredIsPromised

LEMMA SameDisk ==
  ASSUME DiskInv, kind' = kind, phase' = phase, stored' = stored, data' = data
  PROVE  DiskInv' /\ Durable' = Durable
<1>1. DiskInv'
  BY Zenon DEF DiskInv
<1> QED
  BY <1>1, DurableIs, Zenon

\* Backing files that the published entries do not name may change.
LEMMA OtherData ==
  ASSUME DiskInv, stored \in [Paths -> Entries], kind' = kind, phase' = phase,
         stored' = stored,
         phase = "ready" => \A b \in referenced(stored) : data'[b] = data[b]
  PROVE  DiskInv' /\ Durable' = Durable
<1>1. phase = "ready" => View(data', stored) = View(data, stored) /\ Backed(data', stored)
  BY SameView, Zenon DEF DiskInv
<1>2. DiskInv'
  BY <1>1, Zenon DEF DiskInv
<1>3. CASE phase = "ready"
  <2>1. View(data', stored') = View(data, stored) /\ phase' = "ready"
    BY <1>1, <1>3, Zenon
  <2> QED
    BY <1>2, <1>3, <2>1, DurableIs, Zenon
<1>4. CASE phase # "ready"
  BY <1>2, <1>4, DurableIs, Zenon
<1> QED
  BY <1>3, <1>4, Zenon

\* A backing file that backs an entry is not unused.
LEMMA BackedIsUsed ==
  ASSUME NEW e \in [Paths -> Entries], NEW d, Backed(d, e)
  PROVE  \A b \in referenced(e) : b \in Backings /\ d[b] \in Files /\ d[b] # Absent
<1> SUFFICES ASSUME NEW b \in referenced(e)
             PROVE  b \in Backings /\ d[b] \in Files /\ d[b] # Absent
  OBVIOUS
<1>1. PICK p \in Paths : e[p] = At(b)
  BY Zenon DEF referenced
<1>2. d[b] \in Files
  BY <1>1, EntryFacts, Zenon DEF Backed
<1> QED
  BY <1>2, ContentFacts, Zenon DEF referenced

LEMMA InterruptedDisk ==
  ASSUME DiskInv, RestType, NEW t, data' \in Interrupted(t), kind' = kind, phase' = phase,
         stored' = stored
  PROVE  DiskInv' /\ Durable' = Durable /\ data' \in DataSet
<1>1. data' \in DataSet /\ \A b \in Backings : data[b] # Absent => data'[b] = data[b]
  BY InterruptedKeeps, Zenon DEF RestType
<1>2. phase = "ready" => \A b \in referenced(stored) : data'[b] = data[b]
  BY <1>1, BackedIsUsed, Zenon DEF DiskInv, RestType
<1> QED
  BY <1>1, <1>2, OtherData, Zenon DEF RestType

\* A tab that goes.
LEMMA LeaveStep ==
  ASSUME StorageInv, NEW t \in Tabs, tab[t].pc # "idle", NEW r \in Reports, Leave(t, r),
         kind' = kind, ops' \in 0..MaxOps, phase' \in Phases, stored' \in [Paths -> Entries],
         data' \in DataSet, DiskInv', StoredIsPromised'
  PROVE  StorageInv'
<1>1. Alone(t) /\ tab \in [Tabs -> TabSet] /\ kind \in Kinds
  BY Holder, Types, Zenon DEF StorageInv, RestType
<1>2. tab' = [tab EXCEPT ![t] = Idle] /\ report' = r /\ lock' = None
  BY Zenon DEF Leave
<1>3. TabInv(tab[t])'
  BY <1>1, <1>2, IdleTab, Zenon
<1>4. RestType'
  BY <1>1, <1>2, Zenon DEF RestType
<1> QED
  BY <1>1, <1>2, <1>3, <1>4, IdleType, Combine, Zenon

-----------------------------------------------------------------------------
(* A session that does not publish *)

SameLease(x, y) ==
  /\ y.guest = x.guest /\ y.journal = x.journal /\ y.persistedEntries = x.persistedEntries
  /\ y.hasStoredGeneration = x.hasStoredGeneration
  /\ y.initializationPending = x.initializationPending /\ y.unsure = x.unsure

LEMMA SameDelta ==
  ASSUME NEW x, NEW y, SameLease(x, y)
  PROVE  /\ scope(y) = scope(x) /\ upserts(y) = upserts(x) /\ deleted(y) = deleted(x)
         /\ Target(y) = Target(x)
<1>1. scope(y) = scope(x)
  BY Zenon DEF SameLease, scope
<1> QED
  BY <1>1, Zenon DEF SameLease, upserts, deleted, Target

LEMMA LeasedTab ==
  ASSUME NEW t, tab'[t].pc \in Leased, LeaseInv(tab[t])', MemoryInv(tab[t])'
  PROVE  TabInv(tab[t])'
<1>1. tab'[t].pc \notin {"idle", "locked", "seed", "seedCommit", "inspect", "write", "commit",
                         "prune"} /\ tab'[t].pc \notin Applying
  BY DEF Leased, Applying
<1> QED
  BY <1>1, Zenon DEF TabInv, OpenInv, ApplyInv, PromiseInv

\* The session moves on.
LEMMA LeasedTurn ==
  ASSUME StorageInv, NEW t \in Tabs, tab[t].pc \in Leased, NEW y \in TabSet,
         tab' = [tab EXCEPT ![t] = y], y.pc \in Leased, SameLease(tab[t], y), y.at = None,
         y.pc = "startup" \/ ~y.initializationPending, UNCHANGED <<kind, lock, disk, ops>>,
         promised' = promised, report' \in Reports
  PROVE  StorageInv'
<1> DEFINE x == tab[t]
<1>0. x.pc # "idle" /\ y.pc # "idle" /\ x.pc \notin Applying /\ y.pc \notin Applying
      /\ y.pc # "prune" /\ y.pc # "commit" /\ x.pc # "prune" /\ x.pc # "commit"
      /\ x.pc # "transact" /\ y.pc # "transact"
  BY DEF Leased, Applying
<1>1. /\ Alone(t) /\ RestType /\ x \in TabSet /\ LeaseInv(x) /\ MemoryInv(x) /\ DiskInv
      /\ StoredIsPromised /\ lock = t
  BY <1>0, Holder, Zenon DEF TabInv
<1>2. tab'[t] = y
  BY Zenon DEF StorageInv, TypeOK
<1>3. DiskInv' /\ Durable' = Durable /\ RestType'
  BY <1>1, SameDisk, Zenon DEF disk, RestType
<1>4. StoredIsPromised'
  BY <1>1, <1>3, PromiseStays, Zenon
<1>5. LeaseInv(tab[t])'
  BY <1>0, <1>1, <1>2, Zenon DEF LeaseInv, SameLease, disk
<1>6. scope(tab'[t]) = scope(x) /\ SameLease(x, tab'[t])
  BY <1>2, SameDelta, Zenon
<1>7. MemoryInv(tab[t])'
  <2>1. stored' = stored /\ data' = data
    BY Zenon DEF disk
  <2> QED
    BY <1>0, <1>1, <1>2, <1>6, <2>1, ZenonT(40) DEF MemoryInv, SameLease
<1> QED
  BY <1>0, <1>1, <1>2, <1>3, <1>4, <1>5, <1>7, LeasedTab, Combine, Zenon

LEMMA SetPc ==
  ASSUME NEW x \in TabSet, NEW v \in Steps, NEW y, y = [x EXCEPT !.pc = v]
  PROVE  /\ y \in TabSet /\ y.pc = v /\ SameLease(x, y) /\ y.at = x.at
         /\ y.entries = x.entries /\ y.files = x.files /\ y.base = x.base
BY DEF TabSet, SameLease

LEMMA SetFailed ==
  ASSUME NEW x \in TabSet, NEW y, y = [x EXCEPT !.pc = "open", !.failed = TRUE]
  PROVE  y \in TabSet /\ y.pc = "open" /\ SameLease(x, y) /\ y.at = x.at
BY Zenon DEF TabSet, SameLease, Steps

\* A lease that is not in a boundary: open, serve and their failures.
LEMMA SessionTurns ==
  ASSUME StorageInv, NEW t \in Tabs,
         \/ Serve(t) \/ ExecFails(t)
         \/ tab[t].pc = "serving" /\ Goto(t, "cleanup")
            /\ UNCHANGED <<kind, lock, disk, ops, promised>>
         \/ tab[t].pc = "startup" /\ ~tab[t].initializationPending /\ Goto(t, "open")
            /\ UNCHANGED <<kind, lock, disk, ops, promised>>
  PROVE  StorageInv'
<1> DEFINE x == tab[t]
<1>1. x.pc \in {"startup", "open", "serving", "cleanup"}
  BY Zenon DEF Serve, ExecFails
<1>2. x.pc \in Leased /\ x.pc # "idle" /\ {"open", "serving", "cleanup"} \subseteq Steps
  BY <1>1 DEF Leased, Steps
<1>3. x \in TabSet /\ LeaseInv(x)
  BY <1>2, Holder, Zenon DEF TabInv
<1>4. x.at = None /\ (x.pc # "startup" => ~x.initializationPending)
  BY <1>2, <1>3, Zenon DEF LeaseInv
<1>5. /\ UNCHANGED <<kind, lock, disk, ops>> /\ promised' = promised
      /\ ~x.initializationPending
  BY <1>4, Zenon DEF Serve, ExecFails
<1>6. \/ \E v \in {"open", "serving", "cleanup"} : Goto(t, v)
      \/ Become(t, [x EXCEPT !.pc = "open", !.failed = TRUE])
  BY Zenon DEF Serve, ExecFails
<1>7. None \in Reports /\ {"open", "serving", "cleanup"} \subseteq Leased \ {"startup"}
  BY DEF Reports, Leased
<1>8. PICK y \in TabSet : /\ tab' = [tab EXCEPT ![t] = y] /\ y.pc \in Leased \ {"startup"}
                          /\ SameLease(x, y) /\ y.at = x.at /\ report' = None
  <2>1. CASE \E v \in {"open", "serving", "cleanup"} : Goto(t, v)
    <3>1. PICK v \in {"open", "serving", "cleanup"} : Goto(t, v)
      BY <2>1, Zenon
    <3> DEFINE z == [x EXCEPT !.pc = v]
    <3>0. v \in Steps
      BY <1>2, <3>1, Zenon
    <3>2. z \in TabSet /\ z.pc = v /\ SameLease(x, z) /\ z.at = x.at
      BY <1>3, <3>0, SetPc
    <3>3. tab' = [tab EXCEPT ![t] = z] /\ report' = None
      BY <3>1, Zenon DEF Goto, Become
    <3> HIDE DEF z
    <3> QED
      BY <1>7, <3>2, <3>3, Zenon
  <2>2. CASE Become(t, [x EXCEPT !.pc = "open", !.failed = TRUE])
    <3> DEFINE z == [x EXCEPT !.pc = "open", !.failed = TRUE]
    <3>1. z \in TabSet /\ z.pc = "open" /\ SameLease(x, z) /\ z.at = x.at
      BY <1>3, SetFailed, Zenon
    <3>2. tab' = [tab EXCEPT ![t] = z] /\ report' = None
      BY <2>2, Zenon DEF Become
    <3> HIDE DEF z
    <3> QED
      BY <1>7, <3>1, <3>2, Zenon
  <2> QED
    BY <1>6, <2>1, <2>2, Zenon
<1>9. ~y.initializationPending
  BY <1>5, <1>8, Zenon DEF SameLease
<1> QED
  BY <1>2, <1>4, <1>5, <1>7, <1>8, <1>9, LeasedTurn, Zenon

\* The guest changes its files and journals the path.
LEMMA TouchStep ==
  ASSUME StorageInv, NEW t \in Tabs, NEW p \in Paths, GuestRuns(t),
         NEW g \in [Paths -> Contents], Valid(g),
         \A q \in Paths : ~Within(q, p) => g[q] = tab[t].guest[q], Touch(t, p, g)
  PROVE  StorageInv'
<1> DEFINE x == tab[t]
           y == [x EXCEPT !.guest = g, !.journal = x.journal \cup {p}]
<1>0. x.pc \in Leased /\ x.pc # "idle" /\ x.pc # "prune" /\ x.pc # "transact"
  BY DEF GuestRuns, Leased
<1>1. /\ Alone(t) /\ RestType /\ x \in TabSet /\ LeaseInv(x) /\ MemoryInv(x) /\ DiskInv
      /\ StoredIsPromised /\ lock = t
  BY <1>0, Holder, Zenon DEF TabInv
<1>2. /\ y \in TabSet /\ y.guest = g /\ y.journal = x.journal \cup {p} /\ y.pc = x.pc
      /\ y.at = x.at /\ y.persistedEntries = x.persistedEntries
      /\ y.hasStoredGeneration = x.hasStoredGeneration
      /\ y.initializationPending = x.initializationPending /\ y.unsure = x.unsure
  BY <1>1, Zenon DEF TabSet
<1>3. /\ tab' = [tab EXCEPT ![t] = y] /\ report' = None /\ ops' = ops + 1
      /\ UNCHANGED <<kind, lock, phase, stored, data, promised>>
  BY Zenon DEF Touch, Become, disk
<1> HIDE DEF y
<1>4. tab'[t] = y
  BY <1>3, Zenon DEF StorageInv, TypeOK
<1>5. ops' \in 0..MaxOps
  BY <1>1, <1>3, StorageAssumption DEF RestType, GuestRuns
<1>6. DiskInv' /\ Durable' = Durable /\ RestType'
  BY <1>1, <1>3, <1>5, SameDisk, Zenon DEF RestType, Reports
<1>7. StoredIsPromised'
  BY <1>1, <1>3, <1>6, PromiseStays, Zenon
<1>8. LeaseInv(tab[t])'
  BY <1>0, <1>1, <1>2, <1>3, <1>4, Zenon DEF LeaseInv
<1>9. \A q \in Kept \ scope(y) : q \in Kept \ scope(x) /\ g[q] = x.guest[q]
  BY <1>2, Zenon DEF scope, Kept
<1>10. MemoryInv(tab[t])'
  <2>1. \A q \in Kept \ scope(y) : y.guest[q] # Absent \/ ~y.unsure =>
          View(data, stored)[q] = y.guest[q]
    BY <1>0, <1>1, <1>2, <1>9, Zenon DEF MemoryInv
  <2>2. ~y.unsure => \A q \in Kept \ scope(y) : y.persistedEntries[q] = type(y.guest[q])
    BY <1>0, <1>1, <1>2, <1>9, Zenon DEF MemoryInv
  <2>3. /\ ~y.hasStoredGeneration =>
             ~y.unsure /\ \A q \in Paths : y.persistedEntries[q] = "absent"
        /\ ~y.unsure => \A q \in Kept : y.persistedEntries[q] = type(View(data, stored)[q])
    BY <1>0, <1>1, <1>2, Zenon DEF MemoryInv
  <2> QED
    BY <1>3, <1>4, <2>1, <2>2, <2>3, Zenon DEF MemoryInv
<1> QED
  BY <1>0, <1>1, <1>2, <1>3, <1>4, <1>6, <1>7, <1>8, <1>10, LeasedTab, Combine, Zenon

LEMMA GuestSteps ==
  ASSUME StorageInv, NEW t \in Tabs, NEW p \in Paths,
         \/ GuestWrite(t, p)
         \/ p \in Folders /\ GuestMakeDir(t, p)
         \/ p \notin Essential /\ GuestRemove(t, p)
  PROVE  StorageInv'
<1> DEFINE x == tab[t]
<1>0. GuestRuns(t) /\ x.pc \in Leased /\ x.pc # "idle"
  BY DEF GuestWrite, GuestMakeDir, GuestRemove, GuestRuns, Leased
<1>1. x \in TabSet /\ LeaseInv(x) /\ RestType
  BY <1>0, Holder, Zenon DEF TabInv
<1>2. Valid(x.guest) /\ x.guest \in [Paths -> Contents]
  BY <1>0, <1>1 DEF LeaseInv, TabSet
<1>3. \A q \in Paths : Ancestors[q] \subseteq Paths /\ q \notin Ancestors[q]
  BY StorageAssumption, Zenon
<1>4. File(ops + 1) \in Files
  <2>1. ops + 1 \in 0..MaxOps
    BY <1>0, <1>1, StorageAssumption DEF RestType, GuestRuns
  <2> QED
    BY <2>1, ContentFacts, Zenon
<1>5. ASSUME NEW v \in Contents \ {Absent}, Mounted(t, p), x.guest[p] # Dir,
             p \in Essential => v \in Files,
             Touch(t, p, [x.guest EXCEPT ![p] = v])
      PROVE  StorageInv'
  <2> DEFINE g == [x.guest EXCEPT ![p] = v]
  <2>1. g \in [Paths -> Contents] /\ g[p] = v /\ \A q \in Paths \ {p} : g[q] = x.guest[q]
    BY <1>2, Zenon
  <2>2. \A q \in Paths : p \in Ancestors[q] => x.guest[q] = Absent
    BY <1>2, <1>5, Zenon DEF Valid, Related
  <2> HIDE DEF g
  <2>3. Related(g)
    BY <1>2, <1>3, <1>5, <2>1, <2>2, Zenon DEF Valid, Related, Mounted
  <2>4. Valid(g)
    BY <1>2, <1>5, <2>1, <2>3, WithinFacts, Zenon DEF Valid, Kept
  <2>5. \A q \in Paths : ~Within(q, p) => g[q] = x.guest[q]
    BY <2>1, WithinFacts, Zenon
  <2> QED
    BY <1>0, <1>5, <2>1, <2>4, <2>5, TouchStep, Zenon DEF g
<1>6. CASE GuestWrite(t, p)
  <2>1. File(ops + 1) \in Contents \ {Absent}
    BY <1>4, ContentFacts, Zenon DEF Contents
  <2> QED
    BY <1>4, <1>5, <1>6, <2>1, Zenon DEF GuestWrite
<1>7. CASE p \in Folders /\ GuestMakeDir(t, p)
  <2>1. Dir \in Contents \ {Absent} /\ Absent # Dir
    BY ContentFacts, Zenon DEF Contents
  <2>2. p \notin Essential
    <3>1. PICK q \in Paths : p \in Ancestors[q]
      BY <1>7, Zenon DEF Folders
    <3> QED
      BY <3>1, WithinFacts, Zenon
  <2> QED
    BY <1>5, <1>7, <2>1, <2>2, Zenon DEF GuestMakeDir
<1>8. CASE p \notin Essential /\ GuestRemove(t, p)
  <2> DEFINE g == [q \in Paths |-> IF Within(q, p) THEN Absent ELSE x.guest[q]]
  <2>1. /\ g \in [Paths -> Contents]
        /\ \A q \in Paths : g[q] = IF Within(q, p) THEN Absent ELSE x.guest[q]
    BY <1>2, Zenon DEF Contents
  <2>2. Touch(t, p, g)
    BY <1>8, Zenon DEF GuestRemove
  <2> HIDE DEF g
  <2>3. ASSUME NEW q \in Paths, g[q] # Absent, NEW r \in Ancestors[q] PROVE g[r] = Dir
    <3>1. ~Within(q, p) /\ x.guest[q] # Absent /\ r \in Paths
      BY <1>3, <2>1, <2>3, Zenon
    <3>2. x.guest[r] = Dir
      BY <1>2, <2>3, <3>1, Zenon DEF Valid, Related
    <3>3. ~Within(r, p)
      BY <2>3, <3>1, WithinFacts, Zenon DEF Within
    <3> QED
      BY <2>1, <3>1, <3>2, <3>3, Zenon
  <2>4. Related(g)
    BY <2>3, Zenon DEF Related
  <2>5. \A q \in Essential : g[q] \in Files
    BY <1>2, <1>8, <2>1, WithinFacts, Zenon DEF Valid
  <2> QED
    BY <1>0, <2>1, <2>2, <2>4, <2>5, TouchStep, Zenon DEF Valid
<1> QED
  BY <1>6, <1>7, <1>8, Zenon

-----------------------------------------------------------------------------
(* Opening *)

LEMMA NothingHappens ==
  ASSUME StorageInv, UNCHANGED <<kind, lock, disk, tab, ops, promised>>, report' \in Reports
  PROVE  StorageInv'
<1>1. RestType /\ DiskInv /\ StoredIsPromised /\ LockCoversUse /\ \A t \in Tabs : TabInv(tab[t])
  BY Types, Zenon DEF StorageInv
<1>2. phase' = phase /\ stored' = stored /\ data' = data
  BY Zenon DEF disk
<1>3. DiskInv' /\ Durable' = Durable
  BY <1>1, <1>2, SameDisk, Zenon
<1>4. TypeOK' /\ LockCoversUse'
  BY <1>2, Zenon DEF StorageInv, TypeOK, LockCoversUse, Reports
<1>5. ASSUME NEW t \in Tabs PROVE TabInv(tab[t])'
  <2>1. OpenInv(tab[t])' /\ LeaseInv(tab[t])'
    BY <1>1, <1>2, Zenon DEF TabInv, OpenInv, LeaseInv
  <2>2. MemoryInv(tab[t])' /\ ApplyInv(tab[t])'
    BY <1>1, <1>2, ZenonT(40) DEF TabInv, MemoryInv, ApplyInv
  <2>3. PromiseInv(tab[t])'
    BY <1>1, <1>2, <1>3, Zenon DEF TabInv, PromiseInv
  <2> QED
    BY <2>1, <2>2, <2>3, Zenon DEF TabInv
<1> QED
  BY <1>1, <1>3, <1>4, <1>5, PromiseStays, Zenon DEF StorageInv

Opening == {"locked", "seed", "seedCommit", "inspect"}

\* A tab on its way to a lease.
LEMMA OpeningStep ==
  ASSUME StorageInv, NEW t \in Tabs, Alone(t), NEW y \in TabSet, Become(t, y),
         y.pc \in Opening, lock' = t, UNCHANGED <<kind, ops, promised>>, phase' \in Phases,
         stored' \in [Paths -> Entries], data' \in DataSet, DiskInv', Durable' = Durable,
         OpenInv(tab[t])'
  PROVE  StorageInv'
<1>1. tab' = [tab EXCEPT ![t] = y] /\ report' = None /\ y.pc # "idle" /\ None \in Reports
      /\ y.pc \notin Leased \cup Applying /\ y.pc \notin {"write", "commit", "prune"}
  BY DEF Become, Opening, Leased, Applying, Reports
<1>2. tab'[t] = y /\ RestType /\ StoredIsPromised
  BY <1>1, Types, Zenon DEF StorageInv, TypeOK
<1>3. TabInv(tab[t])'
  BY <1>1, <1>2, Zenon DEF TabInv, LeaseInv, MemoryInv, ApplyInv, PromiseInv
<1>4. RestType' /\ StoredIsPromised'
  BY <1>1, <1>2, PromiseStays, Zenon DEF RestType
<1> QED
  BY <1>1, <1>3, <1>4, Combine, Zenon

LEMMA AcquireStep ==
  ASSUME StorageInv, NEW t \in Tabs, Acquire(t)
  PROVE  StorageInv'
<1>1. CASE lock = None
  <2> DEFINE y == [Idle EXCEPT !.pc = "locked"]
  <2>1. Alone(t) /\ RestType /\ DiskInv /\ TabInv(tab[t])
    BY <1>1, Holder, Zenon
  <2>2. tab[t] = Idle
    BY <2>1, Zenon DEF Acquire, TabInv, OpenInv
  <2>3. y \in TabSet /\ y.pc = "locked"
    BY IdleType DEF TabSet, Steps
  <2>4. Become(t, y) /\ lock' = t /\ UNCHANGED <<kind, disk, ops, promised>>
    BY <1>1, <2>2, Zenon DEF Acquire, Goto
  <2> HIDE DEF y
  <2>5. tab'[t] = y
    BY <2>4, Zenon DEF Become, StorageInv, TypeOK
  <2>6. OpenInv(tab[t])'
    BY <2>3, <2>5 DEF OpenInv, y
  <2>7. DiskInv' /\ Durable' = Durable
    BY <2>1, <2>4, SameDisk, Zenon DEF disk
  <2> QED
    BY <2>1, <2>3, <2>4, <2>6, <2>7, OpeningStep, Zenon DEF Opening, RestType, disk
<1>2. CASE lock # None
  <2>1. UNCHANGED <<kind, lock, disk, tab, ops, promised>> /\ report' = "busy"
    BY <1>2, Zenon DEF Acquire
  <2> QED
    BY <2>1, NothingHappens, Zenon DEF Reports
<1> QED
  BY <1>1, <1>2, Zenon

\* Nothing is published before and after.
LEMMA Unpublished ==
  ASSUME phase # "ready", phase' # "ready"
  PROVE  Durable = Nothing /\ Durable' = Durable
BY DurableIs, Zenon

LEMMA OpenPoolStep ==
  ASSUME StorageInv, NEW t \in Tabs, NEW direct \in BOOLEAN, OpenPool(t, direct)
  PROVE  StorageInv'
<1> DEFINE x == tab[t]
           v == IF phase = "initializing" \/ (direct /\ phase = "absent")
                THEN "seed" ELSE "inspect"
           y == [x EXCEPT !.direct = direct, !.pc = v]
<1>1. x.pc = "locked" /\ kind = "opfs" /\ Become(t, y)
      /\ data' = (IF phase = "initializing" THEN [b \in Backings |-> Absent] ELSE data)
      /\ UNCHANGED <<kind, lock, phase, stored, ops, promised>>
  BY Zenon DEF OpenPool
<1>2. Alone(t) /\ RestType /\ DiskInv /\ TabInv(x) /\ lock = t /\ x \in TabSet
  BY <1>1, Holder, Zenon
<1>3. x.entries = Nothing
  <2>1. x = [Idle EXCEPT !.pc = "locked"]
    BY <1>1, <1>2, Zenon DEF TabInv, OpenInv
  <2> QED
    BY <2>1 DEF Idle
<1>4. v \in {"seed", "inspect"} /\ v \in Steps /\ v \in Opening
  BY DEF Steps, Opening
<1>5. v = "seed" => phase \in {"absent", "initializing"}
  BY DEF v
<1> HIDE DEF v
<1>6. y \in TabSet /\ y.pc = v /\ y.entries = x.entries
  BY <1>2, <1>4, Zenon DEF TabSet
<1> HIDE DEF y
<1>7. tab'[t] = y
  BY <1>1, Zenon DEF Become, StorageInv, TypeOK
<1>8. data' \in DataSet
  BY <1>1, <1>2, Zenon DEF RestType, DataSet
<1>9. phase = "ready" => data' = data
  BY <1>1, Zenon
<1>10. DiskInv' /\ Durable' = Durable
  BY <1>1, <1>2, <1>9, OtherData, Zenon DEF RestType
<1>11. OpenInv(tab[t])'
  <2>1. Backed(data', y.entries) /\ \A p \in Paths : y.entries[p] = Absent
    BY <1>3, <1>6, EmptySnapshot, Zenon
  <2>2. y.pc \notin {"idle", "locked", "seedCommit"}
    BY <1>4, <1>6
  <2>3. y.pc = "seed" => phase' \in {"absent", "initializing"} /\ phase' # "empty"
    BY <1>1, <1>5, <1>6
  <2> QED
    BY <1>1, <1>7, <2>1, <2>2, <2>3, Zenon DEF OpenInv
<1> QED
  BY <1>1, <1>2, <1>4, <1>6, <1>8, <1>10, <1>11, OpeningStep, Zenon DEF RestType

\* A new backing file is not one that is named.
LEMMA NewBacking ==
  ASSUME data \in DataSet, unused # {}, NEW v \in Files,
         data' = [data EXCEPT ![newBackingName] = v]
  PROVE  /\ newBackingName \in Backings /\ data[newBackingName] = Absent
         /\ data' \in DataSet /\ data'[newBackingName] = v
         /\ \A b \in Backings : data[b] # Absent => data'[b] = data[b]
<1>1. newBackingName \in unused
  BY Zenon DEF newBackingName
<1>2. newBackingName \in Backings /\ data[newBackingName] = Absent
  BY <1>1, Zenon DEF unused
<1> QED
  BY <1>2, Zenon DEF DataSet

LEMMA NewBackingDisk ==
  ASSUME DiskInv, RestType, unused # {}, NEW v \in Files,
         data' = [data EXCEPT ![newBackingName] = v], kind' = kind, phase' = phase,
         stored' = stored
  PROVE  DiskInv' /\ Durable' = Durable /\ data' \in DataSet
<1> DEFINE d == data'
<1>1. d \in DataSet /\ \A b \in Backings : data[b] # Absent => d[b] = data[b]
  BY NewBacking, Zenon DEF RestType
<1> HIDE DEF d
<1>2. ASSUME phase = "ready", NEW b \in referenced(stored) PROVE d[b] = data[b]
  <2>1. b \in Backings /\ data[b] # Absent
    BY <1>2, BackedIsUsed, Zenon DEF DiskInv, RestType
  <2> QED
    BY <1>1, <2>1, Zenon
<1> QED
  BY <1>1, <1>2, OtherData, Zenon DEF RestType, d

\* A path gets the new backing file, with its contents.
Named(e, p) == [e EXCEPT ![p] = At(newBackingName)]
Filled(v) == data' = [data EXCEPT ![newBackingName] = v]

LEMMA NewEntry ==
  ASSUME data \in DataSet, unused # {}, NEW v \in Files,
         Filled(v),
         NEW e \in [Paths -> Entries], Backed(data, e), NEW p \in Paths,
         NEW g, g = Named(e, p)
  PROVE  /\ g \in [Paths -> Entries] /\ Backed(data', g) /\ g[p] = At(newBackingName)
         /\ \A q \in Paths \ {p} : g[q] = e[q] /\ View(data', g)[q] = View(data, e)[q]
         /\ View(data', g)[p] = v
<1> DEFINE n == newBackingName
<1>1. /\ n \in Backings /\ data[n] = Absent /\ data'[n] = v
      /\ \A b \in Backings : data[b] # Absent => data'[b] = data[b]
  BY NewBacking, Zenon DEF Filled
<1>2. g \in [Paths -> Entries] /\ g[p] = At(n) /\ \A q \in Paths \ {p} : g[q] = e[q]
  <2>1. At(n) \in Entries
    BY <1>1, Zenon DEF Entries
  <2> QED
    BY <2>1, Zenon DEF Named
<1>3. \A b \in referenced(e) : b \in Backings /\ data[b] # Absent /\ data'[b] = data[b]
  BY <1>1, BackedIsUsed, Zenon
<1>4. View(data', e) = View(data, e) /\ Backed(data', e)
  BY <1>3, SameView, Zenon
<1>5. \A q \in Paths : e[q] # At(n)
  BY <1>1, <1>3, Zenon DEF referenced
<1>6. g[p][1] = "at" /\ g[p][2] = n
  BY <1>2, EntryFacts, Zenon
<1>7. View(data', g)[p] = v /\ \A q \in Paths \ {p} : View(data', g)[q] = View(data', e)[q]
  <2>1. View(data', g)[p] = data'[g[p][2]]
    BY <1>6, Zenon DEF View
  <2>2. ASSUME NEW q \in Paths \ {p} PROVE View(data', g)[q] = View(data', e)[q]
    <3>1. g[q] = e[q] /\ q \in Paths
      BY <1>2, <2>2, Zenon
    <3>2. /\ View(data', g)[q] = IF g[q][1] = "at" THEN data'[g[q][2]] ELSE g[q]
          /\ View(data', e)[q] = IF e[q][1] = "at" THEN data'[e[q][2]] ELSE e[q]
      BY <3>1, Zenon DEF View
    <3> QED
      BY <3>1, <3>2
  <2> QED
    BY <1>1, <1>6, <2>1, <2>2, Zenon
<1>8. \A q \in Paths : g[q][1] = "at" => data'[g[q][2]] \in Files
  BY <1>1, <1>2, <1>4, <1>6, Zenon DEF Backed
<1>9. \A q, r \in Paths : g[q][1] = "at" /\ g[r] = g[q] => q = r
  BY <1>2, <1>4, <1>5, ZenonT(40) DEF Backed
<1> QED
  BY <1>2, <1>4, <1>7, <1>8, <1>9, Zenon DEF Backed

LEMMA SeedFileStep ==
  ASSUME StorageInv, NEW t \in Tabs, SeedFile(t)
  PROVE  StorageInv'
<1> DEFINE x == tab[t]
           n == newBackingName
<1>1. PICK p \in Essential :
        /\ x.pc = "seed" /\ unused # {} /\ Become(t, [x EXCEPT !.entries[p] = At(n)])
        /\ data' = [data EXCEPT ![n] = File(0)]
        /\ UNCHANGED <<kind, lock, phase, stored, ops, promised>>
  BY Zenon DEF SeedFile
<1>2. Alone(t) /\ RestType /\ DiskInv /\ OpenInv(x) /\ lock = t /\ x \in TabSet
  BY <1>1, Holder, Zenon DEF TabInv
<1> DEFINE e == [x.entries EXCEPT ![p] = At(n)]
           y == [x EXCEPT !.entries = e]
<1>3. File(0) \in Files /\ p \in Paths
  BY StorageAssumption DEF Files
<1>4. x.entries \in [Paths -> Entries]
  BY <1>2 DEF TabSet
<1>5. /\ kind = "opfs" /\ phase \in {"absent", "empty", "initializing"} /\ phase # "empty"
      /\ Backed(data, x.entries)
      /\ \A q \in Paths : x.entries[q] # Absent => q \in Essential /\ x.entries[q][1] = "at"
  BY <1>1, <1>2, Zenon DEF OpenInv
<1>6. /\ e \in [Paths -> Entries] /\ Backed(data', e) /\ e[p] = At(n)
      /\ \A q \in Paths \ {p} : e[q] = x.entries[q]
  <2>1. data \in DataSet /\ unused # {} /\ Filled(File(0))
    BY <1>1, <1>2, Zenon DEF RestType, Filled
  <2>2. e = Named(x.entries, p)
    BY DEF Named
  <2> HIDE DEF e
  <2> QED
    BY <1>3, <1>4, <1>5, <2>1, <2>2, NewEntry
<1>7. Become(t, y)
  BY <1>1
<1> HIDE DEF e
<1>8. y \in TabSet /\ y.pc = "seed" /\ y.entries = e
  BY <1>1, <1>2, <1>6 DEF TabSet
<1> HIDE DEF y
<1>9. tab'[t] = y
  BY <1>7, Zenon DEF Become, StorageInv, TypeOK
<1>10. DiskInv' /\ Durable' = Durable /\ data' \in DataSet
  BY <1>1, <1>2, <1>3, NewBackingDisk, Zenon
<1>11. OpenInv(tab[t])'
  <2>1. \A q \in Paths : e[q] # Absent => q \in Essential /\ e[q][1] = "at"
    <3>1. e[p][1] = "at" /\ p \in Essential
      BY <1>1, <1>6, EntryFacts, Zenon
    <3> QED
      BY <1>5, <1>6, <3>1, Zenon
  <2> QED
    BY <1>1, <1>5, <1>6, <1>8, <1>9, <2>1, Zenon DEF OpenInv
<1> QED
  BY <1>1, <1>2, <1>7, <1>8, <1>10, <1>11, OpeningStep, Zenon DEF RestType, Opening

\* The cluster seed is written; the state file comes last.
LEMMA SeedStateStep ==
  ASSUME StorageInv, NEW t \in Tabs, SeedState(t)
  PROVE  StorageInv'
<1> DEFINE x == tab[t]
           y == [x EXCEPT !.pc = "seedCommit"]
<1>1. /\ x.pc = "seed" /\ Become(t, y) /\ \A p \in Essential : x.entries[p] # Absent
      /\ phase' = (IF phase = "absent" THEN "empty" ELSE phase)
      /\ UNCHANGED <<kind, lock, stored, data, ops, promised>>
  BY Zenon DEF SeedState, Goto
<1>2. Alone(t) /\ RestType /\ DiskInv /\ OpenInv(x) /\ lock = t /\ x \in TabSet
  BY <1>1, Holder, Zenon DEF TabInv
<1>3. y \in TabSet /\ y.pc = "seedCommit" /\ y.entries = x.entries
  BY <1>2 DEF TabSet, Steps
<1> HIDE DEF y
<1>4. tab'[t] = y
  BY <1>1, Zenon DEF Become, StorageInv, TypeOK
<1>5. /\ kind = "opfs" /\ phase \in {"absent", "initializing"} /\ phase # "ready"
      /\ phase' \in {"empty", "initializing"} /\ phase' # "ready" /\ phase' \in Phases
      /\ phase' = "initializing" => phase = "initializing"
      /\ phase' = "empty" => phase = "absent"
  BY <1>1, <1>2 DEF OpenInv, Phases
<1>6. DiskInv' /\ Durable' = Durable
  <2>1. DiskInv'
    BY <1>1, <1>2, <1>5 DEF DiskInv
  <2> QED
    BY <1>5, <2>1, Unpublished, Zenon
<1>7. OpenInv(tab[t])'
  BY <1>1, <1>2, <1>3, <1>4, <1>5, Zenon DEF OpenInv
<1> QED
  BY <1>1, <1>2, <1>3, <1>5, <1>6, <1>7, OpeningStep, Zenon DEF RestType, Opening

LEMMA SeedCommitStep ==
  ASSUME StorageInv, NEW t \in Tabs, SeedCommit(t)
  PROVE  StorageInv'
<1> DEFINE x == tab[t]
           y == [x EXCEPT !.pc = "inspect"]
<1>1. /\ x.pc = "seedCommit" /\ Become(t, y) /\ phase' = "initializing"
      /\ stored' = x.entries /\ UNCHANGED <<kind, lock, data, ops, promised>>
  BY Zenon DEF SeedCommit, Goto
<1>2. Alone(t) /\ RestType /\ DiskInv /\ OpenInv(x) /\ lock = t /\ x \in TabSet
  BY <1>1, Holder, Zenon DEF TabInv
<1>3. y \in TabSet /\ y.pc = "inspect" /\ x.entries \in [Paths -> Entries]
  BY <1>2 DEF TabSet, Steps
<1> HIDE DEF y
<1>4. tab'[t] = y
  BY <1>1, Zenon DEF Become, StorageInv, TypeOK
<1>5. /\ kind = "opfs" /\ phase \in {"absent", "empty", "initializing"}
      /\ Backed(data, x.entries)
      /\ \A q \in Paths : x.entries[q] # Absent => q \in Essential /\ x.entries[q][1] = "at"
  BY <1>1, <1>2, Zenon DEF OpenInv
<1>6. phase # "ready" /\ phase' # "ready" /\ phase' \in Phases /\ kind # "indexedDb"
      /\ phase' \notin {"absent", "empty"}
  BY <1>1, <1>5 DEF Phases
<1>7. \A q \in Paths : x.entries[q] \notin Files
  BY <1>5, EntryFacts, ContentFacts, Zenon
<1>8. DiskInv' /\ Durable' = Durable
  <2>1. DiskInv'
    BY <1>1, <1>5, <1>6, <1>7, Zenon DEF DiskInv, Backed
  <2> QED
    BY <1>6, <2>1, Unpublished, Zenon
<1>9. OpenInv(tab[t])'
  BY <1>1, <1>3, <1>4, <1>5, Zenon DEF OpenInv
<1> QED
  BY <1>1, <1>2, <1>3, <1>6, <1>8, <1>9, OpeningStep, Zenon DEF RestType, Opening

LEMMA DirectUnavailableStep ==
  ASSUME StorageInv, NEW t \in Tabs, DirectUnavailable(t)
  PROVE  StorageInv'
<1> DEFINE x == tab[t]
           y == [x EXCEPT !.pc = "inspect"]
<1>1. /\ x.pc \in {"seed", "seedCommit"} /\ Become(t, y) /\ data' \in Interrupted(t)
      /\ UNCHANGED <<kind, lock, phase, stored, ops, promised>>
  BY Zenon DEF DirectUnavailable, Goto
<1>2. x.pc # "idle"
  BY <1>1
<1>3. Alone(t) /\ RestType /\ DiskInv /\ OpenInv(x) /\ lock = t /\ x \in TabSet
  BY <1>2, Holder, Zenon DEF TabInv
<1>4. y \in TabSet /\ y.pc = "inspect"
  BY <1>3 DEF TabSet, Steps
<1> HIDE DEF y
<1>5. tab'[t] = y
  BY <1>1, Zenon DEF Become, StorageInv, TypeOK
<1>6. DiskInv' /\ Durable' = Durable /\ data' \in DataSet
  BY <1>1, <1>3, InterruptedDisk, Zenon
<1>7. OpenInv(tab[t])'
  BY <1>1, <1>3, <1>4, <1>5, Zenon DEF OpenInv
<1> QED
  BY <1>1, <1>3, <1>4, <1>6, <1>7, OpeningStep, Zenon DEF RestType, Opening

\* Volatile entries are dropped from a state file.
LEMMA PersistentDisk ==
  ASSUME DiskInv, RestType, kind = "opfs", phase \in {"initializing", "ready"},
         kind' = kind, phase' = phase, stored' = Persistent(stored),
         data' \in IF Persistent(stored) = stored THEN {data} ELSE Pruned(Persistent(stored))
  PROVE  /\ DiskInv' /\ Durable' = Durable /\ data' \in DataSet /\ stored' \in [Paths -> Entries]
         /\ \A b \in referenced(stored') : data'[b] = data[b]
<1> DEFINE e == Persistent(stored)
<1>1. stored \in [Paths -> Entries] /\ data \in DataSet
  BY Zenon DEF RestType
<1>2. /\ e \in [Paths -> Entries] /\ \A p \in Kept : e[p] = stored[p]
      /\ \A p \in Volatile : e[p] = Absent
      /\ View(data, e) = Persistent(View(data, stored))
      /\ Persistent(Persistent(View(data, stored))) = Persistent(View(data, stored))
      /\ Backed(data, stored) => Backed(data, e)
      /\ Valid(View(data, stored)) => Valid(View(data, e))
  BY <1>1, PersistentFacts, Zenon
<1>3. data' \in DataSet /\ \A b \in referenced(e) : data'[b] = data[b]
  <2>1. CASE e = stored
    BY <1>1, <2>1, Zenon
  <2>2. CASE e # stored
    <3>1. data' \in Pruned(e)
      BY <2>2, Zenon
    <3> QED
      BY <1>1, <3>1, PrunedKeeps, Zenon
  <2> QED
    BY <2>1, <2>2, Zenon
<1>4. \A p \in Paths : e[p] = Absent \/ e[p] = stored[p]
  BY <1>2, Zenon DEF Kept
<1> HIDE DEF e
<1>5. stored' = e
  BY DEF e
<1>6. ASSUME phase = "ready"
      PROVE  View(data', e) = View(data, e) /\ Backed(data', e) /\ Valid(View(data', e))
  <2>1. Backed(data, e) /\ Valid(View(data, e))
    BY <1>2, <1>6, Zenon DEF DiskInv
  <2>2. View(data', e) = View(data, e) /\ Backed(data', e)
    BY <1>2, <1>3, <2>1, SameView, Zenon
  <2> QED
    BY <2>1, <2>2
<1>7. /\ \A p \in Paths : e[p] \notin Files
      /\ \A p, q \in Paths : e[p][1] = "at" /\ e[q] = e[p] => p = q
      /\ phase = "initializing" => \A p \in Paths : e[p] # Absent => p \in Essential
  <2>1. \A p \in Paths : e[p][1] = "at" => e[p] = stored[p]
    BY <1>4, EntryFacts, Zenon
  <2>2. \A p \in Paths : e[p] \notin Files
    BY <1>4, ContentFacts, Zenon DEF DiskInv
  <2>3. \A p, q \in Paths : e[p][1] = "at" /\ e[q] = e[p] => p = q
    BY <2>1, Zenon DEF DiskInv
  <2> QED
    BY <1>4, <2>2, <2>3, Zenon DEF DiskInv
<1>8. phase' \notin {"absent", "empty"} /\ kind' # "indexedDb"
  OBVIOUS
<1>9. DiskInv'
  BY <1>5, <1>6, <1>7, <1>8, Zenon DEF DiskInv
<1>10. Durable' = Durable
  <2>1. CASE phase = "ready"
    <3>1. Durable' = Persistent(View(data', e)) /\ Durable = Persistent(View(data, stored))
      BY <1>5, <2>1, DurableIs, Zenon
    <3> QED
      BY <1>2, <1>6, <2>1, <3>1, Zenon
  <2>2. CASE phase # "ready"
    BY <2>2, Unpublished, Zenon
  <2> QED
    BY <2>1, <2>2, Zenon
<1> QED
  BY <1>2, <1>3, <1>5, <1>9, <1>10, Zenon

\* A lease starts with what is stored.
LEMMA LeaseStep ==
  ASSUME StorageInv, NEW t \in Tabs, tab[t].pc # "idle", UNCHANGED <<kind, ops>>,
         phase' \in Phases, stored' \in [Paths -> Entries], data' \in DataSet, DiskInv',
         Durable' = Durable, NEW names \in [Paths -> Contents], Valid(names),
         NEW generation \in BOOLEAN, NEW pending \in BOOLEAN,
         Lease(t, names, generation, pending),
         ~generation => pending /\ stored' = Nothing /\ phase' = "absent",
         generation => /\ phase' = "ready" \/ (phase' = "initializing" /\ pending)
                       /\ Backed(data', stored') /\ View(data', stored') = names
  PROVE  StorageInv'
<1> DEFINE m == [p \in Paths |-> IF generation THEN type(names[p]) ELSE "absent"]
           y == [Idle EXCEPT !.pc = "startup", !.guest = names,
                  !.hasStoredGeneration = generation, !.initializationPending = pending,
                  !.persistedEntries = m]
<1>1. /\ tab' = [tab EXCEPT ![t] = y] /\ report' = None /\ UNCHANGED lock
      /\ promised' = {[snap |-> Durable, exact |-> TRUE]}
  BY Zenon DEF Lease, Become
<1>2. Alone(t) /\ RestType /\ lock = t
  BY Holder, Zenon
<1>3. m \in [Paths -> {"absent", "dir", "file"}]
  BY TypeFacts, Zenon
<1>4. \A p \in Paths : m[p] = IF generation THEN type(names[p]) ELSE "absent"
  BY Zenon
<1> HIDE DEF m
<1>5. /\ y \in TabSet /\ y.pc = "startup" /\ y.guest = names /\ y.persistedEntries = m
      /\ y.hasStoredGeneration = generation /\ y.initializationPending = pending
      /\ y.at = None /\ y.journal = {} /\ y.unsure = FALSE
  <2>1. Idle.at = None /\ Idle.journal = {} /\ Idle.unsure = FALSE
    BY DEF Idle
  <2> QED
    BY <1>3, <2>1, IdleType, ZenonT(40) DEF TabSet, Steps
<1> HIDE DEF y
<1>6. tab'[t] = y /\ y.pc \in Leased /\ y.pc # "prune" /\ y.pc # "transact" /\ y.pc # "idle"
      /\ y.pc \notin Applying /\ y.pc # "commit" /\ phase' # "empty"
  <2>1. tab'[t] = y
    BY <1>1, Zenon DEF StorageInv, TypeOK
  <2> QED
    BY <1>5, <2>1 DEF Leased, Applying
<1>7. LeaseInv(tab[t])'
  <2>1. y.at # "restore" /\ y.at \in {None, "full"}
    BY <1>5 DEF None
  <2>2. generation => Valid(View(data', stored'))
    BY Zenon
  <2> QED
    BY <1>5, <1>6, <2>1, <2>2, Zenon DEF LeaseInv
<1>8. MemoryInv(tab[t])'
  <2>1. generation => scope(y) \cap Kept = {}
    BY <1>5, Zenon DEF scope
  <2>2. ~generation => scope(y) = Kept
    BY <1>5, Zenon DEF scope
  <2>3. \A p \in Kept \ scope(y) : View(data', stored')[p] = y.guest[p]
    BY <1>5, <2>2, Zenon
  <2>4. \A p \in Kept : y.persistedEntries[p] = type(View(data', stored')[p])
    <3>1. \A p \in Kept : p \in Paths
      BY Zenon DEF Kept
    <3>2. CASE generation
      BY <1>4, <1>5, <3>1, <3>2, Zenon
    <3>3. CASE ~generation
      <4>1. \A p \in Paths : View(data', stored')[p] = Absent
        BY <3>3, EmptySnapshot, Zenon
      <4> QED
        BY <1>4, <1>5, <3>1, <3>3, <4>1, TypeFacts, Zenon
    <3> QED
      BY <3>2, <3>3, Zenon
  <2>5. \A p \in Kept \ scope(y) : y.persistedEntries[p] = type(y.guest[p])
    BY <2>3, <2>4, Zenon
  <2>6. ~y.hasStoredGeneration => ~y.unsure /\ \A p \in Paths : y.persistedEntries[p] = "absent"
    BY <1>4, <1>5, Zenon
  <2> QED
    BY <1>6, <2>3, <2>4, <2>5, <2>6, Zenon DEF MemoryInv
<1>9. RestType'
  BY <1>1, <1>2, Zenon DEF RestType, Reports
<1>10. StoredIsPromised'
  <2> DEFINE s == [snap |-> Durable, exact |-> TRUE]
  <2>1. s.snap = Durable' /\ s \in promised'
    BY <1>1
  <2> HIDE DEF s
  <2> QED
    BY <2>1, PromiseExact, Zenon
<1> QED
  BY <1>1, <1>2, <1>5, <1>6, <1>7, <1>8, <1>9, <1>10, LeasedTab, Combine, Zenon

LEMMA SeedFacts == Seed \in [Paths -> Contents] /\ Valid(Seed)
<1>1. File(0) \in Files
  BY StorageAssumption DEF Files
<1>2. Seed \in [Paths -> Contents] /\ \A p \in Paths : Seed[p] = IF p \in Essential THEN File(0) ELSE Absent
  BY <1>1, Zenon DEF Seed, Contents
<1>3. \A p \in Paths : Seed[p] # Absent => Ancestors[p] = {}
  BY <1>2, StorageAssumption, Zenon
<1>4. \A p \in Essential : Seed[p] \in Files
  BY <1>1, <1>2, WithinFacts, Zenon DEF Kept
<1> QED
  BY <1>2, <1>3, <1>4, Zenon DEF Valid, Related

\* A tab that goes without having published.
LEMMA GoneStep ==
  ASSUME StorageInv, NEW t \in Tabs, tab[t].pc # "idle", NEW r \in Reports, Leave(t, r),
         data' \in Interrupted(t), UNCHANGED <<kind, phase, stored, ops, promised>>
  PROVE  StorageInv'
<1>1. RestType /\ DiskInv /\ StoredIsPromised
  BY Holder, Zenon
<1>2. DiskInv' /\ Durable' = Durable /\ data' \in DataSet
  BY <1>1, InterruptedDisk, Zenon
<1>3. StoredIsPromised'
  BY <1>1, <1>2, PromiseStays, Zenon
<1> QED
  BY <1>1, <1>2, <1>3, LeaveStep, Zenon DEF RestType

LEMMA OpenFailsStep ==
  ASSUME StorageInv, NEW t \in Tabs, OpenFails(t) \/ TabDies(t)
  PROVE  StorageInv'
<1>1. tab[t].pc # "idle"
  BY DEF OpenFails, TabDies
<1>2. PICK r \in Reports : Leave(t, r)
  BY Zenon DEF OpenFails, TabDies, Reports
<1>3. data' \in Interrupted(t) /\ UNCHANGED <<kind, phase, stored, ops, promised>>
  BY Zenon DEF OpenFails, TabDies
<1> QED
  BY <1>1, <1>2, <1>3, GoneStep, Zenon

\* A tab that goes and leaves the disk alone.
LEMMA LeftStep ==
  ASSUME StorageInv, NEW t \in Tabs, tab[t].pc # "idle", NEW r \in Reports, Leave(t, r),
         UNCHANGED <<kind, disk, ops, promised>>
  PROVE  StorageInv'
<1>1. data' \in Interrupted(t) /\ UNCHANGED <<kind, phase, stored, ops, promised>>
  BY Zenon DEF Interrupted, disk
<1> QED
  BY <1>1, GoneStep, Zenon

LEMMA ReadRowsStep ==
  ASSUME StorageInv, NEW t \in Tabs, ReadRows(t)
  PROVE  StorageInv'
<1>1. /\ tab[t].pc = "locked" /\ kind = "indexedDb" /\ UNCHANGED <<kind, ops>>
      /\ phase' = phase /\ stored' = stored /\ data' = data
  BY Zenon DEF ReadRows, disk
<1>2. tab[t].pc # "idle"
  BY <1>1
<1>3. RestType /\ DiskInv
  BY <1>2, Holder, Zenon
<1>4. DiskInv' /\ Durable' = Durable
  BY <1>1, <1>3, SameDisk, Zenon
<1>5. phase' \in Phases /\ stored' \in [Paths -> Entries] /\ data' \in DataSet
  BY <1>1, <1>3, Zenon DEF RestType
<1>6. CASE phase = "absent"
  <2>1. Lease(t, Seed, FALSE, TRUE) /\ stored' = Nothing /\ phase' = "absent"
    BY <1>1, <1>3, <1>6, Zenon DEF ReadRows, DiskInv
  <2> QED
    BY <1>1, <1>2, <1>4, <1>5, <2>1, SeedFacts, LeaseStep, Zenon
<1>7. CASE phase # "absent" /\ Valid(stored)
  <2>1. Lease(t, stored, TRUE, FALSE) /\ stored \in [Paths -> Contents] /\ phase' = "ready"
    BY <1>1, <1>3, <1>7, Zenon DEF ReadRows, DiskInv
  <2>2. Backed(data', stored') /\ View(data', stored') = stored
    BY <1>1, <2>1, ContentView, Zenon
  <2> QED
    BY <1>1, <1>2, <1>4, <1>5, <1>7, <2>1, <2>2, LeaseStep, Zenon
<1>8. CASE phase # "absent" /\ ~Valid(stored)
  <2>1. Leave(t, "corrupt") /\ UNCHANGED <<kind, disk, ops, promised>>
    BY <1>8, Zenon DEF ReadRows
  <2> QED
    BY <1>2, <2>1, LeftStep, Zenon DEF Reports
<1> QED
  BY <1>6, <1>7, <1>8, Zenon

LEMMA InspectStep ==
  ASSUME StorageInv, NEW t \in Tabs, Inspect(t)
  PROVE  StorageInv'
<1> DEFINE e == Persistent(stored)
           v == View(data, e)
<1>1. tab[t].pc = "inspect" /\ tab[t].pc # "idle" /\ UNCHANGED <<kind, ops>>
  BY DEF Inspect
<1>2. RestType /\ DiskInv /\ StoredIsPromised /\ kind = "opfs"
  BY <1>1, Holder, Zenon DEF TabInv, OpenInv
<1>3. CASE phase = "absent" /\ Lease(t, Seed, FALSE, TRUE) /\ UNCHANGED disk
  <2>1. phase' = phase /\ stored' = stored /\ data' = data /\ stored = Nothing
    BY <1>2, <1>3, Zenon DEF disk, DiskInv
  <2>2. DiskInv' /\ Durable' = Durable
    BY <1>1, <1>2, <2>1, SameDisk, Zenon
  <2>3. phase' \in Phases /\ stored' \in [Paths -> Entries] /\ data' \in DataSet
    BY <1>2, <2>1, Zenon DEF RestType
  <2> QED
    BY <1>1, <1>3, <2>1, <2>2, <2>3, SeedFacts, LeaseStep, Zenon
<1>4. CASE phase = "empty" /\ Leave(t, "corrupt") /\ UNCHANGED <<disk, promised>>
  BY <1>1, <1>4, LeftStep, Zenon DEF Reports
<1>5. CASE /\ phase \in {"initializing", "ready"} /\ stored' = e
           /\ data' \in IF e = stored THEN {data} ELSE Pruned(e)
           /\ IF Missing(e) \/ ~Valid(Read(e))
              THEN Leave(t, "corrupt") /\ UNCHANGED promised
              ELSE Lease(t, Read(e), TRUE, phase = "initializing")
           /\ UNCHANGED phase
  <2>1. /\ DiskInv' /\ Durable' = Durable /\ data' \in DataSet /\ stored' \in [Paths -> Entries]
        /\ \A b \in referenced(e) : data'[b] = data[b]
    BY <1>1, <1>2, <1>5, PersistentDisk, Zenon
  <2>2. phase' \in Phases /\ phase' = phase
    BY <1>2, <1>5, Zenon DEF RestType
  <2>3. CASE Missing(e) \/ ~Valid(Read(e))
    <3>1. Leave(t, "corrupt") /\ promised' = promised
      BY <1>5, <2>3, Zenon
    <3>2. StoredIsPromised'
      BY <1>2, <2>1, <3>1, PromiseStays, Zenon
    <3> QED
      BY <1>1, <1>2, <2>1, <2>2, <3>1, <3>2, LeaveStep, Zenon DEF Reports, RestType
  <2>4. CASE ~(Missing(e) \/ ~Valid(Read(e)))
    <3>1. Lease(t, Read(e), TRUE, phase = "initializing") /\ Valid(Read(e)) /\ Read(e) = v
      BY <1>5, <2>4, Zenon DEF Read, View
    <3>2. stored \in [Paths -> Entries] /\ e \in [Paths -> Entries]
          /\ (Backed(data, stored) => Backed(data, e))
      BY <1>2, PersistentFacts, Zenon DEF RestType
    <3>3. stored' = e
      BY <1>5, Zenon
    <3> HIDE DEF e
    <3>4. Backed(data, e)
      <4>1. CASE phase = "ready"
        BY <1>2, <3>2, <4>1, Zenon DEF DiskInv
      <4>2. CASE phase = "initializing"
        <5>1. \A p \in Paths : e[p][1] = "at" => e[p] # Absent
          BY EntryFacts, Zenon
        <5>2. \A p \in Paths : e[p] # Absent => p \in Essential
          BY <2>1, <2>2, <3>3, <4>2, Zenon DEF DiskInv
        <5>3. \A p \in Paths : e[p][1] = "at" => v[p] = data[e[p][2]]
          BY Zenon DEF View
        <5>4. \A p \in Essential : v[p] \in Files
          BY <3>1, Zenon DEF Valid
        <5>5. \A p, q \in Paths : e[p][1] = "at" /\ e[q] = e[p] => p = q
          BY <2>1, <3>3, Zenon DEF DiskInv
        <5> QED
          BY <5>1, <5>2, <5>3, <5>4, <5>5, Zenon DEF Backed
      <4> QED
        BY <1>5, <4>1, <4>2
    <3>5. View(data', e) = v /\ Backed(data', e)
      BY <2>1, <3>2, <3>4, SameView, Zenon
    <3>6. v \in [Paths -> Contents]
      <4>1. \A p \in Paths : v[p] \in Contents
        BY <3>2, <3>4, ViewCases, Zenon
      <4>2. v = [p \in Paths |-> v[p]]
        BY Zenon DEF View
      <4> QED
        BY <4>1, <4>2, Zenon
    <3> HIDE DEF v
    <3>7. phase' = "ready" \/ (phase' = "initializing" /\ (phase = "initializing"))
      BY <1>5, <2>2
    <3> QED
      BY <1>1, <2>1, <2>2, <3>1, <3>3, <3>5, <3>6, <3>7, LeaseStep, Zenon
  <2> QED
    BY <2>3, <2>4, Zenon
<1> QED
  BY <1>3, <1>4, <1>5, Zenon DEF Inspect

-----------------------------------------------------------------------------
(* A boundary begins, or ends *)

LEMMA DurableType ==
  ASSUME DiskInv, RestType
  PROVE  Durable \in [Paths -> Contents \cup {Empty}]
<1>1. CASE phase = "ready"
  <2>1. stored \in [Paths -> Entries] /\ Backed(data, stored)
    BY <1>1, Zenon DEF DiskInv, RestType
  <2>2. \A p \in Paths : View(data, stored)[p] \in Contents
    BY <2>1, ViewCases, Zenon
  <2>3. Persistent(View(data, stored)) \in [Paths -> Contents \cup {Empty}]
    BY <2>2, Zenon DEF Persistent, Contents
  <2> QED
    BY <1>1, <2>3, DurableIs, Zenon
<1>2. CASE phase # "ready"
  <2>1. Durable = Nothing
    BY <1>2, DurableIs, Zenon
  <2> QED
    BY <2>1, EmptySnapshot, Zenon
<1> QED
  BY <1>1, <1>2, Zenon

\* The store is about to apply a delta.
LEMMA BegunStep ==
  ASSUME StorageInv, NEW t \in Tabs, tab[t].pc # "idle", NEW y \in TabSet,
         tab' = [tab EXCEPT ![t] = y], lock' = lock,
         y.pc = IF kind = "opfs" THEN "apply" ELSE "transact",
         LeaseInv(tab[t])', MemoryInv(tab[t])', Target(y) \in promised', y.base = Durable,
         promised \subseteq promised', RestType', DiskInv', Durable' = Durable
  PROVE  StorageInv'
<1>1. Alone(t) /\ StoredIsPromised /\ lock = t
  BY Holder, Zenon
<1>2. y.pc \in {"apply", "transact"}
  OBVIOUS
<1>3. /\ y.pc \notin {"idle", "locked", "seed", "seedCommit", "inspect", "write", "commit", "prune"}
      /\ y.pc # "idle" /\ y.pc # "write" /\ y.pc # "prune"
  BY <1>2
<1>4. tab'[t] = y
  BY Zenon DEF StorageInv, TypeOK
<1>5. OpenInv(tab[t])' /\ ApplyInv(tab[t])'
  BY <1>3, <1>4, Zenon DEF OpenInv, ApplyInv
<1>6. PromiseInv(tab[t])'
  BY <1>4, Zenon DEF PromiseInv
<1>7. StoredIsPromised'
  BY <1>1, PromiseStays, Zenon
<1> QED
  BY <1>1, <1>3, <1>5, <1>6, <1>7, Combine, Zenon DEF TabInv

Departs(x, r) == x.at \in {"close", "restore"} \/ (x.at = "full" /\ r # "ok")

\* A boundary has ended: the caller leaves, or goes on with a lease whose memory
\* is right.
LEMMA SettledStep ==
  ASSUME StorageInv, NEW t \in Tabs, tab[t].pc # "idle", NEW x \in TabSet, NEW r \in Reports,
         Settle(t, x, r), kind' = kind, ops' \in 0..MaxOps, phase' \in Phases,
         stored' \in [Paths -> Entries], data' \in DataSet, DiskInv', StoredIsPromised',
         ~Departs(x, r) =>
           /\ phase' = "ready" /\ Valid(x.guest) /\ (kind = "indexedDb" => ~x.unsure)
           /\ x.hasStoredGeneration /\ ~x.initializationPending
           /\ \A p \in Kept \ scope(x) : x.guest[p] # Absent \/ ~x.unsure =>
                View(data', stored')[p] = x.guest[p]
           /\ ~x.unsure => \A p \in Kept : x.persistedEntries[p] = type(View(data', stored')[p])
  PROVE  StorageInv'
<1>1. Alone(t) /\ RestType /\ lock = t
  BY Holder, Zenon
<1>2. CASE Departs(x, r)
  <2>1. Leave(t, r)
    BY <1>2, Zenon DEF Settle, Departs
  <2> QED
    BY <2>1, LeaveStep, Zenon
<1>3. CASE ~Departs(x, r)
  <2> DEFINE w == IF x.at # "serve" THEN "open" ELSE IF r = "ok" THEN "serving" ELSE "cleanup"
             f == (r # "ok" /\ x.at # "serve")
             y == [x EXCEPT !.at = None, !.entries = Nothing, !.files = {}, !.base = Nothing,
                            !.failed = f, !.pc = w]
  <2>1. tab' = [tab EXCEPT ![t] = y] /\ report' = r /\ lock' = lock
    BY <1>3, Zenon DEF Settle, Departs
  <2>2. w \in {"open", "serving", "cleanup"} /\ w \in Steps /\ f \in BOOLEAN
    BY DEF Steps
  <2> HIDE DEF w, f
  <2>3. Nothing \in [Paths -> Entries] /\ Nothing \in [Paths -> Contents \cup {Empty}]
    BY EmptySnapshot, Zenon
  <2>4. y \in TabSet /\ y.pc = w /\ SameLease(x, y) /\ y.at = None
    BY <2>2, <2>3, Zenon DEF TabSet, SameLease
  <2> HIDE DEF y
  <2>5. tab'[t] = y
    BY <2>1, Zenon DEF StorageInv, TypeOK
  <2>6. /\ y.pc \in Leased /\ y.pc \notin Applying /\ y.pc # "idle" /\ y.pc # "transact"
        /\ y.at # "restore" /\ phase' # "empty"
    BY <1>3, <2>2, <2>4 DEF Leased, Applying, None
  <2>7. Backed(data', stored') /\ Valid(View(data', stored'))
    BY <1>3, Zenon DEF DiskInv
  <2>8. LeaseInv(tab[t])'
    BY <1>3, <2>4, <2>5, <2>6, <2>7, Zenon DEF LeaseInv, SameLease
  <2>9. MemoryInv(tab[t])'
    <3>1. scope(y) = scope(x)
      BY <2>4, SameDelta, Zenon
    <3>2. \A p \in Kept \ scope(y) : y.guest[p] # Absent \/ ~y.unsure =>
            View(data', stored')[p] = y.guest[p]
      BY <1>3, <2>4, <3>1, Zenon DEF SameLease
    <3>3. ~y.unsure => \A p \in Kept : y.persistedEntries[p] = type(View(data', stored')[p])
      BY <1>3, <2>4, Zenon DEF SameLease
    <3>4. ~y.unsure => \A p \in Kept \ scope(y) : y.persistedEntries[p] = type(y.guest[p])
      BY <3>2, <3>3, Zenon
    <3>5. y.hasStoredGeneration
      BY <1>3, <2>4, Zenon DEF SameLease
    <3> QED
      BY <2>5, <3>2, <3>3, <3>4, <3>5, Zenon DEF MemoryInv
  <2>10. RestType'
    BY <1>1, <2>1, Zenon DEF RestType
  <2> QED
    BY <1>1, <2>1, <2>4, <2>5, <2>6, <2>8, <2>9, <2>10, LeasedTab, Combine, Zenon
<1> QED
  BY <1>2, <1>3, Zenon

LEMMA BeginSyncStep ==
  ASSUME StorageInv, NEW t \in Tabs, tab[t].pc \in Leased, NEW b \in Boundaries \ {"restore"},
         tab[t].initializationPending <=> b = "full", BeginSync(t, b)
  PROVE  StorageInv'
<1> DEFINE o == tab[t]
           x == [o EXCEPT !.at = b, !.base = Durable]
           idle == /\ x.hasStoredGeneration /\ ~x.initializationPending
                   /\ upserts(x) = {} /\ deleted(x) = {}
           v == IF kind = "opfs" THEN "apply" ELSE "transact"
<1>1. o.pc # "idle" /\ o.pc # "prune" /\ o.pc # "commit" /\ o.pc # "transact" /\ o.pc \notin Applying
      /\ b # None
  BY DEF Leased, Applying, Boundaries, None
<1>2. /\ RestType /\ DiskInv /\ StoredIsPromised /\ LeaseInv(o) /\ MemoryInv(o) /\ lock = t
      /\ o \in TabSet
  BY <1>1, Holder, Zenon DEF TabInv
<1>3. /\ UNCHANGED <<kind, ops>> /\ phase' = phase /\ stored' = stored /\ data' = data
  BY Zenon DEF BeginSync, disk
<1>4. DiskInv' /\ Durable' = Durable
  BY <1>2, <1>3, SameDisk, Zenon
<1>5. phase' \in Phases /\ stored' \in [Paths -> Entries] /\ data' \in DataSet
      /\ ops' \in 0..MaxOps /\ kind' \in Kinds /\ stored \in [Paths -> Entries]
  BY <1>2, <1>3, Zenon DEF RestType
<1>6. CASE ~idle
  <2> DEFINE y == [x EXCEPT !.pc = v]
  <2>1. /\ tab' = [tab EXCEPT ![t] = y] /\ report' = None /\ lock' = lock
        /\ promised' = promised \cup {Target(x)}
    BY <1>6, Zenon DEF BeginSync, Become
  <2>2. v \in {"apply", "transact"} /\ v \in Steps /\ v \in Applying /\ v \notin Leased
        /\ (v = "transact" <=> kind = "indexedDb") /\ v # "prune" /\ v # "commit"
    BY <1>2, StorageAssumption DEF Steps, Applying, Leased, RestType
  <2>3. Durable \in [Paths -> Contents \cup {Empty}]
    BY <1>2, DurableType, Zenon
  <2> HIDE DEF v
  <2>4. /\ y \in TabSet /\ y.pc = v /\ SameLease(o, y) /\ y.at = b /\ y.base = Durable
        /\ SameLease(x, y)
    BY <1>2, <2>2, <2>3, Zenon DEF TabSet, SameLease
  <2> HIDE DEF y, x
  <2>5. tab'[t] = y
    BY <2>1, Zenon DEF StorageInv, TypeOK
  <2>6. Target(y) \in promised' /\ promised \subseteq promised'
    BY <2>1, <2>4, SameDelta, Zenon
  <2>7. LeaseInv(tab[t])'
    <3>1. o.at = None /\ o.at # "restore" /\ b # "restore"
      <4>1. o.at = None
        BY <1>2, Zenon DEF LeaseInv
      <4> QED
        BY <4>1 DEF None
    <3>2. /\ Valid(y.guest) /\ y.pc \notin Leased /\ y.at # None /\ y.at # "restore"
          /\ y.initializationPending => y.at = "full"
      BY <1>1, <1>2, <2>2, <2>4, <3>1, Zenon DEF LeaseInv, SameLease
    <3>3. ~y.hasStoredGeneration => /\ y.initializationPending /\ stored' = Nothing
                                    /\ phase' \in {"absent", "empty"} /\ phase' # "empty"
      BY <1>1, <1>2, <1>3, <2>4, <3>1, Zenon DEF LeaseInv, SameLease
    <3>4. y.hasStoredGeneration =>
            /\ phase' = "ready" \/ (phase' = "initializing" /\ y.initializationPending)
            /\ Backed(data', stored') /\ Valid(View(data', stored'))
      BY <1>1, <1>2, <1>3, <2>4, Zenon DEF LeaseInv, SameLease
    <3>5. (y.pc = "transact" <=> kind' = "indexedDb") /\ (kind' = "indexedDb" => ~y.unsure)
      BY <1>1, <1>2, <1>3, <2>2, <2>4, Zenon DEF LeaseInv, SameLease
    <3> QED
      BY <2>2, <2>4, <2>5, <3>2, <3>3, <3>4, <3>5, Zenon DEF LeaseInv
  <2>8. MemoryInv(tab[t])'
    <3>1. scope(y) = scope(o)
      BY <2>4, SameDelta, Zenon
    <3>2. /\ ~y.hasStoredGeneration =>
               ~y.unsure /\ \A p \in Paths : y.persistedEntries[p] = "absent"
          /\ \A p \in Kept \ scope(y) :
               y.guest[p] # Absent \/ ~y.unsure => View(data', stored')[p] = y.guest[p]
      BY <1>1, <1>2, <1>3, <2>4, <3>1, ZenonT(40) DEF MemoryInv, SameLease
    <3>3. /\ ~y.unsure => \A p \in Kept : y.persistedEntries[p] = type(View(data', stored')[p])
          /\ ~y.unsure => \A p \in Kept \ scope(y) : y.persistedEntries[p] = type(y.guest[p])
      BY <1>1, <1>2, <1>3, <2>4, <3>1, Zenon DEF MemoryInv, SameLease
    <3> QED
      BY <2>5, <3>2, <3>3, Zenon DEF MemoryInv
  <2>9. RestType'
    BY <1>5, <2>1, Zenon DEF RestType, Reports
  <2> QED
    BY <1>1, <1>4, <2>1, <2>4, <2>6, <2>7, <2>8, <2>9, BegunStep, Zenon DEF v
<1>7. CASE idle
  <2> DEFINE y == [x EXCEPT !.journal = {}]
  <2>1. \/ Settle(t, y, "ok") /\ promised' = {Target(x)}
        \/ Settle(t, x, "unchanged") /\ promised' = promised
    BY <1>7, Zenon DEF BeginSync
  <2>2. x \in TabSet /\ SameLease(o, x) /\ x.at = b /\ x.unsure \in BOOLEAN
        /\ x.guest \in [Paths -> Contents] /\ x.persistedEntries = o.persistedEntries
    <3>1. Durable \in [Paths -> Contents \cup {Empty}]
      BY <1>2, DurableType, Zenon
    <3> QED
      BY <1>2, <3>1, Zenon DEF TabSet, SameLease
  <2>3. /\ y \in TabSet /\ y.at = b /\ y.journal = {} /\ y.guest = x.guest
        /\ y.hasStoredGeneration = x.hasStoredGeneration /\ y.unsure = x.unsure
        /\ y.initializationPending = x.initializationPending
        /\ y.persistedEntries = x.persistedEntries
    BY <2>2, Zenon DEF TabSet
  <2>4. idle
    BY <1>7
  <2> HIDE DEF y, x
  <2>5. x.hasStoredGeneration /\ ~x.initializationPending /\ upserts(x) = {} /\ deleted(x) = {}
    BY <2>4 DEF idle
  <2>6. /\ phase = "ready" /\ Valid(x.guest) /\ (kind = "indexedDb" => ~x.unsure)
        /\ Backed(data, stored)
    BY <1>1, <1>2, <2>2, <2>5, Zenon DEF LeaseInv, SameLease
  <2>7. scope(x) = scope(o)
    BY <2>2, SameDelta, Zenon
  <2>8. /\ \A p \in Kept \ scope(x) : x.guest[p] # Absent \/ ~x.unsure =>
             View(data, stored)[p] = x.guest[p]
        /\ ~x.unsure => \A p \in Kept : x.persistedEntries[p] = type(View(data, stored)[p])
    BY <1>1, <1>2, <2>2, <2>7, Zenon DEF MemoryInv, SameLease
  <2>9. Matches(x, View(data, stored))
    <3> SUFFICES ASSUME NEW p \in Kept, x.guest[p] # Absent \/ ~x.unsure
                 PROVE  View(data, stored)[p] = x.guest[p]
      BY Zenon DEF Matches
    <3>1. CASE p \notin scope(x)
      BY <2>8, <3>1, Zenon
    <3>2. CASE p \in scope(x)
      <4>1. x.guest[p] = Absent
        BY <2>5, <3>2, Zenon DEF upserts
      <4>2. x.persistedEntries[p] = "absent"
        BY <2>5, <3>2, <4>1, TypeFacts, Zenon DEF deleted
      <4>3. type(View(data, stored)[p]) = "absent"
        BY <2>8, <4>1, <4>2, Zenon
      <4>4. View(data, stored)[p] \in Contents
        BY <1>5, <2>6, ViewCases, Zenon DEF Kept
      <4> QED
        BY <4>1, <4>3, <4>4, TypeFacts, Zenon
    <3> QED
      BY <3>1, <3>2, Zenon
  <2>10. CASE Settle(t, y, "ok") /\ promised' = {Target(x)}
    <3>1. StoredIsPromised'
      <4>1. phase' = "ready" /\ Target(x) \in promised'
        BY <1>3, <2>6, <2>10, Zenon
      <4>2. View(data', stored') = View(data, stored)
        BY <1>3, Zenon
      <4>3. Matches(x, View(data', stored'))
        BY <2>9, <4>2, Zenon
      <4>4. x.unsure \in BOOLEAN
        BY <2>2, Zenon
      <4> QED
        BY <4>1, <4>3, <4>4, PromiseMatches
    <3>2. \A p \in Kept : y.guest[p] # Absent \/ ~y.unsure => View(data', stored')[p] = y.guest[p]
      BY <1>3, <2>3, <2>9, Zenon DEF Matches
    <3>3. ~y.unsure => \A p \in Kept : y.persistedEntries[p] = type(View(data', stored')[p])
      BY <1>3, <2>3, <2>8, Zenon
    <3>4. phase' = "ready" /\ Valid(y.guest) /\ (kind = "indexedDb" => ~y.unsure)
          /\ y.hasStoredGeneration /\ ~y.initializationPending
      BY <1>3, <2>3, <2>5, <2>6, Zenon
    <3> QED
      BY <1>1, <1>3, <1>4, <1>5, <2>3, <2>10, <3>1, <3>2, <3>3, <3>4, SettledStep, Zenon DEF Reports
  <2>11. CASE Settle(t, x, "unchanged") /\ promised' = promised
    <3>1. StoredIsPromised'
      BY <1>2, <1>4, <2>11, PromiseStays, Zenon
    <3>2. /\ \A p \in Kept \ scope(x) : x.guest[p] # Absent \/ ~x.unsure =>
               View(data', stored')[p] = x.guest[p]
          /\ ~x.unsure => \A p \in Kept : x.persistedEntries[p] = type(View(data', stored')[p])
      BY <1>3, <2>8, Zenon
    <3>3. phase' = "ready"
      BY <1>3, <2>6, Zenon
    <3> QED
      BY <1>1, <1>3, <1>4, <1>5, <2>2, <2>5, <2>6, <2>11, <3>1, <3>2, <3>3, SettledStep, Zenon
         DEF Reports
  <2> QED
    BY <2>1, <2>10, <2>11, Zenon
<1> QED
  BY <1>6, <1>7, Zenon

LEMMA SyncSteps ==
  ASSUME StorageInv, NEW t \in Tabs,
         Startup(t) \/ Operation(t) \/ publishIdle(t) \/ ServeEnds(t) \/ Close(t)
  PROVE  StorageInv'
<1> DEFINE x == tab[t]
<1>1. x.pc \in {"startup", "open", "serving", "cleanup"}
  BY Zenon DEF Startup, Operation, publishIdle, ServeEnds, Close
<1>2. x.pc \in Leased /\ x.pc # "idle"
  BY <1>1 DEF Leased
<1>3. LeaseInv(x)
  BY <1>2, Holder, Zenon DEF TabInv
<1>4. x.pc # "startup" => ~x.initializationPending
  BY <1>2, <1>3, Zenon DEF LeaseInv
<1>5. ASSUME x.pc # "startup", NEW b \in {"operation", "serve", "cleanup", "close"}, BeginSync(t, b)
      PROVE  StorageInv'
  <2>1. b \in Boundaries \ {"restore"} /\ b # "full"
    BY DEF Boundaries
  <2> QED
    BY <1>2, <1>4, <1>5, <2>1, BeginSyncStep, Zenon
<1>6. CASE Startup(t)
  <2>1. CASE x.initializationPending
    <3>1. "full" \in Boundaries \ {"restore"}
      BY DEF Boundaries
    <3> QED
      BY <1>2, <1>6, <2>1, <3>1, BeginSyncStep, Zenon DEF Startup
  <2>2. CASE ~x.initializationPending
    BY <1>6, <2>2, SessionTurns, Zenon DEF Startup
  <2> QED
    BY <2>1, <2>2, Zenon
<1>7. CASE Operation(t)
  <2>1. x.pc # "startup" /\ BeginSync(t, "operation")
    BY <1>7 DEF Operation
  <2> QED
    BY <1>5, <2>1, Zenon
<1>8. CASE publishIdle(t)
  <2>1. x.pc # "startup" /\ BeginSync(t, "serve")
    BY <1>8 DEF publishIdle
  <2> QED
    BY <1>5, <2>1, Zenon
<1>9. CASE ServeEnds(t)
  <2>1. CASE x.pc = "cleanup" /\ BeginSync(t, "cleanup")
    <3>1. x.pc # "startup"
      BY <2>1
    <3> QED
      BY <1>5, <2>1, <3>1, Zenon
  <2> QED
    BY <1>9, <2>1, SessionTurns, Zenon DEF ServeEnds
<1>10. CASE Close(t)
  <2>1. x.pc # "startup"
    BY <1>10 DEF Close
  <2>2. CASE Leave(t, "closed") /\ UNCHANGED <<kind, disk, ops, promised>>
    BY <1>2, <2>2, LeftStep, Zenon DEF Reports
  <2> QED
    BY <1>5, <1>10, <2>1, <2>2, Zenon DEF Close
<1> QED
  BY <1>6, <1>7, <1>8, <1>9, <1>10, Zenon

LEMMA RestoreStep ==
  ASSUME StorageInv, NEW t \in Tabs, Restore(t)
  PROVE  StorageInv'
<1> DEFINE g == [p \in Paths |-> IF p \in Essential THEN File(ops + 1) ELSE Absent]
           v == IF kind = "opfs" THEN "apply" ELSE "transact"
           y == [Idle EXCEPT !.at = "restore", !.base = Durable, !.guest = g, !.pc = v]
           refused == \/ phase \in {"ready", "empty"}
                      \/ phase = "initializing" /\ (Missing(stored) \/ ~Valid(Read(stored)))
<1>1. tab[t].pc = "locked" /\ tab[t].pc # "idle" /\ ops < MaxOps /\ kind' = kind
  BY Zenon DEF Restore
<1>2. RestType /\ DiskInv /\ StoredIsPromised /\ lock = t
  BY <1>1, Holder, Zenon
<1>3. CASE refused
  <2>1. /\ Leave(t, "unchanged") /\ UNCHANGED <<phase, ops, promised>>
        /\ IF phase = "ready" /\ kind = "opfs"
           THEN /\ stored' = Persistent(stored)
                /\ data' \in IF stored' = stored THEN {data} ELSE Pruned(stored')
           ELSE UNCHANGED <<stored, data>>
    BY <1>3, Zenon DEF Restore
  <2>2. DiskInv' /\ Durable' = Durable /\ data' \in DataSet /\ stored' \in [Paths -> Entries]
    <3>1. CASE phase = "ready" /\ kind = "opfs"
      <4>1. /\ stored' = Persistent(stored) /\ phase \in {"initializing", "ready"}
            /\ data' \in IF Persistent(stored) = stored THEN {data} ELSE Pruned(Persistent(stored))
        BY <2>1, <3>1
      <4> QED
        BY <1>1, <1>2, <2>1, <3>1, <4>1, PersistentDisk, Zenon
    <3>2. CASE ~(phase = "ready" /\ kind = "opfs")
      <4>1. stored' = stored /\ data' = data
        BY <2>1, <3>2, Zenon
      <4> QED
        BY <1>1, <1>2, <2>1, <4>1, SameDisk, Zenon DEF RestType
    <3> QED
      BY <3>1, <3>2, Zenon
  <2>3. StoredIsPromised'
    BY <1>2, <2>1, <2>2, PromiseStays, Zenon
  <2> QED
    BY <1>1, <1>2, <2>1, <2>2, <2>3, LeaveStep, Zenon DEF Reports, RestType
<1>4. CASE ~refused
  <2>1. /\ tab' = [tab EXCEPT ![t] = y] /\ report' = None /\ ops' = ops + 1
        /\ promised' = promised \cup {Target(y)} /\ lock' = lock
        /\ IF phase = "initializing"
           THEN phase' = "absent" /\ stored' = Nothing /\ data' = [b \in Backings |-> Absent]
           ELSE UNCHANGED disk
    BY <1>4, Zenon DEF Restore, Become
  <2>2. phase \in {"absent", "initializing"}
    BY <1>2, <1>4 DEF RestType, Phases
  <2>3. phase' = "absent" /\ stored' = Nothing /\ data' \in DataSet
    <3>1. CASE phase = "initializing"
      BY <2>1, <3>1, ZenonT(40) DEF DataSet
    <3>2. CASE phase = "absent"
      BY <1>2, <2>1, <3>2, Zenon DEF disk, DiskInv, RestType
    <3> QED
      BY <2>2, <3>1, <3>2, Zenon
  <2>4. Durable' = Durable /\ phase' # "empty" /\ phase' \in Phases /\ phase' # "ready"
        /\ phase' # "initializing"
    <3>1. phase # "ready" /\ phase' # "ready" /\ phase' # "empty" /\ phase' \in Phases
          /\ phase' # "initializing"
      BY <2>2, <2>3 DEF Phases
    <3> QED
      BY <3>1, Unpublished, Zenon
  <2>5. DiskInv'
    <3>1. /\ Nothing \in [Paths -> Contents] /\ \A p \in Paths : Nothing[p] = Absent
      BY EmptySnapshot, Zenon
    <3>2. \A p \in Paths : stored'[p] = Absent /\ stored'[p] \notin Files /\ stored'[p][1] # "at"
      BY <2>3, <3>1, EntryFacts, ContentFacts, Zenon
    <3>3. \A p \in Volatile : stored'[p] = Absent
      BY <3>2, StorageAssumption, Zenon
    <3> QED
      BY <2>3, <2>4, <3>1, <3>2, <3>3, Zenon DEF DiskInv
  <2>6. ops' \in 0..MaxOps /\ ops + 1 \in 0..MaxOps
    <3>1. ops + 1 \in 0..MaxOps
      BY <1>1, <1>2, StorageAssumption DEF RestType
    <3> QED
      BY <2>1, <3>1, Zenon
  <2>7. g \in [Paths -> Contents] /\ Valid(g)
    <3>1. File(ops + 1) \in Files
      BY <2>6, ContentFacts, Zenon
    <3>2. g \in [Paths -> Contents] /\ \A p \in Paths : g[p] = IF p \in Essential THEN File(ops + 1) ELSE Absent
      BY <3>1, Zenon DEF Contents
    <3> HIDE DEF g
    <3>3. \A p \in Paths : g[p] # Absent => Ancestors[p] = {}
      BY <3>2, StorageAssumption, Zenon
    <3>4. \A p \in Essential : g[p] \in Files
      BY <3>1, <3>2, WithinFacts, Zenon DEF Kept
    <3> QED
      BY <3>2, <3>3, <3>4, Zenon DEF Valid, Related
  <2>8. v \in {"apply", "transact"} /\ v \in Steps /\ v \in Applying /\ v \notin Leased
        /\ (v = "transact" <=> kind = "indexedDb") /\ v # "prune" /\ v # "commit"
    BY <1>2, StorageAssumption DEF Steps, Applying, Leased, RestType
  <2> HIDE DEF v, g
  <2>9. /\ y \in TabSet /\ y.pc = v /\ y.at = "restore" /\ y.base = Durable /\ y.guest = g
        /\ y.unsure = FALSE /\ y.hasStoredGeneration = FALSE
        /\ y.initializationPending = FALSE /\ y.at # None
        /\ \A p \in Paths : y.persistedEntries[p] = "absent"
    <3>1. Durable \in [Paths -> Contents \cup {Empty}]
      BY <1>2, DurableType, Zenon
    <3>2. /\ Idle.unsure = FALSE /\ Idle.hasStoredGeneration = FALSE
          /\ Idle.initializationPending = FALSE
          /\ \A p \in Paths : Idle.persistedEntries[p] = "absent"
      BY DEF Idle
    <3> QED
      BY <2>7, <2>8, <3>1, <3>2, IdleType, Zenon DEF TabSet, Boundaries, None
  <2> HIDE DEF y
  <2>10. tab'[t] = y
    BY <2>1, Zenon DEF StorageInv, TypeOK
  <2>11. LeaseInv(tab[t])'
    BY <1>1, <2>3, <2>4, <2>7, <2>8, <2>9, <2>10, Zenon DEF LeaseInv
  <2>12. MemoryInv(tab[t])'
    <3>1. scope(y) = Kept
      BY <2>9, Zenon DEF scope
    <3>2. \A p \in Kept : y.persistedEntries[p] = type(View(data', stored')[p])
      <4>1. \A p \in Paths : View(data', stored')[p] = Absent
        BY <2>3, EmptySnapshot, Zenon
      <4> QED
        BY <2>9, <4>1, TypeFacts, Zenon DEF Kept
    <3> QED
      BY <2>9, <2>10, <3>1, <3>2, Zenon DEF MemoryInv
  <2>13. RestType'
    BY <1>1, <1>2, <2>1, <2>3, <2>4, <2>6, EmptySnapshot, Zenon DEF RestType, Reports
  <2>14. Target(y) \in promised' /\ promised \subseteq promised'
    BY <2>1, Zenon
  <2> QED
    BY <1>1, <2>1, <2>4, <2>5, <2>9, <2>11, <2>12, <2>13, <2>14, BegunStep, Zenon DEF v
<1> QED
  BY <1>3, <1>4, ZenonT(40)

-----------------------------------------------------------------------------
(* The store applies the delta *)

\* A caller that goes on after a failure had a published generation.
LEMMA Lasting ==
  ASSUME NEW x \in TabSet, x.pc \in Applying, LeaseInv(x), NEW r, r # "ok", ~Departs(x, r)
  PROVE  phase = "ready" /\ x.hasStoredGeneration /\ ~x.initializationPending
<1>1. x.pc \notin Leased /\ x.at # "full" /\ x.at # "restore"
  BY DEF Applying, Leased, Departs
<1>2. x.at # None /\ ~x.initializationPending
  BY <1>1, Zenon DEF LeaseInv
<1> QED
  BY <1>1, <1>2, Zenon DEF LeaseInv

\* The guest's database is stored.
LEMMA PublishedStep ==
  ASSUME StorageInv, NEW t \in Tabs, tab[t].pc \in {"transact", "prune"}, Published(t),
         UNCHANGED <<kind, ops>>, phase' = "ready", stored' \in [Paths -> Entries],
         data' \in DataSet, DiskInv', Matches(tab[t], View(data', stored'))
  PROVE  StorageInv'
<1> DEFINE x == tab[t]
           m == [p \in Paths |-> IF p \in upserts(x) THEN type(x.guest[p])
                                 ELSE IF p \in deleted(x) THEN "absent"
                                 ELSE x.persistedEntries[p]]
           y == [x EXCEPT !.hasStoredGeneration = TRUE, !.initializationPending = FALSE,
                          !.persistedEntries = m]
           z == [y EXCEPT !.journal = {}]
           v == View(data', stored')
<1>1. x.pc # "idle" /\ x.pc \in Applying
  BY DEF Applying
<1>2. RestType /\ LeaseInv(x) /\ MemoryInv(x) /\ x \in TabSet
  BY <1>1, Holder, Zenon DEF TabInv
<1>3. /\ Settle(t, z, "ok") \/ Settle(t, y, "persisted")
      /\ promised' = {Target(y)}
  BY Zenon DEF Published
<1>4. x.guest \in [Paths -> Contents] /\ x.unsure \in BOOLEAN
      /\ x.persistedEntries \in [Paths -> {"absent", "dir", "file"}]
  BY <1>2 DEF TabSet
<1>5. m \in [Paths -> {"absent", "dir", "file"}]
  BY <1>4, TypeFacts, Zenon
<1>6. \A p \in Paths : m[p] = IF p \in upserts(x) THEN type(x.guest[p])
                              ELSE IF p \in deleted(x) THEN "absent" ELSE x.persistedEntries[p]
  BY Zenon
<1> HIDE DEF m
<1>7. /\ y \in TabSet /\ y.persistedEntries = m /\ y.hasStoredGeneration
      /\ ~y.initializationPending /\ y.guest = x.guest /\ y.unsure = x.unsure
  BY <1>2, <1>5, Zenon DEF TabSet
<1> HIDE DEF y
<1>8. /\ z \in TabSet /\ z.persistedEntries = m /\ z.hasStoredGeneration
      /\ ~z.initializationPending /\ z.guest = x.guest /\ z.unsure = x.unsure
  BY <1>7 DEF TabSet
<1> HIDE DEF z
<1>9. ~x.unsure => \A p \in Kept : m[p] = type(v[p])
  <2> SUFFICES ASSUME ~x.unsure, NEW p \in Kept PROVE m[p] = type(v[p])
    OBVIOUS
  <2>1. p \in Paths /\ v[p] = x.guest[p]
    BY Zenon DEF Kept, Matches
  <2>2. m[p] = IF p \in upserts(x) THEN type(x.guest[p])
               ELSE IF p \in deleted(x) THEN "absent" ELSE x.persistedEntries[p]
    BY <1>6, <2>1, Zenon
  <2>3. CASE p \in upserts(x)
    BY <2>1, <2>2, <2>3, Zenon
  <2>4. CASE p \notin scope(x)
    <3>1. p \notin upserts(x) /\ p \notin deleted(x)
      BY <2>4, Zenon DEF upserts, deleted
    <3>2. x.persistedEntries[p] = type(x.guest[p])
      BY <1>1, <1>2, <2>4, Zenon DEF MemoryInv
    <3> QED
      BY <2>1, <2>2, <3>1, <3>2, Zenon
  <2>5. CASE p \in scope(x) /\ p \notin upserts(x)
    <3>1. type(x.guest[p]) = "absent"
      BY <2>5, TypeFacts, Zenon DEF upserts
    <3>2. p \notin deleted(x) => x.persistedEntries[p] = "absent"
      BY <2>5, <3>1, Zenon DEF deleted
    <3> QED
      BY <2>1, <2>2, <2>5, <3>1, <3>2, Zenon
  <2> QED
    BY <2>3, <2>4, <2>5, Zenon
<1>10. \A p \in Kept : x.guest[p] # Absent \/ ~x.unsure => v[p] = x.guest[p]
  BY Zenon DEF Matches
<1> HIDE DEF v
<1>11. StoredIsPromised'
  <2>1. Matches(y, View(data', stored'))
    BY <1>7, <1>10, Zenon DEF Matches, v
  <2>2. Target(y) \in promised' /\ y.unsure \in BOOLEAN
    BY <1>3, <1>4, <1>7, Zenon
  <2> QED
    BY <2>1, <2>2, PromiseMatches
<1>12. Valid(x.guest) /\ (kind = "indexedDb" => ~x.unsure)
  BY <1>1, <1>2, Zenon DEF LeaseInv
<1>13. kind' = kind /\ ops' \in 0..MaxOps /\ phase' \in Phases
  BY <1>2 DEF RestType, Phases
<1>14. ASSUME NEW w \in {y, z}, NEW r \in Reports, Settle(t, w, r) PROVE StorageInv'
  <2>1. /\ w \in TabSet /\ w.persistedEntries = m /\ w.hasStoredGeneration
        /\ ~w.initializationPending /\ w.guest = x.guest /\ w.unsure = x.unsure
    BY <1>7, <1>8, <1>14, Zenon
  <2>2. /\ Valid(w.guest) /\ (kind = "indexedDb" => ~w.unsure)
        /\ \A p \in Kept \ scope(w) : w.guest[p] # Absent \/ ~w.unsure =>
             View(data', stored')[p] = w.guest[p]
        /\ ~w.unsure => \A p \in Kept : w.persistedEntries[p] = type(View(data', stored')[p])
    BY <1>9, <1>10, <1>12, <2>1, Zenon DEF v
  <2> QED
    BY <1>1, <1>11, <1>13, <1>14, <2>1, <2>2, SettledStep, Zenon
<1> QED
  BY <1>3, <1>14, Zenon DEF Reports

\* The transaction leaves the guest's database in the rows.
LEMMA TransactDisk ==
  ASSUME StorageInv, NEW t \in Tabs, Transact(t)
  PROVE  /\ DiskInv' /\ stored' \in [Paths -> Entries] /\ data' \in DataSet
         /\ Matches(tab[t], View(data', stored'))
<1> DEFINE x == tab[t]
<1>1. /\ x.pc = "transact" /\ phase' = "ready" /\ Published(t) /\ UNCHANGED <<kind, data, ops>>
      /\ stored' = [p \in Paths |-> IF p \in upserts(x) THEN x.guest[p]
                                    ELSE IF p \in deleted(x) THEN Absent ELSE stored[p]]
  BY Zenon DEF Transact
<1>2. x.pc # "idle" /\ x.pc \in Applying /\ x.pc # "prune" /\ x.pc \in {"transact", "prune"}
  BY <1>1 DEF Applying
<1>3. RestType /\ DiskInv /\ LeaseInv(x) /\ MemoryInv(x) /\ x \in TabSet
  BY <1>2, Holder, Zenon DEF TabInv
<1>4. kind = "indexedDb" /\ ~x.unsure /\ Valid(x.guest)
  BY <1>1, <1>2, <1>3, Zenon DEF LeaseInv
<1>5. stored \in [Paths -> Contents] /\ \A p \in Volatile : stored[p] = Absent
  BY <1>3, <1>4, Zenon DEF DiskInv
<1>6. View(data, stored) = stored
  BY <1>5, ContentView, Zenon
<1>7. x.guest \in [Paths -> Contents]
  BY <1>3 DEF TabSet
<1>8. \A p \in Paths : stored'[p] = IF p \in Volatile THEN Absent ELSE x.guest[p]
  <2> SUFFICES ASSUME NEW p \in Paths
               PROVE  stored'[p] = IF p \in Volatile THEN Absent ELSE x.guest[p]
    OBVIOUS
  <2>1. stored'[p] = IF p \in upserts(x) THEN x.guest[p]
                     ELSE IF p \in deleted(x) THEN Absent ELSE stored[p]
    BY <1>1, Zenon
  <2>2. CASE p \notin scope(x)
    <3>1. p \notin upserts(x) /\ p \notin deleted(x)
      BY <2>2, Zenon DEF upserts, deleted
    <3>2. p \in Kept => stored[p] = x.guest[p]
      BY <1>2, <1>3, <1>4, <1>6, <2>2, Zenon DEF MemoryInv
    <3> QED
      BY <1>5, <2>1, <3>1, <3>2, Zenon DEF Kept
  <2>3. CASE p \in scope(x)
    <3>1. p \in Kept /\ p \notin Volatile
      BY <2>3, Zenon DEF scope, Kept
    <3>2. CASE p \in upserts(x)
      BY <2>1, <3>1, <3>2, Zenon
    <3>3. CASE p \notin upserts(x)
      <4>1. x.guest[p] = Absent
        BY <2>3, <3>3, Zenon DEF upserts
      <4>2. p \notin deleted(x) => x.persistedEntries[p] = "absent"
        BY <2>3, <4>1, TypeFacts, Zenon DEF deleted
      <4>3. x.persistedEntries[p] = type(stored[p]) /\ stored[p] \in Contents
        BY <1>2, <1>3, <1>4, <1>5, <1>6, <3>1, Zenon DEF MemoryInv
      <4>4. p \notin deleted(x) => stored[p] = Absent
        BY <4>2, <4>3, TypeFacts, Zenon
      <4> QED
        BY <2>1, <3>1, <3>3, <4>1, <4>4, Zenon
    <3> QED
      BY <3>2, <3>3, Zenon
  <2> QED
    BY <2>2, <2>3, Zenon
<1>9. stored' = Persistent(x.guest)
  <2>1. stored' = [p \in Paths |-> stored'[p]]
    BY <1>1, Zenon
  <2> QED
    BY <1>8, <2>1, Zenon DEF Persistent
<1>10. stored' \in [Paths -> Contents] /\ \A p \in Volatile : stored'[p] = Absent
  BY <1>7, <1>8, <1>9, StorageAssumption, Zenon DEF Persistent, Contents
<1>11. /\ View(data', stored') = stored' /\ Backed(data', stored')
       /\ stored' \in [Paths -> Entries]
  BY <1>10, ContentView, Zenon
<1>12. Valid(View(data', stored'))
  <2>1. View(data, x.guest) = x.guest /\ x.guest \in [Paths -> Entries]
    BY <1>7, ContentView, Zenon
  <2>2. Valid(View(data, x.guest)) => Valid(View(data, Persistent(x.guest)))
    BY <2>1, PersistentFacts, Zenon
  <2>3. Valid(View(data, Persistent(x.guest)))
    BY <1>4, <2>1, <2>2, Zenon
  <2>4. View(data', stored') = View(data, Persistent(x.guest))
    BY <1>1, <1>9, Zenon
  <2> QED
    BY <2>3, <2>4, Zenon
<1>13. Matches(x, View(data', stored'))
  BY <1>8, <1>11, Zenon DEF Matches, Kept
<1>14. DiskInv'
  <2>1. \A p \in Paths : stored'[p][1] # "at"
    BY <1>10, ContentFacts, Zenon
  <2>2. kind' = "indexedDb" /\ kind' # "opfs" /\ phase' \notin {"absent", "empty", "initializing"}
        /\ phase' # "initializing" /\ phase' \in {"absent", "ready"}
    BY <1>1, <1>4
  <2> QED
    BY <1>10, <1>11, <1>12, <2>1, <2>2, Zenon DEF DiskInv
<1> QED
  BY <1>1, <1>3, <1>11, <1>13, <1>14, Zenon DEF RestType

LEMMA TransactStep ==
  ASSUME StorageInv, NEW t \in Tabs, Transact(t)
  PROVE  StorageInv'
<1>1. tab[t].pc = "transact" /\ phase' = "ready" /\ Published(t) /\ UNCHANGED <<kind, ops>>
  BY Zenon DEF Transact
<1>2. /\ DiskInv' /\ stored' \in [Paths -> Entries] /\ data' \in DataSet
      /\ Matches(tab[t], View(data', stored'))
  BY TransactDisk, Zenon
<1> QED
  BY <1>1, <1>2, PublishedStep, Zenon

\* What is stored before the state file is replaced is backed.
LEMMA StoredBacked ==
  ASSUME RestType, DiskInv, NEW x, LeaseInv(x), x.pc \in Applying \ {"prune"}, x \in TabSet
  PROVE  Backed(data, stored) /\ stored \in [Paths -> Entries]
<1>1. stored \in [Paths -> Entries] /\ x.hasStoredGeneration \in BOOLEAN
  BY DEF RestType, TabSet
<1>2. CASE x.hasStoredGeneration
  BY <1>1, <1>2, Zenon DEF LeaseInv
<1>3. CASE ~x.hasStoredGeneration
  <2>1. x.pc # "prune" /\ x.pc \in Leased \cup Applying
    BY Zenon
  <2>2. stored = Nothing
    BY <1>3, <2>1, Zenon DEF LeaseInv
  <2> QED
    BY <1>1, <2>2, EmptySnapshot, Zenon
<1> QED
  BY <1>2, <1>3, Zenon

\* A boundary that failed before the state file was replaced.
LEMMA FailedStep ==
  ASSUME StorageInv, NEW t \in Tabs, tab[t].pc \in Applying \ {"prune"},
         NEW r \in Reports \ {"ok"}, Settle(t, tab[t], r), data' \in Interrupted(t),
         UNCHANGED <<kind, phase, stored, ops>>, Durable' = Durable => StoredIsPromised'
  PROVE  StorageInv'
<1> DEFINE x == tab[t]
<1>1. x.pc # "idle" /\ x.pc # "prune" /\ x.pc \in Applying
  BY DEF Applying
<1>2. RestType /\ DiskInv /\ LeaseInv(x) /\ MemoryInv(x) /\ x \in TabSet
  BY <1>1, Holder, Zenon DEF TabInv
<1>3. DiskInv' /\ Durable' = Durable /\ data' \in DataSet
  BY <1>2, InterruptedDisk, Zenon
<1>4. Backed(data, stored) /\ stored \in [Paths -> Entries]
  BY <1>2, StoredBacked, Zenon
<1>5. \A b \in referenced(stored) : data'[b] = data[b]
  <2>1. \A b \in Backings : data[b] # Absent => data'[b] = data[b]
    BY <1>2, InterruptedKeeps, Zenon DEF RestType
  <2> QED
    BY <1>4, <2>1, BackedIsUsed, Zenon
<1>6. View(data', stored') = View(data, stored)
  <2>1. View(data', stored) = View(data, stored)
    BY <1>4, <1>5, SameView, ZenonT(40)
  <2> QED
    BY <2>1, Zenon
<1>7. Valid(x.guest) /\ (kind = "indexedDb" => ~x.unsure)
  BY <1>1, <1>2, Zenon DEF LeaseInv
<1>8. /\ \A p \in Kept \ scope(x) : x.guest[p] # Absent \/ ~x.unsure =>
           View(data', stored')[p] = x.guest[p]
      /\ ~x.unsure => \A p \in Kept : x.persistedEntries[p] = type(View(data', stored')[p])
  BY <1>1, <1>2, <1>6, Zenon DEF MemoryInv
<1>9. ~Departs(x, r) => phase' = "ready" /\ x.hasStoredGeneration /\ ~x.initializationPending
  BY <1>1, <1>2, Lasting, Zenon
<1>10. kind' = kind /\ ops' \in 0..MaxOps /\ phase' \in Phases /\ stored' \in [Paths -> Entries]
  BY <1>2, <1>4, Zenon DEF RestType
<1> QED
  BY <1>1, <1>2, <1>3, <1>7, <1>8, <1>9, <1>10, SettledStep, Zenon

LEMMA AbortStep ==
  ASSUME StorageInv, NEW t \in Tabs, Abort(t)
  PROVE  StorageInv'
<1> DEFINE r == IF tab[t].at = "restore" THEN "unchanged" ELSE "not-persisted"
           s == [snap |-> Durable, exact |-> TRUE]
<1>1. /\ tab[t].pc = "transact" /\ Settle(t, tab[t], r) /\ promised' = {s}
      /\ UNCHANGED <<kind, disk, ops>>
  BY Zenon DEF Abort
<1>2. r \in Reports \ {"ok"} /\ tab[t].pc \in Applying \ {"prune"} /\ s.snap = Durable
  BY <1>1 DEF Reports, Applying, None
<1> HIDE DEF r, s
<1>3. data' \in Interrupted(t) /\ UNCHANGED <<kind, phase, stored, ops>>
  BY <1>1, Zenon DEF Interrupted, disk
<1>4. ASSUME Durable' = Durable PROVE StoredIsPromised'
  <2>1. s.snap = Durable' /\ s \in promised'
    BY <1>1, <1>2, <1>4, Zenon
  <2> QED
    BY <2>1, PromiseExact, Zenon
<1> QED
  BY <1>1, <1>2, <1>3, <1>4, FailedStep, Zenon

\* The state file is not replaced yet.
LEMMA ApplyTurn ==
  ASSUME StorageInv, NEW t \in Tabs, tab[t].pc \in {"apply", "write"}, NEW y \in TabSet,
         Become(t, y), SameLease(tab[t], y), y.at = tab[t].at, y.base = tab[t].base,
         y.pc \in {"write", "commit"}, UNCHANGED <<kind, lock, stored, ops, promised>>,
         data' \in DataSet, \A b \in referenced(stored) : data'[b] = data[b],
         \/ phase' = phase
         \/ phase = "absent" /\ phase' = "empty" /\ y.pc = "commit",
         ApplyInv(tab[t])'
  PROVE  StorageInv'
<1> DEFINE x == tab[t]
<1>1. /\ x.pc # "idle" /\ x.pc # "prune" /\ x.pc # "commit" /\ x.pc # "transact"
      /\ x.pc \in Applying /\ x.pc \notin Leased /\ x.pc \in Applying \ {"prune"}
  BY DEF Applying, Leased
<1>2. /\ y.pc # "idle" /\ y.pc # "prune" /\ y.pc # "transact" /\ y.pc \in Applying
      /\ y.pc \notin Leased
      /\ y.pc \notin {"idle", "locked", "seed", "seedCommit", "inspect"}
  BY DEF Applying, Leased
<1>3. /\ Alone(t) /\ RestType /\ DiskInv /\ StoredIsPromised /\ lock = t /\ x \in TabSet
      /\ LeaseInv(x) /\ MemoryInv(x) /\ PromiseInv(x)
  BY <1>1, Holder, Zenon DEF TabInv
<1>4. tab' = [tab EXCEPT ![t] = y] /\ report' = None /\ tab'[t] = y
  BY Zenon DEF Become, StorageInv, TypeOK
<1>5. Backed(data, stored) /\ stored \in [Paths -> Entries]
  BY <1>1, <1>3, StoredBacked, Zenon
<1>6. View(data', stored') = View(data, stored) /\ Backed(data', stored')
  <2>1. View(data', stored) = View(data, stored) /\ Backed(data', stored)
    BY <1>5, SameView, Zenon
  <2> QED
    BY <2>1, Zenon
<1>7. kind # "indexedDb"
  BY <1>1, <1>3, Zenon DEF LeaseInv
<1>8. DiskInv' /\ Durable' = Durable /\ phase' \in Phases
  <2>1. CASE phase' = phase
    BY <1>3, <1>5, <2>1, OtherData, Zenon DEF RestType
  <2>2. CASE phase = "absent" /\ phase' = "empty"
    <3>1. phase # "ready" /\ phase' # "ready" /\ phase' # "initializing" /\ stored = Nothing
          /\ phase' \in Phases
      BY <1>3, <2>2 DEF DiskInv, Phases
    <3>2. DiskInv'
      BY <1>3, <1>7, <3>1, Zenon DEF DiskInv
    <3> QED
      BY <3>1, <3>2, Unpublished, Zenon
  <2> QED
    BY <2>1, <2>2, Zenon
<1>9. LeaseInv(tab[t])'
  <2>1. /\ Valid(y.guest) /\ y.at # None
        /\ y.at = "restore" => ~y.hasStoredGeneration
        /\ y.initializationPending => y.at \in {None, "full"}
    BY <1>1, <1>3, Zenon DEF LeaseInv, SameLease
  <2>2. ASSUME ~y.hasStoredGeneration
        PROVE  /\ y.initializationPending \/ y.at = "restore"
               /\ stored' = Nothing /\ phase' \in {"absent", "empty"}
               /\ phase' = "empty" => y.pc = "commit"
    <3>1. /\ y.initializationPending \/ y.at = "restore"
          /\ stored = Nothing /\ phase \in {"absent", "empty"} /\ phase # "empty"
      BY <1>1, <1>3, <2>2, Zenon DEF LeaseInv, SameLease
    <3> QED
      BY <3>1
  <2>3. ASSUME y.hasStoredGeneration
        PROVE  /\ phase' = "ready" \/ (phase' = "initializing" /\ y.initializationPending)
               /\ Backed(data', stored') /\ Valid(View(data', stored'))
    <3>1. /\ phase = "ready" \/ (phase = "initializing" /\ y.initializationPending)
          /\ Valid(View(data, stored))
      BY <1>1, <1>3, <2>3, Zenon DEF LeaseInv, SameLease
    <3>2. phase' = phase
      BY <3>1
    <3> QED
      BY <1>6, <3>1, <3>2, Zenon
  <2> QED
    BY <1>2, <1>4, <1>7, <2>1, <2>2, <2>3, Zenon DEF LeaseInv
<1>10. MemoryInv(tab[t])'
  <2>1. scope(y) = scope(x)
    BY SameDelta, Zenon
  <2>2. /\ ~y.hasStoredGeneration =>
             ~y.unsure /\ \A p \in Paths : y.persistedEntries[p] = "absent"
        /\ \A p \in Kept \ scope(y) :
             y.guest[p] # Absent \/ ~y.unsure => View(data', stored')[p] = y.guest[p]
    BY <1>1, <1>3, <1>6, <2>1, ZenonT(40) DEF MemoryInv, SameLease
  <2>3. /\ ~y.unsure => \A p \in Kept : y.persistedEntries[p] = type(View(data', stored')[p])
        /\ ~y.unsure => \A p \in Kept \ scope(y) : y.persistedEntries[p] = type(y.guest[p])
    BY <1>1, <1>3, <1>6, <2>1, Zenon DEF MemoryInv, SameLease
  <2> QED
    BY <1>4, <2>2, <2>3, ZenonT(40) DEF MemoryInv
<1>11. PromiseInv(tab[t])'
  <2>1. Target(y) = Target(x)
    BY SameDelta, Zenon
  <2>2. Target(x) \in promised /\ x.base = Durable
    BY <1>1, <1>3, Zenon DEF PromiseInv
  <2>3. Target(y) \in promised' /\ y.base = Durable'
    BY <1>8, <2>1, <2>2
  <2> QED
    BY <1>4, <2>3, Zenon DEF PromiseInv
<1>12. OpenInv(tab[t])'
  BY <1>2, <1>4, Zenon DEF OpenInv
<1>13. RestType' /\ StoredIsPromised'
  BY <1>3, <1>4, <1>8, PromiseStays, Zenon DEF RestType, Reports
<1> QED
  BY <1>2, <1>3, <1>4, <1>8, <1>9, <1>10, <1>11, <1>12, <1>13, Combine, Zenon DEF TabInv

\* Entries that are kept, dropped or made directories stay backed.
LEMMA FewerEntries ==
  ASSUME NEW d, NEW e \in [Paths -> Entries], Backed(d, e), NEW g \in [Paths -> Entries],
         \A p \in Paths : g[p] = e[p] \/ g[p] = Absent \/ g[p] = Dir
  PROVE  /\ Backed(d, g)
         /\ \A p \in Paths : /\ g[p] = e[p] => View(d, g)[p] = View(d, e)[p]
                             /\ g[p] = Absent => View(d, g)[p] = Absent
                             /\ g[p] = Dir => View(d, g)[p] = Dir
<1>1. \A p \in Paths : g[p][1] = "at" => g[p] = e[p]
  BY EntryFacts, Zenon
<1>2. Backed(d, g)
  BY <1>1, Zenon DEF Backed
<1>3. ASSUME NEW p \in Paths, g[p] = e[p] PROVE View(d, g)[p] = View(d, e)[p]
  <2>1. /\ View(d, g)[p] = IF g[p][1] = "at" THEN d[g[p][2]] ELSE g[p]
        /\ View(d, e)[p] = IF e[p][1] = "at" THEN d[e[p][2]] ELSE e[p]
    BY Zenon DEF View
  <2> QED
    BY <1>3, <2>1
<1>4. \A p \in Paths : (g[p] = Absent => View(d, g)[p] = Absent) /\ (g[p] = Dir => View(d, g)[p] = Dir)
  BY <1>2, ViewCases, Zenon
<1> QED
  BY <1>2, <1>3, <1>4, Zenon

\* What lies below a path of the delta is in the delta.
LEMMA ScopeIsClosed ==
  ASSUME NEW x \in TabSet, NEW p \in Kept, NEW q \in scope(x), Within(p, q)
  PROVE  p \in scope(x)
<1>1. x.journal \subseteq Paths
  BY DEF TabSet
<1>2. p \in Paths /\ q \in Paths
  BY Zenon DEF Kept, scope
<1>3. CASE ~x.hasStoredGeneration
  BY <1>3, Zenon DEF scope
<1>4. CASE x.hasStoredGeneration
  <2>1. PICK root \in x.journal : Within(q, root)
    BY <1>4, Zenon DEF scope
  <2>2. Within(p, root)
    BY <1>1, <1>2, <2>1, WithinFacts, Zenon
  <2> QED
    BY <1>4, <2>1, <2>2, Zenon DEF scope
<1> QED
  BY <1>3, <1>4, Zenon

LEMMA ApplyStep ==
  ASSUME StorageInv, NEW t \in Tabs, Apply(t)
  PROVE  StorageInv'
<1> DEFINE x == tab[t]
           gone == deleted(x) \cap upserts(x)
           e == [p \in Paths |-> IF p \in upserts(x) /\ x.guest[p] = Dir THEN Dir
                                 ELSE without(stored, gone)[p]]
           f == {p \in upserts(x) : x.guest[p] # Dir}
           y == [x EXCEPT !.pc = "write", !.entries = e, !.files = f]
<1>1. x.pc = "apply"
  BY Zenon DEF Apply
<1>2. /\ x.pc # "idle" /\ x.pc # "prune" /\ x.pc # "transact" /\ x.pc \in Applying
      /\ x.pc \in Applying \ {"prune"} /\ x.pc \in {"apply", "write"}
  BY <1>1 DEF Applying
<1>3. RestType /\ DiskInv /\ x \in TabSet /\ LeaseInv(x) /\ MemoryInv(x)
  BY <1>2, Holder, Zenon DEF TabInv
<1>4. kind = "opfs" /\ x.guest \in [Paths -> Contents] /\ x.unsure \in BOOLEAN
  <2>1. kind # "indexedDb"
    BY <1>2, <1>3, Zenon DEF LeaseInv
  <2> QED
    BY <1>3, <2>1, StorageAssumption DEF RestType, TabSet
<1>5. (IF phase = "absent" THEN Nothing ELSE stored) = stored
  BY <1>3, Zenon DEF DiskInv
<1>6. data' \in Pruned(stored) /\ Become(t, y)
      /\ UNCHANGED <<kind, lock, phase, stored, ops, promised>>
  BY <1>5, Zenon DEF Apply
<1>7. data' \in DataSet /\ \A b \in referenced(stored) : data'[b] = data[b]
  BY <1>3, <1>6, PrunedKeeps, Zenon DEF RestType
<1>8. Backed(data, stored) /\ stored \in [Paths -> Entries]
  BY <1>2, <1>3, StoredBacked, Zenon
<1>9. View(data', stored) = View(data, stored) /\ Backed(data', stored)
  BY <1>7, <1>8, SameView, Zenon
<1>10. \A p \in Paths : without(stored, gone)[p] =
         IF \E q \in gone : Within(p, q) THEN Absent ELSE stored[p]
  BY Zenon DEF without
<1>11. \A p \in Paths : e[p] = IF p \in upserts(x) /\ x.guest[p] = Dir THEN Dir
                               ELSE IF \E q \in gone : Within(p, q) THEN Absent ELSE stored[p]
  BY <1>10, Zenon
<1>12. e \in [Paths -> Entries] /\ \A p \in Paths : e[p] = stored[p] \/ e[p] = Absent \/ e[p] = Dir
  <2>1. \A p \in Paths : e[p] = stored[p] \/ e[p] = Absent \/ e[p] = Dir
    BY <1>11, Zenon
  <2>2. Absent \in Entries /\ Dir \in Entries
    BY Zenon DEF Entries
  <2>3. \A p \in Paths : e[p] \in Entries
    BY <1>8, <2>1, <2>2, Zenon
  <2> QED
    BY <2>1, <2>3, Zenon
<1>13. f \subseteq Paths /\ \A p : p \in f <=> p \in upserts(x) /\ x.guest[p] # Dir
  BY Zenon DEF upserts, scope, Kept
<1> HIDE DEF e, f, gone
<1>14. /\ y \in TabSet /\ SameLease(x, y) /\ y.at = x.at /\ y.base = x.base /\ y.pc = "write"
       /\ y.entries = e /\ y.files = f
  BY <1>3, <1>12, <1>13, Zenon DEF TabSet, SameLease, Steps
<1> HIDE DEF y
<1>15. tab'[t] = y
  BY <1>6, Zenon DEF Become, StorageInv, TypeOK
<1>16. /\ Backed(data', e)
       /\ \A p \in Paths : /\ e[p] = stored[p] => View(data', e)[p] = View(data, stored)[p]
                           /\ e[p] = Absent => View(data', e)[p] = Absent
                           /\ e[p] = Dir => View(data', e)[p] = Dir
  <2>1. /\ Backed(data', e)
        /\ \A p \in Paths : /\ e[p] = stored[p] => View(data', e)[p] = View(data', stored)[p]
                            /\ e[p] = Absent => View(data', e)[p] = Absent
                            /\ e[p] = Dir => View(data', e)[p] = Dir
    BY <1>8, <1>9, <1>12, FewerEntries, Zenon
  <2> QED
    BY <1>9, <2>1
<1>17. \A p \in f : p \in Kept /\ x.guest[p] \in Files
  BY <1>4, <1>13, Zenon DEF upserts, scope, Kept, Contents
<1>18. \A p \in Kept : x.guest[p] # Absent => p \in f \/ View(data', e)[p] = x.guest[p]
  <2> SUFFICES ASSUME NEW p \in Kept, x.guest[p] # Absent
               PROVE  p \in f \/ View(data', e)[p] = x.guest[p]
    OBVIOUS
  <2>1. p \in Paths
    BY Zenon DEF Kept
  <2>2. CASE p \in scope(x)
    <3>1. p \in upserts(x)
      BY <2>2, Zenon DEF upserts
    <3> QED
      BY <1>11, <1>13, <1>16, <2>1, <3>1, Zenon
  <2>3. CASE p \notin scope(x)
    <3>1. \A q \in gone : ~Within(p, q)
      <4>1. \A q \in gone : q \in scope(x)
        BY Zenon DEF gone, upserts
      <4> QED
        BY <1>3, <2>3, <4>1, ScopeIsClosed, Zenon
    <3>2. p \notin upserts(x)
      BY <2>3, Zenon DEF upserts
    <3>3. e[p] = stored[p]
      BY <1>11, <2>1, <3>1, <3>2, Zenon
    <3>4. View(data, stored)[p] = x.guest[p]
      BY <1>2, <1>3, <2>3, Zenon DEF MemoryInv
    <3> QED
      BY <1>16, <2>1, <3>3, <3>4, Zenon
  <2> QED
    BY <2>2, <2>3, Zenon
<1>19. ~x.unsure => \A p \in Kept : x.guest[p] = Absent =>
         View(data', e)[p] = Absent \/ p \in deleted(x)
  <2> SUFFICES ASSUME ~x.unsure, NEW p \in Kept, x.guest[p] = Absent, p \notin deleted(x)
               PROVE  View(data', e)[p] = Absent
    OBVIOUS
  <2>1. p \in Paths /\ type(x.guest[p]) = "absent"
    BY TypeFacts, Zenon DEF Kept
  <2>2. View(data, stored)[p] = Absent
    <3>1. CASE p \notin scope(x)
      BY <1>2, <1>3, <3>1, Zenon DEF MemoryInv
    <3>2. CASE p \in scope(x)
      <4>1. x.persistedEntries[p] = "absent"
        BY <2>1, <3>2, Zenon DEF deleted
      <4>2. type(View(data, stored)[p]) = "absent"
        BY <1>2, <1>3, <4>1, Zenon DEF MemoryInv
      <4>3. View(data, stored)[p] \in Contents
        BY <1>8, <2>1, ViewCases, Zenon
      <4> QED
        BY <4>2, <4>3, TypeFacts, Zenon
    <3> QED
      BY <3>1, <3>2, Zenon
  <2>3. p \notin upserts(x)
    BY Zenon DEF upserts
  <2>4. e[p] = Absent \/ e[p] = stored[p]
    BY <1>11, <2>1, <2>3, Zenon
  <2> QED
    BY <1>16, <2>1, <2>2, <2>4, Zenon
<1>20. \A p \in Paths : e[p] \notin Files
  BY <1>3, <1>4, <1>12, ContentFacts, Zenon DEF DiskInv
<1>21. ApplyInv(tab[t])'
  <2>1. deleted(y) = deleted(x) /\ y.guest = x.guest /\ y.unsure = x.unsure
    BY <1>14, SameDelta, Zenon DEF SameLease
  <2>2. y.pc \notin {"commit", "prune"} /\ y.pc # "prune"
    BY <1>14
  <2>3. Backed(data', y.entries) /\ \A p \in Paths : y.entries[p] \notin Files
    BY <1>14, <1>16, <1>20, Zenon
  <2>4. \A p \in y.files : p \in Kept /\ y.guest[p] \in Files
    BY <1>14, <1>17, <2>1, Zenon
  <2>5. \A p \in Kept : y.guest[p] # Absent =>
          p \in y.files \/ View(data', y.entries)[p] = y.guest[p]
    BY <1>14, <1>18, <2>1, Zenon
  <2>6. ~y.unsure => \A p \in Kept : y.guest[p] = Absent =>
          View(data', y.entries)[p] = Absent \/ p \in deleted(y)
    BY <1>14, <1>19, <2>1, Zenon
  <2> QED
    BY <1>15, <2>2, <2>3, <2>4, <2>5, <2>6, Zenon DEF ApplyInv
<1> QED
  BY <1>2, <1>6, <1>7, <1>14, <1>21, ApplyTurn, Zenon

LEMMA WriteFileStep ==
  ASSUME StorageInv, NEW t \in Tabs, WriteFile(t)
  PROVE  StorageInv'
<1> DEFINE x == tab[t]
           p == CHOOSE q \in x.files : TRUE
           e == [x.entries EXCEPT ![p] = At(newBackingName)]
           y == [x EXCEPT !.files = x.files \ {p}, !.entries = e]
<1>1. /\ x.pc = "write" /\ unused # {} /\ x.files # {} /\ Become(t, y)
      /\ data' = [data EXCEPT ![newBackingName] = x.guest[p]]
      /\ UNCHANGED <<kind, lock, phase, stored, ops, promised>>
  BY DEF WriteFile
<1>2. /\ x.pc # "idle" /\ x.pc \in Applying \ {"prune"} /\ x.pc \in {"apply", "write"}
      /\ x.pc \notin {"commit", "prune"} /\ x.pc \in {"write", "commit", "prune"}
      /\ x.pc # "prune"
  BY <1>1 DEF Applying
<1>3. RestType /\ DiskInv /\ x \in TabSet /\ LeaseInv(x) /\ ApplyInv(x)
  BY <1>2, Holder, Zenon DEF TabInv
<1>4. p \in x.files
  BY <1>1, Zenon
<1> HIDE DEF p
<1>5. /\ Backed(data, x.entries) /\ \A q \in Paths : x.entries[q] \notin Files
      /\ \A q \in x.files : q \in Kept /\ x.guest[q] \in Files
      /\ \A q \in Kept : x.guest[q] # Absent =>
           q \in x.files \/ View(data, x.entries)[q] = x.guest[q]
      /\ ~x.unsure => \A q \in Kept : x.guest[q] = Absent =>
           View(data, x.entries)[q] = Absent \/ q \in deleted(x)
  BY <1>1, <1>2, <1>3, Zenon DEF ApplyInv
<1>6. p \in Paths /\ p \in Kept /\ x.guest[p] \in Files /\ x.entries \in [Paths -> Entries]
  <2>1. p \in Kept /\ x.guest[p] \in Files
    BY <1>4, <1>5, Zenon
  <2>2. x.entries \in [Paths -> Entries]
    BY <1>3 DEF TabSet
  <2> QED
    BY <2>1, <2>2, Zenon DEF Kept
<1>7. /\ e \in [Paths -> Entries] /\ Backed(data', e) /\ e[p] = At(newBackingName)
      /\ \A q \in Paths \ {p} : e[q] = x.entries[q] /\ View(data', e)[q] = View(data, x.entries)[q]
      /\ View(data', e)[p] = x.guest[p]
  <2> DEFINE w == x.guest[p]
             c == x.entries
  <2>1. e = Named(c, p) /\ data \in DataSet /\ unused # {} /\ Filled(w)
    BY <1>1, <1>3, Zenon DEF RestType, Named, Filled
  <2>2. c \in [Paths -> Entries] /\ Backed(data, c) /\ p \in Paths /\ w \in Files
    BY <1>5, <1>6, Zenon
  <2> HIDE DEF e, w, c
  <2>3. /\ e \in [Paths -> Entries] /\ Backed(data', e) /\ e[p] = At(newBackingName)
        /\ \A q \in Paths \ {p} : e[q] = c[q] /\ View(data', e)[q] = View(data, c)[q]
        /\ View(data', e)[p] = w
    BY <2>1, <2>2, NewEntry
  <2> QED
    BY <2>3 DEF w, c
<1> HIDE DEF e
<1>8. /\ y \in TabSet /\ SameLease(x, y) /\ y.at = x.at /\ y.base = x.base /\ y.pc = "write"
      /\ y.entries = e /\ y.files = x.files \ {p}
  BY <1>1, <1>3, <1>7, Zenon DEF TabSet, SameLease
<1> HIDE DEF y
<1>9. tab'[t] = y
  BY <1>1, Zenon DEF Become, StorageInv, TypeOK
<1>10. data' \in DataSet /\ \A b \in referenced(stored) : data'[b] = data[b]
  <2> DEFINE d == data'
  <2>1. d \in DataSet /\ \A b \in Backings : data[b] # Absent => d[b] = data[b]
    BY <1>1, <1>3, <1>6, NewBacking, Zenon DEF RestType
  <2>2. \A b \in referenced(stored) : b \in Backings /\ data[b] # Absent
    <3>1. Backed(data, stored) /\ stored \in [Paths -> Entries]
      BY <1>2, <1>3, StoredBacked, Zenon
    <3> QED
      BY <3>1, BackedIsUsed, Zenon
  <2> HIDE DEF d
  <2>3. d \in DataSet /\ \A b \in referenced(stored) : d[b] = data[b]
    BY <2>1, <2>2, Zenon
  <2> QED
    BY <2>3 DEF d
<1>11. ApplyInv(tab[t])'
  <2>1. deleted(y) = deleted(x) /\ y.guest = x.guest /\ y.unsure = x.unsure
    BY <1>8, SameDelta, Zenon DEF SameLease
  <2>2. y.pc \notin {"commit", "prune"} /\ y.pc # "prune"
    BY <1>8
  <2>3. \A q \in Paths : e[q] \notin Files
    <3>1. At(newBackingName) \notin Files
      BY EntryFacts, Zenon
    <3> QED
      BY <1>5, <1>7, <3>1, Zenon
  <2>4. \A q \in y.files : q \in Kept /\ y.guest[q] \in Files
    BY <1>5, <1>8, <2>1, Zenon
  <2>5. \A q \in Kept : y.guest[q] # Absent =>
          q \in y.files \/ View(data', y.entries)[q] = y.guest[q]
    <3> SUFFICES ASSUME NEW q \in Kept, x.guest[q] # Absent
                 PROVE  q \in x.files \ {p} \/ View(data', e)[q] = x.guest[q]
      BY <1>8, <2>1, Zenon
    <3>1. CASE q = p
      BY <1>7, <3>1, Zenon
    <3>2. CASE q # p
      <4>1. q \in Paths \ {p}
        BY <3>2, Zenon DEF Kept
      <4>2. View(data', e)[q] = View(data, x.entries)[q]
        BY <1>7, <4>1, Zenon
      <4> QED
        BY <1>5, <3>2, <4>2, Zenon
    <3> QED
      BY <3>1, <3>2, Zenon
  <2>6. ~y.unsure => \A q \in Kept : y.guest[q] = Absent =>
          View(data', y.entries)[q] = Absent \/ q \in deleted(y)
    <3> SUFFICES ASSUME ~x.unsure, NEW q \in Kept, x.guest[q] = Absent
                 PROVE  View(data', e)[q] = Absent \/ q \in deleted(x)
      BY <1>8, <2>1, Zenon
    <3>1. q \in Paths \ {p}
      BY <1>6, ContentFacts, Zenon DEF Kept
    <3>2. View(data', e)[q] = View(data, x.entries)[q]
      BY <1>7, <3>1, Zenon
    <3> QED
      BY <1>5, <3>2, Zenon
  <2>7. Backed(data', y.entries) /\ \A q \in Paths : y.entries[q] \notin Files
    BY <1>7, <1>8, <2>3, Zenon
  <2> QED
    BY <1>9, <2>2, <2>4, <2>5, <2>6, <2>7, Zenon DEF ApplyInv
<1> QED
  BY <1>1, <1>2, <1>8, <1>10, <1>11, ApplyTurn, Zenon

LEMMA CreateStateStep ==
  ASSUME StorageInv, NEW t \in Tabs, CreateState(t)
  PROVE  StorageInv'
<1> DEFINE x == tab[t]
           gone == deleted(x) \ upserts(x)
           e == without(x.entries, gone)
           y == [x EXCEPT !.entries = e, !.pc = "commit"]
<1>1. /\ x.pc = "write" /\ x.files = {} /\ Related(e) /\ Become(t, y)
      /\ phase' = (IF phase = "absent" THEN "empty" ELSE phase)
      /\ UNCHANGED <<kind, lock, stored, data, ops, promised>>
  BY Zenon DEF CreateState
<1>2. /\ x.pc # "idle" /\ x.pc \in {"apply", "write"} /\ x.pc \in {"write", "commit", "prune"}
      /\ x.pc \in Applying
  BY <1>1 DEF Applying
<1>3. RestType /\ DiskInv /\ x \in TabSet /\ LeaseInv(x) /\ ApplyInv(x)
  BY <1>2, Holder, Zenon DEF TabInv
<1>4. /\ Backed(data, x.entries) /\ \A q \in Paths : x.entries[q] \notin Files
      /\ \A q \in Kept : x.guest[q] # Absent => View(data, x.entries)[q] = x.guest[q]
      /\ ~x.unsure => \A q \in Kept : x.guest[q] = Absent =>
           View(data, x.entries)[q] = Absent \/ q \in deleted(x)
      /\ Valid(x.guest)
  BY <1>1, <1>2, <1>3, Zenon DEF ApplyInv, LeaseInv
<1>5. x.entries \in [Paths -> Entries]
  BY <1>3 DEF TabSet
<1>6. \A p \in Paths : e[p] = IF \E q \in gone : Within(p, q) THEN Absent ELSE x.entries[p]
  BY Zenon DEF without
<1>7. e \in [Paths -> Entries]
  <2>1. Absent \in Entries
    BY Zenon DEF Entries
  <2> QED
    BY <1>5, <2>1, Zenon DEF without
<1>8. \A q \in gone : q \in Paths /\ x.guest[q] = Absent
  BY Zenon DEF gone, deleted, upserts, scope, Kept
<1>9. \A q : q \in deleted(x) /\ x.guest[q] = Absent => q \in gone
  BY Zenon DEF gone, upserts
<1> HIDE DEF e, gone
<1>10. /\ y \in TabSet /\ SameLease(x, y) /\ y.at = x.at /\ y.base = x.base /\ y.pc = "commit"
       /\ y.entries = e
  BY <1>3, <1>7, Zenon DEF TabSet, SameLease, Steps
<1> HIDE DEF y
<1>11. tab'[t] = y
  BY <1>1, Zenon DEF Become, StorageInv, TypeOK
<1>12. /\ Backed(data, e)
       /\ \A p \in Paths : /\ e[p] = x.entries[p] => View(data, e)[p] = View(data, x.entries)[p]
                           /\ e[p] = Absent => View(data, e)[p] = Absent
  <2>1. \A p \in Paths : e[p] = x.entries[p] \/ e[p] = Absent \/ e[p] = Dir
    BY <1>6, Zenon
  <2> QED
    BY <1>4, <1>5, <1>7, <2>1, FewerEntries
<1>13. Matches(x, View(data, e))
  <2> SUFFICES ASSUME NEW p \in Kept, x.guest[p] # Absent \/ ~x.unsure
               PROVE  View(data, e)[p] = x.guest[p]
    BY Zenon DEF Matches
  <2>1. p \in Paths
    BY Zenon DEF Kept
  <2>2. CASE x.guest[p] # Absent
    <3>1. \A q \in Ancestors[p] : x.guest[q] = Dir
      BY <1>4, <2>1, <2>2, Zenon DEF Valid, Related
    <3>2. \A q \in gone : ~Within(p, q)
      BY <1>8, <2>2, <3>1, ContentFacts, Zenon DEF Within
    <3>3. e[p] = x.entries[p]
      BY <1>6, <2>1, <3>2, Zenon
    <3> QED
      BY <1>4, <1>12, <2>1, <2>2, <3>3, Zenon
  <2>3. CASE x.guest[p] = Absent
    <3>1. View(data, x.entries)[p] = Absent \/ p \in deleted(x)
      BY <1>4, <2>3, Zenon
    <3>2. CASE p \in deleted(x)
      <4>1. e[p] = Absent
        BY <1>6, <1>9, <2>1, <2>3, <3>2, WithinFacts, Zenon
      <4> QED
        BY <1>12, <2>1, <2>3, <4>1, Zenon
    <3>3. CASE View(data, x.entries)[p] = Absent
      BY <1>6, <1>12, <2>1, <2>3, <3>3, Zenon
    <3> QED
      BY <3>1, <3>2, <3>3, Zenon
  <2> QED
    BY <2>2, <2>3, Zenon
<1>14. ApplyInv(tab[t])'
  <2>1. y.guest = x.guest /\ y.unsure = x.unsure
    BY <1>10, Zenon DEF SameLease
  <2>2. y.pc # "write" /\ y.pc # "prune"
    BY <1>10
  <2>3. \A p \in Paths : e[p] \notin Files
    BY <1>4, <1>6, ContentFacts, Zenon
  <2>4. Matches(y, View(data, e))
    BY <1>13, <2>1, Zenon DEF Matches
  <2>5. Backed(data', y.entries) /\ Related(y.entries) /\ Matches(y, View(data', y.entries))
    BY <1>1, <1>10, <1>12, <2>4
  <2>6. \A p \in Paths : y.entries[p] \notin Files
    BY <1>10, <2>3, Zenon
  <2>7. Matches(y, View(data', y.entries)) = Matches(tab[t], View(data, tab[t].entries))'
    BY <1>11, Zenon DEF Matches
  <2> QED
    BY <1>11, <2>2, <2>5, <2>6, <2>7, Zenon DEF ApplyInv
<1>15. phase' = phase \/ (phase = "absent" /\ phase' = "empty" /\ y.pc = "commit")
  BY <1>1, <1>10, Zenon
<1>16. data' \in DataSet /\ \A b \in referenced(stored) : data'[b] = data[b]
  BY <1>1, <1>3, Zenon DEF RestType
<1> QED
  BY <1>1, <1>2, <1>10, <1>14, <1>15, <1>16, ApplyTurn, Zenon

\* The state file is replaced: what it names is the guest's database.
LEMMA WriteStateDisk ==
  ASSUME StorageInv, NEW t \in Tabs, tab[t].pc = "commit", WriteState(t),
         UNCHANGED <<kind, data, promised>>
  PROVE  /\ DiskInv' /\ StoredIsPromised' /\ stored' \in [Paths -> Entries]
         /\ data' \in DataSet /\ phase' = "ready" /\ phase' \in Phases
         /\ Matches(tab[t], View(data', stored')) /\ kind = "opfs"
<1> DEFINE x == tab[t]
           e == x.entries
           v == View(data, e)
<1>1. /\ x.pc # "idle" /\ x.pc \in {"write", "commit", "prune"} /\ x.pc \in Applying
      /\ x.pc \in {"commit", "prune"} /\ x.pc # "transact"
  BY DEF Applying
<1>2. RestType /\ DiskInv /\ x \in TabSet /\ LeaseInv(x) /\ ApplyInv(x) /\ PromiseInv(x)
  BY <1>1, Holder, Zenon DEF TabInv
<1>3. phase' = "ready" /\ stored' = e
  BY Zenon DEF WriteState
<1>4. e \in [Paths -> Entries] /\ x.guest \in [Paths -> Contents] /\ x.unsure \in BOOLEAN
  BY <1>2 DEF TabSet
<1>5. /\ Backed(data, e) /\ \A p \in Paths : e[p] \notin Files
      /\ Related(e) /\ Matches(x, v)
  BY <1>1, <1>2, Zenon DEF ApplyInv
<1>6. kind = "opfs" /\ kind # "indexedDb"
  <2>1. kind # "indexedDb"
    BY <1>1, <1>2, Zenon DEF LeaseInv
  <2> QED
    BY <1>2, <2>1, StorageAssumption DEF RestType
<1>7. Valid(v)
  <2>1. \A p \in Paths : Ancestors[p] \subseteq Paths
    BY StorageAssumption, Zenon
  <2>2. \A p \in Paths : (e[p] = Absent <=> v[p] = Absent) /\ (e[p] = Dir <=> v[p] = Dir)
    BY <1>4, <1>5, ViewCases, ZenonT(40)
  <2>3. Related(v)
    BY <1>5, <2>1, <2>2, Zenon DEF Related
  <2>4. \A p \in Essential : p \in Kept /\ x.guest[p] \in Files /\ x.guest[p] # Absent
    <3>1. Valid(x.guest)
      BY <1>1, <1>2, Zenon DEF LeaseInv
    <3> QED
      BY <3>1, WithinFacts, ContentFacts, ZenonT(40) DEF Valid
  <2>5. \A p \in Essential : v[p] \in Files
    BY <1>5, <2>4 DEF Matches
  <2> QED
    BY <2>3, <2>5, Zenon DEF Valid
<1>8. View(data', stored') = v
  BY <1>3, Zenon
<1>9. Backed(data', stored') /\ Valid(View(data', stored')) /\ Matches(x, View(data', stored'))
  BY <1>3, <1>5, <1>7, <1>8
<1>10. DiskInv'
  <2>1. kind' # "indexedDb" /\ phase' \notin {"absent", "empty"} /\ phase' # "initializing"
    BY <1>3, <1>6
  <2>2. \A p, q \in Paths : stored'[p][1] = "at" /\ stored'[q] = stored'[p] => p = q
    BY <1>9, Zenon DEF Backed
  <2>3. \A p \in Paths : stored'[p] \notin Files
    BY <1>3, <1>5, Zenon
  <2> QED
    BY <1>9, <2>1, <2>2, <2>3, Zenon DEF DiskInv
<1>11. StoredIsPromised'
  <2>1. Target(x) \in promised'
    BY <1>1, <1>2, Zenon DEF PromiseInv
  <2> QED
    BY <1>3, <1>4, <1>9, <2>1, PromiseMatches
<1> QED
  BY <1>2, <1>3, <1>4, <1>6, <1>9, <1>10, <1>11, Zenon DEF RestType, Phases

LEMMA CommitStep ==
  ASSUME StorageInv, NEW t \in Tabs, Commit(t)
  PROVE  StorageInv'
<1> DEFINE x == tab[t]
           y == [x EXCEPT !.pc = "prune"]
<1>1. /\ x.pc = "commit" /\ WriteState(t) /\ tab' = [tab EXCEPT ![t] = y] /\ report' = None
      /\ UNCHANGED <<kind, lock, data, ops, promised>>
  BY Zenon DEF Commit, Goto, Become
<1>2. /\ x.pc # "idle" /\ x.pc \in {"write", "commit", "prune"} /\ x.pc \in Applying
      /\ x.pc \in {"commit", "prune"} /\ x.pc # "transact" /\ "prune" \in Steps
      /\ x.pc \notin Leased /\ "prune" \in Applying /\ "prune" \notin Leased
  BY <1>1 DEF Applying, Steps, Leased
<1>3. /\ Alone(t) /\ RestType /\ lock = t /\ x \in TabSet /\ LeaseInv(x) /\ MemoryInv(x)
      /\ ApplyInv(x) /\ PromiseInv(x)
  BY <1>2, Holder, Zenon DEF TabInv
<1>4. /\ DiskInv' /\ StoredIsPromised' /\ stored' \in [Paths -> Entries]
      /\ data' \in DataSet /\ phase' = "ready" /\ phase' \in Phases
      /\ Matches(x, View(data', stored')) /\ kind = "opfs"
  BY <1>1, WriteStateDisk, Zenon
<1>5. stored' = x.entries
  BY <1>1, Zenon DEF WriteState
<1>6. /\ y \in TabSet /\ y.pc = "prune" /\ SameLease(x, y) /\ y.at = x.at
      /\ y.entries = x.entries
  BY <1>2, <1>3, SetPc
<1> HIDE DEF y
<1>7. tab'[t] = y
  BY <1>1, Zenon DEF StorageInv, TypeOK
<1>8. y.pc \notin {"idle", "locked", "seed", "seedCommit", "inspect", "write", "transact"}
      /\ y.pc # "idle" /\ y.pc # "transact" /\ y.pc # "write" /\ phase' # "empty" /\ kind' # "indexedDb"
  BY <1>1, <1>4, <1>6
<1>9. LeaseInv(tab[t])'
  <2>1. /\ Valid(y.guest) /\ y.at # None
        /\ y.at = "restore" => ~y.hasStoredGeneration
        /\ y.initializationPending => y.at \in {None, "full"}
        /\ ~y.hasStoredGeneration => y.initializationPending \/ y.at = "restore"
    BY <1>2, <1>3, <1>6, Zenon DEF LeaseInv, SameLease
  <2>2. Backed(data', stored') /\ Valid(View(data', stored'))
    BY <1>4, Zenon DEF DiskInv
  <2> QED
    BY <1>2, <1>4, <1>6, <1>7, <1>8, <2>1, <2>2, Zenon DEF LeaseInv
<1>10. MemoryInv(tab[t])'
  <2>1. scope(y) = scope(x)
    BY <1>6, SameDelta, Zenon
  <2>2. /\ ~y.hasStoredGeneration =>
             ~y.unsure /\ \A p \in Paths : y.persistedEntries[p] = "absent"
        /\ ~y.unsure => \A p \in Kept \ scope(y) : y.persistedEntries[p] = type(y.guest[p])
    BY <1>2, <1>3, <1>6, <2>1, Zenon DEF MemoryInv, SameLease
  <2> QED
    BY <1>6, <1>7, <2>2, Zenon DEF MemoryInv
<1>11. ApplyInv(tab[t])'
  <2>1. Backed(data, x.entries) /\ (\A p \in Paths : x.entries[p] \notin Files) /\ Related(x.entries)
    BY <1>2, <1>3, Zenon DEF ApplyInv
  <2>2. Backed(data', y.entries) /\ (\A p \in Paths : y.entries[p] \notin Files) /\ Related(y.entries)
    BY <1>1, <1>6, <2>1
  <2>3. y.guest = x.guest /\ y.unsure = x.unsure
    BY <1>6, Zenon DEF SameLease
  <2>4. Matches(y, View(data', y.entries))
    BY <1>4, <1>5, <1>6, <2>3 DEF Matches
  <2>5. Matches(y, View(data', y.entries)) = Matches(tab[t], View(data, tab[t].entries))'
    BY <1>7, Zenon DEF Matches
  <2>6. stored' = y.entries
    BY <1>5, <1>6, Zenon
  <2> QED
    BY <1>4, <1>7, <1>8, <2>2, <2>4, <2>5, <2>6, Zenon DEF ApplyInv
<1>12. PromiseInv(tab[t])'
  <2>1. Target(y) = Target(x)
    BY <1>6, SameDelta, Zenon
  <2>2. Target(y) \in promised'
    BY <1>1, <1>2, <1>3, <2>1, Zenon DEF PromiseInv
  <2> QED
    BY <1>6, <1>7, <2>2, Zenon DEF PromiseInv
<1>13. OpenInv(tab[t])'
  BY <1>7, <1>8, Zenon DEF OpenInv
<1>14. RestType'
  BY <1>1, <1>3, <1>4, Zenon DEF RestType, Reports
<1> QED
  BY <1>1, <1>3, <1>4, <1>6, <1>8, <1>9, <1>10, <1>11, <1>12, <1>13, <1>14, Combine, Zenon
     DEF TabInv

\* The state file is in place, and what it does not name goes.
LEMMA PruneDisk ==
  ASSUME StorageInv, NEW t \in Tabs, tab[t].pc = "prune", data' \in Pruned(stored),
         UNCHANGED <<kind, phase, stored>>
  PROVE  /\ DiskInv' /\ data' \in DataSet /\ stored' \in [Paths -> Entries] /\ phase' = "ready"
         /\ Matches(tab[t], View(data', stored'))
<1> DEFINE x == tab[t]
<1>1. x.pc # "idle" /\ x.pc \in {"commit", "prune"} /\ x.pc \in {"write", "commit", "prune"}
  OBVIOUS
<1>2. RestType /\ DiskInv /\ ApplyInv(x)
  BY <1>1, Holder, ZenonT(40) DEF TabInv
<1>3. /\ phase = "ready" /\ stored = x.entries /\ Backed(data, stored)
      /\ Matches(x, View(data, stored)) /\ stored \in [Paths -> Entries]
  BY <1>1, <1>2 DEF ApplyInv, RestType
<1>4. data' \in DataSet /\ \A b \in referenced(stored) : data'[b] = data[b]
  BY <1>2, PrunedKeeps, Zenon DEF RestType
<1>5. DiskInv'
  BY <1>2, <1>3, <1>4, OtherData, Zenon
<1>6. View(data', stored) = View(data, stored)
  <2>1. Backed(data, stored) /\ stored \in [Paths -> Entries]
    BY <1>3
  <2> QED
    BY <1>4, <2>1, SameView, ZenonT(40)
<1>7. View(data', stored') = View(data, stored)
  BY <1>6, Zenon
<1> QED
  BY <1>3, <1>4, <1>5, <1>7

LEMMA PruneStep ==
  ASSUME StorageInv, NEW t \in Tabs, Prune(t)
  PROVE  StorageInv'
<1>1. /\ tab[t].pc = "prune" /\ data' \in Pruned(stored) /\ Published(t)
      /\ UNCHANGED <<kind, phase, stored, ops>>
  BY Zenon DEF Prune
<1>2. /\ DiskInv' /\ data' \in DataSet /\ stored' \in [Paths -> Entries] /\ phase' = "ready"
      /\ Matches(tab[t], View(data', stored'))
  BY <1>1, PruneDisk, Zenon
<1> QED
  BY <1>1, <1>2, PublishedStep, Zenon

LEMMA ApplyFailsStep ==
  ASSUME StorageInv, NEW t \in Tabs, ApplyFails(t)
  PROVE  StorageInv'
<1> DEFINE x == tab[t]
           y == [x EXCEPT !.unsure = TRUE]
<1>1. x.pc \in {"apply", "write", "commit"} /\ UNCHANGED <<kind, ops, promised>>
  BY Zenon DEF ApplyFails
<1>2. /\ x.pc \in Applying \ {"prune"} /\ x.pc # "idle" /\ x.pc \in Applying
      /\ "unknown" \in Reports \ {"ok"}
  BY <1>1 DEF Applying, Reports, None
<1>3. /\ RestType /\ StoredIsPromised /\ x \in TabSet /\ LeaseInv(x) /\ MemoryInv(x)
  BY <1>2, Holder, Zenon DEF TabInv
<1>4. CASE UNCHANGED <<phase, stored>> /\ data' \in Interrupted(t) /\ Settle(t, x, "unknown")
  <2>1. Durable' = Durable => StoredIsPromised'
    BY <1>1, <1>3, PromiseStays, Zenon
  <2> QED
    BY <1>1, <1>2, <1>4, <2>1, FailedStep, Zenon
<1>5. CASE x.pc = "commit" /\ WriteState(t) /\ UNCHANGED data /\ Settle(t, y, "unknown")
  <2>1. /\ DiskInv' /\ StoredIsPromised' /\ stored' \in [Paths -> Entries]
        /\ data' \in DataSet /\ phase' = "ready" /\ phase' \in Phases
        /\ Matches(x, View(data', stored')) /\ kind = "opfs"
    BY <1>1, <1>5, WriteStateDisk, Zenon
  <2>2. /\ y \in TabSet /\ y.unsure = TRUE /\ y.guest = x.guest /\ y.at = x.at
        /\ y.hasStoredGeneration = x.hasStoredGeneration
        /\ y.initializationPending = x.initializationPending
    BY <1>3, Zenon DEF TabSet
  <2> HIDE DEF y
  <2>3. Valid(y.guest) /\ kind # "indexedDb"
    <3>1. Valid(x.guest)
      BY <1>2, <1>3, Zenon DEF LeaseInv
    <3> QED
      BY <2>1, <2>2, <3>1
  <2>4. ~Departs(y, "unknown") => x.hasStoredGeneration /\ ~x.initializationPending
    <3>1. Departs(y, "unknown") <=> Departs(x, "unknown")
      BY <2>2, Zenon DEF Departs
    <3> QED
      BY <1>2, <1>3, <3>1, Lasting, Zenon
  <2>5. \A p \in Kept : y.guest[p] # Absent => View(data', stored')[p] = y.guest[p]
    BY <2>1, <2>2, Zenon DEF Matches
  <2>6. ops' \in 0..MaxOps
    BY <1>1, <1>3, Zenon DEF RestType
  <2> QED
    BY <1>1, <1>2, <1>5, <2>1, <2>2, <2>3, <2>4, <2>5, <2>6, SettledStep, Zenon
<1> QED
  BY <1>4, <1>5, Zenon DEF ApplyFails

LEMMA RestoreFailsStep ==
  ASSUME StorageInv, NEW t \in Tabs, RestoreFails(t)
  PROVE  StorageInv'
<1> DEFINE x == tab[t]
<1>1. x.pc \in {"apply", "write", "commit"} /\ UNCHANGED <<kind, ops>>
  BY Zenon DEF RestoreFails
<1>2. x.pc # "idle" /\ "unknown" \in Reports /\ "unchanged" \in Reports
  BY <1>1 DEF Reports
<1>3. RestType
  BY <1>2, Holder, Zenon
<1>4. ops' \in 0..MaxOps
  BY <1>1, <1>3, Zenon DEF RestType
<1>5. CASE /\ phase' = "absent" /\ stored' = Nothing /\ data' = [b \in Backings |-> Absent]
           /\ promised' = {[snap |-> Nothing, exact |-> TRUE]} /\ Leave(t, "unchanged")
  <2>1. /\ phase' # "ready" /\ phase' # "initializing" /\ phase' \in Phases
        /\ phase' \in {"absent", "ready"}
    BY <1>5 DEF Phases
  <2>2. data' \in DataSet
    BY <1>5, Zenon DEF DataSet
  <2>3. DiskInv'
    <3>1. Nothing \in [Paths -> Contents] /\ \A p \in Paths : Nothing[p] = Absent
      BY EmptySnapshot, Zenon
    <3>2. \A p \in Paths : stored'[p] = Absent /\ stored'[p] \notin Files /\ stored'[p][1] # "at"
      BY <1>5, <3>1, EntryFacts, ContentFacts, Zenon
    <3>3. \A p \in Volatile : stored'[p] = Absent
      BY <3>2, StorageAssumption, Zenon
    <3> QED
      BY <1>5, <2>1, <3>1, <3>2, <3>3, Zenon DEF DiskInv
  <2>4. StoredIsPromised'
    <3> DEFINE s == [snap |-> Nothing, exact |-> TRUE]
    <3>1. s.snap = Nothing /\ s \in promised'
      BY <1>5
    <3> HIDE DEF s
    <3>2. Durable' = Nothing
      BY <2>1, DurableIs, Zenon
    <3> QED
      BY <3>1, <3>2, PromiseExact, Zenon
  <2>5. stored' \in [Paths -> Entries]
    BY <1>5, EmptySnapshot, Zenon
  <2> QED
    BY <1>1, <1>2, <1>4, <1>5, <2>1, <2>2, <2>3, <2>4, <2>5, LeaveStep, Zenon
<1>6. CASE UNCHANGED <<phase, stored, promised>> /\ data' \in Interrupted(t) /\ Leave(t, "unknown")
  BY <1>1, <1>2, <1>6, GoneStep, Zenon
<1>7. CASE x.pc = "commit" /\ WriteState(t) /\ UNCHANGED <<data, promised>> /\ Leave(t, "unknown")
  <2>1. /\ DiskInv' /\ StoredIsPromised' /\ stored' \in [Paths -> Entries]
        /\ data' \in DataSet /\ phase' \in Phases
    BY <1>1, <1>7, WriteStateDisk, Zenon
  <2> QED
    BY <1>1, <1>2, <1>4, <1>7, <2>1, LeaveStep, Zenon
<1> QED
  BY <1>5, <1>6, <1>7, Zenon DEF RestoreFails

-----------------------------------------------------------------------------
(* The invariant *)

LEMMA FolderFacts == \A p \in Folders : p \in Paths /\ p \notin Essential
<1> SUFFICES ASSUME NEW p \in Folders PROVE p \in Paths /\ p \notin Essential
  OBVIOUS
<1>1. PICK q \in Paths : p \in Ancestors[q]
  BY Zenon DEF Folders
<1> QED
  BY <1>1, StorageAssumption, Zenon

\* A database that was used before is one that can be opened.
LEMMA UsedFacts ==
  /\ Used \in [Paths -> Contents] /\ Valid(Used)
  /\ \A p \in Paths : Used[p] = IF p \in Folders THEN Dir ELSE File(0)
<1>1. File(0) \in Files
  BY StorageAssumption DEF Files
<1>2. /\ Used \in [Paths -> Contents]
      /\ \A p \in Paths : Used[p] = IF p \in Folders THEN Dir ELSE File(0)
  BY <1>1, Zenon DEF Used, Contents
<1>3. \A p \in Paths : \A q \in Ancestors[p] : q \in Paths /\ q \in Folders
  BY StorageAssumption, ZenonT(40) DEF Folders
<1>4. \A p \in Essential : p \in Paths /\ p \notin Folders
  BY FolderFacts, StorageAssumption, Zenon
<1>5. Related(Used)
  BY <1>2, <1>3, Zenon DEF Related
<1> QED
  BY <1>1, <1>2, <1>4, <1>5, Zenon DEF Valid

LEMMA InitDisk ==
  ASSUME Init
  PROVE  DiskInv /\ stored \in [Paths -> Entries] /\ data \in DataSet /\ phase \in Phases
<1>1. kind \in {"opfs", "indexedDb"}
  BY StorageAssumption, Zenon DEF Init
<1>2. CASE phase = "absent" /\ stored = Nothing /\ data = [b \in Backings |-> Absent]
  <2>1. phase # "ready" /\ phase # "initializing" /\ phase \in Phases
    BY <1>2 DEF Phases
  <2>2. Nothing \in [Paths -> Contents] /\ \A p \in Paths : Nothing[p] = Absent
    BY EmptySnapshot, Zenon
  <2>3. \A p \in Paths : stored[p] = Absent /\ stored[p] \notin Files /\ stored[p][1] # "at"
    BY <1>2, <2>2, EntryFacts, ContentFacts, Zenon
  <2>4. \A p \in Volatile : stored[p] = Absent
    BY <2>3, StorageAssumption, Zenon
  <2>5. DiskInv
    BY <1>2, <2>1, <2>2, <2>3, <2>4, Zenon DEF DiskInv
  <2> QED
    BY <1>2, <2>1, <2>5, EmptySnapshot, Zenon DEF DataSet
<1>3. CASE /\ kind = "indexedDb" /\ phase = "ready" /\ stored = Persistent(Used)
           /\ data = [b \in Backings |-> Absent]
  <2>1. View(data, Used) = Used /\ Used \in [Paths -> Entries]
    BY UsedFacts, ContentView, Zenon
  <2>2. Valid(View(data, Persistent(Used)))
    BY <2>1, UsedFacts, PersistentFacts
  <2>3. /\ stored \in [Paths -> Contents] /\ \A p \in Volatile : stored[p] = Absent
    BY <1>3, UsedFacts, StorageAssumption, Zenon DEF Persistent, Contents
  <2>4. Backed(data, stored) /\ stored \in [Paths -> Entries] /\ Valid(View(data, stored))
    BY <1>3, <2>2, <2>3, ContentView
  <2>5. phase \in Phases /\ phase \notin {"absent", "empty"} /\ phase # "initializing"
        /\ kind # "opfs" /\ phase \in {"absent", "ready"}
    BY <1>3 DEF Phases
  <2>6. DiskInv
    BY <2>3, <2>4, <2>5, Zenon DEF DiskInv, Backed
  <2> QED
    BY <1>3, <2>4, <2>5, <2>6, Zenon DEF DataSet
<1>4. CASE /\ kind = "opfs" /\ phase = "ready" /\ Numberings # {}
           /\ LET number == CHOOSE f \in Numberings : TRUE
                  spare == CHOOSE b \in Backings : \A p \in Leaves : number[p] # b
              IN  /\ stored = [p \in Paths |-> IF p \in Folders THEN Dir ELSE At(number[p])]
                  /\ data = [b \in Backings |->
                       IF \E p \in Leaves : number[p] = b THEN File(0)
                       ELSE IF b = spare THEN Empty ELSE Absent]
  <2> DEFINE number == CHOOSE f \in Numberings : TRUE
             spare == CHOOSE b \in Backings : \A p \in Leaves : number[p] # b
  <2>1. /\ stored = [p \in Paths |-> IF p \in Folders THEN Dir ELSE At(number[p])]
        /\ data = [b \in Backings |-> IF \E p \in Leaves : number[p] = b THEN File(0)
                                      ELSE IF b = spare THEN Empty ELSE Absent]
    BY <1>4, Zenon
  <2>2. number \in Numberings
    BY <1>4, Zenon
  <2> HIDE DEF number, spare
  <2>3. number \in [Leaves -> Backings] /\ \A p, q \in Leaves : number[p] = number[q] => p = q
    BY <2>2, Zenon DEF Numberings
  <2>4. \A p \in Paths : p \in Leaves <=> p \notin Folders
    BY Zenon DEF Leaves
  <2>5. File(0) \in Files
    BY StorageAssumption DEF Files
  <2>6. data \in DataSet
    BY <2>1, <2>5, Zenon DEF DataSet
  <2>7. \A p \in Paths : stored[p] = IF p \in Folders THEN Dir ELSE At(number[p])
    BY <2>1, Zenon
  <2>8. stored \in [Paths -> Entries]
    <3>1. \A p \in Paths : p \notin Folders => At(number[p]) \in Entries
      BY <2>3, <2>4, Zenon DEF Entries
    <3>2. Dir \in Entries
      BY Zenon DEF Entries
    <3> QED
      BY <2>1, <3>1, <3>2, Zenon
  <2>9. \A p \in Paths : p \notin Folders => data[number[p]] = File(0)
    BY <2>1, <2>3, <2>4, Zenon
  <2>10. \A p \in Paths : stored[p][1] = "at" => /\ p \notin Folders /\ stored[p] = At(number[p])
                                                 /\ stored[p][2] = number[p]
    BY <2>7, EntryFacts, Zenon
  <2>11. \A p, q \in Paths : stored[p][1] = "at" /\ stored[q] = stored[p] => p = q
    <3> SUFFICES ASSUME NEW p \in Paths, NEW q \in Paths, stored[p][1] = "at", stored[q] = stored[p]
                 PROVE  p = q
      BY Zenon
    <3>1. stored[q][1] = "at"
      BY Zenon
    <3>2. p \in Leaves /\ q \in Leaves /\ stored[p][2] = number[p] /\ stored[q][2] = number[q]
      BY <2>4, <2>10, <3>1, Zenon
    <3> QED
      BY <2>3, <3>2, Zenon
  <2>12. Backed(data, stored)
    BY <2>5, <2>9, <2>10, <2>11, ZenonT(40) DEF Backed
  <2>13. View(data, stored) = Used
    <3>1. ASSUME NEW p \in Paths
          PROVE  (IF stored[p][1] = "at" THEN data[stored[p][2]] ELSE stored[p]) =
                 (IF p \in Folders THEN Dir ELSE File(0))
      <4>1. CASE p \in Folders
        <5>1. stored[p] = Dir
          BY <2>7, <4>1, Zenon
        <5> QED
          BY <4>1, <5>1, EntryFacts, Zenon
      <4>2. CASE p \notin Folders
        <5>1. stored[p] = At(number[p])
          BY <2>7, <4>2, Zenon
        <5>2. stored[p][1] = "at" /\ stored[p][2] = number[p]
          BY <5>1, EntryFacts, Zenon
        <5> QED
          BY <2>9, <4>2, <5>2, Zenon
      <4> QED
        BY <4>1, <4>2, Zenon
    <3> QED
      BY <3>1, Zenon DEF View, Used
  <2>14. \A p \in Paths : stored[p] \notin Files
    BY <2>7, EntryFacts, Zenon
  <2>15. phase \in Phases /\ phase \notin {"absent", "empty"} /\ phase # "initializing"
         /\ kind # "indexedDb"
    BY <1>4 DEF Phases
  <2>16. DiskInv
    BY <2>11, <2>12, <2>13, <2>14, <2>15, UsedFacts, Zenon DEF DiskInv
  <2> QED
    BY <2>6, <2>8, <2>15, <2>16, Zenon
<1> QED
  BY <1>2, <1>3, <1>4, Zenon DEF Init

LEMMA InitStorage ==
  ASSUME Init
  PROVE  StorageInv
<1>1. /\ kind \in Kinds /\ lock = None /\ ops = 0 /\ report = None
      /\ tab = [t \in Tabs |-> Idle] /\ promised = {[snap |-> Durable, exact |-> TRUE]}
  BY Zenon DEF Init
<1>2. DiskInv /\ stored \in [Paths -> Entries] /\ data \in DataSet /\ phase \in Phases
  BY InitDisk, Zenon
<1>3. \A t \in Tabs : tab[t] = Idle
  BY <1>1, Zenon
<1>4. TypeOK
  <2>1. ops \in 0..MaxOps
    BY <1>1, StorageAssumption
  <2>2. tab \in [Tabs -> TabSet]
    BY <1>1, IdleType, Zenon
  <2>3. RestType
    BY <1>1, <1>2, <2>1, Zenon DEF RestType, Reports
  <2> QED
    BY <1>1, <2>2, <2>3, Types, Zenon
<1>5. LockCoversUse
  BY <1>1, <1>3, IdleType, StorageAssumption, Zenon DEF LockCoversUse, None
<1>6. StoredIsPromised
  <2> DEFINE s == [snap |-> Durable, exact |-> TRUE]
  <2>1. s.snap = Durable /\ s \in promised
    BY <1>1
  <2> HIDE DEF s
  <2> QED
    BY <2>1, Zenon DEF StoredIsPromised
<1>7. TabInv(Idle)
  <2>1. Idle.pc = "idle"
    BY IdleType, Zenon
  <2>2. "idle" \notin Leased \cup Applying
    BY DEF Leased, Applying
  <2>3. OpenInv(Idle)
    BY <2>1 DEF OpenInv
  <2>4. ApplyInv(Idle)
    BY <2>1 DEF ApplyInv
  <2> QED
    BY <2>1, <2>2, <2>3, <2>4, Zenon DEF TabInv, LeaseInv, MemoryInv, PromiseInv
<1> QED
  BY <1>2, <1>3, <1>4, <1>5, <1>6, <1>7, Zenon DEF StorageInv

LEMMA NextStorage ==
  ASSUME StorageInv, [Next]_vars
  PROVE  StorageInv'
<1>1. CASE UNCHANGED vars
  <2>1. UNCHANGED <<kind, lock, disk, tab, ops, promised>> /\ report' = report
    BY <1>1, Zenon DEF vars
  <2>2. report \in Reports
    BY Types, Zenon DEF StorageInv, RestType
  <2> QED
    BY <2>1, <2>2, NothingHappens, Zenon
<1>2. CASE Next
  <2>1. PICK t \in Tabs :
          \/ Acquire(t) \/ OpenPool(t, TRUE) \/ OpenPool(t, FALSE) \/ SeedFile(t)
          \/ SeedState(t) \/ SeedCommit(t) \/ DirectUnavailable(t) \/ Inspect(t)
          \/ ReadRows(t) \/ OpenFails(t) \/ Startup(t)
          \/ \E p \in Paths : GuestWrite(t, p)
          \/ \E p \in Folders : GuestMakeDir(t, p)
          \/ \E p \in Paths \ Essential : GuestRemove(t, p)
          \/ Operation(t) \/ ExecFails(t) \/ Serve(t) \/ publishIdle(t) \/ ServeEnds(t)
          \/ Close(t) \/ Restore(t) \/ Transact(t) \/ Abort(t) \/ Apply(t)
          \/ WriteFile(t) \/ CreateState(t) \/ Commit(t) \/ Prune(t)
          \/ ApplyFails(t) \/ RestoreFails(t) \/ TabDies(t)
    BY <1>2, Zenon DEF Next
  <2>2. CASE \/ Acquire(t) \/ OpenPool(t, TRUE) \/ OpenPool(t, FALSE) \/ SeedFile(t)
             \/ SeedState(t) \/ SeedCommit(t) \/ DirectUnavailable(t)
    BY <2>2, AcquireStep, OpenPoolStep, SeedFileStep, SeedStateStep, SeedCommitStep,
       DirectUnavailableStep, Zenon
  <2>3. CASE Inspect(t) \/ ReadRows(t) \/ OpenFails(t) \/ TabDies(t) \/ Restore(t)
    BY <2>3, InspectStep, ReadRowsStep, OpenFailsStep, RestoreStep, Zenon
  <2>4. CASE \/ \E p \in Paths : GuestWrite(t, p)
             \/ \E p \in Folders : GuestMakeDir(t, p)
             \/ \E p \in Paths \ Essential : GuestRemove(t, p)
    BY <2>4, FolderFacts, GuestSteps, Zenon
  <2>5. CASE \/ Startup(t) \/ Operation(t) \/ ExecFails(t) \/ Serve(t) \/ publishIdle(t)
             \/ ServeEnds(t) \/ Close(t)
    BY <2>5, SyncSteps, SessionTurns, Zenon
  <2>6. CASE Transact(t) \/ Abort(t) \/ Apply(t) \/ WriteFile(t) \/ CreateState(t)
    BY <2>6, TransactStep, AbortStep, ApplyStep, WriteFileStep, CreateStateStep, Zenon
  <2>7. CASE Commit(t) \/ Prune(t) \/ ApplyFails(t) \/ RestoreFails(t)
    BY <2>7, CommitStep, PruneStep, ApplyFailsStep, RestoreFailsStep, Zenon
  <2> QED
    BY <2>1, <2>2, <2>3, <2>4, <2>5, <2>6, <2>7, Zenon
<1> QED
  BY <1>1, <1>2, Zenon

\* The invariant of portable browser storage: what each step of an open, a
\* boundary, a restore and their failures knows about the disk is so, in every
\* reachable state.
THEOREM StorageInvariant == Spec => []StorageInv
<1>1. Init => StorageInv
  BY InitStorage
<1>2. StorageInv /\ [Next]_vars => StorageInv'
  BY NextStorage
<1> QED
  BY <1>1, <1>2, PTL DEF Spec

-----------------------------------------------------------------------------
(* What it means *)

\* Every step of an open, a session, a restore and their failure paths is taken
\* by the tab that holds the web lock, and a tab that is done does not keep it
\* (acquireExclusiveWebLock, the finally of close).
THEOREM LockIsHeld == Spec => []LockCoversUse
<1>1. StorageInv => LockCoversUse
  BY Zenon DEF StorageInv
<1> QED
  BY <1>1, StorageInvariant, PTL

LEMMA ReadableFrom ==
  ASSUME StorageInv
  PROVE  PublishedReadable
<1> SUFFICES ASSUME phase = "ready"
             PROVE  /\ ~Missing(stored) /\ Valid(Read(stored))
                    /\ \A p, q \in Paths : stored[p][1] = "at" =>
                         /\ data[stored[p][2]] # Empty
                         /\ stored[q] = stored[p] => q = p
  BY Zenon DEF PublishedReadable
<1>1. Backed(data, stored) /\ Valid(View(data, stored)) /\ stored \in [Paths -> Entries]
  BY Types, Zenon DEF StorageInv, DiskInv, RestType
<1>2. Valid(Read(stored))
  BY <1>1, Zenon DEF Read, View
<1>3. ~Missing(stored)
  BY <1>1, BackedIsUsed, Zenon DEF Missing
<1>4. \A p, q \in Paths : stored[p][1] = "at" =>
        data[stored[p][2]] # Empty /\ (stored[q] = stored[p] => q = p)
  BY <1>1, ContentFacts, Zenon DEF Backed
<1> QED
  BY <1>2, <1>3, <1>4, Zenon

\* Whatever failed or died, a published database can be opened: each file that
\* the state file names has a complete backing file of its own, and the snapshot
\* passes validateSnapshotSemantics.
THEOREM PublishedIsReadable == Spec => []PublishedReadable
<1>1. StorageInv => PublishedReadable
  BY ReadableFrom
<1> QED
  BY <1>1, StorageInvariant, PTL

\* What is stored is what the users were told to expect: the guest's PGDATA at
\* the last boundary that succeeded, or at one whose outcome is unknown.
THEOREM PromisesAreKept == Spec => []StoredIsPromised
<1>1. StorageInv => StoredIsPromised
  BY Zenon DEF StorageInv
<1> QED
  BY <1>1, StorageInvariant, PTL

\* The steps that set the phase leave a published database alone.
LEMMA PhaseStays ==
  ASSUME StorageInv, NEW t \in Tabs, phase = "ready",
         SeedState(t) \/ SeedCommit(t) \/ Restore(t) \/ CreateState(t) \/ RestoreFails(t)
  PROVE  phase' = "ready"
<1>1. CASE SeedState(t) \/ CreateState(t)
  BY <1>1 DEF SeedState, CreateState
<1>2. CASE SeedCommit(t)
  <2>1. tab[t].pc = "seedCommit" /\ tab[t].pc # "idle" /\ tab[t].pc \in {"seed", "seedCommit"}
    BY <1>2 DEF SeedCommit
  <2>2. OpenInv(tab[t])
    BY <2>1, Holder, Zenon DEF TabInv
  <2>3. phase \in {"absent", "empty", "initializing"}
    BY <2>1, <2>2, Zenon DEF OpenInv
  <2> QED
    BY <2>3
<1>3. CASE Restore(t)
  BY <1>3 DEF Restore
<1>4. CASE RestoreFails(t)
  <2>1. tab[t].pc \in {"apply", "write", "commit"} /\ tab[t].at = "restore"
    BY <1>4, Zenon DEF RestoreFails
  <2>2. tab[t].pc # "idle" /\ tab[t].pc \in Leased \cup Applying /\ tab[t].pc # "prune"
    BY <2>1 DEF Applying
  <2>3. LeaseInv(tab[t])
    BY <2>2, Holder, Zenon DEF TabInv
  <2>4. phase \in {"absent", "empty"}
    BY <2>1, <2>2, <2>3, Zenon DEF LeaseInv
  <2> QED
    BY <2>4
<1> QED
  BY <1>1, <1>2, <1>3, <1>4, Zenon

LEMMA PublishedGoesOn ==
  ASSUME StorageInv, [Next]_vars, phase = "ready"
  PROVE  phase' = "ready"
<1>1. CASE UNCHANGED vars
  BY <1>1, Zenon DEF vars, disk
<1>2. ASSUME NEW t \in Tabs,
             \/ Acquire(t) \/ OpenPool(t, TRUE) \/ OpenPool(t, FALSE) \/ SeedFile(t)
             \/ DirectUnavailable(t) \/ Inspect(t) \/ ReadRows(t) \/ OpenFails(t)
      PROVE  phase' = "ready"
  BY <1>2, Zenon DEF Acquire, OpenPool, SeedFile, DirectUnavailable, Inspect, ReadRows,
     OpenFails, disk
<1>3. ASSUME NEW t \in Tabs,
             \/ Startup(t) \/ (\E p \in Paths : GuestWrite(t, p))
             \/ (\E p \in Folders : GuestMakeDir(t, p))
             \/ (\E p \in Paths \ Essential : GuestRemove(t, p))
             \/ Operation(t) \/ ExecFails(t) \/ Serve(t) \/ publishIdle(t) \/ ServeEnds(t)
             \/ Close(t) \/ Abort(t)
      PROVE  phase' = "ready"
  <2>1. UNCHANGED disk
    BY <1>3, Zenon DEF Startup, GuestWrite, GuestMakeDir, GuestRemove, Touch, Operation,
       ExecFails, Serve, publishIdle, ServeEnds, Close, BeginSync, Abort
  <2> QED
    BY <2>1, Zenon DEF disk
<1>4. ASSUME NEW t \in Tabs,
             \/ Transact(t) \/ Apply(t) \/ WriteFile(t) \/ Commit(t) \/ Prune(t)
             \/ ApplyFails(t) \/ TabDies(t)
      PROVE  phase' = "ready"
  BY <1>4, Zenon DEF Transact, Apply, WriteFile, Commit, Prune, ApplyFails, TabDies, WriteState
<1> QED
  BY <1>1, <1>2, <1>3, <1>4, PhaseStays, Zenon DEF Next

\* A published database is never unpublished: no seed resets it, and neither a
\* restore nor the clean-up of a failed one replaces or removes it.
THEOREM PublishedIsFinal == Spec => PublishedStays
<1>1. StorageInv /\ [Next]_vars => [phase = "ready" => phase' = "ready"]_vars
  BY PublishedGoesOn
<1> QED
  BY <1>1, StorageInvariant, PTL DEF Spec, PublishedStays

\* What a step may tell the caller of a tab that ends a boundary.
Honest(t) ==
  /\ report' \in {"ok", "persisted"} =>
       \A p \in Kept : tab[t].guest[p] # Absent => Durable'[p] = tab[t].guest[p]
  /\ report' \in {"not-persisted", "unchanged"} => Durable' = tab[t].base

LEMMA SettleReports ==
  ASSUME NEW t, NEW x, NEW r, Settle(t, x, r)
  PROVE  report' = r
BY Zenon DEF Settle, Leave

\* Only a step of its own can end a boundary.
LEMMA OthersWait ==
  ASSUME StorageInv, NEW t \in Tabs, tab[t].pc \in Applying, [Next]_vars
  PROVE  \/ tab' = tab
         \/ Transact(t) \/ Abort(t) \/ Apply(t) \/ WriteFile(t) \/ CreateState(t)
         \/ Commit(t) \/ Prune(t) \/ ApplyFails(t) \/ RestoreFails(t) \/ TabDies(t)
<1>1. tab[t].pc # "idle" /\ tab[t].pc \notin {"idle", "locked", "seed", "seedCommit", "inspect",
                                             "startup", "open", "serving", "cleanup"}
  BY DEF Applying
<1>2. lock = t /\ lock # None
  <2>1. lock = t
    BY <1>1, Holder, Zenon
  <2> QED
    BY <2>1, StorageAssumption, Zenon DEF None
<1>3. \A u \in Tabs : tab[u].pc # "idle" => u = t
  BY <1>2, Zenon DEF StorageInv, LockCoversUse
<1>4. CASE UNCHANGED vars
  BY <1>4, Zenon DEF vars
<1>5. ASSUME NEW u \in Tabs, Acquire(u) PROVE tab' = tab
  BY <1>2, <1>5, Zenon DEF Acquire
<1>6. ASSUME NEW u \in Tabs,
             \/ OpenPool(u, TRUE) \/ OpenPool(u, FALSE) \/ SeedFile(u)
             \/ SeedState(u) \/ SeedCommit(u) \/ DirectUnavailable(u) \/ Inspect(u)
             \/ ReadRows(u) \/ OpenFails(u) \/ Startup(u) \/ Restore(u)
      PROVE  FALSE
  <2>1. tab[u].pc \in {"locked", "seed", "seedCommit", "inspect", "startup"}
    BY <1>6, Zenon DEF OpenPool, SeedFile, SeedState, SeedCommit, DirectUnavailable, Inspect,
       ReadRows, OpenFails, Startup, Restore
  <2>2. tab[u].pc # "idle"
    BY <2>1
  <2>3. u = t
    BY <1>3, <2>2, Zenon
  <2> QED
    BY <1>1, <2>1, <2>3
<1>7. ASSUME NEW u \in Tabs,
             \/ (\E p \in Paths : GuestWrite(u, p))
             \/ (\E p \in Folders : GuestMakeDir(u, p))
             \/ (\E p \in Paths \ Essential : GuestRemove(u, p))
             \/ Operation(u) \/ ExecFails(u) \/ Serve(u) \/ publishIdle(u) \/ ServeEnds(u)
             \/ Close(u)
      PROVE  FALSE
  <2>1. tab[u].pc \in {"startup", "open", "serving", "cleanup"}
    BY <1>7, Zenon DEF GuestWrite, GuestMakeDir, GuestRemove, GuestRuns, Operation, ExecFails,
       Serve, publishIdle, ServeEnds, Close
  <2>2. tab[u].pc # "idle"
    BY <2>1
  <2>3. u = t
    BY <1>3, <2>2, Zenon
  <2> QED
    BY <1>1, <2>1, <2>3
<1>8. ASSUME NEW u \in Tabs,
             \/ Transact(u) \/ Abort(u) \/ Apply(u) \/ WriteFile(u) \/ CreateState(u)
             \/ Commit(u) \/ Prune(u) \/ ApplyFails(u) \/ RestoreFails(u) \/ TabDies(u)
      PROVE  u = t
  <2>1. tab[u].pc # "idle"
    BY <1>8 DEF Transact, Abort, Apply, WriteFile, CreateState, Commit, Prune, ApplyFails,
       RestoreFails, TabDies
  <2> QED
    BY <1>3, <2>1, Zenon
<1>9. CASE Next
  <2>1. PICK u \in Tabs :
          \/ Acquire(u) \/ OpenPool(u, TRUE) \/ OpenPool(u, FALSE) \/ SeedFile(u)
          \/ SeedState(u) \/ SeedCommit(u) \/ DirectUnavailable(u) \/ Inspect(u)
          \/ ReadRows(u) \/ OpenFails(u) \/ Startup(u)
          \/ \E p \in Paths : GuestWrite(u, p)
          \/ \E p \in Folders : GuestMakeDir(u, p)
          \/ \E p \in Paths \ Essential : GuestRemove(u, p)
          \/ Operation(u) \/ ExecFails(u) \/ Serve(u) \/ publishIdle(u) \/ ServeEnds(u)
          \/ Close(u) \/ Restore(u) \/ Transact(u) \/ Abort(u) \/ Apply(u)
          \/ WriteFile(u) \/ CreateState(u) \/ Commit(u) \/ Prune(u)
          \/ ApplyFails(u) \/ RestoreFails(u) \/ TabDies(u)
    BY <1>9, Zenon DEF Next
  <2> QED
    BY <1>5, <1>6, <1>7, <1>8, <2>1, Zenon
<1> QED
  BY <1>4, <1>9, Zenon

LEMMA PublishedHonest ==
  ASSUME StorageInv, NEW t \in Tabs, Published(t), phase' = "ready",
         tab[t] \in TabSet, Matches(tab[t], View(data', stored'))
  PROVE  Honest(t)
<1> DEFINE v == View(data', stored')
<1>1. report' \in {"ok", "persisted"}
  BY SettleReports, Zenon DEF Published
<1>2. report' \notin {"not-persisted", "unchanged"}
  BY <1>1
<1>3. Durable' = Persistent(v)
  BY DurableIs, Zenon
<1>4. \A p \in Kept : Persistent(v)[p] = v[p]
  BY Zenon DEF Persistent, Kept
<1>5. \A p \in Kept : tab[t].guest[p] # Absent => Durable'[p] = tab[t].guest[p]
  BY <1>3, <1>4, Zenon DEF Matches
<1> QED
  BY <1>2, <1>5, Zenon DEF Honest

LEMMA ReportsFrom ==
  ASSUME StorageInv, [Next]_vars, NEW t \in Tabs,
         tab[t].pc \in Applying, tab'[t].pc \notin Applying
  PROVE  Honest(t)
<1> DEFINE x == tab[t]
<1>1. x.pc # "idle"
  BY DEF Applying
<1>2. x \in TabSet /\ RestType /\ DiskInv /\ LeaseInv(x) /\ PromiseInv(x)
  BY <1>1, Holder, Zenon DEF TabInv
<1>3. StorageInv'
  BY NextStorage, Zenon
<1>4. ASSUME NEW r, report' = r, r \notin {"ok", "persisted", "not-persisted", "unchanged"}
      PROVE  Honest(t)
  BY <1>4, Zenon DEF Honest
<1>5. CASE Transact(t)
  <2>1. /\ x.pc = "transact" /\ phase' = "ready" /\ Published(t) /\ UNCHANGED <<kind, data, ops>>
    BY <1>5, Zenon DEF Transact
  <2>2. Matches(x, View(data', stored'))
    BY <1>5, TransactDisk, Zenon
  <2> QED
    BY <1>2, <2>1, <2>2, PublishedHonest, Zenon
<1>6. CASE Prune(t)
  <2>1. /\ x.pc = "prune" /\ data' \in Pruned(stored) /\ Published(t)
        /\ UNCHANGED <<kind, phase, stored, ops>>
    BY <1>6, Zenon DEF Prune
  <2>2. phase' = "ready" /\ Matches(x, View(data', stored'))
    BY <2>1, PruneDisk, Zenon
  <2> QED
    BY <1>2, <2>1, <2>2, PublishedHonest, Zenon
<1>7. CASE Abort(t)
  <2>1. x.pc # "prune" /\ UNCHANGED <<kind, disk, ops>>
    BY <1>7 DEF Abort
  <2>2. report' \in {"not-persisted", "unchanged"} /\ report' \notin {"ok", "persisted"}
    <3>1. report' \in {"not-persisted", "unchanged"}
      BY <1>7, SettleReports, Zenon DEF Abort
    <3> QED
      BY <3>1
  <2>3. Durable' = Durable
    BY <1>2, <2>1, SameDisk, Zenon DEF disk
  <2>4. x.base = Durable
    BY <1>2, <2>1, Zenon DEF PromiseInv
  <2> QED
    BY <2>2, <2>3, <2>4, Zenon DEF Honest
<1>8. CASE Apply(t) \/ WriteFile(t) \/ CreateState(t) \/ Commit(t)
  <2>1. report' = None
    BY <1>8, Zenon DEF Apply, WriteFile, CreateState, Commit, Goto, Become
  <2>2. None \notin {"ok", "persisted", "not-persisted", "unchanged"}
    BY DEF None
  <2> QED
    BY <1>4, <2>1, <2>2, Zenon
<1>9. CASE ApplyFails(t)
  <2>1. report' = "unknown"
    BY <1>9, SettleReports, Zenon DEF ApplyFails
  <2> QED
    BY <1>4, <2>1
<1>10. CASE TabDies(t)
  <2>1. report' = "died"
    BY <1>10, Zenon DEF TabDies, Leave
  <2> QED
    BY <1>4, <2>1
<1>11. CASE RestoreFails(t)
  <2>1. x.pc \in {"apply", "write", "commit"} /\ x.at = "restore"
    BY <1>11, Zenon DEF RestoreFails
  <2>2. \/ report' = "unknown"
        \/ report' = "unchanged" /\ phase' = "absent"
    BY <1>11, Zenon DEF RestoreFails, Leave
  <2>3. CASE report' = "unknown"
    BY <1>4, <2>3
  <2>4. CASE report' = "unchanged" /\ phase' = "absent"
    <3>1. x.pc # "prune" /\ x.pc \in Leased \cup Applying
      BY <2>1 DEF Applying
    <3>2. phase \in {"absent", "empty"} /\ x.base = Durable
      BY <1>2, <2>1, <3>1, Zenon DEF LeaseInv, PromiseInv
    <3>3. phase # "ready" /\ phase' # "ready"
      BY <2>4, <3>2
    <3>4. Durable' = x.base
      BY <3>2, <3>3, Unpublished, Zenon
    <3>5. report' \notin {"ok", "persisted"}
      BY <2>4
    <3> QED
      BY <3>4, <3>5, Zenon DEF Honest
  <2> QED
    BY <2>2, <2>3, <2>4, Zenon
<1>12. tab' # tab
  OBVIOUS
<1> QED
  BY <1>5, <1>6, <1>7, <1>8, <1>9, <1>10, <1>11, <1>12, OthersWait, Zenon

\* The commit state that a boundary reports is true: after success and after
\* "persisted" the guest's PGDATA is stored, after "not-persisted" and
\* "unchanged" the generation before the boundary still is.
THEOREM ReportsAreHonest == Spec => ReportIsHonest
<1>1. StorageInv /\ [Next]_vars =>
        \A t \in Tabs : tab[t].pc \in Applying /\ tab'[t].pc \notin Applying => Honest(t)
  BY ReportsFrom
<1>2. StorageInv /\ [Next]_vars =>
        [\A t \in Tabs :
           tab[t].pc \in Applying /\ tab'[t].pc \notin Applying =>
             /\ report' \in {"ok", "persisted"} =>
                  \A p \in Kept : tab[t].guest[p] # Absent => Durable'[p] = tab[t].guest[p]
             /\ report' \in {"not-persisted", "unchanged"} => Durable' = tab[t].base]_vars
  BY <1>1, Zenon DEF Honest
<1> QED
  BY <1>2, StorageInvariant, PTL DEF Spec, ReportIsHonest
=============================================================================
