-------------------------- MODULE ShopCacheProofs --------------------------
(***************************************************************************)
(* Proofs about ShopCache for any number of instances, threads and         *)
(* commits: its types, that nothing uncommitted is ever cached, and when   *)
(* the mutex protects.                                                     *)
(***************************************************************************)
EXTENDS ShopCache, TLAPS

\* Where readers and rebuilds can be: only readers try the mutex and leave finally
\* blocks, only rebuilds pass "unlock".
Places ==
    /\ \A t \in Task : pc[t] \in {"idle", "down", "load", "fill", "unlock"}
    /\ \A r \in Reader : pc[r] # "unlock"

\* A reader that works under the mutex has a finally block to leave.
Owing == \A r \in Reader : pc[r] \in {"check", "load", "fill", "leave"} => owed[r] > 0

\* A transaction that is under way can still commit within the bound.
CommitFits == wpc # "idle" => row < MaxVersion

Sound == ShopTypeOK /\ Places /\ Owing /\ CommitFits

\* Cold caches and idle threads.
LEMMA SoundInit == ShopInit => Sound
<1> SUFFICES ASSUME ShopInit PROVE Sound
  OBVIOUS
<1> USE CacheBounds, NodesKnown DEF ShopInit
<1>1. ShopTypeOK
  <2>1. 0 \in Version /\ row \in Version /\ Missing \in Entry
    BY DEF Version, Entry
  <2>2. local \in [Node -> Version] /\ got \in [Thread -> Version]
    BY <2>1
  <2>3. owed \in [Reader -> 0..MaxOwed] /\ faults \in 0..MaxFaults
    OBVIOUS
  <2> QED BY <2>1, <2>2, <2>3 DEF ShopTypeOK
<1>2. Places /\ Owing /\ CommitFits
  BY ThreadApart DEF Places, Owing, CommitFits, Thread
<1> QED BY <1>1, <1>2 DEF Sound

\* What an entry holds is a version.
LEMMA EntryParts ==
    /\ Missing \in Entry /\ Marker \in Entry
    /\ \A e \in Entry : /\ e.ver \in Version
                        /\ e.kind = "data" => e.ver # 0
<1>1. Missing \in Entry /\ Marker \in Entry
  BY DEF Entry
<1>2. ASSUME NEW e \in Entry PROVE e.ver \in Version /\ (e.kind = "data" => e.ver # 0)
  <2>1. CASE e \in {Missing, Marker}
    BY <2>1, CacheBounds DEF Missing, Marker, Version
  <2>2. CASE \E v \in Version \ {0}, f \in BOOLEAN : e = Data(v, f)
    BY <2>2 DEF Data
  <2> QED BY <2>1, <2>2 DEF Entry
<1> QED BY <1>1, <1>2

\* The data of a version above 0 is an entry.
LEMMA DataEntry ==
    ASSUME NEW v \in Version, v # 0, NEW f \in BOOLEAN
    PROVE  Data(v, f) \in Entry
BY DEF Entry

\* What a reader or a rebuild stores is an entry.
LEMMA StoredEntry ==
    ASSUME NEW v \in Version
    PROVE  Stored(v) \in Entry
BY DataEntry, EntryParts DEF Stored

\* What the start of an instance leaves is an entry.
LEMMA PreloadEntry ==
    ASSUME saw \in Version, entry \in Entry, Preload
    PROVE  entry' \in Entry
<1>1. CASE saw > 0
  <2>1. saw # 0 /\ entry' = Data(saw, TRUE)
    BY <1>1 DEF Preload, Version
  <2> QED BY <2>1, DataEntry
<1>2. CASE ~(saw > 0)
  BY <1>2 DEF Preload
<1> QED BY <1>1, <1>2

\* What is left of an entry when its logical expiry passes is an entry.
LEMMA ExpiredEntry ==
    ASSUME entry \in Entry, Expire
    PROVE  entry' \in Entry
BY EntryParts, DataEntry DEF Expire

\* The steps that only readers take.
LEMMA ReaderSound ==
    ASSUME Sound, NEW r \in Reader, Ask(r) \/ Read(r)
    PROVE  Sound'
<1> USE ThreadApart, CacheBounds, EntryParts
    DEF Sound, ShopTypeOK, Places, Owing, CommitFits, Thread, Go, Take, Version
<1>1. CASE Ask(r)
  BY <1>1 DEF Ask, threadVars, bootVars, histVars
<1>2. CASE Get(r)
  BY <1>2 DEF Get, After, bootVars, histVars
<1>3. CASE Renew(r)
  BY <1>3 DEF Renew, After, bootVars, histVars
<1>4. CASE Lock(r)
  <2>1. /\ owed' \in [Reader -> 0..MaxOwed] /\ owed'[r] > 0
        /\ \A q \in Reader \ {r} : owed'[q] = owed[q]
    BY <1>4 DEF Lock
  <2>2. /\ mutex' \in {r, mutex} /\ spun' \in {TRUE, spun}
        /\ pc' = [pc EXCEPT ![r] = "check"] \/ pc' = [pc EXCEPT ![r] = "get"]
        /\ UNCHANGED <<row, entry, local, got, wpc, boot, saw, faults, lapsed>>
    BY <1>4 DEF Lock, bootVars
  <2> QED BY <2>1, <2>2
<1>5. CASE Check(r)
  BY <1>5 DEF Check, bootVars, histVars
<1>6. CASE Leave(r)
  BY <1>6 DEF Leave, After, bootVars, histVars
<1>7. CASE Put(r)
  BY <1>7, NodesKnown DEF Put, bootVars, histVars
<1> QED BY <1>1, <1>2, <1>3, <1>4, <1>5, <1>6, <1>7 DEF Read

\* The steps of readers and rebuilds at the database and behind it.
LEMMA RebuildSound ==
    ASSUME Sound, NEW t \in Thread, Rebuild(t) \/ LoadFails(t)
    PROVE  Sound'
<1> USE ThreadApart, CacheBounds, EntryParts
    DEF Sound, ShopTypeOK, Places, Owing, CommitFits, Thread, Go, Take, Version
<1>1. CASE Load(t)
  BY <1>1 DEF Load, bootVars, histVars
<1>2. CASE LoadFails(t)
  BY <1>2 DEF LoadFails, Fails, bootVars, histVars
<1>3. CASE Fill(t)
  <2>1. Stored(got[t]) \in Entry
    BY StoredEntry
  <2> QED BY <1>3, <2>1 DEF Fill, bootVars, histVars
<1>4. CASE Unlock(t)
  BY <1>4 DEF Unlock, bootVars, histVars
<1> QED BY <1>1, <1>2, <1>3, <1>4 DEF Rebuild

\* createShop and update, their rollback, the restart and the passing of time.
LEMMA OthersSound ==
    ASSUME Sound, Write \/ Rollback \/ Restart \/ Start \/ Time
    PROVE  Sound'
<1> USE ThreadApart, CacheBounds, NodesKnown, EntryParts
    DEF Sound, ShopTypeOK, Places, Owing, CommitFits, Thread, Version
<1>1. CASE Write
  BY <1>1 DEF Write, Save, UpdateRow, DeleteEntry, InvalidateLocal, Commit, WriteStep,
              Invalidated, threadVars, bootVars, histVars
<1>2. CASE Rollback
  BY <1>2 DEF Rollback, Fails, threadVars, bootVars, histVars
<1>3. CASE Restart
  BY <1>3 DEF Restart, Fails, histVars
<1>4. CASE Start
  <2>1. CASE SelectHot
    BY <2>1 DEF SelectHot, threadVars, histVars
  <2>2. CASE Preload
    <3>1. entry' \in Entry
      BY <2>2, PreloadEntry
    <3>2. /\ pc' \in [Thread -> {"idle", "down", "get", "renew", "lock", "check", "load",
                                 "fill", "leave", "unlock", "put"}]
          /\ \A t \in Thread : pc'[t] \in {"idle", pc[t]}
      BY <2>2 DEF Preload
    <3>3. local' \in [Node -> Version] /\ boot' = "up" /\ saw' = 0
      BY <2>2 DEF Preload
    <3>4. UNCHANGED <<row, mutex, got, owed, wpc, faults, spun, lapsed>>
      BY <2>2 DEF Preload, histVars
    <3> QED BY <3>1, <3>2, <3>3, <3>4
  <2> QED BY <1>4, <2>1, <2>2 DEF Start
<1>5. CASE Time
  <2>1. CASE Expire
    <3>1. entry' \in Entry
      BY <2>1, ExpiredEntry
    <3> QED BY <2>1, <3>1 DEF Expire, threadVars, bootVars, histVars
  <2>2. CASE MarkerEnds
    BY <2>2 DEF MarkerEnds, threadVars, bootVars, histVars
  <2>3. CASE MutexEnds
    BY <2>3 DEF MutexEnds, threadVars, bootVars
  <2>4. ASSUME NEW n \in Node, LocalEnds(n) PROVE Sound'
    BY <2>4 DEF LocalEnds, threadVars, bootVars, histVars
  <2> QED BY <1>5, <2>1, <2>2, <2>3, <2>4 DEF Time
<1> QED BY <1>1, <1>2, <1>3, <1>4, <1>5

\* Every step keeps types, places and owed finally blocks.
LEMMA SoundStep == Sound /\ [ShopNext]_shopVars => Sound'
<1> SUFFICES ASSUME Sound, [ShopNext]_shopVars PROVE Sound'
  OBVIOUS
<1>1. CASE UNCHANGED shopVars
  BY <1>1 DEF shopVars, threadVars, bootVars, histVars, Sound, ShopTypeOK, Places, Owing,
              CommitFits
<1> QED BY <1>1, ReaderSound, RebuildSound, OthersSound DEF ShopNext

\* They hold in every behaviour.
LEMMA SoundAlways == ShopSpec => []Sound
BY SoundInit, SoundStep, PTL DEF ShopSpec

\* Every variable of the read path keeps its type: no finally block runs that no call
\* owes, and no commit exceeds the bound.
THEOREM ShopTypesCorrect == ShopSpec => []ShopTypeOK
<1>1. Sound => ShopTypeOK
  BY DEF Sound
<1> QED BY <1>1, SoundAlways, PTL

-----------------------------------------------------------------------------
\* Nothing that was read from the row is ahead of it.
Committed == CachedWasCommitted /\ saw <= row

\* A step copies versions from the row, from the entry or from a hand, or commits.
LEMMA CommittedStep ==
    ASSUME ShopTypeOK, ShopTypeOK', Committed, [ShopNext]_shopVars
    PROVE  Committed'
<1> USE CacheBounds, NodesKnown DEF Committed, CachedWasCommitted, Go, Take
<1>1. /\ row \in Nat /\ row' \in Nat /\ entry.ver \in Nat /\ saw \in Nat
      /\ local \in [Node -> Nat] /\ got \in [Thread -> Nat]
  BY EntryParts DEF ShopTypeOK, Version
<1>2. ASSUME NEW r \in Reader, Ask(r) \/ Read(r) PROVE Committed'
  <2>1. CASE Ask(r) \/ Renew(r) \/ Lock(r) \/ Leave(r)
    BY <1>1, <2>1 DEF Ask, Renew, Lock, Leave, bootVars
  <2>2. CASE Get(r) \/ Check(r)
    BY <1>1, <2>2 DEF Get, Check, bootVars, Thread
  <2>3. CASE Put(r)
    <3>1. got[r] <= row
      BY DEF Thread
    <3> QED BY <1>1, <2>3, <3>1 DEF Put, bootVars
  <2> QED BY <1>2, <2>1, <2>2, <2>3 DEF Read
<1>3. ASSUME NEW t \in Thread, Rebuild(t) \/ LoadFails(t) PROVE Committed'
  <2>1. CASE Load(t) \/ LoadFails(t) \/ Unlock(t)
    BY <1>1, <2>1 DEF Load, LoadFails, Unlock, bootVars
  <2>2. CASE Fill(t)
    <3>1. entry'.ver = got[t] /\ got[t] <= row
      BY <2>2 DEF Fill, Stored, Data, Marker
    <3> QED BY <1>1, <2>2, <3>1 DEF Fill, bootVars
  <2> QED BY <1>3, <2>1, <2>2 DEF Rebuild
<1>4. CASE Write \/ Rollback
  <2>1. CASE Commit
    BY <1>1, <2>1 DEF Commit, threadVars, bootVars
  <2>2. CASE DeleteEntry
    BY <1>1, <2>2 DEF DeleteEntry, Invalidated, Missing, threadVars, bootVars
  <2>3. CASE InvalidateLocal
    BY <1>1, <2>3 DEF InvalidateLocal, threadVars, bootVars
  <2>4. CASE Save \/ UpdateRow \/ Rollback
    BY <1>1, <2>4 DEF Save, UpdateRow, Rollback, threadVars, bootVars
  <2> QED BY <1>4, <2>1, <2>2, <2>3, <2>4 DEF Write
<1>5. CASE Restart
  BY <1>1, <1>5 DEF Restart
<1>6. CASE SelectHot
  BY <1>1, <1>6 DEF SelectHot, threadVars
<1>7. CASE Preload
  <2>1. entry'.ver <= row
    BY <1>1, <1>7 DEF Preload, Data
  <2>2. /\ row' = row /\ got' = got /\ saw' = 0
        /\ \A n \in Node : local'[n] \in {saw, local[n]}
    BY <1>7, <1>1 DEF Preload
  <2> QED BY <1>1, <2>1, <2>2
<1>8. CASE Time
  <2>1. CASE Expire
    <3>1. entry'.ver = entry.ver
      BY <2>1 DEF Expire, Data
    <3> QED BY <1>1, <2>1, <3>1 DEF Expire, threadVars, bootVars
  <2>2. CASE MarkerEnds
    BY <1>1, <2>2 DEF MarkerEnds, Missing, threadVars, bootVars
  <2>3. CASE MutexEnds
    BY <1>1, <2>3 DEF MutexEnds, threadVars, bootVars
  <2>4. ASSUME NEW n \in Node, LocalEnds(n) PROVE Committed'
    BY <1>1, <2>4 DEF LocalEnds, threadVars, bootVars
  <2> QED BY <1>8, <2>1, <2>2, <2>3, <2>4 DEF Time
<1>9. CASE UNCHANGED shopVars
  BY <1>1, <1>9 DEF shopVars, threadVars, bootVars
<1> QED BY <1>2, <1>3, <1>4, <1>5, <1>6, <1>7, <1>8, <1>9 DEF ShopNext, Start

\* No cache and no thread is ever ahead of the committed row, whatever rolls back and
\* whoever fills the cache at the same time.
THEOREM OnlyCommittedCached == ShopSpec => []CachedWasCommitted
<1>1. ShopInit => Committed
  BY DEF ShopInit, Committed, CachedWasCommitted, Missing
<1>2. ShopTypeOK /\ ShopTypeOK' /\ Committed /\ [ShopNext]_shopVars => Committed'
  BY CommittedStep
<1>3. Committed => CachedWasCommitted
  BY DEF Committed
<1> QED BY <1>1, <1>2, <1>3, ShopTypesCorrect, PTL DEF ShopSpec

-----------------------------------------------------------------------------
\* Who works under the mutex is the one who put it there and has one finally block to
\* leave; the threads of an instance that starts do not work.
Guarded ==
    /\ \A t \in Thread : Working(t) => mutex = t
    /\ \A r \in Reader : owed[r] = IF Working(r) THEN 1 ELSE 0

StartedDown == boot # "up" => \A t \in Thread : Here(t) => pc[t] = "down"

Exclusive == StartedDown /\ (~spun /\ ~lapsed => Guarded)

\* The threads of an instance stay down until it has loaded its hot shops.
LEMMA StartedDownStep ==
    ASSUME ShopTypeOK, StartedDown, [ShopNext]_shopVars
    PROVE  StartedDown'
<1> USE ThreadApart DEF ShopTypeOK, StartedDown, Thread, Here, Go
<1>1. ASSUME NEW r \in Reader, Ask(r) \/ Read(r) PROVE StartedDown'
  BY <1>1 DEF Read, Ask, Get, Renew, Lock, Check, Leave, Put, bootVars
<1>2. ASSUME NEW t \in Thread, Rebuild(t) \/ LoadFails(t) PROVE StartedDown'
  BY <1>2 DEF Rebuild, Load, LoadFails, Fill, Unlock, bootVars
<1>3. CASE Write \/ Rollback
  BY <1>3 DEF Write, Save, UpdateRow, DeleteEntry, InvalidateLocal, Commit, Rollback,
              threadVars, bootVars
<1>4. CASE Restart
  BY <1>4 DEF Restart
<1>5. CASE Start
  BY <1>5 DEF Start, SelectHot, Preload, threadVars
<1>6. CASE Time
  BY <1>6 DEF Time, Expire, MarkerEnds, MutexEnds, LocalEnds, threadVars, bootVars
<1>7. CASE UNCHANGED shopVars
  BY <1>7 DEF shopVars, threadVars, bootVars
<1> QED BY <1>1, <1>2, <1>3, <1>4, <1>5, <1>6, <1>7 DEF ShopNext

\* A step that misses no mutex and lets none run out keeps the worker alone.
LEMMA GuardedStep ==
    ASSUME Sound, StartedDown, ~spun /\ ~lapsed => Guarded, [ShopNext]_shopVars,
           ~spun', ~lapsed'
    PROVE  Guarded'
<1> USE ThreadApart, CacheBounds DEF Sound, ShopTypeOK, Places, Guarded, Working, Thread, Go
<1>1. ~spun /\ ~lapsed
  <2>1. ASSUME spun PROVE FALSE
    BY <2>1 DEF ShopNext, Read, Rebuild, Write, Start, Time, Ask, Get, Renew, Lock, Check,
                Leave, Put, Load, LoadFails, Fill, Unlock, Save, UpdateRow, DeleteEntry,
                InvalidateLocal, Commit, Rollback, Restart, SelectHot, Preload, Expire,
                MarkerEnds, MutexEnds, LocalEnds, histVars, shopVars
  <2>2. ASSUME lapsed PROVE FALSE
    BY <2>2 DEF ShopNext, Read, Rebuild, Write, Start, Time, Ask, Get, Renew, Lock, Check,
                Leave, Put, Load, LoadFails, Fill, Unlock, Save, UpdateRow, DeleteEntry,
                InvalidateLocal, Commit, Rollback, Restart, SelectHot, Preload, Expire,
                MarkerEnds, MutexEnds, LocalEnds, histVars, shopVars
  <2> QED BY <2>1, <2>2
<1>2. Guarded
  BY <1>1
<1>3. ASSUME NEW r \in Reader, Ask(r) \/ Read(r) PROVE Guarded'
  <2>1. CASE Ask(r)
    BY <1>2, <2>1 DEF Ask, threadVars
  <2>2. CASE Get(r)
    BY <1>2, <2>2 DEF Get, After
  <2>3. CASE Renew(r)
    BY <1>2, <2>3 DEF Renew, After, Available
  <2>4. CASE Lock(r)
    BY <1>2, <2>4 DEF Lock, Available
  <2>5. CASE Check(r)
    BY <1>2, <2>5 DEF Check
  <2>6. CASE Leave(r)
    BY <1>2, <2>6 DEF Leave, After
  <2>7. CASE Put(r)
    BY <1>2, <2>7 DEF Put
  <2> QED BY <1>3, <2>1, <2>2, <2>3, <2>4, <2>5, <2>6, <2>7 DEF Read
<1>4. ASSUME NEW t \in Thread, Rebuild(t) \/ LoadFails(t) PROVE Guarded'
  BY <1>2, <1>4 DEF Rebuild, Load, LoadFails, Fill, Unlock
<1>5. CASE Write \/ Rollback
  BY <1>2, <1>5 DEF Write, Save, UpdateRow, DeleteEntry, InvalidateLocal, Commit, Rollback,
                    threadVars
<1>6. CASE Restart
  BY <1>2, <1>6 DEF Restart
<1>7. CASE Start
  BY <1>2, <1>7 DEF Start, SelectHot, Preload, StartedDown, threadVars
<1>8. CASE Time
  BY <1>2, <1>8 DEF Time, Expire, MarkerEnds, MutexEnds, LocalEnds, threadVars
<1>9. CASE UNCHANGED shopVars
  BY <1>2, <1>9 DEF shopVars, threadVars
<1> QED BY <1>3, <1>4, <1>5, <1>6, <1>7, <1>8, <1>9 DEF ShopNext

\* For any number of readers, rebuilds and instances: until somebody misses the mutex
\* or it runs out under its holder, CacheClient lets one thread work on the entry.
THEOREM MutexExcludes == ShopSpec => []MutexProtects
<1>1. ShopInit => Exclusive
  BY ThreadApart DEF ShopInit, Exclusive, StartedDown, Guarded, Working, Thread
<1>2. Sound /\ Exclusive /\ [ShopNext]_shopVars => Exclusive'
  BY StartedDownStep, GuardedStep DEF Exclusive, Sound
<1>3. Exclusive => MutexProtects
  BY DEF Exclusive, Guarded, MutexProtects
<1> QED BY <1>1, <1>2, <1>3, SoundAlways, PTL DEF ShopSpec
=============================================================================
