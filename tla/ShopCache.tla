----------------------------- MODULE ShopCache -----------------------------
(***************************************************************************)
(* One shop on its way through the read path of ShopServiceImpl.queryById: *)
(* Caffeine cache of the instance, Redis entry with a logical expiry,      *)
(* mutex, database (CacheClient), against createShop and update, the       *)
(* rebuild executor, and an instance that starts again.                    *)
(*                                                                         *)
(* A step is one access to Redis or MySQL.  Versions of the shop count its *)
(* commits: 0 is "no such row".  The bloom filter before all this has a    *)
(* module of its own: here it lets the id pass.                            *)
(***************************************************************************)
EXTENDS Naturals

CONSTANTS
    Node,        \* application instances
    Reader,      \* threads that answer GET /shop/{id}
    Task,        \* free places of cacheRebuildExecutor (threads and queue)
    NodeOf,      \* the instance of a reader or of a place
    Writer,      \* the instance that creates and updates the shop
    Booting,     \* the instance that may start again
    MaxVersion,  \* bound: commits of the shop
    MaxOwed,     \* bound: finally blocks one call has to leave
    MaxFaults    \* bound: failing statements, rollbacks and restarts

Thread == Reader \cup Task
Version == 0..MaxVersion

ASSUME ThreadApart == Reader \cap Task = {} /\ "free" \notin Thread
ASSUME NodesKnown ==
    NodeOf \in [Thread -> Node] /\ Writer \in Node /\ Booting \in Node
ASSUME CacheBounds ==
    MaxVersion \in Nat \ {0} /\ MaxOwed \in Nat \ {0} /\ MaxFaults \in Nat

Missing == [kind |-> "missing", ver |-> 0, fresh |-> FALSE]
Marker  == [kind |-> "marker", ver |-> 0, fresh |-> FALSE]  \* "" for two minutes
Data(v, f) == [kind |-> "data", ver |-> v, fresh |-> f]     \* RedisData, fresh: not yet expired
Entry == {Missing, Marker} \cup {Data(v, f) : v \in Version \ {0}, f \in BOOLEAN}

VARIABLES
    row,     \* committed version of the row in tb_shop
    entry,   \* cache:shop:{id}
    mutex,   \* lock:shop:{id}: who put the value "1" there; Redis does not know
    local,   \* Caffeine: version held by each instance, 0 for none
    pc, got, \* threads: where they are, the version in hand (0: none)
    owed,    \* readers: finally blocks of queryWithLogicalExpire still to run
    wpc,     \* the transaction of createShop or update
    boot, saw,  \* the instance that starts: where it is, the row it selected
    faults,
    spun, lapsed  \* history: a reader missed the mutex; it ran out under its holder

threadVars == <<pc, got, owed>>
bootVars   == <<boot, saw>>
histVars   == <<spun, lapsed>>
shopVars == <<row, entry, mutex, local, threadVars, wpc, bootVars, faults, histVars>>

-----------------------------------------------------------------------------
\* A running system with cold caches; the shop may exist already.
ShopInit ==
    /\ row \in {0, 1}
    /\ entry = Missing /\ mutex = "free" /\ local = [n \in Node |-> 0]
    /\ pc = [t \in Thread |-> "idle"] /\ got = [t \in Thread |-> 0]
    /\ owed = [r \in Reader |-> 0]
    /\ wpc = "idle" /\ boot = "up" /\ saw = 0 /\ faults = 0
    /\ spun = FALSE /\ lapsed = FALSE

Go(t, label) == pc' = [pc EXCEPT ![t] = label]
Take(t, v)   == got' = [got EXCEPT ![t] = v]

Fails == faults < MaxFaults /\ faults' = faults + 1

-----------------------------------------------------------------------------
(* Readers: queryById and queryWithLogicalExpire. *)

\* A request that the instance's own cache cannot answer.
Ask(r) ==
    /\ pc[r] = "idle" /\ local[NodeOf[r]] = 0
    /\ Go(r, "get")
    /\ UNCHANGED <<row, entry, mutex, local, got, owed, wpc, bootVars, faults, histVars>>

\* Changed form: one finally block too many.
AfterOneMore(pending, v) == IF pending >= 0 THEN "leave" ELSE IF v > 0 THEN "put" ELSE "idle"

\* Where a call that has its result v goes on: out of its pending finally blocks,
\* to putToLocalCache, or to "no such shop".
After(pending, v) == IF pending > 0 THEN "leave" ELSE IF v > 0 THEN "put" ELSE "idle"

\* GET cache:shop:{id}: a fresh entry, an expired one, the marker, or nothing.
Get(r) ==
    /\ pc[r] = "get"
    /\ Take(r, entry.ver)
    /\ \/ /\ entry.kind = "missing" /\ Go(r, "lock")
       \/ /\ entry.kind = "data" /\ ~entry.fresh /\ Go(r, "renew")
       \/ /\ entry.kind = "marker" \/ entry.fresh
          /\ Go(r, After(owed[r], entry.ver))
    /\ UNCHANGED <<row, entry, mutex, local, owed, wpc, bootVars, faults, histVars>>

\* Changed form: the mutex is taken without looking.
Grab == TRUE

\* SET lock:shop:{id} 1 NX EX 10.
Available == mutex = "free"

\* An expired entry: who gets the mutex hands the rebuild to the executor, which
\* drops it when no place is free; the mutex then stays until it runs out.
Renew(r) ==
    /\ pc[r] = "renew"
    /\ \/ /\ Available
          /\ \E t \in Task : /\ NodeOf[t] = NodeOf[r] /\ pc[t] = "idle"
                             /\ mutex' = t
                             /\ pc' = [pc EXCEPT ![t] = "load",
                                                 ![r] = After(owed[r], got[r])]
       \/ /\ Available
          /\ \A t \in Task : NodeOf[t] = NodeOf[r] => pc[t] # "idle"
          /\ mutex' = r
          /\ Go(r, After(owed[r], got[r]))
       \/ /\ ~Available
          /\ Go(r, After(owed[r], got[r]))
          /\ UNCHANGED mutex
    /\ UNCHANGED <<row, entry, local, got, owed, wpc, bootVars, faults, histVars>>

\* No entry: try the mutex; who misses it sleeps and calls itself, and in either
\* case one more finally block is pending (counted up to MaxOwed).
Lock(r) ==
    /\ pc[r] = "lock"
    /\ owed' = [owed EXCEPT ![r] = IF @ < MaxOwed THEN @ + 1 ELSE @]
    /\ \/ /\ Available /\ mutex' = r
          /\ Go(r, "check")
          /\ UNCHANGED spun
       \/ /\ ~Available
          /\ Go(r, "get")
          /\ spun' = TRUE /\ UNCHANGED mutex
    /\ UNCHANGED <<row, entry, local, got, wpc, bootVars, faults, lapsed>>

\* The second look at Redis takes whatever is there, expired or not.
Check(r) ==
    /\ pc[r] = "check"
    /\ Take(r, entry.ver)
    /\ Go(r, IF entry.kind = "missing" THEN "load" ELSE "leave")
    /\ UNCHANGED <<row, entry, mutex, local, owed, wpc, bootVars, faults, histVars>>

\* dbFallback.apply(id), by a reader or by a rebuild.
Load(t) ==
    /\ pc[t] = "load"
    /\ Take(t, row)
    /\ Go(t, IF t \in Task /\ row = 0 THEN "unlock" ELSE "fill")
    /\ UNCHANGED <<row, entry, mutex, local, owed, wpc, bootVars, faults, histVars>>

\* The statement throws: a rebuild logs it, a reader answers with an error;
\* both pass their finally block.
LoadFails(t) ==
    /\ pc[t] = "load" /\ Fails
    /\ Take(t, 0)
    /\ Go(t, IF t \in Task THEN "unlock" ELSE "leave")
    /\ UNCHANGED <<row, entry, mutex, local, owed, wpc, bootVars, histVars>>

\* Changed form: SETNX, which keeps an expired entry.
KeepOld(v) == IF entry.kind = "data" THEN entry ELSE IF v = 0 THEN Marker ELSE Data(v, TRUE)

\* setWithLogicalExpire, or the marker for a shop that does not exist.
Stored(v) == IF v = 0 THEN Marker ELSE Data(v, TRUE)

Fill(t) ==
    /\ pc[t] = "fill"
    /\ entry' = Stored(got[t])
    /\ Go(t, IF t \in Task THEN "unlock" ELSE "leave")
    /\ UNCHANGED <<row, mutex, local, got, owed, wpc, bootVars, faults, histVars>>

\* One finally block: DEL lock:shop:{id}, whoever holds it.
Leave(r) ==
    /\ pc[r] = "leave"
    /\ mutex' = "free"
    /\ owed' = [owed EXCEPT ![r] = @ - 1]
    /\ Go(r, After(owed[r] - 1, got[r]))
    /\ UNCHANGED <<row, entry, local, got, wpc, bootVars, faults, histVars>>

\* The rebuild's finally block.
Unlock(t) ==
    /\ t \in Task /\ pc[t] = "unlock"
    /\ mutex' = "free"
    /\ Go(t, "idle") /\ Take(t, 0)
    /\ UNCHANGED <<row, entry, local, owed, wpc, bootVars, faults, histVars>>

\* putToLocalCache, then the answer.
Put(r) ==
    /\ pc[r] = "put"
    /\ local' = [local EXCEPT ![NodeOf[r]] = got[r]]
    /\ Go(r, "idle") /\ Take(r, 0)
    /\ UNCHANGED <<row, entry, mutex, owed, wpc, bootVars, faults, histVars>>

-----------------------------------------------------------------------------
(* The writer: createShop and update, each one transaction. *)

WriteStep(from, to) == wpc = from /\ wpc' = to

\* createShop: the INSERT; the marker that may be in Redis is left alone.
Save ==
    /\ row = 0 /\ WriteStep("idle", "commit")
    /\ UNCHANGED <<row, entry, mutex, local, threadVars, bootVars, faults, histVars>>

\* UPDATE, not committed yet.
UpdateRow ==
    /\ row \in 1..(MaxVersion - 1) /\ WriteStep("idle", "updated")
    /\ UNCHANGED <<row, entry, mutex, local, threadVars, bootVars, faults, histVars>>

\* Changed form: the new shop is put into the cache instead.
WriteThrough == Data(row + 1, TRUE)

Invalidated == Missing

DeleteEntry ==
    /\ WriteStep("updated", "deleted")
    /\ entry' = Invalidated
    /\ UNCHANGED <<row, mutex, local, threadVars, bootVars, faults, histVars>>

\* invalidate: the cache of this instance only.
InvalidateLocal ==
    /\ WriteStep("deleted", "commit")
    /\ local' = [local EXCEPT ![Writer] = 0]
    /\ UNCHANGED <<row, entry, mutex, threadVars, bootVars, faults, histVars>>

Commit ==
    /\ WriteStep("commit", "idle")
    /\ row' = row + 1
    /\ UNCHANGED <<entry, mutex, local, threadVars, bootVars, faults, histVars>>

\* Any step may throw, and so may the commit: the row stays as it was.
Rollback ==
    /\ wpc # "idle" /\ Fails
    /\ wpc' = "idle"
    /\ UNCHANGED <<row, entry, mutex, local, threadVars, bootVars, histVars>>

-----------------------------------------------------------------------------
(* An instance dies and starts: preloadHotShops. *)

Here(t) == NodeOf[t] = Booting

\* Its threads, its cache and its transaction are gone, the mutex is not.
Restart ==
    /\ boot = "up" /\ Fails
    /\ boot' = "query" /\ UNCHANGED saw
    /\ pc' = [t \in Thread |-> IF Here(t) THEN "down" ELSE pc[t]]
    /\ got' = [t \in Thread |-> IF Here(t) THEN 0 ELSE got[t]]
    /\ owed' = [r \in Reader |-> IF Here(r) THEN 0 ELSE owed[r]]
    /\ local' = [local EXCEPT ![Booting] = 0]
    /\ wpc' = IF Writer = Booting THEN "idle" ELSE wpc
    /\ UNCHANGED <<row, entry, mutex, histVars>>

SelectHot ==
    /\ boot = "query" /\ boot' = "preload" /\ saw' = row
    /\ UNCHANGED <<row, entry, mutex, local, threadVars, wpc, faults, histVars>>

\* The hot shop goes into both caches, then the instance serves requests again.
Preload ==
    /\ boot = "preload" /\ boot' = "up" /\ saw' = 0
    /\ local' = [local EXCEPT ![Booting] = saw]
    /\ entry' = IF saw > 0 THEN Data(saw, TRUE) ELSE entry
    /\ pc' = [t \in Thread |-> IF Here(t) THEN "idle" ELSE pc[t]]
    /\ UNCHANGED <<row, mutex, got, owed, wpc, faults, histVars>>

-----------------------------------------------------------------------------
(* Time. *)

\* The logical expiry passes; the marker's two minutes end.
Expire ==
    /\ entry.kind = "data" /\ entry.fresh
    /\ entry' = Data(entry.ver, FALSE)
    /\ UNCHANGED <<row, mutex, local, threadVars, wpc, bootVars, faults, histVars>>

MarkerEnds ==
    /\ entry.kind = "marker"
    /\ entry' = Missing
    /\ UNCHANGED <<row, mutex, local, threadVars, wpc, bootVars, faults, histVars>>

\* Three minutes without an access, or the 500 places are full.
LocalEnds(n) ==
    /\ local[n] > 0
    /\ local' = [local EXCEPT ![n] = 0]
    /\ UNCHANGED <<row, entry, mutex, threadVars, wpc, bootVars, faults, histVars>>

\* From the acquisition to the end of its finally block a thread works under the mutex.
Working(t) == pc[t] \in {"check", "load", "fill", "leave", "unlock"}

\* Changed form: a mutex without a time to live.
NeverEnds == FALSE

TtlEnds == mutex # "free"

\* The ten seconds are over.
MutexEnds ==
    /\ TtlEnds
    /\ mutex' = "free"
    /\ lapsed' = (lapsed \/ \E t \in Thread : mutex = t /\ Working(t))
    /\ UNCHANGED <<row, entry, local, threadVars, wpc, bootVars, faults, spun>>

-----------------------------------------------------------------------------
Read(r) == Get(r) \/ Renew(r) \/ Lock(r) \/ Check(r) \/ Leave(r) \/ Put(r)

Rebuild(t) == Load(t) \/ Fill(t) \/ Unlock(t)

Write == Save \/ UpdateRow \/ DeleteEntry \/ InvalidateLocal \/ Commit

Start == SelectHot \/ Preload

Time == Expire \/ MarkerEnds \/ MutexEnds \/ \E n \in Node : LocalEnds(n)

ShopNext ==
    \/ \E r \in Reader : Ask(r) \/ Read(r)
    \/ \E t \in Thread : Rebuild(t) \/ LoadFails(t)
    \/ Write \/ Rollback
    \/ Restart \/ Start
    \/ Time

ShopSpec == ShopInit /\ [][ShopNext]_shopVars

\* Threads that have begun go on, a transaction ends, an instance comes up, and
\* the two real lifetimes in Redis end.  Nobody has to ask, write or restart.
ShopFairness ==
    /\ \A r \in Reader : WF_shopVars(Read(r))
    /\ \A t \in Thread : WF_shopVars(Rebuild(t))
    /\ WF_shopVars(DeleteEntry \/ InvalidateLocal \/ Commit)
    /\ WF_shopVars(Start) /\ WF_shopVars(MarkerEnds) /\ WF_shopVars(MutexEnds)

FairShopSpec == ShopSpec /\ ShopFairness

-----------------------------------------------------------------------------
(* Properties *)

\* Every variable has its type.
ShopTypeOK ==
    /\ row \in Version /\ entry \in Entry /\ mutex \in Thread \cup {"free"}
    /\ local \in [Node -> Version]
    /\ pc \in [Thread -> {"idle", "down", "get", "renew", "lock", "check", "load",
                          "fill", "leave", "unlock", "put"}]
    /\ got \in [Thread -> Version] /\ owed \in [Reader -> 0..MaxOwed]
    /\ wpc \in {"idle", "updated", "deleted", "commit"}
    /\ boot \in {"up", "query", "preload"}
    /\ saw \in Version /\ faults \in 0..MaxFaults
    /\ spun \in BOOLEAN /\ lapsed \in BOOLEAN

\* No cache and no thread ever holds a shop that was not committed, although
\* update deletes the entry inside a transaction that may still roll back.
CachedWasCommitted ==
    /\ entry.ver <= row
    /\ \A n \in Node : local[n] <= row
    /\ \A t \in Thread : got[t] <= row

\* As long as nobody has missed the mutex and it has not run out under its holder,
\* at most one thread works on the entry, though the mutex passes from a reader to
\* a rebuild and is deleted without a look at its owner.
MutexProtects ==
    ~spun /\ ~lapsed =>
        \A s, t \in Thread : Working(s) /\ Working(t) => s = t

\* Unless new requests keep coming, every call ends: a reader that misses the mutex
\* does not spin for ever, even when the executor dropped the rebuild that was to
\* release it or its holder died.
ReadsEnd ==
    \/ []<><<\E r \in Reader : Ask(r)>>_shopVars
    \/ <>[](\A r \in Reader : pc[r] \in {"idle", "down"})

\* If expired entries are asked for again and again, a fresh and current entry
\* replaces them again and again, unless the executor goes on dropping rebuilds: a
\* shop that a reader stored just before an update committed does not stay for ever.
Asking == \E r \in Reader : pc[r] = "renew"
Dropping ==
    \E r \in Reader : /\ pc[r] = "renew"
                     /\ \A t \in Task : NodeOf[t] = NodeOf[r] => pc[t] # "idle"
StaleIsReplaced ==
    ([]<>Asking /\ <>[]~Dropping) => []<>(entry = Data(row, TRUE))

\* "Only one thread queries the database and fills the cache, the others wait"
\* (src/README.md on a missing key), at least while the mutex outlasts its holder.
OneFiller ==
    ~lapsed =>
      \A s, t \in Reader :
          pc[s] \in {"load", "fill"} /\ pc[t] \in {"load", "fill"} => s = t
=============================================================================
