---------------------------- MODULE BloomFilter ----------------------------
(***************************************************************************)
(* The bloom filter of the shop ids: createShop adds an id inside the      *)
(* transaction that inserts the row, and every instance that starts        *)
(* deletes the filter all instances share and loads it again               *)
(* (BloomFilterConfig).  A false positive only costs a look into the       *)
(* caches; a denied id is answered "no such shop".                         *)
(***************************************************************************)
CONSTANT Shop

VARIABLES
    shops,      \* committed rows of tb_shop
    creating,   \* where the transaction of createShop is, for each id
    bloom,      \* bloom:shop: does it exist, which ids were added
    reload,     \* initBloomFilter or rebuildBloomFilter of some instance
    selected,   \* the ids it read from tb_shop
    loadFailed, \* history: the last reload broke off
    met         \* history: creations that met a reload and are not loaded since

bloomVars == <<shops, creating, bloom, reload, selected, loadFailed, met>>

BloomInit ==
    /\ shops \in SUBSET Shop
    /\ creating = [s \in Shop |-> IF s \in shops THEN "done" ELSE "new"]
    /\ bloom = [exists |-> TRUE, ids |-> shops]
    /\ reload = "idle" /\ selected = {}
    /\ loadFailed = FALSE /\ met = {}

Creation(s, from, to) == creating[s] = from /\ creating' = [creating EXCEPT ![s] = to]

\* createShop: the INSERT, not committed yet.
SaveShop(s) ==
    /\ Creation(s, "new", "saved")
    /\ met' = IF bloom.exists THEN met ELSE met \cup {s}
    /\ UNCHANGED <<shops, bloom, reload, selected, loadFailed>>

\* Changed form: the add is left to the next reload.
AddNothing(s) == bloom.ids

\* addElement: only if the filter exists.
Added(s) == IF bloom.exists THEN bloom.ids \cup {s} ELSE bloom.ids

AddElement(s) ==
    /\ Creation(s, "saved", "added")
    /\ bloom' = [bloom EXCEPT !.ids = Added(s)]
    /\ UNCHANGED <<shops, reload, selected, loadFailed, met>>

CommitShop(s) ==
    /\ Creation(s, "added", "done")
    /\ shops' = shops \cup {s}
    /\ UNCHANGED <<bloom, reload, selected, loadFailed, met>>

\* Redis or MySQL throws: no row, and the id is not used again.
AbortShop(s) ==
    /\ Creation(s, "saved", "failed") \/ Creation(s, "added", "failed")
    /\ UNCHANGED <<shops, bloom, reload, selected, loadFailed, met>>

InCreation == {s \in Shop : creating[s] \in {"saved", "added"}}

DeleteBloom ==
    /\ reload = "idle" /\ reload' = "init"
    /\ bloom' = [exists |-> FALSE, ids |-> {}]
    /\ met' = met \cup InCreation /\ loadFailed' = FALSE
    /\ UNCHANGED <<shops, creating, selected>>

TryInitBloom ==
    /\ reload = "init" /\ reload' = "select"
    /\ bloom' = [bloom EXCEPT !.exists = TRUE]
    /\ UNCHANGED <<shops, creating, selected, loadFailed, met>>

\* Every committed row, the creations that met an earlier reload included.
SelectShops ==
    /\ reload = "select" /\ reload' = "load"
    /\ selected' = shops /\ met' = met \ shops
    /\ UNCHANGED <<shops, creating, bloom, loadFailed>>

LoadOne(s) ==
    /\ reload = "load" /\ s \in selected \ bloom.ids
    /\ bloom' = [bloom EXCEPT !.ids = @ \cup {s}]
    /\ UNCHANGED <<shops, creating, reload, selected, loadFailed, met>>

LoadDone ==
    /\ reload = "load" /\ selected \subseteq bloom.ids
    /\ reload' = "idle" /\ selected' = {}
    /\ UNCHANGED <<shops, creating, bloom, loadFailed, met>>

\* A statement throws or the instance dies: what was loaded stays, and if the
\* filter was created already it denies the rest.
ReloadFails ==
    /\ reload # "idle" /\ reload' = "idle"
    /\ loadFailed' = TRUE /\ selected' = {}
    /\ UNCHANGED <<shops, creating, bloom, met>>

Create(s) == SaveShop(s) \/ AddElement(s) \/ CommitShop(s) \/ AbortShop(s)

Reload == DeleteBloom \/ TryInitBloom \/ SelectShops \/ LoadDone \/ \E s \in Shop : LoadOne(s)

BloomNext == Reload \/ ReloadFails \/ \E s \in Shop : Create(s)

BloomSpec == BloomInit /\ [][BloomNext]_bloomVars

-----------------------------------------------------------------------------
\* mightContain: everybody passes while there is no filter.
MightContain(s) == ~bloom.exists \/ s \in bloom.ids

BloomTypeOK ==
    /\ shops \subseteq Shop
    /\ creating \in [Shop -> {"new", "saved", "added", "done", "failed"}]
    /\ bloom \in [exists : BOOLEAN, ids : SUBSET Shop]
    /\ reload \in {"idle", "init", "select", "load"} /\ selected \subseteq Shop
    /\ loadFailed \in BOOLEAN /\ met \subseteq Shop

\* After a reload that ran to its end no committed shop is denied, however many
\* were created meanwhile, save those whose creation was under way when the filter
\* was deleted or began while there was none (BloomFilterHelper: "false: certainly
\* does not exist").
NoShopDenied ==
    reload = "idle" /\ ~loadFailed => \A s \in shops \ met : MightContain(s)
=============================================================================
