----------------------------- MODULE BlockStore -----------------------------
(***************************************************************************)
(* The object store as the blocklist poller sees it through                *)
(* backend.Reader, backend.Writer and backend.Compactor (spec 4.3 and 6).  *)
(* The backend is not under src/, so everything here follows the spec.    *)
(*                                                                         *)
(* A block is abstracted to the state of its objects:                      *)
(*   none      - no object yet                                             *)
(*   writing   - data objects written, no meta.json yet (intermediate)     *)
(*   live      - meta.json present                                         *)
(*   marking   - meta.compacted.json written, meta.json not yet removed    *)
(*   compacted - meta.compacted.json present, meta.json removed            *)
(*   cleared   - removed by retention after compaction                     *)
(*   deleted   - objects removed by the empty-tenant reaper                *)
(* Object ages are kept per block as the time of its oldest and newest     *)
(* object, which is all Find's age test (poller.go:555) tells apart.       *)
(* Other writers (ingesters, compactors, retention and the poller's of     *)
(* other instances) are the environment actions at the end.               *)
(***************************************************************************)
EXTENDS Integers, FiniteSets

CONSTANTS
    Tenants,                \* tenant ids that may own objects
    BlockIDs,               \* block ids (per tenant)
    NoCompactBlocks,        \* blocks carrying the nocompact marker
    AtomicCompaction,       \* the compacted marker replaces meta.json in one step
    SkipNoCompactBlocks,    \* PollerConfig.SkipNoCompactBlocks
    EmptyTenantDeletionAge, \* PollerConfig.EmptyTenantDeletionAge, in ticks
    MaxWriteDuration,       \* longest a writer takes to finish a block
    MaxTime,                \* bound on the clock
    NoIndex                 \* no index.json.gz for the tenant

ASSUME NoCompactBlocks \subseteq BlockIDs
ASSUME {SkipNoCompactBlocks, AtomicCompaction} \subseteq BOOLEAN
ASSUME {EmptyTenantDeletionAge, MaxWriteDuration, MaxTime} \subseteq Nat

VARIABLES
    blockState,   \* [Tenants -> [BlockIDs -> BlockStates]]
    created,      \* time the oldest object of each block was written
    modified,     \* time the newest object of each block was written
    tenantIndex,  \* the tenant index object of each tenant, or NoIndex
    now           \* wall clock, in ticks

storeVars == <<blockState, created, modified, tenantIndex, now>>

BlockStates == {"none", "writing", "live", "marking", "compacted", "cleared", "deleted"}

Time == 0..MaxTime

\* backend.TenantIndex: the metas, the compacted metas and CreatedAt.
\* A meta is identified by its block id: metas are immutable (spec 3).
IndexRecords ==
    [meta: SUBSET BlockIDs, compacted: SUBSET BlockIDs, createdAt: Time]

HasObjects(s) == s \in {"writing", "live", "marking", "compacted"}

\* Reader.Blocks: ids with a meta.json, and ids with a compacted marker
\* (spec 6); a block being marked has both.
LiveIDs(t)      == {b \in BlockIDs : blockState[t][b] \in {"live", "marking"}}
CompactedIDs(t) == {b \in BlockIDs : blockState[t][b] \in {"marking", "compacted"}}

\* Blocks the poller leaves out of its lists: those with a nocompact marker
\* when SkipNoCompactBlocks is set.
SkippedBlocks == IF SkipNoCompactBlocks THEN NoCompactBlocks ELSE {}

\* Reader.Tenants: every tenant with at least one object.
TenantsWithObjects ==
    {t \in Tenants : \/ \E b \in BlockIDs : HasObjects(blockState[t][b])
                     \/ tenantIndex[t] # NoIndex}

\* Writer.WriteTenantIndex: writes the index, and removes it when both
\* lists are empty (spec 8, scenario 6: the reaper then finds no index).
IndexAfterWrite(meta, compacted) ==
    IF meta = {} /\ compacted = {}
    THEN NoIndex
    ELSE [meta |-> meta, compacted |-> compacted, createdAt |-> now]

StoreTypeOK ==
    /\ blockState \in [Tenants -> [BlockIDs -> BlockStates]]
    /\ created \in [Tenants -> [BlockIDs -> Time]]
    /\ modified \in [Tenants -> [BlockIDs -> Time]]
    /\ tenantIndex \in [Tenants -> IndexRecords \cup {NoIndex}]
    /\ now \in Time

StoreInit ==
    /\ blockState = [t \in Tenants |-> [b \in BlockIDs |-> "none"]]
    /\ created = [t \in Tenants |-> [b \in BlockIDs |-> 0]]
    /\ modified = [t \in Tenants |-> [b \in BlockIDs |-> 0]]
    /\ tenantIndex = [t \in Tenants |-> NoIndex]
    /\ now = 0

(***************************************************************************)
(* Environment: what the rest of the fleet does to the store.              *)
(***************************************************************************)

\* A writer (ingester or compactor) starts a block: its first data objects.
WriteBlockData(t, b) ==
    /\ blockState[t][b] = "none"
    /\ blockState' = [blockState EXCEPT ![t][b] = "writing"]
    /\ created' = [created EXCEPT ![t][b] = now]
    /\ modified' = [modified EXCEPT ![t][b] = now]
    /\ UNCHANGED <<tenantIndex, now>>

\* The writer keeps writing data objects of an unfinished block.
WriteMoreBlockData(t, b) ==
    /\ blockState[t][b] = "writing"
    /\ modified[t][b] # now
    /\ modified' = [modified EXCEPT ![t][b] = now]
    /\ UNCHANGED <<blockState, created, tenantIndex, now>>

\* The writer finishes the block with meta.json, at most MaxWriteDuration
\* after its first object (the age-based reaper relies on this bound being
\* below EmptyTenantDeletionAge).
WriteBlockMeta(t, b) ==
    /\ blockState[t][b] = "writing"
    /\ now - created[t][b] <= MaxWriteDuration
    /\ blockState' = [blockState EXCEPT ![t][b] = "live"]
    /\ modified' = [modified EXCEPT ![t][b] = now]
    /\ UNCHANGED <<created, tenantIndex, now>>

\* Compactor.MarkBlockCompacted writes meta.compacted.json; unless the
\* store replaces meta.json with it in one step, meta.json is removed by a
\* second call.
MarkBlockCompacted(t, b) ==
    /\ blockState[t][b] = "live"
    /\ blockState' = [blockState EXCEPT ![t][b] =
                         IF AtomicCompaction THEN "compacted" ELSE "marking"]
    /\ modified' = [modified EXCEPT ![t][b] = now]
    /\ UNCHANGED <<created, tenantIndex, now>>

RemoveBlockMeta(t, b) ==
    /\ blockState[t][b] = "marking"
    /\ blockState' = [blockState EXCEPT ![t][b] = "compacted"]
    /\ UNCHANGED <<created, modified, tenantIndex, now>>

\* Retention clears a compacted block.
ClearBlock(t, b) ==
    /\ blockState[t][b] = "compacted"
    /\ blockState' = [blockState EXCEPT ![t][b] = "cleared"]
    /\ UNCHANGED <<created, modified, tenantIndex, now>>

\* The poller of another instance, a builder for t with no previous list,
\* writes the index from a listing it takes now (advisory sharding: several
\* builders may exist). A block listed under both names ends up compacted.
OtherBuilderWritesIndex(t) ==
    /\ tenantIndex' = [tenantIndex EXCEPT ![t] =
                         IndexAfterWrite(LiveIDs(t) \ (CompactedIDs(t) \cup SkippedBlocks),
                                         CompactedIDs(t))]
    /\ tenantIndex' # tenantIndex
    /\ UNCHANGED <<blockState, created, modified, now>>

Tick ==
    /\ now < MaxTime
    /\ now' = now + 1
    /\ UNCHANGED <<blockState, created, modified, tenantIndex>>

=============================================================================
