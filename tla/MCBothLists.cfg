\* One tenant with one block over two cycles, on a store where compaction
\* writes meta.compacted.json before it removes meta.json, so Reader.Blocks
\* may list the block under both.
CONSTANTS
    t1 = t1
    t2 = t2
    b1 = b1
    b2 = b2
    TenantOrder <- OneTenantOrder
    Tenants <- OneTenant
    BlockIDs <- OneBlock
    AtomicCompaction = FALSE
    NoCompactBlocks = {}
    SkipNoCompactBlocks = FALSE
    PollConcurrency = 1
    TenantPollConcurrency = 1
    PollFallback = TRUE
    TenantIndexBuilders = 1
    OwnsNothing = FALSE
    StaleTenantIndex = 0
    TolerateConsecutiveErrors = 0
    TolerateTenantFailures = 0
    Int32Width = 8
    EmptyTenantDeletionEnabled = FALSE
    EmptyTenantDeletionAge = 1
    MaxWriteDuration = 1
    MaxAttemptDuration = 1
    MaxTime = 0
    MaxCycles = 2
    IndexKey = IndexKey
    NoBlock = NoBlock
    NoIndex = NoIndex

SPECIFICATION Spec
INVARIANT PublishedListsDisjoint
