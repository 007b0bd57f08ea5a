\* The empty-tenant reaper with SkipNoCompactBlocks on, for a tenant whose
\* only block carries the nocompact marker. Writers and attempts respect
\* the same time bounds as in MCReaper.
CONSTANTS
    t1 = t1
    t2 = t2
    b1 = b1
    b2 = b2
    TenantOrder <- OneTenantOrder
    Tenants <- OneTenant
    BlockIDs <- OneBlock
    AtomicCompaction = TRUE
    NoCompactBlocks <- OnlyB1
    SkipNoCompactBlocks = TRUE
    PollConcurrency = 1
    TenantPollConcurrency = 1
    PollFallback = TRUE
    TenantIndexBuilders = 1
    OwnsNothing = FALSE
    StaleTenantIndex = 1
    TolerateConsecutiveErrors = 1
    TolerateTenantFailures = 0
    Int32Width = 8
    EmptyTenantDeletionEnabled = TRUE
    EmptyTenantDeletionAge = 1
    MaxWriteDuration = 1
    MaxAttemptDuration = 1
    MaxTime = 3
    MaxCycles = 2
    IndexKey = IndexKey
    NoBlock = NoBlock
    NoIndex = NoIndex

SPECIFICATION Spec
PROPERTY ReaperDeletesOnlyAbandonedBlocks
