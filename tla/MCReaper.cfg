\* The empty-tenant reaper of one tenant with one block, with the clock
\* running: a writer may finish its block while an attempt that listed no
\* blocks goes on to Reader.Find, another builder may write the index
\* between Find and the index re-check, and the deletes may fail part way.
\* Writers finish within MaxWriteDuration and attempts within
\* MaxAttemptDuration, both no longer than EmptyTenantDeletionAge. One
\* tenant failure is tolerated, so a failed attempt keeps its previous lists.
CONSTANTS
    t1 = t1
    t2 = t2
    b1 = b1
    b2 = b2
    TenantOrder <- OneTenantOrder
    Tenants <- OneTenant
    BlockIDs <- OneBlock
    AtomicCompaction = TRUE
    NoCompactBlocks = {}
    SkipNoCompactBlocks = FALSE
    PollConcurrency = 1
    TenantPollConcurrency = 1
    PollFallback = TRUE
    TenantIndexBuilders = 1
    OwnsNothing = FALSE
    StaleTenantIndex = 1
    TolerateConsecutiveErrors = 1
    TolerateTenantFailures = 1
    Int32Width = 8
    EmptyTenantDeletionEnabled = TRUE
    EmptyTenantDeletionAge = 1
    MaxWriteDuration = 1
    MaxAttemptDuration = 1
    MaxTime = 3
    MaxCycles = 2
    IndexKey = IndexKey
    NoBlock = NoBlock
    NoIndex = NoIndex

SPECIFICATION Spec
PROPERTY ReaperDeletesOnlyAbandonedBlocks SnapshotRefinement
