\* Do over two tenants with one block each: admission under
\* TenantPollConcurrency 2, tenant failures racing the early-exit test,
\* cancellation while tenants are admitted, and the final budget test.
\* No retries and no tolerated tenant failure, so one failed store call
\* decides the cycle.
CONSTANTS
    t1 = t1
    t2 = t2
    b1 = b1
    b2 = b2
    TenantOrder <- TwoTenantOrder
    Tenants <- TwoTenants
    BlockIDs <- OneBlock
    AtomicCompaction = TRUE
    NoCompactBlocks = {}
    SkipNoCompactBlocks = FALSE
    PollConcurrency = 1
    TenantPollConcurrency = 2
    PollFallback = FALSE
    TenantIndexBuilders = 1
    OwnsNothing = FALSE
    StaleTenantIndex = 0
    TolerateConsecutiveErrors = 0
    TolerateTenantFailures = 0
    Int32Width = 8
    EmptyTenantDeletionEnabled = FALSE
    EmptyTenantDeletionAge = 1
    MaxWriteDuration = 1
    MaxAttemptDuration = 1
    MaxTime = 0
    MaxCycles = 1
    IndexKey = IndexKey
    NoBlock = NoBlock
    NoIndex = NoIndex

SPECIFICATION Spec
INVARIANT FailureBudgetRespected DoWaitsForTenantTasks
