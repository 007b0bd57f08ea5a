\* A negative TolerateConsecutiveErrors: the retry loop of a tenant task
\* runs zero times. One tenant, one block; deletion off.
CONSTANTS
    t1 = t1
    t2 = t2
    b1 = b1
    b2 = b2
    TenantOrder <- OneTenantOrder
    Tenants <- OneTenant
    BlockIDs <- OneBlock
    AtomicCompaction = TRUE
    NoCompactBlocks = {}
    SkipNoCompactBlocks = FALSE
    PollConcurrency = 1
    TenantPollConcurrency = 1
    PollFallback = FALSE
    TenantIndexBuilders = 1
    OwnsNothing = FALSE
    StaleTenantIndex = 0
    TolerateConsecutiveErrors <- NoAttempts
    TolerateTenantFailures = 0
    Int32Width = 8
    EmptyTenantDeletionEnabled = FALSE
    EmptyTenantDeletionAge = 0
    MaxWriteDuration = 0
    MaxAttemptDuration = 0
    MaxTime = 0
    MaxCycles = 2
    IndexKey = IndexKey
    NoBlock = NoBlock
    NoIndex = NoIndex

SPECIFICATION Spec
INVARIANT PublishedTenantsWerePolled
