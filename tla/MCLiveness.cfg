\* Termination of Do for one tenant with one block: one retry, the
\* empty-tenant reaper enabled with a zero age (its configuration error is
\* returned and retried like a store error), fallback off, and every store
\* call free to fail. Goroutines are weakly fair; the rest of the fleet and
\* the caller need not act.
CONSTANTS
    t1 = t1
    t2 = t2
    b1 = b1
    b2 = b2
    TenantOrder <- OneTenantOrder
    Tenants <- OneTenant
    BlockIDs <- OneBlock
    AtomicCompaction = FALSE
    NoCompactBlocks = {}
    SkipNoCompactBlocks = FALSE
    PollConcurrency = 1
    TenantPollConcurrency = 1
    PollFallback = FALSE
    TenantIndexBuilders = 1
    OwnsNothing = FALSE
    StaleTenantIndex = 0
    TolerateConsecutiveErrors = 1
    TolerateTenantFailures = 0
    Int32Width = 8
    EmptyTenantDeletionEnabled = TRUE
    EmptyTenantDeletionAge = 0
    MaxWriteDuration = 0
    MaxAttemptDuration = 0
    MaxTime = 0
    MaxCycles = 2
    IndexKey = IndexKey
    NoBlock = NoBlock
    NoIndex = NoIndex

SPECIFICATION Spec
PROPERTY DoTerminates
