\* One tenant with one block and one cycle in which this instance is a
\* builder, while another instance's builder writes the index too.
CONSTANTS
    t1 = t1
    t2 = t2
    b1 = b1
    b2 = b2
    TenantOrder <- OneTenantOrder
    Tenants <- OneTenant
    BlockIDs <- OneBlock
    AtomicCompaction = TRUE
    NoCompactBlocks = {}
    SkipNoCompactBlocks = FALSE
    PollConcurrency = 1
    TenantPollConcurrency = 1
    PollFallback = TRUE
    TenantIndexBuilders = 1
    OwnsNothing = FALSE
    StaleTenantIndex = 0
    TolerateConsecutiveErrors = 0
    TolerateTenantFailures = 0
    Int32Width = 8
    EmptyTenantDeletionEnabled = FALSE
    EmptyTenantDeletionAge = 1
    MaxWriteDuration = 1
    MaxAttemptDuration = 1
    MaxTime = 0
    MaxCycles = 1
    IndexKey = IndexKey
    NoBlock = NoBlock
    NoIndex = NoIndex

SPECIFICATION Spec
PROPERTY IndexNeverRevivesCompactedBlock
