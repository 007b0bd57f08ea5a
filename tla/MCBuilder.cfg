\* The builder path of one tenant over two cycles: Reader.Blocks, the delta
\* against the previous list, pollUnknown with two blocks and nocompact
\* skipping on for b2, while writers and compactors change the blocks.
\* The sharder may answer either way, so follower attempts, the fallback and
\* another builder's index writes are interleaved too. Time does not move:
\* the staleness check and the reaper are covered by other runs.
CONSTANTS
    t1 = t1
    t2 = t2
    b1 = b1
    b2 = b2
    TenantOrder <- OneTenantOrder
    Tenants <- OneTenant
    BlockIDs <- TwoBlocks
    AtomicCompaction = TRUE
    NoCompactBlocks <- OnlyB2
    SkipNoCompactBlocks = TRUE
    PollConcurrency = 1
    TenantPollConcurrency = 1
    PollFallback = TRUE
    TenantIndexBuilders = 1
    OwnsNothing = FALSE
    StaleTenantIndex = 0
    TolerateConsecutiveErrors = 0
    TolerateTenantFailures = 0
    Int32Width = 8
    EmptyTenantDeletionEnabled = FALSE
    EmptyTenantDeletionAge = 1
    MaxWriteDuration = 1
    MaxAttemptDuration = 1
    MaxTime = 0
    MaxCycles = 3
    IndexKey = IndexKey
    NoBlock = NoBlock
    NoIndex = NoIndex

SPECIFICATION Spec
INVARIANT TypeOK
PROPERTY  BuilderListsComplete SnapshotRefinement
