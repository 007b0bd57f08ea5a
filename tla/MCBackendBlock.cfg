\* A query for either of two trace ids against a block holding any subset
\* of them, with retention free to remove the block at any step.
CONSTANTS
    IDs = {i1, i2}

SPECIFICATION Spec
INVARIANT StoredTraceNeverMissed
