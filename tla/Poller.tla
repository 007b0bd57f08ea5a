------------------------------- MODULE Poller -------------------------------
(***************************************************************************)
(* One tempodb instance running blocklist.Poller.Do cycle after cycle      *)
(* (src/tempodb/blocklist/poller.go) against the store of BlockStore,      *)
(* which the rest of the fleet keeps changing meanwhile.                   *)
(*                                                                         *)
(* Every goroutine is a process of the model: Do's loop, one task per      *)
(* tenant (poller.go:186) and one task per unknown block (poller.go:424).  *)
(* Each store call is one step, so the store may change between any two   *)
(* calls of a task. Every store call may fail with a transient error.      *)
(***************************************************************************)
EXTENDS BlockStore, Sequences, SequencesExt

CONSTANTS
    TenantOrder,                \* the order Reader.Tenants lists tenants in
    PollConcurrency,            \* PollerConfig.PollConcurrency
    TenantPollConcurrency,      \* PollerConfig.TenantPollConcurrency
    PollFallback,               \* PollerConfig.PollFallback
    TenantIndexBuilders,        \* PollerConfig.TenantIndexBuilders
    OwnsNothing,                \* the JobSharder is OwnsNothingSharder
    StaleTenantIndex,           \* PollerConfig.StaleTenantIndex, in ticks
    TolerateConsecutiveErrors,  \* PollerConfig.TolerateConsecutiveErrors
    TolerateTenantFailures,     \* PollerConfig.TolerateTenantFailures
    Int32Width,                 \* width of tenantFailuresRemaining (32 in the code)
    EmptyTenantDeletionEnabled, \* PollerConfig.EmptyTenantDeletionEnabled
    MaxAttemptDuration,         \* longest a tenant poll attempt takes
    MaxCycles,                  \* number of Do calls explored
    IndexKey,                   \* the tenant index object, as Find lists it
    NoBlock

ASSUME Tenants = ToSet(TenantOrder) /\ IsInjective(TenantOrder)
ASSUME {PollConcurrency, TenantPollConcurrency, StaleTenantIndex,
        MaxAttemptDuration, MaxCycles, Int32Width} \subseteq Nat
ASSUME Int32Width > 0
ASSUME {TenantIndexBuilders, TolerateConsecutiveErrors,
        TolerateTenantFailures} \subseteq Int
ASSUME {PollFallback, EmptyTenantDeletionEnabled, OwnsNothing} \subseteq BOOLEAN

VARIABLES
    \* caller of Do
    previous,          \* the List passed to Do: [Tenants -> Entry]
    cycles,            \* Do calls so far
    \* Do (poller.go:140)
    doPc,              \* where Do's goroutine is
    doTenants,         \* tenants returned by Reader.Tenants
    doIdx,             \* position of the range loop over doTenants
    cancelled,         \* parentCtx has been cancelled
    failuresRemaining, \* tenantFailuresRemaining
    result,            \* blocklist and compactedBlocklist, as one map
    gauges,            \* per tenant: the gauge vecs with a series, and the lists it describes
    indexGauges,       \* per tenant: the tenant index gauges with a series, and their values
    \* tenant tasks (poller.go:186)
    taskPc,            \* where each tenant's goroutine is
    errorsLeft,        \* consecutiveErrorsRemaining
    attemptErr,        \* err of the last pollTenantAndCreateIndex
    attemptOut,        \* the lists the current attempt has built
    unknown,           \* unknownBlockIDs: block id -> listed as compacted
    \* pollUnknown (poller.go:395) of each tenant
    admitPc,           \* the range loop: "check" errs, "add" to bg, "done"
    pending,           \* the block the loop is adding
    blockPc,           \* where each block goroutine is
    errs,              \* len(errs) > 0
    newMetas,          \* newBlockList and newCompactedBlocklist
    \* deleteTenant (poller.go:536) of each tenant
    foundObjects,
    \* history, read only by the properties
    outcome,           \* what the last Do returned: "none", "ok", "listError",
                       \* "error" (the failure budget) or "cancelled"
    attempted,         \* pollTenantAndCreateIndex was called in this cycle
    listedAt,          \* when the current attempt listed the blocks
    listedLive,        \* ids Reader.Blocks returned as live to this attempt
    listedCompacted,   \* ids Reader.Blocks returned as compacted to it
    retired            \* blocks some cycle published as compacted

callerVars  == <<previous, cycles>>
loopVars    == <<doPc, doTenants, doIdx, cancelled, failuresRemaining, result,
                gauges>>
doVars      == <<loopVars, indexGauges>>
taskVars    == <<taskPc, errorsLeft, attemptErr, attemptOut, unknown>>
unknownVars == <<admitPc, pending, blockPc, errs, newMetas>>
historyVars == <<outcome, attempted, listedAt, listedLive, listedCompacted, retired>>
vars == <<storeVars, callerVars, doVars, taskVars, unknownVars,
          foundObjects, historyVars>>

(***************************************************************************)
(* Data                                                                    *)
(***************************************************************************)

\* The metas and compacted metas of one tenant.
Entry == [meta: SUBSET BlockIDs, compacted: SUBSET BlockIDs]
EmptyEntry == [meta |-> {}, compacted |-> {}]

\* The values of an int32, and the two's-complement conversion int32(x)
\* and the wrapping atomic.Int32.Dec (poller.go:165, 219) at Int32Width bits.
Int32Range == (-(2 ^ (Int32Width - 1)))..(2 ^ (Int32Width - 1) - 1)
Int32(x) == ((x + 2 ^ (Int32Width - 1)) % (2 ^ Int32Width)) - 2 ^ (Int32Width - 1)
IsEmpty(e) == e.meta = {} /\ e.compacted = {}

TaskPcs == {"idle", "attempt", "list", "unknown", "write",
            "reapFind", "reapIndex", "reapDelete", "publish", "finished"}
BlockPcs == {"idle", "flag", "meta", "cmeta", "done"}
Errors == {"none", "error", "config"}
Objects == BlockIDs \cup {IndexKey}

\* map[string]X with a key set: assign one key.
SetKey(f, k, v) == [x \in DOMAIN f \cup {k} |-> IF x = k THEN v ELSE f[x]]

\* The per-tenant gauge vecs set after a successful poll (poller.go:228-234).
\* Each series is abstracted to the lists its value was computed from.
GaugeVecs == {"blocklist_length", "backend_objects", "backend_bytes"}

\* Vecs labelled by tenant alone (poller.go:36-64): the only ones a
\* DeleteLabelValues(tenantID) call can remove a series from; it matches no
\* series of a vec with more labels.
TenantLabelledVecs == {"blocklist_length"}
DeleteLabelValues(series) == Restrict(series, DOMAIN series \ TenantLabelledVecs)

\* The tenant index gauges (poller.go:70-79), labelled by tenant: 1 while
\* this instance builds t's index, 0 while it follows; the age in seconds
\* of the last index it accepted.
IndexBuilderGauge == "blocklist_tenant_index_builder"
IndexAgeGauge == "blocklist_tenant_index_age_seconds"

Running(t) == taskPc[t] \notin {"idle", "finished"}
NoTaskRunning == \A t \in Tenants : ~Running(t)
RunningBlocks(t) == {b \in BlockIDs : blockPc[t][b] \in {"flag", "meta", "cmeta"}}

(***************************************************************************)
(* List.ApplyPollResults, as the caller uses it (not under src/, spec 4.4): *)
(* a successful cycle replaces the whole list, a failed one keeps it.      *)
(***************************************************************************)
ApplyPollResults(r) ==
    [t \in Tenants |-> IF t \in DOMAIN r THEN r[t] ELSE EmptyEntry]

(***************************************************************************)
(* The retry loop around pollTenantAndCreateIndex (poller.go:202-209).     *)
(***************************************************************************)

\* Faulty variant: the loop retries without consecutiveErrorsRemaining--.
FailAttemptNoDecrement(t, kind) ==
    /\ attemptErr' = [attemptErr EXCEPT ![t] = kind]
    /\ attemptOut' = [attemptOut EXCEPT ![t] = EmptyEntry]
    /\ UNCHANGED errorsLeft
    /\ taskPc' = [taskPc EXCEPT ![t] = "attempt"]

\* Faulty variant: the loop runs while consecutiveErrorsRemaining >= -1.
FailAttemptOffByOne(t, kind) ==
    /\ attemptErr' = [attemptErr EXCEPT ![t] = kind]
    /\ attemptOut' = [attemptOut EXCEPT ![t] = EmptyEntry]
    /\ errorsLeft' = [errorsLeft EXCEPT ![t] = @ - 1]
    /\ taskPc' = [taskPc EXCEPT ![t] =
                     IF errorsLeft[t] - 1 >= -1 THEN "attempt" ELSE "publish"]

\* A failed attempt: consecutiveErrorsRemaining-- and loop while >= 0.
FailAttempt(t, kind) ==
    /\ attemptErr' = [attemptErr EXCEPT ![t] = kind]
    /\ attemptOut' = [attemptOut EXCEPT ![t] = EmptyEntry]
    /\ errorsLeft' = [errorsLeft EXCEPT ![t] = @ - 1]
    /\ taskPc' = [taskPc EXCEPT ![t] =
                     IF errorsLeft[t] - 1 >= 0 THEN "attempt" ELSE "publish"]

\* A successful attempt returns its lists and breaks out of the loop.
SucceedAttempt(t, e) ==
    /\ attemptErr' = [attemptErr EXCEPT ![t] = "none"]
    /\ attemptOut' = [attemptOut EXCEPT ![t] = e]
    /\ taskPc' = [taskPc EXCEPT ![t] = "publish"]
    /\ UNCHANGED errorsLeft

\* The builder path ends, once its lists are written and deleteTenant is
\* done, by setting the tenant index age gauge to 0 (poller.go:319).
IndexAgeResetOnSuccess(t) ==
    indexGauges' = IF taskPc'[t] = "publish" /\ attemptErr'[t] = "none"
                   THEN [indexGauges EXCEPT ![t] = SetKey(@, IndexAgeGauge, 0)]
                   ELSE indexGauges

(***************************************************************************)
(* tenantIndexBuilder (poller.go:512): Owns is asked for builder slots     *)
(* 0 .. TenantIndexBuilders-1. The sharder is opaque and its ring may be   *)
(* reshuffled between two calls, so any answer is possible unless there    *)
(* are no slots at all or the sharder is OwnsNothingSharder.               *)
(***************************************************************************)
\* JobSharder.Owns: any answer, or always false for OwnsNothingSharder.
Owns == IF OwnsNothing THEN {FALSE} ELSE BOOLEAN

tenantIndexBuilder == IF TenantIndexBuilders > 0 THEN Owns ELSE {FALSE}

\* tenantIndexPollError (poller.go:523): a read error, or a stale index.
\* Reader.TenantIndex's ErrDoesNotExist is an error like any other here.
tenantIndexPollError(idx, readFailed) ==
    IF readFailed \/ idx = NoIndex
    THEN TRUE
    ELSE StaleTenantIndex # 0 /\ now - idx.createdAt > StaleTenantIndex

DeltaCarryListed(prev, live, comp) ==
    [known   |-> [meta |-> prev.meta \cap (live \cup comp),
                  compacted |-> prev.compacted \cap comp],
     unknown |-> [b \in (live \ prev.meta) \cup (comp \ prev.compacted) |->
                     b \in comp \ prev.compacted]]

Delta(prev, live, comp) ==
    [known   |-> [meta |-> prev.meta \cap live,
                  compacted |-> prev.compacted \cap comp],
     unknown |-> [b \in (live \ prev.meta) \cup (comp \ prev.compacted) |->
                     b \in comp \ prev.compacted]]

NoBlocksRunning == [b \in BlockIDs |-> "idle"]

\* The tenant and block goroutines at rest.
TasksAtRest ==
    /\ taskPc = [t \in Tenants |-> "idle"]
    /\ errorsLeft = [t \in Tenants |-> 0]
    /\ attemptErr = [t \in Tenants |-> "none"]
    /\ attemptOut = [t \in Tenants |-> EmptyEntry]
    /\ unknown = [t \in Tenants |-> [b \in {} |-> FALSE]]
    /\ admitPc = [t \in Tenants |-> "done"]
    /\ pending = [t \in Tenants |-> NoBlock]
    /\ blockPc = [t \in Tenants |-> NoBlocksRunning]
    /\ errs = [t \in Tenants |-> FALSE]
    /\ newMetas = [t \in Tenants |-> EmptyEntry]
    /\ foundObjects = [t \in Tenants |-> {}]
    /\ attempted = [t \in Tenants |-> FALSE]
    /\ listedAt = [t \in Tenants |-> 0]
    /\ listedLive = [t \in Tenants |-> {}]
    /\ listedCompacted = [t \in Tenants |-> {}]

\* A new cycle starts its tenant and block goroutines afresh.
ResetTasks ==
    /\ taskPc' = [t \in Tenants |-> "idle"]
    /\ errorsLeft' = [t \in Tenants |-> 0]
    /\ attemptErr' = [t \in Tenants |-> "none"]
    /\ attemptOut' = [t \in Tenants |-> EmptyEntry]
    /\ unknown' = [t \in Tenants |-> [b \in {} |-> FALSE]]
    /\ admitPc' = [t \in Tenants |-> "done"]
    /\ pending' = [t \in Tenants |-> NoBlock]
    /\ blockPc' = [t \in Tenants |-> NoBlocksRunning]
    /\ errs' = [t \in Tenants |-> FALSE]
    /\ newMetas' = [t \in Tenants |-> EmptyEntry]
    /\ foundObjects' = [t \in Tenants |-> {}]
    /\ attempted' = [t \in Tenants |-> FALSE]
    /\ listedAt' = [t \in Tenants |-> 0]
    /\ listedLive' = [t \in Tenants |-> {}]
    /\ listedCompacted' = [t \in Tenants |-> {}]

\* The locals of one tenant's pollTenantAndCreateIndex go out of scope when
\* the call returns: the next attempt, or the next cycle, starts afresh.
ClearAttempt(t) ==
    /\ unknown' = [unknown EXCEPT ![t] = [b \in {} |-> FALSE]]
    /\ admitPc' = [admitPc EXCEPT ![t] = "done"]
    /\ pending' = [pending EXCEPT ![t] = NoBlock]
    /\ blockPc' = [blockPc EXCEPT ![t] = NoBlocksRunning]
    /\ errs' = [errs EXCEPT ![t] = FALSE]
    /\ newMetas' = [newMetas EXCEPT ![t] = EmptyEntry]
    /\ foundObjects' = [foundObjects EXCEPT ![t] = {}]
    /\ listedAt' = [listedAt EXCEPT ![t] = 0]
    /\ listedLive' = [listedLive EXCEPT ![t] = {}]
    /\ listedCompacted' = [listedCompacted EXCEPT ![t] = {}]

(***************************************************************************)
(* Do (poller.go:140-255)                                                  *)
(***************************************************************************)

\* Reader.Tenants and the set-up of the cycle (poller.go:152-169). When the
\* listing fails Do returns the error at once.
StartDo ==
    /\ doPc = "idle"
    /\ cycles < MaxCycles
    /\ cycles' = cycles + 1
    /\ ResetTasks
    /\ \/ /\ outcome' = "listError"
          /\ UNCHANGED doVars
       \/ /\ outcome' = "none"
          /\ doPc' = "check"
          /\ doTenants' = SelectSeq(TenantOrder,
                                    LAMBDA t : t \in TenantsWithObjects)
          /\ doIdx' = 1
          /\ cancelled' = FALSE
          /\ failuresRemaining' = Int32(TolerateTenantFailures)
          /\ result' = [t \in {} |-> EmptyEntry]
          /\ UNCHANGED <<gauges, indexGauges>>
    /\ UNCHANGED <<storeVars, previous, retired>>

\* The head of the range loop over tenants (poller.go:171-183).
DoLoop ==
    /\ doPc = "check"
    /\ doPc' = CASE doIdx > Len(doTenants)  -> "wait"
                 [] cancelled               -> "waitCancel"
                 [] failuresRemaining < 0   -> "wait"
                 [] OTHER                   -> "add"
    /\ UNCHANGED <<storeVars, callerVars, doTenants, doIdx, cancelled,
                   failuresRemaining, result, gauges, indexGauges, taskVars, unknownVars,
                   foundObjects, historyVars>>

\* wg.Add(1) blocks while TenantPollConcurrency tasks run; then the task
\* starts its retry loop (poller.go:185-202).
SpawnTenantTask ==
    /\ doPc = "add"
    /\ Cardinality({t \in Tenants : Running(t)}) < TenantPollConcurrency
    /\ LET t == doTenants[doIdx] IN
         /\ taskPc' = [taskPc EXCEPT ![t] =
                          IF TolerateConsecutiveErrors >= 0
                          THEN "attempt" ELSE "publish"]
         /\ errorsLeft' = [errorsLeft EXCEPT ![t] = TolerateConsecutiveErrors]
    /\ doIdx' = doIdx + 1
    /\ doPc' = "check"
    /\ UNCHANGED <<storeVars, callerVars, doTenants, cancelled,
                   failuresRemaining, result, gauges, indexGauges, attemptErr, attemptOut, unknown,
                   unknownVars, foundObjects, historyVars>>

\* The parent context is cancelled while Do is admitting tenants.
CancelDo ==
    /\ doPc \in {"check", "add"}
    /\ ~cancelled
    /\ cancelled' = TRUE
    /\ UNCHANGED <<storeVars, callerVars, doPc, doTenants, doIdx,
                   failuresRemaining, result, gauges, indexGauges, taskVars, unknownVars,
                   foundObjects, historyVars>>

\* Faulty variant: the budget test is off by one.
ReturnFromDoLenient ==
    /\ doPc = "wait"
    /\ NoTaskRunning
    /\ IF failuresRemaining < -1
       THEN /\ outcome' = "error"
            /\ UNCHANGED <<previous, retired>>
       ELSE /\ outcome' = "ok"
            /\ previous' = ApplyPollResults(result)
            /\ retired' = [t \in Tenants |-> retired[t] \cup previous'[t].compacted]
    /\ doPc' = "idle"
    /\ UNCHANGED <<storeVars, cycles, doTenants, doIdx, cancelled,
                   failuresRemaining, result, gauges, indexGauges, taskVars, unknownVars,
                   foundObjects, attempted, listedAt, listedLive,
                   listedCompacted>>

\* wg.Wait, then the failure budget (poller.go:244-254); the caller applies
\* a successful result and keeps its list otherwise.
ReturnFromDo ==
    /\ doPc = "wait"
    /\ NoTaskRunning
    /\ IF failuresRemaining < 0
       THEN /\ outcome' = "error"
            /\ UNCHANGED <<previous, retired>>
       ELSE /\ outcome' = "ok"
            /\ previous' = ApplyPollResults(result)
            /\ retired' = [t \in Tenants |-> retired[t] \cup previous'[t].compacted]
    /\ doPc' = "idle"
    /\ UNCHANGED <<storeVars, cycles, doTenants, doIdx, cancelled,
                   failuresRemaining, result, gauges, indexGauges, taskVars, unknownVars,
                   foundObjects, attempted, listedAt, listedLive,
                   listedCompacted>>

\* Faulty variant: return on cancellation without wg.Wait.
ReturnCanceledNoWait ==
    /\ doPc = "waitCancel"
    /\ doPc' = "idle"
    /\ outcome' = "cancelled"
    /\ UNCHANGED <<storeVars, callerVars, doTenants, doIdx, cancelled,
                   failuresRemaining, result, gauges, indexGauges, taskVars, unknownVars,
                   foundObjects, attempted, listedAt, listedLive,
                   listedCompacted, retired>>

\* Cancelled: wg.Wait, then return parentCtx.Err() (poller.go:173-177).
ReturnCanceled ==
    /\ doPc = "waitCancel"
    /\ NoTaskRunning
    /\ doPc' = "idle"
    /\ outcome' = "cancelled"
    /\ UNCHANGED <<storeVars, callerVars, doTenants, doIdx, cancelled,
                   failuresRemaining, result, gauges, indexGauges, taskVars, unknownVars,
                   foundObjects, attempted, listedAt, listedLive,
                   listedCompacted, retired>>

(***************************************************************************)
(* pollTenantAndCreateIndex (poller.go:257-322)                            *)
(***************************************************************************)

\* A call of pollTenantAndCreateIndex begins.
ObserveAttemptStart(t) ==
    /\ attempted' = [attempted EXCEPT ![t] = TRUE]
    /\ ClearAttempt(t)
    /\ UNCHANGED <<outcome, retired>>

\* This instance is a builder for t: set the builder gauge and go on to
\* poll the blocks (poller.go:265-268, 302).
BecomeBuilder(t) ==
    /\ taskPc[t] = "attempt"
    /\ TRUE \in tenantIndexBuilder
    /\ ObserveAttemptStart(t)
    /\ taskPc' = [taskPc EXCEPT ![t] = "list"]
    /\ indexGauges' = [indexGauges EXCEPT ![t] = SetKey(@, IndexBuilderGauge, 1)]
    /\ UNCHANGED <<storeVars, callerVars, doPc, doTenants, doIdx, cancelled,
                   failuresRemaining, result, gauges, errorsLeft, attemptErr,
                   attemptOut>>

\* Not a builder: the builder gauge goes to 0, then Reader.TenantIndex and
\* the staleness check; an accepted index sets the age gauge and is the
\* result, and on an error the attempt either fails or falls back to the
\* builder path, which sets the builder gauge to 1 (poller.go:268-303).
PullTenantIndex(t) ==
    /\ taskPc[t] = "attempt"
    /\ FALSE \in tenantIndexBuilder
    /\ ObserveAttemptStart(t)
    /\ \E readFailed \in BOOLEAN :
         LET idx == tenantIndex[t] IN
         LET following == SetKey(indexGauges[t], IndexBuilderGauge, 0) IN
         \/ /\ ~tenantIndexPollError(idx, readFailed)
            /\ SucceedAttempt(t, [meta |-> idx.meta, compacted |-> idx.compacted])
            /\ indexGauges' = [indexGauges EXCEPT ![t] =
                                  SetKey(following, IndexAgeGauge, now - idx.createdAt)]
         \/ /\ tenantIndexPollError(idx, readFailed)
            /\ PollFallback
            /\ taskPc' = [taskPc EXCEPT ![t] = "list"]
            /\ indexGauges' = [indexGauges EXCEPT ![t] =
                                  SetKey(following, IndexBuilderGauge, 1)]
            /\ UNCHANGED <<errorsLeft, attemptErr, attemptOut>>
         \/ /\ tenantIndexPollError(idx, readFailed)
            /\ ~PollFallback
            /\ FailAttempt(t, "error")
            /\ indexGauges' = [indexGauges EXCEPT ![t] = following]
    /\ UNCHANGED <<storeVars, callerVars, doPc, doTenants, doIdx, cancelled,
                   failuresRemaining, result, gauges>>

\* pollTenantBlocks: Reader.Blocks and the delta (poller.go:332-383).
ListBlocks(t) ==
    /\ taskPc[t] = "list"
    /\ \/ /\ FailAttempt(t, "error")
          /\ UNCHANGED <<unknown, unknownVars, listedAt, listedLive,
                          listedCompacted>>
       \/ LET d == Delta(previous[t], LiveIDs(t), CompactedIDs(t)) IN
          /\ attemptOut' = [attemptOut EXCEPT ![t] = d.known]
          /\ unknown' = [unknown EXCEPT ![t] = d.unknown]
          /\ admitPc' = [admitPc EXCEPT ![t] = "check"]
          /\ blockPc' = [blockPc EXCEPT ![t] = NoBlocksRunning]
          /\ errs' = [errs EXCEPT ![t] = FALSE]
          /\ newMetas' = [newMetas EXCEPT ![t] = EmptyEntry]
          /\ taskPc' = [taskPc EXCEPT ![t] = "unknown"]
          /\ listedAt' = [listedAt EXCEPT ![t] = now]
          /\ listedLive' = [listedLive EXCEPT ![t] = LiveIDs(t)]
          /\ listedCompacted' = [listedCompacted EXCEPT ![t] = CompactedIDs(t)]
          /\ UNCHANGED <<errorsLeft, attemptErr, pending>>
    /\ UNCHANGED <<storeVars, callerVars, doVars, foundObjects, outcome,
                   attempted, retired>>

(***************************************************************************)
(* pollUnknown (poller.go:395-462)                                         *)
(***************************************************************************)

\* The range loop over unknownBlockIDs, in Go's random map order: stop once
\* a block goroutine has recorded an error (poller.go:414-421).
CheckErrs(t) ==
    /\ taskPc[t] = "unknown"
    /\ admitPc[t] = "check"
    /\ LET left == {b \in DOMAIN unknown[t] : blockPc[t][b] = "idle"} IN
       \/ /\ errs[t] \/ left = {}
          /\ admitPc' = [admitPc EXCEPT ![t] = "done"]
          /\ UNCHANGED pending
       \/ /\ ~errs[t]
          /\ \E b \in left :
               /\ pending' = [pending EXCEPT ![t] = b]
               /\ admitPc' = [admitPc EXCEPT ![t] = "add"]
    /\ UNCHANGED <<storeVars, callerVars, doVars, taskVars, blockPc, errs,
                   newMetas, foundObjects, historyVars>>

\* The first call pollBlock makes for a block (poller.go:480-496).
FirstBlockStep(compacted) ==
    CASE ~compacted /\ SkipNoCompactBlocks -> "flag"
      [] ~compacted                        -> "meta"
      [] OTHER                             -> "cmeta"

\* bg.Add(1) blocks while PollConcurrency block goroutines run; then the
\* goroutine starts (poller.go:423-424; the jitter sleep only delays it).
AddBlockTask(t) ==
    /\ admitPc[t] = "add"
    /\ Cardinality(RunningBlocks(t)) < PollConcurrency
    /\ LET b == pending[t] IN
         blockPc' = [blockPc EXCEPT ![t][b] = FirstBlockStep(unknown[t][b])]
    /\ pending' = [pending EXCEPT ![t] = NoBlock]
    /\ admitPc' = [admitPc EXCEPT ![t] = "check"]
    /\ UNCHANGED <<storeVars, callerVars, doVars, taskVars, errs, newMetas,
                   foundObjects, historyVars>>

\* A block goroutine ends; a failed store call appends to errs. The
\* append is made under mtx right after the call (poller.go:431-446).
EndBlockTask(t, b, failed) ==
    /\ blockPc' = [blockPc EXCEPT ![t][b] = "done"]
    /\ errs' = [errs EXCEPT ![t] = @ \/ failed]

\* Reader.HasNoCompactFlag for a block listed live (poller.go:480-488).
CheckNoCompactFlag(t, b) ==
    /\ blockPc[t][b] = "flag"
    /\ \/ EndBlockTask(t, b, TRUE)
       \/ /\ b \in NoCompactBlocks
          /\ EndBlockTask(t, b, FALSE)
       \/ /\ b \notin NoCompactBlocks
          /\ blockPc' = [blockPc EXCEPT ![t][b] = "meta"]
          /\ UNCHANGED errs
    /\ UNCHANGED <<storeVars, callerVars, doVars, taskVars, admitPc, pending,
                   newMetas, foundObjects, historyVars>>

\* Faulty variant: any BlockMeta error is taken for ErrDoesNotExist.
ReadBlockMetaErrAsMissing(t, b) ==
    /\ blockPc[t][b] = "meta"
    /\ \/ /\ b \in LiveIDs(t)
          /\ EndBlockTask(t, b, FALSE)
          /\ newMetas' = [newMetas EXCEPT ![t].meta = @ \cup {b}]
       \/ /\ blockPc' = [blockPc EXCEPT ![t][b] = "cmeta"]
          /\ UNCHANGED <<errs, newMetas>>
    /\ UNCHANGED <<storeVars, callerVars, doVars, taskVars, admitPc, pending,
                   foundObjects, historyVars>>

\* Reader.BlockMeta (poller.go:489-496): found, an error, or
\* ErrDoesNotExist, after which the compacted meta is tried.
ReadBlockMeta(t, b) ==
    /\ blockPc[t][b] = "meta"
    /\ \/ /\ EndBlockTask(t, b, TRUE)
          /\ UNCHANGED newMetas
       \/ /\ b \in LiveIDs(t)
          /\ EndBlockTask(t, b, FALSE)
          /\ newMetas' = [newMetas EXCEPT ![t].meta = @ \cup {b}]
       \/ /\ b \notin LiveIDs(t)
          /\ blockPc' = [blockPc EXCEPT ![t][b] = "cmeta"]
          /\ UNCHANGED <<errs, newMetas>>
    /\ UNCHANGED <<storeVars, callerVars, doVars, taskVars, admitPc, pending,
                   foundObjects, historyVars>>

\* Compactor.CompactedBlockMeta (poller.go:493-508): found, an error, or
\* ErrDoesNotExist, which drops a block in an intermediate state.
ReadCompactedBlockMeta(t, b) ==
    /\ blockPc[t][b] = "cmeta"
    /\ \/ /\ EndBlockTask(t, b, TRUE)
          /\ UNCHANGED newMetas
       \/ /\ b \in CompactedIDs(t)
          /\ EndBlockTask(t, b, FALSE)
          /\ newMetas' = [newMetas EXCEPT ![t].compacted = @ \cup {b}]
       \/ /\ b \notin CompactedIDs(t)
          /\ EndBlockTask(t, b, FALSE)
          /\ UNCHANGED newMetas
    /\ UNCHANGED <<storeVars, callerVars, doVars, taskVars, admitPc, pending,
                   foundObjects, historyVars>>

\* bg.Wait, then either the joined error or the new metas appended to the
\* carried ones (poller.go:450-461, 384-392).
JoinPollUnknown(t) ==
    /\ taskPc[t] = "unknown"
    /\ admitPc[t] = "done"
    /\ RunningBlocks(t) = {}
    /\ \/ /\ errs[t]
          /\ FailAttempt(t, "error")
       \/ /\ ~errs[t]
          /\ attemptOut' = [attemptOut EXCEPT ![t] =
                [meta |-> @.meta \cup newMetas[t].meta,
                 compacted |-> @.compacted \cup newMetas[t].compacted]]
          /\ taskPc' = [taskPc EXCEPT ![t] = "write"]
          /\ UNCHANGED <<errorsLeft, attemptErr>>
    /\ UNCHANGED <<storeVars, callerVars, doVars, unknown, unknownVars,
                   foundObjects, historyVars>>

(***************************************************************************)
(* The end of the builder path (poller.go:304-321).                        *)
(***************************************************************************)

\* Writer.WriteTenantIndex; its failure is only logged. Empty lists go on
\* to deleteTenant.
WriteTenantIndex(t) ==
    /\ taskPc[t] = "write"
    /\ \/ tenantIndex' = [tenantIndex EXCEPT ![t] =
                            IndexAfterWrite(attemptOut[t].meta,
                                            attemptOut[t].compacted)]
       \/ UNCHANGED tenantIndex
    /\ \/ /\ IsEmpty(attemptOut[t])
          /\ taskPc' = [taskPc EXCEPT ![t] = "reapFind"]
          /\ UNCHANGED <<errorsLeft, attemptErr, attemptOut>>
       \/ /\ ~IsEmpty(attemptOut[t])
          /\ SucceedAttempt(t, attemptOut[t])
    /\ IndexAgeResetOnSuccess(t)
    /\ UNCHANGED <<blockState, created, modified, now, callerVars, loopVars,
                   unknown, unknownVars, foundObjects, historyVars>>

(***************************************************************************)
(* deleteTenant (poller.go:536-589)                                        *)
(***************************************************************************)

\* The objects Reader.Find walks under the tenant, and the times of the
\* oldest and the newest object each stands for.
TenantObjects(t) ==
    {b \in BlockIDs : HasObjects(blockState[t][b])}
        \cup (IF tenantIndex[t] # NoIndex THEN {IndexKey} ELSE {})
OldestWrite(t, o) == IF o = IndexKey THEN tenantIndex[t].createdAt ELSE created[t][o]
NewestWrite(t, o) == IF o = IndexKey THEN tenantIndex[t].createdAt ELSE modified[t][o]

\* The visitor's test time.Since(opts.Modified) > EmptyTenantDeletionAge.
OlderThanDeletionAge(t, o) == now - OldestWrite(t, o) > EmptyTenantDeletionAge
RecentObject(t, o) == now - NewestWrite(t, o) <= EmptyTenantDeletionAge

\* Faulty variant: the recentObjects test is left out.
ReapFindIgnoringRecent(t) ==
    /\ taskPc[t] = "reapFind"
    /\ EmptyTenantDeletionEnabled
    /\ EmptyTenantDeletionAge # 0
    /\ foundObjects' = [foundObjects EXCEPT ![t] =
          {o \in TenantObjects(t) : OlderThanDeletionAge(t, o)}]
    /\ taskPc' = [taskPc EXCEPT ![t] = "reapIndex"]
    /\ UNCHANGED <<errorsLeft, attemptErr, attemptOut>>
    /\ UNCHANGED <<storeVars, callerVars, doVars, unknown, unknownVars,
                   historyVars>>

\* The configuration checks and Reader.Find (poller.go:538-568).
ReapFind(t) ==
    /\ taskPc[t] = "reapFind"
    /\ \/ /\ ~EmptyTenantDeletionEnabled
          /\ SucceedAttempt(t, attemptOut[t])
          /\ UNCHANGED foundObjects
       \/ /\ EmptyTenantDeletionEnabled
          /\ EmptyTenantDeletionAge = 0
          /\ FailAttempt(t, "config")
          /\ UNCHANGED foundObjects
       \/ /\ EmptyTenantDeletionEnabled
          /\ EmptyTenantDeletionAge # 0
          /\ \/ /\ FailAttempt(t, "error")
                /\ UNCHANGED foundObjects
             \/ /\ \E o \in TenantObjects(t) : RecentObject(t, o)
                /\ SucceedAttempt(t, attemptOut[t])
                /\ UNCHANGED foundObjects
             \/ /\ \A o \in TenantObjects(t) : ~RecentObject(t, o)
                /\ foundObjects' = [foundObjects EXCEPT ![t] =
                      {o \in TenantObjects(t) : OlderThanDeletionAge(t, o)}]
                /\ taskPc' = [taskPc EXCEPT ![t] = "reapIndex"]
                /\ UNCHANGED <<errorsLeft, attemptErr, attemptOut>>
    /\ IndexAgeResetOnSuccess(t)
    /\ UNCHANGED <<storeVars, callerVars, loopVars, unknown, unknownVars,
                   historyVars>>

\* Reader.TenantIndex again: go on only on ErrDoesNotExist (poller.go:570-577).
ReapCheckIndex(t) ==
    /\ taskPc[t] = "reapIndex"
    /\ \/ /\ tenantIndex[t] = NoIndex
          /\ taskPc' = [taskPc EXCEPT ![t] = "reapDelete"]
          /\ UNCHANGED <<errorsLeft, attemptErr, attemptOut>>
       \/ SucceedAttempt(t, attemptOut[t])
    /\ IndexAgeResetOnSuccess(t)
    /\ UNCHANGED <<storeVars, callerVars, loopVars, unknown, unknownVars,
                   foundObjects, historyVars>>

\* Writer.Delete of one found object; a block stands for all its objects.
RemoveObject(t, o) ==
    IF o = IndexKey
    THEN /\ tenantIndex' = [tenantIndex EXCEPT ![t] = NoIndex]
         /\ UNCHANGED blockState
    ELSE /\ blockState' = [blockState EXCEPT ![t][o] =
                              IF HasObjects(@) THEN "deleted" ELSE @]
         /\ UNCHANGED tenantIndex

\* The delete loop; the first failure is returned (poller.go:579-588).
ReapDelete(t) ==
    /\ taskPc[t] = "reapDelete"
    /\ \/ /\ foundObjects[t] = {}
          /\ SucceedAttempt(t, attemptOut[t])
          /\ UNCHANGED <<blockState, tenantIndex, foundObjects>>
       \/ /\ foundObjects[t] # {}
          /\ FailAttempt(t, "error")
          /\ UNCHANGED <<blockState, tenantIndex, foundObjects>>
       \/ \E o \in foundObjects[t] :
            /\ RemoveObject(t, o)
            /\ foundObjects' = [foundObjects EXCEPT ![t] = @ \ {o}]
            /\ UNCHANGED <<taskPc, errorsLeft, attemptErr, attemptOut>>
    /\ IndexAgeResetOnSuccess(t)
    /\ UNCHANGED <<created, modified, now, callerVars, loopVars, unknown,
                   unknownVars, historyVars>>

(***************************************************************************)
(* The end of a tenant task, under mtx (poller.go:211-240): a failed       *)
(* tenant keeps its previous lists and spends one unit of the failure      *)
(* budget; other lists are recorded and reported by the gauges; empty     *)
(* lists leave no entry and delete the tenant's gauge series.              *)
(***************************************************************************)
PublishTenant(t) ==
    /\ taskPc[t] = "publish"
    /\ taskPc' = [taskPc EXCEPT ![t] = "finished"]
    /\ \/ /\ attemptErr[t] # "none"
          /\ result' = SetKey(result, t, previous[t])
          /\ failuresRemaining' = Int32(failuresRemaining - 1)
          /\ UNCHANGED gauges
       \/ /\ attemptErr[t] = "none"
          /\ ~IsEmpty(attemptOut[t])
          /\ result' = SetKey(result, t, attemptOut[t])
          /\ gauges' = [gauges EXCEPT ![t] = [v \in GaugeVecs |-> attemptOut[t]]]
          /\ UNCHANGED failuresRemaining
       \/ /\ attemptErr[t] = "none"
          /\ IsEmpty(attemptOut[t])
          /\ gauges' = [gauges EXCEPT ![t] = DeleteLabelValues(@)]
          /\ UNCHANGED <<result, failuresRemaining>>
    /\ ClearAttempt(t)
    /\ attemptOut' = [attemptOut EXCEPT ![t] = EmptyEntry]
    /\ errorsLeft' = [errorsLeft EXCEPT ![t] = 0]
    /\ UNCHANGED <<storeVars, callerVars, doPc, doTenants, doIdx, cancelled,
                   indexGauges, attemptErr, outcome, attempted, retired>>

(***************************************************************************)
(* The rest of the fleet changes the store between any two steps.          *)
(***************************************************************************)

\* Assumption: a poll attempt lasts at most MaxAttemptDuration from its
\* listing to its last call.
AttemptsWithinDuration ==
    \A t \in Tenants :
        taskPc[t] \in {"unknown", "write", "reapFind", "reapIndex", "reapDelete"}
            => now + 1 - listedAt[t] <= MaxAttemptDuration

Environment ==
    /\ \/ \E t \in Tenants, b \in BlockIDs :
            \/ WriteBlockData(t, b)
            \/ WriteMoreBlockData(t, b)
            \/ WriteBlockMeta(t, b)
            \/ MarkBlockCompacted(t, b)
            \/ RemoveBlockMeta(t, b)
            \/ ClearBlock(t, b)
       \/ \E t \in Tenants : OtherBuilderWritesIndex(t)
       \/ Tick /\ AttemptsWithinDuration
    /\ UNCHANGED <<callerVars, doVars, taskVars, unknownVars, foundObjects,
                   historyVars>>

(***************************************************************************)
(* The specification                                                       *)
(***************************************************************************)

Init ==
    /\ StoreInit
    /\ previous = [t \in Tenants |-> EmptyEntry]
    /\ cycles = 0
    /\ doPc = "idle"
    /\ doTenants = <<>>
    /\ doIdx = 1
    /\ cancelled = FALSE
    /\ failuresRemaining = 0
    /\ result = [t \in {} |-> EmptyEntry]
    /\ gauges = [t \in Tenants |-> [v \in {} |-> EmptyEntry]]
    /\ indexGauges = [t \in Tenants |-> [v \in {} |-> 0]]
    /\ outcome = "none"
    /\ TasksAtRest
    /\ retired = [t \in Tenants |-> {}]

DoStep ==
    \/ DoLoop
    \/ SpawnTenantTask
    \/ ReturnFromDo
    \/ ReturnCanceled

TenantStep(t) ==
    \/ BecomeBuilder(t)
    \/ PullTenantIndex(t)
    \/ ListBlocks(t)
    \/ CheckErrs(t)
    \/ AddBlockTask(t)
    \/ JoinPollUnknown(t)
    \/ WriteTenantIndex(t)
    \/ ReapFind(t)
    \/ ReapCheckIndex(t)
    \/ ReapDelete(t)
    \/ PublishTenant(t)

BlockStep(t, b) ==
    \/ CheckNoCompactFlag(t, b)
    \/ ReadBlockMeta(t, b)
    \/ ReadCompactedBlockMeta(t, b)

\* The bound on cycles is reached and Do has returned.
Finished ==
    /\ cycles = MaxCycles
    /\ doPc = "idle"
    /\ UNCHANGED vars

Next ==
    \/ StartDo
    \/ CancelDo
    \/ DoStep
    \/ \E t \in Tenants : TenantStep(t)
    \/ \E t \in Tenants, b \in BlockIDs : BlockStep(t, b)
    \/ Environment
    \/ Finished

\* Goroutines that can run eventually do; the caller and the fleet may stop.
Fairness ==
    /\ WF_vars(DoStep)
    /\ \A t \in Tenants : WF_vars(TenantStep(t))
    /\ \A t \in Tenants, b \in BlockIDs : WF_vars(BlockStep(t, b))

Spec == Init /\ [][Next]_vars /\ Fairness

(***************************************************************************)
(* Properties                                                              *)
(***************************************************************************)

\* Every variable holds a value of its type.
TypeOK ==
    /\ StoreTypeOK
    /\ previous \in [Tenants -> Entry]
    /\ cycles \in 0..MaxCycles
    /\ doPc \in {"idle", "check", "add", "wait", "waitCancel"}
    /\ doTenants \in Seq(Tenants)
    /\ doIdx \in 1..(Len(TenantOrder) + 1)
    /\ cancelled \in BOOLEAN
    /\ failuresRemaining \in Int32Range
    /\ DOMAIN result \subseteq Tenants /\ \A t \in DOMAIN result : result[t] \in Entry
    /\ \A t \in Tenants : DOMAIN gauges[t] \subseteq GaugeVecs
                          /\ \A v \in DOMAIN gauges[t] : gauges[t][v] \in Entry
    /\ \A t \in Tenants :
         /\ DOMAIN indexGauges[t] \subseteq {IndexBuilderGauge, IndexAgeGauge}
         /\ IndexBuilderGauge \in DOMAIN indexGauges[t]
              => indexGauges[t][IndexBuilderGauge] \in {0, 1}
         /\ IndexAgeGauge \in DOMAIN indexGauges[t]
              => indexGauges[t][IndexAgeGauge] \in Time
    /\ taskPc \in [Tenants -> TaskPcs]
    /\ errorsLeft \in [Tenants -> (-1..TolerateConsecutiveErrors)
                                  \cup {0, TolerateConsecutiveErrors}]
    /\ attemptErr \in [Tenants -> Errors]
    /\ attemptOut \in [Tenants -> Entry]
    /\ \A t \in Tenants : DOMAIN unknown[t] \subseteq BlockIDs
                          /\ \A b \in DOMAIN unknown[t] : unknown[t][b] \in BOOLEAN
    /\ admitPc \in [Tenants -> {"check", "add", "done"}]
    /\ pending \in [Tenants -> BlockIDs \cup {NoBlock}]
    /\ blockPc \in [Tenants -> [BlockIDs -> BlockPcs]]
    /\ errs \in [Tenants -> BOOLEAN]
    /\ newMetas \in [Tenants -> Entry]
    /\ foundObjects \in [Tenants -> SUBSET Objects]
    /\ attempted \in [Tenants -> BOOLEAN]
    /\ listedAt \in [Tenants -> Time]
    /\ outcome \in {"none", "ok", "listError", "error", "cancelled"}
    /\ listedLive \in [Tenants -> SUBSET BlockIDs]
    /\ listedCompacted \in [Tenants -> SUBSET BlockIDs]
    /\ retired \in [Tenants -> SUBSET BlockIDs]

BuilderListsComplete ==
    [][\A t \in Tenants :
         taskPc[t] = "unknown" /\ taskPc'[t] = "write" =>
           LET out == attemptOut'[t] IN
           /\ (listedLive[t] \cap LiveIDs(t)) \ SkippedBlocks \subseteq out.meta
           /\ listedCompacted[t] \cap CompactedIDs(t) \subseteq out.compacted]_vars

\* When Do returns success every tenant it listed has been polled to the
\* end and no more than TolerateTenantFailures of them failed, even though
\* the failure counter is decremented by the tasks while the loop admits
\* tenants (poller.go:180, 219, 246).
FailureBudgetRespected ==
    outcome = "ok" =>
        LET polled == ToSet(doTenants) IN
        /\ \A t \in polled : taskPc[t] = "finished"
        /\ Cardinality({t \in polled : attemptErr[t] # "none"})
               <= TolerateTenantFailures

\* Do never returns, on success, failure or cancellation (poller.go:175,
\* 244), while a tenant task can still write blocklist, compactedBlocklist
\* or the tenant's index.
DoWaitsForTenantTasks ==
    doPc = "idle" => NoTaskRunning

\* The empty-tenant reaper only deletes blocks whose writer has given up:
\* blocks without meta.json whose first object is older than any writer
\* takes (poller.go:552-586), never a live or compacted block.
ReaperDeletesOnlyAbandonedBlocks ==
    [][\A t \in Tenants, b \in BlockIDs :
         blockState'[t][b] = "deleted" /\ blockState[t][b] # "deleted" =>
           /\ blockState[t][b] = "writing"
           /\ now - created[t][b] > MaxWriteDuration]_vars

\* Spec 3, invariant 2: each tenant of a successful cycle has the lists of
\* one of its poll attempts, or its previous lists. A tenant no attempt was
\* made for (the retry loop at poller.go:202 runs zero times when
\* TolerateConsecutiveErrors < 0) has neither.
PublishedTenantsWerePolled ==
    outcome = "ok" => \A t \in ToSet(doTenants) : attempted[t]

\* Spec 3, lifecycle: a block stays in the snapshots until its meta object
\* disappears, and a compacted block never becomes live again. So no cycle
\* publishes as live a block an earlier cycle published as compacted, even
\* though a follower trusts any index it reads (poller.go:271-280) and a
\* builder's failed WriteTenantIndex is only logged (poller.go:306-310).
CompactedBlocksStayCompacted ==
    \A t \in Tenants : previous[t].meta \cap retired[t] = {}

\* Spec 4.2 calls several builders per tenant tolerable because index
\* writes are last-writer-wins, and spec 3, invariant 4 says readers do not
\* see the index go back. A builder writes the lists it built from its own
\* listing (poller.go:304-306), possibly over a newer index another builder
\* wrote meanwhile; the stored index must still never show live a block the
\* index it replaces showed as compacted.
IndexNeverRevivesCompactedBlock ==
    [][\A t \in Tenants :
         tenantIndex[t] # NoIndex /\ tenantIndex'[t] # NoIndex =>
           tenantIndex'[t].meta \cap tenantIndex[t].compacted = {}]_vars

\* Spec 3, invariant 1: a block id is in at most one of a tenant's lists.
\* Reader.Blocks lists a block being compacted under both meta.json and
\* meta.compacted.json; pollTenantBlocks carries its previous meta for the
\* first and sends the second to pollUnknown, which reads the compacted
\* meta (poller.go:359-378, 489-496).
PublishedListsDisjoint ==
    \A t \in Tenants : previous[t].meta \cap previous[t].compacted = {}

\* Spec 4.8 step 4: each task updates its tenant's gauges, and a tenant
\* polled to empty lists has its series removed (poller.go:236-240), so
\* no gauge keeps describing blocks the tenant no longer has.
EmptyTenantGaugesRemoved ==
    \A t \in Tenants :
        taskPc[t] = "finished" /\ attemptErr[t] = "none" /\ t \notin DOMAIN result
            => DOMAIN gauges[t] = {}

\* Every call of Do returns: the retry loop, the block goroutines and the
\* wait groups all end (poller.go:202, 450, 244).
DoTerminates ==
    doPc # "idle" ~> doPc = "idle"

(***************************************************************************)
(* Refinement: Poller implements Snapshot. The caller's list is the        *)
(* published list; a block is born once it has had a meta.json and dead    *)
(* once it has been compacted, whatever happened to its objects since.     *)
(***************************************************************************)
BornIDs == [t \in Tenants |->
              {b \in BlockIDs : blockState[t][b] \in {"live", "marking", "compacted", "cleared"}}]
DeadIDs == [t \in Tenants |->
              {b \in BlockIDs : blockState[t][b] \in {"marking", "compacted", "cleared"}}]

Snap == INSTANCE Snapshot WITH list <- previous, born <- BornIDs, dead <- DeadIDs

\* Every list the caller applies (poller.go:244-255 with ApplyPollResults)
\* is a step of Snapshot: each tenant's entry, carried (poller.go:362),
\* read (poller.go:384-392), pulled from an index (poller.go:271-280) or
\* kept from the previous cycle when the tenant failed (poller.go:211-215),
\* names only blocks that had a meta, marks compacted only blocks that were
\* compacted and names no block twice. Born and dead only grow, so where
\* the empty-tenant reaper runs (poller.go:538-588) the step that deletes a
\* block that had a meta breaks it too; with nocompact skipping on it can
\* (run nocompact_reaped), so the runs that check this keep skipping off
\* whenever the reaper is enabled.
SnapshotRefinement == Snap!SnapSpec

=============================================================================
