-------------------------- MODULE BackendMetaMetrics --------------------------
(***************************************************************************)
(* sumTotalBackendMetaMetrics (poller.go:591-623): the totals a successful *)
(* tenant poll reports in the backend_objects_total and                    *)
(* backend_bytes_total gauges (poller.go:230-234).                         *)
(*                                                                         *)
(* A meta is reduced to the two fields the loops read. TotalObjects is an  *)
(* int32 widened to int, so its sum cannot overflow for fewer than 2^32    *)
(* metas; Size_ is a uint64 and its sum wraps, modelled at UintWidth bits. *)
(***************************************************************************)
EXTENDS Integers, Sequences, SequencesExt

CONSTANTS
    MaxTotalObjects,  \* largest BlockMeta.TotalObjects explored
    MaxSize,          \* largest BlockMeta.Size_ explored
    MaxMetas,         \* longest list of metas explored
    UintWidth         \* width of the byte sums (64 in the code)

VARIABLES
    blockMeta,          \* newBlockList: Seq(Metas)
    compactedBlockMeta, \* newCompactedBlockList: Seq(Metas)
    metrics             \* the backendMetaMetrics last computed, or NoMetrics

vars == <<blockMeta, compactedBlockMeta, metrics>>

Metas == [totalObjects: 0..MaxTotalObjects, size: 0..MaxSize]

\* Unsigned addition at the width of uint64.
UintAdd(a, b) == (a + b) % (2 ^ UintWidth)

\* One of the two range loops: sumTotalObjects += int(m.TotalObjects) and
\* sumTotalBytes += m.Size_ for every meta, in order.
RECURSIVE SumLoop(_, _, _)
SumLoop(ms, objects, bytes) ==
    IF ms = <<>>
    THEN [objects |-> objects, bytes |-> bytes]
    ELSE SumLoop(Tail(ms), objects + Head(ms).totalObjects,
                 UintAdd(bytes, Head(ms).size))

\* Faulty variant: the compacted byte total is taken from the live loop.
sumTotalBackendMetaMetricsCopyPaste(bm, cbm) ==
    LET live == SumLoop(bm, 0, 0)
        comp == SumLoop(cbm, 0, 0)
    IN  [blockMetaTotalObjects          |-> live.objects,
         compactedBlockMetaTotalObjects |-> comp.objects,
         blockMetaTotalBytes            |-> live.bytes,
         compactedBlockMetaTotalBytes   |-> live.bytes]

sumTotalBackendMetaMetrics(bm, cbm) ==
    LET live == SumLoop(bm, 0, 0)
        comp == SumLoop(cbm, 0, 0)
    IN  [blockMetaTotalObjects          |-> live.objects,
         compactedBlockMetaTotalObjects |-> comp.objects,
         blockMetaTotalBytes            |-> live.bytes,
         compactedBlockMetaTotalBytes   |-> comp.bytes]

NoMetrics == [blockMetaTotalObjects |-> -1]

\* The lists a tenant poll returns.
Init ==
    /\ blockMeta \in BoundedSeq(Metas, MaxMetas)
    /\ compactedBlockMeta \in BoundedSeq(Metas, MaxMetas)
    /\ metrics = NoMetrics

\* PublishTenant computes the totals of the lists it records.
Report ==
    /\ metrics = NoMetrics
    /\ metrics' = sumTotalBackendMetaMetrics(blockMeta, compactedBlockMeta)
    /\ UNCHANGED <<blockMeta, compactedBlockMeta>>

Done ==
    /\ metrics # NoMetrics
    /\ UNCHANGED vars

Next == Report \/ Done

Spec == Init /\ [][Next]_vars

(***************************************************************************)
(* Properties                                                              *)
(***************************************************************************)

\* The reference totals: the sum of a field over a list, in the integers.
FieldSum(ms, f) == SumFunction([i \in DOMAIN ms |-> ms[i][f]])

\* The gauges report, for live and for compacted metas separately, the
\* total object count and the total byte count modulo 2^64, whatever the
\* order of the metas and however often the running byte sum wraps.
MetricsAreTotals ==
    metrics # NoMetrics =>
        metrics = [blockMetaTotalObjects |-> FieldSum(blockMeta, "totalObjects"),
                   compactedBlockMetaTotalObjects
                       |-> FieldSum(compactedBlockMeta, "totalObjects"),
                   blockMetaTotalBytes
                       |-> FieldSum(blockMeta, "size") % (2 ^ UintWidth),
                   compactedBlockMetaTotalBytes
                       |-> FieldSum(compactedBlockMeta, "size") % (2 ^ UintWidth)]

=============================================================================
