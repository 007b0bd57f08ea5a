---------------------------- MODULE BackendBlock ----------------------------
(***************************************************************************)
(* BackendBlock.FindTraceByID and find (encoding/v2/backend_block.go):     *)
(* one query for a trace id in one block a querier took from its           *)
(* blocklist, while retention may remove the block's objects at any time. *)
(* The other calls of a BackendBlock are modelled too: Iterator, which a   *)
(* compactor uses, and the search and fetch methods, which are not        *)
(* supported by this encoding.                                             *)
(*                                                                         *)
(* Each backend read is one step and may fail with a transient error; a    *)
(* read of a removed object fails with ErrDoesNotExist. The bloom filter,  *)
(* the index reader and the paged finder are not under src/: the filter    *)
(* has no false negatives and may have false positives, and the finder     *)
(* returns the object iff the block holds the id.                          *)
(***************************************************************************)
CONSTANTS IDs  \* trace ids

VARIABLES
    call,          \* the method called on the block
    contents,      \* the ids the block holds
    id,            \* the id queried
    encodingKnown, \* model.NewObjectDecoder accepts meta.DataEncoding
    present,       \* the block's objects are still in the backend
    pc,            \* where the query is
    result         \* what FindTraceByID returned

vars == <<call, contents, id, encodingKnown, present, pc, result>>

Calls == {"FindTraceByID", "Iterator", "Unsupported"}

Pcs == {"bloom", "parse", "test", "index", "data", "find", "decode",
        "iterData", "iterIndex", "unsupported", "done"}

\* FindTraceByID returns (nil, nil), (nil, err), (resp, nil) or, when
\* PrepareForRead fails, (resp, err).
\* Iterator returns (iterator, nil) or (nil, err).
Results == {"none", "notFound", "error", "found", "foundWithError", "iterator"}

Goto(l) == /\ pc' = l
           /\ UNCHANGED result

Return(r) == /\ pc' = "done"
             /\ result' = r

Step(from) == /\ pc = from
              /\ UNCHANGED <<call, contents, id, encodingKnown, present>>

\* Faulty variant: a bloom that does not exist is taken for "not in block".
ReadBloomMissingAsAbsent ==
    /\ Step("bloom")
    /\ \/ present /\ Goto("parse")
       \/ ~present /\ Return("notFound")
       \/ Return("error")

\* reader.Read of the bloom shard for id (backend_block.go:54-65).
ReadBloom ==
    /\ Step("bloom")
    /\ \/ present /\ Goto("parse")
       \/ Return("error")

\* filter.ReadFrom (67-71): a malformed object is an error.
ParseBloom ==
    /\ Step("parse")
    /\ Goto("test") \/ Return("error")

\* filter.Test (73-75): no false negatives, possibly a false positive.
TestBloom ==
    /\ Step("test")
    /\ \/ Goto("index")
       \/ id \notin contents /\ Return("notFound")

\* NewIndexReader (77-81).
BuildIndexReader ==
    /\ Step("index")
    /\ Goto("data") \/ Return("error")

\* NewDataReader (83-87).
BuildDataReader ==
    /\ Step("data")
    /\ Goto("find") \/ Return("error")

\* finder.Find reads index and data pages (91-97); a nil object is "not
\* found in this block" (FindTraceByID, 135-142).
PagedFind ==
    /\ Step("find")
    /\ \/ present /\ id \in contents /\ Goto("decode")
       \/ present /\ id \notin contents /\ Return("notFound")
       \/ Return("error")

\* NewObjectDecoder, then PrepareForRead, whose error is returned with the
\* response (144-154).
Decode ==
    /\ Step("decode")
    /\ \/ ~encodingKnown /\ Return("error")
       \/ encodingKnown /\ (Return("found") \/ Return("foundWithError"))

\* Iterator (backend_block.go:100-114): NewDataReader over the objects.
IteratorDataReader ==
    /\ Step("iterData")
    /\ Goto("iterIndex") \/ Return("error")

\* b.NewIndexReader (116-124), then newPagedIterator.
IteratorIndexReader ==
    /\ Step("iterIndex")
    /\ Return("iterator") \/ Return("error")

\* Search, SearchTags, SearchTagValues(V2), Fetch, FetchTagValues,
\* FetchTagNames and Validate return common.ErrUnsupported (156-186).
Unsupported ==
    /\ Step("unsupported")
    /\ Return("error")

\* Retention removes the block's objects.
Retention ==
    /\ present
    /\ present' = FALSE
    /\ UNCHANGED <<call, contents, id, encodingKnown, pc, result>>

Init ==
    /\ call \in Calls
    /\ contents \in SUBSET IDs
    /\ id \in IDs
    /\ encodingKnown \in BOOLEAN
    /\ present = TRUE
    /\ pc = CASE call = "FindTraceByID" -> "bloom"
              [] call = "Iterator"      -> "iterData"
              [] OTHER                  -> "unsupported"
    /\ result = "none"

QueryStep ==
    \/ ReadBloom
    \/ ParseBloom
    \/ TestBloom
    \/ BuildIndexReader
    \/ BuildDataReader
    \/ PagedFind
    \/ Decode
    \/ IteratorDataReader
    \/ IteratorIndexReader
    \/ Unsupported

Next == QueryStep \/ Retention \/ (pc = "done" /\ UNCHANGED vars)

Spec == Init /\ [][Next]_vars

(***************************************************************************)
(* Properties                                                              *)
(***************************************************************************)

\* A trace the block holds is never reported absent: the bloom has no
\* false negatives, and every failed read, including one of objects that
\* retention removed in the middle of the query, is returned as an error
\* (backend_block.go:63-65, 92-95), so the querier never takes a block it
\* could not read for one without the trace.
StoredTraceNeverMissed ==
    result = "notFound" => id \notin contents

=============================================================================
