------------------------------ MODULE Snapshot ------------------------------
(***************************************************************************)
(* What a blocklist polling cycle promises its caller (spec 3, invariants  *)
(* 1-3, and the lifecycle paragraph), with the store reduced to the two    *)
(* facts a published list may depend on: which blocks have ever had a      *)
(* meta (born) and which have been compacted (dead). Both only grow.       *)
(*                                                                         *)
(* A cycle replaces the list atomically. Each tenant's entry names only   *)
(* blocks that were born, marks compacted only blocks that died, and names *)
(* no block twice.                                                         *)
(***************************************************************************)
CONSTANTS Tenants, BlockIDs

VARIABLES
    list,   \* the published List: [Tenants -> Entry]
    born,   \* [Tenants -> SUBSET BlockIDs]: blocks that have had a meta.json
    dead    \* [Tenants -> SUBSET BlockIDs]: blocks that have been compacted

snapVars == <<list, born, dead>>

Entry == [meta: SUBSET BlockIDs, compacted: SUBSET BlockIDs]

\* An entry a poll attempt may produce for t.
Valid(t, e) ==
    /\ e.meta \subseteq born[t]
    /\ e.compacted \subseteq dead[t]
    /\ e.meta \cap e.compacted = {}

SnapInit ==
    /\ list = [t \in Tenants |-> [meta |-> {}, compacted |-> {}]]
    /\ born = [t \in Tenants |-> {}]
    /\ dead = [t \in Tenants |-> {}]

\* A writer finishes a block.
Born(t, b) ==
    /\ b \notin born[t]
    /\ born' = [born EXCEPT ![t] = @ \cup {b}]
    /\ UNCHANGED <<list, dead>>

\* A compactor retires a block.
Die(t, b) ==
    /\ b \in born[t] \ dead[t]
    /\ dead' = [dead EXCEPT ![t] = @ \cup {b}]
    /\ UNCHANGED <<list, born>>

\* A successful cycle replaces the whole list; a failed attempt's tenant
\* keeps an entry that was valid when published and stays so.
Publish ==
    /\ list' \in [Tenants -> Entry]
    /\ \A t \in Tenants : Valid(t, list'[t])
    /\ UNCHANGED <<born, dead>>

SnapNext ==
    \/ \E t \in Tenants, b \in BlockIDs : Born(t, b) \/ Die(t, b)
    \/ Publish

SnapSpec == SnapInit /\ [][SnapNext]_snapVars

=============================================================================
