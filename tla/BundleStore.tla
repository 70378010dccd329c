----------------------------- MODULE BundleStore -----------------------------
(***************************************************************************)
(* The in-memory bundle store (core/store/mem.rs) behind the STORE mutex:  *)
(* two maps, the stored bundles and the metadata of every bundle the node  *)
(* ever stored.  Every operation runs under the lock, so each one is an    *)
(* atomic step; an operation that fails half way (Remove) keeps what it    *)
(* already changed.  The operators are the next-state relations of the     *)
(* operations, for the modules that call the store.                        *)
(***************************************************************************)
EXTENDS BundlePack

CONSTANT Ids       \* bundle ids

VARIABLES
    bundles,       \* ids of the bundles that are stored
    metadata       \* constraints of the known ids, a function on those ids

StoreVars == <<bundles, metadata>>

StoreTypeOK ==
    /\ bundles \subseteq Ids
    /\ DOMAIN metadata \subseteq Ids
    /\ metadata \in [DOMAIN metadata -> SUBSET Constraint]

StoreInit ==
    /\ bundles = {}
    /\ metadata = [i \in {} |-> {}]

\* HashMap::insert.
Put(f, k, v) == [x \in DOMAIN f \cup {k} |-> IF x = k THEN v ELSE f[x]]

------------------------------------------------------------------------------
\* Queries.

IsKnown(i) == i \in DOMAIN metadata
HasItem(i) == i \in bundles

\* BundleStore::filter and ::forwarding: ids whose metadata has the criteria.
Filter(criteria) == {i \in DOMAIN metadata : criteria \subseteq metadata[i]}
\* MISTAKE: the janitor looks for the wrong constraint.
ForwardingDispatch == Filter({"DispatchPending"})

Forwarding == Filter({"ForwardPending"})

------------------------------------------------------------------------------
\* Updates.

\* MISTAKE: metadata of an earlier life of the bundle is kept.
PushKeepsMetadata(i) ==
    /\ bundles' = bundles \cup {i}
    /\ metadata' = IF IsKnown(i) THEN metadata ELSE Put(metadata, i, {})

\* A push of a stored id keeps its metadata; a push of any other id, also of
\* one that was removed before, starts from fresh metadata.
Push(i) ==
    /\ bundles' = bundles \cup {i}
    /\ metadata' = IF HasItem(i) THEN metadata ELSE Put(metadata, i, {})

\* Fails, changing nothing, on an id the store never saw.
UpdateMetadata(i, c) ==
    /\ metadata' = IF IsKnown(i) THEN Put(metadata, i, c) ELSE metadata
    /\ UNCHANGED bundles

\* The metadata is kept as a tombstone.  Fails after marking it when the
\* bundle itself is already gone.
Remove(i) ==
    /\ metadata' = IF IsKnown(i)
                   THEN Put(metadata, i, ClearConstraints(metadata[i]) \cup {"Deleted"})
                   ELSE metadata
    /\ bundles' = IF IsKnown(i) THEN bundles \ {i} ELSE bundles

RemoveOk(i) == IsKnown(i) /\ HasItem(i)

\* BundlePack::sync: a pack without constraints removes its bundle.
Sync(i, c) == IF HasConstraints(c) THEN UpdateMetadata(i, c) ELSE Remove(i)

SyncOk(i, c) == IF HasConstraints(c) THEN IsKnown(i) ELSE RemoveOk(i)
==============================================================================
