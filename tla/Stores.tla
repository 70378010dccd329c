------------------------------- MODULE Stores --------------------------------
(***************************************************************************)
(* The bundle stores a node can be configured with, under crashes and      *)
(* restarts of the daemon: the in-memory store (BundleStore), the sled     *)
(* store with its two trees, bundles and metadata, each written and        *)
(* flushed on its own, and the sneakers store, whose database drops the    *)
(* entry of a removed bundle and whose set of removed ids is kept in       *)
(* memory only.  All operations run under the STORE mutex: while a write   *)
(* of two parts is under way nothing but a crash can come between.         *)
(*                                                                         *)
(* The callers are receive(), which adds an unknown bundle and stores it   *)
(* again once its blocks are processed, the owners of a bundle pack, who   *)
(* write its constraints back, and everyone who removes a bundle.          *)
(***************************************************************************)
EXTENDS BundleStore, Naturals

CONSTANTS
    Backends,       \* the configured kinds of store
    MaxRestarts     \* bound: restarts of the daemon

ASSUME StoresAssumption ==
    /\ Backends \subseteq {"mem", "sled", "sneakers"}
    /\ MaxRestarts \in Nat

VARIABLES
    backend,        \* the kind of store in use
    deleted,        \* sneakers: removed ids, in memory
    write,          \* the second half of a write that is still due
    receiving,      \* ids receive() added and will store again
    restarts,       \* restarts so far
    removed,        \* history: ids whose removal was begun
    torn            \* history: ids of a write that a crash cut in two

storesVars == <<bundles, metadata, backend, deleted, write, receiving, restarts,
                removed, torn>>

\* No write is under way.
Unlocked == write = <<>>

StoresTypeOK ==
    /\ StoreTypeOK
    /\ backend \in Backends
    /\ deleted \subseteq Ids /\ receiving \subseteq Ids
    /\ write \in {<<>>} \cup ({"push", "remove"} \X Ids)
    /\ removed \subseteq Ids /\ torn \subseteq Ids
    /\ restarts \in 0 .. MaxRestarts

\* new() of each store: nothing is stored yet.
StoresInit ==
    /\ StoreInit
    /\ backend \in Backends
    /\ deleted = {} /\ receiving = {} /\ removed = {} /\ torn = {}
    /\ write = <<>>
    /\ restarts = 0

------------------------------------------------------------------------------
\* The trait's operations by kind of store.

\* is_known.
Known == IF backend = "sneakers" THEN deleted \cup bundles ELSE DOMAIN metadata

\* sled push: a stored bundle is replaced, one that is only known is an error,
\* a new one gets its metadata first.
SledPush(i) ==
    \/ /\ i \in bundles \/ i \in DOMAIN metadata
       /\ UNCHANGED <<bundles, metadata, write>>
    \/ /\ i \notin bundles /\ i \notin DOMAIN metadata
       /\ metadata' = Put(metadata, i, {})
       /\ write' = <<"push", i>>
       /\ UNCHANGED bundles

\* sneakers push: SneakerWorld keeps the database entry of a stored bundle.
SneakersPush(i) ==
    /\ bundles' = bundles \cup {i}
    /\ metadata' = IF i \in bundles THEN metadata ELSE Put(metadata, i, {})
    /\ UNCHANGED write

StorePush(i) ==
    \/ backend = "mem" /\ Push(i) /\ UNCHANGED write
    \/ backend = "sled" /\ SledPush(i)
    \/ backend = "sneakers" /\ SneakersPush(i)

\* The mark that precedes the removal of a bundle.
Tombstone(i) == Put(metadata, i, ClearConstraints(metadata[i]) \cup {"Deleted"})

\* MISTAKE: sled and sneakers mark the bundle and leave it where it is.
StoreRemoveMarks(i) ==
    /\ i \in DOMAIN metadata
    /\ metadata' = Tombstone(i)
    /\ bundles' = IF backend = "mem" THEN bundles \ {i} ELSE bundles
    /\ UNCHANGED write

\* remove.  sled panics, and sneakers fails, on an id without metadata.
StoreRemove(i) ==
    /\ i \in DOMAIN metadata
    /\ \/ backend = "mem" /\ Remove(i) /\ UNCHANGED write
       \/ /\ backend \in {"sled", "sneakers"}
          /\ metadata' = Tombstone(i)
          /\ write' = <<"remove", i>>
          /\ UNCHANGED bundles

------------------------------------------------------------------------------
\* The node's use of the store.

\* store_add_bundle_if_unknown, called by receive().
AddIfUnknown(i) ==
    /\ Unlocked
    /\ i \notin Known
    /\ StorePush(i)
    /\ receiving' = receiving \cup {i}
    /\ UNCHANGED <<backend, deleted, restarts, removed, torn>>

\* store_push_bundle at the end of receive(): the bundle may be gone by now.
PushReceived(i) ==
    /\ Unlocked
    /\ i \in receiving
    /\ StorePush(i)
    /\ receiving' = receiving \ {i}
    /\ UNCHANGED <<backend, deleted, restarts, removed, torn>>

\* store_update_metadata with the constraints of someone's bundle pack.
WriteConstraints(i, c) ==
    /\ Unlocked
    /\ i \in DOMAIN metadata
    /\ UpdateMetadata(i, c)
    /\ UNCHANGED <<backend, deleted, write, receiving, restarts, removed, torn>>

\* store_remove.
RemoveBundle(i) ==
    /\ Unlocked
    /\ StoreRemove(i)
    /\ removed' = removed \cup {i}
    /\ UNCHANGED <<backend, deleted, receiving, restarts, torn>>

\* The second half of sled's push.
FinishPush ==
    /\ ~Unlocked /\ write[1] = "push"
    /\ bundles' = bundles \cup {write[2]}
    /\ write' = <<>>
    /\ UNCHANGED <<metadata, backend, deleted, receiving, restarts, removed, torn>>

\* MISTAKE: the removed id is not remembered.
FinishRemoveForgets ==
    /\ ~Unlocked /\ write[1] = "remove"
    /\ bundles' = bundles \ {write[2]}
    /\ metadata' = IF backend = "sneakers"
                   THEN [i \in DOMAIN metadata \ {write[2]} |-> metadata[i]] ELSE metadata
    /\ write' = <<>>
    /\ UNCHANGED <<deleted, backend, receiving, restarts, removed, torn>>

\* The second half of remove: sled deletes the bundle, sneakers the bundle and
\* its database entry, whose id it remembers.
FinishRemove ==
    /\ ~Unlocked /\ write[1] = "remove"
    /\ bundles' = bundles \ {write[2]}
    /\ metadata' = IF backend = "sneakers"
                   THEN [i \in DOMAIN metadata \ {write[2]} |-> metadata[i]] ELSE metadata
    /\ deleted' = IF backend = "sneakers" THEN deleted \cup {write[2]} ELSE deleted
    /\ write' = <<>>
    /\ UNCHANGED <<backend, receiving, restarts, removed, torn>>

\* The daemon dies and new() opens the store again.  What one part of a write
\* left on disk stays there.
CrashAndRestart ==
    /\ restarts < MaxRestarts
    /\ restarts' = restarts + 1
    /\ torn' = IF Unlocked THEN torn ELSE torn \cup {write[2]}
    /\ write' = <<>>
    /\ receiving' = {}
    /\ deleted' = {}
    /\ bundles' = IF backend = "mem" THEN {} ELSE bundles
    /\ metadata' = IF backend = "mem" THEN [i \in {} |-> {}] ELSE metadata
    /\ UNCHANGED <<backend, removed>>

\* Constraints the tasks of the node write.
Written == {{"DispatchPending"}, {"ForwardPending"}}

StoresNext ==
    \/ \E i \in Ids :
          \/ AddIfUnknown(i) \/ PushReceived(i) \/ RemoveBundle(i)
          \/ \E c \in Written : WriteConstraints(i, c)
    \/ FinishPush \/ FinishRemove
    \/ CrashAndRestart

StoresSpec == StoresInit /\ [][StoresNext]_storesVars

------------------------------------------------------------------------------
\* Properties.

\* The store a caller sees: a push that is under way is not known yet.
Contract == INSTANCE StoreContract WITH
    held <- bundles,
    seen <- IF write \in {"push"} \X Ids THEN Known \ {write[2]} ELSE Known,
    open <- receiving,
    tombstones <- backend = "sled"

\* Every store implements StoreContract: accepted bundles are held until they
\* are removed, over restarts too where the store is durable, and a removed
\* id is refused, by sled for good, by the others until the next restart.
ImplementsContract == Contract!ContractSpec

\* Only a crash between the two writes of push or remove can leave the trees
\* of a store disagreeing: metadata of a bundle that never was removed and is
\* not stored (refused for ever by is_known), or a stored bundle marked
\* Deleted (skipped by store_delete_expired for ever).
TreesAgree ==
    Unlocked => \A i \in DOMAIN metadata \ torn :
        /\ i \in bundles \/ i \in removed
        /\ "Deleted" \in metadata[i] => i \notin bundles
==============================================================================
