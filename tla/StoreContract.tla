---------------------------- MODULE StoreContract ----------------------------
(***************************************************************************)
(* What the node expects of a bundle store (the BundleStore trait of       *)
(* core/store/mod.rs): an accepted bundle is held until it is removed, and *)
(* an id that was accepted once is known from then on and not accepted     *)
(* again.  A store with tombstones keeps that promise over restarts and    *)
(* against every push; a store without them only until it is restarted,    *)
(* and a reception that is still under way can bring back the bundle it    *)
(* is about.                                                               *)
(***************************************************************************)
CONSTANT Ids        \* bundle ids

VARIABLES
    held,           \* ids of the bundles the store returns
    seen,           \* ids the store knows, and refuses
    open,           \* ids whose reception is under way
    tombstones      \* the store remembers removed bundles for good

contractVars == <<held, seen, open, tombstones>>

ContractInit ==
    /\ held = {} /\ seen = {} /\ open = {}
    /\ tombstones \in BOOLEAN

\* An unknown bundle is accepted.  Its reception begins or ends whenever it
\* likes, before, with or after the step that makes the bundle visible.
Accept(i) ==
    /\ i \notin seen
    /\ held' = held \cup {i}
    /\ seen' = seen \cup {i}
    /\ open' \subseteq Ids
    /\ UNCHANGED tombstones

\* The reception of a bundle stores it a second time.
Restore(i) ==
    /\ i \in open
    /\ ~tombstones
    /\ held' = held \cup {i}
    /\ seen' = seen \cup {i}
    /\ open' \subseteq Ids
    /\ UNCHANGED tombstones

\* A bundle is removed; its id stays known.
Drop(i) ==
    /\ held' = held \ {i}
    /\ UNCHANGED <<seen, open, tombstones>>

\* A restart ends the receptions.  With tombstones it loses nothing, but may
\* turn one unfinished acceptance into an id that is refused; without them
\* only ids of bundles that are still held are known afterwards.
Restart ==
    /\ open' = {}
    /\ UNCHANGED tombstones
    /\ \/ /\ tombstones
          /\ held' = held
          /\ seen' = seen \/ \E i \in Ids \ seen : seen' = seen \cup {i}
       \/ /\ ~tombstones
          /\ held' \subseteq held
          /\ seen' = held'

\* Receptions begin and end without effect on the store.
Receptions ==
    /\ open' \subseteq Ids
    /\ UNCHANGED <<held, seen, tombstones>>

ContractNext ==
    \/ \E i \in Ids : Accept(i) \/ Restore(i) \/ Drop(i)
    \/ Receptions
    \/ Restart

ContractSpec == ContractInit /\ [][ContractNext]_contractVars
==============================================================================
