----------------------------- MODULE Processing -----------------------------
(***************************************************************************)
(* The bundle processing pipeline of one node: core/processing.rs on top   *)
(* of the store, with the janitor (core/mod.rs, dtnd/janitor.rs), the      *)
(* application agents and the HTTP operations that touch bundles.          *)
(*                                                                         *)
(* Everything runs as tokio tasks on several threads.  The tasks share the *)
(* store, the endpoint list and the set of bundles being forwarded, each   *)
(* behind its own mutex, and no lock is held across two operations.  So a  *)
(* task is a sequence of atomic steps, one per locked operation, and any   *)
(* steps of other tasks may come in between; each task works on a private  *)
(* copy (bp) of the constraints it read or made earlier.                   *)
(*                                                                         *)
(* A task is <<kind, id>>: "ingress" runs receive or send_bundle of the    *)
(* bundle, "dispatched" the forward() that dispatch spawns, "janitor" the  *)
(* forward() of a janitor run.                                             *)
(*                                                                         *)
(* External to this module, and unconstrained in it: the routing agent's   *)
(* answer, the outcome of each transfer, the clock, applications, peers.   *)
(***************************************************************************)
EXTENDS BundleStore, Sequences, FiniteSets, Naturals

CONSTANTS
    Bundles,        \* bundles that peers or applications hand to this node
    Peers,          \* next hops the routing agent may select
    Eids,           \* endpoint ids
    NoEid,          \* dtn:none
    LocalEids,      \* endpoint ids of this node, see is_local_node_id
    HostEid,        \* this node's own id, the source of its status reports
    GroupEids,      \* non-singleton endpoint ids
    RegisteredAtStart, \* the node's own endpoint and the configured ones
    Traffic,        \* BOUND: the sets of bundles one behaviour may be about
    Volatile,       \* ids whose lifetime may run out during the run
    Managed,        \* ids an operator may remove through /delete
    Resubmitted,    \* bundles an application may submit more than once
    Churn,          \* endpoints applications register, subscribe and leave
    Parallel,       \* parallel_bundle_processing
    ActiveCla,      \* some convergence layer accepts bundles for sending
    Info            \* attributes of every bundle, see InfoType

Status == {"received", "forwarded", "delivered", "deleted"}

\* A status report about bundle b is itself a bundle.  BOUND: at most one
\* report per bundle and status is made.
ReportId(b, s) == <<b, s>>

InfoType ==
    [src    : Eids \cup {NoEid},
     dst    : Eids,
     rpt    : Eids,                \* report_to
     req    : SUBSET Status,       \* reports requested and enabled by the config
     admin  : {"no", "invalid", "report"},  \* administrative record, readable or not
     ref    : Ids,                 \* bundle a status report is about
     status : Status,              \* the one item a status report asserts
     blocks : SUBSET {"report", "delete"},  \* flags of the unknown blocks visited
     drop   : SUBSET {"Transmit", "Receive", "Forward"},  \* bpsec policy verdicts
     hops   : BOOLEAN,             \* the next hop exceeds the hop limit
     age    : BOOLEAN]             \* has a bundle age block

ASSUME ProcessingAssumption ==
    /\ Ids = Bundles \cup (Bundles \X Status)
    /\ Bundles \cap (Bundles \X Status) = {}
    /\ NoEid \notin Eids
    /\ LocalEids \subseteq Eids
    /\ HostEid \in LocalEids
    /\ GroupEids \subseteq Eids
    /\ RegisteredAtStart \subseteq Eids
    /\ HostEid \in RegisteredAtStart
    /\ Traffic \subseteq SUBSET Bundles
    /\ Volatile \subseteq Ids
    /\ Managed \subseteq Ids
    /\ Resubmitted \subseteq Bundles
    /\ Churn \subseteq Eids
    /\ Parallel \in BOOLEAN
    /\ ActiveCla \in BOOLEAN
    /\ Info \in [Bundles -> InfoType]

\* Attributes of any id: a report is addressed to the report_to of its subject.
Bundle(i) ==
    IF i \in Bundles THEN Info[i]
    ELSE [src |-> HostEid, dst |-> Info[i[1]].rpt, rpt |-> Info[i[1]].rpt, req |-> {},
          admin |-> "report", ref |-> i[1], status |-> i[2],
          blocks |-> {}, drop |-> {}, hops |-> FALSE, age |-> FALSE]

Local(i)     == Bundle(i).dst \in LocalEids
Singleton(i) == Bundle(i).dst \notin GroupEids

------------------------------------------------------------------------------
VARIABLES
    pc,             \* where each task is
    bp,             \* the constraints of each task's private BundlePack
    nodes,          \* forward: transfers that have not finished yet
    sent,           \* forward: some transfer succeeded (bundle_sent)
    delAfter,       \* forward: delete_afterwards, as the routing agent answered
    forwarding,     \* FORWARDING, ids whose ForwardingGuard is held
    registered,     \* endpoints with an application agent
    subscribed,     \* registered endpoints with a websocket delivery address
    queue,          \* bundles waiting in each application agent
    jpc,            \* where the janitor is
    todo,           \* ids the janitor's current loop has still to visit
    expired,        \* ids whose lifetime has run out
    handed          \* history: how often a bundle was handed to its endpoint

TaskVars     == <<pc, bp, nodes, sent, delAfter>>
EndpointVars == <<registered, subscribed, queue>>
JanitorVars  == <<jpc, todo>>
vars == <<bundles, metadata, pc, bp, nodes, sent, delAfter, forwarding, registered,
          subscribed, queue, jpc, todo, expired, handed>>

ForwardKinds == {"dispatched", "janitor"}
Kinds        == {"ingress"} \cup ForwardKinds
Task         == Kinds \X Ids

ReceiveLabels == {"rx_sync", "rx_blocks", "rx_push", "tx_sync", "tx_source"}
DeliverLabels == {"dispatch", "endpoint", "deliver", "mark", "report_delivery",
                  "settle", "handover"}
ForwardLabels == {"pending", "route", "drop", "fetch", "transfer", "remove",
                  "contraindicate", "release"}
SharedLabels  == {"inspect", "inspect_remove", "delete", "delete_sync"}
Labels == {"idle", "queued", "acquire"} \cup ReceiveLabels \cup DeliverLabels
            \cup ForwardLabels \cup SharedLabels

TypeOK ==
    /\ StoreTypeOK
    /\ pc \in [Task -> Labels]
    /\ bp \in [Task -> SUBSET Constraint]
    /\ nodes \in [Task -> SUBSET Peers]
    /\ sent \in [Task -> BOOLEAN]
    /\ delAfter \in [Task -> BOOLEAN]
    /\ forwarding \subseteq Ids
    /\ registered \subseteq Eids
    /\ subscribed \subseteq registered
    /\ queue \in [Eids -> Seq(Ids)]
    /\ jpc \in {"idle", "expire", "read", "forward"}
    /\ todo \subseteq Ids
    /\ expired \subseteq Ids
    /\ handed \in [Ids -> Nat]

Init ==
    /\ StoreInit
    /\ pc = [t \in Task |-> "idle"]
    /\ bp = [t \in Task |-> {}]
    /\ nodes = [t \in Task |-> {}]
    /\ sent = [t \in Task |-> FALSE]
    /\ delAfter = [t \in Task |-> FALSE]
    /\ forwarding = {}
    /\ registered = RegisteredAtStart
    /\ subscribed = {}
    /\ queue = [e \in Eids |-> <<>>]
    /\ jpc = "idle"
    /\ todo = {}
    /\ expired = {}
    /\ handed = [i \in Ids |-> 0]

------------------------------------------------------------------------------
\* Control of a task.

Goto(t, l) == pc' = [pc EXCEPT ![t] = l]

\* MISTAKE: an error path that forgets to drop the guard.
BailLeaking(t) == "idle"

\* An early return: forward() drops its guard, an ingress task just ends.
Bail(t) == IF t[1] = "ingress" THEN "idle" ELSE "release"

\* The steps that touch only the store and the task's own program counter.
StoreStep ==
    UNCHANGED <<bp, nodes, sent, delAfter, forwarding, registered, subscribed, queue,
                jpc, todo, expired, handed>>

\* The steps that touch only task variables.
LocalStep ==
    UNCHANGED <<bundles, metadata, forwarding, registered, subscribed, queue, jpc, todo,
                expired, handed>>

\* send_status_report: nothing for a bundle that is gone, administrative,
\* anonymous or reporting to an endpoint of this node; otherwise the report is
\* stored with ForwardPending and left to the janitor.  The lookup, the push
\* and the sync are one step: no other task knows the fresh id in between.
SendStatusReport(i, s) ==
    LET r == ReportId(i, s)
        send == /\ HasItem(i)
                /\ Bundle(i).admin = "no"
                /\ Bundle(i).src # NoEid
                /\ Bundle(i).rpt \notin registered
                /\ ~IsKnown(r)
    IN  /\ bundles' = IF send THEN bundles \cup {r} ELSE bundles
        /\ metadata' = IF send THEN Put(metadata, r, {"ForwardPending"}) ELSE metadata

\* The flag test in front of every call of send_status_report.
ReportIf(requested, i, s) ==
    IF requested /\ Bundle(i).admin = "no" THEN SendStatusReport(i, s)
    ELSE UNCHANGED StoreVars

Requested(i, s) == s \in Bundle(i).req

------------------------------------------------------------------------------
\* Ingress: receive() and send_bundle().

Ingress(i) == <<"ingress", i>>

\* The bound on what enters the node.
Entering(i) == \E s \in Traffic : Bundles \cap (DOMAIN metadata \cup {i}) \subseteq s

\* MISTAKE: a removed bundle is taken for a new one.
ReceiveAbsent(i) ==
    /\ pc[Ingress(i)] = "idle"
    /\ ~HasItem(i)
    /\ Entering(i)
    /\ Push(i)
    /\ Goto(Ingress(i), "rx_sync")
    /\ StoreStep

\* receive, up to store_add_bundle_if_unknown.  A bundle that is invalid or
\* already known changes nothing but a counter.
Receive(i) ==
    /\ pc[Ingress(i)] = "idle"
    /\ ~IsKnown(i)
    /\ Entering(i)
    /\ Push(i)
    /\ Goto(Ingress(i), "rx_sync")
    /\ StoreStep

\* receive: the fresh pack gets DispatchPending and is synced.
ReceiveSync(t) ==
    /\ pc[t] = "rx_sync"
    /\ Sync(t[2], {"DispatchPending"})
    /\ bp' = [bp EXCEPT ![t] = {"DispatchPending"}]
    /\ Goto(t, IF SyncOk(t[2], {"DispatchPending"}) THEN "rx_blocks" ELSE "idle")
    /\ UNCHANGED <<nodes, sent, delAfter, forwarding, registered, subscribed, queue,
                   jpc, todo, expired, handed>>

\* MISTAKE: an unknown block is reported, its delete flag ignored.
ReceiveBlocksLenient(t) ==
    /\ pc[t] = "rx_blocks"
    /\ ReportIf(Requested(t[2], "received") \/ "report" \in Bundle(t[2]).blocks,
                t[2], "received")
    /\ Goto(t, IF "Receive" \in Bundle(t[2]).drop THEN "delete" ELSE "rx_push")
    /\ StoreStep

\* receive: reception report, unknown blocks (report, then delete) and the
\* security policy.  A block that is only to be removed changes the content.
ReceiveBlocks(t) ==
    /\ pc[t] = "rx_blocks"
    /\ ReportIf(Requested(t[2], "received") \/ "report" \in Bundle(t[2]).blocks,
                t[2], "received")
    /\ Goto(t, IF "delete" \in Bundle(t[2]).blocks \/ "Receive" \in Bundle(t[2]).drop
               THEN "delete" ELSE "rx_push")
    /\ StoreStep

\* receive: the processed bundle is pushed again, replacing the first copy.
ReceivePush(t) ==
    /\ pc[t] = "rx_push"
    /\ Push(t[2])
    /\ Goto(t, "dispatch")
    /\ StoreStep

\* send_bundle, up to its push.  Nothing here asks whether the bundle is known
\* already; most applications send each bundle once.  BOUND: a bundle is not
\* submitted again while an earlier submission of it is being processed.
SendBundle(i) ==
    /\ pc[Ingress(i)] = "idle"
    /\ IsKnown(i) => i \in Resubmitted /\ pc[<<"dispatched", i>>] = "idle"
    /\ Entering(i)
    /\ "Transmit" \notin Bundle(i).drop
    /\ Push(i)
    /\ Goto(Ingress(i), "tx_sync")
    /\ StoreStep

\* transmit: DispatchPending, sync.
TransmitSync(t) ==
    /\ pc[t] = "tx_sync"
    /\ Sync(t[2], {"DispatchPending"})
    /\ bp' = [bp EXCEPT ![t] = {"DispatchPending"}]
    /\ Goto(t, IF SyncOk(t[2], {"DispatchPending"}) THEN "tx_source" ELSE "idle")
    /\ UNCHANGED <<nodes, sent, delAfter, forwarding, registered, subscribed, queue,
                   jpc, todo, expired, handed>>

\* transmit: the source must be dtn:none or an endpoint of this node.
TransmitSource(t) ==
    /\ pc[t] = "tx_source"
    /\ Goto(t, IF Bundle(t[2]).src \in registered \cup {NoEid} THEN "dispatch" ELSE "delete")
    /\ LocalStep
    /\ UNCHANGED <<bp, nodes, sent, delAfter>>

------------------------------------------------------------------------------
\* dispatch() and local_delivery(), still in the ingress task.

\* The end of dispatch: spawn forward() unless the destination is this node.
\* forward() gets the pack as it was before local_delivery worked on a clone.
SpawnForward(t) ==
    LET f == <<"dispatched", t[2]>>
    IN  IF Local(t[2])
        THEN Goto(t, "idle") /\ UNCHANGED bp
        ELSE /\ pc' = [pc EXCEPT ![t] = "idle", ![f] = "acquire"]
             /\ bp' = [bp EXCEPT ![f] = bp[t]]

Dispatch(t) ==
    /\ pc[t] = "dispatch"
    /\ Goto(t, IF HasItem(t[2]) THEN "endpoint" ELSE "idle")
    /\ LocalStep
    /\ UNCHANGED <<bp, nodes, sent, delAfter>>

\* dispatch: is the destination an endpoint of this node?
DispatchEndpoint(t) ==
    /\ pc[t] = "endpoint"
    /\ IF Bundle(t[2]).dst \in registered
       THEN Goto(t, "deliver") /\ UNCHANGED bp
       ELSE SpawnForward(t)
    /\ LocalStep
    /\ UNCHANGED <<nodes, sent, delAfter>>

\* local_delivery: look the bundle up, judge an administrative record.
Deliver(t) ==
    /\ pc[t] = "deliver"
    /\ Goto(t, IF ~HasItem(t[2]) THEN "idle"
               ELSE IF Bundle(t[2]).admin = "invalid" THEN "delete"
               ELSE IF Bundle(t[2]).admin = "report" THEN "inspect" ELSE "mark")
    /\ LocalStep
    /\ UNCHANGED <<bp, nodes, sent, delAfter>>

\* local_delivery: LocalEndpoint on the clone, sync.
DeliverMark(t) ==
    /\ pc[t] = "mark"
    /\ LET c == bp[t] \cup {"LocalEndpoint"}
       IN  /\ Sync(t[2], c)
           /\ Goto(t, IF ~SyncOk(t[2], c) THEN "idle"
                      ELSE IF Local(t[2]) THEN "report_delivery" ELSE "settle")
    /\ StoreStep

DeliverReport(t) ==
    /\ pc[t] = "report_delivery"
    /\ ReportIf(Requested(t[2], "delivered"), t[2], "delivered")
    /\ Goto(t, "settle")
    /\ StoreStep

\* local_delivery: only LocalEndpoint remains of a bundle for this node, any
\* other one is also to be forwarded; sync.
DeliverSettle(t) ==
    /\ pc[t] = "settle"
    /\ LET c == bp[t] \cup {"LocalEndpoint"}
           d == IF Local(t[2]) THEN ClearConstraints(c) ELSE c \cup {"ForwardPending"}
       IN  /\ Sync(t[2], d)
           /\ Goto(t, IF SyncOk(t[2], d) THEN "handover" ELSE "idle")
    /\ StoreStep

\* store_remove_if_singleton_bundle.
RemoveIfSingleton(i) == IF Singleton(i) THEN Remove(i) ELSE UNCHANGED StoreVars

\* SimpleApplicationAgent::push: directly to the websocket, or into the queue
\* when nobody subscribed or the delivery channel is full or closed.
AgentPush(i) ==
    LET e == Bundle(i).dst
    IN  \/ /\ e \in subscribed
           /\ RemoveIfSingleton(i)
           /\ UNCHANGED queue
        \/ /\ queue' = [queue EXCEPT ![e] = Append(@, i)]
           /\ UNCHANGED StoreVars

\* local_delivery: the agent gets the bundle, if its endpoint is still there.
\* Then the end of dispatch.
DeliverHandover(t) ==
    /\ pc[t] = "handover"
    /\ IF Bundle(t[2]).dst \in registered
       THEN AgentPush(t[2]) /\ handed' = [handed EXCEPT ![t[2]] = @ + 1]
       ELSE UNCHANGED <<bundles, metadata, queue, handed>>
    /\ SpawnForward(t)
    /\ UNCHANGED <<nodes, sent, delAfter, forwarding, registered, subscribed,
                   jpc, todo, expired>>

------------------------------------------------------------------------------
\* delete() and inspect_status_report(), called from ingress and from forward.

\* delete: nothing for a bundle that is gone, else the deletion report.
Delete(t) ==
    /\ pc[t] = "delete"
    /\ ReportIf(HasItem(t[2]) /\ Requested(t[2], "deleted"), t[2], "deleted")
    /\ Goto(t, IF HasItem(t[2]) THEN "delete_sync" ELSE Bail(t))
    /\ StoreStep

\* delete: a pack that holds LocalEndpoint keeps it, and its bundle, stored.
DeleteSync(t) ==
    /\ pc[t] = "delete_sync"
    /\ Sync(t[2], ClearConstraints(bp[t]))
    /\ Goto(t, Bail(t))
    /\ StoreStep

\* What follows is_administrative_record_valid in local_delivery and forward.
AfterInspect(t) == IF t[1] = "ingress" THEN "mark" ELSE "contraindicate"

\* inspect_status_report: is the bundle the report is about stored here?
Inspect(t) ==
    /\ pc[t] = "inspect"
    /\ Goto(t, IF HasItem(Bundle(t[2]).ref) THEN "inspect_remove" ELSE AfterInspect(t))
    /\ LocalStep
    /\ UNCHANGED <<bp, nodes, sent, delAfter>>

\* inspect_status_report: the loop over the four status items reaches the
\* delivered item of every well-formed report, and does not look whether that
\* item is asserted.
InspectRemove(t) ==
    /\ pc[t] = "inspect_remove"
    /\ Remove(Bundle(t[2]).ref)
    /\ Goto(t, AfterInspect(t))
    /\ StoreStep

------------------------------------------------------------------------------
\* forward(), spawned by dispatch or called by the janitor.

\* ForwardingGuard::acquire; a bundle already being forwarded is left alone.
Acquire(t) ==
    /\ pc[t] = "acquire"
    /\ IF t[2] \in forwarding
       THEN Goto(t, "idle") /\ UNCHANGED forwarding
       ELSE Goto(t, "pending") /\ forwarding' = forwarding \cup {t[2]}
    /\ UNCHANGED <<bundles, metadata, bp, nodes, sent, delAfter, registered, subscribed,
                   queue, jpc, todo, expired, handed>>

\* ForwardPending instead of DispatchPending, sync.
ForwardPending(t) ==
    /\ pc[t] = "pending"
    /\ LET c == (bp[t] \cup {"ForwardPending"}) \ {"DispatchPending"}
       IN  /\ Sync(t[2], c)
           /\ bp' = [bp EXCEPT ![t] = c]
           /\ Goto(t, IF SyncOk(t[2], c) THEN "route" ELSE "release")
    /\ UNCHANGED <<nodes, sent, delAfter, forwarding, registered, subscribed, queue,
                   jpc, todo, expired, handed>>

\* routing_sender_for_bundle, with any answer: next hops and delete_afterwards.
Route(t) ==
    /\ pc[t] = "route"
    /\ \E n \in SUBSET Peers, d \in BOOLEAN :
          /\ nodes' = [nodes EXCEPT ![t] = n]
          /\ delAfter' = [delAfter EXCEPT ![t] = d]
          /\ Goto(t, IF n # {} THEN "fetch" ELSE IF d THEN "drop" ELSE "release")
    /\ LocalStep
    /\ UNCHANGED <<bp, sent>>

\* routing_sender_for_bundle fails when the routing agent is gone.
RouteError(t) ==
    /\ pc[t] = "route"
    /\ Goto(t, "release")
    /\ LocalStep
    /\ UNCHANGED <<bp, nodes, sent, delAfter>>

\* The checks of forward() on its copy of the bundle.  The age of a bundle with
\* an age block is a matter of the clock: any verdict is possible.
LifetimeExceeded(i) == i \in expired
HopCountExceeded(i) == Bundle(i).hops
AgeVerdicts(i)      == IF Bundle(i).age THEN BOOLEAN ELSE {FALSE}

\* Lifetime, hop count and age delete with a fresh pack, made from the bundle
\* and without constraints; the security policy with the task's own pack.
Fetch(t) ==
    LET i == t[2]
    IN  /\ pc[t] = "fetch"
        /\ \E aged \in AgeVerdicts(i) :
              LET dead == LifetimeExceeded(i) \/ HopCountExceeded(i) \/ aged
              IN  /\ Goto(t, IF ~HasItem(i) THEN "release"
                             ELSE IF dead \/ "Forward" \in Bundle(i).drop THEN "delete"
                             ELSE "transfer")
                  /\ bp' = IF HasItem(i) /\ dead THEN [bp EXCEPT ![t] = {}] ELSE bp
        /\ LocalStep
        /\ UNCHANGED <<nodes, sent, delAfter>>

\* One transfer ends, in any order with the others.
TransferDone(t, n, ok) ==
    /\ pc[t] = "transfer"
    /\ n \in nodes[t]
    /\ nodes' = [nodes EXCEPT ![t] = @ \ {n}]
    /\ sent' = [sent EXCEPT ![t] = @ \/ ok]
    /\ LocalStep
    /\ UNCHANGED <<pc, bp, delAfter>>

\* MISTAKE: the bundle is removed although every transfer failed.
JoinedCareless(t) ==
    /\ pc[t] = "transfer"
    /\ nodes[t] = {}
    /\ Goto(t, IF delAfter[t] THEN "remove" ELSE "release")
    /\ UNCHANGED StoreVars
    /\ StoreStep

\* MISTAKE: the task waits for a success that may never come.
JoinedPatient(t) ==
    /\ pc[t] = "transfer"
    /\ nodes[t] = {} /\ sent[t]
    /\ Goto(t, IF delAfter[t] THEN "remove" ELSE "release")
    /\ UNCHANGED StoreVars
    /\ StoreStep

\* join_all returned.  After a success: forwarding report, then the bundle is
\* removed, or an administrative record inspected; after a failure nothing.
Joined(t) ==
    /\ pc[t] = "transfer"
    /\ nodes[t] = {}
    /\ ReportIf(sent[t] /\ Requested(t[2], "forwarded"), t[2], "forwarded")
    /\ Goto(t, IF ~sent[t] THEN "release"
               ELSE IF delAfter[t] THEN "remove"
               ELSE IF Bundle(t[2]).admin = "report" THEN "inspect"
               ELSE IF Bundle(t[2]).admin = "invalid" THEN "contraindicate"
               ELSE "release")
    /\ StoreStep

\* store_remove on behalf of the routing agent, instead of or after sending.
ForwardRemove(t) ==
    /\ pc[t] \in {"drop", "remove"}
    /\ Remove(t[2])
    /\ Goto(t, "release")
    /\ StoreStep

Contraindicate(t) ==
    /\ pc[t] = "contraindicate"
    /\ Sync(t[2], bp[t] \cup {"Contraindicated"})
    /\ Goto(t, "release")
    /\ StoreStep

\* The guard is dropped when forward returns, on every path.
Release(t) ==
    /\ pc[t] = "release"
    /\ forwarding' = forwarding \ {t[2]}
    /\ Goto(t, "idle")
    /\ bp' = [bp EXCEPT ![t] = {}]
    /\ nodes' = [nodes EXCEPT ![t] = {}]
    /\ sent' = [sent EXCEPT ![t] = FALSE]
    /\ delAfter' = [delAfter EXCEPT ![t] = FALSE]
    /\ UNCHANGED <<bundles, metadata, registered, subscribed, queue, jpc, todo, expired,
                   handed>>

------------------------------------------------------------------------------
\* The janitor: process_bundles(), run by a timer that waits for the previous run.

JanitorTask(i) == <<"janitor", i>>

\* store_delete_expired: a snapshot of all metadata that is not marked Deleted.
JanitorStart ==
    /\ jpc = "idle"
    /\ jpc' = "expire"
    /\ todo' = {i \in DOMAIN metadata : "Deleted" \notin metadata[i]}
    /\ UNCHANGED <<bundles, metadata, pc, bp, nodes, sent, delAfter, forwarding,
                   registered, subscribed, queue, expired, handed>>

\* MISTAKE: expired bundles are left to the lifetime check of forward().
JanitorExpireNothing(i) ==
    /\ jpc = "expire"
    /\ i \in todo
    /\ todo' = todo \ {i}
    /\ UNCHANGED StoreVars
    /\ UNCHANGED <<pc, bp, nodes, sent, delAfter, forwarding, registered, subscribed,
                   queue, jpc, expired, handed>>

\* store_delete_expired: one entry of the snapshot.
JanitorExpire(i) ==
    /\ jpc = "expire"
    /\ i \in todo
    /\ todo' = todo \ {i}
    /\ IF i \in expired THEN Remove(i) ELSE UNCHANGED StoreVars
    /\ UNCHANGED <<pc, bp, nodes, sent, delAfter, forwarding, registered, subscribed,
                   queue, jpc, expired, handed>>

\* process_bundles: give up without an accepting CLA, else list what to forward.
JanitorCollect ==
    /\ jpc = "expire"
    /\ todo = {}
    /\ jpc' = IF ActiveCla THEN "read" ELSE "idle"
    /\ todo' = IF ActiveCla THEN Forwarding ELSE {}
    /\ UNCHANGED <<bundles, metadata, pc, bp, nodes, sent, delAfter, forwarding,
                   registered, subscribed, queue, expired, handed>>

\* process_bundles: read the metadata of one listed id, skip deleted ones.
JanitorRead(i) ==
    /\ jpc = "read"
    /\ i \in todo
    /\ todo' = todo \ {i}
    /\ IF "Deleted" \in metadata[i]
       THEN UNCHANGED <<pc, bp>>
       ELSE /\ Goto(JanitorTask(i), "queued")
            /\ bp' = [bp EXCEPT ![JanitorTask(i)] = metadata[i]]
    /\ UNCHANGED <<bundles, metadata, nodes, sent, delAfter, forwarding, registered,
                   subscribed, queue, jpc, expired, handed>>

JanitorReady ==
    /\ jpc = "read"
    /\ todo = {}
    /\ jpc' = "forward"
    /\ UNCHANGED <<bundles, metadata, pc, bp, nodes, sent, delAfter, forwarding,
                   registered, subscribed, queue, todo, expired, handed>>

\* process_bundles: forward the packs, all at once or one after the other.  The
\* order is by creation time, which is free here: any order may occur.
JanitorForward(i) ==
    /\ jpc = "forward"
    /\ pc[JanitorTask(i)] = "queued"
    /\ Parallel \/ \A j \in Ids : pc[JanitorTask(j)] \in {"idle", "queued"}
    /\ Goto(JanitorTask(i), "acquire")
    /\ LocalStep
    /\ UNCHANGED <<bp, nodes, sent, delAfter>>

\* process_bundles returns when every forward has.
JanitorDone ==
    /\ jpc = "forward"
    /\ \A i \in Ids : pc[JanitorTask(i)] = "idle"
    /\ jpc' = "idle"
    /\ UNCHANGED <<bundles, metadata, pc, bp, nodes, sent, delAfter, forwarding,
                   registered, subscribed, queue, todo, expired, handed>>

------------------------------------------------------------------------------
\* Applications, the operator and the clock.

\* register_application_agent: nothing for a registered endpoint, else an
\* agent with an empty queue.
Register(e) ==
    /\ e \notin registered
    /\ registered' = registered \cup {e}
    /\ queue' = [queue EXCEPT ![e] = <<>>]
    /\ UNCHANGED <<bundles, metadata, pc, bp, nodes, sent, delAfter, forwarding,
                   subscribed, jpc, todo, expired, handed>>

\* MISTAKE: the delivery address outlives its endpoint.
UnregisterKeepsAddr(e) ==
    /\ e \in registered
    /\ registered' = registered \ {e}
    /\ queue' = [queue EXCEPT ![e] = <<>>]
    /\ UNCHANGED <<bundles, metadata, pc, bp, nodes, sent, delAfter, forwarding,
                   subscribed, jpc, todo, expired, handed>>

\* unregister_application_agent: the agent goes with its queue.
Unregister(e) ==
    /\ e \in registered
    /\ registered' = registered \ {e}
    /\ subscribed' = subscribed \ {e}
    /\ queue' = [queue EXCEPT ![e] = <<>>]
    /\ UNCHANGED <<bundles, metadata, pc, bp, nodes, sent, delAfter, forwarding, jpc,
                   todo, expired, handed>>

\* set_delivery_addr and clear_delivery_addr, by a websocket session.
Subscribe(e) ==
    /\ e \in registered \ subscribed
    /\ subscribed' = subscribed \cup {e}
    /\ UNCHANGED <<bundles, metadata, pc, bp, nodes, sent, delAfter, forwarding,
                   registered, queue, jpc, todo, expired, handed>>

Unsubscribe(e) ==
    /\ e \in subscribed
    /\ subscribed' = subscribed \ {e}
    /\ UNCHANGED <<bundles, metadata, pc, bp, nodes, sent, delAfter, forwarding,
                   registered, queue, jpc, todo, expired, handed>>

\* SimpleApplicationAgent::pop, for /endpoint and for websocket fetches.
Pop(e) ==
    /\ e \in registered
    /\ queue[e] # <<>>
    /\ queue' = [queue EXCEPT ![e] = Tail(@)]
    /\ RemoveIfSingleton(Head(queue[e]))
    /\ UNCHANGED <<pc, bp, nodes, sent, delAfter, forwarding, registered, subscribed,
                   jpc, todo, expired, handed>>

\* The HTTP operation /delete.
HttpDelete(i) ==
    /\ IsKnown(i)
    /\ Remove(i)
    /\ UNCHANGED <<pc, bp, nodes, sent, delAfter, forwarding, registered, subscribed,
                   queue, jpc, todo, expired, handed>>

\* BundlePack::has_expired turns true, and stays true.
Expire(i) ==
    /\ i \notin expired
    /\ expired' = expired \cup {i}
    /\ UNCHANGED <<bundles, metadata, pc, bp, nodes, sent, delAfter, forwarding,
                   registered, subscribed, queue, jpc, todo, handed>>

------------------------------------------------------------------------------
IngressStep(t) ==
    \/ ReceiveSync(t) \/ ReceiveBlocks(t) \/ ReceivePush(t)
    \/ TransmitSync(t) \/ TransmitSource(t)
    \/ Dispatch(t) \/ DispatchEndpoint(t) \/ Deliver(t) \/ DeliverMark(t)
    \/ DeliverReport(t) \/ DeliverSettle(t) \/ DeliverHandover(t)

SharedStep(t) == Delete(t) \/ DeleteSync(t) \/ Inspect(t) \/ InspectRemove(t)

ForwardStep(t) ==
    \/ Acquire(t) \/ ForwardPending(t) \/ Route(t) \/ RouteError(t) \/ Fetch(t)
    \/ \E n \in Peers, ok \in BOOLEAN : TransferDone(t, n, ok)
    \/ Joined(t) \/ ForwardRemove(t) \/ Contraindicate(t) \/ Release(t)

TaskStep(t) == IngressStep(t) \/ SharedStep(t) \/ ForwardStep(t)

JanitorStep ==
    \/ JanitorStart \/ JanitorCollect \/ JanitorReady \/ JanitorDone
    \/ \E i \in Ids : JanitorExpire(i) \/ JanitorRead(i) \/ JanitorForward(i)

Environment ==
    \/ \E i \in Bundles : Receive(i) \/ SendBundle(i)
    \/ \E e \in Churn : \/ Register(e) \/ Unregister(e) \/ Subscribe(e)
                        \/ Unsubscribe(e)
    \/ \E e \in Eids : Pop(e)
    \/ \E i \in Managed : HttpDelete(i)
    \/ \E i \in Volatile : Expire(i)

Next == Environment \/ JanitorStep \/ \E t \in Task : TaskStep(t)

Spec == Init /\ [][Next]_vars

\* ClaSenderTask::transfer waits for the reply of the convergence layer.
Transferring(t) == pc[t] = "transfer" /\ nodes[t] # {}

\* tokio schedules every runnable task and the janitor's timer keeps firing: the
\* steps of each task, and those of the janitor, are weakly fair.  A transfer has no
\* timeout and may never end.  Applications, peers, operator and clock owe nothing.
FairSpec ==
    /\ Spec
    /\ WF_vars(JanitorStep)
    /\ \A t \in Task : WF_vars(TaskStep(t) /\ ~Transferring(t))

------------------------------------------------------------------------------
\* Properties.

\* The tasks that hold the forwarding guard of their bundle.
Holds(t) == t[1] \in ForwardKinds /\ pc[t] \notin {"idle", "queued", "acquire"}

\* No bundle is forwarded by two tasks at once, dispatch and the janitor
\* included, and a guard is held exactly as long as its task runs: no early
\* return or error path of forward() leaks it.
ForwardExclusive ==
    /\ forwarding = {t[2] : t \in {u \in Task : Holds(u)}}
    /\ \A t \in Task : Holds(t) => \A u \in Task : Holds(u) /\ t[2] = u[2] => t = u

\* A bundle whose metadata says Deleted is not in the store: no stale pack of a
\* task brings the mark back once the bundle is stored again.
DeletedMeansGone ==
    \A i \in DOMAIN metadata : "Deleted" \in metadata[i] => i \notin bundles

\* Every stored bundle has metadata, or no janitor run would ever see it again.
StoredIsKnown == bundles \subseteq DOMAIN metadata

\* A bundle is handed to its application agent at most once, whatever
\* duplicates arrive, and whoever removes it from the store meanwhile.  Only an
\* application that submits a bundle twice itself gets round the check.
AtMostOnceDelivery == \A i \in Ids \ Resubmitted : handed[i] <= 1

\* A bundle for an endpoint of this node that waits in an application agent's
\* queue keeps its LocalEndpoint constraint until the application fetches it,
\* unless an application submits the same bundle again.
QueuedLocalHeld ==
    \A e \in LocalEids : \A k \in DOMAIN queue[e] :
        queue[e][k] \notin Resubmitted => "LocalEndpoint" \in metadata[queue[e][k]]

\* Why delete() may be called on a bundle whose lifetime has not run out.
Refused(i) ==
    \/ Bundle(i).drop # {} \/ Bundle(i).hops \/ Bundle(i).age
    \/ "delete" \in Bundle(i).blocks
    \/ Bundle(i).admin = "invalid"
    \/ Bundle(i).src # NoEid /\ Bundle(i).src \notin RegisteredAtStart \ Churn

\* A bundle leaves the store only for a cause: its lifetime ran out, the
\* application got it, the routing agent gave it up, or wanted it deleted after
\* sending and some transfer succeeded, a check refused it, a status report about
\* it came, or the operator removed it.  In particular no sync() of a pack that
\* happens to have no constraint left does it silently, and no failed transfer.
LossOnlyForCause ==
    [][\A i \in bundles \ bundles' :
          \/ i \in expired
          \/ handed'[i] > 0
          \/ \E t \in Task : t[2] = i /\ pc[t] = "drop" /\ delAfter[t]
          \/ \E t \in Task : t[2] = i /\ pc[t] = "remove" /\ delAfter[t] /\ sent[t]
          \/ \E t \in Task : t[2] = i /\ pc[t] = "delete_sync" /\ Refused(i)
          \/ \E t \in Task : Bundle(t[2]).ref = i /\ pc[t] = "inspect_remove"
          \/ i \in Managed]_vars

\* receive() refuses the bundle, and so does transmit() from an application.
IngressRefuses(i) ==
    /\ "delete" \in Bundle(i).blocks \/ "Receive" \in Bundle(i).drop
    /\ Bundle(i).src \notin RegisteredAtStart \cup Churn \cup {NoEid}

\* A bundle that receive() has to refuse is gone once its task ends, and neither
\* the janitor nor an application ever gets hold of it meanwhile.
RefusedIsGone ==
    \A i \in Bundles : IngressRefuses(i) /\ IsKnown(i) =>
        /\ pc[Ingress(i)] = "idle" => i \notin bundles
        /\ handed[i] = 0
        /\ \A t \in Task : t[2] = i => pc[t] # "transfer"

\* The convergence layers answer every transfer of the task in the end.
TransfersEnd(t) == []<>~Transferring(t)

\* A forwarding guard is released on every path of forward() if the transfers of its
\* bundle end, even if those of other bundles hang: a guard that is kept would keep
\* its bundle from being forwarded ever again.
GuardReleased ==
    \A i \in Ids :
        (\A t \in Task : t[2] = i => TransfersEnd(t)) => (i \in forwarding ~> i \notin forwarding)

\* Those that the janitor itself waits for.
JanitorTransfersEnd == \A i \in Ids : TransfersEnd(JanitorTask(i))

\* A janitor run ends, so there is a next one, if its own transfers do: forwards that
\* dispatch started and that hang do not hold it up, though they keep their guards.
JanitorReturns == JanitorTransfersEnd => []<>(jpc = "idle")

\* A bundle whose lifetime has run out leaves the store and stays away, if the
\* janitor's transfers end.
ExpiredGoes == JanitorTransfersEnd => \A i \in Ids : <>[](i \in expired => i \notin bundles)

\* "retry next janitor run": a stored bundle that waits for forwarding is put
\* before the routing agent again, whatever failed before, if the janitor's
\* transfers end.
Retried ==
    JanitorTransfersEnd => \A i \in Ids :
        i \in bundles /\ "ForwardPending" \in metadata[i] /\ i \notin forwarding
          ~> \/ i \notin bundles
             \/ "ForwardPending" \notin metadata[i]
             \/ \E t \in Task : t[2] = i /\ pc[t] = "route"

------------------------------------------------------------------------------
\* What comments of the source say and the code does not keep.

\* processing.rs: the removal of a bundle is logged as "Status Report indicated
\* bundle delivery", but happens for reports of any other status too.
ReportedMeansDelivered ==
    [][\A t \in Task :
          /\ pc[t] = "inspect_remove" /\ pc'[t] # "inspect_remove"
          /\ Bundle(t[2]).ref \in bundles
          => Bundle(t[2]).status = "delivered"]_vars
==============================================================================
