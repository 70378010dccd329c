-------------------------- MODULE ProcessingProofs --------------------------
(***************************************************************************)
(* Proofs about Processing, for every set of bundles, peers and endpoints, *)
(* every assignment of attributes and every configuration.                 *)
(***************************************************************************)
EXTENDS Processing, SequenceTheorems, TLAPS

------------------------------------------------------------------------------
\* Facts about the constants.

\* A task is its kind and a bundle id.
LEMMA TaskFacts ==
    ASSUME NEW t \in Task
    PROVE  /\ t[1] \in Kinds
           /\ t[2] \in Ids
           /\ t = <<t[1], t[2]>>
BY DEF Task

\* Every id has attributes, and only bundles that are no administrative records
\* get status reports: a report about a report is never made.
LEMMA BundleFacts ==
    ASSUME NEW i \in Ids
    PROVE  /\ Bundle(i).dst \in Eids
           /\ Bundle(i).ref \in Ids
           /\ Bundle(i).admin \in {"no", "invalid", "report"}
           /\ Bundle(i).admin = "no" => i \in Bundles
<1>1. CASE i \in Bundles
    <2>1. Info[i] \in InfoType
        BY <1>1, ProcessingAssumption
    <2>2. QED
        BY <1>1, <2>1 DEF Bundle, InfoType
<1>2. CASE i \notin Bundles
    <2>1. i[1] \in Bundles
        BY <1>2, ProcessingAssumption
    <2>2. Info[i[1]] \in InfoType
        BY <2>1, ProcessingAssumption
    <2>3. QED
        BY <1>2, <2>1, <2>2, ProcessingAssumption DEF Bundle, InfoType
<1>3. QED
    BY <1>1, <1>2

------------------------------------------------------------------------------
\* What the store operations preserve.

\* The store part of the invariant: types, and stored bundles have metadata.
StoreInv == StoreTypeOK /\ StoredIsKnown

\* No operation ever forgets an id.
Grows == DOMAIN metadata \subseteq DOMAIN metadata'

\* A push keeps the store consistent and makes the id known.
LEMMA PushStore ==
    ASSUME StoreInv, NEW i \in Ids, Push(i)
    PROVE  StoreInv' /\ Grows /\ i \in DOMAIN metadata'
BY DEF StoreInv, StoreTypeOK, StoredIsKnown, Grows, Push, HasItem, Put

\* So does an update of the metadata.
LEMMA UpdateStore ==
    ASSUME StoreInv, NEW i \in Ids, NEW c \in SUBSET Constraint, UpdateMetadata(i, c)
    PROVE  StoreInv' /\ Grows
BY DEF StoreInv, StoreTypeOK, StoredIsKnown, Grows, UpdateMetadata, IsKnown, Put

\* A removal leaves the metadata as a tombstone.
LEMMA RemoveStore ==
    ASSUME StoreInv, NEW i \in Ids, Remove(i)
    PROVE  StoreInv' /\ Grows
<1>1. \A c \in SUBSET Constraint : ClearConstraints(c) \cup {"Deleted"} \in SUBSET Constraint
    BY DEF ClearConstraints, Constraint
<1>2. IsKnown(i) => metadata[i] \in SUBSET Constraint
    BY DEF StoreInv, StoreTypeOK, IsKnown
<1>3. QED
    BY <1>1, <1>2 DEF StoreInv, StoreTypeOK, StoredIsKnown, Grows, Remove, IsKnown, Put

\* A sync is one or the other.
LEMMA SyncStore ==
    ASSUME StoreInv, NEW i \in Ids, NEW c \in SUBSET Constraint, Sync(i, c)
    PROVE  StoreInv' /\ Grows
BY UpdateStore, RemoveStore DEF Sync

\* A status report is a new, known, stored bundle.
LEMMA ReportStore ==
    ASSUME StoreInv, NEW i \in Ids, NEW s \in Status, NEW r \in BOOLEAN, ReportIf(r, i, s)
    PROVE  StoreInv' /\ Grows
<1>1. CASE r /\ Bundle(i).admin = "no"
    <2>1. ReportId(i, s) \in Ids
        BY <1>1, BundleFacts, ProcessingAssumption DEF ReportId
    <2>2. {"ForwardPending"} \in SUBSET Constraint
        BY DEF Constraint
    <2>3. QED
        BY <1>1, <2>1, <2>2
        DEF StoreInv, StoreTypeOK, StoredIsKnown, Grows, ReportIf, SendStatusReport, Put
<1>2. CASE ~(r /\ Bundle(i).admin = "no")
    BY <1>2 DEF StoreInv, StoreTypeOK, StoredIsKnown, Grows, ReportIf, StoreVars
<1>3. QED
    BY <1>1, <1>2

------------------------------------------------------------------------------
\* Types.  The tasks' variables and the store are treated apart.

\* The janitor reads metadata of ids it listed before: they are still known.
TodoKnown == todo \subseteq DOMAIN metadata

TypeInv == TypeOK /\ StoredIsKnown /\ TodoKnown

\* The types of the variables that are not the store's.
RestTypeOK ==
    /\ pc \in [Task -> Labels]
    /\ bp \in [Task -> SUBSET Constraint]
    /\ nodes \in [Task -> SUBSET Peers]
    /\ sent \in [Task -> BOOLEAN]
    /\ delAfter \in [Task -> BOOLEAN]
    /\ forwarding \subseteq Ids
    /\ registered \subseteq Eids
    /\ subscribed \subseteq registered
    /\ queue \in [Eids -> Seq(Ids)]
    /\ jpc \in {"idle", "expire", "read", "forward"}
    /\ todo \subseteq Ids
    /\ expired \subseteq Ids
    /\ handed \in [Ids -> Nat]

\* TypeInv is its three parts.
LEMMA TypeParts == TypeInv <=> StoreInv /\ RestTypeOK /\ TodoKnown
BY DEF TypeInv, TypeOK, StoreInv, RestTypeOK

\* Every step of a task, whatever its kind, keeps the store consistent.
LEMMA TaskStore ==
    ASSUME TypeInv, NEW t \in Task, TaskStep(t)
    PROVE  StoreInv' /\ Grows
<1> USE TypeParts, TaskFacts
<1>s. StoreInv /\ t[2] \in Ids /\ Bundle(t[2]).ref \in Ids
    BY BundleFacts
<1>b. bp[t] \in SUBSET Constraint
    BY DEF RestTypeOK
<1>u. UNCHANGED StoreVars => StoreInv' /\ Grows
    BY <1>s DEF StoreInv, StoreTypeOK, StoredIsKnown, Grows, StoreVars
<1>c. /\ {"DispatchPending"} \in SUBSET Constraint
      /\ bp[t] \cup {"LocalEndpoint"} \in SUBSET Constraint
      /\ bp[t] \cup {"Contraindicated"} \in SUBSET Constraint
      /\ (bp[t] \cup {"ForwardPending"}) \ {"DispatchPending"} \in SUBSET Constraint
      /\ ClearConstraints(bp[t]) \in SUBSET Constraint
      /\ ClearConstraints(bp[t] \cup {"LocalEndpoint"}) \in SUBSET Constraint
      /\ bp[t] \cup {"LocalEndpoint"} \cup {"ForwardPending"} \in SUBSET Constraint
    BY <1>b DEF Constraint, ClearConstraints
<1>1. CASE ReceiveSync(t) \/ TransmitSync(t)
    BY <1>1, <1>s, <1>c, SyncStore DEF ReceiveSync, TransmitSync
<1>2. CASE ReceiveBlocks(t)
    <2>1. (Requested(t[2], "received") \/ "report" \in Bundle(t[2]).blocks) \in BOOLEAN
        BY DEF Requested
    <2>2. QED
        BY <1>2, <1>s, <2>1, ReportStore DEF ReceiveBlocks, Status
<1>3. CASE ReceivePush(t)
    BY <1>3, <1>s, PushStore DEF ReceivePush
<1>4. CASE DeliverMark(t)
    BY <1>4, <1>s, <1>c, SyncStore DEF DeliverMark
<1>5. CASE DeliverReport(t)
    <2>1. Requested(t[2], "delivered") \in BOOLEAN
        BY DEF Requested
    <2>2. QED
        BY <1>5, <1>s, <2>1, ReportStore DEF DeliverReport, Status
<1>6. CASE DeliverSettle(t)
    BY <1>6, <1>s, <1>c, SyncStore DEF DeliverSettle
<1>7. CASE DeliverHandover(t)
    BY <1>7, <1>s, <1>u, RemoveStore DEF DeliverHandover, AgentPush, RemoveIfSingleton,
                                StoreVars
<1>8. CASE Delete(t)
    <2>1. (HasItem(t[2]) /\ Requested(t[2], "deleted")) \in BOOLEAN
        OBVIOUS
    <2>2. QED
        BY <1>8, <1>s, <2>1, ReportStore DEF Delete, Status
<1>9. CASE DeleteSync(t)
    BY <1>9, <1>s, <1>c, SyncStore DEF DeleteSync
<1>10. CASE InspectRemove(t)
    BY <1>10, <1>s, RemoveStore DEF InspectRemove
<1>11. CASE ForwardPending(t)
    BY <1>11, <1>s, <1>c, SyncStore DEF ForwardPending
<1>12. CASE Joined(t)
    <2>1. (sent[t] /\ Requested(t[2], "forwarded")) \in BOOLEAN
        OBVIOUS
    <2>2. QED
        BY <1>12, <1>s, <2>1, ReportStore DEF Joined, Status
<1>13. CASE ForwardRemove(t)
    BY <1>13, <1>s, RemoveStore DEF ForwardRemove
<1>14. CASE Contraindicate(t)
    BY <1>14, <1>s, <1>c, SyncStore DEF Contraindicate
<1>15. CASE TransmitSource(t) \/ Dispatch(t) \/ DispatchEndpoint(t) \/ Deliver(t) \/ Inspect(t)
    BY <1>15, <1>u DEF TransmitSource, Dispatch, DispatchEndpoint, Deliver, Inspect,
                       LocalStep, StoreVars
<1>16. CASE Acquire(t) \/ Route(t) \/ RouteError(t) \/ Fetch(t) \/ Release(t)
    BY <1>16, <1>u DEF Acquire, Route, RouteError, Fetch, Release, LocalStep, StoreVars
<1>17. CASE \E n \in Peers, ok \in BOOLEAN : TransferDone(t, n, ok)
    BY <1>17, <1>u DEF TransferDone, LocalStep, StoreVars
<1>18. QED
    BY <1>1, <1>2, <1>3, <1>4, <1>5, <1>6, <1>7, <1>8, <1>9, <1>10, <1>11, <1>12, <1>13,
       <1>14, <1>15, <1>16, <1>17
    DEF TaskStep, IngressStep, SharedStep, ForwardStep

\* Every step of a task keeps the types of the other variables.
LEMMA TaskTypes ==
    ASSUME RestTypeOK, NEW t \in Task, TaskStep(t)
    PROVE  RestTypeOK'
<1> USE TaskFacts DEF RestTypeOK, Goto
<1>e. Bundle(t[2]).dst \in Eids
    BY BundleFacts
<1>b. t[1] \in Kinds /\ Bail(t) \in Labels /\ AfterInspect(t) \in Labels
    BY DEF Bail, AfterInspect, Labels, ForwardLabels, DeliverLabels
<1>c. {"DispatchPending"} \in SUBSET Constraint
    BY DEF Constraint
<1>1. CASE ReceiveSync(t) \/ TransmitSync(t)
    <2>1. pc' \in [Task -> Labels]
        BY <1>1 DEF ReceiveSync, TransmitSync, Goto, Labels, ReceiveLabels
    <2>2. bp' \in [Task -> SUBSET Constraint]
        BY <1>1, <1>c DEF ReceiveSync, TransmitSync
    <2>3. QED
        BY <1>1, <2>1, <2>2 DEF ReceiveSync, TransmitSync
<1>2. CASE \/ ReceiveBlocks(t) \/ ReceivePush(t) \/ DeliverMark(t) \/ DeliverReport(t)
           \/ DeliverSettle(t)
    BY <1>2 DEF ReceiveBlocks, ReceivePush, DeliverMark, DeliverReport, DeliverSettle,
                StoreStep, Labels, ReceiveLabels, DeliverLabels, SharedLabels
<1>3. CASE TransmitSource(t) \/ Dispatch(t) \/ Deliver(t)
    BY <1>3 DEF TransmitSource, Dispatch, Deliver, LocalStep, Labels, DeliverLabels,
                SharedLabels
<1>f. ASSUME SpawnForward(t)
      PROVE  pc' \in [Task -> Labels] /\ bp' \in [Task -> SUBSET Constraint]
    <2>1. <<"dispatched", t[2]>> \in Task
        BY DEF Task, Kinds, ForwardKinds
    <2>2. pc' \in [Task -> Labels]
        BY <1>f, <2>1 DEF SpawnForward, Goto, Labels
    <2>3. bp' \in [Task -> SUBSET Constraint]
        BY <1>f, <2>1 DEF SpawnForward
    <2>4. QED
        BY <2>2, <2>3
<1>4. CASE DispatchEndpoint(t)
    BY <1>4, <1>f DEF DispatchEndpoint, LocalStep, Labels, DeliverLabels
<1>5. CASE DeliverHandover(t)
    <2>1. handed' \in [Ids -> Nat]
        <3>1. handed' = handed \/ handed' = [handed EXCEPT ![t[2]] = @ + 1]
            BY <1>5 DEF DeliverHandover
        <3>2. handed[t[2]] + 1 \in Nat
            OBVIOUS
        <3>3. QED
            BY <3>1, <3>2
    <2>2. queue' \in [Eids -> Seq(Ids)]
        <3>1. \A e \in Eids : Append(queue[e], t[2]) \in Seq(Ids)
            BY AppendProperties
        <3>2. QED
            BY <1>5, <1>e, <3>1 DEF DeliverHandover, AgentPush
    <2>3. QED
        BY <1>5, <1>f, <2>1, <2>2 DEF DeliverHandover
<1>6. CASE SharedStep(t)
    BY <1>6, <1>b DEF SharedStep, Delete, DeleteSync, Inspect, InspectRemove, StoreStep,
                      LocalStep, Labels, SharedLabels
<1>7. CASE Acquire(t)
    <2>1. pc' \in [Task -> Labels]
        BY <1>7 DEF Acquire, Labels, ForwardLabels
    <2>2. forwarding' \subseteq Ids
        BY <1>7 DEF Acquire
    <2>3. QED
        BY <1>7, <2>1, <2>2 DEF Acquire
<1>q. CASE RouteError(t)
    BY <1>q DEF RouteError, LocalStep, Labels, ForwardLabels
<1>r. CASE Route(t)
    <2>1. PICK n \in SUBSET Peers, d \in BOOLEAN :
             /\ nodes' = [nodes EXCEPT ![t] = n]
             /\ delAfter' = [delAfter EXCEPT ![t] = d]
             /\ Goto(t, IF n # {} THEN "fetch" ELSE IF d THEN "drop" ELSE "release")
        BY <1>r DEF Route
    <2>2. nodes' \in [Task -> SUBSET Peers] /\ delAfter' \in [Task -> BOOLEAN]
        BY <2>1
    <2>3. pc' \in [Task -> Labels]
        BY <2>1 DEF Labels, ForwardLabels
    <2>4. QED
        BY <1>r, <2>2, <2>3 DEF Route, LocalStep
<1>8. CASE ForwardPending(t)
    BY <1>8 DEF ForwardPending, Labels, ForwardLabels, Constraint
<1>9. CASE Fetch(t)
    BY <1>9 DEF Fetch, LocalStep, Labels, ForwardLabels, SharedLabels
<1>10. CASE \E n \in Peers, ok \in BOOLEAN : TransferDone(t, n, ok)
    BY <1>10 DEF TransferDone, LocalStep
<1>11. CASE Joined(t) \/ ForwardRemove(t) \/ Contraindicate(t)
    BY <1>11 DEF Joined, ForwardRemove, Contraindicate, StoreStep, Labels, ForwardLabels,
                 SharedLabels
<1>12. CASE Release(t)
    BY <1>12 DEF Release, Labels
<1>13. QED
    BY <1>1, <1>2, <1>3, <1>4, <1>5, <1>6, <1>7, <1>q, <1>r, <1>8, <1>9, <1>10, <1>11,
       <1>12
    DEF TaskStep, IngressStep, ForwardStep

\* The steps of the janitor and of the environment keep the store consistent.
LEMMA OtherStore ==
    ASSUME TypeInv, JanitorStep \/ Environment
    PROVE  StoreInv' /\ Grows
<1> USE TypeParts
<1>s. StoreInv
    OBVIOUS
<1>u. UNCHANGED StoreVars => StoreInv' /\ Grows
    BY <1>s DEF StoreInv, StoreTypeOK, StoredIsKnown, Grows, StoreVars
<1>1. CASE JanitorStart \/ JanitorCollect \/ JanitorReady \/ JanitorDone
    BY <1>1, <1>u DEF JanitorStart, JanitorCollect, JanitorReady, JanitorDone, StoreVars
<1>2. CASE \E i \in Ids : JanitorExpire(i)
    BY <1>2, <1>s, <1>u, RemoveStore DEF JanitorExpire
<1>3. CASE \E i \in Ids : JanitorRead(i) \/ JanitorForward(i)
    BY <1>3, <1>u DEF JanitorRead, JanitorForward, LocalStep, StoreVars
<1>4. CASE \E i \in Bundles : Receive(i) \/ SendBundle(i)
    BY <1>4, <1>s, PushStore, ProcessingAssumption DEF Receive, SendBundle
<1>5. CASE \E e \in Churn : Register(e) \/ Unregister(e) \/ Subscribe(e) \/ Unsubscribe(e)
    BY <1>5, <1>u DEF Register, Unregister, Subscribe, Unsubscribe, StoreVars
<1>6. CASE \E e \in Eids : Pop(e)
    <2>1. PICK e \in Eids : Pop(e)
        BY <1>6
    <2>2. Head(queue[e]) \in Ids
        BY <2>1, HeadTailProperties DEF Pop, RestTypeOK
    <2>3. QED
        BY <2>1, <2>2, <1>s, <1>u, RemoveStore DEF Pop, RemoveIfSingleton
<1>7. CASE \E i \in Managed : HttpDelete(i)
    BY <1>7, <1>s, RemoveStore, ProcessingAssumption DEF HttpDelete
<1>8. CASE \E i \in Volatile : Expire(i)
    BY <1>8, <1>u DEF Expire, StoreVars
<1>9. QED
    BY <1>1, <1>2, <1>3, <1>4, <1>5, <1>6, <1>7, <1>8 DEF JanitorStep, Environment

\* And the types of the other variables.
LEMMA OtherTypes ==
    ASSUME TypeInv, JanitorStep \/ Environment
    PROVE  RestTypeOK' /\ todo' \subseteq DOMAIN metadata
<1> USE TypeParts DEF RestTypeOK, TodoKnown
<1>j. \A i \in Ids : JanitorTask(i) \in Task /\ Ingress(i) \in Task
    BY DEF JanitorTask, Ingress, Task, Kinds, ForwardKinds
<1>k. DOMAIN metadata \subseteq Ids /\ metadata \in [DOMAIN metadata -> SUBSET Constraint]
    BY DEF StoreInv, StoreTypeOK
<1>1. CASE JanitorStart \/ JanitorCollect \/ JanitorReady \/ JanitorDone
    BY <1>1, <1>k DEF JanitorStart, JanitorCollect, JanitorReady, JanitorDone, Forwarding,
                      Filter
<1>2. CASE \E i \in Ids : JanitorExpire(i)
    BY <1>2 DEF JanitorExpire
<1>3. CASE \E i \in Ids : JanitorForward(i)
    BY <1>3, <1>j DEF JanitorForward, LocalStep, Goto, Labels
<1>r. CASE \E i \in Ids : JanitorRead(i)
    <2>1. PICK i \in Ids : JanitorRead(i)
        BY <1>r
    <2>2. JanitorTask(i) \in Task /\ metadata[i] \in SUBSET Constraint
        BY <1>j, <1>k, <2>1 DEF JanitorRead
    <2>3. QED
        BY <2>1, <2>2 DEF JanitorRead, Goto, Labels
<1>4. CASE \E i \in Bundles : Receive(i) \/ SendBundle(i)
    <2>1. PICK i \in Bundles : Receive(i) \/ SendBundle(i)
        BY <1>4
    <2>2. <<"ingress", i>> \in Task
        BY <1>j, ProcessingAssumption DEF Task, Kinds
    <2>3. pc' \in [Task -> Labels]
        BY <2>1, <2>2 DEF Receive, SendBundle, Ingress, Goto, Labels, ReceiveLabels
    <2>4. QED
        BY <2>1, <2>3 DEF Receive, SendBundle, StoreStep
<1>5. CASE \E e \in Churn : Register(e) \/ Unregister(e) \/ Subscribe(e) \/ Unsubscribe(e)
    <2>1. Churn \subseteq Eids /\ <<>> \in Seq(Ids)
        BY ProcessingAssumption
    <2>2. PICK e \in Churn : Register(e) \/ Unregister(e) \/ Subscribe(e) \/ Unsubscribe(e)
        BY <1>5
    <2>3. queue' \in [Eids -> Seq(Ids)]
        BY <2>1, <2>2 DEF Register, Unregister, Subscribe, Unsubscribe
    <2>4. registered' \subseteq Eids /\ subscribed' \subseteq registered'
        BY <2>1, <2>2 DEF Register, Unregister, Subscribe, Unsubscribe
    <2>5. QED
        BY <2>2, <2>3, <2>4 DEF Register, Unregister, Subscribe, Unsubscribe
<1>6. CASE \E e \in Eids : Pop(e)
    <2>1. PICK e \in Eids : Pop(e)
        BY <1>6
    <2>2. Tail(queue[e]) \in Seq(Ids)
        BY <2>1, HeadTailProperties DEF Pop
    <2>3. QED
        BY <2>1, <2>2 DEF Pop
<1>7. CASE \E i \in Managed : HttpDelete(i)
    BY <1>7 DEF HttpDelete
<1>8. CASE \E i \in Volatile : Expire(i)
    BY <1>8, ProcessingAssumption DEF Expire
<1>9. QED
    BY <1>1, <1>2, <1>3, <1>r, <1>4, <1>5, <1>6, <1>7, <1>8 DEF JanitorStep, Environment

\* The types, consistency of the store and the janitor's list are inductive.
LEMMA TypeStep ==
    ASSUME TypeInv, [Next]_vars
    PROVE  TypeInv' /\ Grows
<1>1. CASE \E t \in Task : TaskStep(t)
    <2>1. PICK t \in Task : TaskStep(t)
        BY <1>1
    <2>2. StoreInv' /\ Grows /\ RestTypeOK'
        BY <2>1, TaskStore, TaskTypes, TypeParts
    <2>3. todo' = todo
        BY <2>1 DEF TaskStep, IngressStep, SharedStep, ForwardStep, ReceiveSync,
           ReceiveBlocks, ReceivePush, TransmitSync, TransmitSource, Dispatch,
           DispatchEndpoint, Deliver, DeliverMark, DeliverReport, DeliverSettle,
           DeliverHandover, Delete, DeleteSync, Inspect, InspectRemove, Acquire,
           ForwardPending, Route, RouteError, Fetch, TransferDone, Joined, ForwardRemove,
           Contraindicate, Release, StoreStep, LocalStep
    <2>4. QED
        BY <2>2, <2>3, TypeParts DEF TodoKnown, Grows, TypeInv, TypeOK, StoreInv, RestTypeOK
<1>2. CASE JanitorStep \/ Environment
    <2>1. StoreInv' /\ Grows /\ RestTypeOK' /\ TodoKnown'
        BY <1>2, OtherStore, OtherTypes DEF TodoKnown, Grows
    <2>2. QED
        BY <2>1 DEF TypeInv, TypeOK, StoreInv, RestTypeOK
<1>3. CASE UNCHANGED vars
    BY <1>3 DEF TypeInv, TypeOK, StoreTypeOK, StoredIsKnown, TodoKnown, Grows, vars
<1>4. QED
    BY <1>1, <1>2, <1>3 DEF Next

\* The initial state has the types.
LEMMA TypeInit ==
    ASSUME Init
    PROVE  TypeInv
<1>1. StoreInv /\ TodoKnown
    BY DEF Init, StoreInit, StoreInv, StoreTypeOK, StoredIsKnown, TodoKnown
<1>2. RestTypeOK
    BY ProcessingAssumption DEF Init, RestTypeOK, Labels
<1>3. QED
    BY <1>1, <1>2, TypeParts

\* Type correctness of the processing pipeline, with a store in which every
\* stored bundle has metadata, in every reachable state.
THEOREM TypeCorrect == Spec => [](TypeOK /\ StoredIsKnown)
<1>1. Init => TypeInv
    BY TypeInit
<1>2. TypeInv /\ [Next]_vars => TypeInv'
    BY TypeStep
<1>3. TypeInv => TypeOK /\ StoredIsKnown
    BY DEF TypeInv
<1>4. QED
    BY <1>1, <1>2, <1>3, PTL DEF Spec

------------------------------------------------------------------------------
\* Control.  Which labels a task can be at depends on its kind.

IngressLabels == {"idle"} \cup ReceiveLabels \cup DeliverLabels \cup SharedLabels
HolderLabels  == ForwardLabels \cup SharedLabels
IdleLabels    == {"idle", "queued", "acquire"}

LabelInv ==
    \A t \in Task :
        /\ t[1] = "ingress" => pc[t] \in IngressLabels
        /\ t[1] \in ForwardKinds => pc[t] \in IdleLabels \cup HolderLabels

\* A step of a task is one of six moves of its program counter and the guard.
Move(t) ==
    \/ /\ t[1] = "ingress" /\ pc[t] # "idle" /\ forwarding' = forwarding
       /\ \E l \in IngressLabels : pc' = [pc EXCEPT ![t] = l]
    \/ /\ t[1] = "ingress" /\ pc[t] # "idle" /\ forwarding' = forwarding
       /\ pc' = [pc EXCEPT ![t] = "idle", ![<<"dispatched", t[2]>>] = "acquire"]
    \/ /\ t[1] \in ForwardKinds /\ pc[t] \in HolderLabels /\ forwarding' = forwarding
       /\ \E l \in HolderLabels : pc' = [pc EXCEPT ![t] = l]
    \/ /\ t[1] \in ForwardKinds /\ pc[t] = "acquire" /\ forwarding' = forwarding
       /\ pc' = [pc EXCEPT ![t] = "idle"]
    \/ /\ t[1] \in ForwardKinds /\ pc[t] = "acquire" /\ t[2] \notin forwarding
       /\ forwarding' = forwarding \cup {t[2]}
       /\ pc' = [pc EXCEPT ![t] = "pending"]
    \/ /\ t[1] \in ForwardKinds /\ pc[t] = "release"
       /\ forwarding' = forwarding \ {t[2]}
       /\ pc' = [pc EXCEPT ![t] = "idle"]

\* Every step of a task is such a move, and leaves the janitor where it is.
LEMMA TaskMove ==
    ASSUME pc \in [Task -> Labels], LabelInv, NEW t \in Task, TaskStep(t)
    PROVE  Move(t) /\ jpc' = jpc
<1> USE TaskFacts
<1>k. /\ t[1] \in {"ingress"} \cup ForwardKinds
      /\ pc[t] \in ReceiveLabels \cup DeliverLabels => t[1] = "ingress"
      /\ pc[t] \in {"acquire"} \cup ForwardLabels => t[1] \in ForwardKinds
    BY DEF LabelInv, Kinds, ForwardKinds, IngressLabels, HolderLabels, IdleLabels,
           ReceiveLabels, DeliverLabels, ForwardLabels, SharedLabels
<1>1. CASE IngressStep(t)
    <2>1. t[1] = "ingress" /\ pc[t] # "idle"
        BY <1>1, <1>k DEF IngressStep, ReceiveSync, ReceiveBlocks, ReceivePush,
           TransmitSync, TransmitSource, Dispatch, DispatchEndpoint, Deliver, DeliverMark,
           DeliverReport, DeliverSettle, DeliverHandover, ReceiveLabels, DeliverLabels
    <2>2. forwarding' = forwarding /\ jpc' = jpc
        BY <1>1 DEF IngressStep, ReceiveSync, ReceiveBlocks, ReceivePush,
           TransmitSync, TransmitSource, Dispatch, DispatchEndpoint, Deliver, DeliverMark,
           DeliverReport, DeliverSettle, DeliverHandover, StoreStep, LocalStep
    <2>3. CASE DispatchEndpoint(t) \/ DeliverHandover(t)
        BY <2>1, <2>2, <2>3 DEF DispatchEndpoint, DeliverHandover, SpawnForward, Goto, Move,
                                IngressLabels, DeliverLabels
    <2>4. CASE ReceiveSync(t) \/ TransmitSync(t) \/ ReceiveBlocks(t) \/ ReceivePush(t)
        BY <2>1, <2>2, <2>4 DEF ReceiveSync, TransmitSync, ReceiveBlocks, ReceivePush, Goto,
                                Move, IngressLabels, DeliverLabels, ReceiveLabels,
                                SharedLabels
    <2>5. CASE TransmitSource(t) \/ Dispatch(t) \/ Deliver(t)
        BY <2>1, <2>2, <2>5 DEF TransmitSource, Dispatch, Deliver, Goto, Move,
                                IngressLabels, DeliverLabels, SharedLabels
    <2>6. CASE DeliverMark(t) \/ DeliverReport(t) \/ DeliverSettle(t)
        BY <2>1, <2>2, <2>6 DEF DeliverMark, DeliverReport, DeliverSettle, Goto, Move,
                                IngressLabels, DeliverLabels
    <2>7. QED
        BY <1>1, <2>3, <2>4, <2>5, <2>6 DEF IngressStep
<1>2. CASE SharedStep(t)
    <2>1. pc[t] \in SharedLabels /\ forwarding' = forwarding /\ jpc' = jpc
        BY <1>2 DEF SharedStep, Delete, DeleteSync, Inspect, InspectRemove, StoreStep,
                    LocalStep, SharedLabels
    <2>2. PICK l \in SharedLabels \cup {Bail(t), AfterInspect(t)} : pc' = [pc EXCEPT ![t] = l]
        BY <1>2 DEF SharedStep, Delete, DeleteSync, Inspect, InspectRemove, Goto, SharedLabels
    <2>3. t[1] = "ingress" => l \in IngressLabels
        BY <2>2 DEF Bail, AfterInspect, IngressLabels, DeliverLabels
    <2>4. t[1] \in ForwardKinds => l \in HolderLabels
        BY <2>2 DEF Bail, AfterInspect, HolderLabels, ForwardLabels, ForwardKinds
    <2>5. QED
        BY <1>k, <2>1, <2>2, <2>3, <2>4 DEF Move, SharedLabels, HolderLabels
<1>3. CASE ForwardStep(t)
    <2>1. t[1] \in ForwardKinds
        BY <1>3, <1>k DEF ForwardStep, Acquire, ForwardPending, Route, RouteError, Fetch,
           TransferDone, Joined, ForwardRemove, Contraindicate, Release, ForwardLabels
    <2>2. CASE Acquire(t) \/ Release(t)
        BY <2>1, <2>2 DEF Acquire, Release, Goto, Move
    <2>3. CASE \E n \in Peers, ok \in BOOLEAN : TransferDone(t, n, ok)
        <3>1. pc' = [pc EXCEPT ![t] = pc[t]] /\ pc[t] \in HolderLabels
            BY <2>3 DEF TransferDone, HolderLabels, ForwardLabels
        <3>2. QED
            BY <2>1, <2>3, <3>1 DEF TransferDone, LocalStep, Move
    <2>4. CASE ForwardPending(t) \/ Route(t) \/ RouteError(t) \/ Fetch(t)
        <3>1. \E l \in HolderLabels : pc' = [pc EXCEPT ![t] = l]
            BY <2>4 DEF ForwardPending, Route, RouteError, Fetch, Goto, HolderLabels,
                        ForwardLabels, SharedLabels
        <3>2. pc[t] \in HolderLabels /\ forwarding' = forwarding /\ jpc' = jpc
            BY <2>4 DEF ForwardPending, Route, RouteError, Fetch, LocalStep, HolderLabels,
                        ForwardLabels
        <3>3. QED
            BY <2>1, <3>1, <3>2 DEF Move
    <2>5. CASE Joined(t) \/ ForwardRemove(t) \/ Contraindicate(t)
        BY <2>1, <2>5 DEF Joined, ForwardRemove, Contraindicate, Goto, StoreStep, Move,
                          HolderLabels, ForwardLabels, SharedLabels
    <2>6. QED
        BY <1>3, <2>2, <2>3, <2>4, <2>5 DEF ForwardStep
<1>4. QED
    BY <1>1, <1>2, <1>3 DEF TaskStep

\* A running task works on a known id; dispatch spawns its forward() when no
\* earlier one of the same bundle is left; and between two janitor runs no task
\* of the janitor is past the start.
ControlInv ==
    /\ LabelInv
    /\ \A t \in Task : pc[t] # "idle" => IsKnown(t[2])
    /\ \A i \in Ids : pc[<<"ingress", i>>] # "idle" => pc[<<"dispatched", i>>] = "idle"
    /\ jpc # "forward" => \A i \in Ids : pc[<<"janitor", i>>] \in {"idle", "queued"}

\* The task identifiers of an id, and that those of different kinds differ.
LEMMA TaskIds ==
    ASSUME NEW i \in Ids
    PROVE  /\ <<"ingress", i>> \in Task
           /\ <<"dispatched", i>> \in Task
           /\ <<"janitor", i>> \in Task
BY DEF Task, Kinds, ForwardKinds

\* The control invariant is inductive.
LEMMA ControlStep ==
    ASSUME TypeInv, ControlInv, [Next]_vars
    PROVE  ControlInv'
<1> USE TaskFacts, TaskIds
<1>p. pc \in [Task -> Labels] /\ Grows
    BY TypeStep DEF TypeInv, TypeOK
<1>g. \A i : IsKnown(i) => IsKnown(i)'
    BY <1>p DEF Grows, IsKnown
<1>1. CASE \E t \in Task : TaskStep(t)
    <2>1. PICK t \in Task : TaskStep(t)
        BY <1>1
    <2>2. Move(t) /\ jpc' = jpc
        BY <2>1, <1>p, TaskMove DEF ControlInv
    <2>3. IsKnown(t[2])
        BY <2>2 DEF Move, ControlInv, HolderLabels, ForwardLabels, SharedLabels
    <2>4. LabelInv'
        BY <2>2, <1>p DEF Move, ControlInv, LabelInv, IdleLabels, HolderLabels,
                          ForwardLabels, IngressLabels, ForwardKinds
    <2>5. \A u \in Task : pc'[u] # "idle" => IsKnown(u[2])
        BY <2>2, <2>3, <1>p DEF Move, ControlInv
    <2>6. \A i \in Ids : pc'[<<"ingress", i>>] # "idle" => pc'[<<"dispatched", i>>] = "idle"
        <3>1. CASE t[1] = "ingress" /\ pc' = [pc EXCEPT ![t] = "idle",
                                                      ![<<"dispatched", t[2]>>] = "acquire"]
            BY <3>1, <1>p DEF ControlInv
        <3>2. CASE pc[t] # "idle" /\ \E l \in Labels : pc' = [pc EXCEPT ![t] = l]
            BY <3>2, <1>p DEF ControlInv
        <3>3. HolderLabels \cup IngressLabels \cup {"idle", "pending"} \subseteq Labels
            BY DEF HolderLabels, IngressLabels, Labels, ForwardLabels, SharedLabels
        <3>4. "idle" \notin HolderLabels
            BY DEF HolderLabels, ForwardLabels, SharedLabels
        <3>5. QED
            BY <2>2, <3>1, <3>2, <3>3, <3>4 DEF Move
    <2>7. jpc' # "forward" => \A i \in Ids : pc'[<<"janitor", i>>] \in {"idle", "queued"}
        BY <2>2, <1>p DEF Move, ControlInv, ForwardKinds, HolderLabels, ForwardLabels,
                          SharedLabels
    <2>8. QED
        BY <2>4, <2>5, <2>6, <2>7, <1>g DEF ControlInv
<1>2. CASE JanitorStep
    <2>1. CASE JanitorStart \/ JanitorCollect \/ JanitorReady \/ JanitorDone
               \/ \E i \in Ids : JanitorExpire(i)
        <3>1. pc' = pc
            BY <2>1 DEF JanitorStart, JanitorCollect, JanitorReady, JanitorDone, JanitorExpire
        <3>2. jpc' # "forward" => \A i \in Ids : pc[<<"janitor", i>>] \in {"idle", "queued"}
            BY <2>1 DEF JanitorStart, JanitorCollect, JanitorReady, JanitorDone,
                        JanitorExpire, JanitorTask, ControlInv
        <3>3. QED
            BY <3>1, <3>2, <1>g DEF ControlInv, LabelInv
    <2>2. CASE \E i \in Ids : JanitorRead(i)
        <3>1. PICK i \in Ids : JanitorRead(i)
            BY <2>2
        <3>2. IsKnown(i) /\ jpc = "read" /\ jpc' = "read"
            BY <3>1 DEF JanitorRead, IsKnown, TypeInv, TodoKnown
        <3>3. pc' = pc \/ pc' = [pc EXCEPT ![<<"janitor", i>>] = "queued"]
            BY <3>1 DEF JanitorRead, Goto, JanitorTask
        <3>4. LabelInv'
            BY <3>3, <1>p DEF LabelInv, ControlInv, IdleLabels
        <3>5. \A t \in Task : pc'[t] # "idle" => IsKnown(t[2])
            BY <3>2, <3>3, <1>p DEF ControlInv
        <3>6. \A j \in Ids : /\ pc'[<<"ingress", j>>] = pc[<<"ingress", j>>]
                             /\ pc'[<<"dispatched", j>>] = pc[<<"dispatched", j>>]
            BY <3>3, <1>p
        <3>7. \A j \in Ids : pc'[<<"janitor", j>>] \in {"idle", "queued"}
            BY <3>2, <3>3, <1>p DEF ControlInv
        <3>8. QED
            BY <3>4, <3>5, <3>6, <3>7, <1>g DEF ControlInv
    <2>3. CASE \E i \in Ids : JanitorForward(i)
        <3>1. PICK i \in Ids : JanitorForward(i)
            BY <2>3
        <3>2. /\ jpc = "forward" /\ jpc' = "forward" /\ pc[<<"janitor", i>>] = "queued"
              /\ pc' = [pc EXCEPT ![<<"janitor", i>>] = "acquire"]
            BY <3>1 DEF JanitorForward, Goto, JanitorTask, LocalStep
        <3>3. LabelInv'
            BY <3>2, <1>p DEF LabelInv, ControlInv, IdleLabels
        <3>4. QED
            BY <3>2, <3>3, <1>p, <1>g DEF ControlInv
    <2>4. QED
        BY <1>2, <2>1, <2>2, <2>3 DEF JanitorStep
<1>3. CASE \E i \in Bundles : Receive(i) \/ SendBundle(i)
    <2>1. PICK i \in Bundles : Receive(i) \/ SendBundle(i)
        BY <1>3
    <2>2. /\ i \in Ids /\ jpc' = jpc
          /\ ~IsKnown(i) \/ pc[<<"dispatched", i>>] = "idle"
          /\ \E l \in IngressLabels : pc' = [pc EXCEPT ![<<"ingress", i>>] = l]
        BY <2>1, ProcessingAssumption DEF Receive, SendBundle, Goto, Ingress, StoreStep,
                                          IngressLabels, ReceiveLabels
    <2>3. IsKnown(i)' /\ pc[<<"dispatched", i>>] = "idle"
        BY <2>1, <2>2, PushStore, TypeParts DEF Receive, SendBundle, IsKnown, ControlInv
    <2>4. LabelInv'
        BY <2>2, <1>p DEF LabelInv, ControlInv, ForwardKinds
    <2>5. QED
        BY <2>2, <2>3, <2>4, <1>p, <1>g DEF ControlInv
<1>4. CASE Environment /\ ~\E i \in Bundles : Receive(i) \/ SendBundle(i)
    <2>1. pc' = pc /\ jpc' = jpc
        BY <1>4 DEF Environment, Register, Unregister, Subscribe, Unsubscribe, Pop,
                    HttpDelete, Expire
    <2>2. QED
        BY <2>1, <1>g DEF ControlInv, LabelInv
<1>5. CASE UNCHANGED vars
    BY <1>5 DEF ControlInv, LabelInv, IsKnown, vars
<1>6. QED
    BY <1>1, <1>2, <1>3, <1>4, <1>5 DEF Next

\* And true initially.
LEMMA ControlInit ==
    ASSUME Init
    PROVE  ControlInv
BY TaskIds DEF Init, ControlInv, LabelInv, IngressLabels, IdleLabels

------------------------------------------------------------------------------
\* The forwarding guard.

\* Both halves of ForwardExclusive, element by element.
GuardInv ==
    /\ \A t \in Task : Holds(t) => t[2] \in forwarding
    /\ \A i \in forwarding : i \in Ids /\ \E t \in Task : Holds(t) /\ t[2] = i
    /\ \A t, u \in Task : Holds(t) /\ Holds(u) /\ t[2] = u[2] => t = u

\* GuardInv says the same as ForwardExclusive.
LEMMA GuardIsExclusive == GuardInv => ForwardExclusive
BY TaskFacts DEF GuardInv, ForwardExclusive

\* The guard invariant is inductive, given the control invariant.
LEMMA GuardStep ==
    ASSUME TypeInv, ControlInv, GuardInv, [Next]_vars
    PROVE  GuardInv'
<1> USE TaskFacts, TaskIds DEF Holds
<1>p. pc \in [Task -> Labels]
    BY DEF TypeInv, TypeOK
<1>q. HolderLabels \cap IdleLabels = {}
    BY DEF HolderLabels, IdleLabels, ForwardLabels, SharedLabels
\* A step that changes neither the holders nor the guards.
<1>s. ASSUME forwarding' = forwarding,
             \A t \in Task : t[1] \in ForwardKinds =>
                 (pc[t] \in IdleLabels <=> pc'[t] \in IdleLabels)
      PROVE  GuardInv'
    BY <1>s DEF GuardInv, IdleLabels
<1>1. CASE \E t \in Task : TaskStep(t)
    <2>1. PICK t \in Task : TaskStep(t)
        BY <1>1
    <2>2. Move(t)
        BY <2>1, <1>p, TaskMove DEF ControlInv
    <2>3. ASSUME t[1] = "ingress", pc[t] # "idle", forwarding' = forwarding,
                 NEW l \in IngressLabels, pc' = [pc EXCEPT ![t] = l]
          PROVE  GuardInv'
        BY <2>3, <1>s, <1>p DEF ForwardKinds
    <2>4. ASSUME t[1] = "ingress", pc[t] # "idle", forwarding' = forwarding,
                 pc' = [pc EXCEPT ![t] = "idle", ![<<"dispatched", t[2]>>] = "acquire"]
          PROVE  GuardInv'
        <3>1. pc[<<"dispatched", t[2]>>] = "idle"
            BY <2>4 DEF ControlInv
        <3>2. QED
            BY <2>4, <3>1, <1>s, <1>p DEF ForwardKinds, IdleLabels
    <2>5. ASSUME t[1] \in ForwardKinds, pc[t] \in HolderLabels, forwarding' = forwarding,
                 NEW l \in HolderLabels, pc' = [pc EXCEPT ![t] = l]
          PROVE  GuardInv'
        BY <2>5, <1>s, <1>p, <1>q
    <2>6. ASSUME t[1] \in ForwardKinds, pc[t] = "acquire", forwarding' = forwarding,
                 pc' = [pc EXCEPT ![t] = "idle"]
          PROVE  GuardInv'
        BY <2>6, <1>s, <1>p DEF IdleLabels
    <2>7. ASSUME t[1] \in ForwardKinds, pc[t] = "acquire", t[2] \notin forwarding,
                 forwarding' = forwarding \cup {t[2]}, pc' = [pc EXCEPT ![t] = "pending"]
          PROVE  GuardInv'
        <3>1. \A u \in Task : Holds(u)' <=> Holds(u) \/ u = t
            BY <2>7, <1>p
        <3>2. QED
            BY <2>7, <3>1 DEF GuardInv
    <2>8. ASSUME t[1] \in ForwardKinds, pc[t] = "release",
                 forwarding' = forwarding \ {t[2]}, pc' = [pc EXCEPT ![t] = "idle"]
          PROVE  GuardInv'
        <3>1. Holds(t) /\ \A u \in Task : Holds(u)' <=> Holds(u) /\ u # t
            BY <2>8, <1>p
        <3>2. QED
            BY <2>8, <3>1 DEF GuardInv
    <2>9. QED
        BY <2>2, <2>3, <2>4, <2>5, <2>6, <2>7, <2>8 DEF Move
<1>2. CASE JanitorStep
    <2>1. CASE JanitorStart \/ JanitorCollect \/ JanitorReady \/ JanitorDone
               \/ \E i \in Ids : JanitorExpire(i)
        BY <2>1, <1>s DEF JanitorStart, JanitorCollect, JanitorReady, JanitorDone,
                          JanitorExpire
    <2>2. CASE \E i \in Ids : JanitorRead(i) \/ JanitorForward(i)
        <3>1. PICK i \in Ids : JanitorRead(i) \/ JanitorForward(i)
            BY <2>2
        <3>2. pc[<<"janitor", i>>] \in {"idle", "queued"} /\ forwarding' = forwarding
            BY <3>1 DEF JanitorRead, JanitorForward, JanitorTask, LocalStep, ControlInv
        <3>3. pc' = pc \/ \E l \in {"queued", "acquire"} :
                              pc' = [pc EXCEPT ![<<"janitor", i>>] = l]
            BY <3>1 DEF JanitorRead, JanitorForward, JanitorTask, Goto
        <3>4. QED
            BY <3>2, <3>3, <1>s, <1>p DEF IdleLabels
    <2>3. QED
        BY <1>2, <2>1, <2>2 DEF JanitorStep
<1>3. CASE Environment
    <2>1. forwarding' = forwarding
        BY <1>3 DEF Environment, Receive, SendBundle, StoreStep, Register, Unregister,
                    Subscribe, Unsubscribe, Pop, HttpDelete, Expire
    <2>2. pc' = pc \/ \E i \in Bundles, l \in Labels : pc' = [pc EXCEPT ![<<"ingress", i>>] = l]
        BY <1>3 DEF Environment, Receive, SendBundle, Goto, Ingress, Labels, ReceiveLabels,
                    Register, Unregister, Subscribe, Unsubscribe, Pop, HttpDelete, Expire
    <2>3. \A t \in Task : t[1] \in ForwardKinds => pc'[t] = pc[t]
        BY <2>2, <1>p DEF ForwardKinds
    <2>4. QED
        BY <2>1, <2>3, <1>s
<1>4. CASE UNCHANGED vars
    BY <1>4, <1>s DEF vars
<1>5. QED
    BY <1>1, <1>2, <1>3, <1>4 DEF Next

\* No bundle is ever forwarded by two tasks at once, and forward() releases its
\* guard on every path.
THEOREM ForwardingIsExclusive == Spec => []ForwardExclusive
<1>1. Init => TypeInv /\ ControlInv /\ GuardInv
    <2>1. Init => GuardInv
        BY DEF Init, GuardInv, Holds
    <2>2. QED
        BY <2>1, TypeInit, ControlInit
<1>2. TypeInv /\ ControlInv /\ GuardInv /\ [Next]_vars => (TypeInv /\ ControlInv /\ GuardInv)'
    BY TypeStep, ControlStep, GuardStep
<1>3. QED
    BY <1>1, <1>2, GuardIsExclusive, PTL DEF Spec

------------------------------------------------------------------------------
\* The Deleted mark.

\* No task's private pack carries the mark: the janitor skips marked metadata.
NoMarkedPack == \A t \in Task : "Deleted" \notin bp[t]

\* A push of a removed bundle starts from fresh metadata.
LEMMA PushMark ==
    ASSUME StoreInv, DeletedMeansGone, NEW i \in Ids, Push(i)
    PROVE  DeletedMeansGone'
BY DEF StoreInv, StoreTypeOK, DeletedMeansGone, Push, HasItem, Put

\* A removal marks the metadata and takes the bundle away.
LEMMA RemoveMark ==
    ASSUME StoreInv, DeletedMeansGone, NEW i \in Ids, Remove(i)
    PROVE  DeletedMeansGone'
BY DEF StoreInv, StoreTypeOK, DeletedMeansGone, Remove, IsKnown, Put, ClearConstraints

\* A sync of a pack without the mark does not bring it back.
LEMMA SyncMark ==
    ASSUME StoreInv, DeletedMeansGone, NEW i \in Ids, NEW c \in SUBSET Constraint,
           "Deleted" \notin c, Sync(i, c)
    PROVE  DeletedMeansGone'
<1>1. CASE UpdateMetadata(i, c)
    BY <1>1 DEF StoreInv, StoreTypeOK, DeletedMeansGone, UpdateMetadata, IsKnown, Put
<1>2. QED
    BY <1>1, RemoveMark DEF Sync

\* A status report is stored unmarked.
LEMMA ReportMark ==
    ASSUME StoreInv, DeletedMeansGone, NEW i \in Ids, NEW s, NEW r, ReportIf(r, i, s)
    PROVE  DeletedMeansGone'
BY DEF StoreInv, StoreTypeOK, DeletedMeansGone, ReportIf, SendStatusReport, StoreVars,
       IsKnown, Put

\* No step of a task stores a marked bundle or marks its own pack.
LEMMA TaskMark ==
    ASSUME TypeInv, DeletedMeansGone, NoMarkedPack, NEW t \in Task, TaskStep(t)
    PROVE  DeletedMeansGone' /\ NoMarkedPack'
<1> USE TypeParts, TaskFacts, TaskIds
<1>s. StoreInv /\ t[2] \in Ids /\ Bundle(t[2]).ref \in Ids
    BY BundleFacts
<1>b. bp \in [Task -> SUBSET Constraint] /\ bp[t] \in SUBSET Constraint
    BY DEF RestTypeOK
<1>u. UNCHANGED StoreVars => DeletedMeansGone'
    BY DEF DeletedMeansGone, StoreVars
<1>n. UNCHANGED bp => NoMarkedPack'
    BY DEF NoMarkedPack
\* The packs that are synced.
<1>c. /\ {"DispatchPending"} \in SUBSET Constraint
      /\ bp[t] \cup {"LocalEndpoint"} \in SUBSET Constraint
      /\ bp[t] \cup {"Contraindicated"} \in SUBSET Constraint
      /\ (bp[t] \cup {"ForwardPending"}) \ {"DispatchPending"} \in SUBSET Constraint
      /\ ClearConstraints(bp[t]) \in SUBSET Constraint
      /\ ClearConstraints(bp[t] \cup {"LocalEndpoint"}) \in SUBSET Constraint
      /\ bp[t] \cup {"LocalEndpoint"} \cup {"ForwardPending"} \in SUBSET Constraint
    BY <1>b DEF Constraint, ClearConstraints
<1>d. /\ "Deleted" \notin {"DispatchPending"}
      /\ "Deleted" \notin bp[t] \cup {"LocalEndpoint"}
      /\ "Deleted" \notin bp[t] \cup {"Contraindicated"}
      /\ "Deleted" \notin (bp[t] \cup {"ForwardPending"}) \ {"DispatchPending"}
      /\ "Deleted" \notin ClearConstraints(bp[t])
      /\ "Deleted" \notin ClearConstraints(bp[t] \cup {"LocalEndpoint"})
      /\ "Deleted" \notin bp[t] \cup {"LocalEndpoint"} \cup {"ForwardPending"}
    BY DEF NoMarkedPack, ClearConstraints
<1>1. CASE ReceiveSync(t) \/ TransmitSync(t)
    BY <1>1, <1>s, <1>b, <1>c, <1>d, SyncMark DEF ReceiveSync, TransmitSync, NoMarkedPack
<1>2. CASE ReceiveBlocks(t) \/ DeliverReport(t) \/ Delete(t) \/ Joined(t)
    BY <1>2, <1>s, <1>n, ReportMark DEF ReceiveBlocks, DeliverReport, Delete, Joined,
                                        StoreStep
<1>3. CASE ReceivePush(t)
    BY <1>3, <1>s, <1>n, PushMark DEF ReceivePush, StoreStep
<1>4. CASE DeliverMark(t) \/ DeliverSettle(t)
    BY <1>4, <1>s, <1>c, <1>d, <1>n, SyncMark DEF DeliverMark, DeliverSettle, StoreStep
<1>5. CASE DeleteSync(t) \/ Contraindicate(t)
    BY <1>5, <1>s, <1>c, <1>d, <1>n, SyncMark DEF DeleteSync, Contraindicate, StoreStep
<1>6. CASE InspectRemove(t) \/ ForwardRemove(t)
    BY <1>6, <1>s, <1>n, RemoveMark DEF InspectRemove, ForwardRemove, StoreStep
<1>f. SpawnForward(t) => NoMarkedPack'
    BY <1>b DEF SpawnForward, NoMarkedPack
<1>7. CASE DeliverHandover(t)
    BY <1>7, <1>s, <1>u, <1>f, RemoveMark DEF DeliverHandover, AgentPush, RemoveIfSingleton,
                                StoreVars
<1>8. CASE DispatchEndpoint(t)
    BY <1>8, <1>u, <1>n, <1>f DEF DispatchEndpoint, LocalStep, StoreVars
<1>9. CASE ForwardPending(t)
    BY <1>9, <1>s, <1>b, <1>c, <1>d, SyncMark DEF ForwardPending, NoMarkedPack
<1>10. CASE Fetch(t) \/ Release(t)
    BY <1>10, <1>u, <1>b DEF Fetch, Release, LocalStep, StoreVars, NoMarkedPack
<1>11. CASE \/ TransmitSource(t) \/ Dispatch(t) \/ Deliver(t) \/ Inspect(t)
            \/ Acquire(t) \/ Route(t) \/ RouteError(t)
            \/ \E n \in Peers, ok \in BOOLEAN : TransferDone(t, n, ok)
    BY <1>11, <1>u, <1>n DEF TransmitSource, Dispatch, Deliver, Inspect, Acquire, Route,
                             RouteError, TransferDone, LocalStep, StoreVars
<1>12. QED
    BY <1>1, <1>2, <1>3, <1>4, <1>5, <1>6, <1>7, <1>8, <1>9, <1>10, <1>11
    DEF TaskStep, IngressStep, SharedStep, ForwardStep

\* Nor does any other step.
LEMMA OtherMark ==
    ASSUME TypeInv, DeletedMeansGone, NoMarkedPack, JanitorStep \/ Environment
    PROVE  DeletedMeansGone' /\ NoMarkedPack'
<1> USE TypeParts, TaskIds
<1>b. bp \in [Task -> SUBSET Constraint]
    BY DEF RestTypeOK
<1>u. UNCHANGED StoreVars => DeletedMeansGone'
    BY DEF DeletedMeansGone, StoreVars
<1>n. UNCHANGED bp => NoMarkedPack'
    BY DEF NoMarkedPack
<1>1. CASE JanitorStart \/ JanitorCollect \/ JanitorReady \/ JanitorDone
    BY <1>1, <1>u, <1>n DEF JanitorStart, JanitorCollect, JanitorReady, JanitorDone, StoreVars
<1>2. CASE \E i \in Ids : JanitorExpire(i) \/ JanitorForward(i)
    BY <1>2, <1>u, <1>n, RemoveMark DEF JanitorExpire, JanitorForward, LocalStep, StoreVars
<1>3. CASE \E i \in Ids : JanitorRead(i)
    BY <1>3, <1>u, <1>b DEF JanitorRead, JanitorTask, StoreVars, NoMarkedPack
<1>4. CASE \E i \in Bundles : Receive(i) \/ SendBundle(i)
    BY <1>4, <1>n, PushMark, ProcessingAssumption DEF Receive, SendBundle, StoreStep
<1>5. CASE \E e \in Churn : Register(e) \/ Unregister(e) \/ Subscribe(e) \/ Unsubscribe(e)
    BY <1>5, <1>u, <1>n DEF Register, Unregister, Subscribe, Unsubscribe, StoreVars
<1>6. CASE \E e \in Eids : Pop(e)
    <2>1. PICK e \in Eids : Pop(e)
        BY <1>6
    <2>2. Head(queue[e]) \in Ids
        BY <2>1, HeadTailProperties DEF Pop, RestTypeOK
    <2>3. QED
        BY <2>1, <2>2, <1>u, <1>n, RemoveMark DEF Pop, RemoveIfSingleton
<1>7. CASE \E i \in Managed : HttpDelete(i)
    BY <1>7, <1>n, RemoveMark, ProcessingAssumption DEF HttpDelete
<1>8. CASE \E i \in Volatile : Expire(i)
    BY <1>8, <1>u, <1>n DEF Expire, StoreVars
<1>9. QED
    BY <1>1, <1>2, <1>3, <1>4, <1>5, <1>6, <1>7, <1>8 DEF JanitorStep, Environment

\* Metadata that says Deleted never belongs to a stored bundle.
THEOREM DeletedIsGone == Spec => []DeletedMeansGone
<1>1. Init => TypeInv /\ DeletedMeansGone /\ NoMarkedPack
    <2>1. Init => DeletedMeansGone /\ NoMarkedPack
        BY DEF Init, StoreInit, DeletedMeansGone, NoMarkedPack
    <2>2. QED
        BY <2>1, TypeInit
<1>2. TypeInv /\ DeletedMeansGone /\ NoMarkedPack /\ [Next]_vars
         => (TypeInv /\ DeletedMeansGone /\ NoMarkedPack)'
    <2>1. UNCHANGED vars /\ DeletedMeansGone /\ NoMarkedPack => (DeletedMeansGone /\ NoMarkedPack)'
        BY DEF vars, DeletedMeansGone, NoMarkedPack
    <2>2. QED
        BY <2>1, TypeStep, TaskMark, OtherMark DEF Next
<1>3. QED
    BY <1>1, <1>2, PTL DEF Spec

------------------------------------------------------------------------------
\* Delivery.

\* Nothing was handed over before the ingress task of a bundle ends, and a
\* bundle gets only one ingress task, as it is known from then on.
OnceInv ==
    \A i \in Ids \ Resubmitted :
        /\ handed[i] = 0 \/ handed[i] = 1
        /\ ~IsKnown(i) => handed[i] = 0
        /\ pc[<<"ingress", i>>] # "idle" => handed[i] = 0

\* OnceInv is inductive, given types and control.
LEMMA OnceStep ==
    ASSUME TypeInv, ControlInv, OnceInv, [Next]_vars
    PROVE  OnceInv'
<1> USE TaskFacts, TaskIds
<1>p. /\ pc \in [Task -> Labels] /\ handed \in [Ids -> Nat]
      /\ \A i : IsKnown(i) => IsKnown(i)'
    BY TypeStep DEF TypeInv, TypeOK, Grows, IsKnown
\* A step that hands nothing over and starts no ingress task.
<1>s. ASSUME handed' = handed,
             \A i \in Ids : pc[<<"ingress", i>>] = "idle" => pc'[<<"ingress", i>>] = "idle"
      PROVE  OnceInv'
    BY <1>s, <1>p DEF OnceInv
<1>1. CASE \E t \in Task : TaskStep(t)
    <2>1. PICK t \in Task : TaskStep(t)
        BY <1>1
    <2>2. Move(t)
        BY <2>1, <1>p, TaskMove DEF ControlInv
    <2>3. \A i \in Ids : pc[<<"ingress", i>>] = "idle" => pc'[<<"ingress", i>>] = "idle"
        BY <2>2, <1>p DEF Move, ForwardKinds
    <2>4. CASE handed' = handed
        BY <2>3, <2>4, <1>s
    <2>5. CASE handed' # handed
        <3>1. DeliverHandover(t)
            BY <2>1, <2>5 DEF TaskStep, IngressStep, SharedStep, ForwardStep, ReceiveSync,
               ReceiveBlocks, ReceivePush, TransmitSync, TransmitSource, Dispatch,
               DispatchEndpoint, Deliver, DeliverMark, DeliverReport, DeliverSettle, Delete,
               DeleteSync, Inspect, InspectRemove, Acquire, ForwardPending, Route,
               RouteError, Fetch, TransferDone, Joined, ForwardRemove, Contraindicate,
               Release, StoreStep, LocalStep
        <3>2. /\ pc[t] = "handover" /\ pc'[t] = "idle"
              /\ handed' = [handed EXCEPT ![t[2]] = @ + 1]
            BY <3>1, <2>5, <1>p DEF DeliverHandover, SpawnForward, Goto
        <3>3. t[1] = "ingress" /\ IsKnown(t[2])
            BY <3>2 DEF ControlInv, LabelInv, Kinds, ForwardKinds, IdleLabels, HolderLabels,
                        ForwardLabels, SharedLabels
        <3>4. t[2] \notin Resubmitted => handed[t[2]] = 0
            BY <3>2, <3>3 DEF OnceInv
        <3>5. /\ t[2] \notin Resubmitted => handed'[t[2]] = 1
              /\ IsKnown(t[2])' /\ pc'[<<"ingress", t[2]>>] = "idle"
              /\ \A i \in Ids : i # t[2] => handed'[i] = handed[i]
            BY <3>2, <3>3, <3>4, <1>p
        <3>6. QED
            BY <2>3, <3>5, <1>p DEF OnceInv
    <2>6. QED
        BY <2>4, <2>5
<1>2. CASE JanitorStep
    <2>1. handed' = handed
        BY <1>2 DEF JanitorStep, JanitorStart, JanitorCollect, JanitorReady, JanitorDone,
                    JanitorExpire, JanitorRead, JanitorForward, LocalStep
    <2>2. pc' = pc \/ \E i \in Ids, l \in Labels : pc' = [pc EXCEPT ![<<"janitor", i>>] = l]
        BY <1>2 DEF JanitorStep, JanitorStart, JanitorCollect, JanitorReady, JanitorDone,
                    JanitorExpire, JanitorRead, JanitorForward, JanitorTask, Goto, Labels
    <2>3. QED
        BY <2>1, <2>2, <1>s, <1>p
<1>3. CASE \E i \in Bundles : Receive(i) \/ SendBundle(i)
    <2>1. PICK i \in Bundles : Receive(i) \/ SendBundle(i)
        BY <1>3
    <2>2. /\ i \in Ids /\ handed' = handed
          /\ ~IsKnown(i) \/ i \in Resubmitted
          /\ \E l \in Labels : pc' = [pc EXCEPT ![<<"ingress", i>>] = l]
        BY <2>1, ProcessingAssumption DEF Receive, SendBundle, Goto, Ingress, StoreStep,
                                          Labels, ReceiveLabels
    <2>3. QED
        BY <2>2, <1>p DEF OnceInv
<1>4. CASE Environment /\ ~\E i \in Bundles : Receive(i) \/ SendBundle(i)
    BY <1>4, <1>s DEF Environment, Register, Unregister, Subscribe, Unsubscribe, Pop,
                      HttpDelete, Expire
<1>5. CASE UNCHANGED vars
    BY <1>5, <1>s DEF vars
<1>6. QED
    BY <1>1, <1>2, <1>3, <1>4, <1>5 DEF Next

\* A bundle reaches its application at most once: duplicates, concurrent
\* removals and second pushes included.
THEOREM DeliveredAtMostOnce == Spec => []AtMostOnceDelivery
<1>1. Init => TypeInv /\ ControlInv /\ OnceInv
    <2>1. Init => OnceInv
        BY TaskIds DEF Init, OnceInv
    <2>2. QED
        BY <2>1, TypeInit, ControlInit
<1>2. TypeInv /\ ControlInv /\ OnceInv /\ [Next]_vars => (TypeInv /\ ControlInv /\ OnceInv)'
    BY TypeStep, ControlStep, OnceStep
<1>3. OnceInv => AtMostOnceDelivery
    <2>1. SUFFICES ASSUME OnceInv, NEW i \in Ids \ Resubmitted
                   PROVE  handed[i] <= 1
        BY DEF AtMostOnceDelivery
    <2>2. CASE handed[i] = 0
        BY <2>2
    <2>3. CASE handed[i] = 1
        BY <2>3
    <2>4. QED
        BY <2>1, <2>2, <2>3 DEF OnceInv
<1>4. QED
    BY <1>1, <1>2, <1>3, PTL DEF Spec

------------------------------------------------------------------------------
\* Loss.

\* delete() is only reached with a reason, and a task about to remove its bundle
\* for the routing agent was told to, after a success if it sent anything.
CauseInv ==
    \A t \in Task :
        /\ pc[t] \in {"delete", "delete_sync"} => t[2] \in expired \/ Refused(t[2])
        /\ pc[t] \in {"drop", "remove"} => delAfter[t]
        /\ pc[t] = "remove" => sent[t]

\* What waits for an application was handed to its agent, and is addressed to it.
QueuedWereHanded ==
    \A e \in Eids : \A k \in 1 .. Len(queue[e]) :
        handed[queue[e][k]] > 0 /\ Bundle(queue[e][k]).dst = e

\* The configured endpoints that no application manages stay.
FixedStay == RegisteredAtStart \ Churn \subseteq registered

\* Where a step of task t may take t: to delete() with a reason, to a removal
\* as the routing agent wished.
CausedAt(t) ==
    /\ pc'[t] \in {"delete", "delete_sync"} => t[2] \in expired \/ Refused(t[2])
    /\ pc'[t] \in {"drop", "remove"} => delAfter'[t]
    /\ pc'[t] = "remove" => sent'[t]

\* Every step of a task goes to a removal for a cause only.
LEMMA TaskCaused ==
    ASSUME TypeInv, CauseInv, FixedStay, NEW t \in Task, TaskStep(t)
    PROVE  CausedAt(t)
<1> USE TaskFacts
<1>p. /\ pc \in [Task -> Labels] /\ sent \in [Task -> BOOLEAN] /\ delAfter \in [Task -> BOOLEAN]
      /\ t[2] \in Ids /\ <<"dispatched", t[2]>> \in Task
    BY TaskIds DEF TypeInv, TypeOK
<1>c. pc[t] \in {"delete", "delete_sync"} => t[2] \in expired \/ Refused(t[2])
    BY DEF CauseInv
\* A step to none of these labels.
<1>s. ASSUME pc'[t] \notin {"delete", "delete_sync", "drop", "remove"}
      PROVE  CausedAt(t)
    BY <1>s DEF CausedAt
<1>1. CASE ReceiveSync(t) \/ TransmitSync(t) \/ ReceivePush(t)
    BY <1>1, <1>s, <1>p DEF ReceiveSync, TransmitSync, ReceivePush, Goto
<1>2. CASE ReceiveBlocks(t)
    BY <1>2, <1>p DEF ReceiveBlocks, Goto, CausedAt, Refused
<1>3. CASE TransmitSource(t)
    <2>1. pc'[t] = "delete" => Refused(t[2])
        BY <1>3, <1>p DEF TransmitSource, Goto, Refused, FixedStay
    <2>2. QED
        BY <1>3, <1>p, <2>1 DEF TransmitSource, Goto, CausedAt
<1>4. CASE Dispatch(t) \/ DeliverMark(t) \/ DeliverReport(t) \/ DeliverSettle(t)
    BY <1>4, <1>s, <1>p DEF Dispatch, DeliverMark, DeliverReport, DeliverSettle, Goto
<1>5. CASE DispatchEndpoint(t) \/ DeliverHandover(t)
    <2>1. pc'[t] \in {"deliver", "idle", "acquire"}
        BY <1>5, <1>p DEF DispatchEndpoint, DeliverHandover, SpawnForward, Goto
    <2>2. QED
        BY <2>1, <1>s
<1>6. CASE Deliver(t)
    BY <1>6, <1>p DEF Deliver, Goto, CausedAt, Refused
<1>7. CASE Delete(t)
    BY <1>7, <1>p, <1>c DEF Delete, Goto, Bail, CausedAt
<1>8. CASE DeleteSync(t) \/ Inspect(t) \/ InspectRemove(t)
    BY <1>8, <1>s, <1>p DEF DeleteSync, Inspect, InspectRemove, Goto, Bail, AfterInspect
<1>9. CASE \/ Acquire(t) \/ ForwardPending(t) \/ RouteError(t) \/ ForwardRemove(t)
           \/ Contraindicate(t) \/ Release(t)
    BY <1>9, <1>s, <1>p DEF Acquire, ForwardPending, RouteError, ForwardRemove,
                            Contraindicate, Release, Goto
<1>10. CASE Route(t)
    <2>1. PICK n \in SUBSET Peers, d \in BOOLEAN :
             /\ delAfter' = [delAfter EXCEPT ![t] = d]
             /\ Goto(t, IF n # {} THEN "fetch" ELSE IF d THEN "drop" ELSE "release")
        BY <1>10 DEF Route
    <2>2. delAfter'[t] = d /\ pc'[t] = (IF n # {} THEN "fetch" ELSE IF d THEN "drop" ELSE "release")
        BY <2>1, <1>p DEF Goto
    <2>3. QED
        BY <2>2 DEF CausedAt
<1>11. CASE Fetch(t)
    <2>1. PICK aged \in AgeVerdicts(t[2]) :
             Goto(t, IF ~HasItem(t[2]) THEN "release"
                     ELSE IF LifetimeExceeded(t[2]) \/ HopCountExceeded(t[2]) \/ aged
                             \/ "Forward" \in Bundle(t[2]).drop THEN "delete"
                     ELSE "transfer")
        BY <1>11 DEF Fetch
    <2>2. pc'[t] \in {"release", "delete", "transfer"}
        BY <2>1, <1>p DEF Goto
    <2>3. pc'[t] = "delete" => \/ LifetimeExceeded(t[2]) \/ HopCountExceeded(t[2]) \/ aged
                               \/ "Forward" \in Bundle(t[2]).drop
        BY <2>1, <1>p DEF Goto
    <2>4. aged => Bundle(t[2]).age
        BY DEF AgeVerdicts
    <2>5. QED
        BY <2>2, <2>3, <2>4 DEF CausedAt, Refused, LifetimeExceeded, HopCountExceeded
<1>12. CASE \E n \in Peers, ok \in BOOLEAN : TransferDone(t, n, ok)
    BY <1>12, <1>s, <1>p DEF TransferDone
<1>13. CASE Joined(t)
    BY <1>13, <1>p DEF Joined, Goto, StoreStep, CausedAt
<1>14. QED
    BY <1>1, <1>2, <1>3, <1>4, <1>5, <1>6, <1>7, <1>8, <1>9, <1>10, <1>11, <1>12, <1>13
    DEF TaskStep, IngressStep, SharedStep, ForwardStep

\* A step of a task leaves the flags of the other tasks alone, and takes another
\* task at most to the start of forward().
LEMMA TaskFrame ==
    ASSUME TypeInv, ControlInv, NEW t \in Task, TaskStep(t)
    PROVE  /\ expired' = expired /\ registered' = registered
           /\ \A u \in Task : u # t => /\ pc'[u] \in {pc[u], "acquire"}
                                       /\ sent'[u] = sent[u] /\ delAfter'[u] = delAfter[u]
<1> USE TaskFacts
<1>p. /\ pc \in [Task -> Labels] /\ sent \in [Task -> BOOLEAN] /\ delAfter \in [Task -> BOOLEAN]
      /\ <<"dispatched", t[2]>> \in Task
    BY TaskIds DEF TypeInv, TypeOK
<1>1. \A u \in Task : u # t => pc'[u] \in {pc[u], "acquire"}
    <2>1. Move(t)
        BY <1>p, TaskMove DEF ControlInv
    <2>2. QED
        BY <2>1, <1>p DEF Move
<1>2. /\ expired' = expired /\ registered' = registered
      /\ sent' = sent \/ \E b \in BOOLEAN : sent' = [sent EXCEPT ![t] = b]
      /\ delAfter' = delAfter \/ \E b \in BOOLEAN : delAfter' = [delAfter EXCEPT ![t] = b]
    <2>1. CASE IngressStep(t) \/ SharedStep(t)
        BY <2>1 DEF IngressStep, SharedStep, ReceiveSync,
           ReceiveBlocks, ReceivePush, TransmitSync, TransmitSource, Dispatch,
           DispatchEndpoint, Deliver, DeliverMark, DeliverReport, DeliverSettle,
           DeliverHandover, Delete, DeleteSync, Inspect, InspectRemove, StoreStep, LocalStep
    <2>2. CASE Route(t)
        BY <2>2 DEF Route, LocalStep
    <2>3. CASE \E n \in Peers, ok \in BOOLEAN : TransferDone(t, n, ok)
        <3>1. PICK n \in Peers, ok \in BOOLEAN : TransferDone(t, n, ok)
            BY <2>3
        <3>2. (sent[t] \/ ok) \in BOOLEAN
            OBVIOUS
        <3>3. QED
            BY <3>1, <3>2 DEF TransferDone, LocalStep
    <2>4. CASE \/ Acquire(t) \/ ForwardPending(t) \/ RouteError(t) \/ Fetch(t) \/ Joined(t)
               \/ ForwardRemove(t) \/ Contraindicate(t) \/ Release(t)
        BY <2>4 DEF Acquire, ForwardPending, RouteError, Fetch, Joined, ForwardRemove,
                    Contraindicate, Release, StoreStep, LocalStep
    <2>5. QED
        BY <2>1, <2>2, <2>3, <2>4 DEF TaskStep, ForwardStep
<1>3. QED
    BY <1>1, <1>2, <1>p

\* CauseInv and FixedStay are inductive, given types and control.
LEMMA CauseStep ==
    ASSUME TypeInv, ControlInv, CauseInv, FixedStay, [Next]_vars
    PROVE  CauseInv' /\ FixedStay'
<1> USE TaskFacts, TaskIds
<1>p. pc \in [Task -> Labels]
    BY DEF TypeInv, TypeOK
<1>r. \A i : Refused(i)' <=> Refused(i)
    BY DEF Refused, Bundle
\* A step that takes tasks at most to harmless labels.
<1>s. ASSUME sent' = sent, delAfter' = delAfter, expired \subseteq expired',
             \A u \in Task : \/ pc'[u] = pc[u]
                             \/ pc'[u] \in {"queued", "acquire", "rx_sync", "tx_sync"}
      PROVE  CauseInv'
    BY <1>s, <1>r DEF CauseInv
<1>1. CASE \E t \in Task : TaskStep(t)
    <2>1. PICK t \in Task : TaskStep(t)
        BY <1>1
    <2>2. /\ expired' = expired /\ registered' = registered
          /\ \A u \in Task : u # t => /\ pc'[u] \in {pc[u], "acquire"}
                                      /\ sent'[u] = sent[u] /\ delAfter'[u] = delAfter[u]
        BY <2>1, TaskFrame
    <2>3. CausedAt(t)
        BY <2>1, TaskCaused
    <2>4. ASSUME NEW u \in Task
          PROVE  /\ pc'[u] \in {"delete", "delete_sync"} => u[2] \in expired \/ Refused(u[2])
                 /\ pc'[u] \in {"drop", "remove"} => delAfter'[u]
                 /\ pc'[u] = "remove" => sent'[u]
        BY <2>2, <2>3 DEF CausedAt, CauseInv
    <2>5. QED
        BY <2>2, <2>4, <1>r DEF CauseInv, FixedStay
<1>2. CASE JanitorStep
    <2>1. sent' = sent /\ delAfter' = delAfter /\ expired' = expired /\ registered' = registered
        BY <1>2 DEF JanitorStep, JanitorStart, JanitorCollect, JanitorReady, JanitorDone,
                    JanitorExpire, JanitorRead, JanitorForward, LocalStep
    <2>2. pc' = pc \/ \E i \in Ids, l \in {"queued", "acquire"} :
                         pc' = [pc EXCEPT ![<<"janitor", i>>] = l]
        BY <1>2 DEF JanitorStep, JanitorStart, JanitorCollect, JanitorReady, JanitorDone,
                    JanitorExpire, JanitorRead, JanitorForward, JanitorTask, Goto
    <2>3. QED
        BY <2>1, <2>2, <1>s, <1>p DEF FixedStay
<1>3. CASE \E i \in Bundles : Receive(i) \/ SendBundle(i)
    <2>1. PICK i \in Bundles : Receive(i) \/ SendBundle(i)
        BY <1>3
    <2>2. /\ sent' = sent /\ delAfter' = delAfter /\ expired' = expired
          /\ registered' = registered
          /\ \E l \in {"rx_sync", "tx_sync"} : pc' = [pc EXCEPT ![<<"ingress", i>>] = l]
        BY <2>1 DEF Receive, SendBundle, Goto, Ingress, StoreStep
    <2>3. QED
        BY <2>2, <1>s, <1>p DEF FixedStay
<1>4. CASE Environment /\ ~\E i \in Bundles : Receive(i) \/ SendBundle(i)
    <2>1. /\ sent' = sent /\ delAfter' = delAfter /\ expired \subseteq expired' /\ pc' = pc
          /\ \A e \in registered \ registered' : e \in Churn
        BY <1>4 DEF Environment, Register, Unregister, Subscribe, Unsubscribe, Pop,
                    HttpDelete, Expire
    <2>2. QED
        BY <2>1, <1>s DEF FixedStay
<1>5. CASE UNCHANGED vars
    BY <1>5, <1>s DEF vars, FixedStay
<1>6. QED
    BY <1>1, <1>2, <1>3, <1>4, <1>5 DEF Next

\* QueuedWereHanded is inductive, given types.
LEMMA HandedStep ==
    ASSUME TypeInv, QueuedWereHanded, [Next]_vars
    PROVE  QueuedWereHanded'
<1> USE TaskFacts
<1>p. queue \in [Eids -> Seq(Ids)] /\ handed \in [Ids -> Nat]
    BY DEF TypeInv, TypeOK
<1>q. \A e \in Eids : queue[e] \in Seq(Ids)
    BY <1>p
<1>s. ASSUME queue' = queue, handed' = handed
      PROVE  QueuedWereHanded'
    BY <1>s DEF QueuedWereHanded, Bundle
<1>1. CASE \E t \in Task : TaskStep(t)
    <2>1. PICK t \in Task : TaskStep(t)
        BY <1>1
    <2>2. CASE DeliverHandover(t)
        <3>1. \/ queue' = queue /\ handed' = handed
              \/ /\ queue' = queue \/ queue' = [queue EXCEPT ![Bundle(t[2]).dst] = Append(@, t[2])]
                 /\ handed' = [handed EXCEPT ![t[2]] = @ + 1]
            BY <2>2 DEF DeliverHandover, AgentPush
        <3>2. CASE handed' = [handed EXCEPT ![t[2]] = @ + 1]
            <4>1. t[2] \in Ids /\ handed'[t[2]] > 0
                BY <3>2, <1>p
            <4>2. \A i \in Ids : handed[i] > 0 => handed'[i] > 0
                BY <3>2, <1>p
            <4>3. SUFFICES ASSUME NEW e \in Eids, NEW k \in 1 .. Len(queue'[e])
                           PROVE  handed'[queue'[e][k]] > 0 /\ Bundle(queue'[e][k]).dst = e
                BY DEF QueuedWereHanded, Bundle
            <4>4. CASE queue'[e] = queue[e]
                <5>1. handed[queue[e][k]] > 0 /\ queue[e][k] \in Ids /\ Bundle(queue[e][k]).dst = e
                    BY <4>3, <4>4, <1>q DEF QueuedWereHanded
                <5>2. QED
                    BY <5>1, <4>2, <4>4
            <4>5. CASE queue'[e] = Append(queue[e], t[2]) /\ e = Bundle(t[2]).dst
                <5>1. CASE k \in 1 .. Len(queue[e])
                    <6>1. handed[queue[e][k]] > 0 /\ queue[e][k] \in Ids /\ Bundle(queue[e][k]).dst = e
                        BY <5>1, <1>q DEF QueuedWereHanded
                    <6>2. queue'[e][k] = queue[e][k]
                        BY <4>5, <5>1, <1>q, <4>1
                    <6>3. QED
                        BY <6>1, <6>2, <4>2
                <5>2. CASE k = Len(queue[e]) + 1
                    BY <4>1, <4>5, <5>2, <1>q
                <5>3. k \in 1 .. Len(queue[e]) \/ k = Len(queue[e]) + 1
                    BY <4>3, <4>5, <4>1, <1>q
                <5>4. QED
                    BY <5>1, <5>2, <5>3
            <4>6. \/ queue'[e] = queue[e]
                  \/ queue'[e] = Append(queue[e], t[2]) /\ e = Bundle(t[2]).dst
                BY <3>1, <1>p
            <4>7. QED
                BY <4>4, <4>5, <4>6
        <3>3. QED
            BY <3>1, <3>2, <1>s
    <2>3. CASE ~DeliverHandover(t)
        <3>1. queue' = queue /\ handed' = handed
            BY <2>1, <2>3 DEF TaskStep, IngressStep, SharedStep, ForwardStep, ReceiveSync,
               ReceiveBlocks, ReceivePush, TransmitSync, TransmitSource, Dispatch,
               DispatchEndpoint, Deliver, DeliverMark, DeliverReport, DeliverSettle, Delete,
               DeleteSync, Inspect, InspectRemove, Acquire, ForwardPending, Route,
               RouteError, Fetch, TransferDone, Joined, ForwardRemove, Contraindicate,
               Release, StoreStep, LocalStep
        <3>2. QED
            BY <3>1, <1>s
    <2>4. QED
        BY <2>2, <2>3
<1>2. CASE JanitorStep
    BY <1>2, <1>s DEF JanitorStep, JanitorStart, JanitorCollect, JanitorReady, JanitorDone,
                      JanitorExpire, JanitorRead, JanitorForward, LocalStep
<1>3. CASE \E e \in Churn : Register(e) \/ Unregister(e)
    <2>1. PICK e \in Churn : Register(e) \/ Unregister(e)
        BY <1>3
    <2>2. handed' = handed /\ queue' = [queue EXCEPT ![e] = <<>>]
        BY <2>1 DEF Register, Unregister
    <2>3. \A d \in Eids : queue'[d] = queue[d] \/ queue'[d] = <<>>
        BY <2>2, <1>p
    <2>4. QED
        BY <2>2, <2>3 DEF QueuedWereHanded, Bundle
<1>4. CASE \E e \in Eids : Pop(e)
    <2>1. PICK e \in Eids : Pop(e)
        BY <1>4
    <2>2. handed' = handed /\ queue' = [queue EXCEPT ![e] = Tail(queue[e])] /\ queue[e] # <<>>
        BY <2>1 DEF Pop
    <2>3. SUFFICES ASSUME NEW d \in Eids, NEW k \in 1 .. Len(queue'[d])
                   PROVE  handed[queue'[d][k]] > 0 /\ Bundle(queue'[d][k]).dst = d
        BY <2>2 DEF QueuedWereHanded, Bundle
    <2>4. CASE d = e
        <3>1. queue'[e] = Tail(queue[e])
            BY <2>2, <1>p
        <3>2. /\ Len(queue'[e]) = Len(queue[e]) - 1
              /\ \A j \in 1 .. Len(queue[e]) - 1 : queue'[e][j] = queue[e][j + 1]
            BY <3>1, <2>2, <1>q, HeadTailProperties
        <3>3. k + 1 \in 1 .. Len(queue[e]) /\ queue'[d][k] = queue[e][k + 1]
            BY <2>3, <2>4, <3>2, <1>q
        <3>4. QED
            BY <2>4, <3>3 DEF QueuedWereHanded
    <2>5. CASE d # e
        <3>1. queue'[d] = queue[d]
            BY <2>2, <2>5, <1>p
        <3>2. QED
            BY <2>3, <3>1 DEF QueuedWereHanded
    <2>6. QED
        BY <2>4, <2>5
<1>5. CASE \/ \E i \in Bundles : Receive(i) \/ SendBundle(i)
           \/ \E e \in Churn : Subscribe(e) \/ Unsubscribe(e)
           \/ \E i \in Managed : HttpDelete(i)
           \/ \E i \in Volatile : Expire(i)
    BY <1>5, <1>s DEF Receive, SendBundle, StoreStep, Subscribe, Unsubscribe, HttpDelete,
                      Expire
<1>6. CASE UNCHANGED vars
    BY <1>6, <1>s DEF vars
<1>7. QED
    BY <1>1, <1>2, <1>3, <1>4, <1>5, <1>6 DEF Next, Environment

\* A sync of a pack that holds anything loses nothing.
LEMMA SyncKeeps ==
    ASSUME NEW i, NEW c, c # {}, Sync(i, c)
    PROVE  bundles' = bundles
BY DEF Sync, HasConstraints, UpdateMetadata

\* A removal loses at most its own bundle.
LEMMA RemoveLoses ==
    ASSUME NEW i, Remove(i)
    PROVE  bundles \ bundles' \subseteq {i}
BY DEF Remove

\* A bundle that leaves the store has a cause to: what LossOnlyForCause says of
\* a step.
Caused ==
    \A i \in bundles \ bundles' :
        \/ i \in expired
        \/ handed'[i] > 0
        \/ \E t \in Task : t[2] = i /\ pc[t] = "drop" /\ delAfter[t]
        \/ \E t \in Task : t[2] = i /\ pc[t] = "remove" /\ delAfter[t] /\ sent[t]
        \/ \E t \in Task : t[2] = i /\ pc[t] = "delete_sync" /\ Refused(i)
        \/ \E t \in Task : Bundle(t[2]).ref = i /\ pc[t] = "inspect_remove"
        \/ i \in Managed

\* No step loses a bundle without a cause.
LEMMA StepCaused ==
    ASSUME TypeInv, CauseInv, QueuedWereHanded, [Next]_vars
    PROVE  Caused
<1> USE TaskFacts
<1>p. /\ queue \in [Eids -> Seq(Ids)] /\ handed \in [Ids -> Nat]
      /\ bundles \subseteq Ids
    BY DEF TypeInv, TypeOK, StoreTypeOK
<1>s. bundles \subseteq bundles' => Caused
    BY DEF Caused
<1>1. CASE \E t \in Task : TaskStep(t)
    <2>1. PICK t \in Task : TaskStep(t)
        BY <1>1
    <2>2. CASE ReceiveSync(t) \/ TransmitSync(t)
        <3>1. Sync(t[2], {"DispatchPending"})
            BY <2>2 DEF ReceiveSync, TransmitSync
        <3>2. QED
            BY <3>1, <1>s, SyncKeeps
    <2>3. CASE DeliverMark(t) \/ DeliverSettle(t) \/ ForwardPending(t) \/ Contraindicate(t)
        <3>1. ClearConstraints(bp[t] \cup {"LocalEndpoint"}) # {}
            BY DEF ClearConstraints
        <3>2. \E c : c # {} /\ Sync(t[2], c)
            BY <2>3, <3>1 DEF DeliverMark, DeliverSettle, ForwardPending, Contraindicate
        <3>3. QED
            BY <3>2, <1>s, SyncKeeps
    <2>4. CASE ReceiveBlocks(t) \/ DeliverReport(t) \/ Delete(t) \/ Joined(t) \/ ReceivePush(t)
        <3>1. bundles \subseteq bundles'
            BY <2>4 DEF ReceiveBlocks, DeliverReport, Delete, Joined, ReceivePush, ReportIf,
                        SendStatusReport, Push, StoreVars
        <3>2. QED
            BY <3>1, <1>s
    <2>5. CASE DeliverHandover(t)
        <3>1. CASE bundles' = bundles
            BY <3>1, <1>s
        <3>2. CASE bundles' # bundles
            <4>1. Remove(t[2]) /\ handed' = [handed EXCEPT ![t[2]] = @ + 1]
                BY <2>5, <3>2 DEF DeliverHandover, AgentPush, RemoveIfSingleton, StoreVars
            <4>2. handed'[t[2]] > 0
                BY <4>1, <1>p
            <4>3. QED
                BY <4>1, <4>2, RemoveLoses DEF Caused
        <3>3. QED
            BY <3>1, <3>2
    <2>6. CASE DeleteSync(t)
        <3>1. bundles \ bundles' \subseteq {t[2]}
            BY <2>6, RemoveLoses DEF DeleteSync, Sync, UpdateMetadata
        <3>2. pc[t] = "delete_sync" /\ (t[2] \in expired \/ Refused(t[2]))
            BY <2>6 DEF DeleteSync, CauseInv
        <3>3. QED
            BY <3>1, <3>2 DEF Caused
    <2>7. CASE InspectRemove(t)
        <3>1. bundles \ bundles' \subseteq {Bundle(t[2]).ref} /\ pc[t] = "inspect_remove"
            BY <2>7, RemoveLoses DEF InspectRemove
        <3>2. QED
            BY <3>1 DEF Caused
    <2>8. CASE ForwardRemove(t)
        <3>1. bundles \ bundles' \subseteq {t[2]}
            BY <2>8, RemoveLoses DEF ForwardRemove
        <3>2. pc[t] = "drop" \/ pc[t] = "remove"
            BY <2>8 DEF ForwardRemove
        <3>3. pc[t] \in {"drop", "remove"} => delAfter[t]
            BY DEF CauseInv
        <3>4. pc[t] = "remove" => sent[t]
            BY DEF CauseInv
        <3>5. QED
            BY <3>1, <3>2, <3>3, <3>4 DEF Caused
    <2>9. CASE \/ TransmitSource(t) \/ Dispatch(t) \/ DispatchEndpoint(t) \/ Deliver(t)
               \/ Inspect(t) \/ Acquire(t) \/ Route(t) \/ RouteError(t) \/ Fetch(t)
               \/ Release(t) \/ \E n \in Peers, ok \in BOOLEAN : TransferDone(t, n, ok)
        <3>1. bundles' = bundles
            BY <2>9 DEF TransmitSource, Dispatch, DispatchEndpoint, Deliver, Inspect, Acquire,
                        Route, RouteError, Fetch, Release, TransferDone, LocalStep
        <3>2. QED
            BY <3>1, <1>s
    <2>10. QED
        BY <2>1, <2>2, <2>3, <2>4, <2>5, <2>6, <2>7, <2>8, <2>9
        DEF TaskStep, IngressStep, SharedStep, ForwardStep
<1>2. CASE \E i \in Ids : JanitorExpire(i)
    <2>1. PICK i \in Ids : JanitorExpire(i)
        BY <1>2
    <2>2. CASE i \in expired
        BY <2>1, <2>2, RemoveLoses DEF JanitorExpire, Caused
    <2>3. CASE i \notin expired
        BY <2>1, <2>3, <1>s DEF JanitorExpire, StoreVars
    <2>4. QED
        BY <2>2, <2>3
<1>3. CASE JanitorStep /\ ~\E i \in Ids : JanitorExpire(i)
    <2>1. bundles' = bundles
        BY <1>3 DEF JanitorStep, JanitorStart, JanitorCollect, JanitorReady, JanitorDone,
                    JanitorRead, JanitorForward, LocalStep
    <2>2. QED
        BY <2>1, <1>s
<1>4. CASE \E e \in Eids : Pop(e)
    <2>1. PICK e \in Eids : Pop(e)
        BY <1>4
    <2>2. queue[e] \in Seq(Ids) /\ queue[e] # <<>> /\ handed' = handed
        BY <2>1, <1>p DEF Pop
    <2>3. 1 \in 1 .. Len(queue[e]) /\ Head(queue[e]) = queue[e][1]
        BY <2>2
    <2>4. handed'[Head(queue[e])] > 0
        BY <2>2, <2>3 DEF QueuedWereHanded
    <2>5. bundles \ bundles' \subseteq {Head(queue[e])}
        BY <2>1, RemoveLoses DEF Pop, RemoveIfSingleton, StoreVars
    <2>6. QED
        BY <2>4, <2>5 DEF Caused
<1>5. CASE \E i \in Managed : HttpDelete(i)
    BY <1>5, RemoveLoses DEF HttpDelete, Caused
<1>6. CASE \/ \E i \in Bundles : Receive(i) \/ SendBundle(i)
           \/ \E e \in Churn : Register(e) \/ Unregister(e) \/ Subscribe(e) \/ Unsubscribe(e)
           \/ \E i \in Volatile : Expire(i)
    <2>1. bundles \subseteq bundles'
        BY <1>6 DEF Receive, SendBundle, Push, Register, Unregister, Subscribe, Unsubscribe,
                    Expire
    <2>2. QED
        BY <2>1, <1>s
<1>7. CASE UNCHANGED vars
    BY <1>7, <1>s DEF vars
<1>8. QED
    BY <1>1, <1>2, <1>3, <1>4, <1>5, <1>6, <1>7 DEF Next, JanitorStep, Environment

\* No bundle is lost but for one of the causes the code has: not by a sync of a
\* pack that happens to be empty, nor by a transfer that failed.
THEOREM LostOnlyForCause == Spec => LossOnlyForCause
<1> DEFINE Inv == TypeInv /\ ControlInv /\ CauseInv /\ FixedStay /\ QueuedWereHanded
<1>1. Init => Inv
    <2>1. Init => CauseInv /\ FixedStay
        BY DEF Init, CauseInv, FixedStay
    <2>2. Init => QueuedWereHanded
        BY DEF Init, QueuedWereHanded
    <2>3. QED
        BY <2>1, <2>2, TypeInit, ControlInit
<1>2. Inv /\ [Next]_vars => Inv'
    BY TypeStep, ControlStep, CauseStep, HandedStep
<1>3. Inv /\ [Next]_vars => [Caused]_vars
    BY StepCaused
<1>4. QED
    BY <1>1, <1>2, <1>3, PTL DEF Spec, LossOnlyForCause, Caused

------------------------------------------------------------------------------
\* Bundles for this node, and bundles it refuses.

\* What the steps of others do to the store entry of bundle i: nothing, or they
\* remove it.
StoreFrame(i) ==
    /\ IsKnown(i)' <=> IsKnown(i)
    /\ IsKnown(i) => metadata'[i] \in {metadata[i], ClearConstraints(metadata[i]) \cup {"Deleted"}}
    /\ i \in bundles' => i \in bundles

\* A push of another id.
LEMMA PushFrame ==
    ASSUME NEW i, NEW j, i # j, Push(j)
    PROVE  StoreFrame(i)
BY DEF StoreFrame, Push, IsKnown, Put

\* A removal, of whichever id.
LEMMA RemoveFrame ==
    ASSUME NEW i, NEW j, Remove(j)
    PROVE  StoreFrame(i)
<1>1. CASE IsKnown(j)
    <2>1. metadata' = Put(metadata, j, ClearConstraints(metadata[j]) \cup {"Deleted"})
        BY <1>1 DEF Remove
    <2>2. bundles' = bundles \ {j}
        BY <1>1 DEF Remove
    <2>3. DOMAIN metadata' = DOMAIN metadata
        BY <1>1, <2>1 DEF Put, IsKnown
    <2>4. IsKnown(i) => metadata'[i] = IF i = j THEN ClearConstraints(metadata[j]) \cup {"Deleted"}
                                       ELSE metadata[i]
        BY <2>1 DEF Put, IsKnown
    <2>5. QED
        BY <2>2, <2>3, <2>4 DEF StoreFrame, IsKnown
<1>2. CASE ~IsKnown(j)
    BY <1>2 DEF StoreFrame, Remove, IsKnown
<1>3. QED
    BY <1>1, <1>2

\* A sync of a pack of another id.
LEMMA SyncFrame ==
    ASSUME NEW i, NEW j, i # j, NEW c, Sync(j, c)
    PROVE  StoreFrame(i)
<1>1. CASE UpdateMetadata(j, c)
    BY <1>1 DEF StoreFrame, UpdateMetadata, IsKnown, Put
<1>2. QED
    BY <1>1, RemoveFrame DEF Sync

\* A status report, whose id is no bundle's.
LEMMA ReportFrame ==
    ASSUME NEW i \in Bundles, NEW j \in Ids, NEW s \in Status, NEW r, ReportIf(r, j, s)
    PROVE  StoreFrame(i)
<1>1. CASE r /\ Bundle(j).admin = "no"
    <2>1. ReportId(j, s) \in Bundles \X Status
        BY <1>1, BundleFacts DEF ReportId
    <2>2. ReportId(j, s) # i
        BY <2>1, ProcessingAssumption
    <2>3. QED
        BY <1>1, <2>2 DEF ReportIf, SendStatusReport, StoreFrame, IsKnown, Put
<1>2. CASE ~(r /\ Bundle(j).admin = "no")
    BY <1>2 DEF ReportIf, StoreFrame, StoreVars, IsKnown
<1>3. QED
    BY <1>1, <1>2

\* A task of another id does no more than that.
LEMMA TaskStoreFrame ==
    ASSUME NEW i \in Bundles, NEW t \in Task, t[2] # i, TaskStep(t)
    PROVE  StoreFrame(i)
<1> USE TaskFacts
<1>u. UNCHANGED StoreVars => StoreFrame(i)
    BY DEF StoreFrame, StoreVars, IsKnown
<1>1. CASE \/ ReceiveSync(t) \/ TransmitSync(t) \/ DeliverMark(t) \/ DeliverSettle(t)
           \/ ForwardPending(t) \/ DeleteSync(t) \/ Contraindicate(t)
    <2>1. \E c : Sync(t[2], c)
        BY <1>1 DEF ReceiveSync, TransmitSync, DeliverMark, DeliverSettle, ForwardPending,
                    DeleteSync, Contraindicate
    <2>2. QED
        BY <2>1, SyncFrame
<1>2. CASE ReceiveBlocks(t) \/ DeliverReport(t) \/ Delete(t) \/ Joined(t)
    <2>1. \E r : \E s \in Status : ReportIf(r, t[2], s)
        BY <1>2 DEF ReceiveBlocks, DeliverReport, Delete, Joined, Status
    <2>2. QED
        BY <2>1, ReportFrame
<1>3. CASE ReceivePush(t)
    BY <1>3, PushFrame DEF ReceivePush
<1>4. CASE InspectRemove(t) \/ ForwardRemove(t)
    BY <1>4, RemoveFrame DEF InspectRemove, ForwardRemove
<1>5. CASE DeliverHandover(t)
    BY <1>5, <1>u, RemoveFrame DEF DeliverHandover, AgentPush, RemoveIfSingleton, StoreVars
<1>6. CASE \/ TransmitSource(t) \/ Dispatch(t) \/ DispatchEndpoint(t) \/ Deliver(t)
           \/ Inspect(t) \/ Acquire(t) \/ Route(t) \/ RouteError(t) \/ Fetch(t)
           \/ Release(t) \/ \E n \in Peers, ok \in BOOLEAN : TransferDone(t, n, ok)
    BY <1>6, <1>u DEF TransmitSource, Dispatch, DispatchEndpoint, Deliver, Inspect, Acquire,
                      Route, RouteError, Fetch, Release, TransferDone, LocalStep, StoreVars
<1>7. QED
    BY <1>1, <1>2, <1>3, <1>4, <1>5, <1>6 DEF TaskStep, IngressStep, SharedStep, ForwardStep

\* A task moves itself and the forward() it spawns; the pack of an ingress task is
\* the fresh one with DispatchPending.
LEMMA TaskPacks ==
    ASSUME TypeInv, ControlInv, NEW t \in Task, TaskStep(t)
    PROVE  /\ pc[t] # "idle"
           /\ \A u \in Task : u[2] # t[2] => pc'[u] = pc[u]
           /\ \A i \in Ids : bp'[<<"ingress", i>>] \in {bp[<<"ingress", i>>], {"DispatchPending"}}
           /\ \A i \in Ids : i # t[2] => handed'[i] = handed[i]
           /\ jpc' = jpc /\ todo' = todo
<1> USE TaskFacts, TaskIds
<1>p. /\ pc \in [Task -> Labels] /\ bp \in [Task -> SUBSET Constraint] /\ handed \in [Ids -> Nat]
    BY DEF TypeInv, TypeOK
<1>m. Move(t) /\ jpc' = jpc
    BY <1>p, TaskMove DEF ControlInv
<1>1. pc[t] # "idle"
    BY <1>m DEF Move, HolderLabels, ForwardLabels, SharedLabels
<1>2. \A u \in Task : u[2] # t[2] => pc'[u] = pc[u]
    BY <1>m, <1>p DEF Move
<1>3. /\ todo' = todo
      /\ handed' = handed \/ handed' = [handed EXCEPT ![t[2]] = @ + 1]
    BY DEF TaskStep, IngressStep, SharedStep, ForwardStep, ReceiveSync,
       ReceiveBlocks, ReceivePush, TransmitSync, TransmitSource, Dispatch,
       DispatchEndpoint, Deliver, DeliverMark, DeliverReport, DeliverSettle, DeliverHandover,
       Delete, DeleteSync, Inspect, InspectRemove, Acquire, ForwardPending, Route,
       RouteError, Fetch, TransferDone, Joined, ForwardRemove, Contraindicate,
       Release, StoreStep, LocalStep
<1>k. pc[t] \in {"pending", "fetch", "release"} => t[1] # "ingress"
    BY DEF ControlInv, LabelInv, IngressLabels, ReceiveLabels, DeliverLabels, SharedLabels
<1>4. \A i \in Ids : bp'[<<"ingress", i>>] \in {bp[<<"ingress", i>>], {"DispatchPending"}}
    <2>1. CASE ReceiveSync(t) \/ TransmitSync(t)
        BY <2>1, <1>p DEF ReceiveSync, TransmitSync
    <2>2. CASE ForwardPending(t) \/ Fetch(t) \/ Release(t)
        <3>1. bp' = bp \/ \E c \in SUBSET Constraint : bp' = [bp EXCEPT ![t] = c]
            BY <2>2, <1>p DEF ForwardPending, Fetch, Release, Constraint
        <3>2. t[1] # "ingress"
            BY <2>2, <1>k DEF ForwardPending, Fetch, Release
        <3>3. QED
            BY <3>1, <3>2, <1>p
    <2>3. CASE DispatchEndpoint(t) \/ DeliverHandover(t)
        <3>1. bp' = bp \/ \E c : bp' = [bp EXCEPT ![<<"dispatched", t[2]>>] = c]
            BY <2>3 DEF DispatchEndpoint, DeliverHandover, SpawnForward
        <3>2. QED
            BY <3>1, <1>p
    <2>4. CASE bp' = bp
        BY <2>4
    <2>5. QED
        BY <2>1, <2>2, <2>3, <2>4 DEF TaskStep, IngressStep, SharedStep, ForwardStep,
           ReceiveBlocks, ReceivePush, TransmitSource, Dispatch, Deliver, DeliverMark,
           DeliverReport, DeliverSettle, Delete, DeleteSync, Inspect, InspectRemove, Acquire,
           Route, RouteError, TransferDone, Joined, ForwardRemove, Contraindicate, StoreStep,
           LocalStep
<1>5. QED
    BY <1>m, <1>1, <1>2, <1>3, <1>4, <1>p

\* A pack of an ingress task has nothing but DispatchPending, only bundles from
\* outside have such tasks, and applications register no other endpoints.
IngressInv ==
    /\ \A i \in Ids : bp[<<"ingress", i>>] \subseteq {"DispatchPending"}
    /\ \A i \in Ids : pc[<<"ingress", i>>] # "idle" \/ handed[i] > 0 => i \in Bundles
    /\ registered \subseteq RegisteredAtStart \cup Churn

\* IngressInv is inductive, given types and control.
LEMMA IngressInvStep ==
    ASSUME TypeInv, ControlInv, IngressInv, [Next]_vars
    PROVE  IngressInv'
<1> USE TaskFacts, TaskIds
<1>p. /\ pc \in [Task -> Labels] /\ bp \in [Task -> SUBSET Constraint] /\ handed \in [Ids -> Nat]
    BY DEF TypeInv, TypeOK
<1>1. CASE \E t \in Task : TaskStep(t)
    <2>1. PICK t \in Task : TaskStep(t)
        BY <1>1
    <2>2. /\ pc[t] # "idle"
          /\ \A u \in Task : u[2] # t[2] => pc'[u] = pc[u]
          /\ \A i \in Ids : bp'[<<"ingress", i>>] \in {bp[<<"ingress", i>>], {"DispatchPending"}}
          /\ \A i \in Ids : i # t[2] => handed'[i] = handed[i]
        BY <2>1, TaskPacks
    <2>3. registered' = registered
        BY <2>1, TaskFrame
    <2>4. ASSUME NEW i \in Ids, pc'[<<"ingress", i>>] # "idle" \/ handed'[i] > 0
          PROVE  i \in Bundles
        <3>1. CASE i # t[2]
            BY <2>2, <2>4, <3>1 DEF IngressInv
        <3>2. CASE i = t[2] /\ t[1] = "ingress"
            BY <2>2, <3>2 DEF IngressInv
        <3>3. CASE i = t[2] /\ t[1] # "ingress"
            <4>1. Move(t)
                BY <2>1, <1>p, TaskMove DEF ControlInv
            <4>2. pc'[<<"ingress", i>>] = pc[<<"ingress", i>>]
                <5>1. \E l : pc' = [pc EXCEPT ![t] = l]
                    BY <4>1, <3>3 DEF Move
                <5>2. <<"ingress", i>> \in Task /\ <<"ingress", i>> # t
                    BY <3>3
                <5>3. QED
                    BY <5>1, <5>2, <1>p
            <4>3. pc[t] # "handover"
                BY <3>3 DEF ControlInv, LabelInv, Kinds, ForwardKinds, IdleLabels,
                            HolderLabels, ForwardLabels, SharedLabels
            <4>4. handed' = handed
                BY <2>1, <4>3 DEF TaskStep, IngressStep, SharedStep, ForwardStep, ReceiveSync,
                   ReceiveBlocks, ReceivePush, TransmitSync, TransmitSource, Dispatch,
                   DispatchEndpoint, Deliver, DeliverMark, DeliverReport, DeliverSettle,
                   DeliverHandover, Delete, DeleteSync, Inspect, InspectRemove, Acquire,
                   ForwardPending, Route, RouteError, Fetch, TransferDone, Joined,
                   ForwardRemove, Contraindicate, Release, StoreStep, LocalStep
            <4>5. QED
                BY <2>4, <4>2, <4>4 DEF IngressInv
        <3>4. QED
            BY <3>1, <3>2, <3>3
    <2>5. \A i \in Ids : bp'[<<"ingress", i>>] \subseteq {"DispatchPending"}
        BY <2>2 DEF IngressInv
    <2>6. QED
        BY <2>3, <2>4, <2>5 DEF IngressInv
<1>2. CASE JanitorStep
    <2>1. handed' = handed /\ registered' = registered
        BY <1>2 DEF JanitorStep, JanitorStart, JanitorCollect, JanitorReady, JanitorDone,
                    JanitorExpire, JanitorRead, JanitorForward, LocalStep
    <2>2. /\ pc' = pc \/ \E i \in Ids, l \in Labels : pc' = [pc EXCEPT ![<<"janitor", i>>] = l]
          /\ bp' = bp \/ \E i \in Ids : \E c : bp' = [bp EXCEPT ![<<"janitor", i>>] = c]
        BY <1>2 DEF JanitorStep, JanitorStart, JanitorCollect, JanitorReady, JanitorDone,
                    JanitorExpire, JanitorRead, JanitorForward, JanitorTask, LocalStep, Goto,
                    Labels
    <2>3. \A i \in Ids : /\ pc'[<<"ingress", i>>] = pc[<<"ingress", i>>]
                         /\ bp'[<<"ingress", i>>] = bp[<<"ingress", i>>]
        BY <2>2, <1>p
    <2>4. QED
        BY <2>1, <2>3 DEF IngressInv
<1>3. CASE \E i \in Bundles : Receive(i) \/ SendBundle(i)
    <2>1. PICK i \in Bundles : Receive(i) \/ SendBundle(i)
        BY <1>3
    <2>2. /\ i \in Ids /\ handed' = handed /\ bp' = bp /\ registered' = registered
          /\ \E l \in Labels : pc' = [pc EXCEPT ![<<"ingress", i>>] = l]
        BY <2>1, ProcessingAssumption DEF Receive, SendBundle, Goto, Ingress, StoreStep,
                                          Labels, ReceiveLabels
    <2>3. QED
        BY <2>2, <1>p DEF IngressInv
<1>4. CASE Environment /\ ~\E i \in Bundles : Receive(i) \/ SendBundle(i)
    <2>1. /\ pc' = pc /\ bp' = bp /\ handed' = handed
          /\ registered' \subseteq registered \cup Churn
        BY <1>4 DEF Environment, Register, Unregister, Subscribe, Unsubscribe, Pop,
                    HttpDelete, Expire
    <2>2. QED
        BY <2>1 DEF IngressInv
<1>5. CASE UNCHANGED vars
    BY <1>5 DEF vars, IngressInv
<1>6. QED
    BY <1>1, <1>2, <1>3, <1>4, <1>5 DEF Next

\* The bundles that forward() is never called on: those for this node, and
\* those that ingress refuses.
Stays(i) == Local(i) \/ IngressRefuses(i)

NeverForwarded(i) ==
    /\ pc[<<"dispatched", i>>] = "idle" /\ pc[<<"janitor", i>>] = "idle"
    /\ IsKnown(i) => "ForwardPending" \notin metadata[i]
    /\ jpc = "read" => i \notin todo

\* A bundle for this node gets LocalEndpoint before its agent gets the bundle,
\* and nobody takes it away.
HeldOnce(i) ==
    IsKnown(i) /\ (handed[i] > 0 \/ pc[<<"ingress", i>>] = "handover")
        => "LocalEndpoint" \in metadata[i]

\* A refused bundle comes no further than delete().
TurnedAway(i) ==
    /\ pc[<<"ingress", i>>] \in {"idle", "rx_sync", "rx_blocks", "tx_sync", "tx_source",
                                 "delete", "delete_sync"}
    /\ handed[i] = 0
    /\ IsKnown(i) /\ pc[<<"ingress", i>>] = "idle" => i \notin bundles

StayInv ==
    \A i \in Bundles :
        /\ Stays(i) => NeverForwarded(i)
        /\ Local(i) /\ i \notin Resubmitted => HeldOnce(i)
        /\ IngressRefuses(i) => TurnedAway(i)

\* What a step that does not run a task of bundle i, and does not start one,
\* leaves of it.
Frame(i) ==
    /\ StoreFrame(i)
    /\ \A k \in Kinds : pc'[<<k, i>>] = pc[<<k, i>>]
    /\ handed'[i] = handed[i]

\* Every other step is of that kind.
LEMMA FrameStep ==
    ASSUME TypeInv, ControlInv, NEW i \in Bundles, [Next]_vars
    PROVE  \/ Frame(i)
           \/ \E t \in Task : t[2] = i /\ TaskStep(t)
           \/ Receive(i) \/ SendBundle(i) \/ JanitorRead(i) \/ JanitorForward(i)
<1> USE TaskFacts, TaskIds
<1>p. /\ pc \in [Task -> Labels] /\ i \in Ids
      /\ \A k \in Kinds : <<k, i>> \in Task
    BY ProcessingAssumption DEF TypeInv, TypeOK, Task
<1>u. UNCHANGED StoreVars => StoreFrame(i)
    BY DEF StoreFrame, StoreVars, IsKnown
<1>1. CASE \E t \in Task : TaskStep(t)
    <2>1. PICK t \in Task : TaskStep(t)
        BY <1>1
    <2>2. CASE t[2] # i
        <3>1. StoreFrame(i)
            BY <2>1, <2>2, TaskStoreFrame
        <3>2. /\ \A u \in Task : u[2] # t[2] => pc'[u] = pc[u]
              /\ handed'[i] = handed[i]
            BY <2>1, <2>2, <1>p, TaskPacks
        <3>3. QED
            BY <3>1, <3>2, <2>2, <1>p DEF Frame
    <2>3. QED
        BY <2>1, <2>2
<1>2. CASE JanitorStart \/ JanitorCollect \/ JanitorReady \/ JanitorDone
    BY <1>2, <1>u DEF JanitorStart, JanitorCollect, JanitorReady, JanitorDone, Frame, StoreVars
<1>3. CASE \E j \in Ids : JanitorExpire(j)
    BY <1>3, <1>u, RemoveFrame DEF JanitorExpire, Frame
<1>4. CASE \E j \in Ids : JanitorRead(j) \/ JanitorForward(j)
    <2>1. PICK j \in Ids : JanitorRead(j) \/ JanitorForward(j)
        BY <1>4
    <2>2. CASE j # i
        <3>1. StoreFrame(i) /\ handed' = handed
            BY <2>1, <1>u DEF JanitorRead, JanitorForward, LocalStep, StoreVars
        <3>2. pc' = pc \/ \E l \in Labels : pc' = [pc EXCEPT ![<<"janitor", j>>] = l]
            BY <2>1 DEF JanitorRead, JanitorForward, JanitorTask, Goto, Labels
        <3>3. QED
            BY <3>1, <3>2, <2>2, <1>p DEF Frame
    <2>3. QED
        BY <2>1, <2>2
<1>5. CASE \E j \in Bundles : Receive(j) \/ SendBundle(j)
    <2>1. PICK j \in Bundles : Receive(j) \/ SendBundle(j)
        BY <1>5
    <2>2. CASE j # i
        <3>1. Push(j) /\ handed' = handed /\ \E l \in Labels : pc' = [pc EXCEPT ![<<"ingress", j>>] = l]
            BY <2>1 DEF Receive, SendBundle, Goto, Ingress, StoreStep, Labels, ReceiveLabels
        <3>2. QED
            BY <3>1, <2>2, <1>p, PushFrame DEF Frame
    <2>3. QED
        BY <2>1, <2>2
<1>6. CASE \/ \E e \in Churn : Register(e) \/ Unregister(e) \/ Subscribe(e) \/ Unsubscribe(e)
           \/ \E j \in Volatile : Expire(j)
    BY <1>6, <1>u DEF Register, Unregister, Subscribe, Unsubscribe, Expire, Frame, StoreVars
<1>7. CASE \/ \E e \in Eids : Pop(e)
           \/ \E j \in Managed : HttpDelete(j)
    BY <1>7, <1>u, RemoveFrame DEF Pop, RemoveIfSingleton, HttpDelete, Frame
<1>8. CASE UNCHANGED vars
    BY <1>8, <1>u DEF vars, Frame, StoreVars
<1>9. QED
    BY <1>1, <1>2, <1>3, <1>4, <1>5, <1>6, <1>7, <1>8 DEF Next, JanitorStep, Environment

\* A pack that holds anything replaces the metadata.
LEMMA SyncMeta ==
    ASSUME NEW i, NEW c, c # {}, IsKnown(i), Sync(i, c)
    PROVE  metadata'[i] = c /\ IsKnown(i)' /\ bundles' = bundles /\ SyncOk(i, c)
BY DEF Sync, SyncOk, HasConstraints, UpdateMetadata, IsKnown, Put

\* A step of the ingress task of a bundle that stays.
LEMMA IngressStays ==
    ASSUME TypeInv, ControlInv, OnceInv, IngressInv, StayInv, NEW i \in Bundles, Stays(i),
           TaskStep(<<"ingress", i>>), jpc' = "read" => i \notin todo'
    PROVE  /\ NeverForwarded(i)'
           /\ Local(i) /\ i \notin Resubmitted => HeldOnce(i)'
           /\ IngressRefuses(i) => TurnedAway(i)'
<1> USE TaskFacts, TaskIds
<1> DEFINE t == <<"ingress", i>>
           f == <<"dispatched", i>>
           Early == {"rx_sync", "rx_blocks", "tx_sync", "tx_source", "delete", "delete_sync"}
<1>p. /\ pc \in [Task -> Labels] /\ handed \in [Ids -> Nat]
      /\ i \in Ids /\ t \in Task /\ t[1] = "ingress" /\ t[2] = i
      /\ f \in Task /\ f # t /\ <<"janitor", i>> \in Task
      /\ bundles \subseteq DOMAIN metadata
    BY ProcessingAssumption DEF TypeInv, TypeOK, StoredIsKnown
<1>i. /\ NeverForwarded(i)
      /\ Local(i) /\ i \notin Resubmitted => HeldOnce(i)
      /\ IngressRefuses(i) => TurnedAway(i)
    BY DEF StayInv
<1>k. /\ pc[t] # "idle" /\ pc[t] \in IngressLabels /\ IsKnown(i)
      /\ i \notin Resubmitted => handed[i] = 0
      /\ bp[t] \subseteq {"DispatchPending"}
    <2>1. pc[t] # "idle"
        BY <1>p, TaskPacks
    <2>2. pc[t] \in IngressLabels /\ IsKnown(i)
        BY <2>1, <1>p DEF ControlInv, LabelInv
    <2>3. QED
        BY <2>1, <2>2, <1>p DEF OnceInv, IngressInv
<1>r. IngressRefuses(i) => pc[t] \in Early /\ handed[i] = 0
    BY <1>i, <1>k DEF TurnedAway
<1>m. /\ "ForwardPending" \notin metadata[i]
      /\ \A c : "ForwardPending" \notin ClearConstraints(c)
    BY <1>i, <1>k DEF NeverForwarded, ClearConstraints
\* A step after which the task runs on, or ends with the bundle gone if refused.
<1>s. ASSUME pc'[f] = pc[f], pc'[<<"janitor", i>>] = pc[<<"janitor", i>>],
             "ForwardPending" \notin metadata'[i], handed'[i] = handed[i], pc'[t] # "handover",
             IngressRefuses(i) => pc'[t] \in Early \/ (pc'[t] = "idle" /\ i \notin bundles')
      PROVE  /\ NeverForwarded(i)'
             /\ Local(i) /\ i \notin Resubmitted => HeldOnce(i)'
             /\ IngressRefuses(i) => TurnedAway(i)'
    <2>1. NeverForwarded(i)'
        BY <1>s, <1>i DEF NeverForwarded
    <2>2. i \notin Resubmitted => HeldOnce(i)'
        BY <1>s, <1>k DEF HeldOnce
    <2>3. IngressRefuses(i) => TurnedAway(i)'
        BY <1>s, <1>r DEF TurnedAway
    <2>4. QED
        BY <2>1, <2>2, <2>3
\* A step that moves only the task itself.
<1>g. ASSUME NEW l, Goto(t, l)
      PROVE  /\ pc'[f] = pc[f] /\ pc'[<<"janitor", i>>] = pc[<<"janitor", i>>] /\ pc'[t] = l
    BY <1>g, <1>p DEF Goto
<1>h. ASSUME NEW l \in Early, Goto(t, l), "ForwardPending" \notin metadata'[i], handed' = handed
      PROVE  /\ NeverForwarded(i)'
             /\ Local(i) /\ i \notin Resubmitted => HeldOnce(i)'
             /\ IngressRefuses(i) => TurnedAway(i)'
    BY <1>h, <1>g, <1>s
<1>1. CASE ReceiveSync(t) \/ TransmitSync(t)
    <2>1. Sync(i, {"DispatchPending"}) /\ handed' = handed
        BY <1>1, <1>p DEF ReceiveSync, TransmitSync
    <2>2. metadata'[i] = {"DispatchPending"} /\ SyncOk(i, {"DispatchPending"})
        BY <2>1, <1>k, SyncMeta
    <2>3. Goto(t, "rx_blocks") \/ Goto(t, "tx_source")
        BY <1>1, <2>2, <1>p DEF ReceiveSync, TransmitSync
    <2>4. QED
        BY <2>1, <2>2, <2>3, <1>h
<1>2. CASE ReceiveBlocks(t) \/ DeliverReport(t) \/ Delete(t)
    <2>1. \E r : \E s \in Status : ReportIf(r, i, s)
        BY <1>2, <1>p DEF ReceiveBlocks, DeliverReport, Delete, Status
    <2>2. StoreFrame(i)
        BY <2>1, <1>p, ReportFrame
    <2>3. "ForwardPending" \notin metadata'[i] /\ handed' = handed
        BY <1>2, <2>2, <1>k, <1>m DEF StoreFrame, ReceiveBlocks, DeliverReport, Delete, StoreStep
    <2>4. CASE ReceiveBlocks(t)
        <3>1. Goto(t, "delete") \/ (Goto(t, "rx_push") /\ ~IngressRefuses(i))
            BY <2>4, <1>p DEF ReceiveBlocks, IngressRefuses
        <3>2. CASE Goto(t, "delete")
            BY <3>2, <2>3, <1>h
        <3>3. CASE Goto(t, "rx_push") /\ ~IngressRefuses(i)
            BY <3>3, <2>3, <1>s, <1>g
        <3>4. QED
            BY <3>1, <3>2, <3>3
    <2>5. CASE DeliverReport(t)
        <3>1. Goto(t, "settle") /\ ~IngressRefuses(i)
            BY <2>5, <1>p, <1>r DEF DeliverReport
        <3>2. QED
            BY <3>1, <2>3, <1>s, <1>g
    <2>6. CASE Delete(t)
        <3>1. Goto(t, "delete_sync") \/ (Goto(t, "idle") /\ i \notin bundles)
            BY <2>6, <1>p DEF Delete, Bail, HasItem
        <3>2. i \notin bundles => i \notin bundles'
            BY <2>2 DEF StoreFrame
        <3>3. CASE Goto(t, "delete_sync")
            BY <3>3, <2>3, <1>h
        <3>4. CASE Goto(t, "idle") /\ i \notin bundles
            BY <3>4, <3>2, <2>3, <1>s, <1>g
        <3>5. QED
            BY <3>1, <3>3, <3>4
    <2>7. QED
        BY <1>2, <2>4, <2>5, <2>6
<1>3. CASE ReceivePush(t)
    <2>1. Push(i) /\ Goto(t, "dispatch") /\ handed' = handed /\ ~IngressRefuses(i)
        BY <1>3, <1>p, <1>r DEF ReceivePush, StoreStep
    <2>2. metadata'[i] = {} \/ metadata' = metadata
        BY <2>1 DEF Push, Put
    <2>3. QED
        BY <2>1, <2>2, <1>m, <1>s, <1>g
<1>4. CASE TransmitSource(t)
    <2>1. metadata' = metadata /\ handed' = handed
        BY <1>4 DEF TransmitSource, LocalStep
    <2>2. IngressRefuses(i) => Bundle(i).src \notin registered \cup {NoEid}
        BY DEF IngressRefuses, IngressInv
    <2>3. Goto(t, "delete") \/ (Goto(t, "dispatch") /\ ~IngressRefuses(i))
        BY <1>4, <2>2, <1>p DEF TransmitSource
    <2>4. CASE Goto(t, "delete")
        BY <2>1, <2>4, <1>m, <1>h
    <2>5. CASE Goto(t, "dispatch") /\ ~IngressRefuses(i)
        BY <2>1, <2>5, <1>m, <1>s, <1>g
    <2>6. QED
        BY <2>3, <2>4, <2>5
<1>5. CASE Dispatch(t) \/ Deliver(t) \/ Inspect(t)
    <2>1. metadata' = metadata /\ handed' = handed /\ ~IngressRefuses(i)
        BY <1>5, <1>r DEF Dispatch, Deliver, Inspect, LocalStep
    <2>2. \E l : Goto(t, l) /\ l # "handover"
        BY <1>5 DEF Dispatch, Deliver, Inspect, AfterInspect
    <2>3. QED
        BY <2>1, <2>2, <1>m, <1>s, <1>g
\* The destination is this node: no forward() is spawned.
<1>f. ASSUME SpawnForward(t), ~IngressRefuses(i)
      PROVE  Goto(t, "idle")
    BY <1>f, <1>p DEF SpawnForward, Stays
<1>6. CASE DispatchEndpoint(t)
    <2>1. metadata' = metadata /\ handed' = handed /\ ~IngressRefuses(i)
        BY <1>6, <1>r DEF DispatchEndpoint, LocalStep
    <2>2. Goto(t, "deliver") \/ Goto(t, "idle")
        BY <1>6, <2>1, <1>f DEF DispatchEndpoint
    <2>3. QED
        BY <2>1, <2>2, <1>m, <1>s, <1>g
<1>7. CASE DeliverMark(t)
    <2>1. /\ Sync(i, bp[t] \cup {"LocalEndpoint"}) /\ handed' = handed /\ ~IngressRefuses(i)
          /\ \E l : Goto(t, l) /\ l # "handover"
        BY <1>7, <1>p, <1>r DEF DeliverMark, StoreStep
    <2>2. metadata'[i] = bp[t] \cup {"LocalEndpoint"}
        BY <2>1, <1>k, SyncMeta
    <2>3. "ForwardPending" \notin metadata'[i]
        BY <2>2, <1>k
    <2>4. QED
        BY <2>1, <2>3, <1>s, <1>g
<1>8. CASE DeliverSettle(t)
    <2>1. ~IngressRefuses(i) /\ Local(i)
        BY <1>8, <1>r DEF DeliverSettle, Stays
    <2>2. ClearConstraints(bp[t] \cup {"LocalEndpoint"}) = {"LocalEndpoint"}
        BY DEF ClearConstraints
    <2>3. Sync(i, {"LocalEndpoint"}) /\ handed' = handed /\ \E l : Goto(t, l)
        BY <1>8, <2>1, <2>2, <1>p DEF DeliverSettle, StoreStep
    <2>4. metadata'[i] = {"LocalEndpoint"}
        BY <2>3, <1>k, SyncMeta
    <2>5. NeverForwarded(i)'
        BY <2>3, <2>4, <1>g, <1>i DEF NeverForwarded
    <2>6. HeldOnce(i)'
        BY <2>4 DEF HeldOnce
    <2>7. QED
        BY <2>1, <2>5, <2>6
<1>9. CASE DeliverHandover(t)
    <2>1. pc[t] = "handover" /\ ~IngressRefuses(i) /\ Local(i)
        BY <1>9, <1>r DEF DeliverHandover, Stays
    <2>2. StoreFrame(i)
        BY <1>9, RemoveFrame DEF DeliverHandover, AgentPush, RemoveIfSingleton, StoreFrame,
                                 StoreVars, IsKnown
    <2>3. Goto(t, "idle")
        BY <1>9, <2>1, <1>f DEF DeliverHandover
    <2>4. NeverForwarded(i)'
        BY <2>2, <2>3, <1>g, <1>i, <1>k, <1>m DEF NeverForwarded, StoreFrame
    <2>5. i \notin Resubmitted => "LocalEndpoint" \in metadata[i]
        BY <2>1, <1>i, <1>k DEF HeldOnce
    <2>6. i \notin Resubmitted => HeldOnce(i)'
        BY <2>2, <2>5, <1>k DEF HeldOnce, StoreFrame, ClearConstraints
    <2>7. QED
        BY <2>1, <2>4, <2>6
<1>10. CASE DeleteSync(t)
    <2>1. ClearConstraints(bp[t]) = {}
        BY <1>k DEF ClearConstraints
    <2>2. Remove(i) /\ Goto(t, "idle") /\ handed' = handed
        BY <1>10, <2>1, <1>p DEF DeleteSync, Sync, HasConstraints, Bail, StoreStep
    <2>3. i \notin bundles' /\ "ForwardPending" \notin metadata'[i]
        BY <2>2, <1>k, <1>m DEF Remove, Put, IsKnown
    <2>4. QED
        BY <2>2, <2>3, <1>s, <1>g
<1>11. CASE InspectRemove(t)
    <2>1. Remove(Bundle(i).ref) /\ Goto(t, "mark") /\ handed' = handed /\ ~IngressRefuses(i)
        BY <1>11, <1>p, <1>r DEF InspectRemove, AfterInspect, StoreStep
    <2>2. "ForwardPending" \notin metadata'[i]
        BY <2>1, <1>k, <1>m, RemoveFrame DEF StoreFrame
    <2>3. QED
        BY <2>1, <2>2, <1>s, <1>g
<1>12. CASE ForwardStep(t)
    BY <1>12, <1>k DEF ForwardStep, Acquire, ForwardPending, Route, RouteError, Fetch,
       TransferDone, Joined, ForwardRemove, Contraindicate, Release, IngressLabels,
       ReceiveLabels, DeliverLabels, SharedLabels
<1>13. QED
    BY <1>1, <1>2, <1>3, <1>4, <1>5, <1>6, <1>7, <1>8, <1>9, <1>10, <1>11, <1>12
    DEF TaskStep, IngressStep, SharedStep

\* StayInv is inductive: nothing puts ForwardPending on such a bundle.
LEMMA StayStep ==
    ASSUME TypeInv, ControlInv, OnceInv, IngressInv, StayInv, [Next]_vars,
           NEW i \in Bundles
    PROVE  /\ Stays(i) => NeverForwarded(i)'
           /\ Local(i) /\ i \notin Resubmitted => HeldOnce(i)'
           /\ IngressRefuses(i) => TurnedAway(i)'
<1> USE TaskFacts, TaskIds
<1> DEFINE t == <<"ingress", i>>
<1>p. /\ pc \in [Task -> Labels] /\ handed \in [Ids -> Nat]
      /\ i \in Ids /\ t \in Task /\ t[2] = i
      /\ <<"dispatched", i>> \in Task /\ <<"janitor", i>> \in Task
      /\ \A k \in {"ingress", "dispatched", "janitor"} : k \in Kinds
    BY ProcessingAssumption DEF TypeInv, TypeOK, Kinds, ForwardKinds
<1>i. /\ Stays(i) => NeverForwarded(i)
      /\ Local(i) /\ i \notin Resubmitted => HeldOnce(i)
      /\ IngressRefuses(i) => TurnedAway(i)
    BY DEF StayInv
<1>c. \A c : "ForwardPending" \notin ClearConstraints(c) \cup {"Deleted"}
    BY DEF ClearConstraints
<1>l. \A c : "LocalEndpoint" \in c => "LocalEndpoint" \in ClearConstraints(c) \cup {"Deleted"}
    BY DEF ClearConstraints
\* The janitor lists only what is to be forwarded.
<1>j. Stays(i) => (jpc' = "read" => i \notin todo')
    <2>1. jpc' = "read" => (jpc = "read" /\ todo' \subseteq todo) \/ todo' = Forwarding
        <3>1. CASE \E u \in Task : TaskStep(u)
            BY <3>1, TaskPacks
        <3>2. CASE JanitorStep
            BY <3>2 DEF JanitorStep, JanitorStart, JanitorCollect, JanitorReady, JanitorDone,
                        JanitorExpire, JanitorRead, JanitorForward, LocalStep
        <3>3. CASE Environment
            BY <3>3 DEF Environment, Receive, SendBundle, StoreStep, Register, Unregister,
                        Subscribe, Unsubscribe, Pop, HttpDelete, Expire
        <3>4. CASE UNCHANGED vars
            BY <3>4 DEF vars
        <3>5. QED
            BY <3>1, <3>2, <3>3, <3>4 DEF Next
    <2>2. Stays(i) => i \notin Forwarding
        BY <1>i DEF NeverForwarded, Forwarding, Filter, IsKnown
    <2>3. QED
        BY <2>1, <2>2, <1>i DEF NeverForwarded
<1>1. CASE Frame(i)
    <2>1. /\ pc'[t] = pc[t] /\ pc'[<<"dispatched", i>>] = pc[<<"dispatched", i>>]
          /\ pc'[<<"janitor", i>>] = pc[<<"janitor", i>>]
          /\ handed'[i] = handed[i]
        BY <1>1, <1>p DEF Frame
    <2>2. StoreFrame(i)
        BY <1>1 DEF Frame
    <2>3. Stays(i) => NeverForwarded(i)'
        BY <2>1, <2>2, <1>i, <1>c, <1>j DEF NeverForwarded, StoreFrame
    <2>4. Local(i) /\ i \notin Resubmitted => HeldOnce(i)'
        BY <2>1, <2>2, <1>i, <1>l DEF HeldOnce, StoreFrame
    <2>5. IngressRefuses(i) => TurnedAway(i)'
        BY <2>1, <2>2, <1>i DEF TurnedAway, StoreFrame
    <2>6. QED
        BY <2>3, <2>4, <2>5
<1>2. CASE JanitorRead(i) \/ JanitorForward(i)
    <2>1. ~Stays(i)
        BY <1>2, <1>i DEF JanitorRead, JanitorForward, JanitorTask, NeverForwarded
    <2>2. QED
        BY <2>1 DEF Stays
<1>3. CASE Receive(i) \/ SendBundle(i)
    <2>1. /\ Push(i) /\ handed' = handed
          /\ pc' = [pc EXCEPT ![t] = "rx_sync"] \/ pc' = [pc EXCEPT ![t] = "tx_sync"]
          /\ i \notin Resubmitted => ~IsKnown(i)
        BY <1>3 DEF Receive, SendBundle, Goto, Ingress, StoreStep
    <2>2. /\ pc'[t] \in {"rx_sync", "tx_sync"}
          /\ pc'[<<"dispatched", i>>] = pc[<<"dispatched", i>>]
          /\ pc'[<<"janitor", i>>] = pc[<<"janitor", i>>]
        BY <2>1, <1>p
    <2>3. metadata'[i] = {} \/ (IsKnown(i) /\ metadata' = metadata)
        BY <2>1 DEF Push, HasItem, Put, IsKnown, TypeInv, StoredIsKnown
    <2>4. Stays(i) => NeverForwarded(i)'
        BY <2>2, <2>3, <1>i, <1>j DEF NeverForwarded
    <2>5. Local(i) /\ i \notin Resubmitted => HeldOnce(i)'
        <3>1. i \notin Resubmitted => handed[i] = 0
            BY <2>1, <1>p DEF OnceInv
        <3>2. QED
            BY <3>1, <2>1, <2>2 DEF HeldOnce
    <2>6. IngressRefuses(i) => TurnedAway(i)'
        BY <2>1, <2>2, <1>i DEF TurnedAway
    <2>7. QED
        BY <2>4, <2>5, <2>6
<1>4. CASE \E u \in Task : u[2] = i /\ TaskStep(u)
    <2>1. SUFFICES ASSUME Stays(i)
                   PROVE  /\ NeverForwarded(i)'
                          /\ Local(i) /\ i \notin Resubmitted => HeldOnce(i)'
                          /\ IngressRefuses(i) => TurnedAway(i)'
        BY DEF Stays
    <2>2. PICK u \in Task : u[2] = i /\ TaskStep(u)
        BY <1>4
    <2>3. pc[u] # "idle"
        BY <2>2, TaskPacks
    <2>4. u = t /\ TaskStep(t) /\ pc[t] # "idle"
        BY <2>1, <2>2, <2>3, <1>i DEF NeverForwarded, Kinds, ForwardKinds
    <2>5. QED
        BY <2>1, <2>4, <1>j, IngressStays
<1>5. QED
    BY <1>1, <1>2, <1>3, <1>4, FrameStep

\* The invariant of this section is inductive.
LEMMA StayInduction ==
    ASSUME TypeInv, ControlInv, OnceInv, IngressInv, StayInv, [Next]_vars
    PROVE  StayInv'
<1>1. \A i : /\ Stays(i)' <=> Stays(i)
             /\ Local(i)' <=> Local(i)
             /\ IngressRefuses(i)' <=> IngressRefuses(i)
    BY DEF Stays, Local, IngressRefuses, Bundle
<1>2. QED
    BY <1>1, StayStep DEF StayInv

\* What the theorems below rest on.
HoldInv ==
    TypeInv /\ ControlInv /\ OnceInv /\ IngressInv /\ StayInv /\ QueuedWereHanded

\* HoldInv is an invariant of the pipeline.
LEMMA HoldInvariant == Spec => []HoldInv
<1>1. Init => HoldInv
    <2>1. Init => OnceInv
        BY TaskIds DEF Init, OnceInv
    <2>i. Init => IngressInv
        <3>1. SUFFICES ASSUME Init PROVE IngressInv
            OBVIOUS
        <3>2. \A i \in Ids : /\ pc[<<"ingress", i>>] = "idle" /\ bp[<<"ingress", i>>] = {}
                             /\ handed[i] = 0
            BY <3>1, TaskIds DEF Init
        <3>3. registered = RegisteredAtStart
            BY <3>1 DEF Init
        <3>4. QED
            BY <3>2, <3>3 DEF IngressInv
    <2>2. Init => StayInv
        <3>1. SUFFICES ASSUME Init, NEW i \in Bundles
                       PROVE  NeverForwarded(i) /\ HeldOnce(i) /\ TurnedAway(i)
            BY DEF StayInv
        <3>2. i \in Ids /\ ~IsKnown(i)
            BY <3>1, ProcessingAssumption DEF Init, StoreInit, IsKnown
        <3>3. QED
            BY <3>1, <3>2, TaskIds DEF Init, StoreInit, NeverForwarded, HeldOnce, TurnedAway
    <2>3. Init => QueuedWereHanded
        BY DEF Init, QueuedWereHanded
    <2>4. QED
        BY <2>1, <2>i, <2>2, <2>3, TypeInit, ControlInit DEF HoldInv
<1>2. HoldInv /\ [Next]_vars => HoldInv'
    BY TypeStep, ControlStep, OnceStep, IngressInvStep, StayInduction, HandedStep DEF HoldInv
<1>3. QED
    BY <1>1, <1>2, PTL DEF Spec

\* A bundle for this node keeps LocalEndpoint as long as it waits for its
\* application, whatever tasks and applications do meanwhile.
THEOREM QueuedAreHeld == Spec => []QueuedLocalHeld
<1>1. HoldInv => QueuedLocalHeld
    <2>1. SUFFICES ASSUME HoldInv, NEW e \in LocalEids, NEW k \in DOMAIN queue[e],
                          queue[e][k] \notin Resubmitted
                   PROVE  "LocalEndpoint" \in metadata[queue[e][k]]
        BY DEF QueuedLocalHeld
    <2> DEFINE i == queue[e][k]
    <2>2. e \in Eids /\ queue[e] \in Seq(Ids)
        BY <2>1, ProcessingAssumption DEF HoldInv, TypeInv, TypeOK
    <2>3. k \in 1 .. Len(queue[e]) /\ i \in Ids
        BY <2>2
    <2>4. handed[i] > 0 /\ Bundle(i).dst = e
        BY <2>1, <2>2, <2>3 DEF HoldInv, QueuedWereHanded
    <2>5. i \in Bundles /\ Local(i)
        <3>1. i \in Bundles
            BY <2>1, <2>3, <2>4 DEF HoldInv, IngressInv
        <3>2. Local(i)
            BY <2>1, <2>4 DEF Local
        <3>3. QED
            BY <3>1, <3>2
    <2>6. HeldOnce(i)
        BY <2>1, <2>5 DEF HoldInv, StayInv
    <2>7. handed[i] # 0
        BY <2>4
    <2>8. IsKnown(i)
        BY <2>1, <2>3, <2>7 DEF HoldInv, OnceInv
    <2>9. QED
        BY <2>4, <2>6, <2>8 DEF HeldOnce
<1>2. QED
    BY <1>1, HoldInvariant, PTL

\* A bundle that ingress has to refuse is gone when its task ends, and neither
\* an application nor a peer gets it.
THEOREM RefusedAreGone == Spec => []RefusedIsGone
<1>1. HoldInv => RefusedIsGone
    <2>1. SUFFICES ASSUME HoldInv, NEW i \in Bundles, IngressRefuses(i), IsKnown(i)
                   PROVE  /\ pc[Ingress(i)] = "idle" => i \notin bundles
                          /\ handed[i] = 0
                          /\ \A t \in Task : t[2] = i => pc[t] # "transfer"
        BY DEF RefusedIsGone
    <2>2. TurnedAway(i) /\ NeverForwarded(i)
        BY <2>1 DEF HoldInv, StayInv, Stays
    <2>3. ASSUME NEW t \in Task, t[2] = i
          PROVE  pc[t] # "transfer"
        <3>1. t = <<"ingress", i>> \/ t = <<"dispatched", i>> \/ t = <<"janitor", i>>
            BY <2>3, TaskFacts DEF Kinds, ForwardKinds
        <3>2. QED
            BY <3>1, <2>2 DEF TurnedAway, NeverForwarded
    <2>4. QED
        BY <2>1, <2>2, <2>3 DEF TurnedAway, Ingress
<1>2. QED
    BY <1>1, HoldInvariant, PTL
==============================================================================
