---------------------------- MODULE SprayAndWait ----------------------------
(***************************************************************************)
(* The spray and wait routing agent, routing/sprayandwait.rs: a bundle of  *)
(* this node may be relayed to a limited number of peers, then, like a     *)
(* bundle of another node, it waits for its destination.                   *)
(***************************************************************************)
EXTENDS Relay

CONSTANTS
    Copies,         \* l, sprayandwait.num_copies
    Own,            \* the bundles whose source is this node
    Self            \* the name of this node

ASSUME SprayAssumption == Copies \in Nat /\ Own \subseteq Bundles

VARIABLE history    \* per noted bundle: copies left, entries of each node

vars == <<known, stored, channel, task, selected, failing, sent, delAfter, peers, fails,
          got, history>>

\* SaWBundleData.  The list of node names is a bag: its order is never used.
SaWBundleData == [remaining : Nat, nodes : [Nodes -> Nat]]

TypeOK ==
    /\ RelayTypeOK
    /\ DOMAIN history \subseteq Bundles
    /\ history \in [DOMAIN history -> SaWBundleData]

Init == RelayInit /\ history = [b \in {} |-> 0]

Budget(b) == IF b \in Own THEN Copies ELSE 1

\* handle_new_bundle: what is known of a noted bundle is kept.
HandleNewBundle(b) ==
    history' = IF b \in DOMAIN history THEN history
               ELSE [x \in DOMAIN history \cup {b} |->
                       IF x = b THEN [remaining |-> Budget(b), nodes |-> [n \in Nodes |-> 0]]
                       ELSE history[x]]

\* MISTAKE: a copy is returned also for a failed direct delivery.
HandleSendingFailedAlways(b, n) ==
    history' = IF b \notin DOMAIN history THEN history
               ELSE [history EXCEPT ![b].remaining = @ + 1, ![b].nodes[n] = 0]

\* handle_notification, SendingFailed: all entries of the node go, and as many
\* copies come back.
HandleSendingFailed(b, n) ==
    history' = IF b \notin DOMAIN history THEN history
               ELSE [history EXCEPT ![b].remaining = @ + history[b].nodes[n],
                                    ![b].nodes[n] = 0]

\* MISTAKE: nodes that have got the bundle are asked again.
EligibleAgain(b) == Usable \ {Self}

\* Peers that are neither this node nor recorded as served.
Eligible(b) == {n \in Usable \ {Self} : history[b].nodes[n] = 0}

\* MISTAKE: the last copy is relayed, too.
RelayBudgetAll(b) == history[b].remaining

\* Copies that may be relayed: the last one is kept for direct delivery.
RelayBudget(b) == IF history[b].remaining < 2 THEN 0 ELSE history[b].remaining - 1

\* MISTAKE: the destination has to wait for its turn like any other peer.
DirectNever(b, relays) == FALSE

\* The loop came to the destination after the copies had run out.
Direct(b, relays) == Dest[b] \in Eligible(b) \ relays

\* handle_sender_for_bundle: the loop over the peers, in any order, charges a
\* copy to each eligible peer until the copies run out; the destination then
\* still gets the bundle, and takes the place of everyone selected before.
HandleSender(b) ==
    IF b \notin DOMAIN history THEN Answer(b, {}, FALSE) /\ UNCHANGED history
    ELSE \E relays \in SUBSET Eligible(b) :
            /\ \/ Cardinality(relays) = RelayBudget(b)
               \/ relays = Eligible(b) /\ Cardinality(relays) <= RelayBudget(b)
            /\ history' = [history EXCEPT
                  ![b].remaining = @ - Cardinality(relays),
                  ![b].nodes = [n \in Nodes |-> IF n \in relays THEN @[n] + 1 ELSE @[n]]]
            /\ IF Direct(b, relays) THEN Answer(b, {Dest[b]}, TRUE)
               ELSE Answer(b, relays, FALSE)

\* handle_routing_cmd.
HandleRoutingCmd ==
    /\ channel # <<>>
    /\ LET cmd == Head(channel)
       IN  \/ /\ cmd.type = "incoming"
              /\ HandleNewBundle(cmd.bundle)
              /\ Noted
           \/ /\ cmd.type = "failed"
              /\ HandleSendingFailed(cmd.bundle, cmd.node)
              /\ Noted
           \/ /\ cmd.type = "sender"
              /\ HandleSender(cmd.bundle)

Next ==
    \/ HandleRoutingCmd
    \/ (RelayEnvironment \/ \E b \in Bundles : RelayTask(b)) /\ UNCHANGED history

Spec == Init /\ [][Next]_vars

\* The agent takes every command, every forward() ends, and the janitor asks
\* again for each stored bundle.
FairSpec ==
    /\ Spec
    /\ WF_vars(HandleRoutingCmd)
    /\ \A b \in Bundles : WF_vars(RelayTask(b) /\ UNCHANGED history)

------------------------------------------------------------------------------
\* Properties.

Served(b) == {n \in Nodes : history[b].nodes[n] > 0}

\* Copies are neither made nor lost by retries, failures and repeated
\* submissions: those left and those charged to a node are always as many as
\* the bundle started with, and no node is charged twice ("should be 1!").
CopiesConserved ==
    \A b \in DOMAIN history :
        /\ history[b].remaining + Cardinality(Served(b)) = Budget(b)
        /\ \A n \in Nodes : history[b].nodes[n] <= 1

\* A bundle reaches at most as many peers as it has copies, the destination
\* included, and a bundle of another node its destination only.
SpreadBounded ==
    \A b \in DOMAIN history :
        /\ Cardinality(got[b] \ {Dest[b]}) < Budget(b) \/ got[b] \subseteq {Dest[b]}
        /\ b \notin Own => got[b] \subseteq {Dest[b]}

\* Nobody is sent a bundle again, save a destination whose bundle an
\* application submits again.
NoSecondSend ==
    \A b \in Bundles :
        selected[b] \cap got[b] \subseteq IF b \in Resubmitted THEN {Dest[b]} ELSE {}

\* A destination that is and stays a usable peer is offered every bundle that
\* was dispatched and stays stored, whatever copies are left.
DestinationServed ==
    \A b \in Bundles \ Reports :
        <>[](Dest[b] \in Usable \ {Self} /\ b \in stored)
          => <>(Dest[b] \in selected[b] \cup got[b])
==============================================================================
