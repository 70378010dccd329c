------------------------------ MODULE Epidemic ------------------------------
(***************************************************************************)
(* The epidemic routing agent, routing/epidemic.rs, the default: a bundle  *)
(* goes to every peer that is not known to have it, or only to its         *)
(* destination when that is a peer.                                        *)
(***************************************************************************)
EXTENDS Relay

CONSTANT Prev       \* the previous node of each bundle, if it came from one

VARIABLE history    \* per bundle: the nodes it was sent to or came from

vars == <<known, stored, channel, task, selected, failing, sent, delAfter, peers, fails,
          got, history>>

TypeOK ==
    /\ RelayTypeOK
    /\ history \in [Bundles -> SUBSET Nodes]

\* A bundle without an entry has none of the nodes in its history.
Init == RelayInit /\ history = [b \in Bundles |-> {}]

\* incoming_bundle: the previous node, if there is one, has the bundle.
IncomingBundle(b) == history' = [history EXCEPT ![b] = @ \cup ({Prev[b]} \cap Nodes)]

\* MISTAKE: failures are ignored.
SendingFailedIgnored(b, n) == UNCHANGED history

\* MISTAKE: a failure forgets everyone the bundle was sent to.
SendingFailedForgets(b, n) == history' = [history EXCEPT ![b] = {}]

\* sending_failed.
SendingFailed(b, n) == history' = [history EXCEPT ![b] = @ \ {n}]

\* The peers not recorded yet.
Candidates(b) == Usable \ history[b]

\* MISTAKE: everybody else is recorded as served by a direct delivery, too.
RecordedAll(b, nodes) == Candidates(b)

\* Only the selected peers are recorded as sent.
Recorded(b, nodes) == nodes

\* senders_for_bundle: the destination alone, or all candidates; the selected
\* ones are recorded at once.
SendersForBundle(b) ==
    LET direct == Dest[b] \in Candidates(b)
        nodes  == IF direct THEN {Dest[b]} ELSE Candidates(b)
    IN  /\ history' = [history EXCEPT ![b] = @ \cup Recorded(b, nodes)]
        /\ Answer(b, nodes, direct)

\* handle_routing_cmd.
HandleRoutingCmd ==
    /\ channel # <<>>
    /\ LET cmd == Head(channel)
       IN  \/ /\ cmd.type = "incoming"
              /\ IncomingBundle(cmd.bundle)
              /\ Noted
           \/ /\ cmd.type = "failed"
              /\ SendingFailed(cmd.bundle, cmd.node)
              /\ Noted
           \/ /\ cmd.type = "sender"
              /\ SendersForBundle(cmd.bundle)

Next ==
    \/ HandleRoutingCmd
    \/ (RelayEnvironment \/ \E b \in Bundles : RelayTask(b)) /\ UNCHANGED history

Spec == Init /\ [][Next]_vars

\* The agent takes every command, every forward() ends, and the janitor asks
\* again for each stored bundle.
Fairness ==
    /\ WF_vars(HandleRoutingCmd)
    /\ \A b \in Bundles : WF_vars(RelayTask(b) /\ UNCHANGED history)

FairSpec == Spec /\ Fairness

------------------------------------------------------------------------------
\* Properties.

\* No peer is sent a bundle it got from this node, or that came from it, however
\* often other transfers of the bundle fail, peers leave and come back, and
\* applications submit it again.
NoSecondSend ==
    \A b \in Bundles :
        /\ selected[b] \cap got[b] = {}
        /\ b \notin Reports => Prev[b] \notin selected[b]

\* A peer is recorded for a bundle only if it has it or is being sent it, as soon
\* as no failure is on its way to the agent: a failed or skipped peer is not
\* taken for one that was served.  This does not hold of a bundle that leaves the
\* store between selection and transfer and is submitted again.
RecordedHaveIt ==
    \A b \in stored \ Resubmitted :
        channel = <<>> /\ task[b] \notin {"answered", "sending"}
          => history[b] \subseteq got[b] \cup {Prev[b]}

\* A peer that stays is offered every bundle that stays stored, unless the
\* destination is a peer itself, which then is offered it alone.  Bundles that are
\* submitted again are left out for the reason given at RecordedHaveIt.
PeersServed ==
    \A b \in Bundles \ Resubmitted : \A n \in Nodes \ {Prev[b]} :
        <>[](n \in Usable /\ b \in stored /\ Dest[b] \notin peers \ {n})
          => <>(n \in got[b]) \/ []<>(n \in selected[b])
==============================================================================
