-------------------------------- MODULE Relay --------------------------------
(***************************************************************************)
(* What surrounds a routing agent: the tasks that ask it for next hops and *)
(* tell it how the transfers went (core/processing.rs), the peer table     *)
(* (lib.rs, core/peer.rs) and the channel into the agent (routing/mod.rs). *)
(* The agent itself is in the modules that extend this one; it takes one   *)
(* command at a time from its channel.                                     *)
(*                                                                         *)
(* Of forward() this module keeps what the agent can notice: the guard     *)
(* admits one task per bundle, which asks, fetches the bundle, transfers   *)
(* it to all selected peers at once and waits for all of them.  A bundle   *)
(* that the checks before the transfer refuse is deleted, which is Vanish. *)
(* Notifications the agents here ignore are left out: SendingSucceeded,    *)
(* EncounteredPeer and DroppedPeer.                                        *)
(***************************************************************************)
EXTENDS Naturals, Sequences, FiniteSets

CONSTANTS
    Bundles,        \* bundles that pass this node
    Reports,        \* those among them that are status reports of this node
    Traffic,        \* BOUND: the sets of bundles one behaviour may be about
    Resubmitted,    \* those an application may submit again
    Nodes,          \* node names of possible peers
    Dest,           \* the node of each bundle's destination
    Static,         \* peers from the configuration, the others are discovered
    Mute,           \* peers none of whose CLAs is available for sending
    FailLimit       \* failed_too_much: more failures than this; 3 in the code

ASSUME RelayAssumption ==
    /\ Reports \subseteq Bundles
    /\ Traffic \subseteq SUBSET Bundles
    /\ Resubmitted \subseteq Bundles
    /\ IsFiniteSet(Nodes)
    /\ Static \subseteq Nodes
    /\ Mute \subseteq Nodes
    /\ FailLimit \in Nat

VARIABLES
    known,          \* bundles the store has ever seen
    stored,         \* bundles in the store
    channel,        \* commands on their way to the routing agent
    task,           \* where the forward() of each bundle is
    selected,       \* peers whose transfer has not ended
    failing,        \* peers whose failure is not yet counted
    sent,           \* some transfer of the current forward() succeeded
    delAfter,       \* the agent asked for deletion after sending
    peers,          \* PEERS
    fails,          \* failed transmissions of each peer
    got             \* history: peers that were sent the bundle successfully

TaskVars == <<task, selected, failing, sent, delAfter>>
PeerVars == <<peers, fails>>
RelayVars == <<known, stored, channel, task, selected, failing, sent, delAfter, peers,
               fails, got>>

Command ==
    [type : {"incoming", "sender"}, bundle : Bundles]
      \cup [type : {"failed"}, bundle : Bundles, node : Nodes]

RelayTypeOK ==
    /\ stored \subseteq known /\ known \subseteq Bundles
    /\ channel \in Seq(Command)
    /\ task \in [Bundles -> {"idle", "asking", "answered", "sending"}]
    /\ selected \in [Bundles -> SUBSET Nodes]
    /\ failing \in [Bundles -> SUBSET Nodes]
    /\ sent \in [Bundles -> BOOLEAN]
    /\ delAfter \in [Bundles -> BOOLEAN]
    /\ peers \subseteq Nodes
    /\ fails \in [Nodes -> Nat]
    /\ got \in [Bundles -> SUBSET Nodes]

RelayInit ==
    /\ known = {} /\ stored = {}
    /\ channel = <<>>
    /\ task = [b \in Bundles |-> "idle"]
    /\ selected = [b \in Bundles |-> {}]
    /\ failing = [b \in Bundles |-> {}]
    /\ sent = [b \in Bundles |-> FALSE]
    /\ delAfter = [b \in Bundles |-> FALSE]
    /\ peers = Static
    /\ fails = [n \in Nodes |-> 0]
    /\ got = [b \in Bundles |-> {}]

\* DtnPeer::first_cla: the peers something can be sent to.
Usable == peers \ Mute

------------------------------------------------------------------------------
\* Bundles.

\* The bound on what enters the node.
Entering(b) == \E s \in Traffic : known \cup {b} \subseteq s

Incoming(b) == [type |-> "incoming", bundle |-> b]

\* receive or send_bundle up to dispatch's notification of the agent.  BOUND: a
\* bundle is not submitted again before the agent has taken the notification.
Accept(b) ==
    /\ b \notin Reports
    /\ b \in known => b \in Resubmitted
    /\ Entering(b)
    /\ \A k \in DOMAIN channel : channel[k] # Incoming(b)
    /\ known' = known \cup {b}
    /\ stored' = stored \cup {b}
    /\ channel' = Append(channel, Incoming(b))
    /\ UNCHANGED <<task, selected, failing, sent, delAfter, peers, fails, got>>

\* send_status_report: stored for the janitor, the agent is not told.
StoreReport(b) ==
    /\ b \in Reports \ known
    /\ Entering(b)
    /\ known' = known \cup {b}
    /\ stored' = stored \cup {b}
    /\ UNCHANGED <<channel, task, selected, failing, sent, delAfter, peers, fails, got>>

\* The bundle leaves the store while it may be on its way: expiry, /delete.
Vanish(b) ==
    /\ b \in stored
    /\ stored' = stored \ {b}
    /\ UNCHANGED <<known, channel, task, selected, failing, sent, delAfter, peers, fails,
                   got>>

------------------------------------------------------------------------------
\* forward().

\* The guard, and routing_sender_for_bundle up to the await.
Ask(b) ==
    /\ task[b] = "idle"
    /\ b \in stored
    /\ task' = [task EXCEPT ![b] = "asking"]
    /\ channel' = Append(channel, [type |-> "sender", bundle |-> b])
    /\ UNCHANGED <<known, stored, selected, failing, sent, delAfter, peers, fails, got>>

\* The agent answers the command at the head of its channel.
Answer(b, nodes, delete) ==
    /\ channel' = Tail(channel)
    /\ task' = [task EXCEPT ![b] = "answered"]
    /\ selected' = [selected EXCEPT ![b] = nodes]
    /\ delAfter' = [delAfter EXCEPT ![b] = delete]
    /\ UNCHANGED <<known, stored, failing, sent, peers, fails, got>>

\* The agent takes a notification.
Noted ==
    /\ channel' = Tail(channel)
    /\ UNCHANGED <<known, stored, task, selected, failing, sent, delAfter, peers, fails,
                   got>>

\* No next hop ends forward(), and so does a bundle that is no longer stored.
Fetch(b) ==
    /\ task[b] = "answered"
    /\ IF selected[b] # {} /\ b \in stored
       THEN /\ task' = [task EXCEPT ![b] = "sending"]
            /\ UNCHANGED <<stored, selected>>
       ELSE /\ task' = [task EXCEPT ![b] = "idle"]
            /\ selected' = [selected EXCEPT ![b] = {}]
            /\ stored' = IF selected[b] = {} /\ delAfter[b] THEN stored \ {b} ELSE stored
    /\ sent' = [sent EXCEPT ![b] = FALSE]
    /\ UNCHANGED <<known, channel, failing, delAfter, peers, fails, got>>

TransferOk(b, n) ==
    /\ task[b] = "sending" /\ n \in selected[b]
    /\ selected' = [selected EXCEPT ![b] = @ \ {n}]
    /\ sent' = [sent EXCEPT ![b] = TRUE]
    /\ got' = [got EXCEPT ![b] = @ \cup {n}]
    /\ UNCHANGED <<known, stored, channel, task, failing, delAfter, peers, fails>>

\* The agent is told of a failed transfer first ...
TransferFailed(b, n) ==
    /\ task[b] = "sending" /\ n \in selected[b]
    /\ selected' = [selected EXCEPT ![b] = @ \ {n}]
    /\ failing' = [failing EXCEPT ![b] = @ \cup {n}]
    /\ channel' = Append(channel, [type |-> "failed", bundle |-> b, node |-> n])
    /\ UNCHANGED <<known, stored, task, sent, delAfter, peers, fails, got>>

\* ... then report_failed_transmission counts it, and drops a discovered peer that
\* failed too often.  No count above the limit is told from another.
ReportFailed(b, n) ==
    /\ n \in failing[b]
    /\ failing' = [failing EXCEPT ![b] = @ \ {n}]
    /\ IF n \in peers
       THEN /\ fails' = [fails EXCEPT ![n] = IF @ > FailLimit THEN @ ELSE @ + 1]
            /\ peers' = IF fails'[n] > FailLimit /\ n \notin Static THEN peers \ {n}
                        ELSE peers
       ELSE UNCHANGED PeerVars
    /\ UNCHANGED <<known, stored, channel, task, selected, sent, delAfter, got>>

\* join_all returned: deletion after a success, the guard is released.
Joined(b) ==
    /\ task[b] = "sending" /\ selected[b] = {} /\ failing[b] = {}
    /\ task' = [task EXCEPT ![b] = "idle"]
    /\ stored' = IF sent[b] /\ delAfter[b] THEN stored \ {b} ELSE stored
    /\ UNCHANGED <<known, channel, selected, failing, sent, delAfter, peers, fails, got>>

------------------------------------------------------------------------------
\* The peer table.

\* peers_add of a peer that is not known; one that is keeps its failures.
PeersAdd(n) ==
    /\ n \notin peers
    /\ peers' = peers \cup {n}
    /\ fails' = [fails EXCEPT ![n] = 0]
    /\ UNCHANGED <<known, stored, channel, task, selected, failing, sent, delAfter, got>>

\* process_peers: discovered peers that were silent for too long go.
ProcessPeers(silent) ==
    /\ peers \cap silent # {}
    /\ peers' = peers \ silent
    /\ UNCHANGED <<known, stored, channel, task, selected, failing, sent, delAfter, fails,
                   got>>

\* peers_remove on request of the operator.
PeersRemove(n) ==
    /\ n \in peers
    /\ peers' = peers \ {n}
    /\ UNCHANGED <<known, stored, channel, task, selected, failing, sent, delAfter, fails,
                   got>>

------------------------------------------------------------------------------
RelayTask(b) ==
    \/ Ask(b) \/ Fetch(b) \/ Joined(b)
    \/ \E n \in Nodes : TransferOk(b, n) \/ TransferFailed(b, n) \/ ReportFailed(b, n)

RelayEnvironment ==
    \/ \E b \in Bundles : Accept(b) \/ StoreReport(b) \/ Vanish(b)
    \/ \E n \in Nodes : PeersAdd(n) \/ PeersRemove(n)
    \/ \E silent \in SUBSET (Nodes \ Static) : ProcessPeers(silent)
==============================================================================
