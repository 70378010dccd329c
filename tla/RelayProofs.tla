---------------------------- MODULE RelayProofs -----------------------------
(***************************************************************************)
(* What the proofs about the routing agents share: the channel into the    *)
(* agent, and the types of the tasks and the peer table around it.         *)
(***************************************************************************)
EXTENDS Relay, SequenceTheorems, TLAPS

\* A failure on its way to the agent.
Failed(b, n) == [type |-> "failed", bundle |-> b, node |-> n]

------------------------------------------------------------------------------
\* The channel.

\* Taking a command moves the others up.
LEMMA ChannelTaken ==
    ASSUME RelayTypeOK, channel # <<>>, channel' = Tail(channel)
    PROVE  /\ Head(channel) = channel[1] /\ channel[1] \in Command
           /\ 1 \in 1 .. Len(channel)
           /\ channel' \in Seq(Command)
           /\ \A k \in 1 .. Len(channel') :
                  k + 1 \in 1 .. Len(channel) /\ channel'[k] = channel[k + 1]
BY HeadTailProperties DEF RelayTypeOK

\* ... and loses none of them.
LEMMA ChannelShifted ==
    ASSUME RelayTypeOK, channel # <<>>, channel' = Tail(channel)
    PROVE  \A k \in 1 .. Len(channel) :
               k = 1 \/ (k - 1 \in 1 .. Len(channel') /\ channel'[k - 1] = channel[k])
<1>1. /\ channel \in Seq(Command) /\ Len(channel') = Len(channel) - 1 /\ Len(channel) \in Nat
      /\ \A j \in 1 .. Len(channel') : channel'[j] = channel[j + 1]
    BY HeadTailProperties DEF RelayTypeOK
<1>2. TAKE k \in 1 .. Len(channel)
<1>3. CASE k # 1
    BY <1>1, <1>3
<1>4. QED
    BY <1>3

\* A new command goes to the end.
LEMMA ChannelAppended ==
    ASSUME RelayTypeOK, NEW c \in Command, channel' = Append(channel, c)
    PROVE  /\ channel' \in Seq(Command)
           /\ Len(channel) \in Nat
           /\ Len(channel') = Len(channel) + 1
           /\ channel'[Len(channel')] = c
           /\ \A k \in 1 .. Len(channel) : channel'[k] = channel[k]
BY AppendProperties DEF RelayTypeOK

\* Failures of different peers or bundles are different commands, and a command
\* that says so is a failure.
LEMMA FailedFacts ==
    /\ \A b \in Bundles, n \in Nodes : Failed(b, n) \in Command
    /\ \A b, n, c, m : Failed(b, n) = Failed(c, m) => b = c /\ n = m
    /\ \A c \in Command : c.type \in {"incoming", "sender", "failed"}
    /\ \A c \in Command : c.bundle \in Bundles
    /\ \A c \in Command :
          c.type = "failed" => c.node \in Nodes /\ c = Failed(c.bundle, c.node)
    /\ \A b, n : \A c \in Command : c.type # "failed" => c # Failed(b, n)
BY DEF Failed, Command

------------------------------------------------------------------------------
\* Types.

\* The tasks and the peer table keep their types.
LEMMA RelayTyped ==
    ASSUME RelayTypeOK, RelayEnvironment \/ \E b \in Bundles : RelayTask(b)
    PROVE  RelayTypeOK'
<1> USE RelayAssumption
<1>1. ASSUME NEW b \in Bundles, Accept(b) PROVE RelayTypeOK'
    <2>1. Incoming(b) \in Command
        BY DEF Incoming, Command
    <2>2. channel' \in Seq(Command)
        BY <1>1, <2>1, ChannelAppended DEF Accept
    <2>3. QED
        BY <1>1, <2>2 DEF RelayTypeOK, Accept
<1>2. ASSUME NEW b \in Bundles, StoreReport(b) PROVE RelayTypeOK'
    BY <1>2 DEF RelayTypeOK, StoreReport
<1>3. ASSUME NEW b \in Bundles, Vanish(b) PROVE RelayTypeOK'
    BY <1>3 DEF RelayTypeOK, Vanish
<1>4. ASSUME NEW b \in Bundles, Ask(b) PROVE RelayTypeOK'
    <2>1. [type |-> "sender", bundle |-> b] \in Command
        BY DEF Command
    <2>2. channel' \in Seq(Command)
        BY <1>4, <2>1, ChannelAppended DEF Ask
    <2>3. QED
        BY <1>4, <2>2 DEF RelayTypeOK, Ask
<1>5. ASSUME NEW b \in Bundles, Fetch(b) PROVE RelayTypeOK'
    <2>1. task' \in [Bundles -> {"idle", "asking", "answered", "sending"}]
        BY <1>5 DEF RelayTypeOK, Fetch
    <2>2. selected' \in [Bundles -> SUBSET Nodes] /\ stored' \subseteq stored
        BY <1>5 DEF RelayTypeOK, Fetch
    <2>3. sent' \in [Bundles -> BOOLEAN]
        BY <1>5 DEF RelayTypeOK, Fetch
    <2>4. QED
        BY <1>5, <2>1, <2>2, <2>3 DEF RelayTypeOK, Fetch
<1>6. ASSUME NEW b \in Bundles, Joined(b) PROVE RelayTypeOK'
    BY <1>6 DEF RelayTypeOK, Joined
<1>7. ASSUME NEW b \in Bundles, NEW n \in Nodes, TransferOk(b, n) PROVE RelayTypeOK'
    BY <1>7 DEF RelayTypeOK, TransferOk
<1>8. ASSUME NEW b \in Bundles, NEW n \in Nodes, TransferFailed(b, n) PROVE RelayTypeOK'
    <2>1. [type |-> "failed", bundle |-> b, node |-> n] \in Command
        BY DEF Command
    <2>2. channel' \in Seq(Command)
        BY <1>8, <2>1, ChannelAppended DEF TransferFailed
    <2>3. QED
        BY <1>8, <2>2 DEF RelayTypeOK, TransferFailed
<1>9. ASSUME NEW b \in Bundles, NEW n \in Nodes, ReportFailed(b, n) PROVE RelayTypeOK'
    <2>1. fails' \in [Nodes -> Nat]
        BY <1>9 DEF RelayTypeOK, ReportFailed, PeerVars
    <2>2. peers' \subseteq Nodes
        BY <1>9 DEF RelayTypeOK, ReportFailed, PeerVars
    <2>3. QED
        BY <1>9, <2>1, <2>2 DEF RelayTypeOK, ReportFailed
<1>10. ASSUME NEW n \in Nodes, PeersAdd(n) PROVE RelayTypeOK'
    BY <1>10 DEF RelayTypeOK, PeersAdd
<1>11. ASSUME NEW n \in Nodes, PeersRemove(n) PROVE RelayTypeOK'
    BY <1>11 DEF RelayTypeOK, PeersRemove
<1>12. ASSUME NEW silent \in SUBSET (Nodes \ Static), ProcessPeers(silent)
       PROVE  RelayTypeOK'
    BY <1>12 DEF RelayTypeOK, ProcessPeers
<1>13. QED
    BY <1>1, <1>2, <1>3, <1>4, <1>5, <1>6, <1>7, <1>8, <1>9, <1>10, <1>11, <1>12
       DEF RelayEnvironment, RelayTask

\* So does an answer of the agent.
LEMMA AnswerTyped ==
    ASSUME RelayTypeOK, channel # <<>>, NEW b \in Bundles, NEW nodes \in SUBSET Nodes,
           NEW delete \in BOOLEAN, Answer(b, nodes, delete)
    PROVE  RelayTypeOK'
<1>1. channel' \in Seq(Command)
    BY ChannelTaken DEF Answer
<1>2. QED
    BY <1>1 DEF RelayTypeOK, Answer

\* So does a notification the agent takes.
LEMMA NotedTyped ==
    ASSUME RelayTypeOK, channel # <<>>, Noted
    PROVE  RelayTypeOK'
<1>1. channel' \in Seq(Command)
    BY ChannelTaken DEF Noted
<1>2. QED
    BY <1>1 DEF RelayTypeOK, Noted
=============================================================================
