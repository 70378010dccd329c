------------------------- MODULE SprayAndWaitProofs -------------------------
(***************************************************************************)
(* Proofs about SprayAndWait, for every set of bundles and every finite    *)
(* set of nodes, any number of copies and any failure limit.               *)
(***************************************************************************)
EXTENDS SprayAndWait, RelayProofs, FiniteSetTheorems

------------------------------------------------------------------------------
\* The inductive invariant.

\* The bundle is noted and a copy of it is charged to the node.
Charged(b, n) == b \in DOMAIN history /\ history[b].nodes[n] > 0

\* The last copy is never given away.
LastCopyKept ==
    \A b \in DOMAIN history : Budget(b) > 0 => history[b].remaining > 0

\* Whoever is sent or was sent a bundle is charged for it; only the destination
\* may be served for free.
SentAreCharged ==
    \A b \in Bundles : \A n \in selected[b] \cup got[b] : n # Dest[b] => Charged(b, n)

\* A relay is not sent what it has.
RelaysNotServed ==
    \A b \in Bundles : selected[b] \cap got[b] \subseteq {Dest[b]}

\* A failure on its way is that of a charged relay which has not got the bundle and is not being
\* sent it ...
FailuresPending ==
    \A b \in Bundles, n \in Nodes : \A k \in 1 .. Len(channel) :
        n # Dest[b] /\ channel[k] = Failed(b, n)
          => Charged(b, n) /\ n \notin selected[b] \cup got[b]

\* ... and it is on its way once only.
FailuresOnce ==
    \A b \in Bundles, n \in Nodes : \A j, k \in 1 .. Len(channel) :
        n # Dest[b] /\ channel[j] = Failed(b, n) /\ channel[k] = Failed(b, n) => j = k

Sending == SentAreCharged /\ RelaysNotServed /\ FailuresPending /\ FailuresOnce

Inv == TypeOK /\ CopiesConserved /\ LastCopyKept /\ Sending

------------------------------------------------------------------------------
\* The history.

\* What the history satisfies by itself.
HistoryOK ==
    /\ DOMAIN history \subseteq Bundles
    /\ history \in [DOMAIN history -> SaWBundleData]
    /\ CopiesConserved
    /\ LastCopyKept

\* The fields of an entry.
LEMMA EntryTyped ==
    ASSUME HistoryOK, NEW b \in DOMAIN history
    PROVE  /\ b \in Bundles
           /\ history[b].remaining \in Nat
           /\ history[b].nodes \in [Nodes -> Nat]
           /\ history[b] = [remaining |-> history[b].remaining, nodes |-> history[b].nodes]
           /\ IsFiniteSet(Served(b)) /\ Cardinality(Served(b)) \in Nat
           /\ Budget(b) \in Nat
<1>1. history[b] \in SaWBundleData
    BY DEF HistoryOK
<1>2. IsFiniteSet(Served(b))
    BY FS_Subset, RelayAssumption DEF Served
<1>3. Cardinality(Served(b)) \in Nat
    BY <1>2, FS_CardinalityType
<1>4. QED
    BY <1>1, <1>2, <1>3, SprayAssumption DEF HistoryOK, SaWBundleData, Budget

\* A new bundle has all its copies; what is known of the others stays.
LEMMA NewBundleHistory ==
    ASSUME HistoryOK, NEW b \in Bundles, HandleNewBundle(b)
    PROVE  /\ HistoryOK'
           /\ \A x \in DOMAIN history : x \in DOMAIN history' /\ history'[x] = history[x]
<1>1. CASE b \in DOMAIN history
    <2>1. history' = history
        BY <1>1 DEF HandleNewBundle
    <2>2. QED
        BY <2>1 DEF HistoryOK, CopiesConserved, LastCopyKept, Served
<1>2. CASE b \notin DOMAIN history
    <2>1. /\ DOMAIN history' = DOMAIN history \cup {b}
          /\ history'[b] = [remaining |-> Budget(b), nodes |-> [n \in Nodes |-> 0]]
          /\ \A x \in DOMAIN history : history'[x] = history[x]
          /\ history' = [x \in DOMAIN history' |-> history'[x]]
        BY <1>2 DEF HandleNewBundle
    <2>2. Budget(b) \in Nat
        BY SprayAssumption DEF Budget
    <2>3. history'[b] \in SaWBundleData
        BY <2>1, <2>2 DEF SaWBundleData
    <2>4. history' \in [DOMAIN history' -> SaWBundleData]
        BY <2>1, <2>3 DEF HistoryOK
    <2>5. Served(b)' = {}
        BY <2>1 DEF Served
    <2>6. Cardinality(Served(b)') = 0
        BY <2>5, FS_EmptySet
    <2>7. \A x \in DOMAIN history : Served(x)' = Served(x)
        BY <2>1 DEF Served
    <2>8. CopiesConserved'
        <3> SUFFICES ASSUME NEW x \in DOMAIN history'
                     PROVE  /\ history'[x].remaining + Cardinality(Served(x)') = Budget(x)
                            /\ \A n \in Nodes : history'[x].nodes[n] <= 1
            BY DEF CopiesConserved, Budget
        <3>1. CASE x = b
            BY <3>1, <2>1, <2>2, <2>6
        <3>2. CASE x # b
            BY <3>2, <2>1, <2>7 DEF HistoryOK, CopiesConserved
        <3>3. QED
            BY <3>1, <3>2
    <2>9. LastCopyKept'
        BY <2>1 DEF HistoryOK, LastCopyKept, Budget
    <2>10. QED
        BY <2>1, <2>4, <2>8, <2>9 DEF HistoryOK
<1>3. QED
    BY <1>1, <1>2

\* A failure of a charged node returns its copy, any other changes nothing.
LEMMA FailureHistory ==
    ASSUME HistoryOK, NEW b \in Bundles, NEW n \in Nodes, HandleSendingFailed(b, n)
    PROVE  /\ HistoryOK'
           /\ \A x \in Bundles, m \in Nodes :
                 Charged(x, m) /\ (x # b \/ m # n) => Charged(x, m)'
<1>1. CASE b \notin DOMAIN history
    <2>1. history' = history
        BY <1>1 DEF HandleSendingFailed
    <2>2. QED
        BY <2>1 DEF HistoryOK, CopiesConserved, LastCopyKept, Served, Charged
<1>2. CASE b \in DOMAIN history
    <2> DEFINE c == history[b].nodes[n]
    <2>0. /\ history[b].remaining \in Nat
          /\ history[b].nodes \in [Nodes -> Nat]
          /\ history[b] = [remaining |-> history[b].remaining, nodes |-> history[b].nodes]
        BY <1>2, EntryTyped
    <2>1. /\ DOMAIN history' = DOMAIN history
          /\ \A x \in DOMAIN history : x # b => history'[x] = history[x]
          /\ history'[b] = [remaining |-> history[b].remaining + c,
                            nodes |-> [history[b].nodes EXCEPT ![n] = 0]]
          /\ history' = [x \in DOMAIN history' |-> history'[x]]
        BY <1>2, <2>0 DEF HandleSendingFailed, HistoryOK
    <2>2. c \in {0, 1}
        BY <1>2, <2>0 DEF HistoryOK, CopiesConserved
    <2>3. history'[b] \in SaWBundleData
        BY <2>0, <2>1, <2>2 DEF SaWBundleData
    <2>4. history' \in [DOMAIN history' -> SaWBundleData]
        BY <2>1, <2>3 DEF HistoryOK
    <2>5. Served(b)' = Served(b) \ {n}
        BY <2>0, <2>1 DEF Served
    <2>6. n \in Served(b) <=> c = 1
        BY <2>2 DEF Served
    <2>7. Cardinality(Served(b)') = Cardinality(Served(b)) - c
        <3>1. IsFiniteSet(Served(b)) /\ Cardinality(Served(b)) \in Nat
            BY <1>2, EntryTyped
        <3>2. Cardinality(Served(b) \ {n}) = IF n \in Served(b) THEN Cardinality(Served(b)) - 1
                                             ELSE Cardinality(Served(b))
            BY <3>1, FS_RemoveElement
        <3>3. QED
            BY <3>1, <3>2, <2>2, <2>5, <2>6
    <2>8. \A x \in DOMAIN history : x # b => Served(x)' = Served(x)
        BY <2>1 DEF Served
    <2>9. CopiesConserved'
        <3> SUFFICES ASSUME NEW x \in DOMAIN history'
                     PROVE  /\ history'[x].remaining + Cardinality(Served(x)') = Budget(x)
                            /\ \A m \in Nodes : history'[x].nodes[m] <= 1
            BY DEF CopiesConserved, Budget
        <3>1. CASE x = b
            <4>1. Cardinality(Served(b)) \in Nat
                BY <1>2, EntryTyped
            <4>2. history[b].remaining + Cardinality(Served(b)) = Budget(b)
                BY <1>2 DEF HistoryOK, CopiesConserved
            <4>3. history'[b].remaining + Cardinality(Served(b)') = Budget(b)
                BY <4>1, <4>2, <2>0, <2>1, <2>2, <2>7
            <4>4. \A m \in Nodes : history'[b].nodes[m] <= 1
                BY <1>2, <2>0, <2>1 DEF HistoryOK, CopiesConserved
            <4>5. QED
                BY <3>1, <4>3, <4>4
        <3>2. CASE x # b
            BY <3>2, <2>1, <2>8 DEF HistoryOK, CopiesConserved
        <3>3. QED
            BY <3>1, <3>2
    <2>10. LastCopyKept'
        BY <1>2, <2>0, <2>1, <2>2 DEF HistoryOK, LastCopyKept, Budget
    <2>11. \A x \in Bundles, m \in Nodes :
              Charged(x, m) /\ (x # b \/ m # n) => Charged(x, m)'
        BY <2>0, <2>1 DEF Charged
    <2>12. QED
        BY <2>1, <2>4, <2>9, <2>10, <2>11 DEF HistoryOK
<1>3. QED
    BY <1>1, <1>2

\* What the loop over the peers does to the history: a copy each is charged to
\* new nodes, and never the last one.
Charge(b, relays) ==
    history' = [history EXCEPT
                  ![b].remaining = @ - Cardinality(relays),
                  ![b].nodes = [n \in Nodes |-> IF n \in relays THEN @[n] + 1 ELSE @[n]]]

\* Charging eligible nodes within the budget moves copies from one side of the
\* balance to the other.
LEMMA ChargeHistory ==
    ASSUME HistoryOK, NEW b \in DOMAIN history, NEW relays \in SUBSET Nodes,
           \A n \in relays : history[b].nodes[n] = 0,
           Cardinality(relays) <= RelayBudget(b), Charge(b, relays)
    PROVE  /\ HistoryOK'
           /\ \A x \in Bundles, m \in Nodes : Charged(x, m) => Charged(x, m)'
           /\ \A m \in relays : Charged(b, m)'
<1> DEFINE c == Cardinality(relays)
<1>0. /\ history[b].remaining \in Nat
      /\ history[b].nodes \in [Nodes -> Nat]
      /\ history[b] = [remaining |-> history[b].remaining, nodes |-> history[b].nodes]
      /\ IsFiniteSet(Served(b)) /\ Cardinality(Served(b)) \in Nat
    BY EntryTyped
<1>1. /\ DOMAIN history' = DOMAIN history
      /\ \A x \in DOMAIN history : x # b => history'[x] = history[x]
      /\ history'[b] = [remaining |-> history[b].remaining - c,
                        nodes |-> [n \in Nodes |-> IF n \in relays
                                                    THEN history[b].nodes[n] + 1
                                                    ELSE history[b].nodes[n]]]
      /\ history' = [x \in DOMAIN history' |-> history'[x]]
    BY <1>0 DEF Charge, HistoryOK
<1>2. IsFiniteSet(relays) /\ c \in Nat
    BY FS_Subset, FS_CardinalityType, RelayAssumption
<1>3. /\ history[b].remaining - c \in Nat
      /\ history[b].remaining > 0 => history[b].remaining - c > 0
    BY <1>0, <1>2 DEF RelayBudget
<1>4. history'[b] \in SaWBundleData
    BY <1>0, <1>1, <1>3 DEF SaWBundleData
<1>5. history' \in [DOMAIN history' -> SaWBundleData]
    BY <1>1, <1>4 DEF HistoryOK
<1>6. /\ Served(b)' = Served(b) \cup relays
      /\ Served(b) \cap relays = {}
    BY <1>0, <1>1 DEF Served
<1>7. Cardinality(Served(b)') = Cardinality(Served(b)) + c
    <2>1. Cardinality(Served(b) \cup relays)
            = Cardinality(Served(b)) + c - Cardinality(Served(b) \cap relays)
        BY <1>0, <1>2, FS_Union
    <2>2. Cardinality(Served(b) \cap relays) = 0
        BY <1>6, FS_EmptySet
    <2>3. QED
        BY <2>1, <2>2, <1>0, <1>2, <1>6
<1>8. \A x \in DOMAIN history : x # b => Served(x)' = Served(x)
    BY <1>1 DEF Served
<1>9. CopiesConserved'
    <2> SUFFICES ASSUME NEW x \in DOMAIN history'
                 PROVE  /\ history'[x].remaining + Cardinality(Served(x)') = Budget(x)
                        /\ \A m \in Nodes : history'[x].nodes[m] <= 1
        BY DEF CopiesConserved, Budget
    <2>1. CASE x = b
        <3>1. history[b].remaining + Cardinality(Served(b)) = Budget(b)
            BY DEF HistoryOK, CopiesConserved
        <3>2. history'[b].remaining + Cardinality(Served(b)') = Budget(b)
            BY <3>1, <1>0, <1>1, <1>2, <1>7
        <3>3. \A m \in Nodes : history'[b].nodes[m] <= 1
            BY <1>0, <1>1 DEF HistoryOK, CopiesConserved
        <3>4. QED
            BY <2>1, <3>2, <3>3
    <2>2. CASE x # b
        BY <2>2, <1>1, <1>8 DEF HistoryOK, CopiesConserved
    <2>3. QED
        BY <2>1, <2>2
<1>10. LastCopyKept'
    BY <1>1, <1>3 DEF HistoryOK, LastCopyKept, Budget
<1>11. \A x \in Bundles, m \in Nodes : Charged(x, m) => Charged(x, m)'
    BY <1>0, <1>1 DEF Charged
<1>12. \A m \in relays : Charged(b, m)'
    BY <1>0, <1>1 DEF Charged
<1>13. QED
    BY <1>1, <1>5, <1>9, <1>10, <1>11, <1>12 DEF HistoryOK

------------------------------------------------------------------------------
\* Sending.

\* Steps that change neither the history, nor who is sent what, nor the channel.
LEMMA QuietSending ==
    ASSUME Sending, UNCHANGED <<history, channel, selected, got>>
    PROVE  Sending'
BY DEF Sending, SentAreCharged, RelaysNotServed, FailuresPending, FailuresOnce, Charged

\* A command that reports no failure joins the channel.
LEMMA CommandSending ==
    ASSUME RelayTypeOK, Sending, NEW c \in Command, c.type # "failed",
           channel' = Append(channel, c), UNCHANGED <<history, selected, got>>
    PROVE  Sending'
<1>1. /\ Len(channel) \in Nat
      /\ Len(channel') = Len(channel) + 1
      /\ channel'[Len(channel')] = c
      /\ \A k \in 1 .. Len(channel) : channel'[k] = channel[k]
    BY ChannelAppended
<1>2. \A b, n : \A k \in 1 .. Len(channel') :
         channel'[k] = Failed(b, n) => k \in 1 .. Len(channel) /\ channel[k] = Failed(b, n)
    <2> SUFFICES ASSUME NEW b, NEW n, NEW k \in 1 .. Len(channel'), channel'[k] = Failed(b, n)
                 PROVE  k \in 1 .. Len(channel) /\ channel[k] = Failed(b, n)
        OBVIOUS
    <2>1. c # Failed(b, n)
        BY FailedFacts
    <2>2. k # Len(channel')
        BY <1>1, <2>1
    <2>3. QED
        BY <1>1, <2>2
<1>3. FailuresPending'
    BY <1>2 DEF Sending, FailuresPending, Charged
<1>4. FailuresOnce'
    BY <1>2 DEF Sending, FailuresOnce
<1>5. QED
    BY <1>3, <1>4 DEF Sending, SentAreCharged, RelaysNotServed, Charged

\* A transfer fails: its peer was charged, has not got the bundle, and no earlier
\* failure of it is on its way, for then it would not have been selected.
LEMMA FailureSending ==
    ASSUME RelayTypeOK, Sending, NEW b \in Bundles, NEW n \in Nodes,
           TransferFailed(b, n), UNCHANGED history
    PROVE  Sending'
<1>1. /\ Len(channel) \in Nat
      /\ Len(channel') = Len(channel) + 1
      /\ channel'[Len(channel')] = Failed(b, n)
      /\ \A k \in 1 .. Len(channel) : channel'[k] = channel[k]
    <2>1. channel' = Append(channel, Failed(b, n))
        BY DEF TransferFailed, Failed
    <2>2. QED
        BY <2>1, FailedFacts, ChannelAppended
<1>2. /\ n \in selected[b] /\ n \notin selected'[b]
      /\ \A x \in Bundles : selected'[x] \subseteq selected[x]
      /\ got' = got
    BY DEF TransferFailed, RelayTypeOK
<1>3. n # Dest[b] => \A k \in 1 .. Len(channel) : channel[k] # Failed(b, n)
    BY <1>2 DEF Sending, FailuresPending
<1>4. \A x, m : \A k \in 1 .. Len(channel') :
         channel'[k] = Failed(x, m)
           => \/ k \in 1 .. Len(channel) /\ channel[k] = Failed(x, m)
              \/ k = Len(channel') /\ x = b /\ m = n
    BY <1>1, FailedFacts
<1>5. FailuresPending'
    <2> SUFFICES ASSUME NEW x \in Bundles, NEW m \in Nodes, NEW k \in 1 .. Len(channel'),
                        m # Dest[x], channel'[k] = Failed(x, m)
                 PROVE  Charged(x, m)' /\ m \notin selected'[x] \cup got'[x]
        BY DEF FailuresPending, Failed
    <2>1. CASE k \in 1 .. Len(channel) /\ channel[k] = Failed(x, m)
        BY <2>1, <1>2 DEF Sending, FailuresPending, Charged
    <2>2. CASE x = b /\ m = n
        BY <2>2, <1>2 DEF Sending, SentAreCharged, RelaysNotServed, Charged
    <2>3. QED
        BY <1>4, <2>1, <2>2
<1>6. FailuresOnce'
    BY <1>3, <1>4 DEF Sending, FailuresOnce
<1>7. QED
    BY <1>2, <1>5, <1>6 DEF Sending, SentAreCharged, RelaysNotServed, Charged

\* A transfer succeeds.
LEMMA SuccessSending ==
    ASSUME RelayTypeOK, Sending, NEW b \in Bundles, NEW n \in Nodes,
           TransferOk(b, n), UNCHANGED history
    PROVE  Sending'
<1>1. /\ n \in selected[b]
      /\ selected' = [selected EXCEPT ![b] = selected[b] \ {n}]
      /\ got' = [got EXCEPT ![b] = got[b] \cup {n}]
      /\ channel' = channel
    BY DEF TransferOk
<1>2. \A x \in Bundles : selected'[x] \cup got'[x] = selected[x] \cup got[x]
    BY <1>1 DEF RelayTypeOK
<1>3. SentAreCharged'
    BY <1>2 DEF Sending, SentAreCharged, Charged
<1>4. RelaysNotServed'
    BY <1>1 DEF RelayTypeOK, Sending, RelaysNotServed
<1>5. FailuresPending' /\ FailuresOnce'
    BY <1>1, <1>2 DEF Sending, FailuresPending, FailuresOnce, Charged
<1>6. QED
    BY <1>3, <1>4, <1>5 DEF Sending

\* forward() gives up.
LEMMA FetchSending ==
    ASSUME RelayTypeOK, Sending, NEW b \in Bundles, Fetch(b), UNCHANGED history
    PROVE  Sending'
<1>1. /\ \A x \in Bundles : selected'[x] \subseteq selected[x]
      /\ got' = got /\ channel' = channel
    BY DEF Fetch, RelayTypeOK
<1>2. QED
    BY <1>1 DEF Sending, SentAreCharged, RelaysNotServed, FailuresPending, FailuresOnce,
                Charged

\* The agent takes a command: the failures left were there before, each once.
LEMMA TakenFailures ==
    ASSUME RelayTypeOK, FailuresOnce, channel # <<>>, channel' = Tail(channel)
    PROVE  /\ \A b, n : \A k \in 1 .. Len(channel') :
                 channel'[k] = Failed(b, n)
                   => k + 1 \in 1 .. Len(channel) /\ channel[k + 1] = Failed(b, n)
           /\ FailuresOnce'
<1>1. /\ \A k \in 1 .. Len(channel') :
            k + 1 \in 1 .. Len(channel) /\ channel'[k] = channel[k + 1]
      /\ channel' \in Seq(Command)
    BY ChannelTaken
<1>2. QED
    BY <1>1 DEF FailuresOnce

\* The agent takes a notification of a bundle.
LEMMA NewBundleSending ==
    ASSUME RelayTypeOK, HistoryOK, Sending, channel # <<>>, Noted,
           NEW b \in Bundles, HandleNewBundle(b)
    PROVE  Sending'
<1>1. \A x \in Bundles, m \in Nodes : Charged(x, m) => Charged(x, m)'
    BY NewBundleHistory DEF Charged
<1>2. /\ \A x, m : \A k \in 1 .. Len(channel') :
            channel'[k] = Failed(x, m)
              => k + 1 \in 1 .. Len(channel) /\ channel[k + 1] = Failed(x, m)
      /\ FailuresOnce'
    BY TakenFailures DEF Noted, Sending
<1>3. selected' = selected /\ got' = got
    BY DEF Noted
<1>4. SentAreCharged'
    BY <1>1, <1>3 DEF Sending, SentAreCharged, RelayTypeOK
<1>5. FailuresPending'
    BY <1>1, <1>2, <1>3 DEF Sending, FailuresPending
<1>6. QED
    BY <1>2, <1>3, <1>4, <1>5 DEF Sending, RelaysNotServed

\* The agent takes a failure: the node it uncharges has not got the bundle, is not
\* being sent it, and no other failure of it is left in the channel.
LEMMA FailedSending ==
    ASSUME RelayTypeOK, HistoryOK, Sending, channel # <<>>, Noted,
           NEW b \in Bundles, NEW n \in Nodes, channel[1] = Failed(b, n),
           HandleSendingFailed(b, n)
    PROVE  Sending'
<1>1. \A x \in Bundles, m \in Nodes :
         Charged(x, m) /\ (x # b \/ m # n) => Charged(x, m)'
    BY FailureHistory
<1>2. /\ \A x, m : \A k \in 1 .. Len(channel') :
            channel'[k] = Failed(x, m)
              => k + 1 \in 1 .. Len(channel) /\ channel[k + 1] = Failed(x, m)
      /\ FailuresOnce'
    BY TakenFailures DEF Noted, Sending
<1>3. selected' = selected /\ got' = got
    BY DEF Noted
<1>4. 1 \in 1 .. Len(channel)
    BY ChannelTaken DEF Noted
<1>5. n # Dest[b] => n \notin selected[b] \cup got[b]
    BY <1>4 DEF Sending, FailuresPending
<1>6. SentAreCharged'
    <2> SUFFICES ASSUME NEW x \in Bundles, NEW m \in selected[x] \cup got[x], m # Dest[x]
                 PROVE  Charged(x, m)'
        BY <1>3 DEF SentAreCharged
    <2>1. m \in Nodes /\ Charged(x, m)
        BY DEF Sending, SentAreCharged, RelayTypeOK
    <2>2. x # b \/ m # n
        BY <1>5
    <2>3. QED
        BY <1>1, <2>1, <2>2
<1>7. FailuresPending'
    <2> SUFFICES ASSUME NEW x \in Bundles, NEW m \in Nodes, NEW k \in 1 .. Len(channel'),
                        m # Dest[x], channel'[k] = Failed(x, m)
                 PROVE  Charged(x, m)' /\ m \notin selected'[x] \cup got'[x]
        BY DEF FailuresPending, Failed
    <2>1. k + 1 \in 1 .. Len(channel) /\ channel[k + 1] = Failed(x, m) /\ k + 1 # 1
        BY <1>2
    <2>2. x # b \/ m # n
        BY <2>1, <1>4 DEF Sending, FailuresOnce
    <2>3. Charged(x, m) /\ m \notin selected[x] \cup got[x]
        BY <2>1 DEF Sending, FailuresPending
    <2>4. QED
        BY <1>1, <1>3, <2>2, <2>3
<1>8. QED
    BY <1>2, <1>3, <1>6, <1>7 DEF Sending, RelaysNotServed

\* The agent answers: whoever it names is the destination or newly charged, and
\* so neither has the bundle nor has a failure on its way.
LEMMA AnswerSending ==
    ASSUME RelayTypeOK, Sending, channel # <<>>,
           NEW b \in Bundles, NEW nodes \in SUBSET Nodes, NEW delete, Answer(b, nodes, delete),
           \A x \in Bundles, m \in Nodes : Charged(x, m) => Charged(x, m)',
           \A m \in nodes : m # Dest[b] => ~Charged(b, m) /\ Charged(b, m)'
    PROVE  Sending'
<1>1. /\ \A x, m : \A k \in 1 .. Len(channel') :
            channel'[k] = Failed(x, m)
              => k + 1 \in 1 .. Len(channel) /\ channel[k + 1] = Failed(x, m)
      /\ FailuresOnce'
    BY TakenFailures DEF Answer, Sending
<1>2. /\ selected'[b] = nodes
      /\ \A x \in Bundles : x # b => selected'[x] = selected[x]
      /\ got' = got
    BY DEF Answer, RelayTypeOK
<1>3. SentAreCharged'
    BY <1>2 DEF Sending, SentAreCharged, RelayTypeOK
<1>4. RelaysNotServed'
    BY <1>2 DEF Sending, SentAreCharged, RelaysNotServed, RelayTypeOK
<1>5. FailuresPending'
    BY <1>1, <1>2 DEF Sending, FailuresPending
<1>6. QED
    BY <1>1, <1>3, <1>4, <1>5 DEF Sending

------------------------------------------------------------------------------
\* The agent.

\* handle_sender_for_bundle keeps the invariant.
LEMMA SenderStep ==
    ASSUME RelayTypeOK, HistoryOK, Sending, channel # <<>>,
           NEW b \in Bundles, HandleSender(b)
    PROVE  RelayTypeOK' /\ HistoryOK' /\ Sending'
<1>1. CASE b \notin DOMAIN history
    <2>1. Answer(b, {}, FALSE) /\ UNCHANGED history
        BY <1>1 DEF HandleSender
    <2>2. HistoryOK'
        BY <2>1 DEF HistoryOK, CopiesConserved, LastCopyKept, Served
    <2>3. \A x \in Bundles, m \in Nodes : Charged(x, m) => Charged(x, m)'
        BY <2>1 DEF Charged
    <2>4. RelayTypeOK'
        BY <2>1, AnswerTyped
    <2>5. Sending'
        <3>1. {} \in SUBSET Nodes /\ \A m \in {} : m # Dest[b] => ~Charged(b, m) /\ Charged(b, m)'
            OBVIOUS
        <3>2. QED
            BY <2>1, <2>3, <3>1, AnswerSending
    <2>6. QED
        BY <2>2, <2>4, <2>5
<1>2. CASE b \in DOMAIN history
    <2>1. PICK relays \in SUBSET Eligible(b) :
             /\ \/ Cardinality(relays) = RelayBudget(b)
                \/ relays = Eligible(b) /\ Cardinality(relays) <= RelayBudget(b)
             /\ Charge(b, relays)
             /\ IF Direct(b, relays) THEN Answer(b, {Dest[b]}, TRUE)
                ELSE Answer(b, relays, FALSE)
        BY <1>2 DEF HandleSender, Charge
    <2>2. Eligible(b) \subseteq Nodes /\ \A n \in Eligible(b) : history[b].nodes[n] = 0
        BY DEF Eligible, Usable, RelayTypeOK
    <2>3. RelayBudget(b) \in Nat
        BY <1>2, EntryTyped DEF RelayBudget
    <2>4. Cardinality(relays) <= RelayBudget(b)
        BY <2>1, <2>3
    <2>5. /\ HistoryOK'
          /\ \A x \in Bundles, m \in Nodes : Charged(x, m) => Charged(x, m)'
          /\ \A m \in relays : Charged(b, m)'
        BY <1>2, <2>1, <2>2, <2>4, ChargeHistory
    <2>6. \A m \in relays : ~Charged(b, m)
        BY <2>2 DEF Charged
    <2>7. CASE Direct(b, relays)
        <3>1. Answer(b, {Dest[b]}, TRUE)
            BY <2>1, <2>7
        <3>2. {Dest[b]} \in SUBSET Nodes
            BY <2>2, <2>7 DEF Direct
        <3>3. RelayTypeOK'
            BY <3>1, <3>2, AnswerTyped
        <3>4. Sending'
            BY <3>1, <3>2, <2>5, AnswerSending
        <3>5. QED
            BY <2>5, <3>3, <3>4
    <2>8. CASE ~Direct(b, relays)
        <3>1. Answer(b, relays, FALSE)
            BY <2>1, <2>8
        <3>2. relays \in SUBSET Nodes
            BY <2>2
        <3>3. RelayTypeOK'
            BY <3>1, <3>2, AnswerTyped
        <3>4. Sending'
            BY <3>1, <3>2, <2>5, <2>6, AnswerSending
        <3>5. QED
            BY <2>5, <3>3, <3>4
    <2>9. QED
        BY <2>7, <2>8
<1>3. QED
    BY <1>1, <1>2

\* Every command the agent takes keeps the invariant.
LEMMA AgentStep ==
    ASSUME RelayTypeOK, HistoryOK, Sending, HandleRoutingCmd
    PROVE  RelayTypeOK' /\ HistoryOK' /\ Sending'
<1> DEFINE cmd == Head(channel)
<1>1. channel # <<>>
    BY DEF HandleRoutingCmd
<1>2. channel' = Tail(channel)
    BY DEF HandleRoutingCmd, Noted, HandleSender, Answer
<1>3. cmd = channel[1] /\ cmd \in Command /\ cmd.bundle \in Bundles
    BY <1>1, <1>2, ChannelTaken, FailedFacts
<1>4. CASE HandleNewBundle(cmd.bundle) /\ Noted
    BY <1>1, <1>3, <1>4, NotedTyped, NewBundleHistory, NewBundleSending
<1>5. CASE cmd.type = "failed" /\ HandleSendingFailed(cmd.bundle, cmd.node) /\ Noted
    <2>1. cmd.node \in Nodes /\ channel[1] = Failed(cmd.bundle, cmd.node)
        BY <1>3, <1>5, FailedFacts
    <2>2. QED
        BY <1>1, <1>3, <1>5, <2>1, NotedTyped, FailureHistory, FailedSending
<1>6. CASE HandleSender(cmd.bundle)
    BY <1>1, <1>3, <1>6, SenderStep
<1>7. QED
    BY <1>4, <1>5, <1>6 DEF HandleRoutingCmd

\* What the tasks and the peer table do keeps what is said about sending.
LEMMA RelaySending ==
    ASSUME RelayTypeOK, Sending, UNCHANGED history,
           RelayEnvironment \/ \E b \in Bundles : RelayTask(b)
    PROVE  Sending'
<1>1. ASSUME NEW b \in Bundles, Accept(b) PROVE Sending'
    <2>1. Incoming(b) \in Command /\ Incoming(b).type # "failed"
        BY DEF Incoming, Command
    <2>2. QED
        BY <1>1, <2>1, CommandSending DEF Accept
<1>2. ASSUME NEW b \in Bundles, Ask(b) PROVE Sending'
    <2> DEFINE c == [type |-> "sender", bundle |-> b]
    <2>1. c \in Command /\ c.type # "failed"
        BY DEF Command
    <2>2. channel' = Append(channel, c) /\ UNCHANGED <<selected, got>>
        BY <1>2 DEF Ask
    <2> HIDE DEF c
    <2>3. QED
        BY <2>1, <2>2, CommandSending
<1>3. ASSUME NEW b \in Bundles, StoreReport(b) \/ Vanish(b) \/ Joined(b) PROVE Sending'
    BY <1>3, QuietSending DEF StoreReport, Vanish, Joined
<1>4. ASSUME NEW b \in Bundles, NEW n \in Nodes, ReportFailed(b, n) PROVE Sending'
    BY <1>4, QuietSending DEF ReportFailed
<1>5. ASSUME NEW n \in Nodes, PeersAdd(n) \/ PeersRemove(n) PROVE Sending'
    BY <1>5, QuietSending DEF PeersAdd, PeersRemove
<1>6. ASSUME NEW silent \in SUBSET (Nodes \ Static), ProcessPeers(silent) PROVE Sending'
    BY <1>6, QuietSending DEF ProcessPeers
<1>7. QED
    BY <1>1, <1>2, <1>3, <1>4, <1>5, <1>6, FetchSending, SuccessSending, FailureSending
       DEF RelayEnvironment, RelayTask

------------------------------------------------------------------------------
\* The theorems.

\* The invariant is inductive, and so always true.
THEOREM InvariantHolds == Spec => []Inv
<1>1. Init => Inv
    <2> SUFFICES ASSUME Init PROVE Inv
        OBVIOUS
    <2>1. TypeOK
        BY RelayAssumption DEF Init, RelayInit, TypeOK, RelayTypeOK
    <2>2. CopiesConserved /\ LastCopyKept
        BY DEF Init, CopiesConserved, LastCopyKept
    <2>3. channel = <<>> /\ \A b \in Bundles : selected[b] = {} /\ got[b] = {}
        BY DEF Init, RelayInit
    <2>4. SentAreCharged /\ RelaysNotServed
        BY <2>3 DEF SentAreCharged, RelaysNotServed
    <2>5. FailuresPending /\ FailuresOnce
        BY <2>3 DEF FailuresPending, FailuresOnce
    <2>6. QED
        BY <2>1, <2>2, <2>4, <2>5 DEF Inv, Sending
<1>2. Inv /\ [Next]_vars => Inv'
    <2> SUFFICES ASSUME Inv, [Next]_vars PROVE Inv'
        OBVIOUS
    <2>1. RelayTypeOK /\ HistoryOK /\ Sending
        BY DEF Inv, TypeOK, HistoryOK
    <2>2. CASE HandleRoutingCmd
        BY <2>1, <2>2, AgentStep DEF Inv, TypeOK, HistoryOK
    <2>3. CASE (RelayEnvironment \/ \E b \in Bundles : RelayTask(b)) /\ UNCHANGED history
        <3>1. HistoryOK'
            BY <2>1, <2>3 DEF HistoryOK, CopiesConserved, LastCopyKept, Served
        <3>2. QED
            BY <2>1, <2>3, <3>1, RelayTyped, RelaySending DEF Inv, TypeOK, HistoryOK
    <2>4. CASE UNCHANGED vars
        <3>1. HistoryOK'
            BY <2>1, <2>4 DEF vars, HistoryOK, CopiesConserved, LastCopyKept, Served
        <3>2. Sending'
            BY <2>1, <2>4, QuietSending DEF vars
        <3>3. RelayTypeOK'
            BY <2>1, <2>4 DEF vars, RelayTypeOK
        <3>4. QED
            BY <3>1, <3>2, <3>3 DEF Inv, TypeOK, HistoryOK
    <2>5. QED
        BY <2>2, <2>3, <2>4 DEF Next
<1>3. QED
    BY <1>1, <1>2, PTL DEF Spec

\* Types hold; in particular the copies left never fall below zero, where the
\* code's unsigned counter would wrap or panic.
THEOREM TypeCorrect == Spec => []TypeOK
<1>1. Inv => TypeOK
    BY DEF Inv
<1>2. QED
    BY <1>1, InvariantHolds, PTL

\* handle_sender_for_bundle and SendingFailed neither create nor lose copies, in
\* whatever order requests, failures and repeated notifications are taken.
THEOREM CopiesAreConserved == Spec => []CopiesConserved
<1>1. Inv => CopiesConserved
    BY DEF Inv
<1>2. QED
    BY <1>1, InvariantHolds, PTL

\* Apart from the destination fewer peers than there are copies ever get a bundle
\* from this node, and none gets a bundle of another node.
THEOREM SpreadIsBounded == Spec => []SpreadBounded
<1>1. Inv => SpreadBounded
    <2> SUFFICES ASSUME Inv, NEW b \in DOMAIN history
                 PROVE  /\ \/ Cardinality(got[b] \ {Dest[b]}) < Budget(b)
                           \/ got[b] \subseteq {Dest[b]}
                        /\ b \notin Own => got[b] \subseteq {Dest[b]}
        BY DEF SpreadBounded
    <2>1. HistoryOK
        BY DEF Inv, TypeOK, HistoryOK
    <2>2. /\ b \in Bundles
          /\ history[b].remaining \in Nat
          /\ IsFiniteSet(Served(b)) /\ Cardinality(Served(b)) \in Nat
          /\ Budget(b) \in Nat
        BY <2>1, EntryTyped
    <2>3. /\ history[b].remaining + Cardinality(Served(b)) = Budget(b)
          /\ Budget(b) > 0 => history[b].remaining > 0
        BY DEF Inv, CopiesConserved, LastCopyKept
    <2>4. got[b] \ {Dest[b]} \in SUBSET Served(b)
        BY <2>2 DEF Inv, TypeOK, RelayTypeOK, Sending, SentAreCharged, Charged, Served
    <2>5. /\ Cardinality(got[b] \ {Dest[b]}) \in Nat
          /\ Cardinality(got[b] \ {Dest[b]}) <= Cardinality(Served(b))
        BY <2>2, <2>4, FS_Subset, FS_CardinalityType
    <2>6. Budget(b) <= 1 => Served(b) = {}
        BY <2>2, <2>3, FS_EmptySet
    <2>7. Budget(b) <= 1 => got[b] \subseteq {Dest[b]}
        BY <2>4, <2>6
    <2>8. Budget(b) > 0 => Cardinality(got[b] \ {Dest[b]}) < Budget(b)
        BY <2>2, <2>3, <2>5
    <2>9. b \notin Own => Budget(b) <= 1
        BY DEF Budget
    <2>10. QED
        BY <2>2, <2>7, <2>8, <2>9
<1>2. QED
    BY <1>1, InvariantHolds, PTL

------------------------------------------------------------------------------
\* The destination.  It may be selected without being charged, so what keeps it
\* from being sent a bundle twice is the order of requests and failures in the
\* channel, and that the bundle is deleted after a direct delivery.

\* A request for next hops on its way to the agent.
SenderFor(b) == [type |-> "sender", bundle |-> b]

SenderIn(b) == \E k \in 1 .. Len(channel) : channel[k] = SenderFor(b)
FailedIn(b, n) == \E k \in 1 .. Len(channel) : channel[k] = Failed(b, n)

\* A bundle has at most one request on its way, behind the failures of earlier ones.
QueueInv ==
    \A b \in Bundles : \A k \in 1 .. Len(channel) : channel[k] = SenderFor(b) =>
        \A j \in 1 .. Len(channel) :
            /\ channel[j] = SenderFor(b) => j = k
            /\ \A n \in Nodes : channel[j] = Failed(b, n) => j < k

\* Only a task that waits for the answer has a request on its way, only one that got
\* an answer has peers selected, and those have no failure on its way.
TaskInv(b) ==
    /\ SenderIn(b) => task[b] = "asking"
    /\ task[b] \in {"idle", "asking"} => selected[b] = {}
    /\ task[b] # "idle" \/ got[b] # {} => b \in known
    /\ \A n \in Nodes : FailedIn(b, n) => task[b] # "answered" /\ n \notin selected[b]

\* A bundle its destination has got: that is recorded for good, or the bundle is
\* deleted, or about to be.
Delivered(b) ==
    \/ Charged(b, Dest[b]) /\ Dest[b] \notin selected[b] /\ ~FailedIn(b, Dest[b])
    \/ b \notin stored /\ task[b] = "idle"
    \/ task[b] = "sending" /\ selected[b] = {} /\ sent[b] /\ delAfter[b]

\* A destination that is being sent a bundle without being charged is alone in that.
DirectInv(b) ==
    /\ Dest[b] \in selected[b] => \/ Charged(b, Dest[b])
                                  \/ delAfter[b] /\ selected[b] = {Dest[b]}
    /\ Dest[b] \in got[b] /\ b \notin Resubmitted => Delivered(b)

OnceInv == QueueInv /\ \A b \in Bundles : TaskInv(b) /\ DirectInv(b)

\* The three kinds of command are told apart.
LEMMA CommandFacts ==
    /\ \A b \in Bundles : SenderFor(b) \in Command /\ Incoming(b) \in Command
    /\ \A b, c : SenderFor(b) = SenderFor(c) => b = c
    /\ \A b, c, n : SenderFor(b) # Failed(c, n) /\ SenderFor(b) # Incoming(c)
    /\ \A b, c, n : Incoming(b) # Failed(c, n)
    /\ \A c \in Command : c.type = "sender" => c = SenderFor(c.bundle)
BY DEF SenderFor, Failed, Incoming, Command

\* A command joins the channel: it is no second request, and no failure behind one.
LEMMA QueueAppended ==
    ASSUME RelayTypeOK, QueueInv, NEW c \in Command, channel' = Append(channel, c),
           \A b \in Bundles : SenderIn(b) =>
               c # SenderFor(b) /\ \A n \in Nodes : c # Failed(b, n)
    PROVE  /\ QueueInv'
           /\ \A b \in Bundles : SenderIn(b)' => SenderIn(b) \/ c = SenderFor(b)
           /\ \A b \in Bundles, n \in Nodes : FailedIn(b, n)'
                  => FailedIn(b, n) \/ c = Failed(b, n)
<1>1. /\ Len(channel) \in Nat
      /\ Len(channel') = Len(channel) + 1
      /\ channel'[Len(channel')] = c
      /\ \A k \in 1 .. Len(channel) : channel'[k] = channel[k]
    BY ChannelAppended
<1>2. \A k \in 1 .. Len(channel') :
         (k \in 1 .. Len(channel) /\ channel'[k] = channel[k])
           \/ (k = Len(channel') /\ channel'[k] = c)
    BY <1>1
<1>3. QueueInv'
    <2> SUFFICES ASSUME NEW b \in Bundles, NEW k \in 1 .. Len(channel'),
                        channel'[k] = SenderFor(b), NEW j \in 1 .. Len(channel')
                 PROVE  /\ channel'[j] = SenderFor(b) => j = k
                        /\ \A n \in Nodes : channel'[j] = Failed(b, n) => j < k
        BY DEF QueueInv, SenderFor, Failed
    <2>1. CASE k \in 1 .. Len(channel) /\ channel'[k] = channel[k]
        <3>1. SenderIn(b)
            BY <2>1 DEF SenderIn
        <3>2. QED
            BY <3>1, <2>1, <1>2 DEF QueueInv
    <2>2. CASE k = Len(channel') /\ channel'[k] = c
        <3>1. ~SenderIn(b)
            BY <2>2
        <3>2. \A n : c # Failed(b, n)
            BY <2>2, CommandFacts
        <3>3. QED
            BY <3>1, <3>2, <2>2, <1>1, <1>2 DEF SenderIn
    <2>3. QED
        BY <1>2, <2>1, <2>2
<1>4. QED
    BY <1>2, <1>3 DEF SenderIn, FailedIn

\* The agent takes a command.  Once it takes a request, nothing else about the bundle
\* but notifications is left.
LEMMA QueueTaken ==
    ASSUME RelayTypeOK, QueueInv, channel # <<>>, channel' = Tail(channel)
    PROVE  /\ QueueInv'
           /\ \A b \in Bundles : SenderIn(b)' => SenderIn(b)
           /\ \A b \in Bundles, n \in Nodes : FailedIn(b, n)' => FailedIn(b, n)
           /\ \A b \in Bundles : channel[1] = SenderFor(b) =>
                  ~SenderIn(b)' /\ \A n \in Nodes : ~FailedIn(b, n)'
<1>1. /\ 1 \in 1 .. Len(channel)
      /\ \A k \in 1 .. Len(channel') : k + 1 \in 1 .. Len(channel) /\ channel'[k] = channel[k + 1]
    BY ChannelTaken
<1>2. QueueInv'
    <2> SUFFICES ASSUME NEW b \in Bundles, NEW k \in 1 .. Len(channel'),
                        channel'[k] = SenderFor(b), NEW j \in 1 .. Len(channel')
                 PROVE  /\ channel'[j] = SenderFor(b) => j = k
                        /\ \A n \in Nodes : channel'[j] = Failed(b, n) => j < k
        BY DEF QueueInv, SenderFor, Failed
    <2>1. /\ channel'[j] = SenderFor(b) => j + 1 = k + 1
          /\ \A n \in Nodes : channel'[j] = Failed(b, n) => j + 1 < k + 1
        BY <1>1 DEF QueueInv
    <2>2. QED
        BY <2>1
<1>3. ASSUME NEW b \in Bundles, channel[1] = SenderFor(b)
      PROVE  ~SenderIn(b)' /\ \A n \in Nodes : ~FailedIn(b, n)'
    <2>1. \A j \in 1 .. Len(channel) :
             /\ channel[j] = SenderFor(b) => j = 1
             /\ \A n \in Nodes : channel[j] = Failed(b, n) => j < 1
        BY <1>1, <1>3 DEF QueueInv
    <2>2. \A j \in 1 .. Len(channel') :
             channel'[j] # SenderFor(b) /\ \A n \in Nodes : channel'[j] # Failed(b, n)
        BY <1>1, <2>1
    <2>3. QED
        BY <2>2 DEF SenderIn, FailedIn, SenderFor, Failed
<1>4. \A b \in Bundles : SenderIn(b)' => SenderIn(b)
    BY <1>1 DEF SenderIn, SenderFor
<1>5. \A b \in Bundles, n \in Nodes : FailedIn(b, n)' => FailedIn(b, n)
    BY <1>1 DEF FailedIn, Failed
<1>6. QED
    BY <1>2, <1>3, <1>4, <1>5

\* What a step must leave of a bundle for the invariant to stay.
LEMMA OnceFrame ==
    ASSUME NEW x \in Bundles, TaskInv(x), DirectInv(x),
           task'[x] = task[x], selected'[x] = selected[x], got'[x] = got[x],
           sent'[x] = sent[x], delAfter'[x] = delAfter[x],
           x \in known => x \in known', x \in stored' => x \in stored,
           SenderIn(x)' => SenderIn(x), \A n \in Nodes : FailedIn(x, n)' => FailedIn(x, n),
           Dest[x] \in Nodes /\ Charged(x, Dest[x]) => Charged(x, Dest[x])',
           selected[x] \subseteq Nodes, got[x] \subseteq Nodes
    PROVE  TaskInv(x)' /\ DirectInv(x)'
<1>1. TaskInv(x)'
    BY DEF TaskInv
<1>2. DirectInv(x)'
    BY DEF DirectInv, Delivered
<1>3. QED
    BY <1>1, <1>2

\* A step that is not the agent's.
LEMMA RelayOnce ==
    ASSUME RelayTypeOK, OnceInv, UNCHANGED history,
           RelayEnvironment \/ \E b \in Bundles : RelayTask(b)
    PROVE  OnceInv'
<1>0. \A x \in Bundles : /\ TaskInv(x) /\ DirectInv(x)
                         /\ selected[x] \subseteq Nodes /\ got[x] \subseteq Nodes
                         /\ Charged(x, Dest[x])' = Charged(x, Dest[x])
    BY DEF OnceInv, RelayTypeOK, Charged
<1>q. ASSUME channel' = channel
      PROVE  /\ QueueInv'
             /\ \A x \in Bundles : SenderIn(x)' = SenderIn(x)
             /\ \A x \in Bundles, n \in Nodes : FailedIn(x, n)' = FailedIn(x, n)
    BY <1>q DEF OnceInv, QueueInv, SenderIn, FailedIn
<1>s. ASSUME channel' = channel, UNCHANGED <<task, selected, got, sent, delAfter>>,
             known \subseteq known', stored' \cap known \subseteq stored
      PROVE  OnceInv'
    <2>1. \A x \in Bundles : x \in known => TaskInv(x)' /\ DirectInv(x)'
        BY <1>0, <1>q, <1>s, OnceFrame
    <2>2. \A x \in Bundles : x \notin known => TaskInv(x)' /\ DirectInv(x)'
        BY <1>0, <1>q, <1>s DEF TaskInv, DirectInv
    <2>3. QED
        BY <1>q, <1>s, <2>1, <2>2 DEF OnceInv
<1>1. ASSUME NEW b \in Bundles, Accept(b) PROVE OnceInv'
    <2>1. /\ channel' = Append(channel, Incoming(b)) /\ Incoming(b) \in Command
          /\ \A x, n : Incoming(b) # SenderFor(x) /\ Incoming(b) # Failed(x, n)
        BY <1>1, CommandFacts DEF Accept
    <2>2. /\ QueueInv'
          /\ \A x \in Bundles : SenderIn(x)' => SenderIn(x)
          /\ \A x \in Bundles, n \in Nodes : FailedIn(x, n)' => FailedIn(x, n)
        BY <2>1, QueueAppended DEF OnceInv
    <2>3. /\ UNCHANGED <<task, selected, got, sent, delAfter>>
          /\ known' = known \cup {b} /\ stored' = stored \cup {b}
        BY <1>1 DEF Accept
    <2>4. \A x \in Bundles : x # b => TaskInv(x)' /\ DirectInv(x)'
        BY <1>0, <2>2, <2>3, OnceFrame
    <2>5. TaskInv(b)'
        BY <1>0, <2>2, <2>3 DEF TaskInv
    <2>6. DirectInv(b)'
        <3>1. Dest[b] \in got[b] => b \in Resubmitted
            BY <1>0, <1>1 DEF TaskInv, Accept
        <3>2. QED
            BY <1>0, <2>3, <3>1 DEF DirectInv
    <2>7. QED
        BY <2>2, <2>4, <2>5, <2>6 DEF OnceInv
<1>2. ASSUME NEW b \in Bundles, StoreReport(b) PROVE OnceInv'
    BY <1>2, <1>s DEF StoreReport
<1>3. ASSUME NEW b \in Bundles, Vanish(b) PROVE OnceInv'
    BY <1>3, <1>s DEF Vanish
<1>4. ASSUME NEW b \in Bundles, Ask(b) PROVE OnceInv'
    <2>1. channel' = Append(channel, SenderFor(b)) /\ SenderFor(b) \in Command
        BY <1>4, CommandFacts DEF Ask, SenderFor
    <2>2. ~SenderIn(b)
        BY <1>0, <1>4 DEF TaskInv, Ask
    <2>3. \A x \in Bundles : SenderIn(x) =>
              SenderFor(b) # SenderFor(x) /\ \A n \in Nodes : SenderFor(b) # Failed(x, n)
        BY <2>2, CommandFacts
    <2>4. /\ QueueInv'
          /\ \A x \in Bundles : SenderIn(x)' => SenderIn(x) \/ SenderFor(b) = SenderFor(x)
          /\ \A x \in Bundles, n \in Nodes : FailedIn(x, n)'
                 => FailedIn(x, n) \/ SenderFor(b) = Failed(x, n)
        BY <2>1, <2>3, QueueAppended DEF OnceInv
    <2>5. /\ \A x \in Bundles : x # b => (SenderIn(x)' => SenderIn(x))
          /\ \A x \in Bundles, n \in Nodes : FailedIn(x, n)' => FailedIn(x, n)
        BY <2>4, CommandFacts
    <2>6. /\ UNCHANGED <<known, stored, selected, got, sent, delAfter>>
          /\ task[b] = "idle" /\ b \in stored /\ task'[b] = "asking"
          /\ \A x \in Bundles : x # b => task'[x] = task[x]
        BY <1>4 DEF Ask, RelayTypeOK
    <2>7. \A x \in Bundles : x # b => TaskInv(x)' /\ DirectInv(x)'
        BY <1>0, <2>5, <2>6, OnceFrame
    <2>8. TaskInv(b)'
        BY <1>0, <2>5, <2>6 DEF TaskInv, RelayTypeOK
    <2>9. DirectInv(b)'
        BY <1>0, <2>5, <2>6 DEF DirectInv, Delivered
    <2>10. QED
        BY <2>4, <2>7, <2>8, <2>9 DEF OnceInv
<1>5. ASSUME NEW b \in Bundles, Fetch(b) PROVE OnceInv'
    <2>1. /\ task[b] = "answered" /\ UNCHANGED <<known, channel, delAfter, got>>
          /\ \/ task'[b] = "sending" /\ UNCHANGED <<stored, selected>>
             \/ task'[b] = "idle" /\ selected'[b] = {} /\ stored' \subseteq stored
        BY <1>5 DEF Fetch, RelayTypeOK
    <2>2. \A x \in Bundles : x # b => /\ task'[x] = task[x] /\ selected'[x] = selected[x]
                                      /\ sent'[x] = sent[x]
        BY <1>5 DEF Fetch, RelayTypeOK
    <2>3. stored' \subseteq stored
        BY <2>1
    <2>4. \A x \in Bundles : x # b => TaskInv(x)' /\ DirectInv(x)'
        BY <1>0, <1>q, <2>1, <2>2, <2>3, OnceFrame
    <2>5. TaskInv(b)'
        BY <1>0, <1>q, <2>1 DEF TaskInv
    <2>6. DirectInv(b)'
        BY <1>0, <1>q, <2>1 DEF DirectInv, Delivered
    <2>7. QED
        BY <1>q, <2>1, <2>4, <2>5, <2>6 DEF OnceInv
<1>6. ASSUME NEW b \in Bundles, Joined(b) PROVE OnceInv'
    <2>1. /\ task[b] = "sending" /\ selected[b] = {} /\ task'[b] = "idle"
          /\ UNCHANGED <<known, channel, selected, sent, delAfter, got>>
          /\ stored' \subseteq stored /\ (sent[b] /\ delAfter[b] => b \notin stored')
          /\ \A x \in Bundles : x # b => task'[x] = task[x]
        BY <1>6 DEF Joined, RelayTypeOK
    <2>4. \A x \in Bundles : x # b => TaskInv(x)' /\ DirectInv(x)'
        BY <1>0, <1>q, <2>1, OnceFrame
    <2>5. TaskInv(b)'
        BY <1>0, <1>q, <2>1 DEF TaskInv
    <2>6. DirectInv(b)'
        BY <1>0, <1>q, <2>1 DEF DirectInv, Delivered
    <2>7. QED
        BY <1>q, <2>1, <2>4, <2>5, <2>6 DEF OnceInv
<1>7. ASSUME NEW b \in Bundles, NEW n \in Nodes, TransferOk(b, n) PROVE OnceInv'
    <2>1. /\ task[b] = "sending" /\ n \in selected[b]
          /\ UNCHANGED <<known, stored, channel, task, delAfter>>
          /\ selected'[b] = selected[b] \ {n} /\ sent'[b] = TRUE /\ got'[b] = got[b] \cup {n}
        BY <1>7 DEF TransferOk, RelayTypeOK
    <2>2. \A x \in Bundles : x # b => /\ got'[x] = got[x] /\ selected'[x] = selected[x]
                                      /\ sent'[x] = sent[x]
        BY <1>7 DEF TransferOk, RelayTypeOK
    <2>3. ~FailedIn(b, n)
        BY <1>0, <2>1 DEF TaskInv
    <2>4. \A x \in Bundles : x # b => TaskInv(x)' /\ DirectInv(x)'
        BY <1>0, <1>q, <2>1, <2>2, OnceFrame
    <2>5. TaskInv(b)'
        BY <1>0, <1>q, <2>1 DEF TaskInv
    <2>6. DirectInv(b)'
        BY <1>0, <1>q, <2>1, <2>3 DEF DirectInv, Delivered
    <2>7. QED
        BY <1>q, <2>1, <2>4, <2>5, <2>6 DEF OnceInv
<1>8. ASSUME NEW b \in Bundles, NEW n \in Nodes, TransferFailed(b, n) PROVE OnceInv'
    <2>1. /\ task[b] = "sending" /\ n \in selected[b]
          /\ UNCHANGED <<known, stored, task, sent, delAfter, got>>
          /\ selected'[b] = selected[b] \ {n}
          /\ \A x \in Bundles : x # b => selected'[x] = selected[x]
        BY <1>8 DEF TransferFailed, RelayTypeOK
    <2>2. channel' = Append(channel, Failed(b, n)) /\ Failed(b, n) \in Command
        BY <1>8, FailedFacts DEF TransferFailed, Failed
    <2>3. ~SenderIn(b)
        BY <1>0, <2>1 DEF TaskInv
    <2>4. \A x \in Bundles : SenderIn(x) =>
              Failed(b, n) # SenderFor(x) /\ \A m \in Nodes : Failed(b, n) # Failed(x, m)
        BY <2>3, CommandFacts, FailedFacts
    <2>5. /\ QueueInv'
          /\ \A x \in Bundles : SenderIn(x)' => SenderIn(x) \/ Failed(b, n) = SenderFor(x)
          /\ \A x \in Bundles, m \in Nodes : FailedIn(x, m)'
                 => FailedIn(x, m) \/ Failed(b, n) = Failed(x, m)
        BY <2>2, <2>4, QueueAppended DEF OnceInv
    <2>6. /\ \A x \in Bundles : SenderIn(x)' => SenderIn(x)
          /\ \A x \in Bundles, m \in Nodes : FailedIn(x, m)'
                 => FailedIn(x, m) \/ (x = b /\ m = n)
        BY <2>5, CommandFacts, FailedFacts
    <2>7. \A x \in Bundles : x # b => TaskInv(x)' /\ DirectInv(x)'
        BY <1>0, <2>1, <2>6, OnceFrame
    <2>8. TaskInv(b)'
        BY <1>0, <2>1, <2>6 DEF TaskInv
    <2>9. DirectInv(b)'
        BY <1>0, <2>1, <2>6 DEF DirectInv, Delivered
    <2>10. QED
        BY <2>5, <2>7, <2>8, <2>9 DEF OnceInv
<1>9. ASSUME NEW b \in Bundles, NEW n \in Nodes, ReportFailed(b, n) PROVE OnceInv'
    BY <1>9, <1>s DEF ReportFailed
<1>10. ASSUME NEW n \in Nodes, PeersAdd(n) \/ PeersRemove(n) PROVE OnceInv'
    BY <1>10, <1>s DEF PeersAdd, PeersRemove
<1>11. ASSUME NEW silent \in SUBSET (Nodes \ Static), ProcessPeers(silent) PROVE OnceInv'
    BY <1>11, <1>s DEF ProcessPeers
<1>12. QED
    BY <1>1, <1>2, <1>3, <1>4, <1>5, <1>6, <1>7, <1>8, <1>9, <1>10, <1>11
       DEF RelayEnvironment, RelayTask

\* The agent answers.  The bundle was not delivered directly before, for then its
\* task would not ask, and a charged destination is not selected.
LEMMA AnswerOnce ==
    ASSUME RelayTypeOK, OnceInv, channel # <<>>, NEW b \in Bundles, channel[1] = SenderFor(b),
           NEW nodes \in SUBSET Nodes, NEW delete \in BOOLEAN, Answer(b, nodes, delete),
           \A x \in Bundles, m \in Nodes : Charged(x, m) => Charged(x, m)',
           Dest[b] \in nodes => /\ ~Charged(b, Dest[b])
                                /\ Charged(b, Dest[b])' \/ (delete /\ nodes = {Dest[b]})
    PROVE  OnceInv'
<1>0. \A x \in Bundles : /\ TaskInv(x) /\ DirectInv(x)
                         /\ selected[x] \subseteq Nodes /\ got[x] \subseteq Nodes
    BY DEF OnceInv, RelayTypeOK
<1>1. /\ QueueInv'
      /\ \A x \in Bundles : SenderIn(x)' => SenderIn(x)
      /\ \A x \in Bundles, n \in Nodes : FailedIn(x, n)' => FailedIn(x, n)
      /\ ~SenderIn(b)' /\ \A n \in Nodes : ~FailedIn(b, n)'
    BY QueueTaken DEF OnceInv, Answer
<1>2. /\ UNCHANGED <<known, stored, sent, got>>
      /\ task'[b] = "answered" /\ selected'[b] = nodes /\ delAfter'[b] = delete
      /\ \A x \in Bundles : x # b => /\ task'[x] = task[x] /\ selected'[x] = selected[x]
                                     /\ delAfter'[x] = delAfter[x]
    BY DEF Answer, RelayTypeOK
<1>3. task[b] = "asking"
    <2>1. SenderIn(b)
        BY ChannelTaken DEF SenderIn, Answer
    <2>2. QED
        BY <1>0, <2>1 DEF TaskInv
<1>4. \A x \in Bundles : x # b => TaskInv(x)' /\ DirectInv(x)'
    BY <1>0, <1>1, <1>2, OnceFrame
<1>5. TaskInv(b)'
    BY <1>0, <1>1, <1>2, <1>3 DEF TaskInv
<1>6. DirectInv(b)'
    BY <1>0, <1>1, <1>2, <1>3 DEF DirectInv, Delivered
<1>7. QED
    BY <1>1, <1>4, <1>5, <1>6 DEF OnceInv

\* The loop over the peers gives such an answer.
LEMMA SenderOnce ==
    ASSUME RelayTypeOK, HistoryOK, OnceInv, channel # <<>>, NEW b \in Bundles,
           channel[1] = SenderFor(b), HandleSender(b)
    PROVE  OnceInv'
<1>1. CASE b \notin DOMAIN history
    <2>1. Answer(b, {}, FALSE) /\ \A x \in Bundles, m \in Nodes : Charged(x, m) => Charged(x, m)'
        BY <1>1 DEF HandleSender, Charged
    <2>2. {} \in SUBSET Nodes /\ Dest[b] \notin {}
        OBVIOUS
    <2>3. QED
        BY <2>1, <2>2, AnswerOnce
<1>2. CASE b \in DOMAIN history
    <2>1. PICK relays \in SUBSET Eligible(b) :
             /\ \/ Cardinality(relays) = RelayBudget(b)
                \/ relays = Eligible(b) /\ Cardinality(relays) <= RelayBudget(b)
             /\ Charge(b, relays)
             /\ IF Direct(b, relays) THEN Answer(b, {Dest[b]}, TRUE)
                ELSE Answer(b, relays, FALSE)
        BY <1>2 DEF HandleSender, Charge
    <2>2. Eligible(b) \subseteq Nodes /\ \A n \in Eligible(b) : history[b].nodes[n] = 0
        BY DEF Eligible, Usable, RelayTypeOK
    <2>3. RelayBudget(b) \in Nat
        BY <1>2, EntryTyped DEF RelayBudget
    <2>4. Cardinality(relays) <= RelayBudget(b)
        BY <2>1, <2>3
    <2>5. /\ \A x \in Bundles, m \in Nodes : Charged(x, m) => Charged(x, m)'
          /\ \A m \in relays : Charged(b, m)'
        BY <1>2, <2>1, <2>2, <2>4, ChargeHistory
    <2>6. \A m \in Eligible(b) : ~Charged(b, m)
        BY <2>2 DEF Charged
    <2>7. CASE Direct(b, relays)
        <3>1. Answer(b, {Dest[b]}, TRUE) /\ Dest[b] \in Eligible(b)
            BY <2>1, <2>7 DEF Direct
        <3>2. {Dest[b]} \in SUBSET Nodes
            BY <2>2, <3>1
        <3>3. QED
            BY <3>1, <3>2, <2>5, <2>6, AnswerOnce
    <2>8. CASE ~Direct(b, relays)
        <3>1. Answer(b, relays, FALSE) /\ relays \in SUBSET Nodes
            BY <2>1, <2>2, <2>8
        <3>2. QED
            BY <3>1, <2>5, <2>6, AnswerOnce
    <2>9. QED
        BY <2>7, <2>8
<1>3. QED
    BY <1>1, <1>2

\* A notification taken by the agent: a failure uncharges a destination only if it
\* is not being sent the bundle, and has not got it, or the bundle is gone.
LEMMA NotedOnce ==
    ASSUME RelayTypeOK, HistoryOK, OnceInv, channel # <<>>, Noted, NEW b \in Bundles,
           \/ HandleNewBundle(b)
           \/ \E n \in Nodes : channel[1] = Failed(b, n) /\ HandleSendingFailed(b, n)
    PROVE  OnceInv'
<1>0. \A x \in Bundles : /\ TaskInv(x) /\ DirectInv(x)
                         /\ selected[x] \subseteq Nodes /\ got[x] \subseteq Nodes
    BY DEF OnceInv, RelayTypeOK
<1>1. /\ QueueInv'
      /\ \A x \in Bundles : SenderIn(x)' => SenderIn(x)
      /\ \A x \in Bundles, n \in Nodes : FailedIn(x, n)' => FailedIn(x, n)
    BY QueueTaken DEF OnceInv, Noted
<1>2. UNCHANGED <<known, stored, task, selected, sent, delAfter, got>>
    BY DEF Noted
<1>3. CASE HandleNewBundle(b)
    <2>1. \A x \in Bundles, m \in Nodes : Charged(x, m) => Charged(x, m)'
        BY <1>3, NewBundleHistory DEF Charged
    <2>2. \A x \in Bundles : TaskInv(x)' /\ DirectInv(x)'
        BY <1>0, <1>1, <1>2, <2>1, OnceFrame
    <2>3. QED
        BY <1>1, <2>2 DEF OnceInv
<1>4. ASSUME NEW n \in Nodes, channel[1] = Failed(b, n), HandleSendingFailed(b, n)
      PROVE  OnceInv'
    <2>1. \A x \in Bundles, m \in Nodes : Charged(x, m) /\ (x # b \/ m # n) => Charged(x, m)'
        BY <1>4, FailureHistory
    <2>2. FailedIn(b, n)
        BY <1>4, ChannelTaken DEF FailedIn, Noted
    <2>3. \A x \in Bundles : x # b \/ Dest[x] # n => TaskInv(x)' /\ DirectInv(x)'
        BY <1>0, <1>1, <1>2, <2>1, OnceFrame
    <2>4. TaskInv(b)'
        BY <1>0, <1>1, <1>2 DEF TaskInv
    <2>5. Dest[b] = n => DirectInv(b)'
        BY <1>0, <1>2, <2>2 DEF TaskInv, DirectInv, Delivered
    <2>6. QED
        BY <1>1, <2>3, <2>4, <2>5 DEF OnceInv
<1>5. QED
    BY <1>3, <1>4

\* No order of requests, failures, expiries and answers makes this node send a
\* bundle to a peer that has it, unless an application submitted the bundle again,
\* and then only to the destination.
THEOREM NobodyIsSentTwice == Spec => []NoSecondSend
<1>1. Init => OnceInv
    BY DEF Init, RelayInit, OnceInv, QueueInv, TaskInv, DirectInv, SenderIn, FailedIn
<1>2. Inv /\ OnceInv /\ [Next]_vars => OnceInv'
    <2> SUFFICES ASSUME Inv, OnceInv, [Next]_vars PROVE OnceInv'
        OBVIOUS
    <2>1. RelayTypeOK /\ HistoryOK
        BY DEF Inv, TypeOK, HistoryOK
    <2>2. CASE HandleRoutingCmd
        <3> DEFINE cmd == Head(channel)
        <3>1. channel # <<>> /\ channel' = Tail(channel)
            BY <2>2 DEF HandleRoutingCmd, Noted, HandleSender, Answer
        <3>2. cmd = channel[1] /\ cmd \in Command /\ cmd.bundle \in Bundles
            BY <2>1, <3>1, ChannelTaken, FailedFacts
        <3>3. CASE HandleNewBundle(cmd.bundle) /\ Noted
            BY <2>1, <3>1, <3>2, <3>3, NotedOnce
        <3>4. CASE cmd.type = "failed" /\ HandleSendingFailed(cmd.bundle, cmd.node) /\ Noted
            <4>1. cmd.node \in Nodes /\ channel[1] = Failed(cmd.bundle, cmd.node)
                BY <3>2, <3>4, FailedFacts
            <4>2. QED
                BY <2>1, <3>1, <3>2, <3>4, <4>1, NotedOnce
        <3>5. CASE cmd.type = "sender" /\ HandleSender(cmd.bundle)
            <4>1. channel[1] = SenderFor(cmd.bundle)
                BY <3>2, <3>5, CommandFacts
            <4>2. QED
                BY <2>1, <3>1, <3>2, <3>5, <4>1, SenderOnce
        <3>6. QED
            BY <2>2, <3>3, <3>4, <3>5 DEF HandleRoutingCmd
    <2>3. CASE (RelayEnvironment \/ \E b \in Bundles : RelayTask(b)) /\ UNCHANGED history
        BY <2>1, <2>3, RelayOnce
    <2>4. CASE UNCHANGED vars
        BY <2>4 DEF vars, OnceInv, QueueInv, TaskInv, DirectInv, Delivered, SenderIn, FailedIn,
                    Charged
    <2>5. QED
        BY <2>2, <2>3, <2>4 DEF Next
<1>3. Inv /\ OnceInv => NoSecondSend
    <2> SUFFICES ASSUME Inv, OnceInv, NEW b \in Bundles
                 PROVE  selected[b] \cap got[b] \subseteq IF b \in Resubmitted THEN {Dest[b]} ELSE {}
        BY DEF NoSecondSend
    <2>1. selected[b] \cap got[b] \subseteq {Dest[b]}
        BY DEF Inv, Sending, RelaysNotServed
    <2>2. b \notin Resubmitted /\ Dest[b] \in got[b] => Dest[b] \notin selected[b]
        BY DEF OnceInv, TaskInv, DirectInv, Delivered
    <2>3. QED
        BY <2>1, <2>2
<1>4. QED
    BY <1>1, <1>2, <1>3, InvariantHolds, PTL DEF Spec
=============================================================================
