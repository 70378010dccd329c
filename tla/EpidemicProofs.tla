--------------------------- MODULE EpidemicProofs ----------------------------
(***************************************************************************)
(* Proofs about Epidemic, for every set of bundles and every finite set of *)
(* nodes, any failure limit and any pattern of resubmission: nobody is     *)
(* sent a bundle that he has, and nobody is taken for served who is not.   *)
(***************************************************************************)
EXTENDS Epidemic, RelayProofs

Sender(b) == [type |-> "sender", bundle |-> b]

------------------------------------------------------------------------------
\* The inductive invariant.

\* Whoever is sent or was sent a bundle is recorded, and nobody is sent what he has.
SentAreRecorded ==
    \A b \in Bundles : /\ selected[b] \cup got[b] \subseteq history[b]
                       /\ selected[b] \cap got[b] = {}

\* A failure on its way to the agent is that of a recorded peer that has not got the
\* bundle and is not being sent it.
FailuresPending ==
    \A b \in Bundles, n \in Nodes : \A k \in 1 .. Len(channel) :
        channel[k] = Failed(b, n) => n \in history[b] \ (selected[b] \cup got[b])

FailuresOnce ==
    \A b \in Bundles, n \in Nodes : \A j, k \in 1 .. Len(channel) :
        channel[j] = Failed(b, n) /\ channel[k] = Failed(b, n) => j = k

\* The agent has noted the previous node, if there is one, ...
PrevNoted(b) == Prev[b] \in Nodes => Prev[b] \in history[b]

\* ... or will, as the notification precedes every request of the bundle.
PrevFirst ==
    \A b \in Bundles \ Reports :
        /\ b \in known => PrevNoted(b) \/ \E j \in 1 .. Len(channel) : channel[j] = Incoming(b)
        /\ \A k \in 1 .. Len(channel) :
              channel[k] = Sender(b)
                => PrevNoted(b) \/ \E j \in 1 .. Len(channel) : j < k /\ channel[j] = Incoming(b)

\* The previous node is neither selected nor reported as failed.
PrevSpared ==
    \A b \in Bundles \ Reports :
        /\ Prev[b] \notin selected[b]
        /\ \A k \in 1 .. Len(channel) : channel[k] # Failed(b, Prev[b])

Inv == TypeOK /\ SentAreRecorded /\ FailuresPending /\ FailuresOnce /\ PrevFirst /\ PrevSpared

LEMMA InvInit == Init => Inv
<1> SUFFICES ASSUME Init PROVE Inv
  OBVIOUS
<1>1. TypeOK
  <2>1. channel \in Seq(Command)
    BY EmptySeq DEF Init, RelayInit
  <2> QED
    BY <2>1, RelayAssumption DEF Init, RelayInit, TypeOK, RelayTypeOK
<1>2. \A k : k \notin 1 .. Len(channel)
  BY EmptySeq DEF Init, RelayInit
<1>3. SentAreRecorded
  BY DEF Init, RelayInit, SentAreRecorded
<1>4. FailuresPending /\ FailuresOnce /\ PrevFirst /\ PrevSpared
  BY <1>2 DEF Init, RelayInit, FailuresPending, FailuresOnce, PrevFirst, PrevSpared
<1> QED
  BY <1>1, <1>3, <1>4 DEF Inv

\* Requests and notifications are commands, and different from failures.
LEMMA CommandFacts ==
    /\ \A b \in Bundles : Incoming(b) \in Command /\ Sender(b) \in Command
    /\ \A b, c, n : /\ Incoming(b) # Sender(c) /\ Incoming(b) # Failed(c, n)
                    /\ Sender(b) # Failed(c, n)
                    /\ Incoming(b) = Incoming(c) => b = c
                    /\ Sender(b) = Sender(c) => b = c
    /\ \A c \in Command : /\ c.type = "incoming" => c = Incoming(c.bundle)
                          /\ c.type = "sender" => c = Sender(c.bundle)
BY DEF Incoming, Sender, Failed, Command

------------------------------------------------------------------------------
\* The tasks.

\* Steps that leave channel, history and transfers alone.
LEMMA QuietKeeps ==
    ASSUME Inv, TypeOK', UNCHANGED <<channel, history, got>>,
           \A b \in Bundles : selected'[b] \subseteq selected[b],
           \A b \in Bundles \ Reports : b \in known' => b \in known
    PROVE  Inv'
<1> USE DEF Inv
<1>1. SentAreRecorded'
  BY DEF SentAreRecorded
<1>2. FailuresPending' /\ FailuresOnce'
  BY DEF FailuresPending, FailuresOnce
<1>3. PrevFirst'
  BY DEF PrevFirst, PrevNoted
<1>4. PrevSpared'
  BY DEF PrevSpared
<1> QED
  BY <1>1, <1>2, <1>3, <1>4

\* A notification or a request is added to the channel.
LEMMA AppendKeeps ==
    ASSUME Inv, TypeOK', NEW b \in Bundles, UNCHANGED <<history, got, selected>>,
           NEW c \in {Incoming(b), Sender(b)}, channel' = Append(channel, c),
           \/ c = Incoming(b) /\ known' = known \cup {b}
           \/ c = Sender(b) /\ known' = known /\ b \in known
    PROVE  Inv'
<1> USE DEF Inv
<1>1. \/ c = Incoming(b) /\ known' = known \cup {b}
      \/ c = Sender(b) /\ known' = known /\ b \in known
  OBVIOUS
<1>2. c \in Command /\ \A x, n : c # Failed(x, n)
  BY CommandFacts
<1>3. /\ Len(channel) \in Nat /\ Len(channel') = Len(channel) + 1
      /\ channel'[Len(channel')] = c
      /\ \A k \in 1 .. Len(channel) : channel'[k] = channel[k]
  BY <1>1, <1>2, ChannelAppended DEF TypeOK
<1>4. \A k \in 1 .. Len(channel') : k \in 1 .. Len(channel) \/ k = Len(channel')
  BY <1>3
<1>5. \A k \in 1 .. Len(channel') : k \in 1 .. Len(channel) \/ channel'[k] = c
  BY <1>3, <1>4
<1>6. \A x, n : \A k \in 1 .. Len(channel') :
          channel'[k] = Failed(x, n) => k \in 1 .. Len(channel) /\ channel[k] = Failed(x, n)
  BY <1>2, <1>3, <1>5
<1>7. SentAreRecorded'
  BY DEF SentAreRecorded
<1>8. FailuresPending' /\ FailuresOnce'
  BY <1>6 DEF FailuresPending, FailuresOnce
<1>9. PrevSpared'
  BY <1>6 DEF PrevSpared
<1>10. PrevFirst'
  <2> SUFFICES ASSUME NEW x \in Bundles \ Reports
               PROVE  /\ x \in known' => PrevNoted(x) \/ \E j \in 1 .. Len(channel') : channel'[j] = Incoming(x)
                      /\ \A k \in 1 .. Len(channel') :
                            channel'[k] = Sender(x)
                              => PrevNoted(x) \/ \E j \in 1 .. Len(channel') : j < k /\ channel'[j] = Incoming(x)
    BY DEF PrevFirst, PrevNoted
  <2>1. \A k \in 1 .. Len(channel) : k \in 1 .. Len(channel')
    BY <1>3
  <2>2. Len(channel') \in 1 .. Len(channel')
    BY <1>3
  <2>3. x \in known' => PrevNoted(x) \/ \E j \in 1 .. Len(channel') : channel'[j] = Incoming(x)
    <3>1. CASE x \in known
      BY <1>3, <2>1, <3>1 DEF PrevFirst
    <3>2. CASE x \notin known /\ x \in known'
      BY <1>1, <1>3, <2>2, <3>2
    <3> QED
      BY <3>1, <3>2
  <2>4. ASSUME NEW k \in 1 .. Len(channel'), channel'[k] = Sender(x)
        PROVE  PrevNoted(x) \/ \E j \in 1 .. Len(channel') : j < k /\ channel'[j] = Incoming(x)
    <3>1. CASE k \in 1 .. Len(channel)
      BY <1>3, <2>1, <2>4, <3>1 DEF PrevFirst
    <3>2. CASE k = Len(channel')
      <4>1. c = Sender(x) /\ x = b /\ b \in known
        BY <1>1, <1>3, <2>4, <3>2, CommandFacts
      <4>2. PrevNoted(x) \/ \E j \in 1 .. Len(channel) : channel[j] = Incoming(x)
        BY <4>1 DEF PrevFirst
      <4>3. \A j \in 1 .. Len(channel) : j < k
        BY <1>3, <3>2
      <4> QED
        BY <1>3, <2>1, <4>2, <4>3
    <3> QED
      BY <1>4, <3>1, <3>2
  <2> QED
    BY <2>3, <2>4
<1> QED
  BY <1>7, <1>8, <1>9, <1>10

LEMMA TransferOkKeeps ==
    ASSUME Inv, TypeOK', NEW b \in Bundles, NEW n \in Nodes, TransferOk(b, n), history' = history
    PROVE  Inv'
<1> USE DEF Inv
<1>1. /\ n \in selected[b]
      /\ selected'[b] = selected[b] \ {n} /\ got'[b] = got[b] \cup {n}
      /\ \A x \in Bundles : x # b => selected'[x] = selected[x] /\ got'[x] = got[x]
      /\ channel' = channel /\ known' = known
  BY DEF TransferOk, TypeOK, RelayTypeOK
<1>2. SentAreRecorded'
  BY <1>1 DEF SentAreRecorded
<1>3. \A x \in Bundles : selected'[x] \cup got'[x] = selected[x] \cup got[x]
  BY <1>1
<1>4. FailuresPending' /\ FailuresOnce'
  BY <1>1, <1>3 DEF FailuresPending, FailuresOnce
<1>5. PrevFirst' /\ PrevSpared'
  BY <1>1 DEF PrevFirst, PrevNoted, PrevSpared
<1> QED
  BY <1>2, <1>4, <1>5

LEMMA TransferFailedKeeps ==
    ASSUME Inv, TypeOK', NEW b \in Bundles, NEW n \in Nodes, TransferFailed(b, n), history' = history
    PROVE  Inv'
<1> USE DEF Inv
<1>1. /\ n \in selected[b]
      /\ selected'[b] = selected[b] \ {n}
      /\ \A x \in Bundles : x # b => selected'[x] = selected[x]
      /\ channel' = Append(channel, Failed(b, n)) /\ known' = known /\ got' = got
  BY DEF TransferFailed, TypeOK, RelayTypeOK, Failed
<1>2. /\ Len(channel) \in Nat /\ Len(channel') = Len(channel) + 1
      /\ channel'[Len(channel')] = Failed(b, n)
      /\ \A k \in 1 .. Len(channel) : channel'[k] = channel[k]
  BY <1>1, FailedFacts, ChannelAppended DEF TypeOK
<1>3. \A k \in 1 .. Len(channel') : k \in 1 .. Len(channel) \/ k = Len(channel')
  BY <1>2
<1>4. \A k \in 1 .. Len(channel) : channel[k] # Failed(b, n)
  BY <1>1 DEF FailuresPending
<1>5. SentAreRecorded'
  BY <1>1 DEF SentAreRecorded
<1>6. n \in history[b] \ (selected'[b] \cup got'[b])
  BY <1>1 DEF SentAreRecorded
<1>7. FailuresPending'
  <2> SUFFICES ASSUME NEW x \in Bundles, NEW m \in Nodes, NEW k \in 1 .. Len(channel'),
                      channel'[k] = Failed(x, m)
               PROVE  m \in history[x] \ (selected'[x] \cup got'[x])
    BY DEF FailuresPending
  <2>1. CASE k \in 1 .. Len(channel)
    BY <1>1, <1>2, <2>1 DEF FailuresPending
  <2>2. CASE k = Len(channel')
    BY <1>2, <1>6, <2>2, FailedFacts
  <2> QED
    BY <1>3, <2>1, <2>2
<1>8. FailuresOnce'
  <2> SUFFICES ASSUME NEW x \in Bundles, NEW m \in Nodes,
                      NEW j \in 1 .. Len(channel'), NEW k \in 1 .. Len(channel'),
                      channel'[j] = Failed(x, m), channel'[k] = Failed(x, m)
               PROVE  j = k
    BY DEF FailuresOnce
  <2>1. CASE x = b /\ m = n
    BY <1>2, <1>3, <1>4, <2>1
  <2>2. CASE ~(x = b /\ m = n)
    <3>1. j \in 1 .. Len(channel) /\ k \in 1 .. Len(channel)
      BY <1>2, <1>3, <2>2, FailedFacts
    <3> QED
      BY <1>2, <3>1 DEF FailuresOnce
  <2> QED
    BY <2>1, <2>2
<1>9. PrevFirst'
  <2>1. \A x : \A k \in 1 .. Len(channel') :
            channel'[k] = Sender(x) => k \in 1 .. Len(channel) /\ channel[k] = Sender(x)
    BY <1>2, <1>3, CommandFacts
  <2>2. \A k \in 1 .. Len(channel) : k \in 1 .. Len(channel')
    BY <1>2
  <2> QED
    BY <1>1, <1>2, <2>1, <2>2 DEF PrevFirst, PrevNoted
<1>10. PrevSpared'
  <2>1. \A x \in Bundles \ Reports : \A k \in 1 .. Len(channel') : channel'[k] # Failed(x, Prev[x])
    BY <1>1, <1>2, <1>3, FailedFacts DEF PrevSpared
  <2>2. \A x \in Bundles \ Reports : Prev[x] \notin selected'[x]
    BY <1>1 DEF PrevSpared
  <2> QED
    BY <2>1, <2>2 DEF PrevSpared
<1> QED
  BY <1>5, <1>7, <1>8, <1>9, <1>10

------------------------------------------------------------------------------
\* The agent.

\* What remains in the channel after the agent took a command.
LEMMA TakenFacts ==
    ASSUME Inv, channel # <<>>, channel' = Tail(channel)
    PROVE  /\ Head(channel) = channel[1] /\ channel[1] \in Command /\ 1 \in 1 .. Len(channel)
           /\ \A k \in 1 .. Len(channel') :
                 k + 1 \in 1 .. Len(channel) /\ channel'[k] = channel[k + 1]
           /\ \A k \in 1 .. Len(channel) :
                 k = 1 \/ (k - 1 \in 1 .. Len(channel') /\ channel'[k - 1] = channel[k])
BY ChannelTaken, ChannelShifted DEF Inv, TypeOK

\* An order of commands survives, unless the first of them was taken.
LEMMA PrevFirstKept ==
    ASSUME Inv, channel # <<>>, channel' = Tail(channel), known' = known,
           NEW x \in Bundles \ Reports, PrevNoted(x) => PrevNoted(x)',
           channel[1] = Incoming(x) => PrevNoted(x)'
    PROVE  /\ x \in known' => PrevNoted(x)' \/ \E j \in 1 .. Len(channel') : channel'[j] = Incoming(x)
           /\ \A k \in 1 .. Len(channel') :
                 channel'[k] = Sender(x)
                   => PrevNoted(x)' \/ \E j \in 1 .. Len(channel') : j < k /\ channel'[j] = Incoming(x)
<1>1. /\ \A k \in 1 .. Len(channel') :
            k + 1 \in 1 .. Len(channel) /\ channel'[k] = channel[k + 1]
      /\ \A k \in 1 .. Len(channel) :
            k = 1 \/ (k - 1 \in 1 .. Len(channel') /\ channel'[k - 1] = channel[k])
  BY TakenFacts
<1>2. x \in known => PrevNoted(x) \/ \E j \in 1 .. Len(channel) : channel[j] = Incoming(x)
  BY DEF Inv, PrevFirst
<1>3. ASSUME x \in known, ~PrevNoted(x)'
      PROVE  \E j \in 1 .. Len(channel') : channel'[j] = Incoming(x)
  <2>1. PICK j \in 1 .. Len(channel) : channel[j] = Incoming(x)
    BY <1>2, <1>3
  <2>2. j # 1
    BY <1>3, <2>1
  <2> QED
    BY <1>1, <2>1, <2>2
<1>4. ASSUME NEW k \in 1 .. Len(channel'), channel'[k] = Sender(x), ~PrevNoted(x)'
      PROVE  \E j \in 1 .. Len(channel') : j < k /\ channel'[j] = Incoming(x)
  <2>1. k + 1 \in 1 .. Len(channel) /\ channel[k + 1] = Sender(x)
    BY <1>1, <1>4
  <2>2. PICK j \in 1 .. Len(channel) : j < k + 1 /\ channel[j] = Incoming(x)
    BY <1>4, <2>1 DEF Inv, PrevFirst
  <2>3. j # 1
    BY <1>4, <2>2
  <2>4. j - 1 \in 1 .. Len(channel') /\ channel'[j - 1] = Incoming(x)
    BY <1>1, <2>2, <2>3
  <2>5. j - 1 < k
    BY <2>2
  <2> QED
    BY <2>4, <2>5
<1> QED
  BY <1>3, <1>4

LEMMA IncomingKeeps ==
    ASSUME Inv, channel # <<>>, NEW b \in Bundles, channel[1] = Incoming(b), IncomingBundle(b), Noted
    PROVE  Inv'
<1> USE DEF Inv
<1>1. /\ channel' = Tail(channel) /\ UNCHANGED <<known, selected, got>>
      /\ history'[b] = history[b] \cup ({Prev[b]} \cap Nodes)
      /\ \A x \in Bundles : x # b => history'[x] = history[x]
      /\ history' \in [Bundles -> SUBSET Nodes]
  BY DEF Noted, IncomingBundle, TypeOK
<1>2. TypeOK'
  BY <1>1, NotedTyped DEF TypeOK
<1>3. \A x \in Bundles : history[x] \subseteq history'[x]
  BY <1>1
<1>4. \A k \in 1 .. Len(channel') : k + 1 \in 1 .. Len(channel) /\ channel'[k] = channel[k + 1]
  BY <1>1, TakenFacts
<1>5. SentAreRecorded'
  BY <1>1, <1>3 DEF SentAreRecorded
<1>6. FailuresPending'
  BY <1>1, <1>3, <1>4 DEF FailuresPending
<1>7. FailuresOnce'
  <2> SUFFICES ASSUME NEW x \in Bundles, NEW m \in Nodes,
                      NEW j \in 1 .. Len(channel'), NEW k \in 1 .. Len(channel'),
                      channel'[j] = Failed(x, m), channel'[k] = Failed(x, m)
               PROVE  j = k
    BY DEF FailuresOnce
  <2>1. j + 1 = k + 1
    BY <1>4 DEF FailuresOnce
  <2> QED
    BY <2>1
<1>8. PrevFirst'
  <2> SUFFICES ASSUME NEW x \in Bundles \ Reports
               PROVE  /\ PrevNoted(x) => PrevNoted(x)'
                      /\ channel[1] = Incoming(x) => PrevNoted(x)'
    BY <1>1, PrevFirstKept DEF PrevFirst
  <2>1. PrevNoted(x) => PrevNoted(x)'
    BY <1>3 DEF PrevNoted
  <2>2. channel[1] = Incoming(x) => PrevNoted(x)'
    BY <1>1, CommandFacts DEF PrevNoted
  <2> QED
    BY <2>1, <2>2
<1>9. PrevSpared'
  BY <1>1, <1>4 DEF PrevSpared
<1> QED
  BY <1>2, <1>5, <1>6, <1>7, <1>8, <1>9

LEMMA FailedKeeps ==
    ASSUME Inv, channel # <<>>, NEW b \in Bundles, NEW n \in Nodes, channel[1] = Failed(b, n),
           SendingFailed(b, n), Noted
    PROVE  Inv'
<1> USE DEF Inv
<1>1. /\ channel' = Tail(channel) /\ UNCHANGED <<known, selected, got>>
      /\ history'[b] = history[b] \ {n}
      /\ \A x \in Bundles : x # b => history'[x] = history[x]
      /\ history' \in [Bundles -> SUBSET Nodes]
  BY DEF Noted, SendingFailed, TypeOK
<1>2. TypeOK'
  BY <1>1, NotedTyped DEF TypeOK
<1>3. 1 \in 1 .. Len(channel)
      /\ \A k \in 1 .. Len(channel') : k + 1 \in 1 .. Len(channel) /\ channel'[k] = channel[k + 1]
  BY <1>1, TakenFacts
<1>4. n \notin selected[b] \cup got[b]
  BY <1>3 DEF FailuresPending
<1>5. SentAreRecorded'
  BY <1>1, <1>4 DEF SentAreRecorded
<1>6. \A k \in 1 .. Len(channel') : channel'[k] # Failed(b, n)
  <2> TAKE k \in 1 .. Len(channel')
  <2>1. CASE channel'[k] = Failed(b, n)
    <3>1. k + 1 = 1
      BY <1>3, <2>1 DEF FailuresOnce
    <3> QED
      BY <3>1
  <2> QED
    BY <2>1
<1>7. FailuresPending'
  <2> SUFFICES ASSUME NEW x \in Bundles, NEW m \in Nodes, NEW k \in 1 .. Len(channel'),
                      channel'[k] = Failed(x, m)
               PROVE  m \in history'[x] \ (selected'[x] \cup got'[x])
    BY DEF FailuresPending
  <2>1. m \in history[x] \ (selected[x] \cup got[x])
    BY <1>3 DEF FailuresPending
  <2>2. x # b \/ m # n
    BY <1>6
  <2> QED
    BY <1>1, <2>1, <2>2
<1>8. FailuresOnce'
  <2> SUFFICES ASSUME NEW x \in Bundles, NEW m \in Nodes,
                      NEW j \in 1 .. Len(channel'), NEW k \in 1 .. Len(channel'),
                      channel'[j] = Failed(x, m), channel'[k] = Failed(x, m)
               PROVE  j = k
    BY DEF FailuresOnce
  <2>1. j + 1 = k + 1
    BY <1>3 DEF FailuresOnce
  <2> QED
    BY <2>1
<1>9. PrevFirst'
  <2> SUFFICES ASSUME NEW x \in Bundles \ Reports
               PROVE  /\ PrevNoted(x) => PrevNoted(x)'
                      /\ channel[1] = Incoming(x) => PrevNoted(x)'
    BY <1>1, PrevFirstKept DEF PrevFirst
  <2>1. x = b => n # Prev[x]
    BY <1>3 DEF PrevSpared
  <2>2. PrevNoted(x) => PrevNoted(x)'
    BY <1>1, <2>1 DEF PrevNoted
  <2>3. channel[1] # Incoming(x)
    BY CommandFacts
  <2> QED
    BY <2>2, <2>3
<1>10. PrevSpared'
  BY <1>1, <1>3 DEF PrevSpared
<1> QED
  BY <1>2, <1>5, <1>7, <1>8, <1>9, <1>10

\* Nobody who is recorded is selected.
LEMMA SenderFacts ==
    ASSUME Inv, NEW b \in Bundles, SendersForBundle(b)
    PROVE  \E nodes \in SUBSET Nodes, delete \in BOOLEAN :
              /\ Answer(b, nodes, delete)
              /\ nodes \cap history[b] = {}
              /\ history' = [history EXCEPT ![b] = @ \cup nodes]
<1> DEFINE direct == Dest[b] \in Candidates(b)
           nodes == IF direct THEN {Dest[b]} ELSE Candidates(b)
<1>1. Candidates(b) \subseteq Nodes /\ Candidates(b) \cap history[b] = {}
  BY DEF Candidates, Usable, Inv, TypeOK, RelayTypeOK
<1>2. nodes \subseteq Candidates(b)
  OBVIOUS
<1>3. Answer(b, nodes, direct) /\ history' = [history EXCEPT ![b] = @ \cup nodes]
  BY DEF SendersForBundle, Recorded
<1>4. direct \in BOOLEAN
  OBVIOUS
<1>5. nodes \in SUBSET Nodes /\ nodes \cap history[b] = {}
  BY <1>1, <1>2
<1> HIDE DEF nodes, direct
<1> QED
  BY <1>3, <1>4, <1>5

LEMMA SenderKeeps ==
    ASSUME Inv, channel # <<>>, NEW b \in Bundles, channel[1] = Sender(b), SendersForBundle(b)
    PROVE  Inv'
<1> USE DEF Inv
<1>1. PICK nodes \in SUBSET Nodes, delete \in BOOLEAN :
              /\ Answer(b, nodes, delete)
              /\ nodes \cap history[b] = {}
              /\ history' = [history EXCEPT ![b] = @ \cup nodes]
  BY SenderFacts
<1>2. /\ channel' = Tail(channel) /\ UNCHANGED <<known, got>>
      /\ history'[b] = history[b] \cup nodes
      /\ \A x \in Bundles : x # b => history'[x] = history[x] /\ selected'[x] = selected[x]
      /\ selected'[b] = nodes
      /\ history' \in [Bundles -> SUBSET Nodes]
  BY <1>1 DEF Answer, TypeOK, RelayTypeOK
<1>3. TypeOK'
  BY <1>1, <1>2, AnswerTyped DEF TypeOK
<1>4. 1 \in 1 .. Len(channel)
      /\ \A k \in 1 .. Len(channel') : k + 1 \in 1 .. Len(channel) /\ channel'[k] = channel[k + 1]
  BY <1>2, TakenFacts
<1>5. SentAreRecorded'
  BY <1>1, <1>2 DEF SentAreRecorded
<1>6. FailuresPending'
  BY <1>1, <1>2, <1>4 DEF FailuresPending
<1>7. FailuresOnce'
  <2> SUFFICES ASSUME NEW x \in Bundles, NEW m \in Nodes,
                      NEW j \in 1 .. Len(channel'), NEW k \in 1 .. Len(channel'),
                      channel'[j] = Failed(x, m), channel'[k] = Failed(x, m)
               PROVE  j = k
    BY DEF FailuresOnce
  <2>1. j + 1 = k + 1
    BY <1>4 DEF FailuresOnce
  <2> QED
    BY <2>1
<1>8. PrevFirst'
  <2> SUFFICES ASSUME NEW x \in Bundles \ Reports
               PROVE  /\ PrevNoted(x) => PrevNoted(x)'
                      /\ channel[1] = Incoming(x) => PrevNoted(x)'
    BY <1>2, PrevFirstKept DEF PrevFirst
  <2>1. PrevNoted(x) => PrevNoted(x)'
    BY <1>2 DEF PrevNoted
  <2>2. channel[1] # Incoming(x)
    BY CommandFacts
  <2> QED
    BY <2>1, <2>2
<1>9. PrevSpared'
  <2>1. b \notin Reports => PrevNoted(b)
    <3>1. \A j \in 1 .. Len(channel) : ~(j < 1)
      OBVIOUS
    <3> QED
      BY <1>4, <3>1 DEF PrevFirst
  <2>2. b \notin Reports => Prev[b] \notin nodes
    BY <1>1, <2>1 DEF PrevNoted
  <2>3. \A x \in Bundles \ Reports : Prev[x] \notin selected'[x]
    BY <1>2, <2>2 DEF PrevSpared
  <2>4. \A x \in Bundles \ Reports : \A k \in 1 .. Len(channel') : channel'[k] # Failed(x, Prev[x])
    BY <1>4 DEF PrevSpared
  <2> QED
    BY <2>3, <2>4 DEF PrevSpared
<1> QED
  BY <1>3, <1>5, <1>6, <1>7, <1>8, <1>9

LEMMA AgentKeeps == ASSUME Inv, HandleRoutingCmd PROVE Inv'
<1> DEFINE cmd == Head(channel)
<1>0. channel # <<>> /\ channel' = Tail(channel)
  BY DEF HandleRoutingCmd, Noted, SendersForBundle, Answer
<1>1. cmd = channel[1] /\ cmd \in Command
  BY <1>0, TakenFacts
<1>2. cmd.bundle \in Bundles
  BY <1>1, FailedFacts
<1>3. CASE cmd.type = "incoming" /\ IncomingBundle(cmd.bundle) /\ Noted
  BY <1>0, <1>1, <1>2, <1>3, CommandFacts, IncomingKeeps
<1>4. CASE cmd.type = "failed" /\ SendingFailed(cmd.bundle, cmd.node) /\ Noted
  BY <1>0, <1>1, <1>2, <1>4, FailedFacts, FailedKeeps
<1>5. CASE cmd.type = "sender" /\ SendersForBundle(cmd.bundle)
  BY <1>0, <1>1, <1>2, <1>5, CommandFacts, SenderKeeps
<1> QED
  BY <1>3, <1>4, <1>5 DEF HandleRoutingCmd

LEMMA RelayKeeps ==
    ASSUME Inv, RelayEnvironment \/ \E b \in Bundles : RelayTask(b), history' = history
    PROVE  Inv'
<1>0. TypeOK'
  BY RelayTyped DEF Inv, TypeOK
<1>1. ASSUME NEW b \in Bundles, Accept(b) PROVE Inv'
  BY <1>0, <1>1, AppendKeeps DEF Accept
<1>2. ASSUME NEW b \in Bundles, StoreReport(b) PROVE Inv'
  BY <1>0, <1>2, QuietKeeps DEF StoreReport
<1>3. ASSUME NEW b \in Bundles, Vanish(b) PROVE Inv'
  BY <1>0, <1>3, QuietKeeps DEF Vanish
<1>4. ASSUME NEW b \in Bundles, Ask(b) PROVE Inv'
  <2>1. /\ channel' = Append(channel, Sender(b)) /\ known' = known /\ b \in known
        /\ UNCHANGED <<got, selected>>
    BY <1>4 DEF Ask, Sender, Inv, TypeOK, RelayTypeOK
  <2> QED
    BY <1>0, <2>1, AppendKeeps
<1>5. ASSUME NEW b \in Bundles, Fetch(b) PROVE Inv'
  <2>1. UNCHANGED <<known, channel, got>> /\ \A x \in Bundles : selected'[x] \subseteq selected[x]
    BY <1>5 DEF Fetch, Inv, TypeOK, RelayTypeOK
  <2> QED
    BY <1>0, <2>1, QuietKeeps
<1>6. ASSUME NEW b \in Bundles, Joined(b) PROVE Inv'
  BY <1>0, <1>6, QuietKeeps DEF Joined
<1>7. ASSUME NEW b \in Bundles, NEW n \in Nodes, TransferOk(b, n) PROVE Inv'
  BY <1>0, <1>7, TransferOkKeeps
<1>8. ASSUME NEW b \in Bundles, NEW n \in Nodes, TransferFailed(b, n) PROVE Inv'
  BY <1>0, <1>8, TransferFailedKeeps
<1>9. ASSUME NEW b \in Bundles, NEW n \in Nodes, ReportFailed(b, n) PROVE Inv'
  BY <1>0, <1>9, QuietKeeps DEF ReportFailed
<1>10. ASSUME NEW n \in Nodes, PeersAdd(n) \/ PeersRemove(n) PROVE Inv'
  BY <1>0, <1>10, QuietKeeps DEF PeersAdd, PeersRemove
<1>11. ASSUME NEW silent \in SUBSET (Nodes \ Static), ProcessPeers(silent) PROVE Inv'
  BY <1>0, <1>11, QuietKeeps DEF ProcessPeers
<1> QED
  BY <1>1, <1>2, <1>3, <1>4, <1>5, <1>6, <1>7, <1>8, <1>9, <1>10, <1>11
     DEF RelayEnvironment, RelayTask

LEMMA InvNext == Inv /\ [Next]_vars => Inv'
<1> SUFFICES ASSUME Inv, [Next]_vars PROVE Inv'
  OBVIOUS
<1>1. CASE UNCHANGED vars
  <2>1. TypeOK'
    BY <1>1 DEF vars, Inv, TypeOK, RelayTypeOK
  <2> QED
    BY <1>1, <2>1, QuietKeeps DEF vars
<1>2. CASE Next
  BY <1>2, AgentKeeps, RelayKeeps DEF Next
<1> QED
  BY <1>1, <1>2

\* No peer is sent a bundle that it got from this node or that came from it, whatever
\* fails, leaves, comes back and is submitted again meanwhile: senders_for_bundle
\* records whom it selects before the transfer, and a failure takes back only its own
\* record.
THEOREM NobodyIsSentTwice == Spec => []NoSecondSend
<1>1. Spec => []Inv
  BY InvInit, InvNext, PTL DEF Spec
<1>2. Inv => NoSecondSend
  BY DEF Inv, SentAreRecorded, PrevSpared, NoSecondSend
<1> QED
  BY <1>1, <1>2, PTL

------------------------------------------------------------------------------
\* The records of the agent.

InChannel(c) == \E k \in 1 .. Len(channel) : channel[k] = c

\* Nothing happened to a bundle that was never stored.
UnknownInv ==
    \A b \in Bundles \ known :
        /\ history[b] = {} /\ task[b] = "idle"
        /\ \A c \in Command : InChannel(c) => c.bundle # b

\* A request in the channel is the one its task waits for.
RequestsInv ==
    \A b \in Bundles : \A k \in 1 .. Len(channel) :
        channel[k] = Sender(b)
          => task[b] = "asking" /\ \A j \in 1 .. Len(channel) : channel[j] = Sender(b) => j = k

\* The task of b has been given peers and not ended.
Busy(b) == task[b] \in {"answered", "sending"}

\* Whoever is recorded has the bundle, is being sent it, or its failure is on its way.
RecordsInv ==
    \A b \in stored \ Resubmitted : \A n \in history[b] :
        n \in got[b] \/ n = Prev[b] \/ (Busy(b) /\ n \in selected[b]) \/ InChannel(Failed(b, n))

RecordInv == UnknownInv /\ RequestsInv /\ RecordsInv

LEMMA RecordInit == Init => RecordInv
<1> SUFFICES ASSUME Init PROVE RecordInv
  OBVIOUS
<1>1. \A k : k \notin 1 .. Len(channel)
  BY EmptySeq DEF Init, RelayInit
<1>2. \A b \in Bundles : history[b] = {} /\ task[b] = "idle"
  BY DEF Init, RelayInit
<1>3. stored = {}
  BY DEF Init, RelayInit
<1> QED
  BY <1>1, <1>2, <1>3 DEF RecordInv, UnknownInv, RequestsInv, RecordsInv, InChannel

\* What an addition to the channel and the taking of a command do to it.
LEMMA AppendHas ==
    ASSUME Inv, NEW c \in Command, channel' = Append(channel, c)
    PROVE  \A x : InChannel(x)' <=> InChannel(x) \/ x = c
<1>1. /\ Len(channel) \in Nat /\ Len(channel') = Len(channel) + 1
      /\ channel'[Len(channel')] = c
      /\ \A k \in 1 .. Len(channel) : channel'[k] = channel[k]
  BY ChannelAppended DEF Inv, TypeOK
<1>2. \A k : k \in 1 .. Len(channel') <=> k \in 1 .. Len(channel) \/ k = Len(channel')
  BY <1>1
<1> QED
  BY <1>1, <1>2 DEF InChannel

LEMMA TakenHas ==
    ASSUME Inv, channel # <<>>, channel' = Tail(channel)
    PROVE  /\ InChannel(channel[1])
           /\ \A x : InChannel(x)' => InChannel(x)
           /\ \A x : InChannel(x) /\ x # channel[1] => InChannel(x)'
<1>1. 1 \in 1 .. Len(channel)
      /\ \A k \in 1 .. Len(channel') : k + 1 \in 1 .. Len(channel) /\ channel'[k] = channel[k + 1]
  BY TakenFacts
<1>2. \A k \in 1 .. Len(channel) :
          k = 1 \/ (k - 1 \in 1 .. Len(channel') /\ channel'[k - 1] = channel[k])
  BY TakenFacts
<1>3. \A x : InChannel(x)' => InChannel(x)
  BY <1>1 DEF InChannel
<1>4. \A x : InChannel(x) /\ x # channel[1] => InChannel(x)'
  BY <1>2 DEF InChannel
<1> QED
  BY <1>1, <1>3, <1>4 DEF InChannel

\* The requests that are left when a command was taken.
LEMMA RequestsTaken ==
    ASSUME Inv, RecordInv, channel # <<>>, channel' = Tail(channel),
           \A b \in Bundles : channel[1] # Sender(b) => task'[b] = task[b]
    PROVE  RequestsInv'
<1>1. 1 \in 1 .. Len(channel)
      /\ \A k \in 1 .. Len(channel') : k + 1 \in 1 .. Len(channel) /\ channel'[k] = channel[k + 1]
  BY TakenFacts
<1> SUFFICES ASSUME NEW b \in Bundles, NEW k \in 1 .. Len(channel'), channel'[k] = Sender(b)
             PROVE  task'[b] = "asking" /\ \A j \in 1 .. Len(channel') : channel'[j] = Sender(b) => j = k
  BY DEF RequestsInv
<1>2. /\ channel[k + 1] = Sender(b) /\ k + 1 \in 1 .. Len(channel) /\ k + 1 # 1
      /\ task[b] = "asking"
      /\ \A j \in 1 .. Len(channel) : channel[j] = Sender(b) => j = k + 1
  BY <1>1 DEF RecordInv, RequestsInv
<1>3. channel[1] # Sender(b)
  BY <1>1, <1>2
<1>4. ASSUME NEW j \in 1 .. Len(channel'), channel'[j] = Sender(b) PROVE j = k
  <2>1. j + 1 = k + 1
    BY <1>1, <1>2, <1>4
  <2> QED
    BY <2>1
<1> QED
  BY <1>2, <1>3, <1>4

\* The agent.
LEMMA AgentRecords == ASSUME Inv, RecordInv, HandleRoutingCmd PROVE RecordInv'
<1> DEFINE cmd == Head(channel)
<1>0. channel # <<>> /\ channel' = Tail(channel) /\ UNCHANGED <<known, stored, got>>
  BY DEF HandleRoutingCmd, Noted, SendersForBundle, Answer
<1>1. cmd = channel[1] /\ cmd \in Command /\ InChannel(cmd)
  BY <1>0, TakenFacts, TakenHas
<1>2. cmd.bundle \in Bundles /\ cmd.bundle \in known
  BY <1>1, FailedFacts DEF RecordInv, UnknownInv
<1>3. /\ \A x : InChannel(x)' => InChannel(x)
      /\ \A x : InChannel(x) /\ x # cmd => InChannel(x)'
  BY <1>0, <1>1, TakenHas
<1>4. ASSUME \A x \in Bundles : x # cmd.bundle => history'[x] = history[x] /\ task'[x] = task[x]
      PROVE  UnknownInv'
  BY <1>0, <1>2, <1>3, <1>4 DEF RecordInv, UnknownInv
<1> HIDE DEF cmd
<1>5. CASE cmd.type = "incoming" /\ IncomingBundle(cmd.bundle) /\ Noted
  <2>1. /\ UNCHANGED <<task, selected>>
        /\ history'[cmd.bundle] \subseteq history[cmd.bundle] \cup {Prev[cmd.bundle]}
        /\ \A x \in Bundles : x # cmd.bundle => history'[x] = history[x]
    BY <1>2, <1>5 DEF Noted, IncomingBundle, Inv, TypeOK
  <2>2. \A b, n : InChannel(Failed(b, n)) => InChannel(Failed(b, n))'
    BY <1>1, <1>3, <1>5, CommandFacts
  <2>3. stored \subseteq Bundles
    BY DEF Inv, TypeOK, RelayTypeOK
  <2>4. RecordsInv'
    BY <1>0, <1>2, <2>1, <2>2, <2>3 DEF RecordInv, RecordsInv, Busy
  <2>5. RequestsInv'
    BY <1>0, <2>1, RequestsTaken
  <2> QED
    BY <1>4, <2>1, <2>4, <2>5 DEF RecordInv
<1>6. CASE cmd.type = "failed" /\ SendingFailed(cmd.bundle, cmd.node) /\ Noted
  <2>1. /\ UNCHANGED <<task, selected>>
        /\ history'[cmd.bundle] = history[cmd.bundle] \ {cmd.node}
        /\ \A x \in Bundles : x # cmd.bundle => history'[x] = history[x]
    BY <1>2, <1>6 DEF Noted, SendingFailed, Inv, TypeOK
  <2>2. \A b, n : InChannel(Failed(b, n)) /\ (b # cmd.bundle \/ n # cmd.node) => InChannel(Failed(b, n))'
    BY <1>1, <1>3, <1>6, FailedFacts
  <2>3. stored \subseteq Bundles
    BY DEF Inv, TypeOK, RelayTypeOK
  <2>4. RecordsInv'
    BY <1>0, <1>2, <2>1, <2>2, <2>3 DEF RecordInv, RecordsInv, Busy
  <2>5. RequestsInv'
    BY <1>0, <2>1, RequestsTaken
  <2> QED
    BY <1>4, <2>1, <2>4, <2>5 DEF RecordInv
<1>7. CASE cmd.type = "sender" /\ SendersForBundle(cmd.bundle)
  <2> DEFINE b == cmd.bundle
  <2>1. PICK nodes \in SUBSET Nodes, delete \in BOOLEAN :
              /\ Answer(b, nodes, delete)
              /\ history' = [history EXCEPT ![b] = @ \cup nodes]
    BY <1>2, <1>7, SenderFacts
  <2>2. /\ task'[b] = "answered" /\ selected'[b] = nodes /\ history'[b] = history[b] \cup nodes
        /\ \A x \in Bundles : x # b => /\ task'[x] = task[x] /\ selected'[x] = selected[x]
                                       /\ history'[x] = history[x]
    BY <1>2, <2>1 DEF Answer, Inv, TypeOK, RelayTypeOK
  <2>3. cmd = Sender(b) /\ channel[1] = Sender(b)
    BY <1>1, <1>7, CommandFacts
  <2>4. task[b] = "asking"
    <3>1. 1 \in 1 .. Len(channel)
      BY <1>0, TakenFacts
    <3> QED
      BY <1>2, <2>3, <3>1 DEF RecordInv, RequestsInv
  <2>5. \A x, n : InChannel(Failed(x, n)) => InChannel(Failed(x, n))'
    BY <1>3, <2>3, CommandFacts
  <2>6. stored \subseteq Bundles
    BY DEF Inv, TypeOK, RelayTypeOK
  <2>7. RecordsInv'
    <3> SUFFICES ASSUME NEW x \in stored \ Resubmitted, NEW n \in history'[x]
                 PROVE  \/ n \in got[x] \/ n = Prev[x] \/ (Busy(x)' /\ n \in selected'[x])
                        \/ InChannel(Failed(x, n))'
      BY <1>0 DEF RecordsInv
    <3>1. CASE x = b
      <4>1. Busy(x)' /\ selected'[x] = nodes
        BY <2>2, <3>1 DEF Busy
      <4>2. CASE n \in history[b]
        BY <2>4, <2>5, <3>1, <4>2 DEF RecordInv, RecordsInv, Busy
      <4> QED
        BY <2>2, <3>1, <4>1, <4>2
    <3>2. CASE x # b
      <4>1. Busy(x)' = Busy(x) /\ selected'[x] = selected[x] /\ history'[x] = history[x]
        BY <2>2, <2>6, <3>2 DEF Busy
      <4> QED
        BY <2>5, <4>1 DEF RecordInv, RecordsInv
    <3> QED
      BY <3>1, <3>2
  <2>8. RequestsInv'
    BY <1>0, <2>2, <2>3, RequestsTaken
  <2> QED
    BY <1>4, <2>2, <2>7, <2>8 DEF RecordInv
<1> QED
  BY <1>5, <1>6, <1>7 DEF HandleRoutingCmd, cmd

\* A task that leaves the channel alone: nothing recorded loses its reason.
LEMMA TaskRecords ==
    ASSUME Inv, RecordInv, UNCHANGED <<known, channel, history>>, stored' \subseteq stored,
           NEW b \in Bundles, b \in known \/ task'[b] = "idle",
           \A x \in Bundles : x # b => task'[x] = task[x] /\ selected'[x] = selected[x],
           task[b] = "asking" => task'[b] = "asking",
           \A x \in Bundles : got[x] \subseteq got'[x],
           b \in stored' /\ Busy(b) => \A n \in selected[b] \ got'[b] : Busy(b)' /\ n \in selected'[b]
    PROVE  RecordInv'
<1> USE DEF RecordInv
<1>1. \A x : InChannel(x)' <=> InChannel(x)
  BY DEF InChannel
<1>2. UnknownInv'
  BY <1>1 DEF UnknownInv
<1>3. RequestsInv'
  BY DEF RequestsInv
<1>4. RecordsInv'
  <2> SUFFICES ASSUME NEW x \in stored' \ Resubmitted, NEW n \in history[x]
               PROVE  \/ n \in got'[x] \/ n = Prev[x] \/ (Busy(x)' /\ n \in selected'[x])
                      \/ InChannel(Failed(x, n))
    BY <1>1 DEF RecordsInv
  <2>1. /\ x \in stored /\ x \in Bundles
        /\ n \in got[x] \/ n = Prev[x] \/ (Busy(x) /\ n \in selected[x]) \/ InChannel(Failed(x, n))
    BY DEF RecordsInv, Inv, TypeOK, RelayTypeOK
  <2>2. CASE x = b
    BY <2>1, <2>2
  <2>3. CASE x # b
    <3>1. Busy(x)' = Busy(x) /\ selected'[x] = selected[x]
      BY <2>1, <2>3 DEF Busy
    <3> QED
      BY <2>1, <3>1
  <2> QED
    BY <2>2, <2>3
<1> QED
  BY <1>2, <1>3, <1>4

\* A bundle that is new to the store, or comes back as one that applications resubmit.
LEMMA StoredRecords ==
    ASSUME Inv, RecordInv, NEW b \in Bundles, b \in known => b \in Resubmitted,
           known' = known \cup {b}, stored' = stored \cup {b},
           UNCHANGED <<history, task, selected, got>>,
           channel' = channel \/ channel' = Append(channel, Incoming(b))
    PROVE  RecordInv'
<1> USE DEF RecordInv
<1>1. /\ \A x : InChannel(x) => InChannel(x)'
      /\ \A x : InChannel(x)' => InChannel(x) \/ x = Incoming(b)
  <2>1. CASE channel' = channel
    BY <2>1 DEF InChannel
  <2>2. CASE channel' = Append(channel, Incoming(b))
    BY <2>2, AppendHas, CommandFacts
  <2> QED
    BY <2>1, <2>2
<1>2. UnknownInv'
  <2>1. Incoming(b).bundle = b
    BY DEF Incoming
  <2> QED
    BY <1>1, <2>1 DEF UnknownInv
<1>3. RequestsInv'
  <2>1. CASE channel' = channel
    BY <2>1 DEF RequestsInv
  <2>2. CASE channel' = Append(channel, Incoming(b))
    <3>1. /\ Len(channel) \in Nat /\ Len(channel') = Len(channel) + 1
          /\ channel'[Len(channel')] = Incoming(b)
          /\ \A k \in 1 .. Len(channel) : channel'[k] = channel[k]
      BY <2>2, ChannelAppended, CommandFacts DEF Inv, TypeOK
    <3>2. \A x : \A k \in 1 .. Len(channel') :
              channel'[k] = Sender(x) => k \in 1 .. Len(channel) /\ channel[k] = Sender(x)
      <4>1. \A k \in 1 .. Len(channel') : k \in 1 .. Len(channel) \/ k = Len(channel')
        BY <3>1
      <4> QED
        BY <3>1, <4>1, CommandFacts
    <3> QED
      BY <3>2 DEF RequestsInv
  <2> QED
    BY <2>1, <2>2
<1>4. RecordsInv'
  <2> SUFFICES ASSUME NEW x \in stored' \ Resubmitted, NEW n \in history[x]
               PROVE  \/ n \in got[x] \/ n = Prev[x] \/ (Busy(x) /\ n \in selected[x])
                      \/ InChannel(Failed(x, n))'
    BY DEF RecordsInv, Busy
  <2>1. x \in stored
    BY DEF UnknownInv
  <2> QED
    BY <1>1, <2>1 DEF RecordsInv
<1> QED
  BY <1>2, <1>3, <1>4

LEMMA AskRecords ==
    ASSUME Inv, RecordInv, NEW b \in Bundles, Ask(b), history' = history PROVE RecordInv'
<1> USE DEF RecordInv
<1>1. /\ task[b] = "idle" /\ b \in known /\ task'[b] = "asking"
      /\ \A x \in Bundles : x # b => task'[x] = task[x]
      /\ channel' = Append(channel, Sender(b)) /\ UNCHANGED <<known, stored, selected, got>>
  BY DEF Ask, Sender, Inv, TypeOK, RelayTypeOK
<1>2. \A x : InChannel(x)' <=> InChannel(x) \/ x = Sender(b)
  BY <1>1, AppendHas, CommandFacts
<1>3. UnknownInv'
  <2>1. Sender(b).bundle = b
    BY DEF Sender
  <2> QED
    BY <1>1, <1>2, <2>1 DEF UnknownInv
<1>4. RequestsInv'
  <2>1. /\ Len(channel) \in Nat /\ Len(channel') = Len(channel) + 1
        /\ channel'[Len(channel')] = Sender(b)
        /\ \A k \in 1 .. Len(channel) : channel'[k] = channel[k]
    BY <1>1, ChannelAppended, CommandFacts DEF Inv, TypeOK
  <2>2. \A k \in 1 .. Len(channel') : k \in 1 .. Len(channel) \/ k = Len(channel')
    BY <2>1
  <2>3. \A k \in 1 .. Len(channel) : channel[k] # Sender(b)
    BY <1>1 DEF RequestsInv
  <2> SUFFICES ASSUME NEW x \in Bundles, NEW k \in 1 .. Len(channel'), channel'[k] = Sender(x)
               PROVE  task'[x] = "asking" /\ \A j \in 1 .. Len(channel') : channel'[j] = Sender(x) => j = k
    BY DEF RequestsInv
  <2>4. CASE x = b
    BY <1>1, <2>1, <2>2, <2>3, <2>4
  <2>5. CASE x # b
    <3>1. \A j \in 1 .. Len(channel') :
              channel'[j] = Sender(x) => j \in 1 .. Len(channel) /\ channel[j] = Sender(x)
      BY <2>1, <2>2, <2>5, CommandFacts
    <3> QED
      BY <1>1, <2>5, <3>1 DEF RequestsInv
  <2> QED
    BY <2>4, <2>5
<1>5. RecordsInv'
  <2>1. \A x \in Bundles : Busy(x)' <=> Busy(x)
    BY <1>1 DEF Busy
  <2>2. stored \subseteq Bundles
    BY DEF Inv, TypeOK, RelayTypeOK
  <2> QED
    BY <1>1, <1>2, <2>1, <2>2 DEF RecordsInv
<1> QED
  BY <1>3, <1>4, <1>5

LEMMA TransferFailedRecords ==
    ASSUME Inv, RecordInv, NEW b \in Bundles, NEW n \in Nodes, TransferFailed(b, n), history' = history
    PROVE  RecordInv'
<1> USE DEF RecordInv
<1>1. /\ task[b] = "sending" /\ selected'[b] = selected[b] \ {n}
      /\ \A x \in Bundles : x # b => selected'[x] = selected[x]
      /\ channel' = Append(channel, Failed(b, n)) /\ UNCHANGED <<known, stored, task, got>>
  BY DEF TransferFailed, Failed, Inv, TypeOK, RelayTypeOK
<1>2. b \in known
  BY <1>1 DEF UnknownInv
<1>3. \A x : InChannel(x)' <=> InChannel(x) \/ x = Failed(b, n)
  BY <1>1, AppendHas, FailedFacts
<1>4. UnknownInv'
  <2>1. Failed(b, n).bundle = b
    BY DEF Failed
  <2> QED
    BY <1>1, <1>2, <1>3, <2>1 DEF UnknownInv
<1>5. RequestsInv'
  <2>1. /\ Len(channel) \in Nat /\ Len(channel') = Len(channel) + 1
        /\ channel'[Len(channel')] = Failed(b, n)
        /\ \A k \in 1 .. Len(channel) : channel'[k] = channel[k]
    BY <1>1, ChannelAppended, FailedFacts DEF Inv, TypeOK
  <2>2. \A k \in 1 .. Len(channel') : k \in 1 .. Len(channel) \/ k = Len(channel')
    BY <2>1
  <2>3. \A x : \A k \in 1 .. Len(channel') :
            channel'[k] = Sender(x) => k \in 1 .. Len(channel) /\ channel[k] = Sender(x)
    BY <2>1, <2>2, CommandFacts
  <2>4. task' = task
    BY <1>1
  <2> QED
    BY <2>3, <2>4 DEF RequestsInv
<1>6. RecordsInv'
  <2> SUFFICES ASSUME NEW x \in stored \ Resubmitted, NEW m \in history[x]
               PROVE  \/ m \in got[x] \/ m = Prev[x] \/ (Busy(x) /\ m \in selected'[x])
                      \/ InChannel(Failed(x, m))'
    BY <1>1 DEF RecordsInv, Busy
  <2>1. x \in Bundles
    BY DEF Inv, TypeOK, RelayTypeOK
  <2>2. CASE x = b
    BY <1>1, <1>3, <2>2 DEF RecordsInv
  <2>3. CASE x # b
    BY <1>1, <1>3, <2>1, <2>3 DEF RecordsInv
  <2> QED
    BY <2>2, <2>3
<1> QED
  BY <1>4, <1>5, <1>6

LEMMA RelayRecords ==
    ASSUME Inv, RecordInv, RelayEnvironment \/ \E b \in Bundles : RelayTask(b), history' = history
    PROVE  RecordInv'
<1>1. ASSUME NEW b \in Bundles, Accept(b) \/ StoreReport(b) PROVE RecordInv'
  BY <1>1, StoredRecords DEF Accept, StoreReport
<1>2. ASSUME UNCHANGED <<known, channel, task, selected, got>>, stored' \subseteq stored PROVE RecordInv'
  <2>1. UnknownInv' /\ RequestsInv'
    BY <1>2 DEF RecordInv, UnknownInv, RequestsInv, InChannel
  <2>2. RecordsInv'
    BY <1>2 DEF RecordInv, RecordsInv, InChannel, Busy
  <2> QED
    BY <2>1, <2>2 DEF RecordInv
<1>3. ASSUME NEW b \in Bundles, Vanish(b) PROVE RecordInv'
  BY <1>2, <1>3 DEF Vanish
<1>4. ASSUME NEW b \in Bundles, Fetch(b) PROVE RecordInv'
  <2>1. /\ task[b] = "answered" /\ UNCHANGED <<known, channel, got>> /\ stored' \subseteq stored
        /\ \A x \in Bundles : x # b => task'[x] = task[x] /\ selected'[x] = selected[x]
    BY <1>4 DEF Fetch, Inv, TypeOK, RelayTypeOK
  <2>2. b \in known
    BY <2>1 DEF RecordInv, UnknownInv
  <2>3. ASSUME b \in stored', NEW n \in selected[b] PROVE Busy(b)' /\ n \in selected'[b]
    BY <1>4, <2>1, <2>3 DEF Fetch, Inv, TypeOK, RelayTypeOK, Busy
  <2> QED
    BY <2>1, <2>2, <2>3, TaskRecords
<1>5. ASSUME NEW b \in Bundles, Joined(b) PROVE RecordInv'
  <2>1. /\ task[b] = "sending" /\ selected[b] = {} /\ task'[b] = "idle" /\ stored' \subseteq stored
        /\ UNCHANGED <<known, channel, got, selected>>
        /\ \A x \in Bundles : x # b => task'[x] = task[x]
    BY <1>5 DEF Joined, Inv, TypeOK, RelayTypeOK
  <2> QED
    BY <2>1, TaskRecords
<1>6. ASSUME NEW b \in Bundles, NEW n \in Nodes, TransferOk(b, n) PROVE RecordInv'
  <2>1. /\ task[b] = "sending" /\ selected'[b] = selected[b] \ {n} /\ got'[b] = got[b] \cup {n}
        /\ \A x \in Bundles : x # b => selected'[x] = selected[x] /\ got'[x] = got[x]
        /\ UNCHANGED <<known, channel, stored, task>>
    BY <1>6 DEF TransferOk, Inv, TypeOK, RelayTypeOK
  <2>2. b \in known
    BY <2>1 DEF RecordInv, UnknownInv
  <2>3. \A x \in Bundles : got[x] \subseteq got'[x]
    BY <2>1
  <2>4. Busy(b)' /\ selected[b] \ got'[b] \subseteq selected'[b]
    BY <2>1 DEF Busy
  <2> QED
    BY <2>1, <2>2, <2>3, <2>4, TaskRecords
<1>7. ASSUME NEW b \in Bundles, NEW n \in Nodes, ReportFailed(b, n) PROVE RecordInv'
  BY <1>2, <1>7 DEF ReportFailed
<1>8. ASSUME NEW n \in Nodes, PeersAdd(n) \/ PeersRemove(n) PROVE RecordInv'
  BY <1>2, <1>8 DEF PeersAdd, PeersRemove
<1>9. ASSUME NEW silent \in SUBSET (Nodes \ Static), ProcessPeers(silent) PROVE RecordInv'
  BY <1>2, <1>9 DEF ProcessPeers
<1> QED
  BY <1>1, <1>3, <1>4, <1>5, <1>6, <1>7, <1>8, <1>9, AskRecords, TransferFailedRecords
     DEF RelayEnvironment, RelayTask

LEMMA RecordNext == Inv /\ RecordInv /\ [Next]_vars => RecordInv'
<1> SUFFICES ASSUME Inv, RecordInv, [Next]_vars PROVE RecordInv'
  OBVIOUS
<1>1. CASE UNCHANGED vars
  <2>1. UnknownInv' /\ RequestsInv'
    BY <1>1 DEF vars, RecordInv, UnknownInv, RequestsInv, InChannel
  <2>2. RecordsInv'
    BY <1>1 DEF vars, RecordInv, RecordsInv, InChannel, Busy
  <2> QED
    BY <2>1, <2>2 DEF RecordInv
<1>2. CASE Next
  BY <1>2, AgentRecords, RelayRecords DEF Next
<1> QED
  BY <1>1, <1>2

\* Nobody is taken for served who is not: with no failure on its way and no transfer
\* under way the history of a bundle holds only peers that have it, so retries of the
\* janitor reach all others.
THEOREM RecordedReallyHaveIt == Spec => []RecordedHaveIt
<1>1. Spec => [](Inv /\ RecordInv)
  BY InvInit, InvNext, RecordInit, RecordNext, PTL DEF Spec
<1>2. Inv /\ RecordInv => RecordedHaveIt
  <2> SUFFICES ASSUME Inv, RecordInv, NEW b \in stored \ Resubmitted, channel = <<>>,
                      task[b] \notin {"answered", "sending"}, NEW n \in history[b]
               PROVE  n \in got[b] \cup {Prev[b]}
    BY DEF RecordedHaveIt
  <2>1. ~InChannel(Failed(b, n))
    BY EmptySeq DEF InChannel
  <2> QED
    BY <2>1 DEF RecordInv, RecordsInv, Busy
<1> QED
  BY <1>1, <1>2, PTL
==============================================================================
