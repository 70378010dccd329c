----------------------------- MODULE PartsProofs -----------------------------
(***************************************************************************)
(* Proofs about external routing, the peer table, websocket sessions and   *)
(* the bundle stores, for any bundles, peers, clients and agents, any      *)
(* timeouts, any sizes of channels and any number of restarts; and, with   *)
(* the invariants of LayerProofs and BpsecProofs, the types of all parts   *)
(* side by side.                                                           *)
(***************************************************************************)
EXTENDS MCParts, LayerProofs, BpsecProofs, SequenceTheorems, TLAPS

------------------------------------------------------------------------------
(***************************************************************************)
(* External routing: no response channel is left behind, and the router    *)
(* learns of every answer that was dropped.                                *)
(***************************************************************************)

Request == [step : RequestStep, order : UNION {Orders[b] : b \in Routed}, got : BOOLEAN,
            to : Routers \cup {NoRouter}]

------------------------------------------------------------------------------
\* Response channels.

\* The channel that is open for a bundle is its request's.
ChannelInv ==
    /\ connection \in Routers \cup {NoRouter}
    /\ request \in [Routed -> Request]
    /\ \A k \in responses :
          /\ k[1] \in Routed
          /\ k = Key(k[1])
          /\ request[k[1]].step \notin {"idle", "opening"}

LEMMA ChannelInit == ERoutingInit => ChannelInv
<1> SUFFICES ASSUME ERoutingInit PROVE ChannelInv
  OBVIOUS
<1>1. ASSUME NEW b \in Routed PROVE request[b] \in Request
  <2> DEFINE first == CHOOSE o \in Orders[b] : TRUE
  <2>1. first \in Orders[b]
    BY ERoutingAssumption
  <2>2. request[b] = [step |-> "idle", order |-> first, got |-> FALSE, to |-> NoRouter]
    BY DEF ERoutingInit
  <2> HIDE DEF first
  <2> QED
    BY <2>1, <2>2 DEF Request, RequestStep
<1>2. request = [b \in Routed |-> request[b]] /\ responses = {} /\ connection = NoRouter
  BY DEF ERoutingInit
<1> QED
  BY <1>1, <1>2 DEF ChannelInv

\* A step of a request that leaves its order alone and ends no open channel.
LEMMA ChannelGoto ==
    ASSUME ChannelInv, NEW b \in Routed, NEW next \in RequestStep, Goto(b, next)
    PROVE  /\ request' \in [Routed -> Request]
           /\ \A c \in Routed : Key(c)' = Key(c)
           /\ request'[b].step = next /\ request'[b].got = request[b].got
           /\ request'[b].order = request[b].order /\ request'[b].to = request[b].to
           /\ \A c \in Routed : c # b => request'[c] = request[c]
BY DEF ChannelInv, Goto, Key, Request

\* The request is sent, or not: what becomes of the record.
LEMMA RequestSent ==
    ASSUME ChannelInv, NEW b \in Routed, SendRequest(b)
    PROVE  /\ request' \in [Routed -> Request]
           /\ \A c \in Routed : Key(c)' = Key(c)
           /\ request'[b].step = "waiting" /\ request'[b].got = request[b].got
           /\ request'[b].order = request[b].order
           /\ request'[b].to = IF Room THEN connection ELSE NoRouter
           /\ \A c \in Routed : c # b => request'[c] = request[c]
<1> DEFINE x == IF Room THEN connection ELSE NoRouter
<1>1. x \in Routers \cup {NoRouter}
  BY DEF ChannelInv
<1>2. request' = [request EXCEPT ![b].step = "waiting", ![b].to = x]
  BY DEF SendRequest
<1> HIDE DEF x
<1>3. /\ request' \in [Routed -> Request]
      /\ request'[b].step = "waiting" /\ request'[b].got = request[b].got
      /\ request'[b].order = request[b].order /\ request'[b].to = x
      /\ \A c \in Routed : c # b => request'[c] = request[c]
  BY <1>1, <1>2 DEF ChannelInv, Request, RequestStep
<1>4. \A c \in Routed : Key(c)' = Key(c)
  BY <1>3 DEF Key
<1> QED BY <1>3, <1>4 DEF x

\* A router that leaves is taken out of the records.
LEMMA RouterForgotten ==
    ASSUME ChannelInv, NEW r \in Routers, RouterLeaves(r)
    PROVE  /\ request' \in [Routed -> Request]
           /\ \A c \in Routed :
                /\ Key(c)' = Key(c) /\ request'[c].step = request[c].step
                /\ request'[c].got = request[c].got /\ request'[c].order = request[c].order
                /\ request'[c].to = IF request[c].to = r THEN NoRouter ELSE request[c].to
<1>1. request' = [b \in Routed |-> [request[b] EXCEPT !.to = IF @ = r THEN NoRouter ELSE @]]
  BY DEF RouterLeaves
<1>2. ASSUME NEW c \in Routed
      PROVE  /\ request'[c] \in Request /\ request'[c].step = request[c].step
             /\ request'[c].got = request[c].got /\ request'[c].order = request[c].order
             /\ request'[c].to = IF request[c].to = r THEN NoRouter ELSE request[c].to
  <2>1. request[c] \in Request /\ request'[c] = [request[c] EXCEPT !.to = IF @ = r THEN NoRouter ELSE @]
    BY <1>1 DEF ChannelInv
  <2> QED BY <2>1 DEF Request
<1> QED BY <1>1, <1>2 DEF Key

LEMMA ChannelNext == ChannelInv /\ [ERoutingNext]_eroutingVars => ChannelInv'
<1> SUFFICES ASSUME ChannelInv, [ERoutingNext]_eroutingVars PROVE ChannelInv'
  OBVIOUS
<1>1. CASE UNCHANGED eroutingVars
  BY <1>1 DEF eroutingVars, ChannelInv, Key
<1>2. ASSUME NEW r \in Routers,
             RouterArrives(r) \/ RouterConnects(r) \/ RouterLeaves(r) \/ WritePacket(r)
      PROVE  ChannelInv'
  <2>1. CASE RouterArrives(r) \/ RouterConnects(r) \/ WritePacket(r)
    BY <2>1 DEF RouterArrives, RouterConnects, WritePacket, ChannelInv, Key
  <2>2. CASE RouterLeaves(r)
    <3>1. responses' = responses /\ connection' = NoRouter
      BY <2>2 DEF RouterLeaves
    <3> QED
      BY <2>2, <3>1, RouterForgotten DEF ChannelInv
  <2> QED
    BY <1>2, <2>1, <2>2
<1>6. CASE Notify
  BY <1>6 DEF Notify, ChannelInv, Key
<1>3. ASSUME NEW r \in Routers, NEW b \in Routed, NEW o \in Orders[b], HandleResponse(r, b, o)
      PROVE  ChannelInv'
  <2>1. /\ request' \in [Routed -> Request]
        /\ \A c \in Routed : request'[c].step = request[c].step /\ request'[c].order = request[c].order
    <3>1. request' = request \/ request' = [request EXCEPT ![b].got = TRUE]
      BY <1>3 DEF HandleResponse
    <3>2. CASE request' = request
      BY <3>2 DEF ChannelInv
    <3>3. CASE request' = [request EXCEPT ![b].got = TRUE]
      BY <3>3 DEF ChannelInv, Request
    <3> QED
      BY <3>1, <3>2, <3>3
  <2>2. responses' \subseteq responses /\ connection' = connection
    BY <1>3 DEF HandleResponse
  <2> QED
    BY <2>1, <2>2 DEF ChannelInv, Key
<1>4. ASSUME NEW b \in Routed, StartRequest(b) PROVE ChannelInv'
  <2>1. PICK o \in Orders[b] :
          request' = [request EXCEPT ![b] =
                        [step |-> IF connection = NoRouter THEN "idle" ELSE "opening",
                         order |-> o, got |-> FALSE, to |-> NoRouter]]
    BY <1>4 DEF StartRequest
  <2>2. request' \in [Routed -> Request] /\ \A c \in Routed : c # b => request'[c] = request[c]
    BY <2>1 DEF ChannelInv, Request, RequestStep
  <2>3. responses' = responses /\ request[b].step = "idle" /\ connection' = connection
    BY <1>4 DEF StartRequest
  <2> QED
    BY <2>2, <2>3 DEF ChannelInv, Key
<1>5. ASSUME NEW b \in Routed, RequestRuns(b) PROVE ChannelInv'
  <2>0. connection' = connection
    BY <1>5 DEF RequestRuns, OpenChannel, SendRequest, UseAnswer, Expire, SendTimeout, CloseChannel
  <2>1. CASE OpenChannel(b)
    <3>1. Goto(b, "sending") /\ responses' = responses \cup {Key(b)}
      BY <2>1 DEF OpenChannel
    <3>2. /\ request' \in [Routed -> Request]
          /\ \A c \in Routed : Key(c)' = Key(c)
          /\ request'[b].step = "sending"
          /\ \A c \in Routed : c # b => request'[c] = request[c]
      BY <3>1, ChannelGoto DEF RequestStep
    <3>3. Key(b)[1] = b
      BY DEF Key
    <3> QED
      BY <2>0, <3>1, <3>2, <3>3 DEF ChannelInv
  <2>2. CASE SendRequest(b)
    <3>1. responses' = responses
      BY <2>2 DEF SendRequest
    <3> QED
      BY <2>0, <2>2, <3>1, RequestSent DEF ChannelInv
  <2>3. CASE Expire(b)
    <3>1. Goto(b, "expired") /\ responses' = responses
      BY <2>3 DEF Expire
    <3>2. /\ request' \in [Routed -> Request]
          /\ \A c \in Routed : Key(c)' = Key(c)
          /\ request'[b].step = "expired"
          /\ \A c \in Routed : c # b => request'[c] = request[c]
      BY <3>1, ChannelGoto DEF RequestStep
    <3> QED
      BY <2>0, <3>1, <3>2 DEF ChannelInv
  <2>4. CASE SendTimeout(b)
    <3>1. Goto(b, "late") /\ responses' = responses
      BY <2>4 DEF SendTimeout
    <3>2. /\ request' \in [Routed -> Request]
          /\ \A c \in Routed : Key(c)' = Key(c)
          /\ request'[b].step = "late"
          /\ \A c \in Routed : c # b => request'[c] = request[c]
      BY <3>1, ChannelGoto DEF RequestStep
    <3> QED
      BY <2>0, <3>1, <3>2 DEF ChannelInv
  <2>5. CASE UseAnswer(b) \/ CloseChannel(b)
    <3>1. Goto(b, "idle") /\ responses' = responses \ {Key(b)}
      BY <2>5 DEF UseAnswer, CloseChannel
    <3>2. /\ request' \in [Routed -> Request]
          /\ \A c \in Routed : Key(c)' = Key(c)
          /\ \A c \in Routed : c # b => request'[c] = request[c]
      BY <3>1, ChannelGoto DEF RequestStep
    <3>3. \A k \in responses' : k[1] # b
      BY <3>1 DEF ChannelInv
    <3> QED
      BY <2>0, <3>1, <3>2, <3>3 DEF ChannelInv
  <2> QED
    BY <1>5, <2>1, <2>2, <2>3, <2>4, <2>5 DEF RequestRuns
<1> QED
  BY <1>1, <1>2, <1>3, <1>4, <1>5, <1>6 DEF ERoutingNext

LEMMA ChannelInvariant == ERoutingSpec => []ChannelInv
BY ChannelInit, ChannelNext, PTL DEF ERoutingSpec

\* Whatever order answers, timeouts and requests come in, RESPONSES keeps no channel
\* of a request that has ended: sender_for_bundle removes what it created.
THEOREM NoChannelLeft == ERoutingSpec => []NoStaleChannel
<1>1. ChannelInv => NoStaleChannel
  BY DEF ChannelInv, NoStaleChannel
<1> QED
  BY <1>1, ChannelInvariant, PTL

------------------------------------------------------------------------------
\* The balance of answers.

\* Requests for b that the connected router has yet to answer.
Outstanding(b) == IF connection = NoRouter THEN 0 ELSE asked[connection][b]

\* The Timeout packet that the request of b is still to send to the router it asked, or
\* an answer that it got before it asked.
Pending(b) ==
    IF /\ request[b].to # NoRouter
       /\ request[b].step = "expired" \/ (request[b].step = "waiting" /\ ~request[b].got) THEN 1
    ELSE IF request[b].step = "sending" /\ request[b].got THEN -1 ELSE 0

\* An answered request has no channel any more, and none before it opens one.
AnsweredInv ==
    \A b \in Routed :
        /\ request[b].got => Key(b) \notin responses
        /\ request[b].step = "opening" => ~request[b].got

\* Without a clash only the connected router is on, was asked and has requests to answer.
RouterInv ==
    ~clashed =>
        /\ \A r \in Routers :
              /\ session[r] = "on" => connection = r
              /\ \A b \in Routed : asked[r][b] > 0 => connection = r
        /\ \A b \in Routed : request[b].to # NoRouter => connection = request[b].to

\* What is owed to the router and what it has yet to answer is covered by requests.
BalanceInv ==
    ~clashed /\ ~overrun => \A b \in Routed : Outstanding(b) + owed[b] <= Pending(b)

LearnType ==
    /\ connection \in Routers \cup {NoRouter}
    /\ session \in [Routers -> {"off", "checked", "on"}]
    /\ backlog \in [Routers -> 0 .. ChannelSize]
    /\ asked \in [Routers -> [Routed -> Nat]]
    /\ owed \in [Routed -> Int]
    /\ clashed \in BOOLEAN /\ overrun \in BOOLEAN

LearnInv == ChannelInv /\ LearnType /\ AnsweredInv /\ RouterInv /\ BalanceInv

LEMMA LearnInit == ERoutingInit => LearnInv
<1> SUFFICES ASSUME ERoutingInit PROVE LearnInv
  OBVIOUS
<1>1. LearnType
  <2>1. asked \in [Routers -> [Routed -> Nat]]
    BY DEF ERoutingInit
  <2>2. session \in [Routers -> {"off", "checked", "on"}] /\ owed \in [Routed -> Int]
    BY DEF ERoutingInit
  <2>3. connection = NoRouter /\ clashed = FALSE /\ overrun = FALSE
    BY DEF ERoutingInit
  <2>4. backlog = [r \in Routers |-> 0] /\ 0 \in 0 .. ChannelSize
    BY ERoutingAssumption DEF ERoutingInit
  <2>5. backlog \in [Routers -> 0 .. ChannelSize]
    BY <2>4
  <2> QED
    BY <2>1, <2>2, <2>3, <2>5 DEF LearnType
<1>2. \A b \in Routed : request[b].step = "idle" /\ ~request[b].got /\ request[b].to = NoRouter
  <2> TAKE b \in Routed
  <2>1. request[b] = [step |-> "idle", order |-> CHOOSE o \in Orders[b] : TRUE,
                      got |-> FALSE, to |-> NoRouter]
    BY DEF ERoutingInit
  <2> QED BY <2>1
<1>3. \A r \in Routers : session[r] = "off" /\ \A b \in Routed : asked[r][b] = 0
  BY DEF ERoutingInit
<1>4. connection = NoRouter /\ responses = {}
  BY DEF ERoutingInit
<1>5. AnsweredInv
  BY <1>2 DEF AnsweredInv
<1>6. RouterInv
  BY <1>2, <1>3 DEF RouterInv
<1>7. BalanceInv
  <2> SUFFICES ASSUME NEW b \in Routed PROVE Outstanding(b) + owed[b] <= Pending(b)
    BY DEF BalanceInv
  <2>1. owed[b] = 0
    BY DEF ERoutingInit
  <2> QED
    BY <1>2, <1>4, <2>1 DEF Outstanding, Pending
<1> QED
  BY <1>1, <1>5, <1>6, <1>7, ChannelInit DEF LearnInv

\* send_packet keeps within the channel.
LEMMA PacketSent ==
    ASSUME LearnType, SendPacket PROVE backlog' \in [Routers -> 0 .. ChannelSize]
<1>1. CASE Room
  <2>1. connection \in Routers /\ backlog[connection] < ChannelSize
    BY <1>1 DEF Room, LearnType
  <2>2. backlog[connection] + 1 \in 0 .. ChannelSize
    BY <2>1, ERoutingAssumption DEF LearnType
  <2> QED
    BY <1>1, <2>1, <2>2 DEF SendPacket, LearnType
<1>2. CASE ~Room
  BY <1>2 DEF SendPacket, LearnType
<1> QED
  BY <1>1, <1>2

LEMMA RouterTypes ==
    ASSUME LearnType, ChannelInv, ERoutingNext PROVE LearnType'
<1>1. ASSUME NEW r \in Routers,
             RouterArrives(r) \/ RouterConnects(r) \/ RouterLeaves(r) \/ WritePacket(r)
      PROVE  LearnType'
  <2>1. CASE RouterArrives(r)
    BY <2>1 DEF LearnType, RouterArrives
  <2>2. CASE RouterConnects(r)
    <3>1. clashed' \in BOOLEAN
      BY <2>2 DEF RouterConnects
    <3>2. (IF ChannelSize < 2 THEN ChannelSize ELSE 2) \in 0 .. ChannelSize
      BY ERoutingAssumption
    <3>3. backlog' \in [Routers -> 0 .. ChannelSize]
      BY <2>2, <3>2 DEF LearnType, RouterConnects
    <3> QED
      BY <2>2, <3>1, <3>3 DEF LearnType, RouterConnects
  <2>3. CASE RouterLeaves(r)
    <3>1. clashed' \in BOOLEAN
      BY <2>3 DEF RouterLeaves
    <3>2. 0 \in 0 .. ChannelSize
      BY ERoutingAssumption
    <3>3. backlog' \in [Routers -> 0 .. ChannelSize]
      BY <2>3, <3>2 DEF LearnType, RouterLeaves
    <3> QED
      BY <2>3, <3>1, <3>3 DEF LearnType, RouterLeaves
  <2>4. CASE WritePacket(r)
    <3>1. backlog[r] - 1 \in 0 .. ChannelSize
      BY <2>4, ERoutingAssumption DEF LearnType, WritePacket
    <3> QED
      BY <2>4, <3>1 DEF LearnType, WritePacket
  <2> QED
    BY <1>1, <2>1, <2>2, <2>3, <2>4
<1>2. ASSUME NEW r \in Routers, NEW b \in Routed, NEW o \in Orders[b], HandleResponse(r, b, o)
      PROVE  LearnType'
  <2>1. asked[r][b] - 1 \in Nat
    BY <1>2 DEF HandleResponse, LearnType
  <2>2. asked' \in [Routers -> [Routed -> Nat]]
    BY <1>2, <2>1 DEF HandleResponse, LearnType
  <2>3. owed' \in [Routed -> Int]
    BY <1>2 DEF HandleResponse, LearnType
  <2> QED
    BY <1>2, <2>2, <2>3 DEF HandleResponse, LearnType
<1>3. ASSUME NEW b \in Routed, StartRequest(b) \/ RequestRuns(b) PROVE LearnType'
  <2>1. CASE SendRequest(b)
    <3>1. backlog' \in [Routers -> 0 .. ChannelSize]
      BY <2>1, PacketSent DEF SendRequest
    <3>2. asked' \in [Routers -> [Routed -> Nat]]
      <4>1. Room => connection \in Routers
        BY DEF Room, LearnType
      <4> QED
        BY <2>1, <4>1 DEF SendRequest, LearnType
    <3> QED
      BY <2>1, <3>1, <3>2 DEF SendRequest, LearnType
  <2>2. CASE SendTimeout(b)
    <3>1. backlog' \in [Routers -> 0 .. ChannelSize]
      BY <2>2, PacketSent DEF SendTimeout
    <3>2. owed' \in [Routed -> Int]
      BY <2>2 DEF SendTimeout, LearnType
    <3>3. overrun' \in BOOLEAN
      BY <2>2 DEF SendTimeout
    <3> QED
      BY <2>2, <3>1, <3>2, <3>3 DEF SendTimeout, LearnType
  <2> QED
    BY <1>3, <2>1, <2>2 DEF LearnType, StartRequest, RequestRuns, OpenChannel, UseAnswer, Expire,
       CloseChannel
<1>4. CASE Notify
  <2>1. backlog' \in [Routers -> 0 .. ChannelSize]
    BY <1>4, PacketSent DEF Notify
  <2> QED
    BY <1>4, <2>1 DEF Notify, LearnType
<1> QED
  BY <1>1, <1>2, <1>3, <1>4 DEF ERoutingNext

\* Routers that come and go, and the packets in the channel.
LEMMA RouterStep ==
    ASSUME LearnInv,
           NEW r \in Routers,
           \/ RouterArrives(r) \/ RouterConnects(r) \/ RouterLeaves(r) \/ WritePacket(r)
           \/ Notify
    PROVE  AnsweredInv' /\ RouterInv' /\ BalanceInv'
<1> USE DEF LearnInv
<1>1. CASE RouterArrives(r) \/ WritePacket(r) \/ Notify
  <2>1. UNCHANGED <<connection, asked, request, responses, owed, clashed, overrun>>
    BY <1>1 DEF RouterArrives, WritePacket, Notify
  <2>2. \A q \in Routers : session'[q] = "on" => session[q] = "on"
    BY <1>1 DEF RouterArrives, WritePacket, Notify, LearnType
  <2>3. AnsweredInv'
    BY <2>1 DEF AnsweredInv, Key
  <2>4. RouterInv'
    BY <2>1, <2>2 DEF RouterInv
  <2>5. BalanceInv'
    BY <2>1 DEF BalanceInv, Outstanding, Pending
  <2> QED
    BY <2>3, <2>4, <2>5
<1>4. CASE RouterConnects(r)
  <2>0. r # NoRouter
    BY ERoutingAssumption DEF NoRouter
  <2>5. request' = request /\ responses' = responses /\ owed' = owed /\ overrun' = overrun
    BY <1>4 DEF RouterConnects
  <2>6. AnsweredInv'
    BY <2>5 DEF AnsweredInv, Key
  <2> SUFFICES ASSUME ~clashed' PROVE RouterInv' /\ BalanceInv'
    BY <2>6 DEF RouterInv, BalanceInv
  <2>1. ~clashed /\ connection = NoRouter /\ asked' = asked /\ connection' = r
    BY <1>4 DEF RouterConnects, LearnType
  <2>2. \A q \in Routers, b \in Routed : asked[q][b] = 0
    <3> TAKE q \in Routers, b \in Routed
    <3>1. asked[q][b] \in Nat
      BY DEF LearnType
    <3>2. ~(asked[q][b] > 0)
      BY <2>1, ERoutingAssumption DEF RouterInv, NoRouter
    <3> QED
      BY <3>1, <3>2
  <2>7. \A b \in Routed : request[b].to = NoRouter
    BY <2>1 DEF RouterInv
  <2>3. RouterInv'
    <3>1. \A q \in Routers : session'[q] = "on" => q = r
      BY <1>4, <2>1, ERoutingAssumption DEF RouterConnects, RouterInv, LearnType, NoRouter
    <3> QED
      BY <2>1, <2>2, <2>5, <2>7, <3>1 DEF RouterInv
  <2>4. BalanceInv'
    BY <2>0, <2>1, <2>2, <2>5 DEF BalanceInv, Outstanding, Pending
  <2> QED
    BY <2>3, <2>4
<1>5. CASE RouterLeaves(r)
  <2>0. /\ responses' = responses /\ connection' = NoRouter
        /\ \A b \in Routed : owed'[b] = 0
        /\ \A b \in Routed :
             /\ Key(b)' = Key(b) /\ request'[b].step = request[b].step
             /\ request'[b].got = request[b].got
             /\ request'[b].to = IF request[b].to = r THEN NoRouter ELSE request[b].to
    BY <1>5, RouterForgotten DEF RouterLeaves
  <2>1. AnsweredInv'
    BY <2>0 DEF AnsweredInv
  <2> SUFFICES ASSUME ~clashed' PROVE RouterInv' /\ BalanceInv'
    BY <2>1 DEF RouterInv, BalanceInv
  <2>2. /\ ~clashed /\ connection = r
        /\ \A b \in Routed : ~(request[b].step = "sending" /\ request[b].got)
    BY <1>5 DEF RouterLeaves, RouterInv
  <2>3. /\ \A q \in Routers : session'[q] # "on" /\ \A b \in Routed : ~(asked'[q][b] > 0)
        /\ \A b \in Routed : request'[b].to = NoRouter
    <3>1. \A q \in Routers : q # r => session[q] # "on" /\ \A b \in Routed : ~(asked[q][b] > 0)
      BY <2>2 DEF RouterInv
    <3>2. \A b \in Routed : request[b].to \in {r, NoRouter}
      BY <2>2 DEF RouterInv
    <3>3. /\ \A q \in Routers : q # r => session'[q] = session[q] /\ asked'[q] = asked[q]
          /\ session'[r] = "off" /\ \A b \in Routed : asked'[r][b] = 0
      BY <1>5 DEF RouterLeaves, LearnType
    <3> QED
      BY <2>0, <3>1, <3>2, <3>3
  <2>4. RouterInv'
    BY <2>3 DEF RouterInv
  <2>5. BalanceInv'
    <3> SUFFICES ASSUME NEW b \in Routed PROVE (Outstanding(b) + owed[b] <= Pending(b))'
      BY DEF BalanceInv
    <3>1. Outstanding(b)' = 0 /\ owed'[b] = 0 /\ Pending(b)' = 0
      BY <2>0, <2>2, <2>3 DEF Outstanding, Pending
    <3> QED
      BY <3>1
  <2> QED
    BY <2>4, <2>5
<1> QED
  BY <1>1, <1>4, <1>5

\* An answer: it is dropped, or ends the wait of its request.
LEMMA AnswerStep ==
    ASSUME LearnInv, NEW r \in Routers, NEW b \in Routed, NEW o \in Orders[b],
           HandleResponse(r, b, o)
    PROVE  AnsweredInv' /\ RouterInv' /\ BalanceInv'
<1> USE DEF LearnInv
<1>1. /\ asked[r][b] > 0 /\ connection' = connection /\ session' = session /\ clashed' = clashed
      /\ overrun' = overrun
      /\ asked' = [asked EXCEPT ![r][b] = @ - 1]
  BY DEF HandleResponse
<1>2. /\ asked'[r][b] = asked[r][b] - 1
      /\ \A q \in Routers, c \in Routed : q # r \/ c # b => asked'[q][c] = asked[q][c]
  BY <1>1 DEF LearnType
<1>3. \A q \in Routers, c \in Routed : asked[q][c] \in Nat
  BY DEF LearnType
<1>4. RouterInv'
  <2>1. \A q \in Routers, c \in Routed : asked'[q][c] > 0 => asked[q][c] > 0
    BY <1>1, <1>2, <1>3
  <2>2. \A c \in Routed : request'[c].to = request[c].to
    BY DEF HandleResponse, ChannelInv, Request
  <2> QED
    BY <1>1, <2>1, <2>2 DEF RouterInv
<1>5. r # NoRouter
  BY ERoutingAssumption DEF NoRouter
<1>6. ASSUME ~clashed
      PROVE  /\ Outstanding(b)' = Outstanding(b) - 1
             /\ Outstanding(b) \in Nat
             /\ \A c \in Routed : c # b => Outstanding(c)' = Outstanding(c)
  <2>1. connection = r
    BY <1>1, <1>6 DEF RouterInv
  <2> QED
    BY <1>1, <1>2, <1>3, <1>5, <2>1 DEF Outstanding
<1>7. CASE <<b, o>> \in responses /\ request[b].step \in {"sending", "waiting"}
  <2>1. request' = [request EXCEPT ![b].got = TRUE] /\ owed' = owed /\ responses' = responses \ {<<b, o>>}
    BY <1>7 DEF HandleResponse
  <2>2. <<b, o>> = Key(b)
    BY <1>7 DEF ChannelInv
  <2>3. /\ request'[b].step = request[b].step /\ request'[b].got /\ Key(b)' = Key(b)
        /\ request'[b].to = request[b].to
        /\ \A c \in Routed : c # b => request'[c] = request[c] /\ Key(c)' = Key(c)
    BY <2>1 DEF ChannelInv, Request, Key
  <2>4. ~request[b].got
    BY <1>7, <2>2 DEF AnsweredInv
  <2>5. AnsweredInv'
    BY <1>7, <2>1, <2>2, <2>3 DEF AnsweredInv
  <2>6. BalanceInv'
    <3> SUFFICES ASSUME ~clashed, ~overrun', NEW c \in Routed PROVE (Outstanding(c) + owed[c] <= Pending(c))'
      BY <1>1 DEF BalanceInv
    <3>1. Outstanding(c) + owed[c] <= Pending(c) /\ owed[c] \in Int /\ owed'[c] = owed[c]
      BY <1>1, <2>1 DEF BalanceInv, LearnType
    <3>2. CASE c = b
      <4>1. Pending(b)' >= Pending(b) - 1 /\ Pending(b) \in Int /\ Pending(b)' \in Int
        BY <1>7, <2>3, <2>4 DEF Pending
      <4> QED
        BY <1>6, <3>1, <3>2, <4>1
    <3>3. CASE c # b
      <4>1. Pending(c)' = Pending(c) /\ Outstanding(c)' = Outstanding(c)
        BY <1>6, <2>3, <3>3 DEF Pending
      <4> QED
        BY <3>1, <4>1
    <3> QED
      BY <3>2, <3>3
  <2> QED
    BY <1>4, <2>5, <2>6
<1>8. CASE ~(<<b, o>> \in responses /\ request[b].step \in {"sending", "waiting"})
  <2>1. /\ request' = request /\ owed' = [owed EXCEPT ![b] = @ + 1] /\ responses' \subseteq responses
    BY <1>8 DEF HandleResponse
  <2>2. AnsweredInv'
    BY <2>1 DEF AnsweredInv, Key
  <2>3. BalanceInv'
    <3> SUFFICES ASSUME ~clashed, ~overrun', NEW c \in Routed PROVE (Outstanding(c) + owed[c] <= Pending(c))'
      BY <1>1 DEF BalanceInv
    <3>1. /\ Outstanding(c) + owed[c] <= Pending(c) /\ owed[c] \in Int
          /\ Pending(c)' = Pending(c) /\ Pending(c) \in Int
          /\ owed'[c] = IF c = b THEN owed[c] + 1 ELSE owed[c]
      BY <1>1, <2>1 DEF BalanceInv, LearnType, Pending
    <3>2. Outstanding(c) \in Int
      BY <1>3 DEF Outstanding, LearnType
    <3> QED
      BY <1>6, <3>1, <3>2
  <2> QED
    BY <1>4, <2>2, <2>3
<1> QED
  BY <1>7, <1>8

\* The steps of a request that touch neither router nor balance sheet keep what is
\* said of them.
LEMMA QuietStep ==
    ASSUME LearnInv, NEW b \in Routed,
           UNCHANGED <<connection, session, asked, owed, clashed, overrun>>,
           \A c \in Routed : c # b => request'[c] = request[c],
           request'[b].to \in {request[b].to, NoRouter},
           Pending(b)' >= Pending(b), Pending(b)' \in Int
    PROVE  RouterInv' /\ BalanceInv'
<1> USE DEF LearnInv
<1>1. RouterInv'
  BY DEF RouterInv
<1>2. BalanceInv'
  <2> SUFFICES ASSUME ~clashed, ~overrun', NEW c \in Routed PROVE (Outstanding(c) + owed[c] <= Pending(c))'
    BY DEF BalanceInv
  <2>1. /\ Outstanding(c) + owed[c] <= Pending(c) /\ owed'[c] = owed[c]
        /\ Outstanding(c)' = Outstanding(c)
    BY DEF BalanceInv, Outstanding
  <2>2. Pending(c)' >= Pending(c) /\ Pending(c)' \in Int /\ Pending(c) \in Int
    <3>1. CASE c = b
      BY <3>1 DEF Pending
    <3>2. CASE c # b
      BY <3>2 DEF Pending
    <3> QED
      BY <3>1, <3>2
  <2>3. Outstanding(c) \in Int /\ owed[c] \in Int
    BY DEF Outstanding, LearnType
  <2> QED
    BY <2>1, <2>2, <2>3
<1> QED
  BY <1>1, <1>2

\* The steps of sender_for_bundle.
LEMMA RequestStepKeeps ==
    ASSUME LearnInv, NEW b \in Routed, StartRequest(b) \/ RequestRuns(b)
    PROVE  AnsweredInv' /\ RouterInv' /\ BalanceInv'
<1> USE DEF LearnInv
<1>1. CASE StartRequest(b)
  <2>1. PICK o \in Orders[b] :
          request' = [request EXCEPT ![b] =
                        [step |-> IF connection = NoRouter THEN "idle" ELSE "opening",
                         order |-> o, got |-> FALSE, to |-> NoRouter]]
    BY <1>1 DEF StartRequest
  <2>2. /\ \A c \in Routed : c # b => request'[c] = request[c] /\ Key(c)' = Key(c)
        /\ request'[b].step \in {"idle", "opening"} /\ ~request'[b].got
        /\ request'[b].to = NoRouter
    BY <2>1 DEF ChannelInv, Key
  <2>3. /\ request[b].step = "idle" /\ responses' = responses
        /\ UNCHANGED <<connection, session, asked, owed, clashed, overrun>>
    BY <1>1 DEF StartRequest
  <2>4. AnsweredInv'
    BY <2>2, <2>3 DEF AnsweredInv
  <2>5. Pending(b)' = 0 /\ Pending(b) = 0
    BY <2>2, <2>3 DEF Pending
  <2> QED
    BY <2>2, <2>3, <2>4, <2>5, QuietStep
<1>2. CASE OpenChannel(b)
  <2>1. /\ request[b].step = "opening" /\ ~request[b].got
        /\ Goto(b, "sending") /\ responses' = responses \cup {Key(b)}
        /\ UNCHANGED <<connection, session, asked, owed, clashed, overrun>>
    BY <1>2 DEF OpenChannel, AnsweredInv
  <2>2. /\ \A c \in Routed : Key(c)' = Key(c)
        /\ request'[b].step = "sending" /\ request'[b].got = request[b].got
        /\ request'[b].to = request[b].to
        /\ \A c \in Routed : c # b => request'[c] = request[c]
    BY <2>1, ChannelGoto DEF RequestStep
  <2>3. \A c \in Routed : c # b => Key(c) # Key(b)
    BY DEF Key
  <2>4. AnsweredInv'
    BY <2>1, <2>2, <2>3 DEF AnsweredInv
  <2>5. Pending(b)' = 0 /\ Pending(b) = 0
    BY <2>1, <2>2 DEF Pending
  <2> QED
    BY <2>1, <2>2, <2>4, <2>5, QuietStep
<1>3. CASE SendRequest(b)
  <2>1. /\ request[b].step = "sending" /\ responses' = responses
        /\ UNCHANGED <<connection, session, owed, clashed, overrun>>
        /\ asked' = IF Room THEN [asked EXCEPT ![connection][b] = @ + 1] ELSE asked
    BY <1>3 DEF SendRequest
  <2>2. /\ \A c \in Routed : Key(c)' = Key(c)
        /\ request'[b].step = "waiting" /\ request'[b].got = request[b].got
        /\ request'[b].to = IF Room THEN connection ELSE NoRouter
        /\ \A c \in Routed : c # b => request'[c] = request[c]
    BY <1>3, RequestSent
  <2>3. AnsweredInv'
    BY <2>1, <2>2 DEF AnsweredInv
  <2>7. Room => connection \in Routers /\ connection # NoRouter
    BY DEF Room, LearnType
  <2>4. /\ Room => asked'[connection][b] = asked[connection][b] + 1
        /\ \A q \in Routers, c \in Routed :
              q # connection \/ c # b \/ ~Room => asked'[q][c] = asked[q][c]
    BY <2>1, <2>7 DEF LearnType
  <2>5. RouterInv'
    BY <2>1, <2>2, <2>4, <2>7 DEF RouterInv
  <2>6. BalanceInv'
    <3> SUFFICES ASSUME ~clashed, ~overrun', NEW c \in Routed PROVE (Outstanding(c) + owed[c] <= Pending(c))'
      BY <2>1 DEF BalanceInv
    <3>1. /\ Outstanding(c) + owed[c] <= Pending(c) /\ owed'[c] = owed[c] /\ owed[c] \in Int
          /\ Outstanding(c) \in Nat
      BY <2>1 DEF BalanceInv, Outstanding, LearnType
    <3>2. CASE c = b /\ Room
      <4>1. Pending(b)' = Pending(b) + 1 /\ Pending(b) \in Int
        BY <2>1, <2>2, <2>7, <3>2 DEF Pending, ChannelInv, Request
      <4>2. Outstanding(b)' = Outstanding(b) + 1
        BY <2>1, <2>4, <2>7, <3>2 DEF Outstanding
      <4> QED
        BY <3>1, <3>2, <4>1, <4>2
    <3>3. CASE c = b /\ ~Room
      <4>1. Pending(b)' = 0 /\ Pending(b) <= 0 /\ Pending(b) \in Int
        BY <2>1, <2>2, <3>3 DEF Pending
      <4>2. Outstanding(b)' = Outstanding(b)
        BY <2>1, <3>3 DEF Outstanding
      <4> QED
        BY <3>1, <3>3, <4>1, <4>2
    <3>4. CASE c # b
      <4>1. Pending(c)' = Pending(c) /\ Outstanding(c)' = Outstanding(c)
        BY <2>1, <2>2, <2>4, <3>4 DEF Pending, Outstanding, LearnType
      <4> QED
        BY <3>1, <4>1
    <3> QED
      BY <3>2, <3>3, <3>4
  <2> QED
    BY <2>3, <2>5, <2>6
<1>4. CASE UseAnswer(b)
  <2>1. /\ request[b].step = "waiting" /\ request[b].got
        /\ Goto(b, "idle") /\ responses' \subseteq responses
        /\ UNCHANGED <<connection, session, asked, owed, clashed, overrun>>
    BY <1>4 DEF UseAnswer
  <2>2. /\ \A c \in Routed : Key(c)' = Key(c)
        /\ request'[b].step = "idle" /\ request'[b].got = request[b].got
        /\ request'[b].to = request[b].to
        /\ \A c \in Routed : c # b => request'[c] = request[c]
    BY <2>1, ChannelGoto DEF RequestStep
  <2>3. AnsweredInv'
    BY <2>1, <2>2 DEF AnsweredInv
  <2>4. Pending(b)' = 0 /\ Pending(b) = 0
    BY <2>1, <2>2 DEF Pending
  <2> QED
    BY <2>1, <2>2, <2>3, <2>4, QuietStep
<1>5. CASE Expire(b)
  <2>1. /\ request[b].step = "waiting" /\ ~request[b].got
        /\ Goto(b, "expired") /\ responses' = responses
        /\ UNCHANGED <<connection, session, asked, owed, clashed, overrun>>
    BY <1>5 DEF Expire
  <2>2. /\ \A c \in Routed : Key(c)' = Key(c)
        /\ request'[b].step = "expired" /\ request'[b].got = request[b].got
        /\ request'[b].to = request[b].to
        /\ \A c \in Routed : c # b => request'[c] = request[c]
    BY <2>1, ChannelGoto DEF RequestStep
  <2>3. AnsweredInv'
    BY <2>1, <2>2 DEF AnsweredInv
  <2>4. Pending(b)' = Pending(b) /\ Pending(b) \in Int
    BY <2>1, <2>2 DEF Pending
  <2> QED
    BY <2>1, <2>2, <2>3, <2>4, QuietStep
<1>6. CASE SendTimeout(b)
  <2> DEFINE told == connection # NoRouter /\ connection = request[b].to
  <2>1. /\ request[b].step = "expired" /\ Goto(b, "late") /\ responses' = responses
        /\ UNCHANGED <<connection, session, asked, clashed>>
        /\ owed' = [owed EXCEPT ![b] = IF told /\ Room THEN @ - 1 ELSE @]
        /\ overrun' = (overrun \/ (told /\ ~Room))
    BY <1>6 DEF SendTimeout
  <2>2. /\ \A c \in Routed : Key(c)' = Key(c)
        /\ request'[b].step = "late" /\ request'[b].got = request[b].got
        /\ request'[b].to = request[b].to
        /\ \A c \in Routed : c # b => request'[c] = request[c]
    BY <2>1, ChannelGoto DEF RequestStep
  <2>3. AnsweredInv'
    BY <2>1, <2>2 DEF AnsweredInv
  <2>4. RouterInv'
    BY <2>1, <2>2 DEF RouterInv
  <2>5. BalanceInv'
    <3> SUFFICES ASSUME ~clashed, ~overrun', NEW c \in Routed PROVE (Outstanding(c) + owed[c] <= Pending(c))'
      BY <2>1 DEF BalanceInv
    <3>0. ~overrun /\ (told => Room)
      BY <2>1 DEF LearnType
    <3>1. /\ Outstanding(c) + owed[c] <= Pending(c) /\ owed[c] \in Int /\ Outstanding(c) \in Nat
          /\ owed'[c] = IF c = b /\ told THEN owed[c] - 1 ELSE owed[c]
          /\ Outstanding(c)' = Outstanding(c)
      BY <2>1, <3>0 DEF BalanceInv, Outstanding, LearnType
    <3>2. ~told => request[b].to = NoRouter
      BY DEF RouterInv
    <3>3. Pending(c) \in Int /\ Pending(c)' = IF c = b /\ told THEN Pending(c) - 1 ELSE Pending(c)
      BY <2>1, <2>2, <3>2 DEF Pending
    <3> QED
      BY <3>1, <3>3
  <2> QED
    BY <2>3, <2>4, <2>5
<1>7. CASE CloseChannel(b)
  <2>1. /\ request[b].step = "late"
        /\ Goto(b, "idle") /\ responses' \subseteq responses
        /\ UNCHANGED <<connection, session, asked, owed, clashed, overrun>>
    BY <1>7 DEF CloseChannel
  <2>2. /\ \A c \in Routed : Key(c)' = Key(c)
        /\ request'[b].step = "idle" /\ request'[b].got = request[b].got
        /\ request'[b].to = request[b].to
        /\ \A c \in Routed : c # b => request'[c] = request[c]
    BY <2>1, ChannelGoto DEF RequestStep
  <2>3. AnsweredInv'
    BY <2>1, <2>2 DEF AnsweredInv
  <2>4. Pending(b)' = 0 /\ Pending(b) = 0
    BY <2>1, <2>2 DEF Pending
  <2> QED
    BY <2>1, <2>2, <2>3, <2>4, QuietStep
<1> QED
  BY <1>1, <1>2, <1>3, <1>4, <1>5, <1>6, <1>7 DEF RequestRuns

LEMMA LearnNext == LearnInv /\ [ERoutingNext]_eroutingVars => LearnInv'
<1> SUFFICES ASSUME LearnInv, [ERoutingNext]_eroutingVars PROVE LearnInv'
  OBVIOUS
<1>1. ChannelInv'
  BY ChannelNext DEF LearnInv
<1>2. CASE UNCHANGED eroutingVars
  <2>1. LearnType' /\ RouterInv' /\ AnsweredInv'
    BY <1>2 DEF eroutingVars, LearnInv, LearnType, RouterInv, AnsweredInv, Key
  <2>2. BalanceInv'
    BY <1>2 DEF eroutingVars, LearnInv, BalanceInv, Outstanding, Pending
  <2> QED
    BY <1>1, <2>1, <2>2 DEF LearnInv
<1>3. CASE ERoutingNext
  <2>1. LearnType'
    BY <1>3, RouterTypes DEF LearnInv
  <2>2. AnsweredInv' /\ RouterInv' /\ BalanceInv'
    <3>1. CASE Notify
      <4>1. connection \in Routers
        BY <3>1 DEF Notify, Room, LearnInv, LearnType
      <4> QED
        BY <3>1, <4>1, RouterStep
    <3> QED
      BY <1>3, <3>1, RouterStep, AnswerStep, RequestStepKeeps DEF ERoutingNext
  <2> QED
    BY <1>1, <2>1, <2>2 DEF LearnInv
<1> QED
  BY <1>2, <1>3

\* For each answer that HandleResponse dropped send_packet put a Timeout packet into the
\* channel of the router, or the request that will do so still runs, however often
\* requests overlap with late answers of earlier ones and the router reconnects, unless
\* the channel had no room for a Timeout packet.
THEOREM RouterAlwaysLearns == ERoutingSpec => []RouterLearns
<1>1. ERoutingSpec => []LearnInv
  BY LearnInit, LearnNext, PTL DEF ERoutingSpec
<1>2. LearnInv => RouterLearns
  <2> SUFFICES ASSUME LearnInv, NEW b \in Routed, ~clashed, ~overrun
               PROVE  owed[b] <= IF request[b].step \in {"waiting", "expired"}
                                    /\ request[b].to # NoRouter THEN 1 ELSE 0
    BY DEF RouterLearns
  <2>1. /\ Outstanding(b) + owed[b] <= Pending(b)
        /\ Outstanding(b) \in Nat /\ owed[b] \in Int
    BY DEF LearnInv, BalanceInv, Outstanding, LearnType
  <2>2. Pending(b) \in Int /\ Pending(b) <= IF request[b].step \in {"waiting", "expired"}
                                                /\ request[b].to # NoRouter THEN 1 ELSE 0
    BY DEF Pending
  <2> QED
    BY <2>1, <2>2
<1> QED
  BY <1>1, <1>2, PTL

------------------------------------------------------------------------------
(***************************************************************************)
(* The peer table: static peers stay, and the janitor drops nobody who was *)
(* heard of in time.                                                       *)
(***************************************************************************)

------------------------------------------------------------------------------
\* The inductive invariant.

\* No last contact is further in the future than the clock was set back.
AgesBounded == \A n \in DOMAIN table : -setBack <= table[n].age

\* The operator's peers are in the table as static ones.
PinnedInv == \A n \in pinned : n \in DOMAIN table /\ table[n].con_type = "Static"

\* By the clock nobody has been silent for longer than he really was.
AgesInv == \A n \in DOMAIN table : table[n].age <= silence[n]

PeerInv == PeerTableTypeOK /\ AgesBounded /\ PinnedInv /\ AgesInv

LEMMA PeerInit == PeerTableInit => PeerInv
<1> SUFFICES ASSUME PeerTableInit PROVE PeerInv
  OBVIOUS
<1> USE PeerTableAssumption
<1>1. NewPeer("Static", NoPeriod) \in DtnPeer
  BY DEF NewPeer, DtnPeer
<1>2. PeerTableTypeOK
  BY <1>1 DEF PeerTableInit, PeerTableTypeOK
<1>3. AgesBounded /\ PinnedInv /\ AgesInv
  BY DEF PeerTableInit, AgesBounded, PinnedInv, AgesInv, NewPeer
<1> QED
  BY <1>2, <1>3 DEF PeerInv

------------------------------------------------------------------------------
\* The operations of lib.rs.

\* peers_add: the new entry, which is static if the old one was.
LEMMA AddFacts ==
    ASSUME PeerInv, NEW n \in Names, NEW con \in {"Static", "Dynamic"},
           NEW period \in Periods \cup {NoPeriod},
           table' = Added(n, NewPeer(con, period))
    PROVE  /\ DOMAIN table' = DOMAIN table \cup {n}
           /\ \A m \in DOMAIN table : m # n => table'[m] = table[m]
           /\ table'[n] \in DtnPeer
           /\ table'[n].age = 0
           /\ con = "Static" => table'[n].con_type = "Static"
           /\ n \in DOMAIN table /\ table[n].con_type = "Static" => table'[n].con_type = "Static"
<1>1. NewPeer(con, period) \in DtnPeer /\ NewPeer(con, period).age = 0
      /\ NewPeer(con, period).con_type = con
  BY PeerTableAssumption DEF NewPeer, DtnPeer
<1>2. /\ DOMAIN table' = DOMAIN table \cup {n}
      /\ \A m \in DOMAIN table : m # n => table'[m] = table[m]
  BY DEF Added
<1>3. table'[n] = IF n \in DOMAIN table THEN Update(table[n], NewPeer(con, period))
                  ELSE NewPeer(con, period)
  BY DEF Added
<1>4. CASE n \in DOMAIN table
  <2>1. table[n] \in DtnPeer
    BY <1>4 DEF PeerInv, PeerTableTypeOK
  <2>2. /\ Update(table[n], NewPeer(con, period)) \in DtnPeer
        /\ Update(table[n], NewPeer(con, period)).age = 0
        /\ Update(table[n], NewPeer(con, period)).con_type =
              IF table[n].con_type = "Static" THEN "Static" ELSE con
    BY <1>1, <2>1 DEF Update, DtnPeer
  <2> QED
    BY <1>2, <1>3, <1>4, <2>2
<1>5. CASE n \notin DOMAIN table
  BY <1>1, <1>2, <1>3, <1>5
<1> QED
  BY <1>4, <1>5

\* peers_touch.
LEMMA TouchFacts ==
    ASSUME PeerInv, NEW n \in Names, table' = Touched(n)
    PROVE  /\ DOMAIN table' = DOMAIN table
           /\ \A m \in DOMAIN table : m # n => table'[m] = table[m]
           /\ n \in DOMAIN table => /\ table'[n] \in DtnPeer
                                    /\ table'[n].age = 0
                                    /\ table'[n].con_type = table[n].con_type
<1>1. CASE n \in DOMAIN table
  <2>1. table[n] \in DtnPeer
    BY <1>1 DEF PeerInv, PeerTableTypeOK
  <2>2. table' = [table EXCEPT ![n].age = 0]
    BY <1>1 DEF Touched
  <2>3. 0 \in -MaxSetBack .. MaxAge
    BY PeerTableAssumption
  <2> QED
    BY <1>1, <2>1, <2>2, <2>3 DEF DtnPeer
<1>2. CASE n \notin DOMAIN table
  BY <1>2 DEF Touched
<1> QED
  BY <1>1, <1>2

\* Whatever was heard of a name: its entry is fresh, and static if it was.
LEMMA HeardKeeps ==
    ASSUME PeerInv, NEW n \in Names, Heard(n), UNCHANGED <<config, setBack>>,
           DOMAIN table \subseteq DOMAIN table', DOMAIN table' \subseteq DOMAIN table \cup {n},
           \A m \in DOMAIN table : m # n => table'[m] = table[m],
           n \in DOMAIN table' => table'[n] \in DtnPeer /\ table'[n].age = 0,
           pinned' \subseteq pinned \cup {n},
           n \in pinned' => n \in DOMAIN table' /\ table'[n].con_type = "Static"
    PROVE  PeerInv'
<1> USE DEF PeerInv
<1>1. /\ silence' \in [Names -> 0 .. MaxAge] /\ silence'[n] = 0
      /\ \A m \in Names : m # n => silence'[m] = silence[m]
  BY PeerTableAssumption DEF Heard, PeerTableTypeOK
<1>2. PeerTableTypeOK'
  BY <1>1 DEF PeerTableTypeOK, Heard
<1>3. AgesBounded'
  BY DEF AgesBounded, PeerTableTypeOK
<1>4. PinnedInv'
  BY DEF PinnedInv
<1>5. AgesInv'
  BY <1>1 DEF AgesInv, PeerTableTypeOK
<1> QED
  BY <1>2, <1>3, <1>4, <1>5

\* peers_remove.
LEMMA RemoveKeeps ==
    ASSUME PeerInv, NEW keys, table' = TableWithout(keys), UNCHANGED <<config, setBack, silence>>,
           pinned' \subseteq pinned, pinned' \cap keys \cap DOMAIN table = {}
    PROVE  PeerInv'
<1> USE DEF PeerInv
<1>1. /\ DOMAIN table' = DOMAIN table \ keys
      /\ \A m \in DOMAIN table' : table'[m] = table[m]
  BY DEF TableWithout
<1>2. PeerTableTypeOK'
  BY <1>1 DEF PeerTableTypeOK
<1>3. AgesBounded' /\ PinnedInv' /\ AgesInv'
  BY <1>1 DEF AgesBounded, PinnedInv, AgesInv
<1> QED
  BY <1>2, <1>3

\* A change of every entry that leaves the kind of peer alone.
LEMMA AgesKeep ==
    ASSUME PeerInv, DOMAIN table' = DOMAIN table, UNCHANGED <<config, pinned>>,
           setBack' \in 0 .. MaxSetBack,
           silence' \in [Names -> 0 .. MaxAge],
           \A m \in DOMAIN table : /\ table'[m] \in DtnPeer
                                   /\ table'[m].con_type = table[m].con_type
                                   /\ -setBack' <= table'[m].age
                                   /\ table'[m].age <= silence'[m]
    PROVE  PeerInv'
<1> USE DEF PeerInv
<1>1. PeerTableTypeOK'
  BY DEF PeerTableTypeOK
<1>2. AgesBounded' /\ PinnedInv' /\ AgesInv'
  BY DEF AgesBounded, PinnedInv, AgesInv
<1> QED
  BY <1>1, <1>2

------------------------------------------------------------------------------
\* Who changes the table.

LEMMA AnnouncedKeeps ==
    ASSUME PeerInv, NEW n \in Names, NEW period \in Periods \cup {NoPeriod}, Announced(n, period)
    PROVE  PeerInv'
<1>1. table' = Added(n, NewPeer("Dynamic", period)) /\ Heard(n) /\ UNCHANGED <<config, setBack, pinned>>
  BY DEF Announced
<1>2. /\ DOMAIN table' = DOMAIN table \cup {n}
      /\ \A m \in DOMAIN table : m # n => table'[m] = table[m]
      /\ table'[n] \in DtnPeer /\ table'[n].age = 0
      /\ n \in DOMAIN table /\ table[n].con_type = "Static" => table'[n].con_type = "Static"
  BY <1>1, AddFacts
<1>3. n \in pinned' => n \in DOMAIN table' /\ table'[n].con_type = "Static"
  BY <1>1, <1>2 DEF PeerInv, PinnedInv
<1> QED
  BY <1>1, <1>2, <1>3, HeardKeeps

LEMMA SessionKeeps == ASSUME PeerInv, NEW n \in Names, SessionOpened(n) PROVE PeerInv'
<1>1. Announced(n, NoPeriod)
  BY DEF SessionOpened, Announced
<1> QED
  BY <1>1, AnnouncedKeeps

LEMMA TouchKeeps ==
    ASSUME PeerInv, NEW n \in Names, ServiceFound(n) \/ BundleReceived(n) PROVE PeerInv'
<1>1. table' = Touched(n) /\ Heard(n) /\ UNCHANGED <<config, setBack, pinned>>
  BY DEF ServiceFound, BundleReceived
<1>2. /\ DOMAIN table' = DOMAIN table
      /\ \A m \in DOMAIN table : m # n => table'[m] = table[m]
      /\ n \in DOMAIN table => /\ table'[n] \in DtnPeer
                               /\ table'[n].age = 0
                               /\ table'[n].con_type = table[n].con_type
  BY <1>1, TouchFacts
<1>3. n \in pinned' => n \in DOMAIN table' /\ table'[n].con_type = "Static"
  BY <1>1, <1>2 DEF PeerInv, PinnedInv
<1> QED
  BY <1>1, <1>2, <1>3, HeardKeeps

LEMMA HttpAddKeeps ==
    ASSUME PeerInv, NEW n \in Names, NEW con \in {"Static", "Dynamic"}, HttpAdd(n, con)
    PROVE  PeerInv'
<1>1. table' = Added(n, NewPeer(con, NoPeriod)) /\ Heard(n) /\ UNCHANGED <<config, setBack>>
      /\ pinned' = IF con = "Static" THEN pinned \cup {n} ELSE pinned
  BY DEF HttpAdd
<1>2. /\ DOMAIN table' = DOMAIN table \cup {n}
      /\ \A m \in DOMAIN table : m # n => table'[m] = table[m]
      /\ table'[n] \in DtnPeer /\ table'[n].age = 0
      /\ con = "Static" => table'[n].con_type = "Static"
      /\ n \in DOMAIN table /\ table[n].con_type = "Static" => table'[n].con_type = "Static"
  BY <1>1, AddFacts
<1>3. n \in pinned' => n \in DOMAIN table' /\ table'[n].con_type = "Static"
  BY <1>1, <1>2 DEF PeerInv, PinnedInv
<1>4. pinned' \subseteq pinned \cup {n}
  BY <1>1
<1> QED
  BY <1>1, <1>2, <1>3, <1>4, HeardKeeps

\* Nothing is removed under the name of the service: no peer has it.
LEMMA ServiceRemovedKeeps ==
    ASSUME PeerInv, NEW n \in Names, ServiceRemoved(n) PROVE PeerInv'
<1>1. InstanceName(n) \notin DOMAIN table
  BY PeerTableAssumption DEF InstanceName, PeerInv, PeerTableTypeOK
<1>2. /\ table' = TableWithout({InstanceName(n)}) /\ UNCHANGED <<config, setBack, silence>>
      /\ pinned' = pinned
  BY DEF ServiceRemoved, PeerInv, PeerTableTypeOK
<1> QED
  BY <1>1, <1>2, RemoveKeeps

LEMMA HttpDeleteKeeps ==
    ASSUME PeerInv, NEW n \in Names, HttpDelete(n) PROVE PeerInv'
<1>1. /\ table' = TableWithout({n}) /\ UNCHANGED <<config, setBack, silence>>
      /\ pinned' = pinned \ {n}
  BY DEF HttpDelete, PeerInv, PeerTableTypeOK
<1> QED
  BY <1>1, RemoveKeeps

\* A static peer may fail as often as it will.
LEMMA ReportKeeps ==
    ASSUME PeerInv, NEW n \in Names, ReportFailedTransmission(n) PROVE PeerInv'
<1> DEFINE fails == IF table[n].fails > TooMany THEN table[n].fails ELSE table[n].fails + 1
<1>1. n \in DOMAIN table /\ table[n] \in DtnPeer /\ UNCHANGED <<config, setBack, silence, pinned>>
  BY DEF ReportFailedTransmission, PeerInv, PeerTableTypeOK
<1>2. CASE fails > TooMany /\ table[n].con_type = "Dynamic"
  <2>1. table' = TableWithout({n})
    BY <1>2 DEF ReportFailedTransmission
  <2>2. n \notin pinned
    BY <1>2, <2>1 DEF PeerInv, PinnedInv, PeerTableTypeOK
  <2> QED
    BY <1>1, <2>1, <2>2, RemoveKeeps
<1>3. CASE ~(fails > TooMany /\ table[n].con_type = "Dynamic")
  <2>1. table' = [table EXCEPT ![n].fails = fails]
    BY <1>3 DEF ReportFailedTransmission
  <2>2. fails \in 0 .. TooMany + 1
    BY <1>1, PeerTableAssumption DEF DtnPeer
  <2>3. /\ DOMAIN table' = DOMAIN table
        /\ \A m \in DOMAIN table : m # n => table'[m] = table[m]
        /\ table'[n] = [table[n] EXCEPT !.fails = fails]
    BY <1>1, <2>1
  <2>4. /\ table'[n] \in DtnPeer /\ table'[n].con_type = table[n].con_type
        /\ table'[n].age = table[n].age
    BY <1>1, <2>2, <2>3 DEF DtnPeer
  <2>5. \A m \in DOMAIN table : /\ table'[m] \in DtnPeer
                                /\ table'[m].con_type = table[m].con_type
                                /\ -setBack' <= table'[m].age
                                /\ table'[m].age <= silence'[m]
    BY <1>1, <2>3, <2>4 DEF PeerInv, PeerTableTypeOK, AgesBounded, AgesInv
  <2> QED
    BY <1>1, <2>1, <2>3, <2>5, AgesKeep DEF PeerInv, PeerTableTypeOK
<1> QED
  BY <1>2, <1>3

LEMMA JanitorKeeps == ASSUME PeerInv, RemoveInvalidPeers PROVE PeerInv'
<1>1. /\ table' = TableWithout(Invalid) /\ UNCHANGED <<config, setBack, silence>>
      /\ pinned' = pinned
  BY DEF RemoveInvalidPeers, PeerInv, PeerTableTypeOK
<1>2. pinned \cap Invalid = {}
  BY DEF PeerInv, PinnedInv, Invalid, StillValid
<1> QED
  BY <1>1, <1>2, RemoveKeeps

LEMMA SecondKeeps == ASSUME PeerInv, SecondPasses PROVE PeerInv'
<1> USE PeerTableAssumption
<1>1. /\ table' = [n \in DOMAIN table |-> [table[n] EXCEPT !.age = Older(@)]]
      /\ silence' = [n \in Names |-> Older(silence[n])]
      /\ UNCHANGED <<config, setBack, pinned>>
  BY DEF SecondPasses
<1>2. DOMAIN table' = DOMAIN table
  BY <1>1
<1>3. silence' \in [Names -> 0 .. MaxAge]
  BY <1>1 DEF PeerInv, PeerTableTypeOK, Older
<1>4. ASSUME NEW m \in DOMAIN table
      PROVE  /\ table'[m] \in DtnPeer /\ table'[m].con_type = table[m].con_type
             /\ -setBack' <= table'[m].age /\ table'[m].age <= silence'[m]
  <2>1. /\ table[m] \in DtnPeer /\ m \in Names /\ silence[m] \in 0 .. MaxAge
        /\ setBack \in 0 .. MaxSetBack
        /\ -setBack <= table[m].age /\ table[m].age <= silence[m]
    BY DEF PeerInv, PeerTableTypeOK, AgesBounded, AgesInv
  <2>2. table'[m] = [table[m] EXCEPT !.age = Older(table[m].age)] /\ silence'[m] = Older(silence[m])
    BY <1>1, <2>1
  <2>3. /\ table[m].age \in -MaxSetBack .. MaxAge
        /\ Older(table[m].age) \in -MaxSetBack .. MaxAge
        /\ table[m].age <= Older(table[m].age)
        /\ Older(table[m].age) <= Older(silence[m])
    BY <2>1 DEF Older, DtnPeer
  <2>4. /\ table'[m] \in DtnPeer /\ table'[m].con_type = table[m].con_type
        /\ table'[m].age = Older(table[m].age)
    BY <2>1, <2>2, <2>3 DEF DtnPeer
  <2> QED
    BY <1>1, <2>1, <2>2, <2>3, <2>4
<1> QED
  BY <1>1, <1>2, <1>3, <1>4, AgesKeep DEF PeerInv, PeerTableTypeOK

LEMMA SetBackKeeps == ASSUME PeerInv, ClockSetBack PROVE PeerInv'
<1> USE PeerTableAssumption
<1>1. /\ table' = [n \in DOMAIN table |-> [table[n] EXCEPT !.age = @ - 1]]
      /\ setBack < MaxSetBack /\ setBack' = setBack + 1
      /\ UNCHANGED <<config, silence, pinned>>
  BY DEF ClockSetBack
<1>2. DOMAIN table' = DOMAIN table /\ setBack' \in 0 .. MaxSetBack
  BY <1>1 DEF PeerInv, PeerTableTypeOK
<1>3. ASSUME NEW m \in DOMAIN table
      PROVE  /\ table'[m] \in DtnPeer /\ table'[m].con_type = table[m].con_type
             /\ -setBack' <= table'[m].age /\ table'[m].age <= silence'[m]
  <2>1. /\ table[m] \in DtnPeer /\ m \in Names /\ silence[m] \in 0 .. MaxAge
        /\ setBack \in 0 .. MaxSetBack
        /\ -setBack <= table[m].age /\ table[m].age <= silence[m]
    BY DEF PeerInv, PeerTableTypeOK, AgesBounded, AgesInv
  <2>2. table'[m] = [table[m] EXCEPT !.age = table[m].age - 1] /\ table[m].age \in -MaxSetBack .. MaxAge
    BY <1>1, <2>1 DEF DtnPeer
  <2>3. table[m].age - 1 \in -MaxSetBack .. MaxAge
    BY <1>1, <2>1, <2>2
  <2>4. /\ table'[m] \in DtnPeer /\ table'[m].con_type = table[m].con_type
        /\ table'[m].age = table[m].age - 1
    BY <2>1, <2>2, <2>3 DEF DtnPeer
  <2> QED
    BY <1>1, <2>1, <2>2, <2>4
<1> QED
  BY <1>1, <1>2, <1>3, AgesKeep DEF PeerInv, PeerTableTypeOK

LEMMA PeerNext == PeerInv /\ [PeerTableNext]_peerTableVars => PeerInv'
<1> SUFFICES ASSUME PeerInv, [PeerTableNext]_peerTableVars PROVE PeerInv'
  OBVIOUS
<1>1. CASE UNCHANGED peerTableVars
  BY <1>1 DEF peerTableVars, PeerInv, PeerTableTypeOK, AgesBounded, PinnedInv, AgesInv
<1>2. CASE PeerTableNext
  BY <1>2, AnnouncedKeeps, SessionKeeps, TouchKeeps, HttpAddKeeps, ServiceRemovedKeeps,
     HttpDeleteKeeps, ReportKeeps, JanitorKeeps, SecondKeeps, SetBackKeeps
     DEF PeerTableNext, ServiceResolved, EclaBeacon
<1> QED
  BY <1>1, <1>2

LEMMA PeerInvariant == PeerTableSpec => []PeerInv
BY PeerInit, PeerNext, PTL DEF PeerTableSpec

------------------------------------------------------------------------------

\* Entries of PEERS stay well typed; a last contact lies no further in the future
\* than the clock was set back.
THEOREM PeersTypeCorrect == PeerTableSpec => []PeerTableTypeOK
<1>1. PeerInv => PeerTableTypeOK
  BY DEF PeerInv
<1> QED
  BY <1>1, PeerInvariant, PTL

\* Neither beacons, mDNS, sessions, failures nor the janitor remove a static peer.
THEOREM PinnedPeersStay == PeerTableSpec => []PinnedStay
<1>1. PeerInv => PinnedStay
  BY DEF PeerInv, PinnedInv, PinnedStay
<1> QED
  BY <1>1, PeerInvariant, PTL

\* What process_peers would remove was really silent for its limit, although the
\* clock it measures with may have been set back.
THEOREM HeardPeersStay == PeerTableSpec => []HeardStay
<1>1. PeerInv => HeardStay
  <2> SUFFICES ASSUME PeerInv, NEW n \in Invalid PROVE silence[n] >= MaxSilence(table[n])
    BY DEF HeardStay
  <2>1. /\ n \in DOMAIN table /\ n \in Names /\ table[n] \in DtnPeer
        /\ silence[n] \in 0 .. MaxAge /\ table[n].age <= silence[n] /\ config \in Configs
    BY DEF Invalid, PeerInv, PeerTableTypeOK, AgesInv
  <2>2. ~(SilentFor(table[n]) < MaxSilence(table[n]))
    BY DEF Invalid, StillValid
  <2>3. /\ table[n].age \in -MaxSetBack .. MaxAge
        /\ SilentFor(table[n]) <= silence[n] /\ SilentFor(table[n]) \in Int
    BY <2>1, PeerTableAssumption DEF SilentFor, DtnPeer
  <2>4. MaxSilence(table[n]) \in Int
    <3>1. config.timeout \in Nat
      BY <2>1, PeerTableAssumption
    <3>2. table[n].period \in Periods \cup {NoPeriod}
      BY <2>1 DEF DtnPeer
    <3>3. table[n].period # NoPeriod => table[n].period * 2 \in Int
      <4>1. table[n].period # NoPeriod => table[n].period \in Nat
        BY <3>2, PeerTableAssumption
      <4> QED
        BY <4>1
    <3> QED
      BY <3>1, <3>3 DEF MaxSilence
  <2> QED
    BY <2>1, <2>2, <2>3, <2>4, PeerTableAssumption
<1> QED
  BY <1>1, PeerInvariant, PTL

------------------------------------------------------------------------------
(***************************************************************************)
(* Websocket sessions.  A place is an agent's queue, one of the channels   *)
(* of a session, a client, or the history of what was lost.                *)
(***************************************************************************)
Channels == {"mailbox", "taken", "sending", "outbox"}

Places == ({"agent"} \X Agents) \cup ((Channels \cup {"seen"}) \X Clients) \cup {<<"lost", 0>>}

\* The bundles at a place.
At(x) ==
    IF x[1] = "agent" THEN MailIn(agentQueue[x[2]])
    ELSE IF x[1] = "mailbox" THEN MailIn(mailbox[x[2]])
    ELSE IF x[1] = "taken" THEN MailIn(taken[x[2]])
    ELSE IF x[1] = "sending" THEN MailIn(sending[x[2]])
    ELSE IF x[1] = "outbox" THEN MailIn(outbox[x[2]])
    ELSE IF x[1] = "seen" THEN seen[x[2]]
    ELSE lost

\* No bundle is at two places,
Apart == \A x, y \in Places : x # y => At(x) \cap At(y) = {}

\* nor twice in one channel.
Single(s) == \A i, j \in 1..Len(s) : s[i] = s[j] /\ s[i] # Text => i = j

Singles ==
    /\ \A e \in Agents : Single(agentQueue[e])
    /\ \A w \in Clients : Single(mailbox[w]) /\ Single(taken[w]) /\ Single(sending[w]) /\ Single(outbox[w])

PlacesInv == WsTypeOK /\ Singles /\ Apart

LEMMA SingleEmpty == Single(<<>>) /\ MailIn(<<>>) = {} /\ Single(<<Text>>) /\ MailIn(<<Text>>) = {}
<1>1. \A i \in 1..Len(<<>>) : FALSE
  OBVIOUS
<1>2. Len(<<Text>>) = 1 /\ <<Text>>[1] = Text
  OBVIOUS
<1>3. \A i \in 1..1 : i = 1
  OBVIOUS
<1> QED BY <1>1, <1>2, <1>3 DEF Single, MailIn

LEMMA SingleHead ==
    ASSUME NEW s \in Seq(Messages), s # <<>>, Single(s)
    PROVE  /\ Tail(s) \in Seq(Messages) /\ Head(s) \in Messages /\ Len(Tail(s)) = Len(s) - 1
           /\ Single(Tail(s)) /\ MailIn(Tail(s)) = MailIn(s) \ {Head(s)}
           /\ {Head(s)} \ {Text} \subseteq MailIn(s)
<1> DEFINE t == Tail(s)   h == Head(s)
<1>1. /\ Len(s) \in Nat /\ Len(s) >= 1 /\ t \in Seq(Messages) /\ Len(t) = Len(s) - 1
      /\ h = s[1] /\ h \in Messages /\ \A i \in 1..Len(t) : t[i] = s[i+1]
  BY HeadTailProperties, LenProperties, EmptySeq, ElementOfSeq
<1> HIDE DEF t, h
<1>2. \A i \in 1..Len(t) : i + 1 \in 1..Len(s) /\ i + 1 # 1
  BY <1>1
<1>3. 1 \in 1..Len(s) /\ \A i \in 1..Len(s) : i # 1 => i - 1 \in 1..Len(t) /\ (i - 1) + 1 = i
  BY <1>1
<1>4. Single(t)
  <2> SUFFICES ASSUME NEW i \in 1..Len(t), NEW j \in 1..Len(t), t[i] = t[j], t[i] # Text PROVE i = j
    BY DEF Single
  <2>1. i + 1 = j + 1
    BY <1>1, <1>2 DEF Single
  <2> QED BY <1>1, <2>1
<1>5. MailIn(t) = MailIn(s) \ {h}
  <2>1. ASSUME NEW b, b \in MailIn(t) PROVE b \in MailIn(s) /\ b # h
    <3>1. PICK i \in 1..Len(t) : b = t[i] /\ b # Text
      BY <2>1 DEF MailIn
    <3>2. b = s[i+1] /\ i + 1 \in 1..Len(s)
      BY <1>1, <1>2, <3>1
    <3>3. b # h
      BY <1>1, <1>2, <1>3, <3>1, <3>2 DEF Single
    <3> QED BY <3>1, <3>2, <3>3 DEF MailIn
  <2>2. ASSUME NEW b, b \in MailIn(s), b # h PROVE b \in MailIn(t)
    <3>1. PICK i \in 1..Len(s) : b = s[i] /\ b # Text
      BY <2>2 DEF MailIn
    <3>2. i - 1 \in 1..Len(t) /\ t[i - 1] = b
      BY <1>1, <1>3, <2>2, <3>1
    <3> QED BY <3>1, <3>2 DEF MailIn
  <2> QED BY <2>1, <2>2
<1>6. {h} \ {Text} \subseteq MailIn(s)
  BY <1>1, <1>3 DEF MailIn
<1> QED BY <1>1, <1>4, <1>5, <1>6 DEF t, h

LEMMA SingleConcat ==
    ASSUME NEW s \in Seq(Messages), NEW t \in Seq(Messages), Single(s), Single(t),
           MailIn(s) \cap MailIn(t) = {}
    PROVE  /\ s \o t \in Seq(Messages) /\ Len(s \o t) = Len(s) + Len(t)
           /\ Single(s \o t) /\ MailIn(s \o t) = MailIn(s) \cup MailIn(t)
<1> DEFINE y == s \o t
<1>1. /\ Len(s) \in Nat /\ Len(t) \in Nat /\ y \in Seq(Messages) /\ Len(y) = Len(s) + Len(t)
      /\ \A i \in 1..Len(s) : y[i] = s[i]
      /\ \A i \in 1..Len(t) : y[i + Len(s)] = t[i]
      /\ \A i \in 1..Len(y) : ~(i <= Len(s)) => i - Len(s) \in 1..Len(t) /\ y[i] = t[i - Len(s)]
  BY ConcatProperties, LenProperties
<1> HIDE DEF y
<1>2. /\ \A i \in 1..Len(s) : i \in 1..Len(y)
      /\ \A i \in 1..Len(t) : i + Len(s) \in 1..Len(y)
      /\ \A i \in 1..Len(y) : i <= Len(s) => i \in 1..Len(s)
  BY <1>1
<1>3. MailIn(y) = MailIn(s) \cup MailIn(t)
  <2>1. MailIn(y) \subseteq MailIn(s) \cup MailIn(t)
    BY <1>1, <1>2, SMTT(30) DEF MailIn
  <2>2. MailIn(s) \subseteq MailIn(y)
    BY <1>1, <1>2 DEF MailIn
  <2>3. MailIn(t) \subseteq MailIn(y)
    BY <1>1, <1>2, ZenonT(30) DEF MailIn
  <2> QED BY <2>1, <2>2, <2>3
<1>4. Single(y)
  <2> SUFFICES ASSUME NEW i \in 1..Len(y), NEW j \in 1..Len(y), y[i] = y[j], y[i] # Text PROVE i = j
    BY DEF Single
  <2>1. CASE i <= Len(s) /\ j <= Len(s)
    BY <1>1, <1>2, <2>1 DEF Single
  <2>2. CASE ~(i <= Len(s)) /\ ~(j <= Len(s))
    <3>1. i - Len(s) = j - Len(s)
      BY <1>1, <2>2, ZenonT(30) DEF Single
    <3> QED BY <1>1, <3>1
  <2>3. CASE i <= Len(s) /\ ~(j <= Len(s))
    <3>1. y[i] \in MailIn(s) /\ y[j] \in MailIn(t)
      BY <1>1, <1>2, <2>3 DEF MailIn
    <3> QED BY <3>1
  <2>4. CASE ~(i <= Len(s)) /\ j <= Len(s)
    <3>1. y[j] \in MailIn(s) /\ y[i] \in MailIn(t)
      BY <1>1, <1>2, <2>4 DEF MailIn
    <3> QED BY <3>1
  <2> QED BY <2>1, <2>2, <2>3, <2>4
<1> QED BY <1>1, <1>3, <1>4 DEF y

LEMMA SingleAppend ==
    ASSUME NEW s \in Seq(Messages), NEW m \in Messages, Single(s), m \notin MailIn(s)
    PROVE  /\ Append(s, m) \in Seq(Messages) /\ Len(Append(s, m)) = Len(s) + 1
           /\ Single(Append(s, m)) /\ MailIn(Append(s, m)) = MailIn(s) \cup ({m} \ {Text})
<1> DEFINE t == <<m>>
<1>1. Len(t) = 1 /\ t[1] = m /\ t \in Seq(Messages)
  OBVIOUS
<1>2. \A i \in 1..Len(t) : i = 1
  BY <1>1
<1> HIDE DEF t
<1>3. Single(t) /\ MailIn(t) = {m} \ {Text}
  BY <1>1, <1>2 DEF Single, MailIn
<1>4. Append(s, m) = s \o t
  BY AppendIsConcat DEF t
<1> QED BY <1>1, <1>3, <1>4, SingleConcat

\* Everything else loses bundles at most, and those that come to y come from
\* nowhere or from a place they have left.
LEMMA ApartKeeps ==
    ASSUME Apart, NEW y \in Places, NEW B, At(y)' \subseteq At(y) \cup B,
           \A x \in Places : x # y => At(x)' \subseteq At(x) /\ At(x)' \cap B = {}
    PROVE  Apart'
<1> SUFFICES ASSUME NEW u \in Places, NEW v \in Places, u # v PROVE At(u)' \cap At(v)' = {}
  BY DEF Apart
<1>1. At(u) \cap At(v) = {}
  BY DEF Apart
<1>2. CASE u # y /\ v # y
  BY <1>1, <1>2
<1>3. CASE u = y
  BY <1>1, <1>3
<1>4. CASE v = y
  BY <1>1, <1>4
<1> QED BY <1>2, <1>3, <1>4

\* All places, by their kinds.
LEMMA PlacesAre ==
    ASSUME NEW x \in Places
    PROVE  \/ \E e \in Agents : x = <<"agent", e>> /\ At(x) = MailIn(agentQueue[e]) /\ At(x)' = MailIn(agentQueue'[e])
           \/ \E w \in Clients : x = <<"mailbox", w>> /\ At(x) = MailIn(mailbox[w]) /\ At(x)' = MailIn(mailbox'[w])
           \/ \E w \in Clients : x = <<"taken", w>> /\ At(x) = MailIn(taken[w]) /\ At(x)' = MailIn(taken'[w])
           \/ \E w \in Clients : x = <<"sending", w>> /\ At(x) = MailIn(sending[w]) /\ At(x)' = MailIn(sending'[w])
           \/ \E w \in Clients : x = <<"outbox", w>> /\ At(x) = MailIn(outbox[w]) /\ At(x)' = MailIn(outbox'[w])
           \/ \E w \in Clients : x = <<"seen", w>> /\ At(x) = seen[w] /\ At(x)' = seen'[w]
           \/ x = <<"lost", 0>> /\ At(x) = lost /\ At(x)' = lost'
<1>1. \/ x \in {"agent"} \X Agents \/ x \in {"mailbox"} \X Clients \/ x \in {"taken"} \X Clients
      \/ x \in {"sending"} \X Clients \/ x \in {"outbox"} \X Clients \/ x \in {"seen"} \X Clients
      \/ x = <<"lost", 0>>
  BY DEF Places, Channels
<1>2. CASE x \in {"agent"} \X Agents
  BY <1>2 DEF At, MailIn
<1>3. CASE x \in {"mailbox"} \X Clients
  BY <1>3 DEF At, MailIn
<1>4. CASE x \in {"taken"} \X Clients
  BY <1>4 DEF At, MailIn
<1>5. CASE x \in {"sending"} \X Clients
  BY <1>5 DEF At, MailIn
<1>6. CASE x \in {"outbox"} \X Clients
  BY <1>6 DEF At, MailIn
<1>7. CASE x \in {"seen"} \X Clients
  BY <1>7 DEF At
<1>8. CASE x = <<"lost", 0>>
  BY <1>8 DEF At
<1> QED BY <1>1, <1>2, <1>3, <1>4, <1>5, <1>6, <1>7, <1>8

LEMMA PlacesOf ==
           /\ \A e \in Agents : <<"agent", e>> \in Places /\ At(<<"agent", e>>) = MailIn(agentQueue[e])
           /\ \A w \in Clients :
                /\ <<"mailbox", w>> \in Places /\ At(<<"mailbox", w>>) = MailIn(mailbox[w])
                /\ <<"taken", w>> \in Places /\ At(<<"taken", w>>) = MailIn(taken[w])
                /\ <<"sending", w>> \in Places /\ At(<<"sending", w>>) = MailIn(sending[w])
                /\ <<"outbox", w>> \in Places /\ At(<<"outbox", w>>) = MailIn(outbox[w])
                /\ <<"seen", w>> \in Places /\ At(<<"seen", w>>) = seen[w]
           /\ <<"lost", 0>> \in Places /\ At(<<"lost", 0>>) = lost
BY DEF Places, Channels, At

LEMMA MailAreMessages ==
    ASSUME NEW s \in Seq(Mail)
    PROVE  s \in Seq(Messages) /\ MailIn(s) \subseteq Mail /\ Len(s) \in Nat
<1>1. Len(s) \in Nat /\ s \in [1..Len(s) -> Mail]
  BY LenProperties
<1>2. s \in [1..Len(s) -> Messages]
  BY <1>1 DEF Messages
<1>3. s \in Seq(Messages)
  BY <1>1, <1>2, IsASeq
<1> QED BY <1>1, <1>3 DEF MailIn

LEMMA PlacesInit == WsInit => PlacesInv
<1> SUFFICES ASSUME WsInit PROVE PlacesInv
  OBVIOUS
<1>1. WsTypeOK
  <2>1. <<>> \in Seq(Mail) /\ <<>> \in Seq(Messages) /\ Len(<<>>) = 0
    BY EmptySeq
  <2>2. \A w \in Clients : Len(mailbox[w]) <= MailboxSize /\ Len(outbox[w]) <= OutboxSize
    <3>1. \A w \in Clients : Len(mailbox[w]) = 0 /\ Len(outbox[w]) = 0
      BY <2>1 DEF WsInit
    <3>2. 0 <= MailboxSize /\ 0 <= OutboxSize
      BY WsSessionAssumption
    <3> QED BY <3>1, <3>2
  <2> QED BY <2>1, <2>2 DEF WsInit, WsTypeOK, Modes
<1>2. Singles
  BY SingleEmpty DEF WsInit, Singles
<1>3. \A x \in Places : At(x) = {}
  BY SingleEmpty DEF WsInit, Places, Channels, At
<1> QED BY <1>1, <1>2, <1>3 DEF PlacesInv, Apart

\* Steps that move no bundle.
LEMMA NothingMoved ==
    ASSUME PlacesInv, WsTypeOK', UNCHANGED <<agentQueue, mailbox, taken, sending, outbox, seen, lost>>
    PROVE  PlacesInv'
<1>1. Singles'
  BY DEF PlacesInv, Singles
<1>2. \A x \in Places : At(x)' = At(x)
  BY PlacesAre
<1> QED BY <1>1, <1>2 DEF PlacesInv, Apart

\* A reply or a ping is no bundle.
LEMMA ReplyingKeeps ==
    ASSUME PlacesInv, WsTypeOK', NEW w \in Clients, sending' = [sending EXCEPT ![w] = <<Text>>],
           UNCHANGED <<agentQueue, mailbox, taken, outbox, seen, lost>>
    PROVE  PlacesInv'
<1>1. sending'[w] = <<Text>> /\ \A v \in Clients \ {w} : sending'[v] = sending[v]
  BY DEF PlacesInv, WsTypeOK
<1>2. Singles'
  BY <1>1, SingleEmpty DEF PlacesInv, Singles
<1>3. \A x \in Places : At(x)' \subseteq At(x)
  BY <1>1, PlacesAre, SingleEmpty
<1>4. Apart'
  BY <1>3 DEF PlacesInv, Apart
<1> QED BY <1>2, <1>4 DEF PlacesInv

LEMMA PushKept == ASSUME PlacesInv, NEW b \in Mail, AgentPush(b) PROVE PlacesInv'
<1> DEFINE e == AgentOf[b]   w == delivery[e]
<1>1. e \in Agents /\ b \in Messages /\ b # Text
  BY WsSessionAssumption DEF Messages
<1>2. \A x \in Places : b \notin At(x)
  <2>1. b \notin Pushed
    BY DEF AgentPush
  <2> QED BY <2>1 DEF Pushed, Addressed, InSession, At, Places, Channels
<1>3. CASE /\ w # Nobody /\ status[w] \in {"on", "ending"} /\ Len(mailbox[w]) < MailboxSize
           /\ mailbox' = [mailbox EXCEPT ![w] = Append(@, b)]
           /\ UNCHANGED agentQueue
  <2>0. PICK v \in Clients : v = w
    BY <1>1, <1>3 DEF PlacesInv, WsTypeOK
  <2>1. v \in Clients /\ mailbox[v] \in Seq(Mail) /\ Single(mailbox[v])
    BY <2>0 DEF PlacesInv, WsTypeOK, Singles
  <2>2. b \notin MailIn(mailbox[v])
    BY <1>2, <2>1, PlacesOf
  <2> DEFINE q == Append(mailbox[v], b)
  <2>3. /\ q \in Seq(Mail) /\ Len(q) = Len(mailbox[v]) + 1 /\ Len(mailbox[v]) \in Nat
        /\ Single(q) /\ MailIn(q) = MailIn(mailbox[v]) \cup {b}
    <3>1. q \in Seq(Mail)
      BY <2>1, AppendProperties
    <3>2. mailbox[v] \in Seq(Messages) /\ Len(mailbox[v]) \in Nat
      BY <2>1, MailAreMessages
    <3> QED BY <1>1, <2>1, <2>2, <3>1, <3>2, SingleAppend
  <2> HIDE DEF q
  <2>a. Len(mailbox[v]) < MailboxSize /\ mailbox' = [mailbox EXCEPT ![v] = q]
    BY <1>3, <2>0 DEF q
  <2> HIDE DEF w
  <2>4. mailbox'[v] = q /\ (\A u \in Clients \ {v} : mailbox'[u] = mailbox[u]) /\ mailbox' \in [Clients -> Seq(Mail)]
    BY <2>a, <2>1, <2>3 DEF PlacesInv, WsTypeOK
  <2>5. WsTypeOK'
    <3>1. \A u \in Clients : Len(mailbox'[u]) <= MailboxSize
      BY <2>a, <2>3, <2>4, WsSessionAssumption DEF PlacesInv, WsTypeOK
    <3> QED BY <1>3, <2>4, <3>1 DEF AgentPush, PlacesInv, WsTypeOK
  <2>6. UNCHANGED <<agentQueue, taken, sending, outbox, seen, lost>>
    BY <1>3 DEF AgentPush
  <2>7. Singles'
    BY <2>3, <2>4, <2>6 DEF PlacesInv, Singles
  <2> DEFINE y == <<"mailbox", v>>
  <2>8. y \in Places /\ At(y)' = At(y) \cup {b}
    BY <2>1, <2>3, <2>4 DEF Places, Channels, At
  <2>9. \A x \in Places : x # y => At(x)' = At(x)
    BY <2>4, <2>6, PlacesAre
  <2>10. Apart'
    <3> HIDE DEF y
    <3>1. \A x \in Places : x # y => At(x)' \subseteq At(x) /\ At(x)' \cap {b} = {}
      BY <1>2, <2>9
    <3> QED BY <2>8, <3>1, ApartKeeps DEF PlacesInv
  <2> QED BY <2>5, <2>7, <2>10 DEF PlacesInv
<1>4. CASE /\ agentQueue' = [agentQueue EXCEPT ![e] = Append(@, b)]
           /\ UNCHANGED mailbox
  <2>1. agentQueue[e] \in Seq(Mail) /\ Single(agentQueue[e])
    BY <1>1 DEF PlacesInv, WsTypeOK, Singles
  <2>2. b \notin MailIn(agentQueue[e])
    BY <1>1, <1>2, PlacesOf
  <2> DEFINE q == Append(agentQueue[e], b)
  <2>3. q \in Seq(Mail) /\ Single(q) /\ MailIn(q) = MailIn(agentQueue[e]) \cup {b}
    <3>1. q \in Seq(Mail)
      BY <2>1, AppendProperties
    <3>2. agentQueue[e] \in Seq(Messages)
      BY <2>1, MailAreMessages
    <3> QED BY <1>1, <2>1, <2>2, <3>1, <3>2, SingleAppend
  <2> HIDE DEF q, e
  <2>4. agentQueue'[e] = q /\ (\A d \in Agents \ {e} : agentQueue'[d] = agentQueue[d]) /\ agentQueue' \in [Agents -> Seq(Mail)]
    BY <1>1, <1>4, <2>3 DEF PlacesInv, WsTypeOK, q
  <2>5. WsTypeOK'
    BY <1>4, <2>4 DEF AgentPush, PlacesInv, WsTypeOK
  <2>6. UNCHANGED <<mailbox, taken, sending, outbox, seen, lost>>
    BY <1>4 DEF AgentPush
  <2>7. Singles'
    BY <2>3, <2>4, <2>6 DEF PlacesInv, Singles
  <2> DEFINE y == <<"agent", e>>
  <2>8. y \in Places /\ At(y)' = At(y) \cup {b}
    BY <1>1, <2>3, <2>4 DEF Places, Channels, At
  <2>9. \A x \in Places : x # y => At(x)' = At(x)
    BY <2>4, <2>6, PlacesAre
  <2>10. Apart'
    <3> HIDE DEF y
    <3>1. \A x \in Places : x # y => At(x)' \subseteq At(x) /\ At(x)' \cap {b} = {}
      BY <1>2, <2>9
    <3> QED BY <2>8, <3>1, ApartKeeps DEF PlacesInv
  <2> QED BY <2>5, <2>7, <2>10 DEF PlacesInv
<1> QED BY <1>3, <1>4 DEF AgentPush

\* A bundle moves from one place to another.
LEMMA MoveKeeps ==
    ASSUME PlacesInv, WsTypeOK', Singles', NEW x \in Places, NEW y \in Places, x # y, NEW B,
           B \subseteq At(x), At(x)' \subseteq At(x) \ B, At(y)' \subseteq At(y) \cup B,
           \A z \in Places : z # x /\ z # y => At(z)' = At(z)
    PROVE  PlacesInv'
<1>1. ASSUME NEW z \in Places, z # y PROVE At(z)' \subseteq At(z) /\ At(z)' \cap B = {}
  <2>1. CASE z = x
    BY <2>1
  <2>2. CASE z # x
    BY <1>1, <2>2 DEF PlacesInv, Apart
  <2> QED BY <2>1, <2>2
<1>2. Apart'
  BY <1>1, ApartKeeps DEF PlacesInv
<1> QED BY <1>2 DEF PlacesInv

\* One message as a sequence.
LEMMA OneMessage ==
    ASSUME NEW m \in Messages
    PROVE  /\ <<m>> \in Seq(Messages) /\ Single(<<m>>) /\ MailIn(<<m>>) = {m} \ {Text}
           /\ m \in Mail => <<m>> \in Seq(Mail)
<1> DEFINE t == <<m>>
<1>1. Len(t) = 1 /\ t[1] = m /\ t \in Seq(Messages) /\ (m \in Mail => t \in Seq(Mail))
  OBVIOUS
<1>2. \A i \in 1..Len(t) : i = 1
  BY <1>1
<1> HIDE DEF t
<1>3. Single(t) /\ MailIn(t) = {m} \ {Text}
  BY <1>1, <1>2 DEF Single, MailIn
<1> QED BY <1>1, <1>3 DEF t

\* The head of mail.
LEMMA MailHead ==
    ASSUME NEW s \in Seq(Mail), s # <<>>
    PROVE  Tail(s) \in Seq(Mail) /\ Head(s) \in Mail /\ Len(Tail(s)) = Len(s) - 1 /\ Len(s) \in Nat
BY HeadTailProperties, LenProperties, EmptySeq, ElementOfSeq

LEMMA TakeKept == ASSUME PlacesInv, NEW w \in Clients, TakeMail(w) PROVE PlacesInv'
<1> DEFINE s == mailbox[w]   b == Head(s)
<1>1. s \in Seq(Mail) /\ s # <<>> /\ Single(s)
  BY DEF TakeMail, PlacesInv, WsTypeOK, Singles
<1>2. Tail(s) \in Seq(Mail) /\ b \in Mail /\ Len(Tail(s)) = Len(s) - 1 /\ Len(s) \in Nat
  BY <1>1, MailHead
<1>3. b \in Messages /\ b # Text
  BY <1>2, WsSessionAssumption DEF Messages
<1>4. s \in Seq(Messages)
  BY <1>1, MailAreMessages
<1>5. Single(Tail(s)) /\ MailIn(Tail(s)) = MailIn(s) \ {b} /\ b \in MailIn(s)
  BY <1>1, <1>3, <1>4, SingleHead
<1>6. <<b>> \in Seq(Mail) /\ Single(<<b>>) /\ MailIn(<<b>>) = {b}
  BY <1>2, <1>3, OneMessage
<1>7. MailIn(taken[w]) = {}
  BY SingleEmpty DEF TakeMail
<1>8. /\ taken'[w] = <<b>> /\ taken' \in [Clients -> Seq(Mail)]
      /\ \A v \in Clients \ {w} : taken'[v] = taken[v]
  BY <1>6 DEF TakeMail, PlacesInv, WsTypeOK
<1>9. /\ mailbox'[w] = Tail(s) /\ mailbox' \in [Clients -> Seq(Mail)]
      /\ \A v \in Clients \ {w} : mailbox'[v] = mailbox[v]
  BY <1>2 DEF TakeMail, PlacesInv, WsTypeOK
<1> HIDE DEF s
<1>10. PICK m \in Mail : m = b
  BY <1>2
<1> HIDE DEF b
<1>11. WsTypeOK'
  <2>1. \A v \in Clients : Len(mailbox'[v]) <= MailboxSize
    <3>1. Len(s) <= MailboxSize
      BY DEF PlacesInv, WsTypeOK, s
    <3>2. Len(Tail(s)) <= MailboxSize
      BY <1>2, <3>1, WsSessionAssumption
    <3> QED BY <1>9, <3>2 DEF PlacesInv, WsTypeOK
  <2> QED BY <1>8, <1>9, <2>1 DEF TakeMail, PlacesInv, WsTypeOK
<1>12. UNCHANGED <<agentQueue, sending, outbox, seen, lost>>
  BY DEF TakeMail
<1>13. Singles'
  BY <1>5, <1>6, <1>8, <1>9, <1>12 DEF PlacesInv, Singles
<1> DEFINE x == <<"mailbox", w>>   y == <<"taken", w>>
<1>14. x \in Places /\ y \in Places /\ x # y
  BY DEF Places, Channels
<1>15. At(x) = MailIn(s) /\ At(x)' = MailIn(Tail(s)) /\ At(y) = {} /\ At(y)' = {m}
  BY <1>6, <1>7, <1>8, <1>9, <1>10 DEF At, s
<1>16. \A z \in Places : z # x /\ z # y => At(z)' = At(z)
  BY <1>8, <1>9, <1>12, PlacesAre
<1> HIDE DEF x, y
<1>17. {m} \subseteq At(x) /\ At(x)' \subseteq At(x) \ {m} /\ At(y)' \subseteq At(y) \cup {m}
  BY <1>5, <1>10, <1>15
<1> QED BY <1>11, <1>13, <1>14, <1>16, <1>17, MoveKeeps

LEMMA DeliverKept == ASSUME PlacesInv, NEW w \in Clients, DeliverMail(w) PROVE PlacesInv'
<1> DEFINE s == taken[w]
<1>1. s \in Seq(Mail) /\ Single(s)
  BY DEF PlacesInv, WsTypeOK, Singles
<1>2. s \in Seq(Messages) /\ <<>> \in Seq(Mail)
  BY <1>1, MailAreMessages
<1>3. /\ taken'[w] = <<>> /\ taken' \in [Clients -> Seq(Mail)]
      /\ \A v \in Clients \ {w} : taken'[v] = taken[v]
  BY <1>2 DEF DeliverMail, PlacesInv, WsTypeOK
<1>4. /\ sending'[w] = s /\ sending' \in [Clients -> Seq(Messages)]
      /\ \A v \in Clients \ {w} : sending'[v] = sending[v]
  BY <1>2 DEF DeliverMail, PlacesInv, WsTypeOK
<1>5. WsTypeOK'
  BY <1>3, <1>4 DEF DeliverMail, PlacesInv, WsTypeOK
<1>6. UNCHANGED <<agentQueue, mailbox, outbox, seen, lost>>
  BY DEF DeliverMail
<1>7. Singles'
  BY <1>1, <1>3, <1>4, <1>6, SingleEmpty DEF PlacesInv, Singles
<1> DEFINE x == <<"taken", w>>   y == <<"sending", w>>
<1>8. x \in Places /\ y \in Places /\ x # y
  BY DEF Places, Channels
<1>9. PICK B : B = MailIn(s)
  OBVIOUS
<1>10. At(x) = B /\ At(x)' = {} /\ At(y)' = B
  BY <1>3, <1>4, <1>9, SingleEmpty DEF At
<1>11. \A z \in Places : z # x /\ z # y => At(z)' = At(z)
  BY <1>3, <1>4, <1>6, PlacesAre
<1> HIDE DEF x, y
<1>12. B \subseteq At(x) /\ At(x)' \subseteq At(x) \ B /\ At(y)' \subseteq At(y) \cup B
  BY <1>10
<1> QED BY <1>5, <1>7, <1>8, <1>11, <1>12, MoveKeeps

LEMMA FetchKept == ASSUME PlacesInv, NEW w \in Clients, NEW e \in Agents, FetchFrom(w, e) PROVE PlacesInv'
<1> DEFINE s == sending[w]   q == agentQueue[e]
<1>1. s \in Seq(Messages) /\ q \in Seq(Mail) /\ Single(s) /\ Single(q)
  BY DEF PlacesInv, WsTypeOK, Singles
<1>2. q \in Seq(Messages) /\ <<>> \in Seq(Mail)
  BY <1>1, MailAreMessages
<1> DEFINE x == <<"agent", e>>   y == <<"sending", w>>
<1>3. x \in Places /\ y \in Places /\ x # y
  BY DEF Places, Channels
<1>4. At(x) = MailIn(q) /\ At(y) = MailIn(s)
  BY DEF At
<1>5. MailIn(s) \cap MailIn(q) = {}
  BY <1>3, <1>4 DEF PlacesInv, Apart
<1>6. s \o q \in Seq(Messages) /\ Single(s \o q) /\ MailIn(s \o q) = MailIn(s) \cup MailIn(q)
  BY <1>1, <1>2, <1>5, SingleConcat
<1>7. /\ agentQueue'[e] = <<>> /\ agentQueue' \in [Agents -> Seq(Mail)]
      /\ \A d \in Agents \ {e} : agentQueue'[d] = agentQueue[d]
  BY <1>2 DEF FetchFrom, PlacesInv, WsTypeOK
<1>8. /\ sending'[w] = s \o q /\ sending' \in [Clients -> Seq(Messages)]
      /\ \A v \in Clients \ {w} : sending'[v] = sending[v]
  BY <1>6 DEF FetchFrom, PlacesInv, WsTypeOK
<1>9. fetching' \in [Clients -> SUBSET Agents]
  BY DEF FetchFrom, PlacesInv, WsTypeOK
<1>10. WsTypeOK'
  BY <1>7, <1>8, <1>9 DEF FetchFrom, PlacesInv, WsTypeOK
<1>11. UNCHANGED <<mailbox, taken, outbox, seen, lost>>
  BY DEF FetchFrom
<1>12. Singles'
  BY <1>6, <1>7, <1>8, <1>11, SingleEmpty DEF PlacesInv, Singles
<1>13. PICK B : B = MailIn(q)
  OBVIOUS
<1>14. At(x) = B /\ At(x)' = {} /\ At(y)' = At(y) \cup B
  <2>1. At(x)' = {}
    BY <1>7, SingleEmpty DEF At
  <2>2. At(y)' = MailIn(s \o q)
    BY <1>8 DEF At
  <2> QED BY <1>4, <1>6, <1>13, <2>1, <2>2
<1>15. \A z \in Places : z # x /\ z # y => At(z)' = At(z)
  BY <1>7, <1>8, <1>11, PlacesAre
<1> HIDE DEF x, y
<1>16. B \subseteq At(x) /\ At(x)' \subseteq At(x) \ B /\ At(y)' \subseteq At(y) \cup B
  BY <1>14
<1> QED BY <1>3, <1>10, <1>12, <1>15, <1>16, MoveKeeps

\* The next message to send, which may be a bundle.
LEMMA NextMessage ==
    ASSUME PlacesInv, NEW w \in Clients, sending[w] # <<>>,
           sending' = [sending EXCEPT ![w] = Tail(@)]
    PROVE  /\ Head(sending[w]) \in Messages
           /\ sending' \in [Clients -> Seq(Messages)] /\ Single(sending'[w])
           /\ \A v \in Clients \ {w} : sending'[v] = sending[v]
           /\ MailIn(sending'[w]) = MailIn(sending[w]) \ {Head(sending[w])}
           /\ {Head(sending[w])} \ {Text} \subseteq MailIn(sending[w])
<1> DEFINE s == sending[w]
<1>1. s \in Seq(Messages) /\ Single(s) /\ s # <<>>
  BY DEF PlacesInv, WsTypeOK, Singles
<1>2. /\ Tail(s) \in Seq(Messages) /\ Head(s) \in Messages /\ Single(Tail(s))
      /\ MailIn(Tail(s)) = MailIn(s) \ {Head(s)} /\ {Head(s)} \ {Text} \subseteq MailIn(s)
  BY <1>1, SingleHead
<1>3. /\ sending'[w] = Tail(s) /\ sending' \in [Clients -> Seq(Messages)]
      /\ \A v \in Clients \ {w} : sending'[v] = sending[v]
  BY <1>2 DEF PlacesInv, WsTypeOK
<1> QED BY <1>2, <1>3

LEMMA SkipKept == ASSUME PlacesInv, NEW w \in Clients, SkipMessage(w) PROVE PlacesInv'
<1>1. PICK m \in Messages : m = Head(sending[w])
  BY NextMessage DEF SkipMessage
<1>2. m \in Mail /\ m # Text
  BY <1>1, WsSessionAssumption DEF SkipMessage, Silent
<1>3. /\ sending' \in [Clients -> Seq(Messages)] /\ Single(sending'[w])
      /\ \A v \in Clients \ {w} : sending'[v] = sending[v]
      /\ MailIn(sending'[w]) = MailIn(sending[w]) \ {m} /\ m \in MailIn(sending[w])
  BY <1>1, <1>2, NextMessage DEF SkipMessage
<1>4. lost' = lost \cup {m}
  BY <1>1 DEF SkipMessage
<1>5. WsTypeOK'
  BY <1>2, <1>3, <1>4 DEF SkipMessage, PlacesInv, WsTypeOK
<1>6. UNCHANGED <<agentQueue, mailbox, taken, outbox, seen>>
  BY DEF SkipMessage
<1>7. Singles'
  BY <1>3, <1>6 DEF PlacesInv, Singles
<1> DEFINE x == <<"sending", w>>   y == <<"lost", 0>>
<1>8. x \in Places /\ y \in Places /\ x # y
  BY DEF Places, Channels
<1>9. /\ At(x) = MailIn(sending[w]) /\ At(x)' = MailIn(sending[w])'
      /\ At(y) = lost /\ At(y)' = lost'
  BY DEF At
<1>10. MailIn(sending[w])' = MailIn(sending'[w])
  BY DEF MailIn
<1>11. \A z \in Places : z # x /\ z # y => At(z)' = At(z)
  BY <1>3, <1>6, PlacesAre
<1> HIDE DEF x, y
<1>12. {m} \subseteq At(x) /\ At(x)' \subseteq At(x) \ {m} /\ At(y)' \subseteq At(y) \cup {m}
  BY <1>3, <1>4, <1>9, <1>10
<1> QED BY <1>5, <1>7, <1>8, <1>11, <1>12, MoveKeeps

LEMMA PutKept == ASSUME PlacesInv, NEW w \in Clients, PutMessage(w) PROVE PlacesInv'
<1>1. PICK m \in Messages : m = Head(sending[w])
  BY NextMessage DEF PutMessage
<1>2. PICK B : B = {m} \ {Text}
  OBVIOUS
<1>3. /\ sending' \in [Clients -> Seq(Messages)] /\ Single(sending'[w])
      /\ \A v \in Clients \ {w} : sending'[v] = sending[v]
      /\ MailIn(sending'[w]) = MailIn(sending[w]) \ {m} /\ B \subseteq MailIn(sending[w])
  BY <1>1, <1>2, NextMessage DEF PutMessage
<1> DEFINE x == <<"sending", w>>   y == <<"outbox", w>>   o == outbox[w]
<1>4. x \in Places /\ y \in Places /\ x # y
  BY DEF Places, Channels
<1>5. At(x) = MailIn(sending[w]) /\ At(y) = MailIn(o)
  BY DEF At
<1>6. o \in Seq(Messages) /\ Single(o) /\ Len(o) < OutboxSize /\ Len(o) \in Nat
  BY LenProperties DEF PutMessage, PlacesInv, WsTypeOK, Singles
<1>7. m \notin MailIn(o)
  <2>1. CASE m = Text
    BY <2>1 DEF MailIn
  <2>2. CASE m # Text
    <3>1. m \in At(x)
      BY <1>2, <1>3, <1>5, <2>2
    <3> QED BY <1>4, <1>5, <3>1 DEF PlacesInv, Apart
  <2> QED BY <2>1, <2>2
<1> DEFINE q == Append(o, m)
<1>8. q \in Seq(Messages) /\ Len(q) = Len(o) + 1 /\ Single(q) /\ MailIn(q) = MailIn(o) \cup B
  BY <1>2, <1>6, <1>7, SingleAppend
<1>9. outbox' = [outbox EXCEPT ![w] = q]
  BY <1>1 DEF PutMessage
<1> HIDE DEF q
<1>10. /\ outbox'[w] = q /\ outbox' \in [Clients -> Seq(Messages)]
       /\ \A v \in Clients \ {w} : outbox'[v] = outbox[v]
  BY <1>8, <1>9 DEF PlacesInv, WsTypeOK
<1>11. WsTypeOK'
  <2>1. Len(q) <= OutboxSize
    BY <1>6, <1>8, WsSessionAssumption
  <2>2. \A v \in Clients : Len(outbox'[v]) <= OutboxSize
    BY <1>10, <2>1 DEF PlacesInv, WsTypeOK
  <2> QED BY <1>3, <1>10, <2>2 DEF PutMessage, PlacesInv, WsTypeOK
<1>12. UNCHANGED <<agentQueue, mailbox, taken, seen, lost>>
  BY DEF PutMessage
<1>13. Singles'
  BY <1>3, <1>8, <1>10, <1>12 DEF PlacesInv, Singles
<1>14. At(x)' = MailIn(sending'[w]) /\ At(y)' = MailIn(q)
  BY <1>10 DEF At, MailIn
<1>15. \A z \in Places : z # x /\ z # y => At(z)' = At(z)
  BY <1>3, <1>10, <1>12, PlacesAre
<1> HIDE DEF x, y
<1>16. B \subseteq At(x) /\ At(x)' \subseteq At(x) \ B /\ At(y)' \subseteq At(y) \cup B
  BY <1>2, <1>3, <1>5, <1>8, <1>14
<1> QED BY <1>4, <1>11, <1>13, <1>15, <1>16, MoveKeeps

LEMMA ToClientKept == ASSUME PlacesInv, NEW w \in Clients, ToClient(w) PROVE PlacesInv'
<1> DEFINE s == outbox[w]
<1>1. s \in Seq(Messages) /\ Single(s) /\ s # <<>> /\ Len(s) \in Nat
  BY LenProperties DEF ToClient, PlacesInv, WsTypeOK, Singles
<1>2. /\ Tail(s) \in Seq(Messages) /\ Head(s) \in Messages /\ Single(Tail(s)) /\ Len(Tail(s)) = Len(s) - 1
      /\ MailIn(Tail(s)) = MailIn(s) \ {Head(s)} /\ {Head(s)} \ {Text} \subseteq MailIn(s)
  BY <1>1, SingleHead
<1>3. PICK B : B = {Head(s)} \ {Text}
  OBVIOUS
<1>4. B \subseteq Mail /\ MailIn(Tail(s)) \subseteq MailIn(s) \ B /\ B \subseteq MailIn(s)
  BY <1>2, <1>3 DEF Messages
<1>5. /\ outbox'[w] = Tail(s) /\ outbox' \in [Clients -> Seq(Messages)]
      /\ \A v \in Clients \ {w} : outbox'[v] = outbox[v]
  BY <1>2 DEF ToClient, PlacesInv, WsTypeOK
<1>6. /\ seen'[w] = seen[w] \cup B /\ seen' \in [Clients -> SUBSET Mail]
      /\ \A v \in Clients \ {w} : seen'[v] = seen[v]
  BY <1>3, <1>4 DEF ToClient, PlacesInv, WsTypeOK
<1>7. WsTypeOK'
  <2>1. Len(s) <= OutboxSize
    BY DEF PlacesInv, WsTypeOK
  <2> HIDE DEF s
  <2>2. Len(Tail(s)) <= OutboxSize
    BY <1>1, <1>2, <2>1, WsSessionAssumption
  <2>3. \A v \in Clients : Len(outbox'[v]) <= OutboxSize
    BY <1>5, <2>2 DEF PlacesInv, WsTypeOK
  <2> QED BY <1>5, <1>6, <2>3 DEF ToClient, PlacesInv, WsTypeOK
<1>8. UNCHANGED <<agentQueue, mailbox, taken, sending, lost>>
  BY DEF ToClient
<1>9. Singles'
  BY <1>2, <1>5, <1>8 DEF PlacesInv, Singles
<1> DEFINE x == <<"outbox", w>>   y == <<"seen", w>>
<1>10. x \in Places /\ y \in Places /\ x # y
  BY DEF Places, Channels
<1>11. At(x) = MailIn(s) /\ At(x)' = MailIn(Tail(s)) /\ At(y) = seen[w] /\ At(y)' = seen[w] \cup B
  BY <1>5, <1>6 DEF At
<1>12. \A z \in Places : z # x /\ z # y => At(z)' = At(z)
  BY <1>5, <1>6, <1>8, PlacesAre
<1> HIDE DEF x, y
<1>13. B \subseteq At(x) /\ At(x)' \subseteq At(x) \ B /\ At(y)' \subseteq At(y) \cup B
  BY <1>4, <1>11
<1> QED BY <1>7, <1>9, <1>10, <1>12, <1>13, MoveKeeps

LEMMA PingKept == ASSUME PlacesInv, NEW w \in Clients, Ping(w) PROVE PlacesInv'
<1> DEFINE o == outbox[w]   q == Append(o, Text)
<1>1. o \in Seq(Messages) /\ Single(o) /\ Len(o) < OutboxSize /\ Len(o) \in Nat /\ Text \notin MailIn(o) /\ Text \in Messages
  BY LenProperties DEF Ping, PlacesInv, WsTypeOK, Singles, MailIn, Messages
<1>2. q \in Seq(Messages) /\ Len(q) = Len(o) + 1 /\ Single(q) /\ MailIn(q) = MailIn(o)
  BY <1>1, SingleAppend
<1>3. outbox' = [outbox EXCEPT ![w] = q]
  BY DEF Ping
<1> HIDE DEF q
<1>4. /\ outbox'[w] = q /\ outbox' \in [Clients -> Seq(Messages)]
      /\ \A v \in Clients \ {w} : outbox'[v] = outbox[v]
  BY <1>2, <1>3 DEF PlacesInv, WsTypeOK
<1>5. WsTypeOK'
  <2>1. Len(q) <= OutboxSize
    BY <1>1, <1>2, WsSessionAssumption
  <2>2. \A v \in Clients : Len(outbox'[v]) <= OutboxSize
    BY <1>4, <2>1 DEF PlacesInv, WsTypeOK
  <2> QED BY <1>4, <2>2 DEF Ping, PlacesInv, WsTypeOK
<1>6. UNCHANGED <<agentQueue, mailbox, taken, sending, seen, lost>>
  BY DEF Ping
<1>7. Singles'
  BY <1>2, <1>4, <1>6 DEF PlacesInv, Singles
<1>8. \A x \in Places : At(x)' = At(x)
  BY <1>2, <1>4, <1>6, PlacesAre
<1> QED BY <1>5, <1>7, <1>8 DEF PlacesInv, Apart

LEMMA EndKept == ASSUME PlacesInv, NEW w \in Clients, EndSession(w) PROVE PlacesInv'
<1>1. <<>> \in Seq(Mail) /\ <<>> \in Seq(Messages) /\ Len(<<>>) = 0
  BY EmptySeq
<1>2. /\ mailbox'[w] = <<>> /\ mailbox' \in [Clients -> Seq(Mail)]
      /\ \A v \in Clients \ {w} : mailbox'[v] = mailbox[v]
  BY <1>1 DEF EndSession, PlacesInv, WsTypeOK
<1>3. /\ taken'[w] = <<>> /\ taken' \in [Clients -> Seq(Mail)]
      /\ \A v \in Clients \ {w} : taken'[v] = taken[v]
  BY <1>1 DEF EndSession, PlacesInv, WsTypeOK
<1>4. /\ sending'[w] = <<>> /\ sending' \in [Clients -> Seq(Messages)]
      /\ \A v \in Clients \ {w} : sending'[v] = sending[v]
  BY <1>1 DEF EndSession, PlacesInv, WsTypeOK
<1>5. /\ outbox'[w] = <<>> /\ outbox' \in [Clients -> Seq(Messages)]
      /\ \A v \in Clients \ {w} : outbox'[v] = outbox[v]
  BY <1>1 DEF EndSession, PlacesInv, WsTypeOK
<1>6. PICK B : B = InSession(w)
  OBVIOUS
<1>7. B \subseteq Mail
  <2>1. MailIn(mailbox[w]) \subseteq Mail /\ MailIn(taken[w]) \subseteq Mail
    BY MailAreMessages DEF PlacesInv, WsTypeOK
  <2>2. ASSUME NEW s \in Seq(Messages) PROVE MailIn(s) \subseteq Mail
    BY LenProperties, ElementOfSeq DEF MailIn, Messages
  <2> QED BY <1>6, <2>1, <2>2 DEF InSession, PlacesInv, WsTypeOK
<1>8. lost' = lost \cup B
  BY <1>6 DEF EndSession
<1>9. WsTypeOK'
  <2>1. 0 <= MailboxSize /\ 0 <= OutboxSize
    BY WsSessionAssumption
  <2>2. \A v \in Clients : Len(mailbox'[v]) <= MailboxSize /\ Len(outbox'[v]) <= OutboxSize
    BY <1>1, <1>2, <1>5, <2>1 DEF PlacesInv, WsTypeOK
  <2>3. /\ status' \in [Clients -> {"new", "on", "ending", "ended"}]
        /\ delivery' \in [Agents -> Clients \cup {Nobody}]
        /\ mutex' \in [Clients -> {"free", "reply", "subscribe", "fetch", "deliver"}]
        /\ fetching' \in [Clients -> SUBSET Agents]
    BY DEF EndSession, PlacesInv, WsTypeOK
  <2> QED BY <1>2, <1>3, <1>4, <1>5, <1>7, <1>8, <2>2, <2>3 DEF EndSession, PlacesInv, WsTypeOK
<1>10. UNCHANGED <<agentQueue, seen>>
  BY DEF EndSession
<1>11. Singles'
  BY <1>2, <1>3, <1>4, <1>5, <1>10, SingleEmpty DEF PlacesInv, Singles
<1> DEFINE y == <<"lost", 0>>
<1>12. y \in Places /\ At(y)' = At(y) \cup B
  BY <1>8 DEF At, Places
<1> DEFINE Own == {<<"mailbox", w>>, <<"taken", w>>, <<"sending", w>>, <<"outbox", w>>}
<1>13. /\ Own \subseteq Places /\ y \notin Own
       /\ B = At(<<"mailbox", w>>) \cup At(<<"taken", w>>) \cup At(<<"sending", w>>) \cup At(<<"outbox", w>>)
  BY <1>6 DEF InSession, At, Places, Channels
<1>14. ASSUME NEW x \in Places, x # y PROVE IF x \in Own THEN At(x)' = {} ELSE At(x)' = At(x)
  <2>1. MailIn(<<>>) = {}
    BY SingleEmpty
  <2>2. ASSUME NEW v \in Clients, x = <<"mailbox", v>>, At(x) = MailIn(mailbox[v]),
               At(x)' = MailIn(mailbox'[v])
        PROVE  IF x \in Own THEN At(x)' = {} ELSE At(x)' = At(x)
    BY <1>2, <2>1, <2>2
  <2>3. ASSUME NEW v \in Clients, x = <<"taken", v>>, At(x) = MailIn(taken[v]),
               At(x)' = MailIn(taken'[v])
        PROVE  IF x \in Own THEN At(x)' = {} ELSE At(x)' = At(x)
    BY <1>3, <2>1, <2>3
  <2>4. ASSUME NEW v \in Clients, x = <<"sending", v>>, At(x) = MailIn(sending[v]),
               At(x)' = MailIn(sending'[v])
        PROVE  IF x \in Own THEN At(x)' = {} ELSE At(x)' = At(x)
    BY <1>4, <2>1, <2>4
  <2>5. ASSUME NEW v \in Clients, x = <<"outbox", v>>, At(x) = MailIn(outbox[v]),
               At(x)' = MailIn(outbox'[v])
        PROVE  IF x \in Own THEN At(x)' = {} ELSE At(x)' = At(x)
    BY <1>5, <2>1, <2>5
  <2>6. ASSUME NEW e \in Agents, x = <<"agent", e>>, At(x) = MailIn(agentQueue[e]),
               At(x)' = MailIn(agentQueue'[e])
        PROVE  IF x \in Own THEN At(x)' = {} ELSE At(x)' = At(x)
    BY <1>10, <2>6
  <2>7. ASSUME NEW v \in Clients, x = <<"seen", v>>, At(x) = seen[v], At(x)' = seen'[v]
        PROVE  IF x \in Own THEN At(x)' = {} ELSE At(x)' = At(x)
    BY <1>10, <2>7
  <2> HIDE DEF Own
  <2> QED BY <1>14, <2>2, <2>3, <2>4, <2>5, <2>6, <2>7, PlacesAre
<1>15. ASSUME NEW x \in Places, x # y PROVE At(x)' \subseteq At(x) /\ At(x)' \cap B = {}
  <2>1. CASE x \in Own
    BY <1>14, <1>15, <2>1
  <2>2. CASE x \notin Own
    <3>1. At(x)' = At(x)
      BY <1>14, <1>15, <2>2
    <3>2. \A u \in Own : At(x) \cap At(u) = {}
      BY <1>13, <2>2 DEF PlacesInv, Apart
    <3> QED BY <1>13, <3>1, <3>2
  <2> QED BY <2>1, <2>2
<1> HIDE DEF y
<1>16. Apart'
  BY <1>12, <1>15, ApartKeeps DEF PlacesInv
<1> QED BY <1>9, <1>11, <1>16 DEF PlacesInv

LEMMA QuietKept ==
    ASSUME PlacesInv, NEW w \in Clients,
           \/ OpenSocket(w) \/ Reflush(w) \/ Finish(w) \/ Heartbeat(w)
           \/ BecomeOverdue(w) \/ Stall(w) \/ Hangup(w)
    PROVE  PlacesInv'
<1>1. UNCHANGED <<agentQueue, mailbox, taken, sending, outbox, seen, lost>>
  BY DEF OpenSocket, Reflush, Finish, Heartbeat, BecomeOverdue, Stall, Hangup
<1>2. WsTypeOK'
  <2>1. CASE OpenSocket(w) \/ Heartbeat(w) \/ Hangup(w)
    BY <2>1 DEF OpenSocket, Heartbeat, Hangup, PlacesInv, WsTypeOK
  <2>2. CASE Reflush(w) \/ Finish(w)
    <3>1. mutex' \in [Clients -> {"free", "reply", "subscribe", "fetch", "deliver"}]
      BY <2>2 DEF Reflush, Finish, PlacesInv, WsTypeOK
    <3>2. fetching' \in [Clients -> SUBSET Agents]
      <4>1. endpoints[w] \in SUBSET Agents /\ fetching \in [Clients -> SUBSET Agents]
        BY DEF PlacesInv, WsTypeOK
      <4>2. fetching' = [fetching EXCEPT ![w] = endpoints[w]] \/ fetching' = fetching
        BY <2>2 DEF Reflush, Finish
      <4> QED BY <4>1, <4>2
    <3>3. UNCHANGED <<cast, delivery, status, endpoints, ever, sent, mode, heartbeat, overdue, stalled>>
      BY <2>2 DEF Reflush, Finish
    <3> QED BY <1>1, <3>1, <3>2, <3>3 DEF PlacesInv, WsTypeOK
  <2>3. CASE BecomeOverdue(w) \/ Stall(w)
    BY <2>3 DEF BecomeOverdue, Stall, PlacesInv, WsTypeOK
  <2> QED BY <2>1, <2>2, <2>3
<1> QED BY <1>1, <1>2, NothingMoved

LEMMA AnswerKept ==
    ASSUME PlacesInv, NEW w \in Clients,
           \/ SignOfLife(w) \/ \E m \in Modes : Command(w, m)
           \/ \E e \in Agents : UnsubscribeFrom(w, e) \/ \E f \in BOOLEAN : SubscribeTo(w, e, f)
    PROVE  PlacesInv'
<1>1. UNCHANGED <<agentQueue, mailbox, taken, outbox, seen, lost>>
  BY DEF SignOfLife, Command, UnsubscribeFrom, SubscribeTo
<1>2. sending' = [sending EXCEPT ![w] = <<Text>>] \/ UNCHANGED sending
  BY DEF SignOfLife, Command, UnsubscribeFrom, SubscribeTo, Replying
<1>3. sending' \in [Clients -> Seq(Messages)]
  <2>1. <<Text>> \in Seq(Messages)
    BY DEF Messages
  <2> QED BY <1>2, <2>1 DEF PlacesInv, WsTypeOK
<1>4. sent' \in [Clients -> Nat]
  <2>1. sent \in [Clients -> Nat]
    BY DEF PlacesInv, WsTypeOK
  <2>2. sent' = [sent EXCEPT ![w] = sent[w] + 1] /\ sent[w] + 1 \in Nat
    BY <2>1 DEF SignOfLife, Command, UnsubscribeFrom, SubscribeTo, Handle
  <2> QED BY <2>1, <2>2
<1>5. WsTypeOK'
  <2>1. CASE SignOfLife(w)
    BY <1>1, <1>3, <1>4, <2>1 DEF SignOfLife, Replying, PlacesInv, WsTypeOK
  <2>2. CASE \E m \in Modes : Command(w, m)
    BY <1>1, <1>3, <1>4, <2>2 DEF Command, Replying, PlacesInv, WsTypeOK
  <2>3. CASE \E e \in Agents : UnsubscribeFrom(w, e)
    BY <1>1, <1>3, <1>4, <2>3 DEF UnsubscribeFrom, Replying, PlacesInv, WsTypeOK
  <2>4. CASE \E e \in Agents, f \in BOOLEAN : SubscribeTo(w, e, f)
    BY <1>1, <1>3, <1>4, <2>4 DEF SubscribeTo, Replying, PlacesInv, WsTypeOK
  <2> QED BY <2>1, <2>2, <2>3, <2>4
<1>6. CASE sending' = [sending EXCEPT ![w] = <<Text>>]
  BY <1>1, <1>5, <1>6, ReplyingKeeps
<1>7. CASE UNCHANGED sending
  BY <1>1, <1>5, <1>7, NothingMoved
<1> QED BY <1>2, <1>6, <1>7

LEMMA PlacesNext == ASSUME PlacesInv, [WsNext]_wsVars PROVE PlacesInv'
<1>1. CASE \E b \in Mail : AgentPush(b)
  BY <1>1, PushKept
<1>2. ASSUME NEW w \in Clients,
             \/ OpenSocket(w) \/ Reflush(w) \/ Finish(w) \/ Heartbeat(w)
             \/ BecomeOverdue(w) \/ Stall(w) \/ Hangup(w)
      PROVE  PlacesInv'
  BY <1>2, QuietKept
<1>3. ASSUME NEW w \in Clients,
             \/ SignOfLife(w) \/ \E m \in Modes : Command(w, m)
             \/ \E e \in Agents : UnsubscribeFrom(w, e) \/ \E f \in BOOLEAN : SubscribeTo(w, e, f)
      PROVE  PlacesInv'
  BY <1>3, AnswerKept
<1>4. ASSUME NEW w \in Clients,
             \/ TakeMail(w) \/ DeliverMail(w) \/ SkipMessage(w) \/ PutMessage(w) \/ ToClient(w)
             \/ Ping(w) \/ EndSession(w) \/ \E e \in Agents : FetchFrom(w, e)
      PROVE  PlacesInv'
  BY <1>4, TakeKept, DeliverKept, SkipKept, PutKept, ToClientKept, PingKept, EndKept, FetchKept
<1>5. CASE UNCHANGED wsVars
  <2>1. UNCHANGED <<agentQueue, mailbox, taken, sending, outbox, seen, lost>>
    BY <1>5 DEF wsVars
  <2>2. WsTypeOK'
    BY <1>5 DEF wsVars, PlacesInv, WsTypeOK
  <2> QED BY <2>1, <2>2, NothingMoved
<1> QED BY <1>1, <1>2, <1>3, <1>4, <1>5 DEF WsNext, WsHolder

\* Whatever the numbers of clients, agents and bundles and the sizes of the channels,
\* the places of the bundles are told apart.
LEMMA PlacesInvariant == WsSpec => []PlacesInv
BY PlacesInit, PlacesNext, PTL DEF WsSpec

LEMMA ApartIsOnePlace == ASSUME PlacesInv PROVE OnePlace
<1>1. Apart
  BY DEF PlacesInv
<1> DEFINE Session(w) == {<<"mailbox", w>>, <<"taken", w>>, <<"sending", w>>, <<"outbox", w>>}
<1>2. ASSUME NEW w \in Clients PROVE
        /\ \A x \in Session(w) \cup {<<"seen", w>>} : x \in Places
        /\ \A b \in InSession(w) : \E x \in Session(w) : b \in At(x)
        /\ At(<<"seen", w>>) = seen[w]
  BY PlacesOf DEF InSession
<1>3. /\ \A b \in Addressed : \E e \in Agents : <<"agent", e>> \in Places /\ b \in At(<<"agent", e>>)
      /\ <<"lost", 0>> \in Places /\ At(<<"lost", 0>>) = lost
  BY PlacesOf DEF Addressed
<1>4. \A x, y \in Places : \A b : b \in At(x) /\ b \in At(y) => x = y
  BY <1>1 DEF Apart
<1>5. /\ \A w, v \in Clients : \A x \in Session(w) \cup {<<"seen", w>>}, y \in Session(v) \cup {<<"seen", v>>} :
            w # v => x # y
      /\ \A w \in Clients : \A x \in Session(w) : x # <<"seen", w>>
      /\ \A w \in Clients : \A x \in Session(w) \cup {<<"seen", w>>} :
            x # <<"lost", 0>> /\ \A e \in Agents : x # <<"agent", e>>
      /\ \A e \in Agents : <<"agent", e>> # <<"lost", 0>>
  OBVIOUS
<1> HIDE DEF Session
<1>6. ASSUME NEW w \in Clients, NEW b \in InSession(w) \cup seen[w]
      PROVE  \E x \in Session(w) \cup {<<"seen", w>>} : x \in Places /\ b \in At(x)
  BY <1>2
<1>7. ASSUME NEW w \in Clients, NEW b \in Mail, b \in InSession(w) \cup seen[w]
      PROVE  /\ b \notin Addressed \cup lost
             /\ \A v \in Clients \ {w} : b \notin InSession(v) \cup seen[v]
             /\ ~(b \in InSession(w) /\ b \in seen[w])
  <2>1. PICK x \in Session(w) \cup {<<"seen", w>>} : x \in Places /\ b \in At(x)
    BY <1>6, <1>7
  <2>2. b \notin Addressed \cup lost
    BY <1>3, <1>4, <1>5, <2>1, ZenonT(30)
  <2>3. ASSUME NEW v \in Clients \ {w}, b \in InSession(v) \cup seen[v] PROVE FALSE
    <3>1. PICK y \in Session(v) \cup {<<"seen", v>>} : y \in Places /\ b \in At(y)
      BY <1>6, <2>3
    <3> QED BY <1>4, <1>5, <2>1, <3>1
  <2>4. ~(b \in InSession(w) /\ b \in seen[w])
    <3> SUFFICES ASSUME b \in InSession(w), b \in seen[w] PROVE FALSE
      OBVIOUS
    <3>1. PICK y \in Session(w) : b \in At(y)
      BY <1>2
    <3>2. <<"seen", w>> \in Places /\ y \in Places /\ b \in At(<<"seen", w>>)
      BY <1>2
    <3> QED BY <1>4, <1>5, <3>1, <3>2
  <2> QED BY <2>2, <2>3, <2>4
<1>8. Addressed \cap lost = {}
  BY <1>3, <1>4, <1>5, ZenonT(30)
<1> QED BY <1>7, <1>8 DEF OnePlace

\* A bundle that an agent was handed is never with two sessions, nor in a session and
\* with its client, nor back in the agent's queue, nor both lost and on its way.
THEOREM OnePlaceAlways == WsSpec => []OnePlace
BY PlacesInvariant, ApartIsOnePlace, PTL

------------------------------------------------------------------------------
(***************************************************************************)
(* The bundle stores: types, the agreement of the two trees, and that      *)
(* every store implements StoreContract.                                   *)
(***************************************************************************)

\* The inductive invariant.

\* A write is under way in the stores that have writes of two parts.
WriteInv ==
    \/ write = <<>>
    \/ \E i \in DOMAIN metadata :
          \/ write = <<"push", i>> /\ backend = "sled" /\ i \notin bundles /\ metadata[i] = {}
          \/ write = <<"remove", i>> /\ backend \in {"sled", "sneakers"} /\ i \in removed

\* Every stored bundle has metadata; in the sneakers store they go together.
MetadataInv ==
    /\ bundles \subseteq DOMAIN metadata
    /\ backend = "sneakers" => DOMAIN metadata = bundles

\* TreesAgree, and during a write for every id but the one that is written.
TreesInv ==
    \A i \in DOMAIN metadata \ torn :
        \/ i \in bundles /\ "Deleted" \notin metadata[i]
        \/ i \notin bundles /\ i \in removed
        \/ ~Unlocked /\ i = write[2]

StoresInv == StoresTypeOK /\ WriteInv /\ MetadataInv /\ TreesInv

------------------------------------------------------------------------------
\* What the operations of a store do.

\* HashMap::insert.
LEMMA PutFacts ==
    ASSUME NEW k, NEW v, metadata' = Put(metadata, k, v)
    PROVE  /\ DOMAIN metadata' = DOMAIN metadata \cup {k}
           /\ metadata'[k] = v
           /\ \A x \in DOMAIN metadata : x # k => metadata'[x] = metadata[x]
BY DEF Put

\* A value of the right type keeps the metadata well typed.
LEMMA PutType ==
    ASSUME StoreTypeOK, NEW i \in Ids, NEW c \in SUBSET Constraint
    PROVE  /\ DOMAIN Put(metadata, i, c) \subseteq Ids
           /\ Put(metadata, i, c) \in [DOMAIN Put(metadata, i, c) -> SUBSET Constraint]
BY DEF StoreTypeOK, Put

\* An empty write is not one that is under way, and a pair has its parts.
LEMMA WriteFacts ==
    /\ <<>> \notin {"push"} \X Ids
    /\ \A i : <<"push", i>> # <<>> /\ <<"remove", i>> # <<>>
    /\ \A i \in Ids : <<"push", i>> \in {"push"} \X Ids
    /\ \A i : <<"remove", i>> \notin {"push"} \X Ids
    /\ \A i : <<"push", i>>[2] = i /\ <<"remove", i>>[2] = i
    /\ \A i : <<"push", i>>[1] = "push" /\ <<"remove", i>>[1] = "remove"
OBVIOUS

\* The mark of a removed bundle.
LEMMA TombstoneFacts ==
    ASSUME StoreTypeOK, NEW i \in DOMAIN metadata
    PROVE  /\ DOMAIN Tombstone(i) = DOMAIN metadata
           /\ Tombstone(i) \in [DOMAIN metadata -> SUBSET Constraint]
           /\ \A x \in DOMAIN metadata : x # i => Tombstone(i)[x] = metadata[x]
BY DEF StoreTypeOK, Tombstone, Put, ClearConstraints, Constraint

------------------------------------------------------------------------------
\* Every action keeps the invariant.

\* store_add_bundle_if_unknown and the second store_push_bundle of receive().
LEMMA PushKeepsInv ==
    ASSUME StoresInv, NEW i \in Ids, Unlocked, StorePush(i),
           receiving' \subseteq Ids,
           UNCHANGED <<backend, deleted, restarts, removed, torn>>
    PROVE  StoresInv'
<1>1. CASE bundles' = bundles /\ metadata' = metadata /\ write' = write
    BY <1>1 DEF StoresInv, StoresTypeOK, StoreTypeOK, WriteInv, MetadataInv, TreesInv, Unlocked
<1>2. CASE /\ backend = "sled" /\ i \notin bundles /\ i \notin DOMAIN metadata
           /\ metadata' = Put(metadata, i, {})
           /\ write' = <<"push", i>>
           /\ bundles' = bundles
    <2>0. /\ DOMAIN metadata' = DOMAIN metadata \cup {i}
          /\ metadata'[i] = {}
          /\ \A x \in DOMAIN metadata : x # i => metadata'[x] = metadata[x]
        BY <1>2, PutFacts
    <2>1. StoresTypeOK'
        BY <1>2, PutType DEF StoresInv, StoresTypeOK, StoreTypeOK
    <2>2. WriteInv'
        BY <1>2, <2>0 DEF WriteInv
    <2>3. MetadataInv'
        BY <1>2, <2>0 DEF StoresInv, MetadataInv
    <2>4. TreesInv'
        BY <1>2, <2>0, WriteFacts DEF StoresInv, TreesInv, Unlocked
    <2>5. QED
        BY <2>1, <2>2, <2>3, <2>4 DEF StoresInv
<1>3. CASE /\ i \notin bundles
           /\ backend # "sled"
           /\ metadata' = Put(metadata, i, {})
           /\ write' = write
           /\ bundles' = bundles \cup {i}
    <2>0. /\ DOMAIN metadata' = DOMAIN metadata \cup {i}
          /\ metadata'[i] = {}
          /\ \A x \in DOMAIN metadata : x # i => metadata'[x] = metadata[x]
        BY <1>3, PutFacts
    <2>1. StoresTypeOK'
        BY <1>3, PutType DEF StoresInv, StoresTypeOK, StoreTypeOK
    <2>2. WriteInv' /\ MetadataInv'
        BY <1>3, <2>0 DEF StoresInv, MetadataInv, WriteInv, Unlocked
    <2>3. TreesInv'
        BY <1>3, <2>0 DEF StoresInv, TreesInv, Unlocked
    <2>4. QED
        BY <2>1, <2>2, <2>3 DEF StoresInv
<1>4. CASE /\ i \in bundles
           /\ backend # "sled"
           /\ metadata' = metadata
           /\ write' = write
           /\ bundles' = bundles \cup {i}
    <2>1. bundles' = bundles
        BY <1>4
    <2>2. QED
        BY <1>1, <1>4, <2>1
<1>5. QED
    BY <1>1, <1>2, <1>3, <1>4 DEF StorePush, SledPush, SneakersPush, Push, HasItem

\* store_update_metadata.
LEMMA WriteConstraintsKeepsInv ==
    ASSUME StoresInv, NEW i \in Ids, NEW c \in Written, WriteConstraints(i, c)
    PROVE  StoresInv' /\ DOMAIN metadata' = DOMAIN metadata
<1>1. metadata' = Put(metadata, i, c) /\ bundles' = bundles /\ i \in DOMAIN metadata
    BY DEF WriteConstraints, UpdateMetadata, IsKnown
<1>2. c \in SUBSET Constraint /\ "Deleted" \notin c
    BY DEF Written, Constraint
<1>3. /\ DOMAIN metadata' = DOMAIN metadata
      /\ metadata'[i] = c
      /\ \A x \in DOMAIN metadata : x # i => metadata'[x] = metadata[x]
    BY <1>1, PutFacts
<1>4. StoresTypeOK'
    BY <1>1, <1>2, PutType DEF StoresInv, StoresTypeOK, StoreTypeOK, WriteConstraints
<1>5. WriteInv' /\ MetadataInv'
    BY <1>1, <1>3 DEF StoresInv, WriteInv, MetadataInv, WriteConstraints, Unlocked
<1>6. TreesInv'
    BY <1>1, <1>2, <1>3 DEF StoresInv, TreesInv, WriteConstraints, Unlocked
<1>7. QED
    BY <1>3, <1>4, <1>5, <1>6 DEF StoresInv

\* store_remove, and its first half in the durable stores.
LEMMA RemoveBundleKeepsInv ==
    ASSUME StoresInv, NEW i \in Ids, RemoveBundle(i)
    PROVE  StoresInv' /\ DOMAIN metadata' = DOMAIN metadata
<1> USE DEF StoresInv, RemoveBundle
<1>1. i \in DOMAIN metadata /\ metadata' = Tombstone(i)
    BY DEF StoreRemove, Remove, IsKnown, Tombstone
<1>2. /\ DOMAIN metadata' = DOMAIN metadata
      /\ metadata' \in [DOMAIN metadata -> SUBSET Constraint]
      /\ \A x \in DOMAIN metadata : x # i => metadata'[x] = metadata[x]
    BY <1>1, TombstoneFacts DEF StoresTypeOK
<1>3. CASE backend = "mem" /\ bundles' = bundles \ {i} /\ write' = write
    <2>1. StoresTypeOK'
        BY <1>2, <1>3 DEF StoresTypeOK, StoreTypeOK
    <2>2. WriteInv' /\ MetadataInv'
        BY <1>2, <1>3 DEF WriteInv, MetadataInv, Unlocked
    <2>3. TreesInv'
        BY <1>1, <1>2, <1>3 DEF TreesInv, Unlocked
    <2>4. QED
        BY <1>2, <2>1, <2>2, <2>3
<1>4. CASE backend \in {"sled", "sneakers"} /\ bundles' = bundles /\ write' = <<"remove", i>>
    <2>1. StoresTypeOK'
        BY <1>2, <1>4 DEF StoresTypeOK, StoreTypeOK
    <2>2. WriteInv' /\ MetadataInv'
        BY <1>1, <1>2, <1>4 DEF WriteInv, MetadataInv
    <2>3. TreesInv'
        BY <1>1, <1>2, <1>4, WriteFacts DEF TreesInv, Unlocked
    <2>4. QED
        BY <1>2, <2>1, <2>2, <2>3
<1>5. QED
    BY <1>1, <1>3, <1>4 DEF StoreRemove, Remove, IsKnown

\* The second half of a push.
LEMMA FinishPushKeepsInv ==
    ASSUME StoresInv, FinishPush
    PROVE  StoresInv'
<1> USE DEF StoresInv, FinishPush
<1>1. PICK i \in DOMAIN metadata :
          write = <<"push", i>> /\ backend = "sled" /\ i \notin bundles /\ metadata[i] = {}
    BY WriteFacts DEF WriteInv, Unlocked
<1>2. bundles' = bundles \cup {i} /\ metadata' = metadata /\ write' = <<>>
    BY <1>1, WriteFacts
<1>3. StoresTypeOK' /\ WriteInv' /\ MetadataInv'
    BY <1>1, <1>2 DEF StoresTypeOK, StoreTypeOK, WriteInv, MetadataInv
<1>4. TreesInv'
    BY <1>1, <1>2, WriteFacts DEF TreesInv, Unlocked
<1>5. QED
    BY <1>3, <1>4

\* The second half of a removal.
LEMMA FinishRemoveKeepsInv ==
    ASSUME StoresInv, FinishRemove
    PROVE  StoresInv'
<1> USE DEF StoresInv, FinishRemove
<1>1. PICK i \in DOMAIN metadata :
          write = <<"remove", i>> /\ backend \in {"sled", "sneakers"} /\ i \in removed
    BY WriteFacts DEF WriteInv, Unlocked
<1>2. /\ bundles' = bundles \ {i} /\ write' = <<>>
      /\ metadata' = IF backend = "sneakers"
                     THEN [x \in DOMAIN metadata \ {i} |-> metadata[x]] ELSE metadata
      /\ deleted' = IF backend = "sneakers" THEN deleted \cup {i} ELSE deleted
    BY <1>1, WriteFacts
<1>3. StoresTypeOK'
    BY <1>1, <1>2 DEF StoresTypeOK, StoreTypeOK
<1>4. WriteInv' /\ MetadataInv'
    BY <1>1, <1>2 DEF WriteInv, MetadataInv
<1>5. TreesInv'
    BY <1>1, <1>2, WriteFacts DEF TreesInv, Unlocked
<1>6. QED
    BY <1>3, <1>4, <1>5

\* A crash between two writes leaves the id torn.
LEMMA CrashKeepsInv ==
    ASSUME StoresInv, CrashAndRestart
    PROVE  StoresInv'
<1> USE DEF StoresInv, CrashAndRestart
<1>1. ~Unlocked => write[2] \in Ids
    BY DEF StoresTypeOK, Unlocked
<1>2. StoresTypeOK'
    BY <1>1, StoresAssumption DEF StoresTypeOK, StoreTypeOK
<1>3. WriteInv' /\ MetadataInv'
    BY DEF WriteInv, MetadataInv
<1>4. TreesInv'
    BY DEF TreesInv, Unlocked
<1>5. QED
    BY <1>2, <1>3, <1>4

\* The invariant of every reachable state.
LEMMA StoresBegin == StoresInit => StoresInv
BY StoresAssumption DEF StoresInit, StoreInit, StoresInv, StoresTypeOK, StoreTypeOK,
   WriteInv, MetadataInv, TreesInv

LEMMA StoresStep == StoresInv /\ [StoresNext]_storesVars => StoresInv'
<1> SUFFICES ASSUME StoresInv, [StoresNext]_storesVars
             PROVE  StoresInv'
    OBVIOUS
<1>1. ASSUME NEW i \in Ids, AddIfUnknown(i)
      PROVE  StoresInv'
    <2>1. receiving' \subseteq Ids
        BY <1>1 DEF AddIfUnknown, StoresInv, StoresTypeOK
    <2>2. QED
        BY <1>1, <2>1, PushKeepsInv DEF AddIfUnknown
<1>2. ASSUME NEW i \in Ids, PushReceived(i)
      PROVE  StoresInv'
    <2>1. receiving' \subseteq Ids
        BY <1>2 DEF PushReceived, StoresInv, StoresTypeOK
    <2>2. QED
        BY <1>2, <2>1, PushKeepsInv DEF PushReceived
<1>3. CASE UNCHANGED storesVars
    BY <1>3 DEF storesVars, StoresInv, StoresTypeOK, StoreTypeOK, WriteInv, MetadataInv,
        TreesInv, Unlocked
<1>4. QED
    BY <1>1, <1>2, <1>3, WriteConstraintsKeepsInv, RemoveBundleKeepsInv, FinishPushKeepsInv,
        FinishRemoveKeepsInv, CrashKeepsInv DEF StoresNext

LEMMA StoresInvariant == StoresSpec => []StoresInv
BY StoresBegin, StoresStep, PTL DEF StoresSpec

------------------------------------------------------------------------------
\* Every action is a step of the contract.

\* The store the caller sees.
Seen == IF write \in {"push"} \X Ids THEN Known \ {write[2]} ELSE Known

\* The contract takes a step, or nothing that it knows of changes.
ContractStep == [Contract!ContractNext]_(Contract!contractVars)

\* Between writes all known ids are seen.
LEMMA SeenUnlocked ==
    ASSUME Unlocked
    PROVE  Seen = Known
BY WriteFacts DEF Unlocked, Seen

\* Receptions that begin or end are steps.
LEMMA ReceptionsStep ==
    ASSUME receiving' \subseteq Ids, bundles' = bundles, Seen' = Seen, backend' = backend
    PROVE  ContractStep
BY DEF ContractStep, Seen, Contract!ContractNext, Contract!Receptions

\* receive() adds a bundle.
LEMMA AddStep ==
    ASSUME StoresInv, NEW i \in Ids, AddIfUnknown(i)
    PROVE  ContractStep
<1>1. receiving' \subseteq Ids /\ backend' = backend /\ deleted' = deleted /\ Seen = Known
    BY SeenUnlocked DEF AddIfUnknown, StoresInv, StoresTypeOK
<1>2. CASE backend = "sled"
    <2>1. i \notin DOMAIN metadata
        BY <1>2 DEF AddIfUnknown, Known
    <2>2. /\ metadata' = Put(metadata, i, {}) /\ write' = <<"push", i>> /\ bundles' = bundles
        BY <1>2, <2>1 DEF AddIfUnknown, StorePush, SledPush, StoresInv, MetadataInv
    <2>3. DOMAIN metadata' = DOMAIN metadata \cup {i}
        BY <2>2, PutFacts
    <2>4. Seen' = Seen
        BY <1>1, <1>2, <2>1, <2>2, <2>3, WriteFacts DEF Seen, Known
    <2>5. QED
        BY <1>1, <2>2, <2>4, ReceptionsStep
<1>3. CASE backend # "sled"
    <2>1. bundles' = bundles \cup {i} /\ write' = <<>>
        BY <1>3 DEF AddIfUnknown, StorePush, SneakersPush, Push, Unlocked
    <2>2. Known' = Known \cup {i}
        <3>1. CASE backend = "sneakers"
            BY <1>1, <2>1, <3>1 DEF Known
        <3>2. CASE backend = "mem"
            <4>1. i \notin bundles
                BY <3>2 DEF AddIfUnknown, Known, StoresInv, MetadataInv
            <4>2. metadata' = Put(metadata, i, {})
                BY <3>2, <4>1 DEF AddIfUnknown, StorePush, Push, HasItem
            <4>3. DOMAIN metadata' = DOMAIN metadata \cup {i}
                BY <4>2, PutFacts
            <4>4. QED
                BY <1>1, <3>2, <4>3 DEF Known
        <3>3. QED
            BY <1>3, <3>1, <3>2, StoresAssumption DEF StoresInv, StoresTypeOK
    <2>3. Seen' = Seen \cup {i} /\ i \notin Seen
        BY <1>1, <2>1, <2>2, WriteFacts DEF Seen, AddIfUnknown
    <2>4. QED
        BY <1>1, <2>1, <2>3 DEF ContractStep, Seen, Contract!ContractNext, Contract!Accept
<1>4. QED
    BY <1>2, <1>3

\* receive() stores the bundle again.
LEMMA PushReceivedStep ==
    ASSUME StoresInv, NEW i \in Ids, PushReceived(i)
    PROVE  ContractStep
<1>1. /\ receiving' \subseteq Ids /\ i \in receiving
      /\ backend' = backend /\ deleted' = deleted /\ Seen = Known /\ write = <<>>
    BY SeenUnlocked DEF PushReceived, StoresInv, StoresTypeOK, Unlocked
<1>2. CASE backend = "sled"
    <2>1. CASE bundles' = bundles /\ metadata' = metadata /\ write' = write
        <3>1. Seen' = Seen
            BY <1>1, <2>1 DEF Seen, Known
        <3>2. QED
            BY <1>1, <2>1, <3>1, ReceptionsStep
    <2>2. CASE /\ i \notin DOMAIN metadata
               /\ metadata' = Put(metadata, i, {}) /\ write' = <<"push", i>> /\ bundles' = bundles
        <3>1. DOMAIN metadata' = DOMAIN metadata \cup {i}
            BY <2>2, PutFacts
        <3>2. Seen' = Seen
            BY <1>1, <1>2, <2>2, <3>1, WriteFacts DEF Seen, Known
        <3>3. QED
            BY <1>1, <2>2, <3>2, ReceptionsStep
    <2>3. QED
        BY <1>2, <2>1, <2>2 DEF PushReceived, StorePush, SledPush
<1>3. CASE backend # "sled"
    <2>1. bundles' = bundles \cup {i} /\ write' = <<>>
        BY <1>1, <1>3 DEF PushReceived, StorePush, SneakersPush, Push
    <2>2. Known' = Known \cup {i}
        <3>1. CASE backend = "sneakers"
            BY <1>1, <2>1, <3>1 DEF Known
        <3>2. CASE backend = "mem" /\ i \in bundles
            BY <1>1, <3>2 DEF Known, PushReceived, StorePush, Push, HasItem, StoresInv, MetadataInv
        <3>3. CASE backend = "mem" /\ i \notin bundles
            <4>1. metadata' = Put(metadata, i, {})
                BY <3>3 DEF PushReceived, StorePush, Push, HasItem
            <4>2. DOMAIN metadata' = DOMAIN metadata \cup {i}
                BY <4>1, PutFacts
            <4>3. QED
                BY <1>1, <3>3, <4>2 DEF Known
        <3>4. QED
            BY <1>3, <3>1, <3>2, <3>3, StoresAssumption DEF StoresInv, StoresTypeOK
    <2>3. Seen' = Seen \cup {i}
        BY <1>1, <2>1, <2>2, WriteFacts DEF Seen
    <2>4. QED
        BY <1>1, <1>3, <2>1, <2>3 DEF ContractStep, Seen, Contract!ContractNext, Contract!Restore
<1>4. QED
    BY <1>2, <1>3

\* Constraints are no business of the contract.
LEMMA WriteConstraintsStep ==
    ASSUME StoresInv, NEW i \in Ids, NEW c \in Written, WriteConstraints(i, c)
    PROVE  ContractStep
<1>1. /\ DOMAIN metadata' = DOMAIN metadata /\ bundles' = bundles
      /\ UNCHANGED <<backend, deleted, write, receiving>>
    BY WriteConstraintsKeepsInv DEF WriteConstraints, UpdateMetadata
<1>2. Seen' = Seen
    BY <1>1 DEF Seen, Known
<1>3. QED
    BY <1>1, <1>2 DEF ContractStep, Seen, Contract!contractVars

\* A removal, or its first half.
LEMMA RemoveBundleStep ==
    ASSUME StoresInv, NEW i \in Ids, RemoveBundle(i)
    PROVE  ContractStep
<1>1. DOMAIN metadata' = DOMAIN metadata /\ Seen = Known /\ UNCHANGED <<backend, deleted, receiving>>
    BY RemoveBundleKeepsInv, SeenUnlocked DEF RemoveBundle
<1>2. CASE backend = "mem" /\ bundles' = bundles \ {i} /\ write' = write
    <2>1. Seen' = Seen
        BY <1>1, <1>2 DEF Seen, Known
    <2>2. QED
        BY <1>1, <1>2, <2>1 DEF ContractStep, Seen, Contract!ContractNext, Contract!Drop
<1>3. CASE backend \in {"sled", "sneakers"} /\ bundles' = bundles /\ write' = <<"remove", i>>
    <2>1. Seen' = Seen
        BY <1>1, <1>3, WriteFacts DEF Seen, Known
    <2>2. QED
        BY <1>1, <1>3, <2>1 DEF ContractStep, Seen, Contract!contractVars
<1>4. QED
    BY <1>2, <1>3 DEF RemoveBundle, StoreRemove, Remove, IsKnown

\* The bundle of a push becomes visible when it is stored.
LEMMA FinishPushStep ==
    ASSUME StoresInv, FinishPush
    PROVE  ContractStep
<1>1. PICK i \in DOMAIN metadata : write = <<"push", i>> /\ backend = "sled"
    BY WriteFacts DEF FinishPush, StoresInv, WriteInv, Unlocked
<1>2. i \in Ids /\ receiving \subseteq Ids
    BY DEF StoresInv, StoresTypeOK, StoreTypeOK
<1>3. /\ bundles' = bundles \cup {i} /\ write' = <<>>
      /\ UNCHANGED <<metadata, backend, deleted, receiving>>
    BY <1>1, WriteFacts DEF FinishPush
<1>4. Known' = Known /\ i \in Known
    BY <1>1, <1>3 DEF Known
<1>5. Seen = Known \ {i} /\ Seen' = Known
    BY <1>1, <1>2, <1>3, <1>4, WriteFacts DEF Seen
<1>6. i \notin Seen /\ Seen' = Seen \cup {i}
    BY <1>4, <1>5
<1>7. QED
    BY <1>2, <1>3, <1>6 DEF ContractStep, Seen, Contract!ContractNext, Contract!Accept

\* The bundle of a removal goes in the second half.
LEMMA FinishRemoveStep ==
    ASSUME StoresInv, FinishRemove
    PROVE  ContractStep
<1>1. PICK i \in DOMAIN metadata : write = <<"remove", i>> /\ backend \in {"sled", "sneakers"}
    BY WriteFacts DEF FinishRemove, StoresInv, WriteInv, Unlocked
<1>2. i \in Ids
    BY DEF StoresInv, StoresTypeOK, StoreTypeOK
<1>3. /\ bundles' = bundles \ {i} /\ write' = <<>> /\ UNCHANGED <<backend, receiving>>
      /\ metadata' = IF backend = "sneakers"
                     THEN [x \in DOMAIN metadata \ {i} |-> metadata[x]] ELSE metadata
      /\ deleted' = IF backend = "sneakers" THEN deleted \cup {i} ELSE deleted
    BY <1>1, WriteFacts DEF FinishRemove
<1>4. backend = "sneakers" => i \in bundles
    BY <1>1 DEF StoresInv, MetadataInv
<1>5. Known' = Known
    BY <1>1, <1>3, <1>4 DEF Known
<1>6. Seen = Known /\ Seen' = Known'
    BY <1>1, <1>3, WriteFacts DEF Seen
<1>7. QED
    BY <1>2, <1>3, <1>5, <1>6 DEF ContractStep, Seen, Contract!ContractNext, Contract!Drop

\* A crash is a restart; the id of a push that it cut in two becomes known.
LEMMA CrashStep ==
    ASSUME StoresInv, CrashAndRestart
    PROVE  ContractStep
<1>1. backend' = backend /\ receiving' = {} /\ write' = <<>> /\ deleted' = {}
    BY DEF CrashAndRestart
<1>2. Seen' = Known'
    BY <1>1, WriteFacts DEF Seen
<1>3. CASE backend = "sled"
    <2>1. bundles' = bundles /\ Known' = Known
        BY <1>1, <1>3 DEF CrashAndRestart, Known
    <2>2. Seen' = Seen \/ \E i \in Ids \ Seen : Seen' = Seen \cup {i}
        <3>1. CASE write \in {"push"} \X Ids
            <4>1. PICK i \in DOMAIN metadata : write = <<"push", i>>
                BY <3>1, WriteFacts DEF StoresInv, WriteInv
            <4>2. i \in Ids /\ i \in Known
                BY <1>3 DEF StoresInv, StoresTypeOK, StoreTypeOK, Known
            <4>3. Seen = Known \ {i}
                BY <3>1, <4>1, WriteFacts DEF Seen
            <4>4. QED
                BY <1>2, <2>1, <4>2, <4>3
        <3>2. CASE write \notin {"push"} \X Ids
            BY <1>2, <2>1, <3>2 DEF Seen
        <3>3. QED
            BY <3>1, <3>2
    <2>3. QED
        BY <1>1, <1>3, <2>1, <2>2 DEF ContractStep, Seen, Contract!ContractNext, Contract!Restart
<1>4. CASE backend # "sled"
    <2>1. bundles' \subseteq bundles /\ Known' = bundles'
        <3>1. CASE backend = "mem"
            BY <1>1, <3>1 DEF CrashAndRestart, Known
        <3>2. CASE backend = "sneakers"
            BY <1>1, <3>2 DEF CrashAndRestart, Known
        <3>3. QED
            BY <1>4, <3>1, <3>2, StoresAssumption DEF StoresInv, StoresTypeOK
    <2>2. QED
        BY <1>1, <1>2, <1>4, <2>1 DEF ContractStep, Seen, Contract!ContractNext, Contract!Restart
<1>5. QED
    BY <1>3, <1>4

------------------------------------------------------------------------------
\* Theorems.

\* The variables of the stores keep their types: mem.rs, sled.rs and sneakers.rs
\* under crashes between any two writes.
THEOREM StoresTypeCorrect == StoresSpec => []StoresTypeOK
<1>1. StoresInv => StoresTypeOK
    BY DEF StoresInv
<1>2. QED
    BY <1>1, StoresInvariant, PTL

\* Only a crash between the two writes of a push or a removal leaves metadata of
\* a bundle that is neither stored nor removed, or a stored bundle marked Deleted.
THEOREM TreesDoAgree == StoresSpec => []TreesAgree
<1>1. StoresInv => TreesAgree
    BY DEF StoresInv, TreesInv, TreesAgree, Unlocked
<1>2. QED
    BY <1>1, StoresInvariant, PTL

\* The in-memory, sled and sneakers stores implement the contract of a store.
THEOREM StoresImplementContract == StoresSpec => ImplementsContract
<1>1. StoresInit => Contract!ContractInit
    BY WriteFacts DEF StoresInit, StoreInit, Contract!ContractInit, Known
<1>2. StoresInv /\ [StoresNext]_storesVars => ContractStep
    <2> SUFFICES ASSUME StoresInv, [StoresNext]_storesVars
                 PROVE  ContractStep
        OBVIOUS
    <2>1. CASE UNCHANGED storesVars
        BY <2>1 DEF storesVars, ContractStep, Contract!contractVars, Known
    <2>2. QED
        BY <2>1, AddStep, PushReceivedStep, WriteConstraintsStep, RemoveBundleStep,
            FinishPushStep, FinishRemoveStep, CrashStep DEF StoresNext
<1>3. QED
    BY <1>1, <1>2, StoresInvariant, PTL
        DEF StoresSpec, ImplementsContract, Contract!ContractSpec, ContractStep

------------------------------------------------------------------------------
(***************************************************************************)
(* Types of external routing.  They bound what the routers have not        *)
(* answered yet and what is owed to them.  There may be any number of      *)
(* routers, so the bound is not a sum: the requests of a bundle are        *)
(* numbered, and each is with the router that was asked, was answered to   *)
(* no avail, or neither.                                                   *)
(***************************************************************************)

\* Of n requests, with[i] is the router that has request i, and spent are those
\* whose answer was used up.  a maps a router to what it is yet to answer, o is what
\* is owed; the last request is with nobody while it is fresh.
Ledger(n, a, o, fresh) ==
    \E with \in [1..n -> Routers \cup {NoRouter}], spent \in SUBSET (1..n) :
        /\ \A i \in spent : with[i] = NoRouter
        /\ \A r \in Routers : a[r] <= Cardinality({i \in 1..n : with[i] = r})
        /\ o <= Cardinality(spent)
        /\ fresh => n > 0 /\ with[n] = NoRouter /\ n \notin spent

LEMMA NumbersFinite ==
    ASSUME NEW n \in Nat, NEW S \in SUBSET (1..n)
    PROVE  IsFiniteSet(S) /\ Cardinality(S) \in Nat /\ Cardinality(S) <= n
<1>1. IsFiniteSet(1..n) /\ Cardinality(1..n) = n
  BY FS_Interval
<1>2. IsFiniteSet(S) /\ Cardinality(S) <= Cardinality(1..n)
  BY <1>1, FS_Subset
<1> QED BY <1>1, <1>2, FS_CardinalityType

LEMMA LedgerBounds ==
    ASSUME NEW n \in Nat, NEW a \in [Routers -> Nat], NEW o \in Int, NEW fresh \in BOOLEAN,
           Ledger(n, a, o, fresh)
    PROVE  (\A r \in Routers : a[r] \in 0..n) /\ o <= n
<1>1. PICK with \in [1..n -> Routers \cup {NoRouter}], spent \in SUBSET (1..n) :
        /\ \A r \in Routers : a[r] <= Cardinality({i \in 1..n : with[i] = r})
        /\ o <= Cardinality(spent)
  BY DEF Ledger
<1>2. \A S \in SUBSET (1..n) : Cardinality(S) \in Nat /\ Cardinality(S) <= n
  BY NumbersFinite
<1>3. o <= n
  BY <1>1, <1>2
<1>4. ASSUME NEW r \in Routers PROVE a[r] \in 0..n
  <2> DEFINE S == {i \in 1..n : with[i] = r}
  <2>1. Cardinality(S) \in Nat /\ Cardinality(S) <= n
    BY <1>2
  <2> QED BY <1>1, <2>1
<1> QED BY <1>3, <1>4

\* A request begins.
LEMMA LedgerGrows ==
    ASSUME NEW n \in Nat, NEW a \in [Routers -> Nat], NEW o \in Int, NEW fresh \in BOOLEAN,
           NEW fresh2 \in BOOLEAN, Ledger(n, a, o, fresh)
    PROVE  Ledger(n + 1, a, o, fresh2)
<1>1. PICK with \in [1..n -> Routers \cup {NoRouter}], spent \in SUBSET (1..n) :
        /\ \A i \in spent : with[i] = NoRouter
        /\ \A r \in Routers : a[r] <= Cardinality({i \in 1..n : with[i] = r})
        /\ o <= Cardinality(spent)
  BY DEF Ledger
<1> DEFINE w == [i \in 1..(n + 1) |-> IF i = n + 1 THEN NoRouter ELSE with[i]]
<1>2. /\ w \in [1..(n + 1) -> Routers \cup {NoRouter}] /\ spent \in SUBSET (1..(n + 1))
      /\ \A i \in spent : w[i] = NoRouter
      /\ w[n + 1] = NoRouter /\ n + 1 \notin spent
  BY <1>1
<1>3. ASSUME NEW r \in Routers PROVE {i \in 1..(n + 1) : w[i] = r} = {i \in 1..n : with[i] = r}
  <2>1. r # NoRouter
    BY ERoutingAssumption DEF NoRouter
  <2> QED BY <2>1
<1>4. \A r \in Routers : a[r] <= Cardinality({i \in 1..(n + 1) : w[i] = r})
  BY <1>1, <1>3
<1>5. n + 1 > 0
  OBVIOUS
<1> HIDE DEF w
<1> QED BY <1>1, <1>2, <1>4, <1>5 DEF Ledger

\* The last request goes to router r.
LEMMA LedgerAsked ==
    ASSUME NEW n \in Nat, NEW a \in [Routers -> Nat], NEW o \in Int, NEW r \in Routers,
           Ledger(n, a, o, TRUE)
    PROVE  Ledger(n, [a EXCEPT ![r] = @ + 1], o, FALSE)
<1>1. PICK with \in [1..n -> Routers \cup {NoRouter}], spent \in SUBSET (1..n) :
        /\ \A i \in spent : with[i] = NoRouter
        /\ \A q \in Routers : a[q] <= Cardinality({i \in 1..n : with[i] = q})
        /\ o <= Cardinality(spent)
        /\ n > 0 /\ with[n] = NoRouter /\ n \notin spent
  BY DEF Ledger
<1> DEFINE w == [with EXCEPT ![n] = r]
<1>2. /\ w \in [1..n -> Routers \cup {NoRouter}]
      /\ \A i \in spent : w[i] = NoRouter
  BY <1>1
<1>3. r # NoRouter
  BY ERoutingAssumption DEF NoRouter
<1>4. ASSUME NEW q \in Routers
      PROVE  [a EXCEPT ![r] = @ + 1][q] <= Cardinality({i \in 1..n : w[i] = q})
  <2> DEFINE S == {i \in 1..n : with[i] = q}
             T == {i \in 1..n : w[i] = q}
  <2>1. IsFiniteSet(S)
    BY NumbersFinite
  <2>2. CASE q = r
    <3>1. T = S \cup {n} /\ n \notin S
      BY <1>1, <1>3, <2>2
    <3>2. Cardinality(T) = Cardinality(S) + 1
      BY <2>1, <3>1, FS_AddElement
    <3>3. Cardinality(S) \in Nat /\ a[r] <= Cardinality(S)
      BY <1>1, <2>1, <2>2, FS_CardinalityType
    <3> HIDE DEF S, T
    <3> QED BY <2>2, <3>2, <3>3 DEF T
  <2>3. CASE q # r
    <3>1. T = S
      BY <1>1, <2>3, ERoutingAssumption DEF NoRouter
    <3> QED BY <1>1, <2>3, <3>1
  <2> QED BY <2>2, <2>3
<1> HIDE DEF w
<1> QED BY <1>1, <1>2, <1>4 DEF Ledger

\* A request is answered by router r.
LEMMA LedgerAnswered ==
    ASSUME NEW n \in Nat, NEW a \in [Routers -> Nat], NEW o \in Int, NEW r \in Routers,
           NEW fresh \in BOOLEAN, a[r] > 0, NEW p \in {o, o + 1}, Ledger(n, a, o, fresh)
    PROVE  Ledger(n, [a EXCEPT ![r] = @ - 1], p, fresh)
<1>1. PICK with \in [1..n -> Routers \cup {NoRouter}], spent \in SUBSET (1..n) :
        /\ \A i \in spent : with[i] = NoRouter
        /\ \A q \in Routers : a[q] <= Cardinality({i \in 1..n : with[i] = q})
        /\ o <= Cardinality(spent)
        /\ fresh => n > 0 /\ with[n] = NoRouter /\ n \notin spent
  BY DEF Ledger
<1>2. r # NoRouter
  BY ERoutingAssumption DEF NoRouter
<1>3. \A S \in SUBSET (1..n) : IsFiniteSet(S) /\ Cardinality(S) \in Nat
  BY NumbersFinite
<1>4. PICK k \in 1..n : with[k] = r
  <2>1. ASSUME \A k \in 1..n : with[k] # r PROVE FALSE
    <3>1. {i \in 1..n : with[i] = r} = {}
      BY <2>1
    <3>2. Cardinality({}) = 0
      BY FS_EmptySet
    <3>3. a[r] <= 0
      BY <1>1, <3>1, <3>2
    <3> QED BY <3>3
  <2> QED BY <2>1
<1> DEFINE w == [with EXCEPT ![k] = NoRouter]
           s == spent \cup {k}
<1>5. k \notin spent /\ (fresh => k # n)
  BY <1>1, <1>2, <1>4
<1>6. /\ w \in [1..n -> Routers \cup {NoRouter}] /\ s \in SUBSET (1..n)
      /\ \A i \in s : w[i] = NoRouter
      /\ fresh => n > 0 /\ w[n] = NoRouter /\ n \notin s
  BY <1>1, <1>5
<1>7. p <= Cardinality(s)
  <2>1. Cardinality(s) = Cardinality(spent) + 1
    BY <1>3, <1>5, FS_AddElement
  <2> QED BY <1>1, <1>3, <2>1
<1>8. ASSUME NEW q \in Routers
      PROVE  [a EXCEPT ![r] = @ - 1][q] <= Cardinality({i \in 1..n : w[i] = q})
  <2> DEFINE S == {i \in 1..n : with[i] = q}
             T == {i \in 1..n : w[i] = q}
  <2>1. CASE q = r
    <3>1. T = S \ {k} /\ k \in S
      BY <1>2, <1>4, <2>1
    <3>2. IsFiniteSet(S) /\ Cardinality(S) \in Nat /\ a[r] <= Cardinality(S)
      BY <1>1, <1>3, <2>1
    <3> HIDE DEF S, T
    <3>3. Cardinality(T) = Cardinality(S) - 1
      BY <3>1, <3>2, FS_RemoveElement
    <3> QED BY <2>1, <3>2, <3>3 DEF T
  <2>2. CASE q # r
    <3>1. T = S
      BY <1>4, <2>2, ERoutingAssumption DEF NoRouter
    <3> QED BY <1>1, <2>2, <3>1
  <2> QED BY <2>1, <2>2
<1> HIDE DEF w, s
<1> QED BY <1>6, <1>7, <1>8 DEF Ledger

\* Router r is asked no more, or owed nothing any more, or sent a Timeout packet.
LEMMA LedgerShrinks ==
    ASSUME NEW n \in Nat, NEW a \in [Routers -> Nat], NEW o \in Int, NEW fresh \in BOOLEAN,
           NEW a2 \in [Routers -> Nat], NEW o2 \in Int, NEW fresh2 \in BOOLEAN,
           \A r \in Routers : a2[r] <= a[r], o2 <= o \/ o2 <= 0, fresh2 => fresh,
           Ledger(n, a, o, fresh)
    PROVE  Ledger(n, a2, o2, fresh2)
<1>1. PICK with \in [1..n -> Routers \cup {NoRouter}], spent \in SUBSET (1..n) :
        /\ \A i \in spent : with[i] = NoRouter
        /\ \A q \in Routers : a[q] <= Cardinality({i \in 1..n : with[i] = q})
        /\ o <= Cardinality(spent)
        /\ fresh => n > 0 /\ with[n] = NoRouter /\ n \notin spent
  BY DEF Ledger
<1>2. \A S \in SUBSET (1..n) : Cardinality(S) \in Nat
  BY NumbersFinite
<1>3. o2 <= Cardinality(spent)
  BY <1>1, <1>2
<1>4. ASSUME NEW q \in Routers PROVE a2[q] <= Cardinality({i \in 1..n : with[i] = q})
  <2> DEFINE S == {i \in 1..n : with[i] = q}
  <2>1. Cardinality(S) \in Nat /\ a[q] <= Cardinality(S)
    BY <1>1, <1>2
  <2> HIDE DEF S
  <2>2. a2[q] <= Cardinality(S)
    BY <2>1
  <2> QED BY <2>2 DEF S
<1> QED BY <1>1, <1>3, <1>4 DEF Ledger

AskedOf(b) == [r \in Routers |-> asked[r][b]]
Unasked(b) == request[b].step \in {"opening", "sending"}

\* Each request sends at most one Timeout packet.
Counts(b) ==
    /\ request[b].order \in Orders[b]
    /\ requests[b] \in 0..MaxRequests
    /\ Ledger(requests[b], AskedOf(b), owed[b], Unasked(b))
    /\ owed[b] + requests[b] >=
         IF request[b].step \in {"opening", "sending", "waiting", "expired"} THEN 1 ELSE 0

CountsInv == requests \in [Routed -> Nat] /\ \A b \in Routed : Counts(b)

LEMMA CountsTypes ==
    ASSUME ChannelInv, LearnType, CountsInv, NEW b \in Routed
    PROVE  /\ requests[b] \in Nat /\ AskedOf(b) \in [Routers -> Nat] /\ owed[b] \in Int
           /\ Unasked(b) \in BOOLEAN /\ request[b] \in Request
           /\ Ledger(requests[b], AskedOf(b), owed[b], Unasked(b))
BY DEF ChannelInv, LearnType, CountsInv, Counts, AskedOf, Unasked

\* A step that leaves the request of a bundle alone.
LEMMA CountsFrame ==
    ASSUME NEW b \in Routed, Counts(b), request'[b] = request[b], requests'[b] = requests[b],
           owed'[b] = owed[b], \A r \in Routers : asked'[r][b] = asked[r][b]
    PROVE  Counts(b)'
<1>1. AskedOf(b)' = AskedOf(b) /\ Unasked(b)' = Unasked(b)
  BY DEF AskedOf, Unasked
<1> QED BY <1>1 DEF Counts

\* A step to a later one of the same request that asks nobody and sends no Timeout.
LEMMA CountsGoto ==
    ASSUME ChannelInv, LearnType, CountsInv, NEW b \in Routed, NEW next \in RequestStep,
           request'[b].step = next, request'[b].order = request[b].order,
           \A c \in Routed : c # b => request'[c] = request[c],
           asked' = asked, requests' = requests, owed' = owed,
           next \in {"opening", "sending"} => Unasked(b),
           next \in {"opening", "sending", "waiting", "expired"} =>
               request[b].step \in {"opening", "sending", "waiting", "expired"}
    PROVE  CountsInv'
<1>1. /\ request'[b].step = next /\ request'[b].order = request[b].order
      /\ \A c \in Routed : c # b => request'[c] = request[c]
  OBVIOUS
<1>2. \A c \in Routed : AskedOf(c)' = AskedOf(c)
  BY DEF AskedOf
<1>3. Counts(b)'
  <2>1. Ledger(requests[b], AskedOf(b), owed[b], Unasked(b)')
    <3>1. Unasked(b)' \in BOOLEAN /\ (Unasked(b)' => Unasked(b))
      BY <1>1 DEF Unasked
    <3>2. AskedOf(b) \in [Routers -> Nat] /\ \A r \in Routers : AskedOf(b)[r] <= AskedOf(b)[r]
      BY CountsTypes
    <3>3. requests[b] \in Nat /\ owed[b] \in Int /\ owed[b] <= owed[b] /\ Unasked(b) \in BOOLEAN
      BY CountsTypes
    <3>4. Ledger(requests[b], AskedOf(b), owed[b], Unasked(b))
      BY CountsTypes
    <3> HIDE DEF Ledger
    <3> QED BY <3>1, <3>2, <3>3, <3>4, LedgerShrinks
  <2>2. request'[b].order \in Orders[b] /\ requests'[b] \in 0..MaxRequests
    BY <1>1 DEF CountsInv, Counts
  <2>3. Ledger(requests[b], AskedOf(b), owed[b], Unasked(b))'
    BY <1>2, <2>1
  <2>4. owed'[b] + requests'[b] >=
          IF request'[b].step \in {"opening", "sending", "waiting", "expired"} THEN 1 ELSE 0
    <3>1. owed[b] + requests[b] >=
            IF request[b].step \in {"opening", "sending", "waiting", "expired"} THEN 1 ELSE 0
      BY DEF CountsInv, Counts
    <3>2. owed[b] \in Int /\ requests[b] \in Nat
      BY CountsTypes
    <3> QED BY <1>1, <3>1, <3>2
  <2> QED BY <2>2, <2>3, <2>4 DEF Counts
<1>4. \A c \in Routed : Counts(c)'
  <2> TAKE c \in Routed
  <2>1. CASE c # b
    <3>1. Counts(c) /\ request'[c] = request[c] /\ requests'[c] = requests[c] /\ owed'[c] = owed[c]
      BY <1>1, <2>1 DEF CountsInv
    <3> QED BY <3>1, CountsFrame
  <2> QED BY <1>3, <2>1
<1> QED BY <1>4 DEF CountsInv

LEMMA CountsInit == ERoutingInit => CountsInv
<1> SUFFICES ASSUME ERoutingInit PROVE CountsInv
  OBVIOUS
<1>1. requests \in [Routed -> Nat]
  BY DEF ERoutingInit
<1>2. ASSUME NEW b \in Routed PROVE Counts(b)
  <2>1. /\ request[b].step = "idle" /\ request[b].order \in Orders[b]
        /\ requests[b] = 0 /\ owed[b] = 0
    <3> DEFINE first == CHOOSE o \in Orders[b] : TRUE
    <3>1. first \in Orders[b]
      BY ERoutingAssumption
    <3>2. request[b] = [step |-> "idle", order |-> first, got |-> FALSE, to |-> NoRouter]
      BY DEF ERoutingInit
    <3>3. requests[b] = 0 /\ owed[b] = 0
      BY DEF ERoutingInit
    <3> HIDE DEF first
    <3> QED BY <3>1, <3>2, <3>3
  <2>2. \A r \in Routers : AskedOf(b)[r] = 0
    BY DEF ERoutingInit, AskedOf
  <2>3. Ledger(0, AskedOf(b), 0, FALSE)
    <3> DEFINE with == [i \in 1..0 |-> NoRouter]
    <3>1. with \in [1..0 -> Routers \cup {NoRouter}] /\ {} \in SUBSET (1..0)
      OBVIOUS
    <3>2. \A r \in Routers : {i \in 1..0 : with[i] = r} = {}
      OBVIOUS
    <3>3. Cardinality({}) = 0
      BY FS_EmptySet
    <3>4. \A r \in Routers : AskedOf(b)[r] <= Cardinality({i \in 1..0 : with[i] = r})
      BY <2>2, <3>2, <3>3
    <3>5. 0 <= Cardinality({})
      BY <3>3
    <3> HIDE DEF with
    <3> QED BY <3>1, <3>4, <3>5 DEF Ledger
  <2>4. Unasked(b) = FALSE
    BY <2>1 DEF Unasked
  <2>5. Ledger(requests[b], AskedOf(b), owed[b], Unasked(b))
    BY <2>1, <2>3, <2>4
  <2>6. requests[b] \in 0..MaxRequests /\ owed[b] + requests[b] >= 0
    BY <2>1, ERoutingAssumption
  <2> QED BY <2>1, <2>5, <2>6 DEF Counts
<1> QED BY <1>1, <1>2 DEF CountsInv

LEMMA CountsNext ==
    ASSUME ChannelInv, LearnType, CountsInv, ERoutingNext PROVE CountsInv'
<1>1. ASSUME (\E r \in Routers : RouterArrives(r) \/ RouterConnects(r) \/ WritePacket(r)) \/ Notify
      PROVE  CountsInv'
  <2>1. UNCHANGED <<asked, request, requests, owed>>
    BY <1>1 DEF RouterArrives, RouterConnects, WritePacket, Notify
  <2> QED BY <2>1, CountsFrame DEF CountsInv
<1>2. ASSUME NEW r \in Routers, RouterLeaves(r) PROVE CountsInv'
  <2>1. /\ requests' = requests /\ asked' = [asked EXCEPT ![r] = [b \in Routed |-> 0]]
        /\ \A b \in Routed : owed'[b] = 0
    BY <1>2 DEF RouterLeaves
  <2>2. ASSUME NEW b \in Routed PROVE Counts(b)'
    <3>1. /\ AskedOf(b)' \in [Routers -> Nat]
          /\ \A q \in Routers : AskedOf(b)'[q] <= AskedOf(b)[q]
      BY <2>1 DEF AskedOf, LearnType
    <3>2. request'[b].step = request[b].step /\ request'[b].order = request[b].order
      BY <1>2, RouterForgotten
    <3>3. Unasked(b)' = Unasked(b)
      BY <3>2 DEF Unasked
    <3>4. Ledger(requests[b], AskedOf(b)', 0, Unasked(b))
      <4>1. 0 \in Int /\ 0 <= 0
        OBVIOUS
      <4> HIDE DEF Ledger
      <4> QED BY <3>1, <4>1, CountsTypes, LedgerShrinks
    <3>5. Ledger(requests[b], AskedOf(b), owed[b], Unasked(b))'
      BY <2>1, <3>3, <3>4
    <3>6. owed'[b] + requests'[b] >=
            IF request'[b].step \in {"opening", "sending", "waiting", "expired"} THEN 1 ELSE 0
      <4>1. owed[b] + requests[b] >=
              IF request[b].step \in {"opening", "sending", "waiting", "expired"} THEN 1 ELSE 0
        BY DEF CountsInv, Counts
      <4>2. owed[b] \in Int /\ requests[b] \in Nat /\ owed[b] <= requests[b]
        BY CountsTypes, LedgerBounds
      <4> QED BY <2>1, <3>2, <4>1, <4>2
    <3>7. request'[b].order \in Orders[b] /\ requests'[b] \in 0..MaxRequests
      BY <2>1, <3>2 DEF CountsInv, Counts
    <3> QED BY <3>5, <3>6, <3>7 DEF Counts
  <2> QED BY <2>1, <2>2 DEF CountsInv
<1>3. ASSUME NEW r \in Routers, NEW b \in Routed, NEW o \in Orders[b], HandleResponse(r, b, o)
      PROVE  CountsInv'
  <2>1. /\ asked[r][b] > 0 /\ asked' = [asked EXCEPT ![r][b] = @ - 1] /\ requests' = requests
        /\ \A c \in Routed : c # b => owed'[c] = owed[c] /\ request'[c] = request[c]
        /\ request'[b].step = request[b].step /\ request'[b].order = request[b].order
        /\ owed'[b] \in {owed[b], owed[b] + 1}
    BY <1>3 DEF HandleResponse, LearnType, ChannelInv, Request
  <2>2. Counts(b)'
    <3>1. AskedOf(b)' = [AskedOf(b) EXCEPT ![r] = @ - 1] /\ AskedOf(b)[r] > 0
      BY <2>1 DEF AskedOf, LearnType
    <3>2. Unasked(b)' = Unasked(b)
      BY <2>1 DEF Unasked
    <3>3. Ledger(requests[b], [AskedOf(b) EXCEPT ![r] = @ - 1], owed'[b], Unasked(b))
      <4>1. /\ requests[b] \in Nat /\ AskedOf(b) \in [Routers -> Nat] /\ owed[b] \in Int
            /\ Unasked(b) \in BOOLEAN /\ Ledger(requests[b], AskedOf(b), owed[b], Unasked(b))
        BY CountsTypes
      <4>2. owed'[b] \in {owed[b], owed[b] + 1} /\ AskedOf(b)[r] > 0
        BY <2>1, <3>1
      <4> HIDE DEF Ledger, AskedOf, Unasked
      <4> QED BY <4>1, <4>2, LedgerAnswered, ZenonT(30)
    <3>4. Ledger(requests[b], AskedOf(b), owed[b], Unasked(b))'
      BY <2>1, <3>1, <3>2, <3>3
    <3>5. owed'[b] + requests'[b] >=
            IF request'[b].step \in {"opening", "sending", "waiting", "expired"} THEN 1 ELSE 0
      <4>1. owed[b] + requests[b] >=
              IF request[b].step \in {"opening", "sending", "waiting", "expired"} THEN 1 ELSE 0
        BY DEF CountsInv, Counts
      <4>2. owed[b] \in Int /\ requests[b] \in Nat
        BY CountsTypes
      <4> QED BY <2>1, <4>1, <4>2
    <3>6. request'[b].order \in Orders[b] /\ requests'[b] \in 0..MaxRequests
      BY <2>1 DEF CountsInv, Counts
    <3> QED BY <3>4, <3>5, <3>6 DEF Counts
  <2>3. ASSUME NEW c \in Routed, c # b PROVE Counts(c)'
    <3>1. \A q \in Routers : asked'[q][c] = asked[q][c]
      BY <2>1, <2>3 DEF LearnType
    <3>2. request'[c] = request[c] /\ owed'[c] = owed[c] /\ requests'[c] = requests[c] /\ Counts(c)
      BY <2>1, <2>3 DEF CountsInv
    <3> QED BY <3>1, <3>2, CountsFrame
  <2> QED BY <2>1, <2>2, <2>3 DEF CountsInv
<1>4. ASSUME NEW b \in Routed, StartRequest(b) PROVE CountsInv'
  <2>1. PICK o \in Orders[b], s \in {"idle", "opening"} :
          request' = [request EXCEPT ![b] =
                        [step |-> s, order |-> o, got |-> FALSE, to |-> NoRouter]]
    BY <1>4 DEF StartRequest
  <2>2. /\ asked' = asked /\ owed' = owed /\ request[b].step = "idle" /\ requests[b] < MaxRequests
        /\ requests' = [requests EXCEPT ![b] = @ + 1]
    BY <1>4 DEF StartRequest
  <2>3. /\ request'[b].step = s /\ request'[b].order = o
        /\ \A c \in Routed : c # b => request'[c] = request[c]
    BY <2>1 DEF ChannelInv
  <2>4. /\ requests' \in [Routed -> Nat] /\ requests'[b] = requests[b] + 1
        /\ \A c \in Routed : c # b => requests'[c] = requests[c]
    BY <2>2 DEF CountsInv
  <2>5. Counts(b)'
    <3>1. AskedOf(b)' = AskedOf(b) /\ Unasked(b)' \in BOOLEAN
      BY <2>2 DEF AskedOf, Unasked
    <3>2. Ledger(requests[b] + 1, AskedOf(b), owed[b], Unasked(b)')
      BY <3>1, CountsTypes, LedgerGrows
    <3>3. Ledger(requests[b], AskedOf(b), owed[b], Unasked(b))'
      BY <2>2, <2>4, <3>1, <3>2
    <3>4. requests[b] \in Nat /\ owed[b] \in Int /\ owed[b] + requests[b] >= 0
      BY <2>2, CountsTypes DEF CountsInv, Counts
    <3>5. requests'[b] \in 0..MaxRequests /\ owed'[b] + requests'[b] >= 1
      BY <2>2, <2>4, <3>4, ERoutingAssumption
    <3>6. owed'[b] + requests'[b] >= 0
      BY <2>2, <2>4, <3>4
    <3> QED BY <2>3, <3>3, <3>5, <3>6 DEF Counts
  <2>6. ASSUME NEW c \in Routed, c # b PROVE Counts(c)'
    <3>1. request'[c] = request[c] /\ owed'[c] = owed[c] /\ requests'[c] = requests[c] /\ Counts(c)
      BY <2>2, <2>3, <2>4, <2>6 DEF CountsInv
    <3> QED BY <2>2, <3>1, CountsFrame
  <2> QED BY <2>4, <2>5, <2>6 DEF CountsInv
<1>5. ASSUME NEW b \in Routed, SendRequest(b) PROVE CountsInv'
  <2>1. /\ request[b].step = "sending" /\ requests' = requests /\ owed' = owed
        /\ asked' = IF Room THEN [asked EXCEPT ![connection][b] = @ + 1] ELSE asked
    BY <1>5 DEF SendRequest
  <2>4. /\ request'[b].step = "waiting" /\ request'[b].order = request[b].order
        /\ \A c \in Routed : c # b => request'[c] = request[c]
    BY <1>5, RequestSent
  <2>2. CASE ~Room
    <3>1. "waiting" \in RequestStep /\ asked' = asked
      BY <2>1, <2>2 DEF RequestStep
    <3> QED BY <2>1, <2>4, <3>1, CountsGoto
  <2>3. CASE Room
    <3>0. connection \in Routers /\ asked' = [asked EXCEPT ![connection][b] = @ + 1]
      BY <2>1, <2>3 DEF Room, LearnType
    <3>1. /\ request'[b].step = "waiting" /\ request'[b].order = request[b].order
          /\ \A c \in Routed : c # b => request'[c] = request[c]
      BY <2>4
    <3>2. Counts(b)'
      <4>1. AskedOf(b)' = [AskedOf(b) EXCEPT ![connection] = @ + 1]
        BY <3>0 DEF AskedOf, LearnType
      <4>2. Unasked(b) = TRUE /\ Unasked(b)' = FALSE
        BY <2>1, <3>1 DEF Unasked
      <4>3. Ledger(requests[b], [AskedOf(b) EXCEPT ![connection] = @ + 1], owed[b], FALSE)
        <5>1. Ledger(requests[b], AskedOf(b), owed[b], TRUE)
          BY <4>2, CountsTypes
        <5> QED BY <3>0, <5>1, CountsTypes, LedgerAsked
      <4>4. Ledger(requests[b], AskedOf(b), owed[b], Unasked(b))'
        BY <2>1, <4>1, <4>2, <4>3
      <4>5. owed[b] + requests[b] >= 1
        BY <2>1 DEF CountsInv, Counts
      <4>6. request'[b].order \in Orders[b] /\ requests'[b] \in 0..MaxRequests
        BY <2>1, <3>1 DEF CountsInv, Counts
      <4> QED BY <2>1, <3>1, <4>4, <4>5, <4>6 DEF Counts
    <3>3. ASSUME NEW c \in Routed, c # b PROVE Counts(c)'
      <4>1. \A q \in Routers : asked'[q][c] = asked[q][c]
        BY <3>0, <3>3 DEF LearnType
      <4>2. request'[c] = request[c] /\ owed'[c] = owed[c] /\ requests'[c] = requests[c] /\ Counts(c)
        BY <2>1, <3>1, <3>3 DEF CountsInv
      <4> QED BY <4>1, <4>2, CountsFrame
    <3> QED BY <2>1, <3>2, <3>3 DEF CountsInv
  <2> QED BY <2>2, <2>3
<1>6. ASSUME NEW b \in Routed, SendTimeout(b) PROVE CountsInv'
  <2>1. /\ request[b].step = "expired" /\ Goto(b, "late") /\ requests' = requests /\ asked' = asked
        /\ owed' = owed \/ owed' = [owed EXCEPT ![b] = @ - 1]
    BY <1>6 DEF SendTimeout, LearnType
  <2>2. /\ request'[b].step = "late" /\ request'[b].order = request[b].order
        /\ \A c \in Routed : c # b => request'[c] = request[c]
    BY <2>1 DEF Goto, ChannelInv, Request
  <2>3. owed'[b] \in {owed[b], owed[b] - 1} /\ \A c \in Routed : c # b => owed'[c] = owed[c]
    BY <2>1 DEF LearnType
  <2>4. Counts(b)'
    <3>1. AskedOf(b)' = AskedOf(b) /\ Unasked(b) = FALSE /\ Unasked(b)' = FALSE
      BY <2>1, <2>2 DEF AskedOf, Unasked
    <3>2. AskedOf(b) \in [Routers -> Nat] /\ \A q \in Routers : AskedOf(b)[q] <= AskedOf(b)[q]
      BY CountsTypes
    <3>3. requests[b] \in Nat /\ owed[b] \in Int
      BY CountsTypes
    <3>4. Ledger(requests[b], AskedOf(b), owed'[b], FALSE)
      <4>1. Ledger(requests[b], AskedOf(b), owed[b], Unasked(b)) /\ Unasked(b) \in BOOLEAN
        BY CountsTypes
      <4>2. owed'[b] \in Int /\ owed'[b] <= owed[b]
        BY <2>3, <3>3
      <4>3. Ledger(requests[b], AskedOf(b), owed'[b], Unasked(b))
        BY <3>2, <3>3, <4>1, <4>2, LedgerShrinks
      <4> QED BY <3>1, <4>3
    <3>5. Ledger(requests[b], AskedOf(b), owed[b], Unasked(b))'
      BY <2>1, <2>3, <3>1, <3>4
    <3>6. owed[b] + requests[b] >= 1
      BY <2>1 DEF CountsInv, Counts
    <3>7. owed'[b] + requests'[b] >= 0
      BY <2>1, <2>3, <3>3, <3>6
    <3>8. request'[b].order \in Orders[b] /\ requests'[b] \in 0..MaxRequests
      BY <2>1, <2>2 DEF CountsInv, Counts
    <3> QED BY <2>2, <3>5, <3>7, <3>8 DEF Counts
  <2>5. ASSUME NEW c \in Routed, c # b PROVE Counts(c)'
    <3>1. request'[c] = request[c] /\ owed'[c] = owed[c] /\ requests'[c] = requests[c] /\ Counts(c)
      BY <2>1, <2>2, <2>3, <2>5 DEF CountsInv
    <3> QED BY <2>1, <3>1, CountsFrame
  <2> QED BY <2>1, <2>4, <2>5 DEF CountsInv
<1>7. ASSUME NEW b \in Routed, OpenChannel(b) \/ UseAnswer(b) \/ Expire(b) \/ CloseChannel(b)
      PROVE  CountsInv'
  <2>1. PICK next \in {"sending", "idle", "expired"} :
          /\ Goto(b, next)
          /\ next = "sending" => request[b].step = "opening"
          /\ next = "expired" => request[b].step = "waiting"
    BY <1>7 DEF OpenChannel, UseAnswer, Expire, CloseChannel
  <2>2. asked' = asked /\ requests' = requests /\ owed' = owed
    BY <1>7 DEF OpenChannel, UseAnswer, Expire, CloseChannel
  <2>3. /\ next \in RequestStep
        /\ next \in {"opening", "sending"} => Unasked(b)
        /\ next \in {"opening", "sending", "waiting", "expired"} =>
             request[b].step \in {"opening", "sending", "waiting", "expired"}
    BY <2>1 DEF RequestStep, Unasked
  <2>4. /\ request'[b].step = next /\ request'[b].order = request[b].order
        /\ \A c \in Routed : c # b => request'[c] = request[c]
    BY <2>1, <2>3, ChannelGoto
  <2> QED BY <2>2, <2>3, <2>4, CountsGoto
<1> QED BY <1>1, <1>2, <1>3, <1>4, <1>5, <1>6, <1>7 DEF ERoutingNext, RequestRuns

RoutingInv == ChannelInv /\ LearnType /\ CountsInv

LEMMA RoutingInit == ERoutingInit => RoutingInv
BY ChannelInit, LearnInit, CountsInit DEF RoutingInv, LearnInv

LEMMA RoutingNext == RoutingInv /\ [ERoutingNext]_eroutingVars => RoutingInv'
<1> SUFFICES ASSUME RoutingInv, [ERoutingNext]_eroutingVars PROVE RoutingInv'
  OBVIOUS
<1>1. ChannelInv'
  BY ChannelNext DEF RoutingInv
<1>2. CASE ERoutingNext
  BY <1>1, <1>2, RouterTypes, CountsNext DEF RoutingInv
<1>3. CASE UNCHANGED eroutingVars
  <2>1. UNCHANGED <<connection, session, backlog, asked, request, requests, owed, clashed, overrun>>
    BY <1>3 DEF eroutingVars
  <2>2. LearnType'
    BY <2>1 DEF LearnType, RoutingInv
  <2>3. CountsInv'
    BY <2>1, CountsFrame DEF CountsInv, RoutingInv
  <2> QED BY <1>1, <2>2, <2>3 DEF RoutingInv
<1> QED BY <1>2, <1>3

LEMMA RoutingTyped == RoutingInv => ERoutingTypeOK
<1> SUFFICES ASSUME RoutingInv PROVE ERoutingTypeOK
  OBVIOUS
<1>1. ChannelInv /\ LearnType /\ CountsInv
  BY DEF RoutingInv
<1>2. ASSUME NEW b \in Routed
      PROVE  /\ requests[b] \in 0..MaxRequests
             /\ \A r \in Routers : asked[r][b] \in 0..MaxRequests
             /\ owed[b] \in -MaxRequests .. MaxRequests
  <2>1. /\ requests[b] \in 0..MaxRequests /\ requests[b] \in Nat /\ MaxRequests \in Nat
        /\ owed[b] \in Int
    BY <1>1, CountsTypes, ERoutingAssumption DEF CountsInv, Counts
  <2>2. (\A r \in Routers : AskedOf(b)[r] \in 0..requests[b]) /\ owed[b] <= requests[b]
    BY <1>1, CountsTypes, LedgerBounds
  <2>3. \A r \in Routers : asked[r][b] \in 0..requests[b]
    BY <2>2 DEF AskedOf
  <2>4. owed[b] + requests[b] >= 0
    BY <1>1, <2>1 DEF CountsInv, Counts
  <2> QED BY <2>1, <2>2, <2>3, <2>4
<1>3. requests \in [Routed -> 0 .. MaxRequests]
  BY <1>1, <1>2 DEF CountsInv
<1>4. owed \in [Routed -> -MaxRequests .. MaxRequests]
  BY <1>1, <1>2 DEF LearnType
<1>5. asked \in [Routers -> [Routed -> 0 .. MaxRequests]]
  <2>1. ASSUME NEW r \in Routers PROVE asked[r] \in [Routed -> 0 .. MaxRequests]
    <3>1. asked[r] \in [Routed -> Nat]
      BY <1>1 DEF LearnType
    <3> QED BY <1>2, <3>1
  <2> QED BY <1>1, <2>1 DEF LearnType
<1>6. \A b \in Routed : request[b] \in [step : RequestStep, order : Orders[b], got : BOOLEAN,
                                        to : Routers \cup {NoRouter}]
  BY <1>1 DEF ChannelInv, Request, CountsInv, Counts
<1>7. \A k \in responses : k[1] \in Routed /\ k[2] \in Orders[k[1]]
  BY <1>1 DEF ChannelInv, Key, CountsInv, Counts
<1> QED BY <1>1, <1>3, <1>4, <1>5, <1>6, <1>7 DEF ERoutingTypeOK, LearnType

------------------------------------------------------------------------------
\* Types of the external convergence layers and of HTTP pull.

Holder == Links \cup Submissions \cup {Free, "announcer"}

\* What LayerTypes leaves out of EclaTypeOK.
ThreadTypes ==
    /\ registers \in [Links -> 0 .. MaxRegisters]
    /\ closing \subseteq Links
    /\ modulesLock \in Holder /\ connectorsLock \in Holder
    /\ announcer \subseteq Links
    /\ submission \in [Submissions ->
           [step : {"new", "queued", "connectors", "done", "dead"}, name : LayerNames,
            result : {"none", "Successful", "Failure"}]]
    /\ poisoned \subseteq {"modules", "connectors"}

LEMMA ThreadsTyped == LayerInv /\ ThreadTypes => EclaTypeOK
BY DEF LayerInv, LayerTypes, ThreadTypes, Holder, EclaTypeOK

LEMMA ThreadInit == EclaInit => ThreadTypes
<1> SUFFICES ASSUME EclaInit PROVE ThreadTypes
  OBVIOUS
<1>1. registers \in [Links -> 0 .. MaxRegisters]
  BY EclaAssumption DEF EclaInit
<1>2. submission \in [Submissions ->
           [step : {"new", "queued", "connectors", "done", "dead"}, name : LayerNames,
            result : {"none", "Successful", "Failure"}]]
  BY DEF EclaInit
<1> QED BY <1>1, <1>2 DEF EclaInit, ThreadTypes, Holder

LEMMA ThreadNext == ThreadTypes /\ [EclaNext]_eclaVars => ThreadTypes'
<1> SUFFICES ASSUME ThreadTypes, [EclaNext]_eclaVars PROVE ThreadTypes'
  OBVIOUS
<1> USE DEF ThreadTypes, Holder
<1>1. ASSUME NEW c \in Links, NEW n \in LayerNames \cup {NoName}, PacketArrives(c, n)
      PROVE  ThreadTypes'
  <2>1. registers' \in [Links -> 0 .. MaxRegisters]
    BY <1>1, EclaAssumption DEF PacketArrives
  <2> QED BY <1>1, <2>1 DEF PacketArrives
<1>2. ASSUME NEW c \in Links, Connect(c) \/ CheckConnector(c) \/ BadBeacon(c) \/ Register(c)
      PROVE  ThreadTypes'
  BY <1>2 DEF Connect, CheckConnector, BadBeacon, Register, Answered
<1>3. ASSUME NEW c \in Links, Reject(c) \/ RejectAgain(c) PROVE ThreadTypes'
  BY <1>3 DEF Reject, RejectAgain, Answered
<1>4. ASSUME NEW c \in Links, Disconnect(c) \/ ForgetModule(c) \/ SendBeacon(c) PROVE ThreadTypes'
  BY <1>4 DEF Disconnect, ForgetModule, SendBeacon
<1>5. CASE BeginBeacons
  BY <1>5 DEF BeginBeacons
<1>6. ASSUME NEW s \in Submissions, Transfer(s) PROVE ThreadTypes'
  BY <1>6 DEF Transfer
<1>7. ASSUME NEW s \in Submissions, BeginSubmission(s) PROVE ThreadTypes'
  BY <1>7 DEF BeginSubmission
<1>8. ASSUME NEW s \in Submissions, Submit(s) PROVE ThreadTypes'
  <2>1. PICK re \in {"Successful", "Failure"} :
          submission' = [submission EXCEPT ![s].step = "done", ![s].result = re]
    BY <1>8 DEF Submit
  <2>2. submission' \in [Submissions ->
           [step : {"new", "queued", "connectors", "done", "dead"}, name : LayerNames,
            result : {"none", "Successful", "Failure"}]]
    BY <2>1, ZenonT(30)
  <2> QED BY <1>8, <2>2 DEF Submit
<1>10. ASSUME NEW s \in Submissions, SubmitPanics(s) PROVE ThreadTypes'
  BY <1>10 DEF SubmitPanics
<1>9. CASE UNCHANGED eclaVars
  BY <1>9 DEF eclaVars
<1> QED
  BY <1>1, <1>2, <1>3, <1>4, <1>5, <1>6, <1>7, <1>8, <1>9, <1>10 DEF EclaNext

LEMMA PullInit == HttpPullInit => HttpPullTypeOK
BY HttpPullAssumption DEF HttpPullInit, HttpPullTypeOK

LEMMA PullNext == HttpPullTypeOK /\ [HttpPullNext]_pullVars => HttpPullTypeOK'
<1> SUFFICES ASSUME HttpPullTypeOK, [HttpPullNext]_pullVars PROVE HttpPullTypeOK'
  OBVIOUS
<1> USE DEF HttpPullTypeOK
<1>1. CASE BeginRound \/ CompareDigests \/ GetList \/ EndRound
  BY <1>1 DEF BeginRound, CompareDigests, GetList, Listed, EndRound
<1>2. ASSUME NEW i \in Shared, Download(i) PROVE HttpPullTypeOK'
  BY <1>2 DEF Download
<1>3. CASE RequestFails \/ PullPanics
  BY <1>3, HttpPullAssumption DEF RequestFails, PullPanics
<1>4. ASSUME NEW i \in Shared, ReceivePulled(i) \/ OtherwiseReceived(i) PROVE HttpPullTypeOK'
  BY <1>4 DEF ReceivePulled, OtherwiseReceived
<1>5. ASSUME NEW i \in Shared, PeerStores(i) \/ PeerDeletes(i) PROVE HttpPullTypeOK'
  BY <1>5 DEF PeerStores, PeerDeletes
<1>6. CASE UNCHANGED pullVars
  BY <1>6 DEF pullVars
<1> QED
  BY <1>1, <1>2, <1>3, <1>4, <1>5, <1>6 DEF HttpPullNext, PullStep

------------------------------------------------------------------------------
(***************************************************************************)
(* The parts side by side.                                                 *)
(***************************************************************************)

\* A step of the composition is a step of each part, or leaves it alone.
LEMMA PartsSteps ==
    ASSUME [PartsNext]_partsVars
    PROVE  /\ [ERoutingNext]_eroutingVars /\ [EclaNext]_eclaVars
           /\ [MtcpNext]_mtcpVars /\ [HttpPullNext]_pullVars
           /\ [PeerTableNext]_peerTableVars /\ [StoresNext]_storesVars
           /\ [BpsecNext]_bpsecVars /\ [WsNext]_wsVars
<1>1. CASE UNCHANGED partsVars
  BY <1>1 DEF partsVars
<1>2. CASE PartsNext
  BY <1>2 DEF PartsNext, OnlyPart
<1> QED BY <1>1, <1>2

\* The invariants of the parts, with which each keeps to its types.
SideBySide ==
    /\ RoutingInv
    /\ LayerInv /\ ThreadTypes
    /\ StreamInv
    /\ HttpPullTypeOK
    /\ PeerInv
    /\ StoresInv
    /\ FollowInv
    /\ PlacesInv

LEMMA SideBySideInit == PartsInit => SideBySide
<1> SUFFICES ASSUME PartsInit PROVE SideBySide
  OBVIOUS
<1>1. /\ ERoutingInit /\ EclaInit /\ MtcpInit /\ HttpPullInit
      /\ PeerTableInit /\ StoresInit /\ BpsecInit /\ WsInit
  BY DEF PartsInit
<1>2. RoutingInv /\ LayerInv /\ ThreadTypes
  BY <1>1, RoutingInit, LayerInit, ThreadInit
<1>3. StreamInv /\ HttpPullTypeOK /\ PeerInv
  BY <1>1, StreamInit, PullInit, PeerInit
<1>4. StoresInv /\ FollowInv /\ PlacesInv
  BY <1>1, StoresBegin, FollowInit, PlacesInit
<1> QED BY <1>2, <1>3, <1>4 DEF SideBySide

LEMMA SideBySideNext == SideBySide /\ [PartsNext]_partsVars => SideBySide'
<1> SUFFICES ASSUME SideBySide, [PartsNext]_partsVars PROVE SideBySide'
  OBVIOUS
<1>1. /\ [ERoutingNext]_eroutingVars /\ [EclaNext]_eclaVars
      /\ [MtcpNext]_mtcpVars /\ [HttpPullNext]_pullVars
      /\ [PeerTableNext]_peerTableVars /\ [StoresNext]_storesVars
      /\ [BpsecNext]_bpsecVars /\ [WsNext]_wsVars
  BY PartsSteps
<1>2. RoutingInv' /\ LayerInv' /\ ThreadTypes'
  BY <1>1, RoutingNext, LayerNext, ThreadNext DEF SideBySide
<1>3. StreamInv' /\ HttpPullTypeOK' /\ PeerInv'
  BY <1>1, StreamNext, PullNext, PeerNext DEF SideBySide
<1>4. StoresInv' /\ FollowInv' /\ PlacesInv'
  BY <1>1, StoresStep, FollowStep, PlacesNext DEF SideBySide
<1> QED BY <1>2, <1>3, <1>4 DEF SideBySide

\* Every part keeps to its types, whatever its constants: no counter leaves its
\* bounds (requests unanswered and owed in external routing, layers of a name, ages
\* of peers, streams and bytes of MTCP), no channel of a websocket session gets more
\* than it holds, and no bundle gets a block that is not one.
THEOREM PartsTypeCorrect == PartsSpec => []PartsTypeOK
<1>1. SideBySide => PartsTypeOK
  <2> SUFFICES ASSUME SideBySide PROVE PartsTypeOK
    OBVIOUS
  <2>1. ERoutingTypeOK /\ EclaTypeOK
    BY RoutingTyped, ThreadsTyped DEF SideBySide
  <2>2. MtcpTypeOK /\ HttpPullTypeOK /\ PeerTableTypeOK
    BY DEF SideBySide, StreamInv, PeerInv
  <2>3. StoresTypeOK /\ BpsecTypeOK /\ WsTypeOK
    BY DEF SideBySide, StoresInv, FollowInv, PlacesInv
  <2> QED BY <2>1, <2>2, <2>3 DEF PartsTypeOK
<1> QED BY <1>1, SideBySideInit, SideBySideNext, PTL DEF PartsSpec
==============================================================================
