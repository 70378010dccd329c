------------------------------- MODULE ERouting -------------------------------
(***************************************************************************)
(* The external routing agent (routing/external.rs, routing/erouting): a   *)
(* router connected over a websocket is asked for the next hops of a       *)
(* bundle and has 250 ms to answer.  An answer finds its request through   *)
(* RESPONSES, keyed by the printed bundle pack, which is the bundle id and *)
(* the retention constraints in the order their hash set happens to have.  *)
(* A pack that comes back from the router is decoded into a new hash set,  *)
(* so with two constraints the order may differ.                           *)
(*                                                                         *)
(* Packets go to the router through a channel that may be full.  Which     *)
(* packets are in it is left out: a request counts as asked once it is in. *)
(*                                                                         *)
(* forward() is exclusive per bundle, so a bundle has one request at a     *)
(* time; answers to an earlier request may still arrive.                   *)
(***************************************************************************)
EXTENDS Integers

CONSTANTS
    Routed,         \* bundles being forwarded
    Orders,         \* bundle -> the orders in which its constraints may be printed
    Routers,        \* external routers
    ChannelSize,    \* packets the channel to a router holds, 100 in the code
    MaxRequests     \* bound: requests per bundle

ASSUME ERoutingAssumption ==
    /\ DOMAIN Orders = Routed /\ \A b \in Routed : Orders[b] # {}
    /\ ChannelSize \in Nat \ {0}
    /\ MaxRequests \in Nat
    /\ "none" \notin Routers

VARIABLES
    connection,     \* CONNECTION: the router requests are sent to, or NoRouter
    session,        \* router -> its websocket session
    backlog,        \* router -> packets in the channel to it
    asked,          \* router -> bundle -> requests it has not answered yet
    request,        \* bundle -> its request: step, order of the constraints, whether its
                    \* channel got an answer, and (history) the router that was asked
    requests,       \* bundle -> requests so far
    responses,      \* RESPONSES: keys with a response channel
    owed,           \* history: bundle -> answers of the connected router that were
                    \* dropped, minus Timeout packets for requests it was sent
    clashed,        \* history: a router displaced another one, or left a request that
                    \* it had answered before it was sent
    overrun         \* history: the channel had no room for a Timeout packet

eroutingVars == <<connection, session, backlog, asked, request, requests, responses, owed,
                  clashed, overrun>>

NoRouter == "none"

RequestStep == {"idle", "opening", "sending", "waiting", "expired", "late"}

ERoutingTypeOK ==
    /\ connection \in Routers \cup {NoRouter}
    /\ session \in [Routers -> {"off", "checked", "on"}]
    /\ backlog \in [Routers -> 0 .. ChannelSize]
    /\ asked \in [Routers -> [Routed -> 0 .. MaxRequests]]
    /\ \A b \in Routed :
         request[b] \in [step : RequestStep, order : Orders[b], got : BOOLEAN,
                        to : Routers \cup {NoRouter}]
    /\ requests \in [Routed -> 0 .. MaxRequests]
    /\ \A k \in responses : k[1] \in Routed /\ k[2] \in Orders[k[1]]
    /\ owed \in [Routed -> -MaxRequests .. MaxRequests]
    /\ clashed \in BOOLEAN /\ overrun \in BOOLEAN

ERoutingInit ==
    /\ connection = NoRouter
    /\ session = [r \in Routers |-> "off"]
    /\ backlog = [r \in Routers |-> 0]
    /\ asked = [r \in Routers |-> [b \in Routed |-> 0]]
    /\ request = [b \in Routed |-> [step |-> "idle", order |-> CHOOSE o \in Orders[b] : TRUE,
                                    got |-> FALSE, to |-> NoRouter]]
    /\ requests = [b \in Routed |-> 0]
    /\ responses = {}
    /\ owed = [b \in Routed |-> 0]
    /\ clashed = FALSE
    /\ overrun = FALSE

Key(b) == <<b, request[b].order>>
Goto(b, step) == request' = [request EXCEPT ![b].step = step]

\* send_packet: without a router nothing is sent, and try_send fails on a full channel.
Room == connection # NoRouter /\ backlog[connection] < ChannelSize
SendPacket ==
    backlog' = IF Room THEN [backlog EXCEPT ![connection] = @ + 1] ELSE backlog

------------------------------------------------------------------------------
\* handle_connection.

\* Another router is connected: this one is told and closed; otherwise it goes on.
RouterArrives(r) ==
    /\ session[r] = "off"
    /\ connection = NoRouter
    /\ session' = [session EXCEPT ![r] = "checked"]
    /\ UNCHANGED <<connection, backlog, asked, request, requests, responses, owed, clashed,
                   overrun>>

\* CONNECTION is set without looking again; the router is sent peers and services.
RouterConnects(r) ==
    /\ session[r] = "checked"
    /\ session' = [session EXCEPT ![r] = "on"]
    /\ connection' = r
    /\ backlog' = [backlog EXCEPT ![r] = IF ChannelSize < 2 THEN ChannelSize ELSE 2]
    /\ clashed' = (clashed \/ connection # NoRouter)
    /\ UNCHANGED <<asked, request, requests, responses, owed, overrun>>

\* disconnect clears CONNECTION, whoever it belongs to.  A router that is gone
\* answers nothing and is owed nothing.
RouterLeaves(r) ==
    /\ session[r] = "on"
    /\ session' = [session EXCEPT ![r] = "off"]
    /\ connection' = NoRouter
    /\ backlog' = [backlog EXCEPT ![r] = 0]
    /\ asked' = [asked EXCEPT ![r] = [b \in Routed |-> 0]]
    /\ request' = [b \in Routed |-> [request[b] EXCEPT !.to = IF @ = r THEN NoRouter ELSE @]]
    /\ owed' = [b \in Routed |-> 0]
    /\ clashed' = (clashed \/ \E b \in Routed : request[b].step = "sending" /\ request[b].got)
    /\ UNCHANGED <<requests, responses, overrun>>

\* receive_from_others takes a packet and writes it to the websocket.
WritePacket(r) ==
    /\ backlog[r] > 0
    /\ backlog' = [backlog EXCEPT ![r] = @ - 1]
    /\ UNCHANGED <<connection, session, asked, request, requests, responses, owed, clashed,
                   overrun>>

\* notify: a routing notification on its way to the router.
Notify ==
    /\ Room
    /\ SendPacket
    /\ UNCHANGED <<connection, session, asked, request, requests, responses, owed, clashed,
                   overrun>>

\* A ResponseSenderForBundle: the channel under the printed pack is taken, and
\* the answer passed on if its request still waits.
HandleResponse(r, b, order) ==
    /\ session[r] = "on" /\ asked[r][b] > 0
    /\ asked' = [asked EXCEPT ![r][b] = @ - 1]
    /\ responses' = responses \ {<<b, order>>}
    /\ IF <<b, order>> \in responses /\ request[b].step \in {"sending", "waiting"}
       THEN request' = [request EXCEPT ![b].got = TRUE] /\ UNCHANGED owed
       ELSE owed' = [owed EXCEPT ![b] = @ + 1] /\ UNCHANGED request
    /\ UNCHANGED <<connection, session, backlog, requests, clashed, overrun>>

------------------------------------------------------------------------------
\* sender_for_bundle.

\* Without a router there is nothing to ask.
StartRequest(b) ==
    /\ request[b].step = "idle" /\ requests[b] < MaxRequests
    /\ requests' = [requests EXCEPT ![b] = @ + 1]
    /\ \E o \in Orders[b] :
          request' = [request EXCEPT ![b] =
                        [step |-> IF connection = NoRouter THEN "idle" ELSE "opening",
                         order |-> o, got |-> FALSE, to |-> NoRouter]]
    /\ UNCHANGED <<connection, session, backlog, asked, responses, owed, clashed, overrun>>

\* create_response_channel.
OpenChannel(b) ==
    /\ request[b].step = "opening"
    /\ responses' = responses \cup {Key(b)}
    /\ Goto(b, "sending")
    /\ UNCHANGED <<connection, session, backlog, asked, requests, owed, clashed, overrun>>

\* The router may have left in between, or its channel be full.  An answer to an
\* earlier request may have taken the channel of this one already.
SendRequest(b) ==
    /\ request[b].step = "sending"
    /\ SendPacket
    /\ asked' = IF Room THEN [asked EXCEPT ![connection][b] = @ + 1] ELSE asked
    /\ request' = [request EXCEPT ![b].step = "waiting",
                                  ![b].to = IF Room THEN connection ELSE NoRouter]
    /\ UNCHANGED <<connection, session, requests, responses, owed, clashed, overrun>>

\* The answer ends the request.
UseAnswer(b) ==
    /\ request[b].step = "waiting" /\ request[b].got
    /\ responses' = responses \ {Key(b)}
    /\ Goto(b, "idle")
    /\ UNCHANGED <<connection, session, backlog, asked, requests, owed, clashed, overrun>>

\* MISTAKE: the wait has no time limit while a router is connected.
ExpireIfGone(b) ==
    /\ request[b].step = "waiting" /\ ~request[b].got /\ connection = NoRouter
    /\ Goto(b, "expired")
    /\ UNCHANGED <<connection, session, backlog, asked, requests, responses, owed, clashed,
                   overrun>>

\* The timeout fires.
Expire(b) ==
    /\ request[b].step = "waiting" /\ ~request[b].got
    /\ Goto(b, "expired")
    /\ UNCHANGED <<connection, session, backlog, asked, requests, responses, owed, clashed,
                   overrun>>

\* MISTAKE: the router is not told.
SilentTimeout(b) ==
    /\ request[b].step = "expired"
    /\ Goto(b, "late")
    /\ UNCHANGED <<connection, session, backlog, asked, requests, responses, owed, clashed,
                   overrun>>

\* The Timeout packet.  It may find another router than the one that was asked,
\* none, or no room.
SendTimeout(b) ==
    LET told == connection # NoRouter /\ connection = request[b].to
    IN  /\ request[b].step = "expired"
        /\ SendPacket
        /\ owed' = [owed EXCEPT ![b] = IF told /\ Room THEN @ - 1 ELSE @]
        /\ overrun' = (overrun \/ (told /\ ~Room))
        /\ Goto(b, "late")
        /\ UNCHANGED <<connection, session, asked, requests, responses, clashed>>

\* MISTAKE: the channel of a request that timed out stays.
CloseChannelNot(b) ==
    /\ request[b].step = "late"
    /\ Goto(b, "idle")
    /\ UNCHANGED <<connection, session, backlog, asked, requests, responses, owed, clashed,
                   overrun>>

\* remove_response_channel after a timeout.
CloseChannel(b) ==
    /\ request[b].step = "late"
    /\ responses' = responses \ {Key(b)}
    /\ Goto(b, "idle")
    /\ UNCHANGED <<connection, session, backlog, asked, requests, owed, clashed, overrun>>

RequestRuns(b) ==
    \/ OpenChannel(b) \/ SendRequest(b) \/ UseAnswer(b) \/ Expire(b)
    \/ SendTimeout(b) \/ CloseChannel(b)

ERoutingNext ==
    \/ \E r \in Routers : RouterArrives(r) \/ RouterConnects(r) \/ RouterLeaves(r)
                           \/ WritePacket(r)
    \/ Notify
    \/ \E r \in Routers, b \in Routed : \E o \in Orders[b] : HandleResponse(r, b, o)
    \/ \E b \in Routed : StartRequest(b) \/ RequestRuns(b)

\* The task of a request goes on and its timer runs out.
ERoutingFairness == \A b \in Routed : WF_eroutingVars(RequestRuns(b))

ERoutingSpec == ERoutingInit /\ [][ERoutingNext]_eroutingVars /\ ERoutingFairness

------------------------------------------------------------------------------
\* Properties.

\* RESPONSES only holds channels of requests that are not finished: a late
\* answer cannot leave one behind, nor a timeout, and the key of
\* every channel is the one its request will look under.
NoStaleChannel ==
    \A k \in responses : k = Key(k[1]) /\ request[k[1]].step \notin {"idle", "opening"}

\* The router learns of every answer that came to nothing: for each of its answers
\* that was dropped a Timeout packet went into its channel, or a request that it was
\* sent is still to send one, as long as the channel had room for the Timeout packets
\* and no two routers got into one request.
RouterLearns ==
    ~clashed /\ ~overrun =>
        \A b \in Routed :
            owed[b] <= IF request[b].step \in {"waiting", "expired"} /\ request[b].to # NoRouter
                       THEN 1 ELSE 0

\* A request returns, whatever the router does: forward() cannot hang in it.
RequestsReturn == \A b \in Routed : request[b].step # "idle" ~> request[b].step = "idle"

\* "we check if a response channel for that bundle id exists and send the
\* response on that channel" (erouting/processing.rs): no answer is dropped
\* while a request for its bundle waits.
AnswerFindsRequest ==
    [][\A b \in Routed :
         owed'[b] > owed[b] /\ UNCHANGED session =>
             ~(request[b].step = "waiting" /\ ~request[b].got)]_eroutingVars
==============================================================================
