------------------------------ MODULE WsSession ------------------------------
(***************************************************************************)
(* Websocket sessions of applications (dtnd/ws.rs) and the application     *)
(* agents whose bundles they fetch (core/application_agent.rs).            *)
(*                                                                         *)
(* A session is five tasks around one mutex.  recv_task handles the        *)
(* client's messages, br_task the bundles that an agent mailed to the      *)
(* session, reflush_task fetches what waits in the agents, hb_task sends   *)
(* pings and looks for answers, send_task empties the bounded channel of   *)
(* outgoing messages into the socket.  The first three put their messages  *)
(* into that channel while they hold the mutex, and wait when it is full.  *)
(*                                                                         *)
(* An agent mails its bundles to the session that subscribed last.  Agents *)
(* stay registered here; Processing has them come and go.  Submissions of  *)
(* clients are left out, as all they do is to call send_bundle.            *)
(***************************************************************************)
EXTENDS Naturals, Sequences

CONSTANTS
    Clients,        \* one session each
    Agents,         \* endpoints
    Mail,           \* bundles for these endpoints
    AgentOf,        \* bundle -> its endpoint
    Payloadless,    \* bundles without payload
    MailboxSize,    \* 32 in the code
    OutboxSize,     \* 100 in the code
    Casts           \* BOUND: who a behaviour is about: the bundles, how many messages
                    \* each client sends, and the clients that change their mode,
                    \* fall silent or stop reading

Nobody == "nobody"
Text == "text"      \* a reply or a ping

ASSUME WsSessionAssumption ==
    /\ Nobody \notin Clients /\ Text \notin Mail
    /\ AgentOf \in [Mail -> Agents]
    /\ Payloadless \subseteq Mail
    /\ Casts \subseteq [mail : SUBSET Mail, messages : [Clients -> Nat], fickle : SUBSET Clients]
    /\ MailboxSize \in Nat \ {0} /\ OutboxSize \in Nat \ {0}

VARIABLES
    cast,           \* the cast of this behaviour
    delivery,       \* agent -> the session it mails to, or Nobody
    agentQueue,     \* agent -> bundles that wait for a fetch
    status,         \* session -> "new", "on", "ending" or "ended"
    endpoints,      \* session -> its subscriptions
    ever,           \* sessions that have subscribed: endpoints is not None
    sent,           \* session -> messages its client has sent
    mode,           \* session -> whether clients get bundles or data
    mutex,          \* session -> what the holder of the mutex is doing
    mailbox,        \* session -> mailed bundles
    taken,          \* session -> the bundle br_task waits for the mutex with
    fetching,       \* session -> agents that a fetch has still to look at
    sending,        \* session -> messages the holder has still to send
    outbox,         \* session -> outgoing messages
    heartbeat,      \* session -> "check" or "ping"
    overdue,        \* sessions whose last sign of life is older than CLIENT_TIMEOUT
    stalled,        \* clients that no longer read
    seen,           \* client -> bundles it got
    lost            \* history: bundles that went down with a session, or had no payload

wsVars == <<cast, delivery, agentQueue, status, endpoints, ever, sent, mode, mutex, mailbox, taken, fetching,
            sending, outbox, heartbeat, overdue, stalled, seen, lost>>

Messages == Mail \cup {Text}
Modes == {"bundle", "data"}

WsTypeOK ==
    /\ cast \in Casts
    /\ delivery \in [Agents -> Clients \cup {Nobody}]
    /\ agentQueue \in [Agents -> Seq(Mail)]
    /\ status \in [Clients -> {"new", "on", "ending", "ended"}]
    /\ endpoints \in [Clients -> SUBSET Agents]
    /\ mode \in [Clients -> Modes] /\ sent \in [Clients -> Nat]
    /\ mutex \in [Clients -> {"free", "reply", "subscribe", "fetch", "deliver"}]
    /\ mailbox \in [Clients -> Seq(Mail)] /\ taken \in [Clients -> Seq(Mail)]
    /\ fetching \in [Clients -> SUBSET Agents]
    /\ sending \in [Clients -> Seq(Messages)] /\ outbox \in [Clients -> Seq(Messages)]
    /\ heartbeat \in [Clients -> {"check", "ping"}]
    /\ ever \subseteq Clients /\ overdue \subseteq Clients /\ stalled \subseteq Clients
    /\ seen \in [Clients -> SUBSET Mail] /\ lost \subseteq Mail
    /\ \A w \in Clients : Len(mailbox[w]) <= MailboxSize /\ Len(outbox[w]) <= OutboxSize

WsInit ==
    /\ cast \in Casts
    /\ delivery = [e \in Agents |-> Nobody]
    /\ agentQueue = [e \in Agents |-> <<>>]
    /\ status = [w \in Clients |-> "new"]
    /\ endpoints = [w \in Clients |-> {}] /\ fetching = [w \in Clients |-> {}]
    /\ mode = [w \in Clients |-> "data"] /\ sent = [w \in Clients |-> 0]
    /\ mutex = [w \in Clients |-> "free"]
    /\ mailbox = [w \in Clients |-> <<>>] /\ taken = [w \in Clients |-> <<>>]
    /\ sending = [w \in Clients |-> <<>>] /\ outbox = [w \in Clients |-> <<>>]
    /\ heartbeat = [w \in Clients |-> "check"]
    /\ seen = [w \in Clients |-> {}]
    /\ ever = {} /\ overdue = {} /\ stalled = {} /\ lost = {}

------------------------------------------------------------------------------
\* The application agent.

\* The bundles among some messages.
MailIn(msgs) == {msgs[i] : i \in 1 .. Len(msgs)} \ {Text}

Addressed == UNION {MailIn(agentQueue[e]) : e \in Agents}

\* Bundles in a session that have not reached its client.
InSession(w) ==
    MailIn(mailbox[w]) \cup MailIn(taken[w]) \cup MailIn(sending[w]) \cup MailIn(outbox[w])

Pushed == Addressed \cup lost \cup UNION {InSession(w) \cup seen[w] : w \in Clients}

\* MISTAKE: a bundle that is mailed is kept in the queue as well.
AgentPushTwice(b) ==
    LET e == AgentOf[b]
        w == delivery[e]
    IN  /\ b \in cast.mail \ Pushed
        /\ IF w # Nobody /\ status[w] = "on" /\ Len(mailbox[w]) < MailboxSize
           THEN mailbox' = [mailbox EXCEPT ![w] = Append(@, b)] ELSE UNCHANGED mailbox
        /\ agentQueue' = [agentQueue EXCEPT ![e] = Append(@, b)]
        /\ UNCHANGED <<cast, delivery, status, endpoints, ever, sent, mode, mutex, taken, fetching, sending,
                       outbox, heartbeat, overdue, stalled, seen, lost>>

\* push: mail it, or queue it when nobody is subscribed or the mailbox is full or
\* closed.  The mailbox of a session that ends closes some time before its end.
AgentPush(b) ==
    LET e == AgentOf[b]
        w == delivery[e]
    IN  /\ b \in cast.mail \ Pushed
        /\ \/ /\ w # Nobody /\ status[w] \in {"on", "ending"} /\ Len(mailbox[w]) < MailboxSize
              /\ mailbox' = [mailbox EXCEPT ![w] = Append(@, b)]
              /\ UNCHANGED agentQueue
           \/ /\ w # Nobody => status[w] # "on" \/ Len(mailbox[w]) = MailboxSize
              /\ agentQueue' = [agentQueue EXCEPT ![e] = Append(@, b)]
              /\ UNCHANGED mailbox
        /\ UNCHANGED <<cast, delivery, status, endpoints, ever, sent, mode, mutex, taken, fetching, sending,
                       outbox, heartbeat, overdue, stalled, seen, lost>>

------------------------------------------------------------------------------
\* handle_socket and handle_message.

OpenSocket(w) ==
    /\ status[w] = "new" /\ cast.messages[w] > 0
    /\ status' = [status EXCEPT ![w] = "on"]
    /\ UNCHANGED <<cast, delivery, agentQueue, endpoints, ever, sent, mode, mutex, mailbox, taken, fetching,
                   sending, outbox, heartbeat, overdue, stalled, seen, lost>>

\* The session can take its mutex and begin with something.
CanHandle(w) == status[w] = "on" /\ mutex[w] = "free"

\* A message of the client is handled.
Handle(w) ==
    /\ CanHandle(w)
    /\ sent[w] < cast.messages[w]
    /\ sent' = [sent EXCEPT ![w] = @ + 1]

\* It holds the mutex for the reply, and in the case of a subscription for more.
Replying(w, next) ==
    /\ mutex' = [mutex EXCEPT ![w] = next]
    /\ sending' = [sending EXCEPT ![w] = <<Text>>]

\* /subscribe with an endpoint id; a fetch follows the reply.  With only the name
\* of a service, none does.
SubscribeTo(w, e, fetch) ==
    /\ Handle(w)
    /\ delivery' = [delivery EXCEPT ![e] = w]
    /\ endpoints' = [endpoints EXCEPT ![w] = @ \cup {e}]
    /\ ever' = ever \cup {w}
    /\ Replying(w, IF fetch THEN "subscribe" ELSE "reply")
    /\ UNCHANGED <<cast, agentQueue, status, mode, mailbox, taken, fetching, outbox, heartbeat, overdue,
                   stalled, seen, lost>>

\* /unsubscribe clears the agent's address, whoever it is.
UnsubscribeFrom(w, e) ==
    /\ Handle(w) /\ w \in ever
    /\ endpoints' = [endpoints EXCEPT ![w] = @ \ {e}]
    /\ delivery' = [delivery EXCEPT ![e] = Nobody]
    /\ Replying(w, "reply")
    /\ UNCHANGED <<cast, agentQueue, status, ever, mode, mailbox, taken, fetching, outbox, heartbeat,
                   overdue, stalled, seen, lost>>

\* /bundle, /data and /json; commands that are unknown or refused only reply, as
\* /node does.  BOUND: the clients that do not fall silent send none of them.
Command(w, m) ==
    /\ Handle(w) /\ w \in cast.fickle
    /\ mode' = [mode EXCEPT ![w] = m]
    /\ Replying(w, "reply")
    /\ UNCHANGED <<cast, delivery, agentQueue, status, endpoints, ever, mailbox, taken, fetching, outbox,
                   heartbeat, overdue, stalled, seen, lost>>

\* Ping and Pong count as signs of life; a Ping is answered.
SignOfLife(w) ==
    /\ Handle(w) /\ w \in overdue
    /\ overdue' = overdue \ {w}
    /\ Replying(w, "reply") \/ UNCHANGED <<mutex, sending>>
    /\ UNCHANGED <<cast, delivery, agentQueue, status, endpoints, ever, mode, mailbox, taken, fetching,
                   outbox, heartbeat, stalled, seen, lost>>

------------------------------------------------------------------------------
\* Messages to the client.

\* In data mode the session makes nothing of a bundle that has no payload.
Silent(w, msg) == mode[w] = "data" /\ msg \in Payloadless

\* br_task takes a bundle from the mailbox, then the mutex.
TakeMail(w) ==
    /\ status[w] = "on"
    /\ taken[w] = <<>> /\ mailbox[w] # <<>>
    /\ taken' = [taken EXCEPT ![w] = <<Head(mailbox[w])>>]
    /\ mailbox' = [mailbox EXCEPT ![w] = Tail(@)]
    /\ UNCHANGED <<cast, delivery, agentQueue, status, endpoints, ever, sent, mode, mutex, fetching, sending,
                   outbox, heartbeat, overdue, stalled, seen, lost>>

\* handle_bundle_delivery.
DeliverMail(w) ==
    /\ CanHandle(w)
    /\ taken[w] # <<>>
    /\ mutex' = [mutex EXCEPT ![w] = "deliver"]
    /\ sending' = [sending EXCEPT ![w] = taken[w]]
    /\ taken' = [taken EXCEPT ![w] = <<>>]
    /\ UNCHANGED <<cast, delivery, agentQueue, status, endpoints, ever, sent, mode, mailbox, fetching, outbox,
                   heartbeat, overdue, stalled, seen, lost>>

\* reflush_task begins fetch_new_bundles, every 100 ms.
Reflush(w) ==
    /\ CanHandle(w)
    /\ \E e \in endpoints[w] : agentQueue[e] # <<>>
    /\ mutex' = [mutex EXCEPT ![w] = "fetch"]
    /\ fetching' = [fetching EXCEPT ![w] = endpoints[w]]
    /\ UNCHANGED <<cast, delivery, agentQueue, status, endpoints, ever, sent, mode, mailbox, taken, sending,
                   outbox, heartbeat, overdue, stalled, seen, lost>>

\* MISTAKE: only the agents that mail to this session are emptied.
FetchOwn(w, e) ==
    /\ status[w] = "on" /\ mutex[w] = "fetch"
    /\ e \in fetching[w]
    /\ fetching' = [fetching EXCEPT ![w] = @ \ {e}]
    /\ IF delivery[e] = w
       THEN /\ sending' = [sending EXCEPT ![w] = @ \o agentQueue[e]]
            /\ agentQueue' = [agentQueue EXCEPT ![e] = <<>>]
       ELSE UNCHANGED <<sending, agentQueue>>
    /\ UNCHANGED <<cast, delivery, status, endpoints, ever, sent, mode, mutex, mailbox, taken, outbox,
                   heartbeat, overdue, stalled, seen, lost>>

\* An agent is emptied; the messages are sent once all have been.
FetchFrom(w, e) ==
    /\ status[w] = "on" /\ mutex[w] = "fetch"
    /\ e \in fetching[w]
    /\ fetching' = [fetching EXCEPT ![w] = @ \ {e}]
    /\ sending' = [sending EXCEPT ![w] = @ \o agentQueue[e]]
    /\ agentQueue' = [agentQueue EXCEPT ![e] = <<>>]
    /\ UNCHANGED <<cast, delivery, status, endpoints, ever, sent, mode, mutex, mailbox, taken, outbox,
                   heartbeat, overdue, stalled, seen, lost>>

\* A bundle is passed over as soon as it is the next to be sent; the mode cannot
\* have changed since it was fetched, as the mutex was held.
SkipMessage(w) ==
    /\ status[w] = "on" /\ mutex[w] # "free" /\ fetching[w] = {}
    /\ sending[w] # <<>> /\ Silent(w, Head(sending[w]))
    /\ sending' = [sending EXCEPT ![w] = Tail(@)]
    /\ lost' = lost \cup {Head(sending[w])}
    /\ UNCHANGED <<cast, delivery, agentQueue, status, endpoints, ever, sent, mode, mutex, mailbox, taken,
                   fetching, outbox, heartbeat, overdue, stalled, seen>>

\* The holder of the mutex sends a message, as soon as there is room.
PutMessage(w) ==
    /\ status[w] = "on" /\ mutex[w] # "free" /\ fetching[w] = {}
    /\ sending[w] # <<>> /\ ~Silent(w, Head(sending[w]))
    /\ Len(outbox[w]) < OutboxSize
    /\ outbox' = [outbox EXCEPT ![w] = Append(@, Head(sending[w]))]
    /\ sending' = [sending EXCEPT ![w] = Tail(@)]
    /\ UNCHANGED <<cast, delivery, agentQueue, status, endpoints, ever, sent, mode, mutex, mailbox, taken,
                   fetching, heartbeat, overdue, stalled, seen, lost>>

\* All is sent: the mutex is free, or the subscription goes on with its fetch.
Finish(w) ==
    /\ status[w] = "on" /\ mutex[w] # "free"
    /\ fetching[w] = {} /\ sending[w] = <<>>
    /\ IF mutex[w] = "subscribe"
       THEN /\ mutex' = [mutex EXCEPT ![w] = "fetch"]
            /\ fetching' = [fetching EXCEPT ![w] = endpoints[w]]
       ELSE mutex' = [mutex EXCEPT ![w] = "free"] /\ UNCHANGED fetching
    /\ UNCHANGED <<cast, delivery, agentQueue, status, endpoints, ever, sent, mode, mailbox, taken, sending,
                   outbox, heartbeat, overdue, stalled, seen, lost>>

\* send_task.
ToClient(w) ==
    /\ status[w] = "on" /\ w \notin stalled
    /\ outbox[w] # <<>>
    /\ outbox' = [outbox EXCEPT ![w] = Tail(@)]
    /\ seen' = [seen EXCEPT ![w] = @ \cup ({Head(outbox[w])} \ {Text})]
    /\ UNCHANGED <<cast, delivery, agentQueue, status, endpoints, ever, sent, mode, mutex, mailbox, taken,
                   fetching, sending, heartbeat, overdue, stalled, lost>>

------------------------------------------------------------------------------
\* Heartbeats and the end of a session.

\* MISTAKE: the timeout is not looked at.
HeartbeatLoose(w) ==
    /\ CanHandle(w) /\ heartbeat[w] = "check" /\ w \in cast.fickle
    /\ heartbeat' = [heartbeat EXCEPT ![w] = "ping"]
    /\ UNCHANGED <<cast, delivery, agentQueue, status, endpoints, ever, sent, mode, mutex, mailbox, taken,
                   fetching, sending, outbox, overdue, stalled, seen, lost>>

\* hb_task needs the mutex to look at the last sign of life.  BOUND: the pings of
\* clients that always answer are left out.
Heartbeat(w) ==
    /\ CanHandle(w) /\ heartbeat[w] = "check" /\ w \in cast.fickle
    /\ IF w \in overdue THEN status' = [status EXCEPT ![w] = "ending"] /\ UNCHANGED heartbeat
       ELSE heartbeat' = [heartbeat EXCEPT ![w] = "ping"] /\ UNCHANGED status
    /\ UNCHANGED <<cast, delivery, agentQueue, endpoints, ever, sent, mode, mutex, mailbox, taken, fetching,
                   sending, outbox, overdue, stalled, seen, lost>>

\* ... and room in the channel to send a ping.
Ping(w) ==
    /\ status[w] = "on" /\ heartbeat[w] = "ping"
    /\ Len(outbox[w]) < OutboxSize
    /\ outbox' = [outbox EXCEPT ![w] = Append(@, Text)]
    /\ heartbeat' = [heartbeat EXCEPT ![w] = "check"]
    /\ UNCHANGED <<cast, delivery, agentQueue, status, endpoints, ever, sent, mode, mutex, mailbox, taken,
                   fetching, sending, overdue, stalled, seen, lost>>

\* CLIENT_TIMEOUT has passed since the last sign of life.
BecomeOverdue(w) ==
    /\ status[w] = "on" /\ w \in cast.fickle \ overdue
    /\ overdue' = overdue \cup {w}
    /\ UNCHANGED <<cast, delivery, agentQueue, status, endpoints, ever, sent, mode, mutex, mailbox, taken,
                   fetching, sending, outbox, heartbeat, stalled, seen, lost>>

\* The client stops reading and keeps the connection.
Stall(w) ==
    /\ status[w] = "on" /\ w \in cast.fickle \ stalled
    /\ stalled' = stalled \cup {w}
    /\ UNCHANGED <<cast, delivery, agentQueue, status, endpoints, ever, sent, mode, mutex, mailbox, taken,
                   fetching, sending, outbox, heartbeat, overdue, seen, lost>>

\* The client leaves, or the connection breaks.
Hangup(w) ==
    /\ status[w] = "on"
    /\ status' = [status EXCEPT ![w] = "ending"]
    /\ UNCHANGED <<cast, delivery, agentQueue, endpoints, ever, sent, mode, mutex, mailbox, taken, fetching,
                   sending, outbox, heartbeat, overdue, stalled, seen, lost>>

\* The tasks are aborted, and the addresses of all subscriptions cleared, even if
\* other sessions set them.
EndSession(w) ==
    /\ status[w] = "ending"
    /\ status' = [status EXCEPT ![w] = "ended"]
    /\ delivery' = [e \in Agents |-> IF e \in endpoints[w] THEN Nobody ELSE delivery[e]]
    /\ lost' = lost \cup InSession(w)
    /\ mailbox' = [mailbox EXCEPT ![w] = <<>>] /\ taken' = [taken EXCEPT ![w] = <<>>]
    /\ sending' = [sending EXCEPT ![w] = <<>>] /\ outbox' = [outbox EXCEPT ![w] = <<>>]
    /\ mutex' = [mutex EXCEPT ![w] = "free"] /\ fetching' = [fetching EXCEPT ![w] = {}]
    /\ UNCHANGED <<cast, agentQueue, endpoints, ever, sent, mode, heartbeat, overdue, stalled, seen>>

WsHolder(w) == SkipMessage(w) \/ PutMessage(w) \/ Finish(w) \/ \E e \in Agents : FetchFrom(w, e)

WsNext ==
    \/ \E b \in Mail : AgentPush(b)
    \/ \E w \in Clients :
          \/ OpenSocket(w) \/ SignOfLife(w) \/ \E m \in Modes : Command(w, m)
          \/ \E e \in Agents : UnsubscribeFrom(w, e) \/ \E f \in BOOLEAN : SubscribeTo(w, e, f)
          \/ TakeMail(w) \/ DeliverMail(w) \/ Reflush(w) \/ WsHolder(w) \/ ToClient(w)
          \/ Heartbeat(w) \/ Ping(w) \/ BecomeOverdue(w)
          \/ Stall(w) \/ Hangup(w) \/ EndSession(w)

\* The tasks of a session go on; those who wait for its mutex, or for room in its
\* channel, are served in turn.
WsFairness ==
    \A w \in Clients :
        /\ WF_wsVars(TakeMail(w)) /\ WF_wsVars(DeliverMail(w)) /\ WF_wsVars(Reflush(w))
        /\ WF_wsVars(Heartbeat(w)) /\ WF_wsVars(Ping(w))
        /\ SF_wsVars(WsHolder(w)) /\ WF_wsVars(ToClient(w)) /\ WF_wsVars(EndSession(w))

WsSpec == WsInit /\ [][WsNext]_wsVars /\ WsFairness

------------------------------------------------------------------------------
\* Properties.

\* A bundle handed to an agent is at one place, however sessions take each
\* other's subscriptions, end and fetch: in the agent's queue, in one session, at one
\* client, or gone with a session; it is never with two of them.
OnePlace ==
    /\ \A w \in Clients, b \in Mail :
          b \in InSession(w) \cup seen[w] =>
              /\ b \notin Addressed \cup lost
              /\ \A v \in Clients \ {w} : b \notin InSession(v) \cup seen[v]
              /\ ~(b \in InSession(w) /\ b \in seen[w])
    /\ Addressed \cap lost = {}

\* While a client stays subscribed and reads, no bundle for it waits for ever,
\* neither in the agent nor in the session, even though another session may have
\* taken over, or cleared, the agent's address.
SubscriberServed ==
    \A w \in Clients, b \in Mail :
        <>[](status[w] = "on" /\ AgentOf[b] \in endpoints[w] /\ w \notin stalled)
          => []<>(b \notin MailIn(agentQueue[AgentOf[b]]) \cup InSession(w))

\* "Client must send ping at least once [...], otherwise we drop connection" (ws.rs),
\* with the one exception the code has: a client that does not read either, and whose
\* channel of outgoing messages is full, keeps the session for ever.
SilentDropped ==
    \A w \in Clients :
        <>[](status[w] = "on" /\ w \in overdue)
          => <>[](w \in stalled /\ Len(outbox[w]) = OutboxSize)
==============================================================================
