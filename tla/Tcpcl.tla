------------------------------- MODULE Tcpcl --------------------------------
(***************************************************************************)
(* The TCP convergence layer (cla/tcp): the table of sessions, the tasks   *)
(* that look a session up or dial one, the handshake, and the two session  *)
(* tasks at the ends of a connection, each of them cla/tcp/mod.rs.         *)
(*                                                                         *)
(* A session task is one select! loop, so handling a packet, taking a      *)
(* bundle from the queue and an idle timeout are one action each.  The     *)
(* bytes of a bundle are kept, so that what a receiver puts together can   *)
(* be compared with what was sent; a packet is a record of its fields.     *)
(*                                                                         *)
(* The connection is TCP: packets arrive in order, until it is cut, and    *)
(* only so many fit between the two tasks.  The task awaits each write, so *)
(* while it has more to write than fits it does nothing else.              *)
(* BOUND: the dialer opens its next connection once the listener's end of  *)
(* the previous one is gone too, and the listener, which knows only the    *)
(* dialer's ephemeral port, never reaches it again by dialing.             *)
(***************************************************************************)
EXTENDS Naturals, Sequences, FiniteSets

CONSTANTS
    Dialer, Listener,   \* the two nodes
    Bundles,
    Size,               \* bytes of each bundle
    Malformed,          \* bundles that Bundle::try_from does not accept
    Transfers,          \* <<node, bundle>>: what forward() may hand to the layer
    Traffic,            \* BOUND: the sets of transfers one behaviour may be about
    StoredBefore,       \* bundles in each node's store at the start
    SegmentMru,         \* announced by each node
    TransferMru,        \* announced by each node
    Careless,           \* external nodes that send whatever the peer announced
    Buffer,             \* INTERNAL_CHANNEL_BUFFER
    Pipe,               \* packets that fit between two session tasks: the socket
                        \* buffers and the reader's RECEIVE_PACKET_BUFFER
    MaxDials            \* BOUND: connections in a behaviour

Nodes == {Dialer, Listener}

ASSUME TcpclAssumption ==
    /\ Dialer # Listener
    /\ Size \in [Bundles -> Nat \ {0}]      \* a serialized bundle is never empty
    /\ Malformed \subseteq Bundles
    /\ Transfers \subseteq Nodes \X Bundles
    /\ Traffic \subseteq SUBSET Transfers
    /\ StoredBefore \in [Nodes -> SUBSET Bundles]
    /\ SegmentMru \in [Nodes -> Nat \ {0}]
    /\ TransferMru \in [Nodes -> Nat \ {0}]
    /\ Careless \subseteq Nodes
    /\ Buffer \in Nat \ {0}
    /\ Pipe \in Nat \ {0}
    /\ MaxDials \in Nat

VARIABLES
    refuse,     \* nodes configured with refuse-existing-bundles
    dials,      \* connections attempted so far
    cut,        \* the connection is broken
    met,        \* the listener has the dialer in its peer table
    sess,       \* each node's session
    wire,       \* packets on their way to each node, and then what the other
                \* session's task has yet to write
    queue,      \* rx_session_queue of each node
    task,       \* what became of each transfer
    chan,       \* the connection whose channel a transfer's task holds
    received,   \* bundles each node handed to processing::receive
    known,      \* bundles in each node's store
    broken,     \* bytes a node could not parse (STATS.broken)
    faulty      \* history: nodes whose session met a protocol error

vars == <<refuse, dials, cut, met, sess, wire, queue, task, chan, received, known,
          broken, faulty>>

Other(p) == IF p = Dialer THEN Listener ELSE Dialer

\* The bytes of a bundle, and how send_bundle splits them.
Bytes(b) == [n \in 1..Size[b] |-> <<b, n>>]
Ceil(n, d) == (n + d - 1) \div d
Chunk(b, mru, k) == SubSeq(Bytes(b), (k - 1) * mru + 1,
                           IF k * mru < Size[b] THEN k * mru ELSE Size[b])

ContactHeader       == [t |-> "ContactHeader"]
SessInit            == [t |-> "SessInit"]
KeepAlive           == [t |-> "KeepAlive"]
SessTerm(reply, why) == [t |-> "SessTerm", reply |-> reply, reason |-> why]
XferAck(tid, len)   == [t |-> "XferAck", tid |-> tid, len |-> len]
XferRefuse(tid)     == [t |-> "XferRefuse", tid |-> tid]
XferSeg(tid, start, end, buf, ext) ==
    [t |-> "XferSeg", tid |-> tid, start |-> start, end |-> end, buf |-> buf, ext |-> ext]

\* ReceiveState and SendState.  "Terminated" is the phase "down", or closing
\* while the last packet is still to be written.
Idle                == [st |-> "Idle"]
Receiving(buf, tid) == [st |-> "Receiving", buf |-> buf, tid |-> tid]
Discarding(tid)     == [st |-> "Discarding", tid |-> tid]
Sending(b)          == [st |-> "Sending", b |-> b]
TransferRequest(b)  == [st |-> "TransferRequest", b |-> b]

Fresh(phase) ==
    [phase |-> phase, rcv |-> Idle, snd |-> Idle, last_tid |-> 0,
     ka_sent |-> FALSE, ka_received |-> FALSE, closing |-> FALSE]

Answers == {"Successful", "Failure", "dropped"}

\* is_closed() of the channel to p's session is the negation.
Open(p) == sess[p].phase \notin {"off", "down"}

\* p's task is inside packet.write(..).await.
Writing(p) == Len(wire[Other(p)]) > Pipe

\* p's task is back in select!, or reads the next packet of the handshake.
Ready(p) == ~sess[p].closing /\ ~Writing(p)

\* p's task is writing the segments of a bundle.
InSendBundle(p) == Writing(p) /\ sess[p].snd.st = "Sending" /\ ~sess[p].closing

------------------------------------------------------------------------------
(***************************************************************************)
(* What a step of p's session task does to the shared state.               *)
(***************************************************************************)
\* What p writes goes onto the wire while the peer's end and the connection hold.
Sent(p, out) == IF Open(Other(p)) /\ ~cut THEN wire[Other(p)] \o out ELSE wire[Other(p)]

\* The task handles the first packet and goes on with state s.
Handled(p, s, out) ==
    /\ sess' = [sess EXCEPT ![p] = s]
    /\ wire' = [wire EXCEPT ![p] = Tail(@), ![Other(p)] = Sent(p, out)]

\* MISTAKE: the transfers of the session keep waiting.
EndKeepsReplies(p) ==
    /\ sess' = [sess EXCEPT ![p] = Fresh("down")]
    /\ wire' = [wire EXCEPT ![p] = <<>>]
    /\ queue' = [queue EXCEPT ![p] = <<>>]
    /\ UNCHANGED task

\* The task ends: the channel closes, and with it go the reply channels of
\* the transfers that were in it or under way.
End(p) ==
    /\ sess' = [sess EXCEPT ![p] = Fresh("down")]
    /\ wire' = [wire EXCEPT ![p] = <<>>]
    /\ queue' = [queue EXCEPT ![p] = <<>>]
    /\ task' = [t \in Transfers |->
                  IF t[1] = p /\ task[t] = "queued" THEN "dropped" ELSE task[t]]

Answer(p, b, r) == task' = [task EXCEPT ![<<p, b>>] = r]

Active(s) == [s EXCEPT !.ka_sent = FALSE, !.ka_received = FALSE]

------------------------------------------------------------------------------
(***************************************************************************)
(* tcp_send_bundles, one task per transfer.                                *)
(***************************************************************************)
\* The channel of the session in TCP_CONNECTIONS, unless it is closed.
Lookup(p, b) ==
    /\ task[<<p, b>>] = "idle"
    /\ p = Dialer \/ met
    /\ Open(p)
    /\ task' = [task EXCEPT ![<<p, b>>] = "found"]
    /\ chan' = [chan EXCEPT ![<<p, b>>] = dials]
    /\ UNCHANGED <<refuse, dials, cut, met, sess, wire, queue, received, known, broken, faulty>>

\* No usable channel: insert a new one, then connect.
Dial(b) ==
    /\ task[<<Dialer, b>>] = "idle"
    /\ \A p \in Nodes : ~Open(p)
    /\ dials < MaxDials
    /\ dials' = dials + 1
    /\ cut' = FALSE
    /\ sess' = [sess EXCEPT ![Dialer] = Fresh("dialing")]
    /\ task' = [task EXCEPT ![<<Dialer, b>>] = "dialing"]
    /\ chan' = [chan EXCEPT ![<<Dialer, b>>] = dials + 1]
    /\ UNCHANGED <<refuse, met, wire, queue, received, known, broken, faulty>>

\* The listener's entry leads to a port nobody listens on any more.
DialBack(b) ==
    /\ task[<<Listener, b>>] = "idle"
    /\ met /\ ~Open(Listener)
    /\ Answer(Listener, b, "Failure")
    /\ UNCHANGED <<refuse, dials, cut, met, sess, wire, queue, chan, received, known,
                   broken, faulty>>

\* Connected: both ends spawn connect(), which writes a contact header first.
Connected(b) ==
    /\ task[<<Dialer, b>>] = "dialing"
    /\ sess' = [p \in Nodes |-> Fresh("contact")]
    /\ wire' = [p \in Nodes |-> <<ContactHeader>>]
    /\ task' = [task EXCEPT ![<<Dialer, b>>] = "found"]
    /\ UNCHANGED <<refuse, dials, cut, met, queue, chan, received, known, broken, faulty>>

\* Refused, or no answer within 3 seconds: the channel's receiver is dropped.
NotConnected(b) ==
    /\ task[<<Dialer, b>>] = "dialing"
    /\ sess' = [sess EXCEPT ![Dialer] = Fresh("down")]
    /\ queue' = [queue EXCEPT ![Dialer] = <<>>]
    /\ task' = [t \in Transfers |->
                  IF t = <<Dialer, b>> THEN "Failure"
                  ELSE IF t[1] = Dialer /\ task[t] = "queued" THEN "dropped" ELSE task[t]]
    /\ UNCHANGED <<refuse, dials, cut, met, wire, chan, received, known, broken, faulty>>

\* sender.send().await waits while the channel is full and fails once it is closed.
Push(p, b) ==
    /\ task[<<p, b>>] = "found"
    /\ \/ /\ Open(p) /\ chan[<<p, b>>] = dials
          /\ Len(queue[p]) < Buffer
          /\ queue' = [queue EXCEPT ![p] = Append(@, b)]
          /\ Answer(p, b, "queued")
       \/ /\ ~Open(p) \/ chan[<<p, b>>] # dials
          /\ Answer(p, b, "dropped")
          /\ UNCHANGED queue
    /\ UNCHANGED <<refuse, dials, cut, met, sess, wire, chan, received, known, broken, faulty>>

------------------------------------------------------------------------------
(***************************************************************************)
(* connect(): contact headers, then session parameters.                    *)
(***************************************************************************)
Next1(p, phase, type) ==
    sess[p].phase = phase /\ wire[p] # <<>> /\ Head(wire[p]).t = type

ExchangeContactHeader(p) ==
    /\ Next1(p, "contact", "ContactHeader")
    /\ Handled(p, Fresh("init"), <<SessInit>>)
    /\ UNCHANGED <<refuse, dials, cut, met, queue, task, chan, received, known, broken, faulty>>

\* The passive side puts the dialer into the peer table.
NegotiateSession(p) ==
    /\ Next1(p, "init", "SessInit")
    /\ Handled(p, Fresh("up"), <<>>)
    /\ met' = (met \/ p = Listener)
    /\ UNCHANGED <<refuse, dials, cut, queue, task, chan, received, known, broken, faulty>>

------------------------------------------------------------------------------
(***************************************************************************)
(* run(): bundles from the queue.                                          *)
(***************************************************************************)
\* MISTAKE: START again after a transfer request.
SegmentsRestart(b, q, tid, started) ==
    LET n == Ceil(Size[b], SegmentMru[q])
    IN  [k \in 1..n |-> XferSeg(tid, k = 1, k = n, Chunk(b, SegmentMru[q], k), {})]

\* send_bundle: one packet per chunk.  After a transfer request the START
\* segment has been sent already.
Segments(b, q, tid, started) ==
    LET n == Ceil(Size[b], SegmentMru[q])
    IN  [k \in 1..n |-> XferSeg(tid, k = 1 /\ ~started, k = n,
                                Chunk(b, SegmentMru[q], k), {})]

\* send(): the bundle is larger than the peer takes.
SendTooLarge(p) ==
    /\ sess[p].phase = "up" /\ sess[p].snd = Idle /\ queue[p] # <<>>
    /\ Size[Head(queue[p])] > TransferMru[Other(p)]
    /\ p \notin Careless
    /\ sess' = [sess EXCEPT ![p] = Active(@)]
    /\ queue' = [queue EXCEPT ![p] = Tail(@)]
    /\ Answer(p, Head(queue[p]), "Failure")
    /\ UNCHANGED <<refuse, dials, cut, met, wire, chan, received, known, broken, faulty>>

\* send(): with refuse-existing-bundles, ask first whether the peer has it.
Send(p) ==
    LET b == Head(queue[p])
        s == [Active(sess[p]) EXCEPT !.last_tid = @ + 1]
        ask == p \in refuse
        out == IF ask THEN <<XferSeg(s.last_tid, TRUE, FALSE, <<>>, {b})>>
               ELSE Segments(b, Other(p), s.last_tid, FALSE)
    IN  /\ sess[p].phase = "up" /\ sess[p].snd = Idle /\ queue[p] # <<>>
        /\ Size[b] <= TransferMru[Other(p)] \/ p \in Careless
        /\ ask => b \notin Malformed
        /\ sess' = [sess EXCEPT ![p] =
                      [s EXCEPT !.snd = IF ask THEN TransferRequest(b) ELSE Sending(b)]]
        /\ wire' = [wire EXCEPT ![Other(p)] = Sent(p, out)]
        /\ queue' = [queue EXCEPT ![p] = Tail(@)]
        /\ UNCHANGED <<refuse, dials, cut, met, task, chan, received, known, broken, faulty>>

\* send(): the bundle's id cannot be read, and the error ends the session.
SendUnreadable(p) ==
    /\ sess[p].phase = "up" /\ sess[p].snd = Idle /\ queue[p] # <<>>
    /\ Size[Head(queue[p])] <= TransferMru[Other(p)] \/ p \in Careless
    /\ p \in refuse /\ Head(queue[p]) \in Malformed
    /\ End(p)
    /\ UNCHANGED <<refuse, dials, cut, met, chan, received, known, broken, faulty>>

------------------------------------------------------------------------------
(***************************************************************************)
(* run() and receive(): packets.                                           *)
(***************************************************************************)
\* A segment of another transfer ends discarding a refused one.
ReceiveStateFor(p, m) ==
    IF sess[p].rcv.st = "Discarding" /\ sess[p].rcv.tid # m.tid THEN Idle ELSE sess[p].rcv

\* MISTAKE: each segment starts a new buffer.
BufferedAnew(r) == <<>>

Buffered(r) == IF r.st = "Receiving" THEN r.buf ELSE <<>>

\* The packets receive() answers with TcpSessionError::Protocol.
Unexpected(p, m) ==
    LET r == ReceiveStateFor(p, m)
        s == sess[p]
    IN  \/ m.t = "XferSeg" /\ r.st = "Receiving" /\ (m.start \/ m.tid # r.tid)
        \/ m.t = "XferSeg" /\ r.st = "Idle" /\ ~m.start
        \/ m.t \in {"XferAck", "XferRefuse"} /\ (s.snd = Idle \/ m.tid # s.last_tid)
        \/ m.t \in {"ContactHeader", "SessInit"}

ProtocolError(p) ==
    /\ sess[p].phase = "up" /\ wire[p] # <<>>
    /\ Unexpected(p, Head(wire[p]))
    /\ End(p)
    /\ faulty' = faulty \cup {p}
    /\ UNCHANGED <<refuse, dials, cut, met, chan, received, known, broken>>

\* The first packet is a segment that receive() accepts as such.
Segment(p) ==
    Next1(p, "up", "XferSeg") /\ ~Unexpected(p, Head(wire[p]))

\* START names a bundle that is in the store.
RefuseExisting(p) ==
    LET m == Head(wire[p])
    IN  /\ Segment(p)
        /\ ReceiveStateFor(p, m) = Idle
        /\ p \in refuse /\ m.ext \cap known[p] # {}
        /\ Handled(p, [Active(sess[p]) EXCEPT !.rcv = Idle], <<XferRefuse(m.tid)>>)
        /\ UNCHANGED <<refuse, dials, cut, met, queue, task, chan, received, known, broken,
                       faulty>>

Wanted(p, m) ==
    ~(ReceiveStateFor(p, m) = Idle /\ p \in refuse /\ m.ext \cap known[p] # {})

\* refuse_oversized_transfer
RefuseOversized(p) ==
    LET m == Head(wire[p])
        r == ReceiveStateFor(p, m)
    IN  /\ Segment(p)
        /\ r.st # "Discarding" /\ Wanted(p, m)
        /\ Len(Buffered(r)) + Len(m.buf) > TransferMru[p]
        /\ Handled(p, [Active(sess[p]) EXCEPT !.rcv = IF m.end THEN Idle ELSE Discarding(m.tid)],
                   <<XferRefuse(m.tid)>>)
        /\ UNCHANGED <<refuse, dials, cut, met, queue, task, chan, received, known, broken,
                       faulty>>

\* Append and acknowledge; at the END, once the acknowledgement is written,
\* process_bundle: hand the bundle over, or count and refuse bytes that are not
\* a bundle.
AcceptSegment(p) ==
    LET m   == Head(wire[p])
        r   == ReceiveStateFor(p, m)
        buf == Buffered(r) \o m.buf
        bs  == {b \in Bundles \ Malformed : buf = Bytes(b)}
        undecoded == m.end /\ bs = {}
    IN  /\ Segment(p)
        /\ r.st # "Discarding" /\ Wanted(p, m)
        /\ Len(buf) <= TransferMru[p]
        /\ m.end => Len(wire[Other(p)]) < Pipe
        /\ Handled(p, [Active(sess[p]) EXCEPT !.rcv = IF m.end THEN Idle ELSE Receiving(buf, m.tid)],
                   <<XferAck(m.tid, Len(buf))>> \o (IF undecoded THEN <<XferRefuse(m.tid)>> ELSE <<>>))
        /\ received' = [received EXCEPT ![p] = IF m.end THEN @ \cup bs ELSE @]
        /\ broken' = [broken EXCEPT ![p] = IF undecoded THEN @ \cup {buf} ELSE @]
        /\ UNCHANGED <<refuse, dials, cut, met, queue, task, chan, known, faulty>>

DiscardSegment(p) ==
    LET m == Head(wire[p])
    IN  /\ Segment(p)
        /\ ReceiveStateFor(p, m).st = "Discarding"
        /\ Handled(p, [Active(sess[p]) EXCEPT !.rcv = IF m.end THEN Idle ELSE @], <<>>)
        /\ UNCHANGED <<refuse, dials, cut, met, queue, task, chan, received, known, broken,
                       faulty>>

\* processing::receive, a task of its own, puts the bundle into the store.
Store(p, b) ==
    /\ b \in received[p] \ known[p]
    /\ known' = [known EXCEPT ![p] = @ \cup {b}]
    /\ UNCHANGED <<refuse, dials, cut, met, sess, wire, queue, task, chan, received, broken,
                   faulty>>

\* The peer wants the bundle it was asked about.
ReceiveGo(p) ==
    LET s == sess[p]
    IN  /\ Next1(p, "up", "XferAck") /\ Head(wire[p]).tid = s.last_tid
        /\ s.snd.st = "TransferRequest"
        /\ Handled(p, [Active(s) EXCEPT !.snd = Sending(s.snd.b)],
                   Segments(s.snd.b, Other(p), s.last_tid, TRUE))
        /\ UNCHANGED <<refuse, dials, cut, met, queue, task, chan, received, known, broken,
                       faulty>>

\* MISTAKE: any acknowledgement completes the transfer.
ReceiveAnyAck(p) ==
    LET s == sess[p]
    IN  /\ Next1(p, "up", "XferAck") /\ Head(wire[p]).tid = s.last_tid
        /\ s.snd.st = "Sending"
        /\ Handled(p, [Active(s) EXCEPT !.snd = Idle], <<>>)
        /\ Answer(p, s.snd.b, "Successful")
        /\ UNCHANGED <<refuse, dials, cut, met, queue, chan, received, known, broken, faulty>>

\* XferAck while sending: the length acknowledged decides.
ReceiveAck(p) ==
    LET s == sess[p]
        m == Head(wire[p])
        done == m.len >= Size[s.snd.b]
    IN  /\ Next1(p, "up", "XferAck") /\ m.tid = s.last_tid
        /\ s.snd.st = "Sending"
        /\ Handled(p, [Active(s) EXCEPT !.snd = IF done THEN Idle ELSE @], <<>>)
        /\ IF done THEN Answer(p, s.snd.b, "Successful") ELSE UNCHANGED task
        /\ UNCHANGED <<refuse, dials, cut, met, queue, chan, received, known, broken, faulty>>

\* A refused request counts as sent, a refused transfer does not.
ReceiveRefuse(p) ==
    LET s == sess[p]
    IN  /\ Next1(p, "up", "XferRefuse") /\ Head(wire[p]).tid = s.last_tid
        /\ s.snd # Idle
        /\ Handled(p, [Active(s) EXCEPT !.snd = Idle], <<>>)
        /\ Answer(p, s.snd.b, IF s.snd.st = "TransferRequest" THEN "Successful" ELSE "Failure")
        /\ UNCHANGED <<refuse, dials, cut, met, queue, chan, received, known, broken, faulty>>

ReceiveSessTerm(p) ==
    LET m == Head(wire[p])
    IN  /\ Next1(p, "up", "SessTerm")
        /\ Handled(p, [sess[p] EXCEPT !.closing = TRUE],
                   IF m.reply THEN <<>> ELSE <<SessTerm(TRUE, m.reason)>>)
        /\ UNCHANGED <<refuse, dials, cut, met, queue, task, chan, received, known, broken,
                       faulty>>

ReceiveKeepAlive(p) ==
    LET s == sess[p]
    IN  /\ Next1(p, "up", "KeepAlive")
        /\ Handled(p, [s EXCEPT !.ka_sent = ~@, !.ka_received = TRUE],
                   IF s.ka_sent THEN <<>> ELSE <<KeepAlive>>)
        /\ UNCHANGED <<refuse, dials, cut, met, queue, task, chan, received, known, broken,
                       faulty>>

\* Nothing happened for the keepalive interval.  A keepalive is due unless one
\* was sent; then the session ends, unless one was received.
IdleTimeout(p) ==
    LET s == sess[p]
        out == IF s.ka_sent THEN <<>> ELSE <<KeepAlive>>
        last == IF s.ka_received THEN <<>> ELSE <<SessTerm(FALSE, "IdleTimeout")>>
    IN  /\ s.phase = "up"
        /\ sess' = [sess EXCEPT ![p].ka_sent = TRUE, ![p].closing = ~s.ka_received]
        /\ wire' = [wire EXCEPT ![Other(p)] = Sent(p, out \o last)]
        /\ UNCHANGED <<refuse, dials, cut, met, queue, task, chan, received, known, broken,
                       faulty>>

\* The loop ends once the last packet is written.
Terminate(p) ==
    /\ sess[p].phase = "up" /\ sess[p].closing /\ ~Writing(p)
    /\ End(p)
    /\ UNCHANGED <<refuse, dials, cut, met, chan, received, known, broken, faulty>>

\* Reading or writing fails, in the session or in the handshake.
ConnectionLost(p) ==
    /\ sess[p].phase \in {"contact", "init", "up"}
    /\ cut \/ ~Open(Other(p))
    /\ End(p)
    /\ UNCHANGED <<refuse, dials, cut, met, chan, received, known, broken, faulty>>

Cut ==
    /\ ~cut
    /\ \A p \in Nodes : sess[p].phase \in {"contact", "init", "up"}
    /\ cut' = TRUE
    /\ wire' = [p \in Nodes |-> <<>>]
    /\ UNCHANGED <<refuse, dials, met, sess, queue, task, chan, received, known, broken, faulty>>

------------------------------------------------------------------------------
Init ==
    /\ refuse \in SUBSET Nodes
    /\ dials = 0
    /\ cut = FALSE
    /\ met = FALSE
    /\ sess = [p \in Nodes |-> Fresh("off")]
    /\ wire = [p \in Nodes |-> <<>>]
    /\ queue = [p \in Nodes |-> <<>>]
    /\ \E T \in Traffic : task = [t \in Transfers |-> IF t \in T THEN "idle" ELSE "absent"]
    /\ chan = [t \in Transfers |-> 0]
    /\ received = [p \in Nodes |-> {}]
    /\ known = StoredBefore
    /\ broken = [p \in Nodes |-> {}]
    /\ faulty = {}

TaskStep(p, b) ==
    \/ Lookup(p, b)
    \/ Push(p, b)
    \/ p = Dialer /\ (Dial(b) \/ Connected(b) \/ NotConnected(b))
    \/ p = Listener /\ DialBack(b)

SessionStep(p) ==
    \/ /\ Ready(p)
       /\ \/ ExchangeContactHeader(p) \/ NegotiateSession(p)
          \/ SendTooLarge(p) \/ Send(p) \/ SendUnreadable(p)
          \/ RefuseExisting(p) \/ RefuseOversized(p) \/ AcceptSegment(p) \/ DiscardSegment(p)
          \/ ReceiveGo(p) \/ ReceiveAck(p) \/ ReceiveRefuse(p)
          \/ ReceiveSessTerm(p) \/ ReceiveKeepAlive(p) \/ ProtocolError(p)
    \/ Terminate(p)
    \/ ConnectionLost(p)

\* The sleep of select!, which is not polled while the task writes.
Timeout(p) == Ready(p) /\ IdleTimeout(p)

Next ==
    \/ \E t \in Transfers : TaskStep(t[1], t[2])
    \/ \E p \in Nodes : SessionStep(p) \/ Timeout(p)
    \/ \E p \in Nodes, b \in Bundles : Store(p, b)
    \/ Cut

Spec == Init /\ [][Next]_vars

\* Tasks that can run do, and what is on an intact connection is delivered.
\* Timeouts, cuts and new transfers need not happen.
FairSpec ==
    /\ Spec
    /\ \A t \in Transfers :
         /\ WF_vars(Push(t[1], t[2]))
         /\ t[1] = Dialer => WF_vars(Connected(t[2]) \/ NotConnected(t[2]))
    /\ \A p \in Nodes : WF_vars(SessionStep(p))

\* And the sleep that can fire does.
TimedSpec == FairSpec /\ \A p \in Nodes : WF_vars(Timeout(p))

------------------------------------------------------------------------------
TypeOK ==
    /\ refuse \subseteq Nodes
    /\ dials \in 0..MaxDials
    /\ cut \in BOOLEAN /\ met \in BOOLEAN
    /\ \A p \in Nodes :
         /\ sess[p].phase \in {"off", "dialing", "contact", "init", "up", "down"}
         /\ sess[p].rcv.st \in {"Idle", "Receiving", "Discarding"}
         /\ sess[p].snd.st \in {"Idle", "Sending", "TransferRequest"}
         /\ sess[p].last_tid \in 0..Cardinality(Transfers)
         /\ queue[p] \in Seq(Bundles) /\ Len(queue[p]) <= Buffer
    /\ task \in [Transfers -> {"absent", "idle", "dialing", "found", "queued"} \cup Answers]
    /\ chan \in [Transfers -> 0..MaxDials]
    /\ received \in [Nodes -> SUBSET Bundles]
    /\ known \in [Nodes -> SUBSET Bundles]
    /\ faulty \subseteq Nodes

\* A transfer that the convergence layer reports as successful has reached the
\* peer: the peer handed the bundle on, has had it before, or could not read
\* the bytes, all of which it acknowledged.  forward() gives the bundle up then.
SuccessMeansArrived ==
    \A t \in Transfers :
        task[t] = "Successful" =>
            \/ t[2] \in received[Other(t[1])] \cup known[Other(t[1])]
            \/ Bytes(t[2]) \in broken[Other(t[1])]

\* Whatever interleaving of the two directions, of refusals and of acknowledgements
\* is on the connection, a receiver puts together only whole bundles: bytes that do
\* not parse are those of a bundle that was malformed when it was sent.
TransfersIntact ==
    \A p \in Nodes :
        /\ broken[p] \subseteq {Bytes(b) : b \in Malformed}
        /\ \A b \in received[p] : <<Other(p), b>> \in Transfers /\ b \notin Malformed

\* Two nodes that run this code never find each other violating the protocol, with
\* one exception: process_bundle refuses malformed bytes after it acknowledged them,
\* and the sender, done with that transfer, takes the refusal for an error.
ProtocolRespected ==
    \A p \in faulty : \E b \in Malformed : <<p, b>> \in Transfers /\ Bytes(b) \in broken[Other(p)]

\* Neither direction takes another packet.
Jammed == \A p \in Nodes : Len(wire[p]) >= Pipe

\* A transfer that was begun is answered, or its reply channel is dropped, which
\* forward() takes for a failure: no order of packets, refusals, full channels and
\* lost connections leaves the forwarding task waiting for ever, except when the two
\* session tasks end up writing to each other with nobody reading.
TransfersAnswered ==
    []<>~Jammed =>
        \A t \in Transfers :
            (task[t] \in {"dialing", "found", "queued"}) ~> (task[t] \in Answers)

\* run() says of sending in its select! that cancelling the receive timeout does not
\* matter, as "the timeout is respected in send()": two sessions that send each other
\* bundles are not both held in send_bundle for ever, on an intact connection.
TimeoutRespectedInSend ==
    (\A p \in Nodes : InSendBundle(p)) ~> (\E p \in Nodes : ~InSendBundle(p))

\* run() says of its idle timeout "1st time send keepalive", "2nd time terminate
\* session": the session is not ended by a timeout before a keepalive was sent.
EndsOnSecondTimeout ==
    [][\A p \in Nodes :
         (\E n \in 1..Len(wire'[Other(p)]) :
             /\ wire'[Other(p)][n] = SessTerm(FALSE, "IdleTimeout")
             /\ n > Len(wire[Other(p)]))
         => sess[p].ka_sent]_vars
=============================================================================
