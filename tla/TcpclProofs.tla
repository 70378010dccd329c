---------------------------- MODULE TcpclProofs -----------------------------
(***************************************************************************)
(* Proofs about Tcpcl, for any bundles, sizes, traffic and limits: what is *)
(* reported as sent has arrived, transfers arrive whole, and the two ends  *)
(* keep to the protocol.                                                   *)
(*                                                                         *)
(* The inductive invariant says, for each of the two directions, how the   *)
(* segments on the wire continue what the receiver has (Stream), what the  *)
(* replies on the wire may still tell the sender (Replies), and how far    *)
(* the two are apart while the connection holds (Link).                    *)
(***************************************************************************)
EXTENDS Tcpcl, SequenceTheorems, TLAPS

------------------------------------------------------------------------------
(***************************************************************************)
(* Types.                                                                  *)
(***************************************************************************)
Byte == Bundles \X Nat

Packet ==
    [t : {"ContactHeader", "SessInit", "KeepAlive"}]
      \cup [t : {"SessTerm"}, reply : BOOLEAN, reason : {"IdleTimeout"}]
      \cup [t : {"XferAck"}, tid : Nat, len : Nat]
      \cup [t : {"XferRefuse"}, tid : Nat]
      \cup [t : {"XferSeg"}, tid : Nat, start : BOOLEAN, end : BOOLEAN, buf : Seq(Byte),
            ext : SUBSET Bundles]

ReceiveStates ==
    {Idle} \cup [st : {"Receiving"}, buf : Seq(Byte), tid : Nat]
           \cup [st : {"Discarding"}, tid : Nat]

SendStates == {Idle} \cup [st : {"Sending", "TransferRequest"}, b : Bundles]

Session ==
    [phase : {"off", "dialing", "contact", "init", "up", "down"},
     rcv : ReceiveStates, snd : SendStates, last_tid : Nat,
     ka_sent : BOOLEAN, ka_received : BOOLEAN, closing : BOOLEAN]

Types ==
    /\ cut \in BOOLEAN
    /\ sess \in [Nodes -> Session]
    /\ wire \in [Nodes -> Seq(Packet)]
    /\ queue \in [Nodes -> Seq(Bundles)]
    /\ task \in [Transfers -> {"absent", "idle", "dialing", "found", "queued"} \cup Answers]
    /\ received \in [Nodes -> SUBSET Bundles]
    /\ known \in [Nodes -> SUBSET Bundles]
    /\ broken \in [Nodes -> SUBSET Seq(Byte)]
    /\ faulty \subseteq Nodes

------------------------------------------------------------------------------
(***************************************************************************)
(* The packets of one direction.  A transfer request is a segment without  *)
(* bytes; every other segment holds a run of the bytes of one bundle.      *)
(***************************************************************************)
Run(b, lo, hi) == [n \in 1..(hi - lo + 1) |-> <<b, lo + n - 1>>]

IsSeg(m)   == m.t = "XferSeg"
IsData(m)  == m.t = "XferSeg" /\ m.buf # <<>>
IsReply(m) == m.t \in {"XferAck", "XferRefuse"}

\* The bundle a segment is of, and its first and its last byte.
Of(m)    == m.buf[1][1]
First(m) == m.buf[1][2]
Last(m)  == First(m) + Len(m.buf) - 1

WellMade(p, m) ==
    IF m.buf = <<>>
    THEN /\ m.start /\ ~m.end
         /\ \E b \in Bundles : m.ext = {b} /\ <<p, b>> \in Transfers
    ELSE /\ m.ext = {}
         /\ Of(m) \in Bundles /\ <<p, Of(m)>> \in Transfers
         /\ First(m) \in 1..Size[Of(m)] /\ Last(m) \in First(m)..Size[Of(m)]
         /\ m.buf = Run(Of(m), First(m), Last(m))
         /\ m.end <=> Last(m) = Size[Of(m)]
         /\ m.start => First(m) = 1

Follows(m, n) ==
    /\ IsData(m) /\ IsData(n)
    /\ n.tid = m.tid /\ Of(n) = Of(m) /\ First(n) = Last(m) + 1

\* The segments p sent that are still on the wire w, and the state r of the
\* peer that is to receive them, while the connection holds (~c).
Whole(p, w) ==
    /\ \A i \in 1..Len(w) : IsSeg(w[i]) => WellMade(p, w[i])
    /\ \A i \in 1..Len(w) : IsData(w[i]) /\ ~w[i].end => i + 1 <= Len(w) /\ Follows(w[i], w[i+1])
    /\ \A i \in 2..Len(w) : IsData(w[i]) /\ First(w[i]) > 1 => Follows(w[i-1], w[i])
    /\ \A i, j \in 1..Len(w) : i < j /\ IsSeg(w[i]) /\ IsSeg(w[j]) =>
         /\ w[i].tid <= w[j].tid
         /\ w[i].end \/ w[j].start => w[i].tid < w[j].tid
         /\ w[i].buf # <<>>

Continues(w, r, c) ==
    /\ w # <<>> /\ IsData(w[1]) /\ First(w[1]) > 1 =>
         /\ r.st # "Idle" /\ r.tid = w[1].tid
         /\ r.st = "Receiving" => r.buf = Run(Of(w[1]), 1, First(w[1]) - 1)
    /\ \A i \in 1..Len(w) :
         IsData(w[i]) /\ First(w[i]) = 1 /\ ~w[i].start =>
           /\ r.st = "Receiving" /\ r.buf = <<>> /\ r.tid = w[i].tid
           /\ \A j \in 1..(i-1) : ~IsSeg(w[j])
    /\ ~c /\ (r.st = "Discarding" \/ (r.st = "Receiving" /\ r.buf # <<>>)) =>
         w # <<>> /\ IsData(w[1]) /\ First(w[1]) > 1
    /\ r.st = "Receiving" /\ r.buf = <<>> => \A i \in 1..Len(w) : IsSeg(w[i]) => ~w[i].start

Stream(p, w, r, c) == Whole(p, w) /\ Continues(w, r, c)

\* A reply after which the sender is done with transfer t, the one under way
\* when its state is x.
Final(x, t, m) ==
    m.tid = t /\ (m.t = "XferRefuse" \/ (m.t = "XferAck" /\ m.len >= Size[x.b]))

\* The replies on the wire v to a sender in state x.  A refusal that comes too
\* late needs an excuse (e); had: bundles the peer has, got: ones that arrived.
Replies(v, x, t, e, had, got) ==
    /\ \A i \in 1..Len(v) : v[i].t = "XferAck" => v[i].tid = t /\ x.st # "Idle"
    /\ \A i \in 1..Len(v) : v[i].t = "XferRefuse" =>
         /\ v[i].tid <= t
         /\ (v[i].tid = t /\ x.st # "Idle") \/ e
    /\ x.st = "TransferRequest" =>
         \A i \in 1..Len(v) : IsReply(v[i]) /\ v[i].tid = t =>
           /\ v[i].t = "XferRefuse" => x.b \in had
           /\ \A j \in 1..Len(v) : IsReply(v[j]) /\ v[j].tid = t => j = i
    /\ x.st = "Sending" =>
         \A i \in 1..Len(v) : IsReply(v[i]) /\ Final(x, t, v[i]) =>
           /\ v[i].t = "XferAck" => x.b \in got
           /\ \A j \in (i+1)..Len(v) : IsReply(v[j]) => v[j].t = "XferRefuse" /\ e

NoSegs(w)      == \A i \in 1..Len(w) : ~IsSeg(w[i])
NoReply(v, t)  == \A i \in 1..Len(v) : IsReply(v[i]) => v[i].tid # t
NoFinal(v, x, t) == \A i \in 1..Len(v) : IsReply(v[i]) => ~Final(x, t, v[i])

\* How far a sender (x, t, and the replies v to it) and its peer (r, and the
\* segments w on their way to it) are apart while the connection holds.
Link(w, r, v, x, t) ==
    LET discarded == r.st = "Discarding" /\ r.tid = t
    IN
    /\ \A i \in 1..Len(w) : IsSeg(w[i]) =>
         /\ w[i].tid <= t
         /\ (w[i].tid = t /\ x.st # "Idle") \/ (r.st = "Discarding" /\ r.tid = w[i].tid)
         /\ w[i].tid = t /\ x.st # "Idle" /\ ~discarded =>
              IF w[i].buf = <<>>
              THEN x.st = "TransferRequest" /\ w[i].ext = {x.b} /\ NoReply(v, t)
              ELSE x.st = "Sending" /\ Of(w[i]) = x.b /\ NoFinal(v, x, t)
    /\ r.st = "Receiving" =>
         /\ r.tid = t /\ x.st # "Idle"
         /\ x.st = "TransferRequest" => r.buf = <<>> /\ NoSegs(w)
         /\ x.st = "Sending" => NoFinal(v, x, t)
    /\ r.st = "Discarding" => r.tid <= t /\ (r.tid = t => x.st # "TransferRequest")
    /\ x.st = "TransferRequest" =>
         \A j \in 1..Len(v) : IsReply(v[j]) /\ v[j].tid = t =>
           NoSegs(w) /\ r.st = (IF v[j].t = "XferAck" THEN "Receiving" ELSE "Idle")
    /\ x.st = "Sending" =>
         \A j \in 1..Len(v) : IsReply(v[j]) /\ Final(x, t, v[j]) =>
           discarded \/ (r.st = "Idle" /\ NoSegs(w))

\* p was refused bytes that are malformed after they were acknowledged.
Excused(p) ==
    \E b \in Malformed : <<p, b>> \in Transfers /\ Bytes(b) \in broken[Other(p)]

Arrived(p) ==
    {b \in Bundles : b \in received[Other(p)] \cup known[Other(p)] \/ Bytes(b) \in broken[Other(p)]}

Direction(p) ==
    LET q == Other(p)
    IN  /\ Stream(p, wire[q], sess[q].rcv, cut)
        /\ Replies(wire[p], sess[p].snd, sess[p].last_tid, Excused(p), known[q], Arrived(p))
        /\ Open(p) /\ Open(q) /\ ~cut =>
             Link(wire[q], sess[q].rcv, wire[p], sess[p].snd, sess[p].last_tid)

\* What a session in this phase has yet to receive of the handshake.
Greeting(phase) ==
    IF phase = "contact" THEN <<ContactHeader, SessInit>>
    ELSE IF phase = "init" THEN <<SessInit>> ELSE <<>>

\* The wire w to a session s, whose peer is in the phase peer.
Greeted(w, s, peer, c) ==
    LET g == Greeting(s.phase)
        open == s.phase \notin {"off", "down"}
    IN  /\ \A i \in 1..Len(w) :
             IF i <= Len(g) THEN w[i] = g[i] ELSE w[i].t \notin {"ContactHeader", "SessInit"}
        /\ s.phase # "up" => s = Fresh(s.phase)
        /\ s.phase \in {"off", "down", "dialing"} => w = <<>>
        /\ open /\ ~c /\ peer = "contact" => Len(w) = Len(g) - 1
        /\ open /\ ~c /\ peer \in {"init", "up"} => Len(w) >= Len(g)

Handshake(p) == Greeted(wire[p], sess[p], sess[Other(p)].phase, cut)

Dialing ==
    /\ sess[Listener].phase # "dialing"
    /\ sess[Dialer].phase = "dialing" => ~Open(Listener) /\ ~cut
    /\ \A b \in Bundles : <<Dialer, b>> \in Transfers /\ task[<<Dialer, b>>] = "dialing" =>
         /\ sess[Dialer].phase = "dialing"
         /\ \A c \in Bundles :
              <<Dialer, c>> \in Transfers /\ task[<<Dialer, c>>] = "dialing" => c = b

Belongs ==
    \A p \in Nodes :
        /\ sess[p].snd.st # "Idle" => <<p, sess[p].snd.b>> \in Transfers
        /\ \A i \in 1..Len(queue[p]) : <<p, queue[p][i]>> \in Transfers

Inv ==
    /\ Types /\ Belongs /\ Dialing
    /\ cut => \A p \in Nodes : wire[p] = <<>>
    /\ \A p \in Nodes : Handshake(p)
    /\ \A p \in Nodes : Direction(p)

------------------------------------------------------------------------------
LEMMA SegFields ==
    ASSUME NEW m \in Packet, IsSeg(m)
    PROVE  /\ m.tid \in Nat /\ m.buf \in Seq(Byte) /\ m.ext \in SUBSET Bundles
           /\ m.start \in BOOLEAN /\ m.end \in BOOLEAN
BY DEF Packet, IsSeg

LEMMA ReplyFields ==
    ASSUME NEW m \in Packet, IsReply(m)
    PROVE  m.tid \in Nat /\ (m.t = "XferAck" => m.len \in Nat)
BY DEF Packet, IsReply

(***************************************************************************)
(* Streams.                                                                *)
(***************************************************************************)
\* Packets other than segments may follow,
LEMMA StreamAppended ==
    ASSUME NEW p, NEW w \in Seq(Packet), NEW o \in Seq(Packet), NEW r, NEW c,
           Stream(p, w, r, c), NoSegs(o)
    PROVE  Stream(p, w \o o, r, c)
<1> DEFINE y == w \o o
<1>1. /\ Len(w) \in Nat /\ Len(o) \in Nat /\ Len(y) = Len(w) + Len(o)
      /\ \A i \in 1..Len(w) : y[i] = w[i]
      /\ \A i \in 1..Len(y) : ~(i <= Len(w)) => i - Len(w) \in 1..Len(o) /\ y[i] = o[i - Len(w)]
      /\ w # <<>> => y # <<>> /\ Len(w) >= 1
      /\ w = <<>> => Len(w) = 0
      /\ y # <<>> => Len(y) >= 1
  BY ConcatProperties, LenProperties, EmptySeq
<1> HIDE DEF y
<1>2. \A i \in 1..Len(y) : IsSeg(y[i]) => i \in 1..Len(w) /\ y[i] = w[i]
  BY <1>1 DEF NoSegs
<1>3. \A m : IsData(m) => IsSeg(m)
  BY DEF IsData, IsSeg
<1>4. Whole(p, y)
  <2>1. \A i \in 1..Len(y) : IsSeg(y[i]) => WellMade(p, y[i])
    BY <1>2 DEF Stream, Whole
  <2>2. \A i \in 1..Len(y) : IsData(y[i]) /\ ~y[i].end => i + 1 <= Len(y) /\ Follows(y[i], y[i+1])
    BY <1>1, <1>2, <1>3 DEF Stream, Whole
  <2>3. \A i \in 2..Len(y) : IsData(y[i]) /\ First(y[i]) > 1 => Follows(y[i-1], y[i])
    BY <1>1, <1>2, <1>3 DEF Stream, Whole
  <2>4. \A i, j \in 1..Len(y) : i < j /\ IsSeg(y[i]) /\ IsSeg(y[j]) =>
         /\ y[i].tid <= y[j].tid
         /\ y[i].end \/ y[j].start => y[i].tid < y[j].tid
         /\ y[i].buf # <<>>
    BY <1>1, <1>2 DEF Stream, Whole
  <2> QED BY <2>1, <2>2, <2>3, <2>4 DEF Whole
<1>5. Continues(y, r, c)
  BY <1>1, <1>2, <1>3 DEF Stream, Continues
<1> QED
  BY <1>4, <1>5 DEF Stream, y

\* and be taken.
LEMMA StreamTaken ==
    ASSUME NEW p, NEW w \in Seq(Packet), w # <<>>, NEW r, NEW c,
           Stream(p, w, r, c), ~IsSeg(Head(w))
    PROVE  Stream(p, Tail(w), r, c)
<1> DEFINE y == Tail(w)
<1>1. /\ Len(w) \in Nat /\ Len(w) >= 1 /\ Len(y) = Len(w) - 1 /\ Head(w) = w[1]
      /\ \A i \in 1..Len(y) : y[i] = w[i+1]
      /\ y # <<>> => Len(y) >= 1
  BY HeadTailProperties, LenProperties, EmptySeq
<1> HIDE DEF y
<1>2. \A i \in 1..Len(y) : i + 1 \in 1..Len(w)
  BY <1>1
<1>3. \A m : IsData(m) => IsSeg(m)
  BY DEF IsData, IsSeg
<1>4. Whole(p, y)
  <2>1. \A i \in 1..Len(y) : IsSeg(y[i]) => WellMade(p, y[i])
    BY <1>1, <1>2 DEF Stream, Whole
  <2>2. \A i \in 1..Len(y) : IsData(y[i]) /\ ~y[i].end => i + 1 <= Len(y) /\ Follows(y[i], y[i+1])
    BY <1>1, <1>2 DEF Stream, Whole
  <2>3. \A i \in 2..Len(y) : IsData(y[i]) /\ First(y[i]) > 1 => Follows(y[i-1], y[i])
    <3> TAKE i \in 2..Len(y)
    <3>1. i + 1 \in 2..Len(w) /\ y[i] = w[i+1] /\ y[i-1] = w[i] /\ (i + 1) - 1 = i
      BY <1>1
    <3> QED BY <3>1 DEF Stream, Whole
  <2>4. \A i, j \in 1..Len(y) : i < j /\ IsSeg(y[i]) /\ IsSeg(y[j]) =>
         /\ y[i].tid <= y[j].tid
         /\ y[i].end \/ y[j].start => y[i].tid < y[j].tid
         /\ y[i].buf # <<>>
    BY <1>1, <1>2 DEF Stream, Whole
  <2> QED BY <2>1, <2>2, <2>3, <2>4 DEF Whole
<1>5. Continues(y, r, c)
  <2>1. y # <<>> => ~(IsData(y[1]) /\ First(y[1]) > 1)
    BY <1>1, <1>2, <1>3 DEF Stream, Whole, Follows
  <2>2. ~(w # <<>> /\ IsData(w[1]))
    BY <1>1, <1>3
  <2>3. \A i \in 1..Len(y) : \A j \in 1..(i-1) : j + 1 \in 1..((i + 1) - 1) /\ y[j] = w[j+1]
    BY <1>1, <1>2
  <2> QED BY <1>1, <1>2, <2>1, <2>2, <2>3 DEF Stream, Continues
<1> QED
  BY <1>4, <1>5 DEF Stream, y

\* A segment is taken: the receiver goes on behind it, or is done with its end.
Beyond(r, m) ==
    IF m.buf = <<>> THEN r.st = "Idle" \/ (r.st = "Receiving" /\ r.buf = <<>> /\ r.tid = m.tid)
    ELSE IF m.end THEN r.st = "Idle"
    ELSE /\ r.st \in {"Receiving", "Discarding"} /\ r.tid = m.tid
         /\ r.st = "Receiving" => r.buf = Run(Of(m), 1, Last(m)) /\ r.buf # <<>>

LEMMA StreamSegmentTaken ==
    ASSUME NEW p, NEW w \in Seq(Packet), w # <<>>, NEW r, NEW r2, NEW c,
           Stream(p, w, r, c), IsSeg(Head(w)), Beyond(r2, Head(w))
    PROVE  Stream(p, Tail(w), r2, c)
<1> DEFINE y == Tail(w)
<1>1. /\ Len(w) \in Nat /\ Len(w) >= 1 /\ Len(y) = Len(w) - 1 /\ Head(w) = w[1]
      /\ \A i \in 1..Len(y) : y[i] = w[i+1]
      /\ y # <<>> => Len(y) >= 1
  BY HeadTailProperties, LenProperties, EmptySeq
<1>e. y = <<>> => Len(y) = 0
  BY EmptySeq
<1> HIDE DEF y
<1>2. \A i \in 1..Len(y) : i + 1 \in 1..Len(w)
  BY <1>1
<1>3. \A m : IsData(m) <=> IsSeg(m) /\ m.buf # <<>>
  BY DEF IsData, IsSeg
<1>4. Whole(p, y)
  <2>1. \A i \in 1..Len(y) : IsSeg(y[i]) => WellMade(p, y[i])
    BY <1>1, <1>e, <1>2 DEF Stream, Whole
  <2>2. \A i \in 1..Len(y) : IsData(y[i]) /\ ~y[i].end => i + 1 <= Len(y) /\ Follows(y[i], y[i+1])
    BY <1>1, <1>e, <1>2 DEF Stream, Whole
  <2>3. \A i \in 2..Len(y) : IsData(y[i]) /\ First(y[i]) > 1 => Follows(y[i-1], y[i])
    <3> TAKE i \in 2..Len(y)
    <3>1. i + 1 \in 2..Len(w) /\ y[i] = w[i+1] /\ y[i-1] = w[i] /\ (i + 1) - 1 = i
      BY <1>1
    <3> QED BY <3>1 DEF Stream, Whole
  <2>4. \A i, j \in 1..Len(y) : i < j /\ IsSeg(y[i]) /\ IsSeg(y[j]) =>
         /\ y[i].tid <= y[j].tid
         /\ y[i].end \/ y[j].start => y[i].tid < y[j].tid
         /\ y[i].buf # <<>>
    BY <1>1, <1>e, <1>2 DEF Stream, Whole
  <2> QED BY <2>1, <2>2, <2>3, <2>4 DEF Whole
<1>5. Continues(y, r2, c)
  <2>0. WellMade(p, w[1])
    BY <1>1 DEF Stream, Whole
  <2>1. \A i \in 1..Len(y) : IsData(y[i]) /\ First(y[i]) = 1 => y[i].start
    <3>1. \A i \in 2..Len(w) : ~(IsData(w[i]) /\ First(w[i]) = 1 /\ ~w[i].start)
      BY <1>1 DEF Stream, Continues
    <3> QED BY <1>1, <1>2, <3>1
  <2>2. y # <<>> /\ IsData(y[1]) /\ First(y[1]) > 1 => Follows(w[1], y[1])
    <3>1. y # <<>> => 2 \in 2..Len(w) /\ y[1] = w[2] /\ w[2 - 1] = w[1]
      BY <1>1
    <3> QED BY <3>1 DEF Stream, Whole
  <2>3. IsData(w[1]) /\ ~w[1].end => y # <<>> /\ Follows(w[1], y[1])
    BY <1>1, <1>e, <1>2 DEF Stream, Whole
  <2>4. IsData(w[1]) => Last(w[1]) \in Nat /\ Last(w[1]) >= 1
                        /\ (w[1].end <=> Last(w[1]) = Size[Of(w[1])])
    BY <1>3, <2>0, TcpclAssumption DEF WellMade
  <2>5. IsData(w[1]) /\ y # <<>> /\ Follows(w[1], y[1]) => ~w[1].end
    <3>1. IsSeg(y[1]) /\ y # <<>> => WellMade(p, y[1]) 
      BY <1>1, <2>0, <1>4 DEF Whole
    <3> SUFFICES ASSUME IsData(w[1]), y # <<>>, Follows(w[1], y[1]) PROVE ~w[1].end
      OBVIOUS
    <3>2. First(y[1]) = Last(w[1]) + 1 /\ Of(y[1]) = Of(w[1]) /\ First(y[1]) <= Size[Of(y[1])]
          /\ Size[Of(y[1])] \in Nat
      BY <3>1, <1>3, TcpclAssumption DEF Follows, WellMade
    <3> QED BY <3>2, <2>4
  <2>6. w[1].buf = <<>> => \A i \in 1..Len(y) : ~IsSeg(y[i])
    BY <1>1, <1>e, <1>2 DEF Stream, Whole
  <2>7. IsData(w[1]) \/ w[1].buf = <<>>
    BY <1>1, <1>3
  <2>8. CASE w[1].buf = <<>>
    BY <2>8, <2>6, <1>1, <1>3 DEF Continues, Beyond
  <2>9. CASE IsData(w[1]) /\ w[1].end
    BY <2>9, <2>1, <2>2, <2>5, <1>1, <1>3 DEF Continues, Beyond
  <2>10. CASE IsData(w[1]) /\ ~w[1].end
    <3>1. y # <<>> /\ IsData(y[1]) /\ First(y[1]) = Last(w[1]) + 1 /\ Of(y[1]) = Of(w[1])
          /\ y[1].tid = w[1].tid
      BY <2>10, <2>3 DEF Follows
    <3>2. First(y[1]) > 1 /\ First(y[1]) - 1 = Last(w[1])
      BY <3>1, <2>4, <2>10
    <3> QED BY <2>10, <2>1, <3>1, <3>2, <1>1, <1>3 DEF Continues, Beyond
  <2> QED BY <2>7, <2>8, <2>9, <2>10
<1> QED
  BY <1>4, <1>5 DEF Stream, y

\* p sends the segments o of transfer t.
Block(p, o, t, started) ==
    /\ Len(o) >= 1
    /\ \A k \in 1..Len(o) : IsSeg(o[k]) /\ o[k].tid = t /\ WellMade(p, o[k])
    /\ \A k \in 1..Len(o) : IsData(o[k]) /\ ~o[k].end => k + 1 <= Len(o)
    /\ \A k \in 2..Len(o) : First(o[k]) > 1 /\ Follows(o[k-1], o[k])
    /\ o[1].start <=> ~started
    /\ IsData(o[1]) => First(o[1]) = 1

LEMMA StreamSent ==
    ASSUME NEW p, NEW w \in Seq(Packet), NEW o \in Seq(Packet), NEW r, NEW c, NEW t \in Nat,
           NEW started \in BOOLEAN, Stream(p, w, r, c), Block(p, o, t, started),
           IF started THEN NoSegs(w) /\ r.st = "Receiving" /\ r.buf = <<>> /\ r.tid = t
           ELSE /\ r.st # "Receiving" /\ (~c /\ r.st = "Discarding" => ~NoSegs(w))
                /\ \A i \in 1..Len(w) : IsSeg(w[i]) => w[i].tid < t /\ w[i].buf # <<>>
    PROVE  Stream(p, w \o o, r, c)
<1> DEFINE y == w \o o
<1>1. /\ Len(w) \in Nat /\ Len(o) \in Nat /\ Len(y) = Len(w) + Len(o)
      /\ \A i \in 1..Len(w) : y[i] = w[i]
      /\ \A i \in 1..Len(o) : y[i + Len(w)] = o[i]
      /\ \A i \in 1..Len(y) : ~(i <= Len(w)) => i - Len(w) \in 1..Len(o) /\ y[i] = o[i - Len(w)]
      /\ w # <<>> => Len(w) >= 1
      /\ w = <<>> => Len(w) = 0
  BY ConcatProperties, LenProperties, EmptySeq
<1>y. y # <<>>
  BY <1>1, EmptySeq DEF Block
<1> HIDE DEF y
<1>3. \A m : IsData(m) <=> IsSeg(m) /\ m.buf # <<>>
  BY DEF IsData, IsSeg
<1>4. \A i \in 1..Len(y) : ~(i <= Len(w)) =>
        /\ IsSeg(y[i]) /\ y[i].tid = t /\ WellMade(p, y[i])
        /\ IsData(y[i]) /\ ~y[i].end => i + 1 <= Len(y) 
        /\ i > Len(w) + 1 => First(y[i]) > 1 /\ Follows(y[i-1], y[i])
  <2> TAKE i \in 1..Len(y)
  <2> HAVE ~(i <= Len(w))
  <2> DEFINE k == i - Len(w)
  <2>1. /\ k \in 1..Len(o) /\ y[i] = o[k] /\ (k + 1 <= Len(o) => i + 1 <= Len(y))
        /\ i > Len(w) + 1 => k \in 2..Len(o) /\ y[i-1] = o[k-1]
    <3> DEFINE n == Len(w)   l == Len(o)
    <3>1. n \in Nat /\ l \in Nat /\ Len(y) = n + l /\ i \in Nat /\ i >= 1 /\ k = i - n
      BY <1>1
    <3>2. k \in 1..l /\ y[i] = o[k] /\ \A j \in 1..l : y[j + n] = o[j]
      BY <1>1
    <3> HIDE DEF k, n, l
    <3>3. k + 1 <= l => i + 1 <= Len(y)
      BY <3>1
    <3>4. ASSUME i > n + 1 PROVE k \in 2..l /\ y[i-1] = o[k-1]
      <4>1. k \in 2..l /\ k - 1 \in 1..l /\ (k - 1) + n = i - 1
        BY <3>1, <3>2, <3>4
      <4>2. y[(k - 1) + n] = o[k - 1]
        BY <3>2, <4>1
      <4> QED BY <4>1, <4>2
    <3> QED BY <3>2, <3>3, <3>4 DEF n, l
  <2> HIDE DEF k
  <2> QED BY <2>1 DEF Block
<1>4f. \A i \in 1..Len(y) : ~(i <= Len(w)) /\ i + 1 <= Len(y) => Follows(y[i], y[i+1])
  <2> SUFFICES ASSUME NEW i \in 1..Len(y), ~(i <= Len(w)), i + 1 <= Len(y)
               PROVE  Follows(y[i], y[i+1])
    OBVIOUS
  <2> DEFINE k == i + 1
  <2>1. k \in 1..Len(y) /\ ~(k <= Len(w)) /\ k > Len(w) + 1 /\ k - 1 = i
    BY <1>1
  <2>2. Follows(y[k-1], y[k])
    <3> HIDE DEF k
    <3> QED BY <2>1, <1>4
  <2> QED BY <2>1, <2>2
<1>5. /\ y[Len(w)+1] = o[1] /\ Len(w) + 1 \in 1..Len(y)
      /\ IsData(y[Len(w)+1]) => First(y[Len(w)+1]) = 1
      /\ y[Len(w)+1].start <=> ~started
  BY <1>1 DEF Block
<1>6. \A i \in 1..Len(y) : i > Len(w) + 1 => ~y[i].start
  <2> SUFFICES ASSUME NEW i \in 1..Len(y), i > Len(w) + 1 PROVE ~y[i].start
    OBVIOUS
  <2>1. First(y[i]) > 1 /\ IsData(y[i]) /\ WellMade(p, y[i])
    BY <1>1, <1>4 DEF Follows
  <2> QED BY <2>1, <1>3 DEF WellMade
<1>7. Whole(p, y)
  <2>1. \A i \in 1..Len(y) : IsSeg(y[i]) => WellMade(p, y[i])
    BY <1>1, <1>4 DEF Stream, Whole
  <2>2. \A i \in 1..Len(y) : IsData(y[i]) /\ ~y[i].end => i + 1 <= Len(y) /\ Follows(y[i], y[i+1])
    <3> SUFFICES ASSUME NEW i \in 1..Len(y), IsData(y[i]), ~y[i].end
                 PROVE  i + 1 <= Len(y) /\ Follows(y[i], y[i+1])
      OBVIOUS
    <3>1. CASE i <= Len(w)
      BY <3>1, <1>1 DEF Stream, Whole
    <3>2. CASE ~(i <= Len(w))
      BY <3>2, <1>4, <1>4f
    <3> QED BY <3>1, <3>2
  <2>3. \A i \in 2..Len(y) : IsData(y[i]) /\ First(y[i]) > 1 => Follows(y[i-1], y[i])
    <3> SUFFICES ASSUME NEW i \in 2..Len(y), IsData(y[i]), First(y[i]) > 1
                 PROVE  Follows(y[i-1], y[i])
      OBVIOUS
    <3>1. CASE i <= Len(w)
      BY <3>1, <1>1 DEF Stream, Whole
    <3>2. CASE i > Len(w) + 1
      BY <3>2, <1>4, <1>1
    <3>3. CASE i = Len(w) + 1
      BY <3>3, <1>5
    <3> QED BY <3>1, <3>2, <3>3, <1>1
  <2>4. \A i, j \in 1..Len(y) : i < j /\ IsSeg(y[i]) /\ IsSeg(y[j]) =>
         /\ y[i].tid <= y[j].tid
         /\ y[i].end \/ y[j].start => y[i].tid < y[j].tid
         /\ y[i].buf # <<>>
    <3> SUFFICES ASSUME NEW i \in 1..Len(y), NEW j \in 1..Len(y), i < j, IsSeg(y[i]), IsSeg(y[j])
                 PROVE  /\ y[i].tid <= y[j].tid
                        /\ y[i].end \/ y[j].start => y[i].tid < y[j].tid
                        /\ y[i].buf # <<>>
      OBVIOUS
    <3>1. CASE j <= Len(w)
      BY <3>1, <1>1 DEF Stream, Whole
    <3>2. CASE i <= Len(w) /\ ~(j <= Len(w))
      <4>1. i \in 1..Len(w) /\ y[i] = w[i] /\ y[j].tid = t
        BY <3>2, <1>1, <1>4
      <4>2. w[i].tid \in Nat
        BY <4>1, SegFields, ElementOfSeq
      <4> QED BY <4>1, <4>2 DEF NoSegs
    <3>3. CASE ~(i <= Len(w))
      <4>1. y[i].tid = t /\ y[j].tid = t /\ ~y[j].start
        BY <3>3, <1>1, <1>4, <1>6
      <4>2. IsData(y[i]) /\ Follows(y[i], y[i+1]) /\ WellMade(p, y[i]) /\ WellMade(p, y[i+1])
        BY <3>3, <1>1, <1>4, <1>4f DEF Follows
      <4>3. Of(y[i]) \in Bundles /\ Size[Of(y[i])] \in Nat
        BY <4>2, <1>3, TcpclAssumption DEF WellMade
      <4>4. /\ First(y[i+1]) \in 1..Size[Of(y[i])] /\ First(y[i+1]) = Last(y[i]) + 1
            /\ Last(y[i]) \in First(y[i])..Size[Of(y[i])] /\ First(y[i]) \in 1..Size[Of(y[i])]
        BY <4>2, <1>3 DEF WellMade, Follows
      <4>5. ~y[i].end
        <5>1. Last(y[i]) # Size[Of(y[i])]
          BY <4>3, <4>4
        <5> QED BY <5>1, <4>2, <1>3 DEF WellMade
      <4> QED BY <4>1, <4>2, <4>5, <1>3
    <3> QED BY <3>1, <3>2, <3>3, <1>1
  <2> QED BY <2>1, <2>2, <2>3, <2>4 DEF Whole
<1>8. Continues(y, r, c)
  <2>1. w = <<>> => y[1] = o[1]
    BY <1>1, <1>5
  <2>2. w # <<>> => y[1] = w[1]
    BY <1>1
  <2>3. IsData(y[1]) /\ First(y[1]) > 1 => w # <<>>
    BY <2>1, <1>5, <1>1
  <2>4. \A i \in 1..Len(y) : IsData(y[i]) /\ First(y[i]) = 1 /\ ~y[i].start =>
          i <= Len(w) \/ (started /\ i = Len(w) + 1)
    <3> TAKE i \in 1..Len(y)
    <3>1. CASE i > Len(w) + 1
      <4>1. First(y[i]) > 1
        BY <3>1, <1>1, <1>4
      <4> QED BY <4>1
    <3>2. CASE i = Len(w) + 1
      BY <3>2, <1>5
    <3> QED BY <3>1, <3>2, <1>1
  <2>5. \A i \in 1..Len(y) : IsData(y[i]) /\ First(y[i]) = 1 /\ ~y[i].start =>
           /\ r.st = "Receiving" /\ r.buf = <<>> /\ r.tid = y[i].tid
           /\ \A j \in 1..(i-1) : ~IsSeg(y[j])
    <3> SUFFICES ASSUME NEW i \in 1..Len(y), IsData(y[i]), First(y[i]) = 1, ~y[i].start
                 PROVE  /\ r.st = "Receiving" /\ r.buf = <<>> /\ r.tid = y[i].tid
                        /\ \A j \in 1..(i-1) : ~IsSeg(y[j])
      OBVIOUS
    <3>1. CASE i <= Len(w)
      <4>1. i \in 1..Len(w) /\ y[i] = w[i] /\ \A j \in 1..(i-1) : y[j] = w[j]
        BY <3>1, <1>1
      <4> QED BY <4>1 DEF Stream, Continues
    <3>2. CASE started /\ i = Len(w) + 1
      BY <3>2, <1>1, <1>4, <1>5 DEF NoSegs
    <3> QED BY <3>1, <3>2, <2>4
  <2>6. r.st = "Receiving" /\ r.buf = <<>> => \A i \in 1..Len(y) : IsSeg(y[i]) => ~y[i].start
    BY <1>1, <1>5, <1>6 DEF NoSegs
  <2>7. ~c /\ (r.st = "Discarding" \/ (r.st = "Receiving" /\ r.buf # <<>>)) =>
          IsData(y[1]) /\ First(y[1]) > 1
    BY <1>y, <2>2, <1>1 DEF Stream, Continues, NoSegs
  <2>8. IsData(y[1]) /\ First(y[1]) > 1 =>
         /\ r.st # "Idle" /\ r.tid = y[1].tid
         /\ r.st = "Receiving" => r.buf = Run(Of(y[1]), 1, First(y[1]) - 1)
    BY <2>2, <2>3 DEF Stream, Continues
  <2> QED BY <1>y, <2>5, <2>6, <2>7, <2>8 DEF Continues
<1> QED
  BY <1>7, <1>8 DEF Stream, y

------------------------------------------------------------------------------
(***************************************************************************)
(* The segments of a bundle.                                               *)
(***************************************************************************)
LEMMA TimesMonotonic ==
    ASSUME NEW a \in Nat, NEW b \in Nat, NEW m \in Nat, a <= b
    PROVE  a * m <= b * m /\ a * m \in Nat
<1>1. PICK c \in Nat : b = a + c
  <2>1. b - a \in Nat /\ b = a + (b - a)
    OBVIOUS
  <2> QED BY <2>1
<1>2. b * m = a * m + c * m
  BY <1>1
<1>3. c * m \in Nat /\ a * m \in Nat
  OBVIOUS
<1> QED BY <1>2, <1>3

LEMMA CeilProperties ==
    ASSUME NEW x \in Nat \ {0}, NEW d \in Nat \ {0}
    PROVE  /\ Ceil(x, d) \in Nat /\ Ceil(x, d) >= 1
           /\ (Ceil(x, d) - 1) * d < x /\ x <= Ceil(x, d) * d
<1> DEFINE n == Ceil(x, d)
<1>1. n \in Nat /\ n * d <= x + d - 1 /\ x + d - 1 < n * d + d
  <2> DEFINE y == x + d - 1
  <2>1. y \in Nat
    OBVIOUS
  <2> HIDE DEF y
  <2>2. (y \div d) \in Nat /\ (y \div d) * d <= y /\ y < (y \div d) * d + d
    BY <2>1
  <2> QED BY <2>2 DEF Ceil, y
<1> HIDE DEF n
<1>2. n # 0
  <2> SUFFICES ASSUME n = 0 PROVE FALSE
    OBVIOUS
  <2>1. n * d = 0
    OBVIOUS
  <2> QED BY <2>1, <1>1
<1>3. (n - 1) * d = n * d - d /\ n * d \in Nat
  BY <1>1
<1> QED BY <1>1, <1>2, <1>3 DEF n

LEMMA RunProperties ==
    ASSUME NEW b \in Bundles, NEW lo \in Nat, NEW hi \in Nat, lo <= hi + 1
    PROVE  /\ Run(b, lo, hi) \in Seq(Byte) /\ Len(Run(b, lo, hi)) = hi - lo + 1
           /\ \A n \in 1..(hi - lo + 1) : Run(b, lo, hi)[n] = <<b, lo + n - 1>>
<1>1. hi - lo + 1 \in Nat /\ \A n \in 1..(hi - lo + 1) : <<b, lo + n - 1>> \in Byte
  BY DEF Byte
<1> QED BY <1>1 DEF Run

LEMMA BytesRun ==
    ASSUME NEW b \in Bundles
    PROVE  Bytes(b) = Run(b, 1, Size[b])
<1>1. Size[b] \in Nat
  BY TcpclAssumption
<1>2. Size[b] - 1 + 1 = Size[b] /\ \A n \in 1..Size[b] : 1 + n - 1 = n
  BY <1>1
<1> QED BY <1>2 DEF Bytes, Run

\* Runs that adjoin make a run, and the bytes of bundles tell them apart.
LEMMA RunsAdjoin ==
    ASSUME NEW b \in Bundles, NEW k \in Nat, NEW hi \in Nat, k <= hi
    PROVE  Run(b, 1, k) \o Run(b, k + 1, hi) = Run(b, 1, hi)
<1> DEFINE s == Run(b, 1, k)   u == Run(b, k + 1, hi)   v == Run(b, 1, hi)
<1>1. /\ s \in Seq(Byte) /\ Len(s) = k /\ \A n \in 1..k : s[n] = <<b, n>>
      /\ u \in Seq(Byte) /\ Len(u) = hi - k /\ \A n \in 1..(hi - k) : u[n] = <<b, k + n>>
      /\ v \in Seq(Byte) /\ Len(v) = hi /\ \A n \in 1..hi : v[n] = <<b, n>>
  <2>0. 1 \in Nat /\ 1 <= k + 1 /\ k + 1 \in Nat /\ k + 1 <= hi + 1 /\ 1 <= hi + 1
    OBVIOUS
  <2>1. /\ s \in Seq(Byte) /\ Len(s) = k - 1 + 1 /\ \A n \in 1..(k - 1 + 1) : s[n] = <<b, 1 + n - 1>>
    BY <2>0, RunProperties, Zenon
  <2>2. u \in Seq(Byte) /\ Len(u) = hi - (k + 1) + 1 /\ \A n \in 1..(hi - (k + 1) + 1) : u[n] = <<b, (k + 1) + n - 1>>
    BY <2>0, RunProperties, Zenon
  <2>3. v \in Seq(Byte) /\ Len(v) = hi - 1 + 1 /\ \A n \in 1..(hi - 1 + 1) : v[n] = <<b, 1 + n - 1>>
    BY <2>0, RunProperties, Zenon
  <2> HIDE DEF s, u, v
  <2>4. /\ k - 1 + 1 = k /\ hi - (k + 1) + 1 = hi - k /\ hi - 1 + 1 = hi
        /\ \A n \in Nat : 1 + n - 1 = n /\ (k + 1) + n - 1 = k + n
    OBVIOUS
  <2> QED BY <2>1, <2>2, <2>3, <2>4
<1> HIDE DEF s, u, v
<1>2. /\ s \o u \in Seq(Byte) /\ Len(s \o u) = hi
      /\ \A n \in 1..hi : (s \o u)[n] = IF n <= k THEN s[n] ELSE u[n - k]
  <2>1. /\ s \o u \in Seq(Byte) /\ Len(s \o u) = Len(s) + Len(u)
        /\ \A n \in 1..Len(s) + Len(u) : (s \o u)[n] = IF n <= Len(s) THEN s[n] ELSE u[n - Len(s)]
    BY <1>1, ConcatProperties, Zenon
  <2>2. k + (hi - k) = hi
    OBVIOUS
  <2> QED BY <1>1, <2>1, <2>2
<1>3. \A n \in 1..hi : (s \o u)[n] = v[n]
  <2> TAKE n \in 1..hi
  <2>1. CASE n <= k
    <3>1. n \in 1..k /\ (s \o u)[n] = s[n]
      BY <2>1, <1>2
    <3> QED BY <3>1, <1>1
  <2>2. CASE ~(n <= k)
    <3>1. n - k \in 1..(hi - k) /\ k + (n - k) = n
      BY <2>2
    <3>2. (s \o u)[n] = u[n - k] /\ u[n - k] = <<b, k + (n - k)>>
      BY <2>2, <3>1, <1>1, <1>2
    <3> QED BY <3>1, <3>2, <1>1
  <2> QED BY <2>1, <2>2
<1>4. s \o u = v
  BY <1>1, <1>2, <1>3, SeqEqual
<1> QED BY <1>4 DEF s, u, v

LEMMA BytesInjective ==
    ASSUME NEW b \in Bundles, NEW d \in Bundles, Bytes(b) = Bytes(d)
    PROVE  b = d
<1>1. 1 \in 1..Size[b] /\ 1 \in 1..Size[d]
  BY TcpclAssumption
<1>2. Bytes(b)[1] = <<b, 1>> /\ Bytes(d)[1] = <<d, 1>>
  BY <1>1 DEF Bytes
<1> QED BY <1>2

\* The bytes of the k-th segment, of n.
Lo(mru, k) == (k - 1) * mru + 1
Hi(b, mru, k) == IF k * mru < Size[b] THEN k * mru ELSE Size[b]

LEMMA ChunkBounds ==
    ASSUME NEW b \in Bundles, NEW M \in Nat \ {0}, NEW k \in 1..Ceil(Size[b], M)
    PROVE  /\ Lo(M, k) \in Nat /\ Lo(M, k) >= 1
           /\ Hi(b, M, k) \in Nat /\ Lo(M, k) <= Hi(b, M, k) /\ Hi(b, M, k) <= Size[b]
           /\ Hi(b, M, k) = Size[b] <=> k = Ceil(Size[b], M)
           /\ k > 1 => Lo(M, k) > 1
           /\ k < Ceil(Size[b], M) => Lo(M, k + 1) = Hi(b, M, k) + 1
<1> DEFINE S == Size[b]   n == Ceil(S, M)
<1>1. S \in Nat \ {0}
  BY TcpclAssumption
<1>2. n \in Nat /\ n >= 1 /\ (n - 1) * M < S /\ S <= n * M
  BY <1>1, CeilProperties
<1> HIDE DEF S
<1>3. k \in 1..n
  BY DEF S
<1> HIDE DEF n
<1>4. k - 1 \in Nat /\ k \in Nat /\ n - 1 \in Nat /\ k - 1 <= n - 1
  BY <1>2, <1>3
<1>5. (k - 1) * M <= (n - 1) * M /\ (k - 1) * M \in Nat /\ (n - 1) * M \in Nat
  BY <1>4, TimesMonotonic
<1>6. k * M = (k - 1) * M + M /\ k * M \in Nat
  BY <1>4
<1>7. k < n => k * M <= (n - 1) * M
  <2>1. k < n => k <= n - 1
    BY <1>2, <1>4
  <2> QED BY <2>1, <1>4, TimesMonotonic
<1>8. k > 1 => (k - 1) * M >= 1
  <2>1. k > 1 => 1 * M <= (k - 1) * M
    BY <1>4, TimesMonotonic
  <2> QED BY <2>1, <1>5
<1>9. (k + 1) - 1 = k
  BY <1>4
<1>10. Hi(b, M, k) = IF k * M < S THEN k * M ELSE S
  BY DEF Hi, S
<1>11. Lo(M, k) = (k - 1) * M + 1 /\ Lo(M, k + 1) = k * M + 1
  BY <1>9 DEF Lo
<1>12. k = n => k * M >= S
  BY <1>2
<1> DEFINE a == k * M   c == (k - 1) * M   d == (n - 1) * M
<1>13. /\ a \in Nat /\ c \in Nat /\ d \in Nat /\ c <= d /\ d < S /\ a = c + M
       /\ k < n => a <= d
       /\ k > 1 => c >= 1
       /\ k = n => a >= S
       /\ Hi(b, M, k) = (IF a < S THEN a ELSE S)
       /\ Lo(M, k) = c + 1 /\ Lo(M, k + 1) = a + 1
  BY <1>2, <1>5, <1>6, <1>7, <1>8, <1>10, <1>11, <1>12
<1> HIDE DEF a, c, d
<1>14. /\ Lo(M, k) \in Nat /\ Lo(M, k) >= 1
       /\ Hi(b, M, k) \in Nat /\ Lo(M, k) <= Hi(b, M, k) /\ Hi(b, M, k) <= S
       /\ Hi(b, M, k) = S <=> k = n
       /\ k > 1 => Lo(M, k) > 1
       /\ k < n => Lo(M, k + 1) = Hi(b, M, k) + 1
  BY <1>1, <1>2, <1>3, <1>4, <1>13
<1> QED BY <1>14 DEF S, n

LEMMA ChunkRun ==
    ASSUME NEW b \in Bundles, NEW M \in Nat \ {0}, NEW k \in 1..Ceil(Size[b], M)
    PROVE  /\ Chunk(b, M, k) = Run(b, Lo(M, k), Hi(b, M, k)) /\ Chunk(b, M, k) \in Seq(Byte)
           /\ Len(Chunk(b, M, k)) = Hi(b, M, k) - Lo(M, k) + 1
           /\ Chunk(b, M, k)[1] = <<b, Lo(M, k)>>
           /\ Chunk(b, M, k) # <<>>
<1> DEFINE l == Lo(M, k)   h == Hi(b, M, k)   u == SubSeq(Bytes(b), l, h)
<1>1. l \in Nat /\ h \in Nat /\ l >= 1 /\ l <= h /\ h <= Size[b]
  BY ChunkBounds
<1>2. Chunk(b, M, k) = u
  BY DEF Chunk, Lo, Hi
<1> HIDE DEF l, h
<1>3. \A i \in l..h : Bytes(b)[i] = <<b, i>> /\ Bytes(b)[i] \in Byte
  BY <1>1, TcpclAssumption DEF Bytes, Byte
<1>4. u \in Seq(Byte) /\ Len(u) = h - l + 1 /\ \A i \in 1..(h - l + 1) : u[i] = Bytes(b)[l + i - 1]
  BY <1>1, <1>3, SubSeqProperties
<1> HIDE DEF u
<1>5. \A i \in 1..(h - l + 1) : u[i] = <<b, l + i - 1>>
  <2> TAKE i \in 1..(h - l + 1)
  <2>1. l + i - 1 \in l..h
    BY <1>1
  <2> QED BY <2>1, <1>3, <1>4
<1>6. Run(b, l, h) \in Seq(Byte) /\ Len(Run(b, l, h)) = h - l + 1
      /\ \A i \in 1..(h - l + 1) : Run(b, l, h)[i] = <<b, l + i - 1>>
  <2>1. l <= h + 1
    BY <1>1
  <2> QED BY <1>1, <2>1, RunProperties, Zenon
<1>7. u = Run(b, l, h)
  BY <1>4, <1>5, <1>6, SeqEqual
<1>8. u[1] = <<b, l>>
  <2>1. 1 \in 1..(h - l + 1) /\ l + 1 - 1 = l
    BY <1>1
  <2> QED BY <2>1, <1>5
<1>9. u # <<>>
  <2>1. Len(u) # 0
    BY <1>1, <1>4
  <2> QED BY <2>1, EmptySeq
<1> QED BY <1>2, <1>4, <1>7, <1>8, <1>9 DEF l, h

LEMMA SegmentsBlock ==
    ASSUME NEW p \in Nodes, NEW q \in Nodes, NEW b \in Bundles, <<p, b>> \in Transfers,
           NEW t \in Nat, NEW started \in BOOLEAN
    PROVE  LET o == Segments(b, q, t, started)
           IN  /\ o \in Seq(Packet) /\ Block(p, o, t, started)
               /\ \A k \in 1..Len(o) : o[k].buf # <<>> /\ Of(o[k]) = b
<1> DEFINE M == SegmentMru[q]   n == Ceil(Size[b], M)
           o == Segments(b, q, t, started)
<1>1. Size[b] \in Nat \ {0} /\ M \in Nat \ {0}
  BY TcpclAssumption
<1> HIDE DEF M
<1>2. n \in Nat /\ n >= 1
  BY <1>1, CeilProperties
<1>3. \A k \in 1..n : /\ Lo(M, k) \in Nat /\ Lo(M, k) >= 1
                      /\ Hi(b, M, k) \in Nat /\ Lo(M, k) <= Hi(b, M, k) /\ Hi(b, M, k) <= Size[b]
                      /\ Hi(b, M, k) = Size[b] <=> k = n
                      /\ k > 1 => Lo(M, k) > 1
                      /\ k < n => Lo(M, k + 1) = Hi(b, M, k) + 1
  BY <1>1, ChunkBounds
<1>4. \A k \in 1..n : /\ Chunk(b, M, k) = Run(b, Lo(M, k), Hi(b, M, k)) /\ Chunk(b, M, k) \in Seq(Byte)
                      /\ Len(Chunk(b, M, k)) = Hi(b, M, k) - Lo(M, k) + 1
                      /\ Chunk(b, M, k)[1] = <<b, Lo(M, k)>>
                      /\ Chunk(b, M, k) # <<>>
  BY <1>1, ChunkRun
<1>5. /\ o = [k \in 1..n |-> XferSeg(t, k = 1 /\ ~started, k = n, Chunk(b, M, k), {})]
  BY DEF Segments, M
<1> HIDE DEF o, n
<1>6. \A k \in 1..n : XferSeg(t, k = 1 /\ ~started, k = n, Chunk(b, M, k), {}) \in Packet
  BY <1>4 DEF XferSeg, Packet
<1>7. o \in Seq(Packet) /\ Len(o) = n
  BY <1>2, <1>5, <1>6
<1>8. \A k \in 1..n :
        /\ o[k].t = "XferSeg" /\ o[k].tid = t /\ o[k].buf = Chunk(b, M, k) /\ o[k].ext = {}
        /\ o[k].start <=> (k = 1 /\ ~started)
        /\ o[k].end <=> k = n
  BY <1>5 DEF XferSeg
<1>9. \A k \in 1..n : /\ o[k].buf # <<>> /\ Of(o[k]) = b /\ First(o[k]) = Lo(M, k) /\ Last(o[k]) = Hi(b, M, k)
  <2> TAKE k \in 1..n
  <2>1. o[k].buf # <<>>
    BY <1>8, <1>4
  <2>2. Of(o[k]) = b /\ First(o[k]) = Lo(M, k)
    BY <1>8, <1>4 DEF Of, First
  <2>3. Last(o[k]) = Lo(M, k) + (Hi(b, M, k) - Lo(M, k) + 1) - 1
    BY <1>8, <1>4, <2>2 DEF Last
  <2>4. Lo(M, k) \in Nat /\ Hi(b, M, k) \in Nat
    BY <1>2, <1>3
  <2> QED BY <2>1, <2>2, <2>3, <2>4
<1>10. \A k \in 1..n : IsSeg(o[k]) /\ IsData(o[k]) /\ WellMade(p, o[k])
  <2> TAKE k \in 1..n
  <2>1. IsSeg(o[k]) /\ IsData(o[k]) /\ o[k].buf # <<>>
    BY <1>8, <1>9 DEF IsSeg, IsData
  <2>2. /\ Of(o[k]) = b /\ First(o[k]) \in 1..Size[b] /\ Last(o[k]) \in First(o[k])..Size[b]
        /\ Last(o[k]) = Size[b] <=> k = n
    BY <1>1, <1>2, <1>3, <1>9
  <2>3. o[k].buf = Run(b, First(o[k]), Last(o[k]))
    BY <1>4, <1>8, <1>9
  <2>4. o[k].start => First(o[k]) = 1
    <3>1. Lo(M, 1) = 1
      BY <1>1 DEF Lo
    <3> QED BY <3>1, <1>8, <1>9
  <2> QED BY <2>1, <2>2, <2>3, <2>4, <1>8 DEF WellMade
<1>11. \A k \in 2..n : First(o[k]) > 1 /\ Follows(o[k-1], o[k])
  <2> TAKE k \in 2..n
  <2> DEFINE j == k - 1
  <2>1. j \in 1..n /\ k \in 1..n /\ j + 1 = k /\ j < n /\ k > 1
    BY <1>2
  <2> HIDE DEF j
  <2>2. Lo(M, k) = Hi(b, M, j) + 1 /\ Lo(M, k) > 1
    BY <2>1, <1>2, <1>3
  <2>3. First(o[k]) > 1 /\ Follows(o[j], o[k])
    BY <2>1, <2>2, <1>8, <1>9, <1>10 DEF Follows
  <2> QED BY <2>3 DEF j
<1>12. First(o[1]) = 1
  <2>1. Lo(M, 1) = 1
    BY <1>1 DEF Lo
  <2> QED BY <2>1, <1>2, <1>9
<1>13. Block(p, o, t, started)
  BY <1>2, <1>7, <1>8, <1>10, <1>11, <1>12 DEF Block
<1> QED BY <1>7, <1>9, <1>13 DEF o

LEMMA RequestBlock ==
    ASSUME NEW p \in Nodes, NEW b \in Bundles, <<p, b>> \in Transfers, NEW t \in Nat
    PROVE  LET o == <<XferSeg(t, TRUE, FALSE, <<>>, {b})>>
           IN  o \in Seq(Packet) /\ Block(p, o, t, FALSE)
<1> DEFINE m == XferSeg(t, TRUE, FALSE, <<>>, {b})   o == <<m>>
<1>1. m \in Packet
  BY EmptySeq DEF XferSeg, Packet
<1>2. m.t = "XferSeg" /\ m.tid = t /\ m.buf = <<>> /\ m.ext = {b} /\ m.start = TRUE /\ m.end = FALSE
  BY DEF XferSeg
<1> HIDE DEF m
<1>3. o \in Seq(Packet) /\ Len(o) = 1 /\ o[1] = m
  BY <1>1
<1>4. WellMade(p, m) /\ IsSeg(m) /\ ~IsData(m)
  BY <1>2 DEF WellMade, IsSeg, IsData
<1> HIDE DEF o
<1>5. Block(p, o, t, FALSE)
  BY <1>2, <1>3, <1>4 DEF Block
<1> QED BY <1>3, <1>5 DEF o, m

------------------------------------------------------------------------------
(***************************************************************************)
(* Replies.                                                                *)
(***************************************************************************)
LEMMA Appended ==
    ASSUME NEW w \in Seq(Packet), NEW o \in Seq(Packet)
    PROVE  /\ w \o o \in Seq(Packet) /\ Len(w) \in Nat /\ Len(o) \in Nat
           /\ Len(w \o o) = Len(w) + Len(o)
           /\ \A i \in 1..Len(w) : i \in 1..Len(w \o o) /\ (w \o o)[i] = w[i]
           /\ \A i \in 1..Len(w \o o) : ~(i <= Len(w)) =>
                i - Len(w) \in 1..Len(o) /\ (w \o o)[i] = o[i - Len(w)]
BY ConcatProperties, LenProperties

LEMMA Taken ==
    ASSUME NEW w \in Seq(Packet), w # <<>>
    PROVE  /\ Tail(w) \in Seq(Packet) /\ Len(w) \in Nat /\ Len(w) >= 1 /\ Len(Tail(w)) = Len(w) - 1
           /\ Head(w) = w[1] /\ 1 \in 1..Len(w) /\ w[1] \in Packet
           /\ \A i \in 1..Len(Tail(w)) : i + 1 \in 2..Len(w) /\ Tail(w)[i] = w[i+1]
BY HeadTailProperties, LenProperties, EmptySeq

\* Replies stay true when one is taken, other packets follow, or the peer
\* learns more.
LEMMA RepliesAppended ==
    ASSUME NEW v \in Seq(Packet), NEW o \in Seq(Packet), NEW x, NEW t, NEW e, NEW had, NEW got,
           NEW e2, NEW had2, NEW got2, Replies(v, x, t, e, had, got),
           e => e2, had \subseteq had2, got \subseteq got2,
           \A i \in 1..Len(o) : ~IsReply(o[i])
    PROVE  Replies(v \o o, x, t, e2, had2, got2)
<1> DEFINE y == v \o o
<1>1. /\ Len(v) \in Nat /\ Len(y) = Len(v) + Len(o) /\ Len(o) \in Nat
      /\ \A i \in 1..Len(y) : IsReply(y[i]) => i \in 1..Len(v) /\ y[i] = v[i]
  BY Appended
<1>2. \A i \in 1..Len(y) : y[i].t \in {"XferAck", "XferRefuse"} => IsReply(y[i])
  BY DEF IsReply
<1> HIDE DEF y
<1>3. \A i \in 1..Len(y) : \A j \in (i+1)..Len(y) : IsReply(y[j]) => j \in (i+1)..Len(v) /\ y[j] = v[j]
  BY <1>1
<1>4. Replies(y, x, t, e2, had2, got2)
  BY <1>1, <1>2, <1>3 DEF Replies
<1> QED BY <1>4 DEF y

LEMMA RepliesGrow ==
    ASSUME NEW v, NEW x, NEW t, NEW e, NEW had, NEW got,
           NEW e2, NEW had2, NEW got2, Replies(v, x, t, e, had, got),
           e => e2, had \subseteq had2, got \subseteq got2
    PROVE  Replies(v, x, t, e2, had2, got2)
BY DEF Replies

LEMMA RepliesTaken ==
    ASSUME NEW v \in Seq(Packet), v # <<>>, NEW x, NEW t, NEW e, NEW had, NEW got,
           NEW e2, NEW had2, NEW got2, Replies(v, x, t, e, had, got),
           e => e2, had \subseteq had2, got \subseteq got2
    PROVE  Replies(Tail(v), x, t, e2, had2, got2)
<1> DEFINE y == Tail(v)
<1>1. /\ Len(v) \in Nat /\ Len(y) = Len(v) - 1
      /\ \A i \in 1..Len(y) : i + 1 \in 1..Len(v) /\ y[i] = v[i+1]
  BY Taken
<1> HIDE DEF y
<1>2. \A i \in 1..Len(y) : \A j \in (i+1)..Len(y) :
         j \in 1..Len(y) /\ j + 1 \in ((i+1)+1)..Len(v) /\ y[j] = v[j+1]
  BY <1>1
<1>3. Replies(y, x, t, e2, had2, got2)
  <2>1. /\ \A i \in 1..Len(y) : y[i].t = "XferAck" => y[i].tid = t /\ x.st # "Idle"
        /\ \A i \in 1..Len(y) : y[i].t = "XferRefuse" =>
             y[i].tid <= t /\ ((y[i].tid = t /\ x.st # "Idle") \/ e2)
    BY <1>1 DEF Replies
  <2>2. ASSUME x.st = "TransferRequest", NEW i \in 1..Len(y), IsReply(y[i]), y[i].tid = t
        PROVE  /\ y[i].t = "XferRefuse" => x.b \in had2
               /\ \A j \in 1..Len(y) : IsReply(y[j]) /\ y[j].tid = t => j = i
    <3>1. \A j \in 1..Len(y) : IsReply(y[j]) /\ y[j].tid = t => j + 1 = i + 1
      BY <2>2, <1>1 DEF Replies
    <3> QED BY <2>2, <3>1, <1>1 DEF Replies
  <2>3. ASSUME x.st = "Sending", NEW i \in 1..Len(y), IsReply(y[i]), Final(x, t, y[i])
        PROVE  /\ y[i].t = "XferAck" => x.b \in got2
               /\ \A j \in (i+1)..Len(y) : IsReply(y[j]) => y[j].t = "XferRefuse" /\ e2
    <3> DEFINE k == i + 1
    <3>1. k \in 1..Len(v) /\ y[i] = v[k]
      BY <1>1
    <3>2. \A j \in (i+1)..Len(y) : j + 1 \in (k+1)..Len(v) /\ y[j] = v[j+1]
      BY <1>2
    <3> HIDE DEF k
    <3> QED BY <2>3, <3>1, <3>2 DEF Replies
  <2> QED BY <2>1, <2>2, <2>3 DEF Replies
<1> QED BY <1>3 DEF y

\* The sender takes the reply that ends its transfer.
LEMMA RepliesDone ==
    ASSUME NEW v \in Seq(Packet), v # <<>>, NEW x, NEW t, NEW e, NEW had, NEW got,
           Replies(v, x, t, e, had, got), IsReply(Head(v)), Head(v).tid = t,
           x.st \in {"Sending", "TransferRequest"}, x.st = "Sending" => Final(x, t, Head(v))
    PROVE  Replies(Tail(v), Idle, t, e, had, got)
<1> DEFINE y == Tail(v)
<1>1. /\ Len(v) \in Nat /\ Len(y) = Len(v) - 1 /\ Head(v) = v[1] /\ 1 \in 1..Len(v)
      /\ \A i \in 1..Len(y) : i + 1 \in 2..Len(v) /\ y[i] = v[i+1]
  BY Taken
<1> HIDE DEF y
<1>2. \A i \in 2..Len(v) : IsReply(v[i]) => v[i].t = "XferRefuse" /\ v[i].tid <= t /\ e
  <2>1. CASE x.st = "Sending"
    <3>1. \A i \in 2..Len(v) : i \in (1+1)..Len(v) /\ i \in 1..Len(v)
      BY <1>1
    <3> QED BY <2>1, <3>1, <1>1 DEF Replies
  <2>2. CASE x.st = "TransferRequest"
    <3>1. \A i \in 2..Len(v) : i \in 1..Len(v) /\ i # 1
      BY <1>1
    <3> QED BY <2>2, <3>1, <1>1 DEF Replies, IsReply
  <2> QED BY <2>1, <2>2
<1>3. \A i \in 1..Len(y) : y[i].t \in {"XferAck", "XferRefuse"} =>
        y[i].t = "XferRefuse" /\ y[i].tid <= t /\ e
  BY <1>1, <1>2 DEF IsReply
<1>4. Replies(y, Idle, t, e, had, got)
  BY <1>3 DEF Replies, Idle
<1> QED BY <1>4 DEF y

\* The sender learns that its request is granted.
LEMMA RepliesGo ==
    ASSUME NEW v \in Seq(Packet), v # <<>>, NEW x, NEW t, NEW e, NEW had, NEW got,
           Replies(v, x, t, e, had, got), IsReply(Head(v)), Head(v).tid = t,
           x.st = "TransferRequest"
    PROVE  Replies(Tail(v), Sending(x.b), t, e, had, got) /\ NoReply(Tail(v), t)
<1> DEFINE y == Tail(v)
<1>1. /\ Len(v) \in Nat /\ Len(y) = Len(v) - 1 /\ Head(v) = v[1] /\ 1 \in 1..Len(v)
      /\ \A i \in 1..Len(y) : i + 1 \in 2..Len(v) /\ y[i] = v[i+1]
  BY Taken
<1> HIDE DEF y
<1>2. \A i \in 2..Len(v) : IsReply(v[i]) => v[i].t = "XferRefuse" /\ v[i].tid <= t /\ e /\ v[i].tid # t
  <2>1. \A i \in 2..Len(v) : i \in 1..Len(v) /\ i # 1
    BY <1>1
  <2> QED BY <2>1, <1>1 DEF Replies, IsReply
<1>3. \A i \in 1..Len(y) : IsReply(y[i]) =>
        y[i].t = "XferRefuse" /\ y[i].tid <= t /\ e /\ y[i].tid # t
  BY <1>1, <1>2
<1>4. \A i \in 1..Len(y) : y[i].t \in {"XferAck", "XferRefuse"} => IsReply(y[i])
  BY DEF IsReply
<1>5. Sending(x.b).st = "Sending"
  BY DEF Sending
<1>6. Replies(y, Sending(x.b), t, e, had, got)
  BY <1>3, <1>4, <1>5 DEF Replies, Final
<1>7. NoReply(y, t)
  BY <1>3 DEF NoReply
<1> QED BY <1>6, <1>7 DEF y

\* A new transfer: what is on the wire is about earlier ones.
LEMMA RepliesSend ==
    ASSUME NEW v \in Seq(Packet), NEW x, NEW x2, NEW t \in Nat, NEW e, NEW had, NEW got,
           Replies(v, x, t, e, had, got), x.st = "Idle"
    PROVE  Replies(v, x2, t + 1, e, had, got) /\ NoReply(v, t + 1)
<1>1. \A i \in 1..Len(v) : IsReply(v[i]) =>
        v[i].t = "XferRefuse" /\ e /\ v[i].tid <= t + 1 /\ v[i].tid # t + 1
  <2> SUFFICES ASSUME NEW i \in 1..Len(v), IsReply(v[i])
               PROVE  v[i].t = "XferRefuse" /\ e /\ v[i].tid <= t + 1 /\ v[i].tid # t + 1
    OBVIOUS
  <2>1. v[i].tid \in Nat
    BY ReplyFields, ElementOfSeq
  <2>2. v[i].t = "XferRefuse" /\ e /\ v[i].tid <= t
    BY DEF Replies, IsReply
  <2> QED BY <2>1, <2>2
<1>2. \A i \in 1..Len(v) : v[i].t \in {"XferAck", "XferRefuse"} => IsReply(v[i])
  BY DEF IsReply
<1> QED BY <1>1, <1>2 DEF Replies, NoReply, Final

\* The peer answers the transfer under way,
LEMMA RepliesAnswered ==
    ASSUME NEW v \in Seq(Packet), NEW m \in Packet, NEW x, NEW t \in Nat,
           NEW e, NEW had, NEW got, NEW got2,
           Replies(v, x, t, e, had, got), got \subseteq got2, IsReply(m), m.tid = t,
           \/ x.st = "TransferRequest" /\ NoReply(v, t) /\ (m.t = "XferRefuse" => x.b \in had)
           \/ x.st = "Sending" /\ NoFinal(v, x, t)
                /\ (m.t = "XferAck" /\ Final(x, t, m) => x.b \in got2)
    PROVE  Replies(v \o <<m>>, x, t, e, had, got2)
<1> DEFINE y == v \o <<m>>
<1>1. /\ Len(v) \in Nat /\ Len(y) = Len(v) + 1
      /\ \A i \in 1..Len(v) : y[i] = v[i]
      /\ y[Len(v) + 1] = m
  BY Appended
<1>2. \A i \in 1..Len(y) : i \in 1..Len(v) \/ i = Len(v) + 1
  BY <1>1
<1> HIDE DEF y
<1>3. \A i \in 1..Len(y) : y[i].t \in {"XferAck", "XferRefuse"} => IsReply(y[i])
  BY DEF IsReply
<1>4. /\ \A i \in 1..Len(y) : y[i].t = "XferAck" => y[i].tid = t /\ x.st # "Idle"
      /\ \A i \in 1..Len(y) : y[i].t = "XferRefuse" =>
           y[i].tid <= t /\ ((y[i].tid = t /\ x.st # "Idle") \/ e)
  BY <1>1, <1>2 DEF Replies
<1>5. CASE x.st = "TransferRequest"
  <2>1. \A i \in 1..Len(y) : IsReply(y[i]) /\ y[i].tid = t => i = Len(v) + 1
    BY <1>1, <1>2, <1>5 DEF NoReply
  <2>2. m.t = "XferRefuse" => x.b \in had
    BY <1>5
  <2> QED BY <2>1, <2>2, <1>1, <1>4, <1>5 DEF Replies, y
<1>6. CASE x.st = "Sending"
  <2>1. \A i \in 1..Len(y) : IsReply(y[i]) /\ Final(x, t, y[i]) => i = Len(v) + 1
    BY <1>1, <1>2, <1>6 DEF NoFinal
  <2>2. m.t = "XferAck" /\ Final(x, t, m) => x.b \in got2
    BY <1>6
  <2>3. \A j \in (Len(v) + 1 + 1)..Len(y) : FALSE
    BY <1>1
  <2> QED BY <2>1, <2>2, <2>3, <1>1, <1>4, <1>6 DEF Replies, y
<1> QED BY <1>5, <1>6

\* and refuses malformed bytes after that.
LEMMA RepliesExcused ==
    ASSUME NEW v \in Seq(Packet), NEW m \in Packet, NEW x, NEW t \in Nat,
           NEW e, NEW had, NEW got,
           Replies(v, x, t, e, had, got), m.t = "XferRefuse", m.tid = t, x.st = "Sending"
    PROVE  Replies(v \o <<m>>, x, t, TRUE, had, got)
<1> DEFINE y == v \o <<m>>
<1>1. /\ Len(v) \in Nat /\ Len(y) = Len(v) + 1
      /\ \A i \in 1..Len(v) : y[i] = v[i]
      /\ y[Len(v) + 1] = m
  BY Appended
<1>2. \A i \in 1..Len(y) : i \in 1..Len(v) \/ i = Len(v) + 1
  BY <1>1
<1> HIDE DEF y
<1>4. /\ \A i \in 1..Len(y) : y[i].t = "XferAck" => y[i].tid = t /\ x.st # "Idle"
      /\ \A i \in 1..Len(y) : y[i].t = "XferRefuse" =>
           y[i].tid <= t /\ ((y[i].tid = t /\ x.st # "Idle") \/ TRUE)
  BY <1>1, <1>2 DEF Replies
<1>5. ASSUME NEW i \in 1..Len(y), IsReply(y[i]), Final(x, t, y[i])
      PROVE  /\ y[i].t = "XferAck" => x.b \in got
             /\ \A j \in (i+1)..Len(y) : IsReply(y[j]) => y[j].t = "XferRefuse"
  <2>1. CASE i \in 1..Len(v)
    <3>1. \A j \in (i+1)..Len(y) : j \in (i+1)..Len(v) \/ j = Len(v) + 1
      BY <1>1, <2>1
    <3>2. \A j \in (i+1)..Len(v) : y[j] = v[j]
      BY <1>1, <2>1
    <3> QED BY <1>1, <1>5, <2>1, <3>1, <3>2 DEF Replies
  <2>2. CASE i = Len(v) + 1
    BY <2>2, <1>1
  <2> QED BY <2>1, <2>2, <1>2
<1> QED BY <1>4, <1>5 DEF Replies, y

------------------------------------------------------------------------------
(***************************************************************************)
(* The two ends.                                                           *)
(***************************************************************************)
LEMMA LinkShrinks ==
    ASSUME NEW w, NEW w2, NEW r, NEW v, NEW v2, NEW x, NEW t, Link(w, r, v, x, t),
           \A i \in 1..Len(w2) : IsSeg(w2[i]) => \E j \in 1..Len(w) : w[j] = w2[i],
           \A i \in 1..Len(v2) : IsReply(v2[i]) => \E j \in 1..Len(v) : v[j] = v2[i]
    PROVE  Link(w2, r, v2, x, t)
<1>1. /\ NoSegs(w) => NoSegs(w2)
      /\ NoReply(v, t) => NoReply(v2, t)
      /\ NoFinal(v, x, t) => NoFinal(v2, x, t)
  BY DEF NoSegs, NoReply, NoFinal
<1> QED BY <1>1 DEF Link

LEMMA LinkDone ==
    ASSUME NEW w, NEW r, NEW v \in Seq(Packet), v # <<>>, NEW x, NEW t,
           Link(w, r, v, x, t), IsReply(Head(v)), Head(v).tid = t,
           \/ x.st = "Sending" /\ Final(x, t, Head(v))
           \/ x.st = "TransferRequest" /\ Head(v).t = "XferRefuse"
    PROVE  Link(w, r, Tail(v), Idle, t)
<1>1. Head(v) = v[1] /\ 1 \in 1..Len(v)
  BY Taken
<1>2. (r.st = "Discarding" /\ r.tid = t) \/ (r.st = "Idle" /\ NoSegs(w))
  BY <1>1 DEF Link
<1>3. \A i \in 1..Len(w) : IsSeg(w[i]) => w[i].tid <= t /\ r.st = "Discarding" /\ r.tid = w[i].tid
  BY <1>2 DEF Link, NoSegs
<1>4. r.st = "Discarding" => r.tid <= t
  BY DEF Link
<1> QED BY <1>2, <1>3, <1>4 DEF Link, Idle

LEMMA LinkGo ==
    ASSUME NEW p, NEW w \in Seq(Packet), NEW r, NEW v, NEW v2, NEW x, NEW t \in Nat,
           NEW o \in Seq(Packet), NEW j \in 1..Len(v),
           Link(w, r, v, x, t), x.st = "TransferRequest",
           v[j].t = "XferAck", v[j].tid = t, NoReply(v2, t), Block(p, o, t, TRUE),
           \A k \in 1..Len(o) : o[k].buf # <<>> /\ Of(o[k]) = x.b
    PROVE  /\ Link(w \o o, r, v2, Sending(x.b), t)
           /\ NoSegs(w) /\ r.st = "Receiving" /\ r.buf = <<>> /\ r.tid = t
<1>1. NoSegs(w) /\ r.st = "Receiving" /\ r.buf = <<>> /\ r.tid = t
  BY DEF Link, IsReply
<1>2. Sending(x.b).st = "Sending" /\ Sending(x.b).b = x.b
  BY DEF Sending
<1>3. NoFinal(v2, Sending(x.b), t)
  BY DEF NoFinal, NoReply, Final
<1>4. \A i \in 1..Len(w \o o) : IsSeg((w \o o)[i]) =>
        (w \o o)[i].tid = t /\ (w \o o)[i].buf # <<>> /\ Of((w \o o)[i]) = x.b
  BY <1>1, Appended DEF NoSegs, Block
<1>5. Link(w \o o, r, v2, Sending(x.b), t)
  BY <1>1, <1>2, <1>3, <1>4 DEF Link, NoFinal
<1> QED BY <1>1, <1>5

LEMMA LinkSend ==
    ASSUME NEW p, NEW w \in Seq(Packet), NEW r, NEW v, NEW x, NEW x2, NEW t \in Nat,
           NEW o \in Seq(Packet), Link(w, r, v, x, t), x.st = "Idle",
           r.st = "Discarding" => r.tid \in Nat,
           NoReply(v, t + 1), Block(p, o, t + 1, FALSE),
           \A k \in 1..Len(o) :
             IF o[k].buf = <<>> THEN x2.st = "TransferRequest" /\ o[k].ext = {x2.b}
             ELSE x2.st = "Sending" /\ Of(o[k]) = x2.b
    PROVE  /\ Link(w \o o, r, v, x2, t + 1)
           /\ r.st # "Receiving" /\ (\A i \in 1..Len(w) : IsSeg(w[i]) => w[i].tid < t + 1)
<1>1. r.st # "Receiving" /\ (r.st = "Discarding" => r.tid < t + 1 /\ r.tid <= t + 1 /\ r.tid # t + 1)
  BY DEF Link
<1>2. \A i \in 1..Len(w) : IsSeg(w[i]) => w[i].tid < t + 1 /\ w[i].tid <= t + 1 /\ w[i].tid # t + 1
                                        /\ r.st = "Discarding" /\ r.tid = w[i].tid
  <2> SUFFICES ASSUME NEW i \in 1..Len(w), IsSeg(w[i])
               PROVE  w[i].tid < t + 1 /\ w[i].tid <= t + 1 /\ w[i].tid # t + 1
                        /\ r.st = "Discarding" /\ r.tid = w[i].tid
    OBVIOUS
  <2>1. w[i].tid \in Nat
    BY SegFields, ElementOfSeq
  <2>2. w[i].tid <= t /\ r.st = "Discarding" /\ r.tid = w[i].tid
    BY DEF Link
  <2> QED BY <2>1, <2>2
<1>3. NoFinal(v, x2, t + 1)
  BY DEF NoFinal, NoReply, Final
<1>4. x2.st # "Idle"
  BY DEF Block
<1>5. \A i \in 1..Len(w \o o) : IsSeg((w \o o)[i]) =>
        /\ (w \o o)[i].tid <= t + 1
        /\ (w \o o)[i].tid = t + 1 \/ (r.st = "Discarding" /\ r.tid = (w \o o)[i].tid)
        /\ (w \o o)[i].tid = t + 1 =>
             IF (w \o o)[i].buf = <<>> THEN x2.st = "TransferRequest" /\ (w \o o)[i].ext = {x2.b}
             ELSE x2.st = "Sending" /\ Of((w \o o)[i]) = x2.b
  <2> DEFINE y == w \o o
  <2> SUFFICES ASSUME NEW i \in 1..Len(y), IsSeg(y[i])
               PROVE  /\ y[i].tid <= t + 1
                      /\ y[i].tid = t + 1 \/ (r.st = "Discarding" /\ r.tid = y[i].tid)
                      /\ y[i].tid = t + 1 =>
                           IF y[i].buf = <<>> THEN x2.st = "TransferRequest" /\ y[i].ext = {x2.b}
                           ELSE x2.st = "Sending" /\ Of(y[i]) = x2.b
    OBVIOUS
  <2>1. \/ i \in 1..Len(w) /\ y[i] = w[i]
        \/ i - Len(w) \in 1..Len(o) /\ y[i] = o[i - Len(w)]
    BY Appended
  <2>2. CASE i \in 1..Len(w) /\ y[i] = w[i]
    BY <2>2, <1>2
  <2>3. CASE i - Len(w) \in 1..Len(o) /\ y[i] = o[i - Len(w)]
    BY <2>3 DEF Block
  <2> QED BY <2>1, <2>2, <2>3
<1>6. Link(w \o o, r, v, x2, t + 1)
  BY <1>1, <1>3, <1>4, <1>5 DEF Link, NoReply, NoFinal
<1> QED BY <1>1, <1>2, <1>6

\* The first segment, unless it is discarded, is of the transfer under way.
LEMMA LinkHead ==
    ASSUME NEW p, NEW w \in Seq(Packet), w # <<>>, NEW r, NEW v, NEW x, NEW t,
           Link(w, r, v, x, t), Stream(p, w, r, FALSE), IsSeg(Head(w)),
           ~(r.st = "Discarding" /\ r.tid = Head(w).tid)
    PROVE  /\ Head(w).tid = t /\ r.st # "Discarding"
           /\ IF Head(w).buf = <<>>
              THEN x.st = "TransferRequest" /\ Head(w).ext = {x.b} /\ NoReply(v, t)
              ELSE x.st = "Sending" /\ Of(Head(w)) = x.b /\ NoFinal(v, x, t)
<1>1. Head(w) = w[1] /\ 1 \in 1..Len(w)
  BY Taken
<1>2. r.st # "Discarding"
  BY <1>1 DEF Stream, Continues
<1> QED BY <1>1, <1>2 DEF Link

\* Nothing of the transfer follows its last segment, or a request.
LEMMA LinkLast ==
    ASSUME NEW p, NEW w \in Seq(Packet), w # <<>>, NEW r, NEW v, NEW x, NEW t, NEW c,
           Link(w, r, v, x, t), Stream(p, w, r, c), IsSeg(Head(w)), Head(w).tid = t,
           Head(w).end \/ Head(w).buf = <<>>
    PROVE  NoSegs(Tail(w))
<1> SUFFICES ASSUME NEW i \in 1..Len(Tail(w)), IsSeg(Tail(w)[i]) PROVE FALSE
  BY DEF NoSegs
<1> DEFINE j == i + 1
<1>1. /\ Head(w) = w[1] /\ 1 \in 1..Len(w) /\ w[1] \in Packet
      /\ j \in 1..Len(w) /\ 1 < j /\ Tail(w)[i] = w[j]
  BY Taken
<1> HIDE DEF j
<1>2. w[j].tid \in Nat /\ w[1].tid \in Nat
  BY <1>1, SegFields, ElementOfSeq
<1>3. w[j].tid <= t
  BY <1>1 DEF Link
<1>4. w[1].tid < w[j].tid
  BY <1>1 DEF Stream, Whole
<1> QED BY <1>1, <1>2, <1>3, <1>4

\* A request is granted or refused.
LEMMA LinkRequest ==
    ASSUME NEW p, NEW w \in Seq(Packet), w # <<>>, NEW r, NEW r2, NEW v \in Seq(Packet), NEW x, NEW t,
           NEW n \in Packet,
           Link(w, r, v, x, t), Stream(p, w, r, FALSE), IsSeg(Head(w)),
           ~(r.st = "Discarding" /\ r.tid = Head(w).tid), Head(w).buf = <<>>,
           IsReply(n), r2.st = (IF n.t = "XferAck" THEN "Receiving" ELSE "Idle"),
           r2.st = "Receiving" => r2.tid = t /\ r2.buf = <<>>
    PROVE  Link(Tail(w), r2, v \o <<n>>, x, t)
<1>1. Head(w).tid = t /\ x.st = "TransferRequest" /\ NoReply(v, t)
  BY LinkHead
<1>2. NoSegs(Tail(w))
  BY <1>1, LinkLast
<1>3. \A j \in 1..Len(v \o <<n>>) : IsReply((v \o <<n>>)[j]) /\ (v \o <<n>>)[j].tid = t =>
        (v \o <<n>>)[j] = n
  <2>1. Len(<<n>>) = 1 /\ <<n>>[1] = n /\ <<n>> \in Seq(Packet)
    OBVIOUS
  <2> HIDE DEF NoReply
  <2>2. \A j \in 1..Len(v \o <<n>>) : (v \o <<n>>)[j] = n \/ (j \in 1..Len(v) /\ (v \o <<n>>)[j] = v[j])
    BY <2>1, Appended
  <2> QED BY <2>2, <1>1 DEF NoReply
<1> QED BY <1>1, <1>2, <1>3 DEF Link, NoSegs

\* A segment in the middle is accepted, or refused and the rest discarded.
LEMMA LinkMiddle ==
    ASSUME NEW p, NEW w \in Seq(Packet), w # <<>>, NEW r, NEW r2, NEW v \in Seq(Packet), NEW x, NEW t \in Nat,
           NEW n \in Packet,
           Link(w, r, v, x, t), Stream(p, w, r, FALSE), IsSeg(Head(w)),
           ~(r.st = "Discarding" /\ r.tid = Head(w).tid), Head(w).buf # <<>>,
           \/ r2.st = "Receiving" /\ r2.tid = t /\ ~Final(x, t, n)
           \/ r2.st = "Discarding" /\ r2.tid = t
    PROVE  Link(Tail(w), r2, v \o <<n>>, x, t)
<1>1. Head(w).tid = t /\ r.st # "Discarding" /\ x.st = "Sending" /\ NoFinal(v, x, t)
  BY LinkHead
<1>2. \A i \in 1..Len(Tail(w)) : IsSeg(Tail(w)[i]) =>
        Tail(w)[i].tid <= t /\ Tail(w)[i].tid = t /\ Tail(w)[i].buf # <<>> /\ Of(Tail(w)[i]) = x.b
  <2> TAKE i \in 1..Len(Tail(w))
  <2>1. i + 1 \in 1..Len(w) /\ Tail(w)[i] = w[i+1]
    BY Taken
  <2> QED BY <2>1, <1>1 DEF Link
<1>3. r2.st = "Receiving" => NoFinal(v \o <<n>>, x, t)
  <2>1. \A j \in 1..Len(v \o <<n>>) : (v \o <<n>>)[j] = n \/ (j \in 1..Len(v) /\ (v \o <<n>>)[j] = v[j])
    <3>1. Len(<<n>>) = 1 /\ <<n>>[1] = n /\ <<n>> \in Seq(Packet)
      OBVIOUS
    <3> QED BY <3>1, Appended
  <2> QED BY <2>1, <1>1 DEF NoFinal
<1> QED BY <1>1, <1>2, <1>3 DEF Link, NoFinal

\* The last segment is accepted or refused.
LEMMA LinkEnd ==
    ASSUME NEW p, NEW w \in Seq(Packet), w # <<>>, NEW r, NEW r2, NEW v, NEW v2, NEW x, NEW t,
           Link(w, r, v, x, t), Stream(p, w, r, FALSE), IsSeg(Head(w)),
           ~(r.st = "Discarding" /\ r.tid = Head(w).tid), Head(w).buf # <<>>, Head(w).end,
           r2.st = "Idle"
    PROVE  Link(Tail(w), r2, v2, x, t)
<1>1. Head(w).tid = t /\ x.st = "Sending"
  BY LinkHead
<1>2. NoSegs(Tail(w))
  BY <1>1, LinkLast
<1> QED BY <1>1, <1>2 DEF Link, NoSegs

\* A segment of a refused transfer is discarded.
LEMMA LinkDiscard ==
    ASSUME NEW p, NEW w \in Seq(Packet), w # <<>>, NEW r, NEW r2, NEW v, NEW x, NEW t \in Nat, NEW c,
           Link(w, r, v, x, t), Stream(p, w, r, c), IsSeg(Head(w)),
           r.st = "Discarding", r.tid = Head(w).tid,
           IF Head(w).end THEN r2.st = "Idle" ELSE r2 = r
    PROVE  Link(Tail(w), r2, v, x, t)
<1>1. /\ Head(w) = w[1] /\ 1 \in 1..Len(w) /\ w[1] \in Packet
      /\ \A i \in 1..Len(Tail(w)) : i + 1 \in 2..Len(w) /\ Tail(w)[i] = w[i+1]
  BY Taken
<1>2. CASE ~Head(w).end
  <2>1. \A i \in 1..Len(Tail(w)) : IsSeg(Tail(w)[i]) => \E j \in 1..Len(w) : w[j] = Tail(w)[i]
    <3> TAKE i \in 1..Len(Tail(w))
    <3>1. i + 1 \in 1..Len(w) /\ Tail(w)[i] = w[i+1]
      BY <1>1
    <3> QED BY <3>1
  <2>2. \A i \in 1..Len(v) : IsReply(v[i]) => \E j \in 1..Len(v) : v[j] = v[i]
    OBVIOUS
  <2>3. Link(Tail(w), r, v, x, t)
    BY <2>1, <2>2, LinkShrinks, Zenon
  <2> QED BY <1>2, <2>3
<1>3. CASE Head(w).end
  <2>0. r2.st = "Idle"
    BY <1>3
  <2> DEFINE Rest(m) == /\ m.tid = t /\ m.tid <= t /\ x.st # "Idle" /\ r.tid # t
                        /\ IF m.buf = <<>>
                           THEN x.st = "TransferRequest" /\ m.ext = {x.b} /\ NoReply(v, t)
                           ELSE x.st = "Sending" /\ Of(m) = x.b /\ NoFinal(v, x, t)
  <2>1. \A i \in 1..Len(Tail(w)) : IsSeg(Tail(w)[i]) => Rest(Tail(w)[i])
    <3> SUFFICES ASSUME NEW i \in 1..Len(Tail(w)), IsSeg(Tail(w)[i])
                 PROVE  Rest(Tail(w)[i])
      OBVIOUS
    <3> DEFINE j == i + 1
    <3>1. j \in 1..Len(w) /\ 1 < j /\ Tail(w)[i] = w[j]
      BY <1>1, Taken
    <3> HIDE DEF j
    <3>2. w[j].tid \in Nat /\ w[1].tid \in Nat
      BY <1>1, <3>1, SegFields, ElementOfSeq
    <3>3. w[1].tid < w[j].tid
      BY <1>1, <1>3, <3>1 DEF Stream, Whole
    <3>4. w[j].tid # r.tid
      BY <1>1, <3>2, <3>3
    <3>5. w[j].tid = t /\ w[j].tid <= t /\ x.st # "Idle" /\ r.tid # t
      BY <3>1, <3>4 DEF Link
    <3> QED BY <3>1, <3>5 DEF Link
  <2>2. r.tid = t => NoSegs(Tail(w))
    BY <2>1 DEF NoSegs
  <2>3. x.st = "TransferRequest" => NoReply(v, t)
    BY DEF Link, NoReply
  <2>4. x.st = "Sending" => NoFinal(v, x, t) \/ NoSegs(Tail(w))
    BY <2>2 DEF Link, NoFinal
  <2> QED BY <2>0, <2>1, <2>3, <2>4 DEF Link, NoReply, NoFinal
<1> QED BY <1>2, <1>3
------------------------------------------------------------------------------
(***************************************************************************)
(* Steps.                                                                  *)
(***************************************************************************)
LEMMA OtherNode ==
    ASSUME NEW p \in Nodes
    PROVE  /\ Other(p) \in Nodes /\ Other(p) # p /\ Other(Other(p)) = p
           /\ \A q \in Nodes : q = p \/ q = Other(p)
BY TcpclAssumption DEF Other, Nodes

\* What p writes and the wire takes.
Out(p, out) == IF Open(Other(p)) /\ ~cut THEN out ELSE <<>>

LEMMA SentIs ==
    ASSUME Types, NEW p \in Nodes, NEW out \in Seq(Packet)
    PROVE  /\ Sent(p, out) = wire[Other(p)] \o Out(p, out) /\ Out(p, out) \in Seq(Packet)
           /\ Out(p, out) = out \/ Out(p, out) = <<>>
           /\ ~Open(Other(p)) \/ cut => Out(p, out) = <<>>
<1>1. wire[Other(p)] \in Seq(Packet)
  BY OtherNode DEF Types
<1>2. wire[Other(p)] \o <<>> = wire[Other(p)] /\ <<>> \in Seq(Packet)
  BY <1>1, ConcatEmptySeq, EmptySeq
<1> QED BY <1>1, <1>2 DEF Sent, Out

\* The bundles a node knows of, in any of the ways that count.
Grows(q) ==
    received[q] \subseteq received'[q] /\ known[q] \subseteq known'[q] /\ broken[q] \subseteq broken'[q]

LEMMA GrowsKeeps ==
    ASSUME NEW p \in Nodes, Grows(Other(p))
    PROVE  (Excused(p) => Excused(p)') /\ Arrived(p) \subseteq Arrived(p)'
BY DEF Grows, Excused, Arrived

\* A wire from which at most the head was taken, or to which o was added.
Only(w, w2) == w2 = w \/ (w # <<>> /\ w2 = Tail(w))

\* A step that does not touch the direction p: it takes no segment, adds no
\* segment and no reply, and leaves the state of the transfer alone.
LEMMA QuietDirection ==
    ASSUME Types, NEW p \in Nodes, Direction(p), cut' = cut, Grows(Other(p)),
           sess'[p].snd = sess[p].snd, sess'[p].last_tid = sess[p].last_tid,
           sess'[Other(p)].rcv = sess[Other(p)].rcv,
           Open(p)' => Open(p), Open(Other(p))' => Open(Other(p)),
           \/ Only(wire[p], wire'[p])
           \/ \E o \in Seq(Packet) : wire'[p] = wire[p] \o o /\ \A i \in 1..Len(o) : ~IsReply(o[i]),
           \/ Only(wire[Other(p)], wire'[Other(p)])
                /\ (wire'[Other(p)] # wire[Other(p)] => ~IsSeg(Head(wire[Other(p)])))
           \/ \E o \in Seq(Packet) : wire'[Other(p)] = wire[Other(p)] \o o /\ NoSegs(o)
    PROVE  Direction(p)'
<1> DEFINE q == Other(p)   v == wire[p]   v2 == wire'[p]   w == wire[q]   w2 == wire'[q]
           r == sess[q].rcv   x == sess[p].snd   t == sess[p].last_tid
<1>0. q \in Nodes /\ v \in Seq(Packet) /\ w \in Seq(Packet)
  BY OtherNode DEF Types
<1>g. (Excused(p) => Excused(p)') /\ Arrived(p) \subseteq Arrived(p)' /\ known[q] \subseteq known'[q]
  BY GrowsKeeps DEF Grows
<1>d. /\ Stream(p, w, r, cut) /\ Replies(v, x, t, Excused(p), known[q], Arrived(p))
      /\ Open(p) /\ Open(q) /\ ~cut => Link(w, r, v, x, t)
  BY DEF Direction
<1>1. Stream(p, w2, r, cut)
  <2>1. CASE w2 = w
    BY <2>1, <1>d
  <2>2. CASE w # <<>> /\ w2 = Tail(w) /\ ~IsSeg(Head(w))
    BY <2>2, <1>0, <1>d, StreamTaken
  <2>3. CASE \E o \in Seq(Packet) : w2 = w \o o /\ NoSegs(o)
    BY <2>3, <1>0, <1>d, StreamAppended
  <2> QED BY <2>1, <2>2, <2>3 DEF Only
<1>2. Replies(v2, x, t, Excused(p)', known'[q], Arrived(p)')
  <2>1. CASE v2 = v
    <3>1. Replies(v, x, t, Excused(p)', known'[q], Arrived(p)')
      BY <1>d, <1>g, RepliesGrow
    <3> QED BY <2>1, <3>1
  <2>2. CASE v # <<>> /\ v2 = Tail(v)
    BY <2>2, <1>0, <1>d, <1>g, RepliesTaken
  <2>3. CASE \E o \in Seq(Packet) : v2 = v \o o /\ \A i \in 1..Len(o) : ~IsReply(o[i])
    <3> PICK o \in Seq(Packet) : v2 = v \o o /\ \A i \in 1..Len(o) : ~IsReply(o[i])
      BY <2>3
    <3>1. Replies(v \o o, x, t, Excused(p)', known'[q], Arrived(p)')
      BY <1>0, <1>d, <1>g, RepliesAppended
    <3> QED BY <3>1
  <2> QED BY <2>1, <2>2, <2>3 DEF Only
<1>3. \A i \in 1..Len(w2) : IsSeg(w2[i]) => \E j \in 1..Len(w) : w[j] = w2[i]
  <2>1. CASE w2 = w
    BY <2>1
  <2>2. CASE w # <<>> /\ w2 = Tail(w)
    <3> TAKE i \in 1..Len(w2)
    <3>1. i + 1 \in 1..Len(w) /\ w2[i] = w[i+1]
      BY <2>2, <1>0, Taken
    <3> QED BY <3>1
  <2>3. CASE \E o \in Seq(Packet) : w2 = w \o o /\ NoSegs(o)
    <3> PICK o \in Seq(Packet) : w2 = w \o o /\ NoSegs(o)
      BY <2>3
    <3> TAKE i \in 1..Len(w2)
    <3>1. (i \in 1..Len(w) /\ w2[i] = w[i]) \/ (i - Len(w) \in 1..Len(o) /\ w2[i] = o[i - Len(w)])
      BY <1>0, Appended
    <3> QED BY <3>1 DEF NoSegs
  <2> QED BY <2>1, <2>2, <2>3 DEF Only
<1>4. \A i \in 1..Len(v2) : IsReply(v2[i]) => \E j \in 1..Len(v) : v[j] = v2[i]
  <2>1. CASE v2 = v
    BY <2>1
  <2>2. CASE v # <<>> /\ v2 = Tail(v)
    <3> TAKE i \in 1..Len(v2)
    <3>1. i + 1 \in 1..Len(v) /\ v2[i] = v[i+1]
      BY <2>2, <1>0, Taken
    <3> QED BY <3>1
  <2>3. CASE \E o \in Seq(Packet) : v2 = v \o o /\ \A i \in 1..Len(o) : ~IsReply(o[i])
    <3> PICK o \in Seq(Packet) : v2 = v \o o /\ \A i \in 1..Len(o) : ~IsReply(o[i])
      BY <2>3
    <3> TAKE i \in 1..Len(v2)
    <3>1. (i \in 1..Len(v) /\ v2[i] = v[i]) \/ (i - Len(v) \in 1..Len(o) /\ v2[i] = o[i - Len(v)])
      BY <1>0, Appended
    <3> QED BY <3>1
  <2> QED BY <2>1, <2>2, <2>3 DEF Only
<1>5. Open(p)' /\ Open(q)' /\ ~cut => Link(w2, r, v2, x, t)
  <2>1. Link(w, r, v, x, t) => Link(w2, r, v2, x, t)
    <3> HIDE DEF w, w2, r, v, v2, x, t
    <3> QED BY <1>3, <1>4, LinkShrinks
  <2> QED BY <2>1, <1>d
<1> QED BY <1>1, <1>2, <1>5 DEF Direction

\* A session that is up stays up: it takes a packet or none, and writes out.
LEMMA UpHandshake ==
    ASSUME Inv, NEW x \in Nodes, sess[x].phase = "up", NEW s \in Session, s.phase = "up",
           sess' = [sess EXCEPT ![x] = s], cut' = cut,
           NEW out \in Seq(Packet), NEW w1 \in Seq(Packet), Only(wire[x], w1),
           \A i \in 1..Len(out) : out[i].t \notin {"ContactHeader", "SessInit"},
           wire' = [wire EXCEPT ![x] = w1, ![Other(x)] = Sent(x, out)],
           \A b \in Bundles : <<Dialer, b>> \in Transfers /\ task'[<<Dialer, b>>] = "dialing" =>
             task[<<Dialer, b>>] = "dialing"
    PROVE  /\ sess' \in [Nodes -> Session] /\ wire' \in [Nodes -> Seq(Packet)]
           /\ Dialing' /\ (cut => \A p \in Nodes : wire'[p] = <<>>)
           /\ \A p \in Nodes : Handshake(p)'
<1> DEFINE y == Other(x)   o == Out(x, out)
<1>1. y \in Nodes /\ y # x /\ (\A p \in Nodes : p = x \/ p = y) /\ Other(y) = x
  BY OtherNode
<1>2. /\ sess'[x] = s /\ sess'[y] = sess[y] /\ wire'[x] = w1 /\ wire'[y] = wire[y] \o o
      /\ wire[x] \in Seq(Packet) /\ wire[y] \in Seq(Packet) /\ sess[x] \in Session /\ sess[y] \in Session
      /\ o \in Seq(Packet) /\ (o = out \/ o = <<>>) /\ (~Open(y) \/ cut => o = <<>>)
  BY <1>1, SentIs DEF Inv, Types
<1>3. /\ wire[y] \o o \in Seq(Packet) /\ Len(wire[y] \o o) = Len(wire[y]) + Len(o)
      /\ Len(wire[y]) \in Nat /\ Len(o) \in Nat
      /\ \A i \in 1..Len(wire[y]) : (wire[y] \o o)[i] = wire[y][i]
      /\ \A i \in 1..Len(wire[y] \o o) : ~(i <= Len(wire[y])) =>
           i - Len(wire[y]) \in 1..Len(o) /\ (wire[y] \o o)[i] = o[i - Len(wire[y])]
      /\ o = <<>> => wire[y] \o o = wire[y]
  <2> HIDE DEF o
  <2>1. o = <<>> => wire[y] \o o = wire[y]
    BY <1>2, ConcatEmptySeq
  <2> QED BY <1>2, <2>1, Appended
<1>4. sess' \in [Nodes -> Session] /\ wire' \in [Nodes -> Seq(Packet)]
  BY <1>1, <1>2, <1>3 DEF Inv, Types
<1>5. Dialing'
  BY <1>1, <1>2 DEF Inv, Dialing, Open, Nodes
<1>6. cut => \A p \in Nodes : wire'[p] = <<>>
  BY <1>1, <1>2, <1>3 DEF Inv, Only
<1> HIDE DEF o
<1>7. Handshake(x)'
  <2>1. /\ sess'[x].phase = "up" /\ Greeting("up") = <<>> /\ Len(<<>>) = 0
        /\ sess'[y].phase = sess[y].phase
    BY <1>1, <1>2 DEF Greeting
  <2>2. \A i \in 1..Len(wire[x]) : wire[x][i].t \notin {"ContactHeader", "SessInit"}
    <3>1. Greeted(wire[x], sess[x], sess[y].phase, cut)
      BY <1>1 DEF Inv, Handshake
    <3>2. sess[x].phase = "up"
      BY <1>1
    <3>3. \A i \in 1..Len(wire[x]) : ~(i <= 0)
      OBVIOUS
    <3> DEFINE v == wire[x]
    <3> HIDE DEF v
    <3>4. Greeted(v, sess[x], sess[y].phase, cut) /\ \A i \in 1..Len(v) : ~(i <= 0)
      BY <3>1, <3>3 DEF v
    <3>5. \A i \in 1..Len(v) : v[i].t \notin {"ContactHeader", "SessInit"}
      BY <2>1, <3>2, <3>4 DEF Greeted
    <3> QED BY <3>5 DEF v
  <2>3. \A i \in 1..Len(w1) : \E j \in 1..Len(wire[x]) : w1[i] = wire[x][j]
    <3>1. CASE w1 = wire[x]
      BY <3>1
    <3>2. CASE wire[x] # <<>> /\ w1 = Tail(wire[x])
      <4> TAKE i \in 1..Len(w1)
      <4>1. i + 1 \in 1..Len(wire[x]) /\ w1[i] = wire[x][i+1]
        <5> DEFINE v == wire[x]
        <5>1. v \in Seq(Packet) /\ v # <<>> /\ w1 = Tail(v)
          BY <3>2, <1>2
        <5> HIDE DEF v
        <5>2. \A j \in 1..Len(Tail(v)) : j + 1 \in 1..Len(v) /\ Tail(v)[j] = v[j+1]
          BY <5>1, Taken
        <5> QED BY <5>1, <5>2 DEF v
      <4> QED BY <4>1
    <3> QED BY <3>1, <3>2 DEF Only
  <2>4. cut \/ sess[y].phase # "contact"
    <3>1. Len(wire[x]) \in Nat
      BY <1>2, LenProperties
    <3>2. Greeted(wire[x], sess[x], sess[y].phase, cut)
      BY <1>1 DEF Inv, Handshake
    <3> QED BY <3>1, <3>2, <2>1 DEF Greeted
  <2>5. Len(w1) \in Nat
    BY LenProperties
  <2>6. Greeted(w1, s, sess[y].phase, cut)
    BY <2>1, <2>2, <2>3, <2>4, <2>5 DEF Greeted
  <2> QED BY <1>1, <1>2, <2>6 DEF Handshake
<1>8. Handshake(y)'
  <2> DEFINE g == Greeting(sess[y].phase)
  <2>1. Greeted(wire[y], sess[y], "up", cut)
    BY <1>1 DEF Inv, Handshake
  <2>2. Len(g) \in Nat
    BY DEF Greeting
  <2>3. sess[y].phase \in {"off", "down", "dialing"} => o = <<>>
    <3>1. sess[y].phase \in {"off", "down"} => ~Open(y)
      BY DEF Open
    <3>2. sess[y].phase # "dialing"
      BY <1>1 DEF Inv, Dialing, Open, Nodes
    <3> QED BY <3>1, <3>2, <1>2
  <2>4. o # <<>> => Len(wire[y]) >= Len(g)
    BY <1>2, <2>1 DEF Greeted, Open
  <2> HIDE DEF g
  <2>6. \A i \in 1..Len(wire[y] \o o) :
          IF i <= Len(g) THEN (wire[y] \o o)[i] = g[i]
          ELSE (wire[y] \o o)[i].t \notin {"ContactHeader", "SessInit"}
    <3> TAKE i \in 1..Len(wire[y] \o o)
    <3>1. CASE i <= Len(wire[y])
      BY <3>1, <1>3, <2>1 DEF Greeted, g
    <3>2. CASE ~(i <= Len(wire[y]))
      <4>1. i - Len(wire[y]) \in 1..Len(o) /\ (wire[y] \o o)[i] = o[i - Len(wire[y])]
        BY <3>2, <1>3
      <4>2. o # <<>>
        BY <4>1
      <4> QED BY <4>1, <4>2, <3>2, <1>2, <1>3, <2>2, <2>4
    <3> QED BY <3>1, <3>2
  <2>7. sess[y].phase \notin {"off", "down"} /\ ~cut => Len(wire[y] \o o) >= Len(g)
    BY <1>3, <2>1, <2>2 DEF Greeted, g
  <2>8. Greeted(wire[y] \o o, sess[y], "up", cut)
    BY <2>1, <2>3, <2>6, <2>7, <1>3 DEF Greeted, g
  <2> QED BY <2>8, <1>1, <1>2 DEF Handshake
<1> QED BY <1>1, <1>4, <1>5, <1>6, <1>7, <1>8

LEMMA NothingOnTheWire ==
    ASSUME NEW p, NEW r, NEW x, NEW t, NEW e, NEW had, NEW got
    PROVE  /\ Stream(p, <<>>, Idle, FALSE) /\ Stream(p, <<>>, Idle, TRUE) /\ Stream(p, <<>>, r, TRUE)
           /\ Replies(<<>>, x, t, e, had, got)
           /\ Link(<<>>, Idle, <<>>, Idle, 0)
<1>1. Len(<<>>) = 0 /\ (\A i \in 1..Len(<<>>) : FALSE) /\ (\A i \in 2..Len(<<>>) : FALSE)
  OBVIOUS
<1>2. Stream(p, <<>>, Idle, FALSE) /\ Stream(p, <<>>, Idle, TRUE) /\ Stream(p, <<>>, r, TRUE)
  BY <1>1 DEF Stream, Whole, Continues, Idle
<1>3. Replies(<<>>, x, t, e, had, got)
  BY <1>1 DEF Replies
<1>4. Link(<<>>, Idle, <<>>, Idle, 0)
  BY <1>1 DEF Link, Idle
<1> QED BY <1>2, <1>3, <1>4

LEMMA FreshSession ==
    ASSUME NEW ph \in {"off", "dialing", "contact", "init", "up", "down"}
    PROVE  /\ Fresh(ph) \in Session /\ Fresh(ph).phase = ph /\ Fresh(ph).rcv = Idle
           /\ Fresh(ph).snd = Idle /\ Fresh(ph).last_tid = 0 /\ Idle.st = "Idle"
BY DEF Fresh, Session, Idle, ReceiveStates, SendStates

\* A packet that is not part of the handshake or of a transfer.
Plain(m) == m.t \in {"KeepAlive", "SessTerm"}

LEMMA EndKeeps ==
    ASSUME Inv, NEW x \in Nodes, sess[x].phase \in {"contact", "init", "up"}, End(x),
           UNCHANGED <<cut, received, known, broken>>, faulty' \subseteq Nodes
    PROVE  Inv'
<1> DEFINE y == Other(x)
<1>1. y \in Nodes /\ y # x /\ (\A p \in Nodes : p = x \/ p = y) /\ Other(y) = x
  BY OtherNode
<1>2. /\ sess'[x] = Fresh("down") /\ sess'[y] = sess[y] /\ wire'[x] = <<>> /\ wire'[y] = wire[y]
      /\ wire[x] \in Seq(Packet) /\ wire[y] \in Seq(Packet) /\ sess[x] \in Session /\ sess[y] \in Session
  BY <1>1 DEF Inv, Types, End
<1>f. /\ Fresh("down") \in Session /\ Fresh("down").phase = "down" /\ Fresh("down").rcv = Idle
      /\ Fresh("down").snd = Idle /\ Fresh("down").last_tid = 0 /\ Idle.st = "Idle"
  BY FreshSession
<1>4. Types'
  <2>1. sess' \in [Nodes -> Session]
    BY <1>1, <1>2, <1>f DEF End, Inv, Types
  <2>2. wire' \in [Nodes -> Seq(Packet)]
    BY <1>1, <1>2, EmptySeq DEF End, Inv, Types
  <2>3. queue' \in [Nodes -> Seq(Bundles)]
    BY EmptySeq DEF End, Inv, Types
  <2>4. task' \in [Transfers -> {"absent", "idle", "dialing", "found", "queued"} \cup Answers]
    BY DEF End, Inv, Types, Answers
  <2> QED BY <2>1, <2>2, <2>3, <2>4 DEF Inv, Types
<1>5. Belongs'
  <2>1. queue'[x] = <<>> /\ queue'[y] = queue[y]
    BY <1>1 DEF End, Inv, Types
  <2>2. \A i \in 1..Len(<<>>) : FALSE
    OBVIOUS
  <2> QED BY <1>1, <1>2, <1>f, <2>1, <2>2 DEF Inv, Belongs
<1>6. Dialing'
  <2>1. \A b \in Bundles : <<Dialer, b>> \in Transfers /\ task'[<<Dialer, b>>] = "dialing" =>
          task[<<Dialer, b>>] = "dialing"
    BY DEF End, Inv, Types
  <2> QED BY <1>1, <1>2, <1>f, <2>1 DEF Inv, Dialing, Open, Nodes
<1>7. cut => \A p \in Nodes : wire'[p] = <<>>
  BY <1>1, <1>2 DEF Inv
<1>8. Handshake(x)'
  <2>1. Greeted(<<>>, Fresh("down"), sess[y].phase, cut)
    BY <1>f DEF Greeted
  <2> QED BY <2>1, <1>1, <1>2 DEF Handshake
<1>9. Handshake(y)'
  <2>1. Greeted(wire[y], sess[y], sess[x].phase, cut)
    BY <1>1 DEF Inv, Handshake
  <2>2. Greeted(wire[y], sess[y], "down", cut)
    BY <2>1 DEF Greeted
  <2> QED BY <2>2, <1>1, <1>2, <1>f DEF Handshake
<1>10. ~Open(x)'
  BY <1>2, <1>f DEF Open
<1>g. Excused(x)' = Excused(x) /\ Arrived(x)' = Arrived(x) /\ Excused(y)' = Excused(y) /\ Arrived(y)' = Arrived(y)
  BY DEF Excused, Arrived
<1>11. Direction(x)'
  <2>1. Stream(x, wire[y], sess[y].rcv, cut)
    BY DEF Inv, Direction
  <2>2. Replies(<<>>, Idle, 0, Excused(x), known[y], Arrived(x))
    BY NothingOnTheWire
  <2> QED BY <1>1, <1>2, <1>f, <1>g, <1>10, <2>1, <2>2 DEF Direction
<1>12. Direction(y)'
  <2>1. Stream(y, <<>>, Idle, cut)
    BY NothingOnTheWire DEF Inv, Types
  <2>2. Replies(wire[y], sess[y].snd, sess[y].last_tid, Excused(y), known[x], Arrived(y))
    BY <1>1 DEF Inv, Direction
  <2> QED BY <1>1, <1>2, <1>f, <1>g, <1>10, <2>1, <2>2 DEF Direction
<1> QED BY <1>1, <1>4, <1>5, <1>6, <1>7, <1>8, <1>9, <1>11, <1>12 DEF Inv

LEMMA ActiveSession ==
    ASSUME NEW s \in Session
    PROVE  /\ Active(s) \in Session /\ Active(s).phase = s.phase /\ Active(s).rcv = s.rcv
           /\ Active(s).snd = s.snd /\ Active(s).last_tid = s.last_tid
BY DEF Active, Session

LEMMA HandledIs ==
    ASSUME Types, NEW p \in Nodes, wire[p] # <<>>, NEW s, NEW out \in Seq(Packet), Handled(p, s, out)
    PROVE  LET q == Other(p)
           IN  /\ sess' = [sess EXCEPT ![p] = s]
               /\ wire' = [wire EXCEPT ![p] = Tail(wire[p]), ![q] = Sent(p, out)]
               /\ sess'[p] = s /\ sess'[q] = sess[q] /\ wire'[p] = Tail(wire[p])
               /\ wire'[q] = wire[q] \o Out(p, out)
               /\ wire[p] \in Seq(Packet) /\ wire[q] \in Seq(Packet) /\ Tail(wire[p]) \in Seq(Packet)
               /\ Head(wire[p]) \in Packet /\ Head(wire[p]) = wire[p][1] /\ 1 \in 1..Len(wire[p])
               /\ sess[p] \in Session /\ sess[q] \in Session
               /\ Out(p, out) \in Seq(Packet) /\ (Out(p, out) = out \/ Out(p, out) = <<>>)
               /\ (~Open(q) \/ cut => Out(p, out) = <<>>) /\ (Open(q) /\ ~cut => Out(p, out) = out)
               /\ wire[q] \o <<>> = wire[q]
<1> DEFINE q == Other(p)
<1>1. q \in Nodes /\ q # p
  BY OtherNode
<1>2. wire[p] \in Seq(Packet) /\ wire[q] \in Seq(Packet) /\ sess[p] \in Session /\ sess[q] \in Session
  BY <1>1 DEF Types
<1>3. /\ Tail(wire[p]) \in Seq(Packet) /\ Head(wire[p]) \in Packet
      /\ Head(wire[p]) = wire[p][1] /\ 1 \in 1..Len(wire[p])
  BY <1>2, Taken
<1>4. /\ sess' = [sess EXCEPT ![p] = s]
      /\ wire' = [wire EXCEPT ![p] = Tail(wire[p]), ![q] = Sent(p, out)]
  BY DEF Handled
<1>5. sess'[p] = s /\ sess'[q] = sess[q] /\ wire'[p] = Tail(wire[p]) /\ wire'[q] = Sent(p, out)
  BY <1>1, <1>4 DEF Types
<1>6. /\ Sent(p, out) = wire[q] \o Out(p, out)
      /\ Out(p, out) \in Seq(Packet) /\ (Out(p, out) = out \/ Out(p, out) = <<>>)
      /\ (~Open(q) \/ cut => Out(p, out) = <<>>)
  BY SentIs
<1>7. Open(q) /\ ~cut => Out(p, out) = out
  BY DEF Out
<1>8. wire[q] \o <<>> = wire[q]
  BY <1>2, ConcatEmptySeq
<1> QED BY <1>2, <1>3, <1>4, <1>5, <1>6, <1>7, <1>8

\* p takes a segment of its peer and answers with the replies out.
LEMMA SegmentKeeps ==
    ASSUME Inv, NEW p \in Nodes, sess[p].phase = "up", wire[p] # <<>>, IsSeg(Head(wire[p])),
           NEW s \in Session, s.phase = "up", s.snd = sess[p].snd, s.last_tid = sess[p].last_tid,
           NEW out \in Seq(Packet), \A i \in 1..Len(out) : IsReply(out[i]),
           Handled(p, s, out), Beyond(s.rcv, Head(wire[p])),
           cut' = cut, queue' = queue, task' = task, known' = known, faulty' = faulty,
           received' \in [Nodes -> SUBSET Bundles], broken' \in [Nodes -> SUBSET Seq(Byte)],
           Grows(p), Grows(Other(p)),
           LET y == Other(p)
           IN  Open(y) /\ ~cut =>
                 /\ Link(Tail(wire[p]), s.rcv, wire[y] \o out, sess[y].snd, sess[y].last_tid)
                 /\ Replies(wire[y] \o out, sess[y].snd, sess[y].last_tid, Excused(y)', known[p], Arrived(y)')
    PROVE  Inv'
<1> DEFINE y == Other(p)   w == wire[p]   o == Out(p, out)
<1>1. y \in Nodes /\ y # p /\ (\A q \in Nodes : q = p \/ q = y) /\ Other(y) = p
  BY OtherNode
<1>t. Types
  BY DEF Inv
<1>2. /\ sess' = [sess EXCEPT ![p] = s]
      /\ wire' = [wire EXCEPT ![p] = Tail(wire[p]), ![y] = Sent(p, out)]
      /\ sess'[p] = s /\ sess'[y] = sess[y] /\ wire'[p] = Tail(w) /\ wire'[y] = wire[y] \o o
      /\ w \in Seq(Packet) /\ wire[y] \in Seq(Packet) /\ Tail(w) \in Seq(Packet)
      /\ o \in Seq(Packet) /\ (o = out \/ o = <<>>) /\ (~Open(y) \/ cut => o = <<>>)
      /\ (Open(y) /\ ~cut => o = out) /\ wire[y] \o <<>> = wire[y]
  BY <1>t, HandledIs
<1> HIDE DEF o
<1>r. \A i \in 1..Len(o) : IsReply(o[i])
  BY <1>2
<1>3. /\ sess' \in [Nodes -> Session] /\ wire' \in [Nodes -> Seq(Packet)]
      /\ Dialing' /\ (cut => \A q \in Nodes : wire'[q] = <<>>)
      /\ \A q \in Nodes : Handshake(q)'
  <2>1. \A i \in 1..Len(out) : out[i].t \notin {"ContactHeader", "SessInit"}
    BY DEF IsReply
  <2>2. Only(wire[p], Tail(w))
    BY DEF Only
  <2>3. \A b \in Bundles : <<Dialer, b>> \in Transfers /\ task'[<<Dialer, b>>] = "dialing" =>
          task[<<Dialer, b>>] = "dialing"
    OBVIOUS
  <2> DEFINE w1 == Tail(w)
  <2>4. /\ w1 \in Seq(Packet) /\ Only(wire[p], w1) /\ sess' = [sess EXCEPT ![p] = s]
        /\ wire' = [wire EXCEPT ![p] = w1, ![Other(p)] = Sent(p, out)]
    BY <1>2, <2>2
  <2> HIDE DEF w1
  <2> QED BY <2>1, <2>3, <2>4, UpHandshake
<1>4. Types'
  BY <1>3, <1>t DEF Types
<1>5. Belongs'
  BY <1>1, <1>2 DEF Inv, Belongs
<1>6. Direction(p)'
  <2>1. NoSegs(o)
    BY <1>r DEF NoSegs, IsSeg, IsReply
  <2>2. Direction(p) /\ Only(wire[p], wire'[p])
    BY <1>2 DEF Inv, Only
  <2>3. (Open(p)' => Open(p)) /\ (Open(y)' => Open(y))
    BY <1>2 DEF Open
  <2>4. \E u \in Seq(Packet) : wire'[y] = wire[y] \o u /\ NoSegs(u)
    BY <1>2, <2>1
  <2> QED BY <1>t, <1>2, <2>2, <2>3, <2>4, QuietDirection
<1>7. Direction(y)'
  <2>0. Direction(y) /\ cut = FALSE
    BY <1>1, <1>t DEF Inv, Types
  <2>1. Stream(y, Tail(w), s.rcv, cut)
    <3>1. Stream(y, w, sess[p].rcv, cut)
      BY <1>1, <2>0 DEF Direction
    <3> QED BY <1>2, <3>1, StreamSegmentTaken
  <2>2. Replies(wire[y] \o o, sess[y].snd, sess[y].last_tid, Excused(y)', known[p], Arrived(y)')
    <3>1. CASE Open(y)
      BY <3>1, <2>0, <1>2
    <3>2. CASE ~Open(y)
      <4>1. Replies(wire[y], sess[y].snd, sess[y].last_tid, Excused(y), known[p], Arrived(y))
        BY <1>1, <2>0 DEF Direction
      <4>2. (Excused(y) => Excused(y)') /\ Arrived(y) \subseteq Arrived(y)'
        BY <1>1, GrowsKeeps
      <4>3. Replies(wire[y], sess[y].snd, sess[y].last_tid, Excused(y)', known[p], Arrived(y)')
        BY <4>1, <4>2, RepliesGrow
      <4> QED BY <3>2, <4>3, <1>2
    <3> QED BY <3>1, <3>2
  <2>3. Open(y)' /\ ~cut => Link(Tail(w), s.rcv, wire[y] \o o, sess[y].snd, sess[y].last_tid)
    BY <1>2 DEF Open
  <2> QED BY <1>1, <1>2, <2>1, <2>2, <2>3 DEF Direction
<1> QED BY <1>1, <1>3, <1>4, <1>5, <1>6, <1>7 DEF Inv

\* p takes a packet that is no segment, or none, and writes segments or plain
\* packets, as the sender of its transfers.
LEMMA SenderKeeps ==
    ASSUME Inv, NEW p \in Nodes, sess[p].phase = "up",
           NEW s \in Session, s.phase = "up", s.rcv = sess[p].rcv,
           NEW w1 \in Seq(Packet), Only(wire[p], w1), w1 # wire[p] => ~IsSeg(Head(wire[p])),
           NEW out \in Seq(Packet), \A i \in 1..Len(out) : IsSeg(out[i]) \/ Plain(out[i]),
           sess' = [sess EXCEPT ![p] = s],
           wire' = [wire EXCEPT ![p] = w1, ![Other(p)] = Sent(p, out)],
           cut' = cut, received' = received, known' = known, broken' = broken, faulty' = faulty,
           queue' \in [Nodes -> Seq(Bundles)],
           task' \in [Transfers -> {"absent", "idle", "dialing", "found", "queued"} \cup Answers],
           Belongs',
           \A b \in Bundles : <<Dialer, b>> \in Transfers /\ task'[<<Dialer, b>>] = "dialing" =>
             task[<<Dialer, b>>] = "dialing",
           LET q == Other(p)
           IN  /\ Stream(p, wire[q] \o Out(p, out), sess[q].rcv, cut)
               /\ Replies(w1, s.snd, s.last_tid, Excused(p), known[q], Arrived(p))
               /\ Open(q) /\ ~cut => Link(wire[q] \o out, sess[q].rcv, w1, s.snd, s.last_tid)
    PROVE  Inv'
<1> DEFINE y == Other(p)   o == Out(p, out)
<1>1. y \in Nodes /\ y # p /\ (\A q \in Nodes : q = p \/ q = y) /\ Other(y) = p
  BY OtherNode
<1>t. Types
  BY DEF Inv
<1>2. /\ sess'[p] = s /\ sess'[y] = sess[y] /\ wire'[p] = w1 /\ wire'[y] = wire[y] \o o
      /\ wire[p] \in Seq(Packet) /\ wire[y] \in Seq(Packet)
      /\ o \in Seq(Packet) /\ (o = out \/ o = <<>>) /\ (~Open(y) \/ cut => o = <<>>)
  BY <1>1, <1>t, SentIs DEF Types
<1>3. /\ sess' \in [Nodes -> Session] /\ wire' \in [Nodes -> Seq(Packet)]
      /\ Dialing' /\ (cut => \A q \in Nodes : wire'[q] = <<>>)
      /\ \A q \in Nodes : Handshake(q)'
  <2>1. \A i \in 1..Len(out) : out[i].t \notin {"ContactHeader", "SessInit"}
    BY DEF Plain, IsSeg
  <2> QED BY <2>1, UpHandshake
<1>4. Types'
  BY <1>3, <1>t DEF Types
<1>g. Grows(y) /\ Grows(p) /\ Excused(p)' = Excused(p) /\ Arrived(p)' = Arrived(p)
  BY DEF Grows, Excused, Arrived
<1>5. Direction(p)'
  <2>1. Open(y) /\ ~cut => o = out
    BY DEF Out
  <2>2. Open(y)' = Open(y)
    BY <1>2 DEF Open
  <2> HIDE DEF o
  <2>3. Stream(p, wire[y] \o o, sess[y].rcv, cut)
    BY DEF o
  <2> QED BY <1>2, <1>g, <2>1, <2>2, <2>3 DEF Direction
<1>6. Direction(y)'
  <2> HIDE DEF o
  <2>1. \A i \in 1..Len(o) : ~IsReply(o[i])
    <3>1. \A i \in 1..Len(out) : ~IsReply(out[i])
      BY DEF IsSeg, Plain, IsReply
    <3>2. CASE o = <<>>
      BY <3>2
    <3>3. CASE o = out
      BY <3>1, <3>3
    <3> QED BY <1>2, <3>2, <3>3
  <2>2. Direction(y) /\ Only(wire[p], wire'[p]) /\ (wire'[p] # wire[p] => ~IsSeg(Head(wire[p])))
    BY <1>1, <1>2 DEF Inv
  <2>3. (Open(p)' => Open(p)) /\ (Open(y)' => Open(y))
    BY <1>2 DEF Open
  <2>4. \E u \in Seq(Packet) : wire'[y] = wire[y] \o u /\ \A i \in 1..Len(u) : ~IsReply(u[i])
    BY <1>2, <2>1
  <2> QED BY <1>t, <1>1, <1>2, <1>g, <2>2, <2>3, <2>4, QuietDirection
<1> QED BY <1>1, <1>3, <1>4, <1>5, <1>6 DEF Inv

\* The sessions and the connection stay as they are.
LEMMA FrameKeeps ==
    ASSUME Inv, Types', Belongs', Dialing', UNCHANGED <<cut, sess, wire>>,
           \A q \in Nodes : Grows(q)
    PROVE  Inv'
<1>1. \A q \in Nodes : Handshake(q)'
  BY DEF Inv, Handshake
<1>2. \A q \in Nodes : Direction(q)'
  <2> TAKE q \in Nodes
  <2>1. Types /\ Direction(q) /\ Other(q) \in Nodes
    BY OtherNode DEF Inv
  <2>2. (Open(q)' => Open(q)) /\ (Open(Other(q))' => Open(Other(q)))
    BY DEF Open
  <2>3. Only(wire[q], wire'[q]) /\ Only(wire[Other(q)], wire'[Other(q)])
    BY DEF Only
  <2> QED BY <2>1, <2>2, <2>3, QuietDirection
<1> QED BY <1>1, <1>2 DEF Inv

LEMMA NodeOfTransfer ==
    ASSUME NEW p, NEW b, <<p, b>> \in Transfers
    PROVE  p \in Nodes /\ b \in Bundles
BY TcpclAssumption

LEMMA LookupKeeps ==
    ASSUME Inv, NEW p, NEW b, <<p, b>> \in Transfers, Lookup(p, b)
    PROVE  Inv'
<1>1. Types'
  BY DEF Inv, Types, Lookup
<1>2. Belongs'
  BY DEF Inv, Belongs, Lookup
<1>3. \A c \in Bundles : <<Dialer, c>> \in Transfers /\ task'[<<Dialer, c>>] = "dialing" =>
        task[<<Dialer, c>>] = "dialing"
  BY DEF Inv, Types, Lookup
<1>4. Dialing'
  BY <1>3 DEF Inv, Dialing, Lookup, Open
<1>5. UNCHANGED <<cut, sess, wire>> /\ \A q \in Nodes : Grows(q)
  BY DEF Lookup, Grows
<1> QED BY <1>1, <1>2, <1>4, <1>5, FrameKeeps

LEMMA DialBackKeeps ==
    ASSUME Inv, NEW b, <<Listener, b>> \in Transfers, DialBack(b)
    PROVE  Inv'
<1>1. Types'
  BY DEF Inv, Types, DialBack, Answer, Answers
<1>2. Belongs'
  BY DEF Inv, Belongs, DialBack
<1>3. \A c \in Bundles : <<Dialer, c>> \in Transfers /\ task'[<<Dialer, c>>] = "dialing" =>
        task[<<Dialer, c>>] = "dialing"
  BY DEF Inv, Types, DialBack, Answer
<1>4. Dialing'
  BY <1>3 DEF Inv, Dialing, DialBack, Open
<1>5. UNCHANGED <<cut, sess, wire>> /\ \A q \in Nodes : Grows(q)
  BY DEF DialBack, Grows
<1> QED BY <1>1, <1>2, <1>4, <1>5, FrameKeeps

LEMMA PushKeeps ==
    ASSUME Inv, NEW p, NEW b, <<p, b>> \in Transfers, Push(p, b)
    PROVE  Inv'
<1>0. p \in Nodes /\ b \in Bundles /\ queue[p] \in Seq(Bundles)
  BY NodeOfTransfer DEF Inv, Types
<1>1. /\ UNCHANGED <<cut, sess, wire, received, known, broken, faulty>>
      /\ \E a \in Answers \cup {"queued"} : task' = [task EXCEPT ![<<p, b>>] = a]
      /\ queue' = queue \/ queue' = [queue EXCEPT ![p] = Append(queue[p], b)]
  BY DEF Push, Answer, Answers
<1>2. /\ Append(queue[p], b) \in Seq(Bundles)
      /\ Len(Append(queue[p], b)) = Len(queue[p]) + 1 /\ Len(queue[p]) \in Nat
      /\ \A i \in 1..Len(queue[p]) : Append(queue[p], b)[i] = queue[p][i]
      /\ Append(queue[p], b)[Len(queue[p]) + 1] = b
  BY <1>0, AppendProperties, LenProperties
<1>3. Types'
  <2>1. queue' \in [Nodes -> Seq(Bundles)]
    BY <1>0, <1>1, <1>2 DEF Inv, Types
  <2>2. task' \in [Transfers -> {"absent", "idle", "dialing", "found", "queued"} \cup Answers]
    BY <1>1 DEF Inv, Types
  <2> QED BY <1>1, <2>1, <2>2 DEF Inv, Types
<1>4. Belongs'
  <2>1. \A i \in 1..Len(Append(queue[p], b)) : <<p, Append(queue[p], b)[i]>> \in Transfers
    <3> TAKE i \in 1..Len(Append(queue[p], b))
    <3>1. i \in 1..Len(queue[p]) \/ i = Len(queue[p]) + 1
      BY <1>2
    <3> QED BY <3>1, <1>0, <1>2 DEF Inv, Belongs
  <2>2. \A q \in Nodes : queue'[q] = queue[q] \/ (q = p /\ queue'[q] = Append(queue[p], b))
    BY <1>0, <1>1 DEF Inv, Types
  <2>3. \A q \in Nodes : \A i \in 1..Len(queue'[q]) : <<q, queue'[q][i]>> \in Transfers
    <3> TAKE q \in Nodes
    <3>1. CASE queue'[q] = queue[q]
      BY <3>1 DEF Inv, Belongs
    <3>2. CASE q = p /\ queue'[q] = Append(queue[p], b)
      BY <3>2, <2>1
    <3> QED BY <2>2, <3>1, <3>2
  <2> QED BY <1>1, <2>3 DEF Inv, Belongs
<1>5. \A c \in Bundles : <<Dialer, c>> \in Transfers /\ task'[<<Dialer, c>>] = "dialing" =>
        task[<<Dialer, c>>] = "dialing"
  BY <1>1 DEF Inv, Types, Answers
<1>6. Dialing'
  BY <1>1, <1>5 DEF Inv, Dialing, Open
<1>7. \A q \in Nodes : Grows(q)
  BY <1>1 DEF Grows
<1> QED BY <1>1, <1>3, <1>4, <1>6, <1>7, FrameKeeps

LEMMA StoreKeeps ==
    ASSUME Inv, NEW p \in Nodes, NEW b \in Bundles, Store(p, b)
    PROVE  Inv'
<1>1. Types'
  BY DEF Inv, Types, Store
<1>2. Belongs'
  BY DEF Inv, Belongs, Store
<1>3. Dialing'
  BY DEF Inv, Dialing, Store, Open
<1>4. UNCHANGED <<cut, sess, wire>> /\ \A q \in Nodes : Grows(q)
  BY DEF Inv, Types, Store, Grows
<1> QED BY <1>1, <1>2, <1>3, <1>4, FrameKeeps

\* Before the first transfer of a session.
LEMMA NothingSent ==
    ASSUME NEW p \in Nodes, sess'[p].snd = Idle, sess'[Other(p)].rcv = Idle,
           NoSegs(wire'[Other(p)]), \A i \in 1..Len(wire'[p]) : ~IsReply(wire'[p][i]),
           wire'[Other(p)] \in Seq(Packet)
    PROVE  Direction(p)'
<1> DEFINE q == Other(p)   v == wire'[p]   w == wire'[q]   t == sess'[p].last_tid
<1>1. Idle.st = "Idle"
  BY DEF Idle
<1>2. w # <<>> => 1 \in 1..Len(w)
  BY LenProperties, EmptySeq
<1>3. Len(w) \in Nat
  BY LenProperties
<1> HIDE DEF w, v, q, t
<1>4. \A i \in 1..Len(w) : ~IsSeg(w[i]) /\ ~IsData(w[i])
  BY DEF NoSegs, IsSeg, IsData, w, q
<1>5. Whole(p, w)
  <2>1. \A i \in 2..Len(w) : i \in 1..Len(w)
    BY <1>3
  <2> QED BY <1>4, <2>1 DEF Whole
<1>6. Continues(w, Idle, cut')
  BY <1>1, <1>2, <1>4 DEF Continues
<1>7. \A i \in 1..Len(v) : ~IsReply(v[i])
  BY DEF v
<1>8. Replies(v, Idle, t, Excused(p)', known'[q], Arrived(p)')
  BY <1>1, <1>7 DEF Replies, IsReply
<1>9. Link(w, Idle, v, Idle, t)
  BY <1>1, <1>4 DEF Link
<1> QED BY <1>5, <1>6, <1>8, <1>9 DEF Direction, Stream, v, w, q, t

LEMMA EmptyWire ==
    /\ NoSegs(<<>>) /\ \A i \in 1..Len(<<>>) : ~IsReply(<<>>[i])
    /\ NoSegs(<<ContactHeader>>) /\ \A i \in 1..Len(<<ContactHeader>>) : ~IsReply(<<ContactHeader>>[i])
    /\ <<>> \in Seq(Packet) /\ <<ContactHeader>> \in Seq(Packet)
<1>1. /\ ContactHeader \in Packet /\ Len(<<ContactHeader>>) = 1 /\ <<ContactHeader>>[1] = ContactHeader
      /\ ContactHeader.t = "ContactHeader"
  BY DEF ContactHeader, Packet
<1>2. <<>> \in Seq(Packet) /\ Len(<<>>) = 0 /\ <<ContactHeader>> \in Seq(Packet)
  BY <1>1, EmptySeq
<1> QED BY <1>1, <1>2 DEF NoSegs, IsSeg, IsReply

\* No session is open: the wires are empty.
LEMMA ClosedIsFresh ==
    ASSUME Inv, NEW p \in Nodes, ~Open(p) \/ sess[p].phase = "dialing"
    PROVE  wire[p] = <<>> /\ sess[p] = Fresh(sess[p].phase)
<1>1. sess[p].phase \in {"off", "down", "dialing"}
  BY DEF Open
<1> QED BY <1>1 DEF Inv, Handshake, Greeted

LEMMA DialKeeps ==
    ASSUME Inv, NEW b, <<Dialer, b>> \in Transfers, Dial(b)
    PROVE  Inv'
<1>0. /\ Dialer \in Nodes /\ Listener \in Nodes /\ Dialer # Listener /\ b \in Bundles
      /\ Other(Dialer) = Listener /\ Other(Listener) = Dialer /\ \A q \in Nodes : q \in {Dialer, Listener}
  BY TcpclAssumption, NodeOfTransfer DEF Nodes, Other
<1>1. \A q \in Nodes : ~Open(q) /\ wire[q] = <<>> /\ sess[q] = Fresh(sess[q].phase)
  BY ClosedIsFresh DEF Dial
<1>2. /\ sess'[Dialer] = Fresh("dialing") /\ sess'[Listener] = sess[Listener]
      /\ sess[Listener].phase \in {"off", "down"} /\ wire' = wire /\ cut' = FALSE
  BY <1>0, <1>1 DEF Inv, Types, Dial, Open
<1>3. /\ Fresh("dialing") \in Session /\ Fresh("dialing").phase = "dialing"
      /\ \A q \in Nodes : sess'[q].rcv = Idle /\ sess'[q].snd = Idle /\ sess'[q] = Fresh(sess'[q].phase)
  BY <1>0, <1>1, <1>2, FreshSession
<1>4. Types'
  <2>1. sess' \in [Nodes -> Session]
    BY <1>3 DEF Inv, Types, Dial
  <2>2. task' \in [Transfers -> {"absent", "idle", "dialing", "found", "queued"} \cup Answers]
    BY DEF Inv, Types, Dial
  <2> QED BY <2>1, <2>2 DEF Inv, Types, Dial
<1>5. Belongs'
  <2>1. \A q \in Nodes : sess'[q].snd.st = "Idle"
    BY <1>3 DEF Idle
  <2> QED BY <2>1 DEF Inv, Belongs, Dial
<1>6. Dialing'
  <2>1. \A c \in Bundles : <<Dialer, c>> \in Transfers /\ task'[<<Dialer, c>>] = "dialing" => c = b
    <3>1. \A c \in Bundles : <<Dialer, c>> \in Transfers => task[<<Dialer, c>>] # "dialing"
      BY <1>0, <1>1 DEF Inv, Dialing, Open
    <3> QED BY <3>1 DEF Inv, Types, Dial
  <2> QED BY <1>0, <1>2, <1>3, <2>1 DEF Dialing, Open
<1>7. \A q \in Nodes : Handshake(q)'
  <2>1. Greeted(<<>>, sess'[Dialer], sess'[Listener].phase, FALSE)
    BY <1>2, <1>3 DEF Greeted
  <2>2. Greeted(<<>>, sess'[Listener], sess'[Dialer].phase, FALSE)
    BY <1>0, <1>2, <1>3 DEF Greeted
  <2> QED BY <1>0, <1>1, <1>2, <2>1, <2>2 DEF Handshake
<1>8. \A q \in Nodes : Direction(q)'
  <2>1. \A q \in Nodes : wire'[q] = <<>> /\ Other(q) \in Nodes
    BY <1>1, <1>2, OtherNode
  <2>2. \A q \in Nodes : /\ sess'[q].snd = Idle /\ sess'[Other(q)].rcv = Idle
                         /\ NoSegs(wire'[Other(q)]) /\ \A i \in 1..Len(wire'[q]) : ~IsReply(wire'[q][i])
                         /\ wire'[Other(q)] \in Seq(Packet)
    BY <1>3, <2>1, EmptyWire
  <2> QED BY <2>2, NothingSent
<1> QED BY <1>1, <1>2, <1>4, <1>5, <1>6, <1>7, <1>8 DEF Inv

LEMMA ConnectedKeeps ==
    ASSUME Inv, NEW b, <<Dialer, b>> \in Transfers, Connected(b)
    PROVE  Inv'
<1>0. /\ Dialer \in Nodes /\ Listener \in Nodes /\ Dialer # Listener /\ b \in Bundles
      /\ Other(Dialer) = Listener /\ Other(Listener) = Dialer /\ \A q \in Nodes : q \in {Dialer, Listener}
  BY TcpclAssumption, NodeOfTransfer DEF Nodes, Other
<1>1. cut = FALSE /\ cut' = FALSE
  BY <1>0 DEF Inv, Types, Dialing, Connected
<1>2. \A q \in Nodes : /\ sess'[q] = Fresh("contact") /\ wire'[q] = <<ContactHeader>>
                       /\ sess'[q].phase = "contact" /\ sess'[q].rcv = Idle /\ sess'[q].snd = Idle
                       /\ sess'[q].snd.st = "Idle" /\ Other(q) \in Nodes
  BY FreshSession, OtherNode DEF Connected
<1>3. Types'
  <2>1. sess' \in [Nodes -> Session]
    BY FreshSession DEF Connected
  <2>2. wire' \in [Nodes -> Seq(Packet)]
    BY EmptyWire DEF Connected
  <2>3. task' \in [Transfers -> {"absent", "idle", "dialing", "found", "queued"} \cup Answers]
    BY DEF Inv, Types, Connected
  <2> QED BY <2>1, <2>2, <2>3 DEF Inv, Types, Connected
<1>4. Belongs'
  BY <1>2 DEF Inv, Belongs, Connected
<1>5. Dialing'
  <2>1. \A c \in Bundles : <<Dialer, c>> \in Transfers => task'[<<Dialer, c>>] # "dialing"
    BY <1>0 DEF Inv, Types, Dialing, Connected
  <2> QED BY <1>0, <1>2, <2>1 DEF Dialing
<1>6. \A q \in Nodes : Handshake(q)'
  <2>1. Greeted(<<ContactHeader>>, Fresh("contact"), "contact", FALSE)
    <3> DEFINE s == Fresh("contact")
    <3>1. /\ s.phase = "contact" /\ s = Fresh(s.phase) /\ Greeting("contact") = <<ContactHeader, SessInit>>
          /\ Len(<<ContactHeader, SessInit>>) = 2 /\ <<ContactHeader, SessInit>>[1] = ContactHeader
          /\ Len(<<ContactHeader>>) = 1 /\ <<ContactHeader>>[1] = ContactHeader
      BY FreshSession DEF Greeting
    <3> HIDE DEF s
    <3>2. Greeted(<<ContactHeader>>, s, "contact", FALSE)
      BY <3>1 DEF Greeted
    <3> QED BY <3>2 DEF s
  <2> QED BY <1>1, <1>2, <2>1 DEF Handshake
<1>7. \A q \in Nodes : Direction(q)'
  <2>1. \A q \in Nodes : /\ sess'[q].snd = Idle /\ sess'[Other(q)].rcv = Idle
                         /\ NoSegs(wire'[Other(q)]) /\ \A i \in 1..Len(wire'[q]) : ~IsReply(wire'[q][i])
                         /\ wire'[Other(q)] \in Seq(Packet)
    BY <1>2, EmptyWire
  <2> QED BY <2>1, NothingSent
<1> QED BY <1>1, <1>3, <1>4, <1>5, <1>6, <1>7 DEF Inv

LEMMA NotConnectedKeeps ==
    ASSUME Inv, NEW b, <<Dialer, b>> \in Transfers, NotConnected(b)
    PROVE  Inv'
<1>0. /\ Dialer \in Nodes /\ Listener \in Nodes /\ Dialer # Listener /\ b \in Bundles
      /\ Other(Dialer) = Listener /\ Other(Listener) = Dialer /\ \A q \in Nodes : q \in {Dialer, Listener}
  BY TcpclAssumption, NodeOfTransfer DEF Nodes, Other
<1>1. sess[Dialer].phase = "dialing" /\ ~Open(Listener)
  BY <1>0 DEF Inv, Dialing, NotConnected
<1>2. \A q \in Nodes : wire[q] = <<>> /\ sess[q] = Fresh(sess[q].phase)
  BY <1>0, <1>1, ClosedIsFresh
<1>3. /\ sess'[Dialer] = Fresh("down") /\ sess'[Listener] = sess[Listener]
      /\ sess[Listener].phase \in {"off", "down"} /\ wire' = wire /\ cut' = cut
  BY <1>0, <1>1 DEF Inv, Types, NotConnected, Open
<1>4. /\ Fresh("down") \in Session /\ Fresh("down").phase = "down"
      /\ \A q \in Nodes : sess'[q].rcv = Idle /\ sess'[q].snd = Idle /\ sess'[q] = Fresh(sess'[q].phase)
  BY <1>0, <1>2, <1>3, FreshSession
<1>5. Types'
  <2>1. sess' \in [Nodes -> Session]
    BY <1>4 DEF Inv, Types, NotConnected
  <2>2. task' \in [Transfers -> {"absent", "idle", "dialing", "found", "queued"} \cup Answers]
    BY DEF Inv, Types, NotConnected, Answers
  <2>3. queue' \in [Nodes -> Seq(Bundles)]
    BY EmptySeq DEF Inv, Types, NotConnected
  <2> QED BY <2>1, <2>2, <2>3 DEF Inv, Types, NotConnected
<1>6. Belongs'
  <2>1. \A q \in Nodes : sess'[q].snd.st = "Idle"
    BY <1>4 DEF Idle
  <2>2. \A q \in Nodes : queue'[q] = <<>> \/ queue'[q] = queue[q]
    BY DEF Inv, Types, NotConnected
  <2>3. \A i \in 1..Len(<<>>) : FALSE
    OBVIOUS
  <2> QED BY <2>1, <2>2, <2>3 DEF Inv, Belongs
<1>7. Dialing'
  <2>1. \A c \in Bundles : <<Dialer, c>> \in Transfers => task'[<<Dialer, c>>] # "dialing"
    <3>1. \A c \in Bundles : <<Dialer, c>> \in Transfers /\ task[<<Dialer, c>>] = "dialing" => c = b
      BY <1>0 DEF Inv, Dialing, NotConnected
    <3> QED BY <3>1 DEF NotConnected
  <2> QED BY <1>0, <1>3, <1>4, <2>1 DEF Dialing, Open
<1>8. \A q \in Nodes : Handshake(q)'
  <2>1. Greeted(<<>>, sess'[Dialer], sess'[Listener].phase, cut)
    BY <1>3, <1>4 DEF Greeted
  <2>2. Greeted(<<>>, sess'[Listener], sess'[Dialer].phase, cut)
    BY <1>0, <1>3, <1>4 DEF Greeted
  <2> QED BY <1>0, <1>2, <1>3, <2>1, <2>2 DEF Handshake
<1>9. \A q \in Nodes : Direction(q)'
  <2>1. \A q \in Nodes : wire'[q] = <<>> /\ Other(q) \in Nodes
    BY <1>2, <1>3, OtherNode
  <2>2. \A q \in Nodes : /\ sess'[q].snd = Idle /\ sess'[Other(q)].rcv = Idle
                         /\ NoSegs(wire'[Other(q)]) /\ \A i \in 1..Len(wire'[q]) : ~IsReply(wire'[q][i])
                         /\ wire'[Other(q)] \in Seq(Packet)
    BY <1>4, <2>1, EmptyWire
  <2> QED BY <2>2, NothingSent
<1> QED BY <1>2, <1>3, <1>5, <1>6, <1>7, <1>8, <1>9 DEF Inv

LEMMA CutKeeps ==
    ASSUME Inv, Cut
    PROVE  Inv'
<1>1. /\ \A q \in Nodes : wire'[q] = <<>> /\ Other(q) \in Nodes
      /\ cut' = TRUE /\ sess' = sess /\ wire' \in [Nodes -> Seq(Packet)]
  BY OtherNode, EmptySeq DEF Cut
<1>2. Types'
  BY <1>1 DEF Inv, Types, Cut
<1>3. Belongs'
  BY DEF Inv, Belongs, Cut
<1>4. Dialing'
  BY DEF Inv, Dialing, Cut, Open, Nodes
<1>5. \A q \in Nodes : Handshake(q)'
  <2> TAKE q \in Nodes
  <2>1. Greeted(wire[q], sess[q], sess[Other(q)].phase, cut)
    BY DEF Inv, Handshake
  <2>2. Greeted(<<>>, sess[q], sess[Other(q)].phase, TRUE)
    BY <2>1 DEF Greeted
  <2> QED BY <1>1, <2>2 DEF Handshake
<1>6. \A q \in Nodes : Direction(q)'
  <2> TAKE q \in Nodes
  <2>1. /\ Stream(q, <<>>, sess[Other(q)].rcv, TRUE)
        /\ Replies(<<>>, sess[q].snd, sess[q].last_tid, Excused(q)', known'[Other(q)], Arrived(q)')
    BY NothingOnTheWire
  <2> QED BY <1>1, <2>1 DEF Direction
<1> QED BY <1>1, <1>2, <1>3, <1>4, <1>5, <1>6 DEF Inv

\* A step of the handshake: p takes a packet of it and goes on to the phase ph.
LEMMA GreetingKeeps ==
    ASSUME Inv, NEW p \in Nodes, sess[p].phase \in {"contact", "init"}, wire[p] # <<>>,
           NEW ph \in {"init", "up"}, NEW out \in Seq(Packet), Handled(p, Fresh(ph), out),
           ~IsSeg(Head(wire[p])), \A i \in 1..Len(out) : ~IsSeg(out[i]) /\ ~IsReply(out[i]),
           UNCHANGED <<cut, queue, task, received, known, broken, faulty>>,
           Greeted(Tail(wire[p]), Fresh(ph), sess[Other(p)].phase, cut),
           Greeted(wire[Other(p)] \o Out(p, out), sess[Other(p)], ph, cut)
    PROVE  Inv'
<1> DEFINE y == Other(p)   o == Out(p, out)
<1>1. y \in Nodes /\ y # p /\ (\A q \in Nodes : q = p \/ q = y) /\ Other(y) = p
  BY OtherNode
<1>t. Types
  BY DEF Inv
<1>2. /\ sess' = [sess EXCEPT ![p] = Fresh(ph)]
      /\ wire' = [wire EXCEPT ![p] = Tail(wire[p]), ![y] = Sent(p, out)]
      /\ sess'[p] = Fresh(ph) /\ sess'[y] = sess[y] /\ wire'[p] = Tail(wire[p]) /\ wire'[y] = wire[y] \o o
      /\ wire[p] \in Seq(Packet) /\ wire[y] \in Seq(Packet) /\ Tail(wire[p]) \in Seq(Packet)
      /\ o \in Seq(Packet) /\ (o = out \/ o = <<>>)
  BY <1>t, HandledIs
<1>3. /\ Fresh(ph) \in Session /\ Fresh(ph).phase = ph /\ Fresh(ph).rcv = Idle /\ Fresh(ph).snd = Idle
      /\ Fresh(ph).last_tid = 0 /\ Idle.st = "Idle"
  BY FreshSession
<1>4. sess[p].rcv = Idle /\ sess[p].snd = Idle /\ sess[p].last_tid = 0
  <2>1. sess[p] = Fresh(sess[p].phase)
    BY DEF Inv, Handshake, Greeted
  <2> QED BY <2>1, FreshSession
<1> HIDE DEF o
<1>5. Types'
  <2>1. wire[y] \o o \in Seq(Packet)
    BY <1>2, Appended
  <2>2. Sent(p, out) = wire[y] \o o
    BY <1>t, SentIs DEF o
  <2>3. wire' \in [Nodes -> Seq(Packet)]
    BY <1>2, <1>t, <2>1, <2>2 DEF Types
  <2>4. sess' \in [Nodes -> Session]
    BY <1>2, <1>3, <1>t DEF Types
  <2> QED BY <1>t, <2>3, <2>4 DEF Types
<1>6. Belongs'
  BY <1>1, <1>2, <1>3 DEF Inv, Belongs
<1>7. Dialing'
  BY <1>1, <1>2, <1>3 DEF Inv, Dialing, Open, Nodes
<1>8. ~cut
  BY DEF Inv
<1>9. Handshake(p)' /\ Handshake(y)'
  BY <1>1, <1>2, <1>3 DEF Handshake, o
<1>10. \A i \in 1..Len(o) : ~IsSeg(o[i]) /\ ~IsReply(o[i])
  <2>1. CASE o = <<>>
    BY <2>1
  <2>2. CASE o = out
    BY <2>2
  <2> QED BY <1>2, <2>1, <2>2
<1>11. /\ Only(wire[p], wire'[p]) /\ (Open(p)' => Open(p)) /\ (Open(y)' => Open(y))
       /\ Grows(p) /\ Grows(y) /\ NoSegs(o)
  BY <1>2, <1>10 DEF Only, Open, Grows, NoSegs
<1>12. Direction(p)'
  <2>1. Direction(p)
    BY DEF Inv
  <2>2. \E u \in Seq(Packet) : wire'[y] = wire[y] \o u /\ NoSegs(u)
    BY <1>2, <1>11
  <2>3. sess'[p].snd = sess[p].snd /\ sess'[p].last_tid = sess[p].last_tid /\ sess'[y].rcv = sess[y].rcv
    BY <1>2, <1>3, <1>4
  <2> QED BY <1>t, <1>11, <2>1, <2>2, <2>3, QuietDirection
<1>13. Direction(y)'
  <2>1. Direction(y)
    BY <1>1 DEF Inv
  <2>2. \E u \in Seq(Packet) : wire'[y] = wire[y] \o u /\ \A i \in 1..Len(u) : ~IsReply(u[i])
    BY <1>2, <1>10
  <2>3. sess'[y].snd = sess[y].snd /\ sess'[y].last_tid = sess[y].last_tid /\ sess'[p].rcv = sess[p].rcv
    BY <1>2, <1>3, <1>4
  <2> QED BY <1>t, <1>1, <1>11, <2>1, <2>2, <2>3, QuietDirection
<1> QED BY <1>1, <1>5, <1>6, <1>7, <1>8, <1>9, <1>12, <1>13 DEF Inv

LEMMA ExchangeContactHeaderKeeps ==
    ASSUME Inv, NEW p \in Nodes, ExchangeContactHeader(p)
    PROVE  Inv'
<1> DEFINE y == Other(p)   w == wire[p]   g == Greeting(sess[y].phase)   o == Out(p, <<SessInit>>)
<1>1. /\ y \in Nodes /\ Other(y) = p /\ sess[p].phase = "contact" /\ w # <<>>
      /\ w \in Seq(Packet) /\ wire[y] \in Seq(Packet) /\ cut = FALSE /\ sess[y] \in Session
  BY OtherNode DEF ExchangeContactHeader, Next1, Inv, Types
<1>2. /\ SessInit \in Packet /\ SessInit.t = "SessInit" /\ <<SessInit>> \in Seq(Packet)
      /\ Len(<<SessInit>>) = 1 /\ <<SessInit>>[1] = SessInit
  BY DEF SessInit, Packet
<1>3. \A i \in 1..Len(<<SessInit>>) : ~IsSeg(<<SessInit>>[i]) /\ ~IsReply(<<SessInit>>[i])
  BY <1>2 DEF IsSeg, IsReply
<1>4. ~IsSeg(Head(w))
  BY DEF ExchangeContactHeader, Next1, IsSeg
<1>5. Greeted(w, sess[p], sess[y].phase, FALSE) /\ Greeted(wire[y], sess[y], "contact", FALSE)
  BY <1>1 DEF Inv, Handshake
<1>6. /\ Greeting("contact") = <<ContactHeader, SessInit>> /\ Len(<<ContactHeader, SessInit>>) = 2
      /\ <<ContactHeader, SessInit>>[2] = SessInit
      /\ Greeting("init") = <<SessInit>> /\ Greeting("up") = <<>> /\ Greeting("dialing") = <<>>
      /\ Len(<<>>) = 0
  BY DEF Greeting
<1>7. Greeted(Tail(w), Fresh("init"), sess[y].phase, cut)
  <2> DEFINE u == Tail(w)
  <2>1. /\ Len(w) \in Nat /\ Len(w) >= 1 /\ Len(u) = Len(w) - 1
        /\ \A i \in 1..Len(u) : i + 1 \in 2..Len(w) /\ u[i] = w[i+1]
    BY <1>1, Taken
  <2> HIDE DEF u
  <2> DEFINE s == Fresh("init")
  <2>2. s.phase = "init" /\ s = Fresh(s.phase)
    BY FreshSession
  <2>3. \A i \in 1..Len(w) : IF i <= 2 THEN w[i] = <<ContactHeader, SessInit>>[i]
                             ELSE w[i].t \notin {"ContactHeader", "SessInit"}
    BY <1>1, <1>5, <1>6 DEF Greeted
  <2>4. \A i \in 1..Len(u) : IF i <= 1 THEN u[i] = <<SessInit>>[i]
                             ELSE u[i].t \notin {"ContactHeader", "SessInit"}
    <3> TAKE i \in 1..Len(u)
    <3> DEFINE k == i + 1
    <3>1. k \in 1..Len(w) /\ u[i] = w[k] /\ (i <= 1 <=> k <= 2) /\ (i <= 1 => i = 1 /\ k = 2)
      BY <2>1
    <3> HIDE DEF k
    <3> QED BY <3>1, <2>3, <1>2, <1>6
  <2>5. /\ sess[y].phase = "contact" => Len(u) = 0
        /\ sess[y].phase \in {"init", "up"} => Len(u) >= 1
    BY <1>1, <1>5, <1>6, <2>1 DEF Greeted
  <2> HIDE DEF s
  <2>6. Greeted(u, s, sess[y].phase, FALSE)
    <3> DEFINE h == Greeting("init")
    <3>1. Len(h) = 1 /\ h[1] = SessInit /\ Greeting(s.phase) = h
      BY <1>2, <1>6, <2>2
    <3>2. \A i \in 1..Len(u) : IF i <= Len(h) THEN u[i] = h[i]
                               ELSE u[i].t \notin {"ContactHeader", "SessInit"}
      BY <1>2, <1>6, <2>4, <3>1
    <3> HIDE DEF h
    <3>3. s.phase # "up" => s = Fresh(s.phase)
      BY <2>2
    <3>4. s.phase \notin {"off", "down", "dialing"}
      BY <2>2
    <3>5. /\ sess[y].phase = "contact" => Len(u) = Len(h) - 1
          /\ sess[y].phase \in {"init", "up"} => Len(u) >= Len(h)
      BY <2>1, <2>5, <3>1
    <3> HIDE DEF y
    <3> QED BY <3>1, <3>2, <3>3, <3>4, <3>5 DEF Greeted
  <2> QED BY <2>6, <1>1 DEF u, s
<1>8. Greeted(wire[y] \o o, sess[y], "init", cut)
  <2>1. CASE ~Open(y)
    <3>1. o = <<>> /\ wire[y] \o <<>> = wire[y]
      BY <2>1, <1>1, ConcatEmptySeq DEF Out
    <3> HIDE DEF o
    <3>2. Greeted(wire[y], sess[y], "init", FALSE)
      BY <1>5, <2>1 DEF Greeted, Open
    <3> QED BY <3>1, <3>2, <1>1
  <2>2. CASE Open(y)
    <3>1. o = <<SessInit>> /\ sess[y].phase \in {"dialing", "contact", "init", "up"}
      BY <2>2, <1>1 DEF Out, Open, Session
    <3>2. Len(wire[y]) = Len(g) - 1 /\ Len(wire[y]) \in Nat
      BY <1>1, <1>5, <3>1, LenProperties DEF Greeted
    <3>3. sess[y].phase \in {"contact", "init"} /\ Len(g) \in Nat /\ g[Len(g)] = SessInit
      BY <3>1, <3>2, <1>2, <1>6
    <3> DEFINE u == wire[y] \o <<SessInit>>
    <3>4. /\ Len(u) = Len(g)
          /\ \A i \in 1..Len(wire[y]) : u[i] = wire[y][i]
          /\ u[Len(g)] = SessInit
      <4>1. /\ Len(u) = Len(wire[y]) + 1
            /\ \A i \in 1..Len(wire[y]) : u[i] = wire[y][i]
            /\ \A i \in 1..Len(u) : ~(i <= Len(wire[y])) =>
                 i - Len(wire[y]) \in 1..1 /\ u[i] = <<SessInit>>[i - Len(wire[y])]
        BY <1>1, <1>2, Appended
      <4> DEFINE n == Len(wire[y]) + 1
      <4>2. n \in 1..Len(u) /\ ~(n <= Len(wire[y])) /\ n - Len(wire[y]) = 1 /\ n = Len(g)
        BY <4>1, <3>2, <3>3
      <4> HIDE DEF n, u
      <4> QED BY <4>1, <4>2, <1>2, <3>2, <3>3
    <3> HIDE DEF u
    <3>5. \A i \in 1..Len(u) : u[i] = g[i]
      <4> TAKE i \in 1..Len(u)
      <4>1. CASE i = Len(g)
        BY <4>1, <3>3, <3>4
      <4>2. CASE i # Len(g)
        <5>1. i \in 1..Len(wire[y]) /\ i <= Len(g)
          BY <4>2, <3>2, <3>3, <3>4
        <5>2. wire[y][i] = g[i]
          BY <5>1, <1>5 DEF Greeted
        <5> QED BY <5>1, <5>2, <3>4
      <4> QED BY <4>1, <4>2
    <3>6. Greeted(u, sess[y], "init", FALSE)
      <4> HIDE DEF g
      <4>1. \A i \in 1..Len(u) : i <= Len(g) /\ u[i] = g[i]
        BY <3>3, <3>4, <3>5
      <4>2. (sess[y].phase # "up" => sess[y] = Fresh(sess[y].phase)) /\ Len(u) >= Len(g)
        BY <1>5, <3>3, <3>4 DEF Greeted
      <4> QED BY <3>3, <4>1, <4>2 DEF Greeted, g
    <3> QED BY <3>6, <3>1, <1>1 DEF u
  <2> QED BY <2>1, <2>2
<1>9. /\ Handled(p, Fresh("init"), <<SessInit>>)
      /\ UNCHANGED <<cut, queue, task, received, known, broken, faulty>>
  BY DEF ExchangeContactHeader
<1> QED BY <1>1, <1>2, <1>3, <1>4, <1>7, <1>8, <1>9, GreetingKeeps

LEMMA NegotiateSessionKeeps ==
    ASSUME Inv, NEW p \in Nodes, NegotiateSession(p)
    PROVE  Inv'
<1> DEFINE y == Other(p)   w == wire[p]
<1>1. /\ y \in Nodes /\ Other(y) = p /\ sess[p].phase = "init" /\ w # <<>>
      /\ w \in Seq(Packet) /\ wire[y] \in Seq(Packet) /\ cut = FALSE
  BY OtherNode DEF NegotiateSession, Next1, Inv, Types
<1>2. <<>> \in Seq(Packet) /\ (\A i \in 1..Len(<<>>) : ~IsSeg(<<>>[i]) /\ ~IsReply(<<>>[i]))
  BY EmptyWire DEF NoSegs
<1>4. ~IsSeg(Head(w))
  BY DEF NegotiateSession, Next1, IsSeg
<1>5. Greeted(w, sess[p], sess[y].phase, FALSE) /\ Greeted(wire[y], sess[y], "init", FALSE)
  BY <1>1 DEF Inv, Handshake
<1>6. Greeting("init") = <<SessInit>> /\ Greeting("up") = <<>> /\ Len(<<>>) = 0 /\ Len(<<SessInit>>) = 1
  BY DEF Greeting
<1>7. Greeted(Tail(w), Fresh("up"), sess[y].phase, cut)
  <2> DEFINE u == Tail(w)
  <2>1. /\ Len(w) \in Nat /\ Len(w) >= 1 /\ Len(u) = Len(w) - 1
        /\ \A i \in 1..Len(u) : i + 1 \in 2..Len(w) /\ u[i] = w[i+1]
    BY <1>1, Taken
  <2> HIDE DEF u
  <2>2. Fresh("up").phase = "up"
    BY FreshSession
  <2>3. \A i \in 1..Len(w) : ~(i <= 1) => w[i].t \notin {"ContactHeader", "SessInit"}
    BY <1>1, <1>5, <1>6 DEF Greeted
  <2>4. \A i \in 1..Len(u) : ~(i <= 0) /\ u[i].t \notin {"ContactHeader", "SessInit"}
    BY <2>1, <2>3
  <2>5. sess[y].phase # "contact"
    BY <1>1, <1>5, <1>6, <2>1 DEF Greeted
  <2>6. Greeted(u, Fresh("up"), sess[y].phase, FALSE)
    BY <1>6, <2>1, <2>2, <2>4, <2>5 DEF Greeted
  <2> QED BY <2>6, <1>1 DEF u
<1>8. Greeted(wire[y] \o Out(p, <<>>), sess[y], "up", cut)
  <2>1. Out(p, <<>>) = <<>> /\ wire[y] \o <<>> = wire[y]
    BY <1>1, ConcatEmptySeq DEF Out
  <2>2. Greeted(wire[y], sess[y], "up", FALSE)
    BY <1>5 DEF Greeted
  <2> QED BY <2>1, <2>2, <1>1
<1>9. /\ Handled(p, Fresh("up"), <<>>)
      /\ UNCHANGED <<cut, queue, task, received, known, broken, faulty>>
  BY DEF NegotiateSession
<1> QED BY <1>1, <1>2, <1>4, <1>7, <1>8, <1>9, GreetingKeeps

LEMMA AnswerKeeps ==
    ASSUME Types, NEW p, NEW b, <<p, b>> \in Transfers, NEW r \in Answers, Answer(p, b, r)
    PROVE  /\ task' \in [Transfers -> {"absent", "idle", "dialing", "found", "queued"} \cup Answers]
           /\ \A c \in Bundles : <<Dialer, c>> \in Transfers /\ task'[<<Dialer, c>>] = "dialing" =>
                task[<<Dialer, c>>] = "dialing"
BY DEF Types, Answer, Answers

LEMMA TasksAsBefore ==
    ASSUME Types, task' = task
    PROVE  /\ task' \in [Transfers -> {"absent", "idle", "dialing", "found", "queued"} \cup Answers]
           /\ \A c \in Bundles : <<Dialer, c>> \in Transfers /\ task'[<<Dialer, c>>] = "dialing" =>
                task[<<Dialer, c>>] = "dialing"
BY DEF Types

LEMMA QueueHead ==
    ASSUME Inv, NEW p \in Nodes, queue[p] # <<>>
    PROVE  /\ Head(queue[p]) \in Bundles /\ <<p, Head(queue[p])>> \in Transfers
           /\ Tail(queue[p]) \in Seq(Bundles)
           /\ \A i \in 1..Len(Tail(queue[p])) : <<p, Tail(queue[p])[i]>> \in Transfers
<1> DEFINE u == queue[p]   y == Tail(u)
<1>0. u \in Seq(Bundles)
  BY DEF Inv, Types
<1>1. /\ Len(u) \in Nat /\ Len(u) >= 1 /\ Len(y) = Len(u) - 1 /\ Head(u) = u[1] /\ Head(u) \in Bundles
      /\ y \in Seq(Bundles) /\ \A i \in 1..Len(y) : y[i] = u[i+1]
  BY <1>0, HeadTailProperties, LenProperties, EmptySeq
<1>2. \A i \in 1..Len(u) : <<p, u[i]>> \in Transfers
  BY DEF Inv, Belongs
<1> HIDE DEF u, y
<1>3. 1 \in 1..Len(u) /\ \A i \in 1..Len(y) : i + 1 \in 1..Len(u)
  BY <1>1
<1>4. Head(u) \in Bundles /\ <<p, Head(u)>> \in Transfers /\ y \in Seq(Bundles)
  BY <1>1, <1>2, <1>3
<1>5. \A i \in 1..Len(y) : <<p, y[i]>> \in Transfers
  BY <1>1, <1>2, <1>3
<1> QED BY <1>4, <1>5 DEF u, y

LEMMA BelongsKeeps ==
    ASSUME Inv, NEW p \in Nodes, NEW s, sess' = [sess EXCEPT ![p] = s],
           s.snd.st # "Idle" => <<p, s.snd.b>> \in Transfers,
           queue' = queue \/ (queue[p] # <<>> /\ queue' = [queue EXCEPT ![p] = Tail(queue[p])])
    PROVE  Belongs' /\ queue' \in [Nodes -> Seq(Bundles)]
<1>1. \A q \in Nodes : sess'[q] = sess[q] \/ (q = p /\ sess'[q] = s)
  BY DEF Inv, Types
<1>2. CASE queue' = queue
  BY <1>1, <1>2 DEF Inv, Types, Belongs
<1>3. CASE queue[p] # <<>> /\ queue' = [queue EXCEPT ![p] = Tail(queue[p])]
  <2>1. /\ Tail(queue[p]) \in Seq(Bundles)
        /\ \A i \in 1..Len(Tail(queue[p])) : <<p, Tail(queue[p])[i]>> \in Transfers
    BY <1>3, QueueHead
  <2>2. queue' \in [Nodes -> Seq(Bundles)]
    BY <1>3, <2>1 DEF Inv, Types
  <2>3. \A q \in Nodes : queue'[q] = queue[q] \/ (q = p /\ queue'[q] = Tail(queue[p]))
    BY <1>3 DEF Inv, Types
  <2>4. \A q \in Nodes : \A i \in 1..Len(queue'[q]) : <<q, queue'[q][i]>> \in Transfers
    <3> TAKE q \in Nodes
    <3>1. CASE queue'[q] = queue[q]
      BY <3>1 DEF Inv, Belongs
    <3>2. CASE q = p /\ queue'[q] = Tail(queue[p])
      BY <3>2, <2>1
    <3> QED BY <2>3, <3>1, <3>2
  <2>5. \A q \in Nodes : sess'[q].snd.st # "Idle" => <<q, sess'[q].snd.b>> \in Transfers
    BY <1>1 DEF Inv, Belongs
  <2> QED BY <2>2, <2>4, <2>5 DEF Belongs
<1> QED BY <1>2, <1>3

LEMMA WireAsBefore ==
    ASSUME Types, NEW p \in Nodes
    PROVE  /\ Sent(p, <<>>) = wire[Other(p)]
           /\ wire = [wire EXCEPT ![p] = wire[p], ![Other(p)] = Sent(p, <<>>)]
           /\ \A u : [wire EXCEPT ![Other(p)] = u] = [wire EXCEPT ![p] = wire[p], ![Other(p)] = u]
           /\ wire[p] \in Seq(Packet) /\ Only(wire[p], wire[p]) /\ <<>> \in Seq(Packet)
           /\ \A i \in 1..Len(<<>>) : FALSE
<1>1. Other(p) \in Nodes /\ Other(p) # p
  BY OtherNode
<1>2. wire[Other(p)] \in Seq(Packet) /\ wire[p] \in Seq(Packet) /\ <<>> \in Seq(Packet)
  BY <1>1, EmptySeq DEF Types
<1>3. Sent(p, <<>>) = wire[Other(p)]
  BY <1>2, ConcatEmptySeq DEF Sent
<1>4. \A u : [wire EXCEPT ![Other(p)] = u] = [wire EXCEPT ![p] = wire[p], ![Other(p)] = u]
  BY <1>1 DEF Types
<1>5. wire = [wire EXCEPT ![p] = wire[p], ![Other(p)] = wire[Other(p)]]
  BY <1>1 DEF Types
<1>6. \A i \in 1..Len(<<>>) : FALSE
  OBVIOUS
<1> QED BY <1>2, <1>3, <1>4, <1>5, <1>6 DEF Only

\* A session that is up takes a packet that is no segment, or none, and writes
\* plain packets: its transfers stay as they are.
LEMMA QuietKeeps ==
    ASSUME Inv, NEW p \in Nodes, sess[p].phase = "up",
           NEW s \in Session, s.phase = "up", s.rcv = sess[p].rcv,
           s.snd = sess[p].snd, s.last_tid = sess[p].last_tid,
           NEW w1 \in Seq(Packet), Only(wire[p], w1), w1 # wire[p] => ~IsSeg(Head(wire[p])),
           NEW out \in Seq(Packet), \A i \in 1..Len(out) : Plain(out[i]),
           sess' = [sess EXCEPT ![p] = s],
           wire' = [wire EXCEPT ![p] = w1, ![Other(p)] = Sent(p, out)],
           cut' = cut, received' = received, known' = known, broken' = broken, faulty' = faulty,
           queue' \in [Nodes -> Seq(Bundles)],
           task' \in [Transfers -> {"absent", "idle", "dialing", "found", "queued"} \cup Answers],
           Belongs',
           \A b \in Bundles : <<Dialer, b>> \in Transfers /\ task'[<<Dialer, b>>] = "dialing" =>
             task[<<Dialer, b>>] = "dialing"
    PROVE  Inv'
<1> DEFINE y == Other(p)   o == Out(p, out)   w == wire[y]   v == wire[p]
           r == sess[y].rcv   x == sess[p].snd   t == sess[p].last_tid
<1>1. /\ y \in Nodes /\ Types /\ v \in Seq(Packet) /\ w \in Seq(Packet)
      /\ o \in Seq(Packet) /\ (o = out \/ o = <<>>)
  BY OtherNode, SentIs DEF Inv, Types
<1>2. /\ Stream(p, w, r, cut) /\ Replies(v, x, t, Excused(p), known[y], Arrived(p))
      /\ Open(p) /\ Open(y) /\ ~cut => Link(w, r, v, x, t)
  BY DEF Inv, Direction
<1>3. Open(p)
  BY DEF Open
<1>4. NoSegs(out)
  BY DEF NoSegs, IsSeg, Plain
<1>5. Stream(p, w \o o, r, cut)
  <2> HIDE DEF o
  <2>1. NoSegs(o)
    BY <1>1, <1>4, EmptyWire
  <2> QED BY <1>1, <1>2, <2>1, StreamAppended
<1>6. Replies(w1, x, t, Excused(p), known[y], Arrived(p))
  <2>1. CASE w1 = v
    BY <1>2, <2>1
  <2>2. CASE v # <<>> /\ w1 = Tail(v)
    BY <1>1, <1>2, <2>2, RepliesTaken
  <2> QED BY <2>1, <2>2 DEF Only
<1>7. Open(y) /\ ~cut => Link(w \o out, r, w1, x, t)
  <2>1. \A i \in 1..Len(w \o out) : IsSeg((w \o out)[i]) => \E j \in 1..Len(w) : w[j] = (w \o out)[i]
    <3> TAKE i \in 1..Len(w \o out)
    <3>1. (i \in 1..Len(w) /\ (w \o out)[i] = w[i])
            \/ (i - Len(w) \in 1..Len(out) /\ (w \o out)[i] = out[i - Len(w)])
      BY <1>1, Appended
    <3> QED BY <3>1, <1>4 DEF NoSegs
  <2>2. \A i \in 1..Len(w1) : IsReply(w1[i]) => \E j \in 1..Len(v) : v[j] = w1[i]
    <3>1. CASE w1 = v
      BY <3>1
    <3>2. CASE v # <<>> /\ w1 = Tail(v)
      <4> TAKE i \in 1..Len(w1)
      <4>1. i + 1 \in 1..Len(v) /\ w1[i] = v[i+1]
        BY <3>2, <1>1, Taken
      <4> QED BY <4>1
    <3> QED BY <3>1, <3>2 DEF Only
  <2>3. Link(w, r, v, x, t) => Link(w \o out, r, w1, x, t)
    <3> DEFINE z == w \o out
    <3> HIDE DEF w, r, v, x, t, z
    <3>1. Link(w, r, v, x, t) => Link(z, r, w1, x, t)
      BY <2>1, <2>2, LinkShrinks DEF z
    <3> QED BY <3>1 DEF z
  <2> QED BY <1>2, <1>3, <2>3
<1>8. \A i \in 1..Len(out) : IsSeg(out[i]) \/ Plain(out[i])
  OBVIOUS
<1> QED BY <1>5, <1>6, <1>7, <1>8, SenderKeeps

LEMMA SendTooLargeKeeps ==
    ASSUME Inv, NEW p \in Nodes, SendTooLarge(p)
    PROVE  Inv'
<1> DEFINE s == Active(sess[p])
<1>1. Types /\ sess[p] \in Session /\ sess[p].phase = "up" /\ sess[p].snd = Idle /\ queue[p] # <<>>
  BY DEF Inv, Types, SendTooLarge
<1>2. /\ s \in Session /\ s.phase = "up" /\ s.rcv = sess[p].rcv /\ s.snd = sess[p].snd
      /\ s.last_tid = sess[p].last_tid /\ s.snd.st = "Idle"
  BY <1>1, ActiveSession DEF Idle
<1>3. /\ sess' = [sess EXCEPT ![p] = s] /\ queue' = [queue EXCEPT ![p] = Tail(queue[p])]
      /\ UNCHANGED <<cut, wire, received, known, broken, faulty>>
  BY DEF SendTooLarge
<1>4. /\ task' \in [Transfers -> {"absent", "idle", "dialing", "found", "queued"} \cup Answers]
      /\ \A c \in Bundles : <<Dialer, c>> \in Transfers /\ task'[<<Dialer, c>>] = "dialing" =>
           task[<<Dialer, c>>] = "dialing"
  <2>1. <<p, Head(queue[p])>> \in Transfers
    BY <1>1, QueueHead
  <2>2. Answer(p, Head(queue[p]), "Failure") /\ "Failure" \in Answers
    BY DEF SendTooLarge, Answers
  <2> QED BY <1>1, <2>1, <2>2, AnswerKeeps
<1> HIDE DEF s
<1>5. Belongs' /\ queue' \in [Nodes -> Seq(Bundles)]
  BY <1>1, <1>2, <1>3, BelongsKeeps
<1>6. /\ wire' = [wire EXCEPT ![p] = wire[p], ![Other(p)] = Sent(p, <<>>)]
      /\ wire[p] \in Seq(Packet) /\ Only(wire[p], wire[p]) /\ <<>> \in Seq(Packet)
      /\ \A i \in 1..Len(<<>>) : Plain(<<>>[i])
  BY <1>1, <1>3, WireAsBefore
<1> QED BY <1>1, <1>2, <1>3, <1>4, <1>5, <1>6, QuietKeeps

\* A keepalive and the ends of a session are plain packets.
LEMMA PlainPackets ==
    /\ KeepAlive \in Packet /\ Plain(KeepAlive)
    /\ \A reply \in BOOLEAN : SessTerm(reply, "IdleTimeout") \in Packet /\ Plain(SessTerm(reply, "IdleTimeout"))
BY DEF KeepAlive, SessTerm, Packet, Plain

LEMMA OnePlain ==
    ASSUME NEW m \in Packet, Plain(m)
    PROVE  <<m>> \in Seq(Packet) /\ \A i \in 1..Len(<<m>>) : Plain(<<m>>[i])
OBVIOUS

\* A session that is up takes a plain packet, or none, and writes plain packets.
LEMMA PlainKeeps ==
    ASSUME Inv, NEW p \in Nodes, sess[p].phase = "up",
           NEW s \in Session, s.phase = "up", s.rcv = sess[p].rcv,
           s.snd = sess[p].snd, s.last_tid = sess[p].last_tid,
           NEW w1 \in Seq(Packet), Only(wire[p], w1), w1 # wire[p] => ~IsSeg(Head(wire[p])),
           NEW out \in Seq(Packet), \A i \in 1..Len(out) : Plain(out[i]),
           sess' = [sess EXCEPT ![p] = s],
           wire' = [wire EXCEPT ![p] = w1, ![Other(p)] = Sent(p, out)],
           UNCHANGED <<cut, queue, task, received, known, broken, faulty>>
    PROVE  Inv'
<1>1. s.snd.st # "Idle" => <<p, s.snd.b>> \in Transfers
  BY DEF Inv, Belongs
<1>2. Belongs' /\ queue' \in [Nodes -> Seq(Bundles)]
  BY <1>1, BelongsKeeps
<1>3. /\ task' \in [Transfers -> {"absent", "idle", "dialing", "found", "queued"} \cup Answers]
      /\ \A c \in Bundles : <<Dialer, c>> \in Transfers /\ task'[<<Dialer, c>>] = "dialing" =>
           task[<<Dialer, c>>] = "dialing"
  BY TasksAsBefore DEF Inv
<1> QED BY <1>2, <1>3, QuietKeeps

LEMMA ReceiveKeepAliveKeeps ==
    ASSUME Inv, NEW p \in Nodes, ReceiveKeepAlive(p)
    PROVE  Inv'
<1> DEFINE a == sess[p]   s == [a EXCEPT !.ka_sent = ~@, !.ka_received = TRUE]
           out == IF a.ka_sent THEN <<>> ELSE <<KeepAlive>>
<1>1. Types /\ a \in Session /\ a.phase = "up" /\ wire[p] # <<>>
  BY DEF Inv, Types, ReceiveKeepAlive, Next1
<1>2. /\ s \in Session /\ s.phase = "up" /\ s.rcv = sess[p].rcv /\ s.snd = sess[p].snd
      /\ s.last_tid = sess[p].last_tid
  BY <1>1 DEF Session
<1>3. out \in Seq(Packet) /\ \A i \in 1..Len(out) : Plain(out[i])
  BY <1>1, PlainPackets, OnePlain, WireAsBefore
<1>4. /\ Handled(p, s, out)
      /\ UNCHANGED <<cut, queue, task, received, known, broken, faulty>>
  BY DEF ReceiveKeepAlive
<1> HIDE DEF s, out
<1> DEFINE w1 == Tail(wire[p])
<1>5. /\ sess' = [sess EXCEPT ![p] = s]
      /\ wire' = [wire EXCEPT ![p] = w1, ![Other(p)] = Sent(p, out)]
      /\ w1 \in Seq(Packet)
  BY <1>1, <1>3, <1>4, HandledIs
<1>6. Only(wire[p], w1) /\ ~IsSeg(Head(wire[p]))
  BY <1>1 DEF Only, ReceiveKeepAlive, Next1, IsSeg
<1> HIDE DEF w1
<1> QED BY <1>1, <1>2, <1>3, <1>4, <1>5, <1>6, PlainKeeps

LEMMA ReceiveSessTermKeeps ==
    ASSUME Inv, NEW p \in Nodes, ReceiveSessTerm(p)
    PROVE  Inv'
<1> DEFINE s == [sess[p] EXCEPT !.closing = TRUE]   m == Head(wire[p])
           out == IF m.reply THEN <<>> ELSE <<SessTerm(TRUE, m.reason)>>
<1>1. Types /\ sess[p] \in Session /\ sess[p].phase = "up" /\ wire[p] # <<>> /\ m.t = "SessTerm"
  BY DEF Inv, Types, ReceiveSessTerm, Next1
<1>2. /\ s \in Session /\ s.phase = "up" /\ s.rcv = sess[p].rcv /\ s.snd = sess[p].snd
      /\ s.last_tid = sess[p].last_tid
  BY <1>1 DEF Session
<1>3. out \in Seq(Packet) /\ \A i \in 1..Len(out) : Plain(out[i])
  <2>1. m \in Packet
    BY <1>1, Taken DEF Types
  <2>2. m.reason = "IdleTimeout"
    BY <1>1, <2>1 DEF Packet
  <2>3. CASE m.reply
    <3>1. out = <<>>
      BY <2>3
    <3> HIDE DEF out
    <3> QED BY <1>1, <3>1, WireAsBefore
  <2>4. CASE ~m.reply
    <3> DEFINE n == SessTerm(TRUE, "IdleTimeout")
    <3>1. out = <<n>> /\ n \in Packet /\ Plain(n)
      BY <2>2, <2>4, PlainPackets
    <3> HIDE DEF out, n
    <3> QED BY <3>1, OnePlain
  <2> QED BY <2>3, <2>4
<1>4. /\ Handled(p, s, out)
      /\ UNCHANGED <<cut, queue, task, received, known, broken, faulty>>
  BY DEF ReceiveSessTerm
<1> HIDE DEF s, out
<1> DEFINE w1 == Tail(wire[p])
<1>5. /\ sess' = [sess EXCEPT ![p] = s]
      /\ wire' = [wire EXCEPT ![p] = w1, ![Other(p)] = Sent(p, out)]
      /\ w1 \in Seq(Packet)
  BY <1>1, <1>3, <1>4, HandledIs
<1>6. Only(wire[p], w1) /\ ~IsSeg(Head(wire[p]))
  BY <1>1 DEF Only, IsSeg
<1> HIDE DEF w1, m
<1> QED BY <1>1, <1>2, <1>3, <1>4, <1>5, <1>6, PlainKeeps

LEMMA IdleTimeoutKeeps ==
    ASSUME Inv, NEW p \in Nodes, IdleTimeout(p)
    PROVE  Inv'
<1> DEFINE a == sess[p]   s == [a EXCEPT !.ka_sent = TRUE, !.closing = ~a.ka_received]
           ka == IF a.ka_sent THEN <<>> ELSE <<KeepAlive>>
           last == IF a.ka_received THEN <<>> ELSE <<SessTerm(FALSE, "IdleTimeout")>>
           out == ka \o last
<1>1. Types /\ a \in Session /\ a.phase = "up"
  BY DEF Inv, Types, IdleTimeout
<1>2. /\ s \in Session /\ s.phase = "up" /\ s.rcv = sess[p].rcv /\ s.snd = sess[p].snd
      /\ s.last_tid = sess[p].last_tid
  BY <1>1 DEF Session
<1>3. ka \in Seq(Packet) /\ \A i \in 1..Len(ka) : Plain(ka[i])
  BY <1>1, PlainPackets, OnePlain, WireAsBefore
<1>4. last \in Seq(Packet) /\ \A i \in 1..Len(last) : Plain(last[i])
  BY <1>1, PlainPackets, OnePlain, WireAsBefore
<1>5. /\ sess' = [sess EXCEPT ![p] = s] /\ wire' = [wire EXCEPT ![Other(p)] = Sent(p, out)]
      /\ UNCHANGED <<cut, queue, task, received, known, broken, faulty>>
  BY <1>1 DEF IdleTimeout, Types
<1> HIDE DEF s, ka, last
<1>6. out \in Seq(Packet) /\ \A i \in 1..Len(out) : Plain(out[i])
  <2>1. \A i \in 1..Len(out) : \/ i \in 1..Len(ka) /\ out[i] = ka[i]
                               \/ i - Len(ka) \in 1..Len(last) /\ out[i] = last[i - Len(ka)]
    BY <1>3, <1>4, Appended
  <2>2. out \in Seq(Packet)
    BY <1>3, <1>4, ConcatProperties
  <2> QED BY <1>3, <1>4, <2>1, <2>2
<1> HIDE DEF out
<1>7. /\ wire' = [wire EXCEPT ![p] = wire[p], ![Other(p)] = Sent(p, out)]
      /\ wire[p] \in Seq(Packet) /\ Only(wire[p], wire[p])
  BY <1>1, <1>5, WireAsBefore
<1> QED BY <1>1, <1>2, <1>5, <1>6, <1>7, PlainKeeps

LEMMA EndingsKeep ==
    ASSUME Inv, NEW p \in Nodes,
           SendUnreadable(p) \/ ProtocolError(p) \/ Terminate(p) \/ ConnectionLost(p)
    PROVE  Inv'
<1>0. faulty \subseteq Nodes
  BY DEF Inv, Types
<1>1. CASE SendUnreadable(p)
  BY <1>0, <1>1, EndKeeps DEF SendUnreadable
<1>2. CASE ProtocolError(p)
  BY <1>0, <1>2, EndKeeps DEF ProtocolError
<1>3. CASE ConnectionLost(p)
  BY <1>0, <1>3, EndKeeps DEF ConnectionLost
<1>4. CASE Terminate(p)
  BY <1>0, <1>4, EndKeeps DEF Terminate
<1> QED BY <1>1, <1>2, <1>3, <1>4

\* The segments still on their way when a sender is idle are being discarded.
LEMMA IdleLeftovers ==
    ASSUME NEW p, NEW w \in Seq(Packet), NEW r, NEW v, NEW x, NEW t,
           Link(w, r, v, x, t), Stream(p, w, r, FALSE), x.st = "Idle"
    PROVE  /\ r.st = "Discarding" => ~NoSegs(w)
           /\ \A i \in 1..Len(w) : IsSeg(w[i]) => w[i].buf # <<>>
<1>1. w # <<>> => 1 \in 1..Len(w) /\ Len(w) \in Nat
  BY LenProperties, EmptySeq
<1>2. \A m : IsData(m) <=> IsSeg(m) /\ m.buf # <<>>
  BY DEF IsData, IsSeg
<1>3. r.st = "Discarding" => w # <<>> /\ IsData(w[1]) /\ r.tid = w[1].tid
  BY DEF Stream, Continues
<1>4. r.st = "Discarding" => ~NoSegs(w)
  BY <1>1, <1>2, <1>3 DEF NoSegs
<1>5. ASSUME NEW i \in 1..Len(w), IsSeg(w[i]), w[i].buf = <<>>
      PROVE  FALSE
  <2>1. r.st = "Discarding" /\ r.tid = w[i].tid
    BY <1>5 DEF Link
  <2>2. w # <<>> /\ IsData(w[1]) /\ IsSeg(w[1]) /\ w[1].tid = w[i].tid /\ 1 \in 1..Len(w) /\ i # 1
    BY <1>1, <1>2, <1>3, <1>5, <2>1
  <2>3. w[i].start
    BY <1>5 DEF Stream, Whole, WellMade
  <2>4. 1 < i
    BY <2>2
  <2>5. w[1].tid < w[i].tid
    BY <1>5, <2>2, <2>3, <2>4 DEF Stream, Whole
  <2>6. w[1].tid \in Nat /\ w[i].tid \in Nat
    BY <1>5, <2>2, SegFields, ElementOfSeq
  <2> QED BY <2>2, <2>5, <2>6
<1> QED BY <1>4, <1>5

\* p starts the transfer x2 with the packets out.
LEMMA StartKeeps ==
    ASSUME Inv, NEW p \in Nodes, sess[p].phase = "up", sess[p].snd = Idle,
           NEW b \in Bundles, <<p, b>> \in Transfers,
           NEW x2 \in {Sending(b), TransferRequest(b)},
           NEW s \in Session, s.phase = "up", s.rcv = sess[p].rcv, s.snd = x2,
           s.last_tid = sess[p].last_tid + 1,
           NEW out \in Seq(Packet), Block(p, out, sess[p].last_tid + 1, FALSE),
           \A k \in 1..Len(out) :
             IF out[k].buf = <<>> THEN x2.st = "TransferRequest" /\ out[k].ext = {b}
             ELSE x2.st = "Sending" /\ Of(out[k]) = b,
           sess' = [sess EXCEPT ![p] = s], wire' = [wire EXCEPT ![Other(p)] = Sent(p, out)],
           queue[p] # <<>>, queue' = [queue EXCEPT ![p] = Tail(queue[p])],
           UNCHANGED <<cut, task, received, known, broken, faulty>>
    PROVE  Inv'
<1> DEFINE q == Other(p)   w == wire[q]   v == wire[p]   r == sess[q].rcv   x == sess[p].snd
           t == sess[p].last_tid   o == Out(p, out)
<1>1. /\ q \in Nodes /\ Types /\ v \in Seq(Packet) /\ w \in Seq(Packet) /\ t \in Nat /\ t + 1 \in Nat
      /\ sess[q] \in Session /\ cut \in BOOLEAN /\ Open(p)
      /\ x.st = "Idle" /\ x2.b = b /\ x2.st # "Idle"
  BY OtherNode DEF Inv, Types, Session, Open, Idle, Sending, TransferRequest
<1>2. /\ Stream(p, w, r, cut) /\ Replies(v, x, t, Excused(p), known[q], Arrived(p))
      /\ Open(q) /\ ~cut => Link(w, r, v, x, t)
  BY <1>1 DEF Inv, Direction
<1>3. Replies(v, x2, t + 1, Excused(p), known[q], Arrived(p)) /\ NoReply(v, t + 1)
  BY <1>1, <1>2, RepliesSend
<1>4. r.st = "Discarding" => r.tid \in Nat
  BY <1>1 DEF Session, ReceiveStates, Idle
<1>5. ASSUME Open(q), ~cut
      PROVE  Link(w \o out, r, v, x2, t + 1) /\ Stream(p, w \o out, r, cut)
  <2>0. /\ cut = FALSE /\ Link(w, r, v, x, t) /\ Stream(p, w, r, FALSE)
        /\ Block(p, out, t + 1, FALSE)
    BY <1>1, <1>2, <1>5
  <2>1. \A k \in 1..Len(out) :
          IF out[k].buf = <<>> THEN x2.st = "TransferRequest" /\ out[k].ext = {x2.b}
          ELSE x2.st = "Sending" /\ Of(out[k]) = x2.b
    BY <1>1
  <2> HIDE DEF w, r, v, x, t
  <2>2. /\ Link(w \o out, r, v, x2, t + 1)
        /\ r.st # "Receiving" /\ (\A i \in 1..Len(w) : IsSeg(w[i]) => w[i].tid < t + 1)
    <3>1. /\ w \in Seq(Packet) /\ t \in Nat /\ x.st = "Idle" /\ NoReply(v, t + 1)
          /\ r.st = "Discarding" => r.tid \in Nat
      BY <1>1, <1>3, <1>4
    <3>2. Link(w \o out, r, v, x2, t + 1)
      BY <2>0, <2>1, <3>1, LinkSend
    <3>3. r.st # "Receiving"
      BY <2>0, <2>1, <3>1, LinkSend
    <3>4. \A i \in 1..Len(w) : IsSeg(w[i]) => w[i].tid < t + 1
      BY <2>0, <2>1, <3>1, LinkSend
    <3> QED BY <3>2, <3>3, <3>4
  <2>3. /\ r.st = "Discarding" => ~NoSegs(w)
        /\ \A i \in 1..Len(w) : IsSeg(w[i]) => w[i].buf # <<>>
    BY <1>1, <2>0, IdleLeftovers
  <2> DEFINE tt == t + 1
  <2>4. tt \in Nat /\ Block(p, out, tt, FALSE) /\ \A i \in 1..Len(w) : IsSeg(w[i]) => w[i].tid < tt
    BY <1>1, <2>0, <2>2
  <2> HIDE DEF tt
  <2>5. Stream(p, w \o out, r, FALSE)
    BY <1>1, <2>0, <2>2, <2>3, <2>4, StreamSent
  <2> QED BY <2>0, <2>2, <2>5
<1>6. Stream(p, w \o o, r, cut)
  <2>1. CASE Open(q) /\ ~cut
    BY <1>5, <2>1 DEF Out
  <2>2. CASE ~(Open(q) /\ ~cut)
    <3>1. o = <<>> /\ w \o <<>> = w
      BY <1>1, <2>2, ConcatEmptySeq DEF Out
    <3> HIDE DEF o
    <3> QED BY <1>2, <3>1
  <2> QED BY <2>1, <2>2
<1>7. /\ wire' = [wire EXCEPT ![p] = wire[p], ![Other(p)] = Sent(p, out)]
      /\ wire[p] \in Seq(Packet) /\ Only(wire[p], wire[p])
  BY <1>1, WireAsBefore
<1>8. Belongs' /\ queue' \in [Nodes -> Seq(Bundles)]
  <2>1. s.snd.st # "Idle" => <<p, s.snd.b>> \in Transfers
    BY <1>1
  <2> QED BY <2>1, BelongsKeeps
<1>9. /\ task' \in [Transfers -> {"absent", "idle", "dialing", "found", "queued"} \cup Answers]
      /\ \A c \in Bundles : <<Dialer, c>> \in Transfers /\ task'[<<Dialer, c>>] = "dialing" =>
           task[<<Dialer, c>>] = "dialing"
  BY <1>1, TasksAsBefore
<1>10. \A i \in 1..Len(out) : IsSeg(out[i]) \/ Plain(out[i])
  BY DEF Block
<1>11. /\ Stream(p, wire[Other(p)] \o Out(p, out), sess[Other(p)].rcv, cut)
       /\ Replies(wire[p], s.snd, s.last_tid, Excused(p), known[Other(p)], Arrived(p))
       /\ Open(Other(p)) /\ ~cut =>
            Link(wire[Other(p)] \o out, sess[Other(p)].rcv, wire[p], s.snd, s.last_tid)
  BY <1>3, <1>5, <1>6
<1> DEFINE w1 == wire[p]
<1>12. /\ w1 \in Seq(Packet) /\ Only(wire[p], w1) /\ (w1 # wire[p] => ~IsSeg(Head(wire[p])))
       /\ wire' = [wire EXCEPT ![p] = w1, ![Other(p)] = Sent(p, out)]
       /\ Replies(w1, s.snd, s.last_tid, Excused(p), known[Other(p)], Arrived(p))
       /\ Open(Other(p)) /\ ~cut =>
            Link(wire[Other(p)] \o out, sess[Other(p)].rcv, w1, s.snd, s.last_tid)
  BY <1>7, <1>11
<1> HIDE DEF w1
<1> QED BY <1>8, <1>9, <1>10, <1>11, <1>12, SenderKeeps

LEMMA SendKeeps ==
    ASSUME Inv, NEW p \in Nodes, Send(p)
    PROVE  Inv'
<1> DEFINE a == sess[p]   b == Head(queue[p])   t == a.last_tid + 1
           s0 == [Active(a) EXCEPT !.last_tid = @ + 1]
           ask == p \in refuse
           x2 == IF ask THEN TransferRequest(b) ELSE Sending(b)
           s == [s0 EXCEPT !.snd = x2]
           out == IF ask THEN <<XferSeg(t, TRUE, FALSE, <<>>, {b})>>
                  ELSE Segments(b, Other(p), t, FALSE)
<1>1. a \in Session /\ a.phase = "up" /\ a.snd = Idle /\ queue[p] # <<>>
  BY DEF Inv, Types, Send
<1>2. b \in Bundles /\ <<p, b>> \in Transfers /\ Other(p) \in Nodes /\ t \in Nat
  BY <1>1, QueueHead, OtherNode DEF Session
<1>3. /\ s0 \in Session /\ s0.phase = "up" /\ s0.rcv = a.rcv /\ s0.last_tid = t
  <2>1. /\ Active(a) \in Session /\ Active(a).phase = a.phase /\ Active(a).rcv = a.rcv
        /\ Active(a).last_tid = a.last_tid
    BY <1>1, ActiveSession
  <2> QED BY <1>1, <1>2, <2>1 DEF Session
<1>4. x2 \in SendStates /\ x2 \in {Sending(b), TransferRequest(b)}
  BY <1>2 DEF SendStates, Sending, TransferRequest
<1>5. /\ sess' = [sess EXCEPT ![p] = s] /\ wire' = [wire EXCEPT ![Other(p)] = Sent(p, out)]
      /\ queue' = [queue EXCEPT ![p] = Tail(queue[p])]
      /\ UNCHANGED <<cut, task, received, known, broken, faulty>>
  <2>1. s0.last_tid = t
    BY <1>3
  <2> HIDE DEF s0, t
  <2>2. wire' = [wire EXCEPT ![Other(p)] =
          Sent(p, IF ask THEN <<XferSeg(s0.last_tid, TRUE, FALSE, <<>>, {b})>>
                  ELSE Segments(b, Other(p), s0.last_tid, FALSE))]
    BY DEF Send, s0
  <2>3. /\ sess' = [sess EXCEPT ![p] = s]
        /\ queue' = [queue EXCEPT ![p] = Tail(queue[p])]
        /\ UNCHANGED <<cut, task, received, known, broken, faulty>>
    BY DEF Send, s0
  <2> QED BY <2>1, <2>2, <2>3
<1>6. s \in Session /\ s.phase = "up" /\ s.rcv = a.rcv /\ s.snd = x2 /\ s.last_tid = t
  <2> HIDE DEF s0, x2, t
  <2> QED BY <1>3, <1>4 DEF Session
<1>7. /\ out \in Seq(Packet) /\ Block(p, out, t, FALSE)
      /\ \A k \in 1..Len(out) :
           IF out[k].buf = <<>> THEN x2.st = "TransferRequest" /\ out[k].ext = {b}
           ELSE x2.st = "Sending" /\ Of(out[k]) = b
  <2>1. CASE ask
    <3> DEFINE m == XferSeg(t, TRUE, FALSE, <<>>, {b})   o == <<m>>
    <3>1. o \in Seq(Packet) /\ Block(p, o, t, FALSE)
      BY <1>2, RequestBlock
    <3>2. m.buf = <<>> /\ m.ext = {b} /\ x2.st = "TransferRequest" /\ out = o
      BY <2>1 DEF XferSeg, TransferRequest
    <3> HIDE DEF m, t, out, x2
    <3>3. \A k \in 1..Len(o) : o[k] = m
      OBVIOUS
    <3> HIDE DEF o
    <3> QED BY <3>1, <3>2, <3>3
  <2>2. CASE ~ask
    <3> DEFINE o == Segments(b, Other(p), t, FALSE)
    <3>1. /\ o \in Seq(Packet) /\ Block(p, o, t, FALSE)
          /\ \A k \in 1..Len(o) : o[k].buf # <<>> /\ Of(o[k]) = b
      <4> HIDE DEF b, t
      <4>1. o \in Seq(Packet)
        BY <1>2, SegmentsBlock
      <4>2. Block(p, o, t, FALSE)
        BY <1>2, SegmentsBlock
      <4>3. \A k \in 1..Len(o) : o[k].buf # <<>> /\ Of(o[k]) = b
        BY <1>2, SegmentsBlock DEF Of
      <4> QED BY <4>1, <4>2, <4>3
    <3>2. x2.st = "Sending" /\ out = o
      BY <2>2 DEF Sending
    <3> HIDE DEF o, out, x2, t
    <3> QED BY <3>1, <3>2
  <2> QED BY <2>1, <2>2
<1>8. s.last_tid = sess[p].last_tid + 1 /\ Block(p, out, sess[p].last_tid + 1, FALSE)
      /\ s.rcv = sess[p].rcv /\ sess[p].phase = "up" /\ sess[p].snd = Idle
  BY <1>1, <1>6, <1>7
<1> HIDE DEF s, out, x2, b, a
<1> QED BY <1>1, <1>2, <1>4, <1>5, <1>6, <1>7, <1>8, StartKeeps

LEMMA ReceiveGoKeeps ==
    ASSUME Inv, NEW p \in Nodes, ReceiveGo(p)
    PROVE  Inv'
<1> DEFINE a == sess[p]   x == a.snd   t == a.last_tid   v == wire[p]   q == Other(p)   w == wire[q]
           r == sess[q].rcv   x2 == Sending(x.b)   s == [Active(a) EXCEPT !.snd = x2]
           out == Segments(x.b, q, t, TRUE)   o == Out(p, out)   v2 == Tail(v)
<1>1. /\ a \in Session /\ a.phase = "up" /\ v # <<>> /\ Head(v).t = "XferAck" /\ Head(v).tid = t
      /\ x.st = "TransferRequest" /\ Types /\ q \in Nodes /\ v \in Seq(Packet) /\ w \in Seq(Packet)
      /\ t \in Nat /\ Open(p) /\ cut = FALSE
  BY OtherNode DEF Inv, Types, ReceiveGo, Next1, Session, Open
<1>2. x.b \in Bundles /\ <<p, x.b>> \in Transfers
  BY <1>1 DEF Inv, Belongs, Session, SendStates, Idle
<1>3. x2 \in SendStates /\ x2.b = x.b /\ x2.st = "Sending"
  BY <1>2 DEF SendStates, Sending
<1>4. s \in Session /\ s.phase = "up" /\ s.rcv = a.rcv /\ s.snd = x2 /\ s.last_tid = t
  <2>1. /\ Active(a) \in Session /\ Active(a).phase = a.phase /\ Active(a).rcv = a.rcv
        /\ Active(a).last_tid = a.last_tid
    BY <1>1, ActiveSession
  <2> HIDE DEF x2
  <2> QED BY <1>1, <1>3, <2>1 DEF Session
<1>5. /\ out \in Seq(Packet) /\ Block(p, out, t, TRUE)
      /\ \A k \in 1..Len(out) : out[k].buf # <<>> /\ Of(out[k]) = x.b
  <2> DEFINE b == x.b
  <2> b \in Bundles /\ <<p, b>> \in Transfers /\ q \in Nodes /\ t \in Nat
    BY <1>1, <1>2
  <2> HIDE DEF q, t, b
  <2> DEFINE u == Segments(b, q, t, TRUE)
  <2>1. u \in Seq(Packet)
    BY SegmentsBlock
  <2>2. Block(p, u, t, TRUE)
    BY SegmentsBlock
  <2>3. \A k \in 1..Len(u) : u[k].buf # <<>> /\ Of(u[k]) = b
    BY SegmentsBlock DEF Of
  <2> QED BY <2>1, <2>2, <2>3 DEF b
<1>6. Handled(p, s, out) /\ UNCHANGED <<cut, queue, task, received, known, broken, faulty>>
  BY DEF ReceiveGo
<1> HIDE DEF s, out
<1>7. /\ sess' = [sess EXCEPT ![p] = s] /\ wire' = [wire EXCEPT ![p] = v2, ![Other(p)] = Sent(p, out)]
      /\ v2 \in Seq(Packet) /\ Head(v) = v[1] /\ 1 \in 1..Len(v)
  BY <1>1, <1>5, <1>6, HandledIs
<1>8. /\ Stream(p, w, r, cut) /\ Replies(v, x, t, Excused(p), known[q], Arrived(p))
      /\ Open(q) => Link(w, r, v, x, t)
  BY <1>1 DEF Inv, Direction
<1>9. Replies(v2, x2, t, Excused(p), known[q], Arrived(p)) /\ NoReply(v2, t)
  <2>1. IsReply(Head(v))
    BY <1>1 DEF IsReply
  <2> QED BY <1>1, <1>8, <2>1, RepliesGo
<1>10. ASSUME Open(q)
       PROVE  Link(w \o out, r, v2, x2, t) /\ Stream(p, w \o out, r, FALSE)
  <2>0. Link(w, r, v, x, t) /\ Stream(p, w, r, FALSE) /\ v[1].t = "XferAck" /\ v[1].tid = t
    BY <1>1, <1>7, <1>8, <1>10
  <2> HIDE DEF w, r, v, x, t, v2
  <2>1. /\ Link(w \o out, r, v2, x2, t)
        /\ NoSegs(w) /\ r.st = "Receiving" /\ r.buf = <<>> /\ r.tid = t
    <3>1. /\ 1 \in 1..Len(v) /\ w \in Seq(Packet) /\ t \in Nat /\ x.st = "TransferRequest" /\ NoReply(v2, t)
          /\ \A k \in 1..Len(out) : out[k].buf # <<>> /\ Of(out[k]) = x.b
      BY <1>1, <1>5, <1>7, <1>9
    <3> DEFINE j == 1
    <3>4. j \in 1..Len(v) /\ v[j].t = "XferAck" /\ v[j].tid = t
      BY <2>0, <3>1
    <3> HIDE DEF j
    <3>2. Link(w \o out, r, v2, Sending(x.b), t)
      BY <1>5, <2>0, <3>1, <3>4, LinkGo DEF Of
    <3>3. NoSegs(w) /\ r.st = "Receiving" /\ r.buf = <<>> /\ r.tid = t
      BY <2>0, <3>1, <3>4 DEF Link, IsReply
    <3> QED BY <3>2, <3>3
  <2>2. Stream(p, w \o out, r, FALSE)
    BY <1>1, <1>5, <2>0, <2>1, StreamSent
  <2> QED BY <2>1, <2>2
<1>11. Stream(p, w \o o, r, cut)
  <2>1. CASE Open(q)
    BY <1>1, <1>10, <2>1 DEF Out
  <2>2. CASE ~Open(q)
    <3>1. o = <<>> /\ w \o <<>> = w
      BY <1>1, <2>2, ConcatEmptySeq DEF Out
    <3> HIDE DEF o
    <3> QED BY <1>8, <3>1
  <2> QED BY <2>1, <2>2
<1>12. /\ Only(wire[p], v2) /\ ~IsSeg(Head(wire[p]))
       /\ s.snd.st # "Idle" => <<p, s.snd.b>> \in Transfers
  BY <1>1, <1>2, <1>3, <1>4 DEF Only, IsSeg
<1>13. Belongs' /\ queue' \in [Nodes -> Seq(Bundles)]
  BY <1>6, <1>7, <1>12, BelongsKeeps
<1>14. /\ task' \in [Transfers -> {"absent", "idle", "dialing", "found", "queued"} \cup Answers]
      /\ \A c \in Bundles : <<Dialer, c>> \in Transfers /\ task'[<<Dialer, c>>] = "dialing" =>
           task[<<Dialer, c>>] = "dialing"
  BY <1>1, <1>6, TasksAsBefore
<1>15. \A i \in 1..Len(out) : IsSeg(out[i]) \/ Plain(out[i])
  BY <1>5 DEF Block
<1>16. /\ Stream(p, wire[Other(p)] \o Out(p, out), sess[Other(p)].rcv, cut)
       /\ Replies(v2, s.snd, s.last_tid, Excused(p), known[Other(p)], Arrived(p))
       /\ Open(Other(p)) /\ ~cut =>
            Link(wire[Other(p)] \o out, sess[Other(p)].rcv, v2, s.snd, s.last_tid)
       /\ sess[p].phase = "up" /\ s.rcv = sess[p].rcv
  BY <1>1, <1>4, <1>9, <1>10, <1>11
<1> HIDE DEF v2
<1> QED BY <1>4, <1>5, <1>6, <1>7, <1>12, <1>13, <1>14, <1>15, <1>16, SenderKeeps

\* A reply after which p is done with its transfer.
LEMMA DoneKeeps ==
    ASSUME Inv, NEW p \in Nodes, sess[p].phase = "up", wire[p] # <<>>,
           IsReply(Head(wire[p])), Head(wire[p]).tid = sess[p].last_tid,
           \/ sess[p].snd.st = "Sending" /\ Final(sess[p].snd, sess[p].last_tid, Head(wire[p]))
           \/ sess[p].snd.st = "TransferRequest" /\ Head(wire[p]).t = "XferRefuse",
           NEW s, s = [Active(sess[p]) EXCEPT !.snd = Idle], Handled(p, s, <<>>),
           task' \in [Transfers -> {"absent", "idle", "dialing", "found", "queued"} \cup Answers],
           \A c \in Bundles : <<Dialer, c>> \in Transfers /\ task'[<<Dialer, c>>] = "dialing" =>
             task[<<Dialer, c>>] = "dialing",
           UNCHANGED <<cut, queue, received, known, broken, faulty>>
    PROVE  Inv'
<1> DEFINE a == sess[p]   x == a.snd   t == a.last_tid   v == wire[p]   q == Other(p)   w == wire[q]
           r == sess[q].rcv   v2 == Tail(v)
<1>1. a \in Session /\ q \in Nodes /\ Types /\ v \in Seq(Packet) /\ w \in Seq(Packet) /\ Open(p)
  BY OtherNode DEF Inv, Types, Open
<1>2. s \in Session /\ s.phase = "up" /\ s.rcv = a.rcv /\ s.snd = Idle /\ s.last_tid = t /\ s.snd.st = "Idle"
  <2>1. /\ Active(a) \in Session /\ Active(a).phase = a.phase /\ Active(a).rcv = a.rcv
        /\ Active(a).last_tid = a.last_tid
    BY <1>1, ActiveSession
  <2>2. Idle \in SendStates /\ Idle.st = "Idle"
    BY DEF SendStates, Idle
  <2> QED BY <2>1, <2>2 DEF Session
<1>3. <<>> \in Seq(Packet) /\ w \o <<>> = w /\ Out(p, <<>>) = <<>>
      /\ (\A i \in 1..Len(<<>>) : IsSeg(<<>>[i]) \/ Plain(<<>>[i]))
  BY <1>1, ConcatEmptySeq, WireAsBefore DEF Out
<1>4. /\ sess' = [sess EXCEPT ![p] = s] /\ wire' = [wire EXCEPT ![p] = v2, ![Other(p)] = Sent(p, <<>>)]
      /\ v2 \in Seq(Packet)
  <2>1. v2 \in Seq(Packet)
    BY <1>1, Taken
  <2>2. /\ sess' = [sess EXCEPT ![p] = s]
        /\ wire' = [wire EXCEPT ![p] = v2, ![Other(p)] = Sent(p, <<>>)]
    BY DEF Handled
  <2> QED BY <2>1, <2>2
<1>5. /\ Stream(p, w, r, cut) /\ Replies(v, x, t, Excused(p), known[q], Arrived(p))
      /\ Open(q) /\ ~cut => Link(w, r, v, x, t)
  BY <1>1 DEF Inv, Direction
<1>6. Replies(v2, Idle, t, Excused(p), known[q], Arrived(p))
  BY <1>1, <1>5, RepliesDone
<1>7. Open(q) /\ ~cut => Link(w, r, v2, Idle, t)
  BY <1>1, <1>5, LinkDone
<1>8. Only(wire[p], v2) /\ ~IsSeg(Head(wire[p]))
  BY DEF Only, IsSeg, IsReply
<1>9. Belongs' /\ queue' \in [Nodes -> Seq(Bundles)]
  BY <1>2, <1>4, BelongsKeeps
<1>10. /\ Stream(p, wire[Other(p)] \o Out(p, <<>>), sess[Other(p)].rcv, cut)
       /\ Replies(v2, s.snd, s.last_tid, Excused(p), known[Other(p)], Arrived(p))
       /\ Open(Other(p)) /\ ~cut =>
            Link(wire[Other(p)] \o <<>>, sess[Other(p)].rcv, v2, s.snd, s.last_tid)
       /\ s.rcv = sess[p].rcv
  BY <1>2, <1>3, <1>5, <1>6, <1>7
<1> HIDE DEF v2
<1> QED BY <1>2, <1>3, <1>4, <1>8, <1>9, <1>10, SenderKeeps

\* What an acknowledgement or a refusal finds at the sender.
LEMMA ReplyFacts ==
    ASSUME Inv, NEW p \in Nodes, sess[p].phase = "up", wire[p] # <<>>, IsReply(Head(wire[p]))
    PROVE  LET m == Head(wire[p])
               x == sess[p].snd
               t == sess[p].last_tid
           IN  /\ m \in Packet /\ t \in Nat /\ Types /\ sess[p] \in Session
               /\ Head(wire[p]) = wire[p][1] /\ 1 \in 1..Len(wire[p])
               /\ x.st \in {"Idle", "Sending", "TransferRequest"} /\ (x.st = "Idle" <=> x = Idle)
               /\ x.st # "Idle" => x.b \in Bundles /\ <<p, x.b>> \in Transfers
               /\ Replies(wire[p], x, t, Excused(p), known[Other(p)], Arrived(p))
<1>1. Types /\ sess[p] \in Session /\ wire[p] \in Seq(Packet)
  BY DEF Inv, Types
<1>2. Head(wire[p]) = wire[p][1] /\ 1 \in 1..Len(wire[p]) /\ Head(wire[p]) \in Packet
  BY <1>1, Taken
<1>3. /\ sess[p].snd.st \in {"Idle", "Sending", "TransferRequest"} /\ sess[p].last_tid \in Nat
      /\ (sess[p].snd.st = "Idle" <=> sess[p].snd = Idle)
      /\ sess[p].snd.st # "Idle" => sess[p].snd.b \in Bundles
  BY <1>1 DEF Session, SendStates, Idle
<1>4. sess[p].snd.st # "Idle" => <<p, sess[p].snd.b>> \in Transfers
  BY DEF Inv, Belongs
<1>5. Replies(wire[p], sess[p].snd, sess[p].last_tid, Excused(p), known[Other(p)], Arrived(p))
  BY DEF Inv, Direction
<1> QED BY <1>1, <1>2, <1>3, <1>4, <1>5

LEMMA ReceiveAckKeeps ==
    ASSUME Inv, NEW p \in Nodes, ReceiveAck(p)
    PROVE  Inv'
<1> DEFINE a == sess[p]   x == a.snd   m == Head(wire[p])   t == a.last_tid
           done == m.len >= Size[x.b]
           s == [Active(a) EXCEPT !.snd = IF done THEN Idle ELSE @]
<1>1. a.phase = "up" /\ wire[p] # <<>> /\ m.t = "XferAck" /\ m.tid = t /\ x.st = "Sending"
  BY DEF ReceiveAck, Next1
<1>2. IsReply(m)
  BY <1>1 DEF IsReply
<1>3. Types /\ a \in Session /\ <<p, x.b>> \in Transfers
  BY <1>1, <1>2, ReplyFacts
<1>4. /\ Handled(p, s, <<>>) /\ UNCHANGED <<cut, queue, received, known, broken, faulty>>
      /\ IF done THEN Answer(p, x.b, "Successful") ELSE UNCHANGED task
  BY DEF ReceiveAck
<1>5. /\ task' \in [Transfers -> {"absent", "idle", "dialing", "found", "queued"} \cup Answers]
      /\ \A c \in Bundles : <<Dialer, c>> \in Transfers /\ task'[<<Dialer, c>>] = "dialing" =>
           task[<<Dialer, c>>] = "dialing"
  <2>1. CASE done
    <3>1. Answer(p, x.b, "Successful") /\ "Successful" \in Answers
      BY <1>4, <2>1 DEF Answers
    <3> QED BY <1>3, <3>1, AnswerKeeps
  <2>2. CASE ~done
    <3>1. task' = task
      BY <1>4, <2>2
    <3> QED BY <1>3, <3>1, TasksAsBefore
  <2> QED BY <2>1, <2>2
<1>6. CASE done
  <2>1. s = [Active(sess[p]) EXCEPT !.snd = Idle]
    BY <1>6
  <2>2. Final(x, t, m)
    BY <1>1, <1>6 DEF Final
  <2> HIDE DEF s
  <2> QED BY <1>1, <1>2, <1>4, <1>5, <2>1, <2>2, DoneKeeps
<1>7. CASE ~done
  <2>1. s = Active(a)
    <3>1. Active(a) \in Session
      BY <1>3, ActiveSession
    <3> DEFINE c == Active(a)
    <3> HIDE DEF c
    <3>2. [c EXCEPT !.snd = @] = c
      BY <3>1 DEF Session, c
    <3> QED BY <1>7, <3>2 DEF c
  <2>2. /\ s \in Session /\ s.phase = "up" /\ s.rcv = sess[p].rcv /\ s.snd = sess[p].snd
        /\ s.last_tid = sess[p].last_tid
    BY <1>1, <1>3, <2>1, ActiveSession
  <2> DEFINE w1 == Tail(wire[p])
  <2> HIDE DEF s
  <2>3. /\ sess' = [sess EXCEPT ![p] = s] /\ wire' = [wire EXCEPT ![p] = w1, ![Other(p)] = Sent(p, <<>>)]
        /\ w1 \in Seq(Packet)
    <3>1. w1 \in Seq(Packet)
      BY <1>1, <1>3, Taken DEF Types
    <3>2. /\ sess' = [sess EXCEPT ![p] = s]
          /\ wire' = [wire EXCEPT ![p] = w1, ![Other(p)] = Sent(p, <<>>)]
      BY <1>4 DEF Handled
    <3> QED BY <3>1, <3>2
  <2>4. /\ Only(wire[p], w1) /\ ~IsSeg(Head(wire[p]))
        /\ s.snd.st # "Idle" => <<p, s.snd.b>> \in Transfers
    BY <1>1, <1>3, <2>2 DEF Only, IsSeg
  <2>5. Belongs' /\ queue' \in [Nodes -> Seq(Bundles)]
    BY <1>4, <2>3, <2>4, BelongsKeeps
  <2>6. <<>> \in Seq(Packet) /\ \A i \in 1..Len(<<>>) : Plain(<<>>[i])
    BY <1>3, WireAsBefore
  <2> HIDE DEF w1
  <2> QED BY <1>1, <1>4, <1>5, <2>2, <2>3, <2>4, <2>5, <2>6, QuietKeeps
<1> QED BY <1>6, <1>7

LEMMA ReceiveRefuseKeeps ==
    ASSUME Inv, NEW p \in Nodes, ReceiveRefuse(p)
    PROVE  Inv'
<1> DEFINE a == sess[p]   x == a.snd   m == Head(wire[p])   t == a.last_tid
           s == [Active(a) EXCEPT !.snd = Idle]
           rep == IF x.st = "TransferRequest" THEN "Successful" ELSE "Failure"
<1>1. a.phase = "up" /\ wire[p] # <<>> /\ m.t = "XferRefuse" /\ m.tid = t /\ x # Idle
  BY DEF ReceiveRefuse, Next1
<1>2. IsReply(m)
  BY <1>1 DEF IsReply
<1>3. Types /\ <<p, x.b>> \in Transfers /\ x.st \in {"Sending", "TransferRequest"}
  BY <1>1, <1>2, ReplyFacts
<1>4. /\ Handled(p, s, <<>>) /\ UNCHANGED <<cut, queue, received, known, broken, faulty>>
      /\ Answer(p, x.b, rep) /\ rep \in Answers
  BY DEF ReceiveRefuse, Answers
<1>5. /\ task' \in [Transfers -> {"absent", "idle", "dialing", "found", "queued"} \cup Answers]
      /\ \A c \in Bundles : <<Dialer, c>> \in Transfers /\ task'[<<Dialer, c>>] = "dialing" =>
           task[<<Dialer, c>>] = "dialing"
  <2> HIDE DEF rep
  <2> QED BY <1>3, <1>4, AnswerKeeps
<1>6. \/ sess[p].snd.st = "Sending" /\ Final(sess[p].snd, sess[p].last_tid, Head(wire[p]))
      \/ sess[p].snd.st = "TransferRequest" /\ Head(wire[p]).t = "XferRefuse"
  BY <1>1, <1>3 DEF Final
<1>7. s = [Active(sess[p]) EXCEPT !.snd = Idle]
  OBVIOUS
<1> HIDE DEF s
<1> QED BY <1>1, <1>2, <1>4, <1>5, <1>6, <1>7, DoneKeeps

------------------------------------------------------------------------------
(***************************************************************************)
(* The receiver.                                                           *)
(***************************************************************************)
LEMMA SegmentFacts ==
    ASSUME Inv, NEW p \in Nodes, Segment(p)
    PROVE  LET w == wire[p]
               m == Head(w)
               y == Other(p)
               a == sess[p]
               r == ReceiveStateFor(p, m)
           IN  /\ y \in Nodes /\ Types /\ a.phase = "up" /\ w # <<>> /\ w \in Seq(Packet)
               /\ IsSeg(m) /\ m \in Packet /\ a \in Session /\ sess[y] \in Session
               /\ wire[y] \in Seq(Packet) /\ cut = FALSE
               /\ Stream(y, w, a.rcv, FALSE) /\ WellMade(y, m)
               /\ Open(y) => Link(w, a.rcv, wire[y], sess[y].snd, sess[y].last_tid)
               /\ Replies(wire[y], sess[y].snd, sess[y].last_tid, Excused(y), known[p], Arrived(y))
               /\ r.st # "Discarding" => ~(a.rcv.st = "Discarding" /\ a.rcv.tid = m.tid)
               /\ r.st = "Discarding" => a.rcv.st = "Discarding" /\ a.rcv.tid = m.tid
               /\ r.st \in {"Idle", "Receiving", "Discarding"}
               /\ r.st = "Receiving" => a.rcv = r /\ ~m.start /\ m.tid = r.tid /\ r.buf \in Seq(Byte)
               /\ r.st = "Idle" => m.start
<1> DEFINE w == wire[p]   m == Head(w)   y == Other(p)   a == sess[p]   r == ReceiveStateFor(p, m)
<1>1. a.phase = "up" /\ w # <<>> /\ IsSeg(m) /\ ~Unexpected(p, m)
  BY DEF Segment, Next1, IsSeg
<1>2. /\ y \in Nodes /\ Other(y) = p /\ Types /\ w \in Seq(Packet) /\ wire[y] \in Seq(Packet)
      /\ a \in Session /\ sess[y] \in Session /\ cut = FALSE /\ Open(p)
  BY <1>1, OtherNode DEF Inv, Types, Open
<1>3. m \in Packet /\ m = w[1] /\ 1 \in 1..Len(w)
  BY <1>1, <1>2, Taken
<1>4. /\ Stream(y, w, a.rcv, FALSE)
      /\ Replies(wire[y], sess[y].snd, sess[y].last_tid, Excused(y), known[p], Arrived(y))
      /\ Open(y) => Link(w, a.rcv, wire[y], sess[y].snd, sess[y].last_tid)
  BY <1>2 DEF Inv, Direction
<1>5. WellMade(y, m)
  BY <1>1, <1>3, <1>4 DEF Stream, Whole
<1>6. Idle.st = "Idle" /\ a.rcv.st \in {"Idle", "Receiving", "Discarding"}
      /\ (a.rcv.st = "Receiving" => a.rcv.buf \in Seq(Byte))
  BY <1>2 DEF Session, ReceiveStates, Idle
<1>7. \/ a.rcv.st = "Discarding" /\ a.rcv.tid # m.tid /\ r = Idle
      \/ ~(a.rcv.st = "Discarding" /\ a.rcv.tid # m.tid) /\ r = a.rcv
  BY DEF ReceiveStateFor
<1>8. (r.st = "Receiving" => ~m.start /\ m.tid = r.tid) /\ (r.st = "Idle" => m.start)
  BY <1>1 DEF Unexpected, IsSeg
<1> HIDE DEF w, m, y, a, r
<1>9. /\ r.st # "Discarding" => ~(a.rcv.st = "Discarding" /\ a.rcv.tid = m.tid)
      /\ r.st = "Discarding" => a.rcv.st = "Discarding" /\ a.rcv.tid = m.tid
      /\ r.st \in {"Idle", "Receiving", "Discarding"}
      /\ r.st = "Receiving" => a.rcv = r /\ r.buf \in Seq(Byte)
  BY <1>6, <1>7
<1> QED BY <1>1, <1>2, <1>3, <1>4, <1>5, <1>8, <1>9 DEF w, m, y, a, r

\* What the buffer holds once the segment is appended: the bundle up to it.
LEMMA Accumulates ==
    ASSUME Inv, NEW p \in Nodes, Segment(p),
           ReceiveStateFor(p, Head(wire[p])).st # "Discarding"
    PROVE  LET m   == Head(wire[p])
               buf == Buffered(ReceiveStateFor(p, m)) \o m.buf
           IN  /\ buf \in Seq(Byte) /\ Len(buf) = Len(Buffered(ReceiveStateFor(p, m))) + Len(m.buf)
               /\ m.buf = <<>> => buf = <<>> /\ Len(buf) = 0 /\ ~m.end
               /\ m.buf # <<>> =>
                    /\ Of(m) \in Bundles /\ <<Other(p), Of(m)>> \in Transfers
                    /\ buf = Run(Of(m), 1, Last(m)) /\ Len(buf) = Last(m) /\ buf # <<>>
                    /\ Last(m) \in 1..Size[Of(m)] /\ Size[Of(m)] \in Nat
                    /\ m.end <=> Last(m) = Size[Of(m)]
                    /\ m.end => buf = Bytes(Of(m))
<1> DEFINE w == wire[p]   m == Head(w)   y == Other(p)   a == sess[p]   r == ReceiveStateFor(p, m)
           k == Buffered(r)   buf == k \o m.buf
<1>1. /\ w # <<>> /\ w \in Seq(Packet) /\ IsSeg(m) /\ m \in Packet /\ Stream(y, w, a.rcv, FALSE)
      /\ WellMade(y, m) /\ r.st # "Discarding" /\ ~(a.rcv.st = "Discarding" /\ a.rcv.tid = m.tid)
      /\ r.st \in {"Idle", "Receiving", "Discarding"}
      /\ r.st = "Receiving" => a.rcv = r /\ ~m.start /\ m.tid = r.tid /\ r.buf \in Seq(Byte)
      /\ r.st = "Idle" => m.start
  BY SegmentFacts
<1>2. m = w[1] /\ 1 \in 1..Len(w) /\ m.buf \in Seq(Byte)
  BY <1>1, Taken, SegFields
<1>3. k \in Seq(Byte) /\ (r.st # "Receiving" => k = <<>>) /\ (r.st = "Receiving" => k = r.buf)
  BY <1>1, EmptySeq DEF Buffered
<1>r. a.rcv.st = "Receiving" => r = a.rcv
  BY DEF ReceiveStateFor
<1> HIDE DEF w, m, y, a, r, k
<1>4. buf \in Seq(Byte) /\ Len(buf) = Len(k) + Len(m.buf) /\ Len(k) \in Nat /\ Len(m.buf) \in Nat
  BY <1>2, <1>3, ConcatProperties, LenProperties
<1>5. ASSUME m.buf = <<>>
      PROVE  buf = <<>> /\ Len(buf) = 0 /\ ~m.end
  <2>1. m.start /\ ~m.end
    BY <1>1, <1>5 DEF WellMade
  <2>2. k = <<>>
    BY <1>1, <1>3, <2>1
  <2>3. <<>> \o <<>> = <<>> /\ Len(<<>>) = 0
    OBVIOUS
  <2> QED BY <1>5, <2>1, <2>2, <2>3
<1>6. ASSUME m.buf # <<>>
      PROVE  /\ Of(m) \in Bundles /\ <<y, Of(m)>> \in Transfers
             /\ buf = Run(Of(m), 1, Last(m)) /\ Len(buf) = Last(m) /\ buf # <<>>
             /\ Last(m) \in 1..Size[Of(m)] /\ Size[Of(m)] \in Nat
             /\ m.end <=> Last(m) = Size[Of(m)]
             /\ m.end => buf = Bytes(Of(m))
  <2> DEFINE b == Of(m)   f == First(m)   l == Last(m)   S == Size[Of(m)]
  <2>1. /\ b \in Bundles /\ <<y, b>> \in Transfers /\ f \in 1..S /\ l \in f..S
        /\ m.buf = Run(b, f, l) /\ (m.end <=> l = S) /\ (m.start => f = 1)
    BY <1>1, <1>6 DEF WellMade
  <2>2. S \in Nat
    BY <2>1, TcpclAssumption
  <2>3. IsData(m)
    BY <1>1, <1>6 DEF IsData, IsSeg
  <2> HIDE DEF b, f, l, S
  <2>4. f \in Nat /\ l \in Nat /\ f >= 1 /\ f <= l /\ l <= S /\ f - 1 \in Nat /\ (f - 1) + 1 = f /\ l \in 1..S
    BY <2>1, <2>2
  <2>5. f = 1 => Run(b, 1, f - 1) = <<>>
    <3> DEFINE z == f - 1
    <3>1. z \in Nat /\ 1 <= z + 1 /\ 1 \in Nat
      BY <2>4
    <3> HIDE DEF z
    <3>2. Run(b, 1, z) \in Seq(Byte) /\ Len(Run(b, 1, z)) = z - 1 + 1
      BY <2>1, <3>1, RunProperties
    <3>3. f = 1 => Len(Run(b, 1, z)) = 0
      BY <3>1, <3>2 DEF z
    <3> QED BY <3>2, <3>3, EmptySeq DEF z
  <2>6. k = Run(b, 1, f - 1)
    <3>1. CASE f > 1
      <4>1. a.rcv.st # "Idle" /\ a.rcv.tid = m.tid
            /\ (a.rcv.st = "Receiving" => a.rcv.buf = Run(b, 1, f - 1))
        BY <1>1, <1>2, <2>3, <3>1 DEF Stream, Continues, b, f
      <4>2. ~m.start
        BY <2>1, <3>1
      <4>3. r.st = "Receiving" /\ a.rcv = r
        BY <1>1, <4>2
      <4> QED BY <1>3, <4>1, <4>3
    <3>2. CASE f = 1 /\ m.start
      <4>1. r.st # "Receiving"
        BY <1>1, <3>2
      <4> QED BY <1>3, <2>5, <3>2, <4>1
    <3>3. CASE f = 1 /\ ~m.start
      <4>1. a.rcv.st = "Receiving" /\ a.rcv.buf = <<>>
        BY <1>1, <1>2, <2>3, <3>3 DEF Stream, Continues, f
      <4> QED BY <1>3, <1>r, <2>5, <3>3, <4>1
    <3> QED BY <2>4, <3>1, <3>2, <3>3
  <2>7. buf = Run(b, 1, l)
    <3> DEFINE j == f - 1
    <3>1. j \in Nat /\ j <= l /\ f = j + 1
      BY <2>4
    <3> HIDE DEF j
    <3>2. Run(b, 1, j) \o Run(b, j + 1, l) = Run(b, 1, l)
      BY <2>1, <2>4, <3>1, RunsAdjoin
    <3> QED BY <2>1, <2>6, <3>1, <3>2 DEF j
  <2>8. Len(buf) = l /\ buf # <<>>
    <3> HIDE DEF buf
    <3>1. Len(Run(b, 1, l)) = l - 1 + 1 /\ 1 <= l + 1
      BY <2>1, <2>4, RunProperties
    <3>2. Len(<<>>) = 0 /\ l - 1 + 1 = l /\ l # 0
      BY <2>4
    <3> QED BY <2>7, <3>1, <3>2
  <2>9. m.end => buf = Bytes(b)
    <3>1. Bytes(b) = Run(b, 1, Size[b])
      BY <2>1, BytesRun
    <3> QED BY <2>1, <2>7, <3>1 DEF S, b
  <2> HIDE DEF buf
  <2> QED BY <2>1, <2>2, <2>4, <2>7, <2>8, <2>9 DEF b, l, S
<1> QED BY <1>4, <1>5, <1>6 DEF w, m, y, a, r, k

LEMMA DiscardSegmentKeeps ==
    ASSUME Inv, NEW p \in Nodes, DiscardSegment(p)
    PROVE  Inv'
<1> DEFINE w == wire[p]   m == Head(w)   y == Other(p)   a == sess[p]
           s == [Active(a) EXCEPT !.rcv = IF m.end THEN Idle ELSE @]
<1>1. Segment(p) /\ ReceiveStateFor(p, m).st = "Discarding" /\ Handled(p, s, <<>>)
      /\ UNCHANGED <<cut, queue, task, received, known, broken, faulty>>
  BY DEF DiscardSegment
<1>2. /\ y \in Nodes /\ Types /\ a.phase = "up" /\ w # <<>> /\ w \in Seq(Packet)
      /\ IsSeg(m) /\ m \in Packet /\ a \in Session /\ sess[y] \in Session
      /\ wire[y] \in Seq(Packet) /\ cut = FALSE
      /\ Stream(y, w, a.rcv, FALSE) /\ WellMade(y, m)
      /\ Open(y) => Link(w, a.rcv, wire[y], sess[y].snd, sess[y].last_tid)
      /\ Replies(wire[y], sess[y].snd, sess[y].last_tid, Excused(y), known[p], Arrived(y))
      /\ a.rcv.st = "Discarding" /\ a.rcv.tid = m.tid
  BY <1>1, SegmentFacts
<1>3. /\ s \in Session /\ s.phase = "up" /\ s.snd = sess[p].snd /\ s.last_tid = sess[p].last_tid
      /\ s.rcv = IF m.end THEN Idle ELSE a.rcv
  <2>1. /\ Active(a) \in Session /\ Active(a).phase = a.phase /\ Active(a).rcv = a.rcv
        /\ Active(a).snd = a.snd /\ Active(a).last_tid = a.last_tid
    BY <1>2, ActiveSession
  <2>2. Idle \in ReceiveStates
    BY DEF ReceiveStates
  <2> QED BY <1>2, <2>1, <2>2 DEF Session
<1>4. m = w[1] /\ m.buf # <<>>
  <2>1. IsData(w[1])
    BY <1>2 DEF Stream, Continues
  <2> QED BY <1>2, <2>1, Taken DEF IsData
<1>i. Idle.st = "Idle"
  BY DEF Idle
<1> HIDE DEF s
<1>5. Beyond(s.rcv, m)
  BY <1>2, <1>3, <1>4, <1>i DEF Beyond
<1>6. /\ <<>> \in Seq(Packet) /\ (\A i \in 1..Len(<<>>) : IsReply(<<>>[i]))
      /\ wire[y] \o <<>> = wire[y]
  BY <1>2, WireAsBefore, ConcatEmptySeq
<1>7. Excused(y)' = Excused(y) /\ Arrived(y)' = Arrived(y) /\ Grows(p) /\ Grows(y)
  BY <1>1 DEF Excused, Arrived, Grows
<1>8. /\ received' \in [Nodes -> SUBSET Bundles] /\ broken' \in [Nodes -> SUBSET Seq(Byte)]
  BY <1>1, <1>2 DEF Types
<1>9. Open(y) => Link(Tail(w), s.rcv, wire[y], sess[y].snd, sess[y].last_tid)
  <2> DEFINE x == sess[y].snd   t == sess[y].last_tid   v == wire[y]   r == a.rcv   r2 == s.rcv
  <2>1. t \in Nat /\ (IF m.end THEN r2.st = "Idle" ELSE r2 = r)
    BY <1>2, <1>3, <1>i DEF Session
  <2>2. ASSUME Open(y) PROVE Link(Tail(w), r2, v, x, t)
    <3>1. Link(w, r, v, x, t) /\ Stream(y, w, r, FALSE) /\ r.st = "Discarding" /\ r.tid = Head(w).tid
      BY <1>2, <2>2
    <3> HIDE DEF x, t, v, r, r2, w
    <3> QED BY <1>2, <2>1, <3>1, LinkDiscard
  <2> QED BY <2>2
<1>10. Open(y) /\ ~cut =>
         /\ Link(Tail(wire[p]), s.rcv, wire[y] \o <<>>, sess[y].snd, sess[y].last_tid)
         /\ Replies(wire[y] \o <<>>, sess[y].snd, sess[y].last_tid, Excused(y)', known[p], Arrived(y)')
  BY <1>2, <1>6, <1>7, <1>9
<1> HIDE DEF a
<1> QED BY <1>1, <1>2, <1>3, <1>5, <1>6, <1>7, <1>8, <1>10, SegmentKeeps DEF a

LEMMA ReplyPackets ==
    ASSUME NEW t \in Nat, NEW n \in Nat
    PROVE  /\ XferRefuse(t) \in Packet /\ IsReply(XferRefuse(t)) /\ XferRefuse(t).tid = t
           /\ XferRefuse(t).t = "XferRefuse"
           /\ XferAck(t, n) \in Packet /\ IsReply(XferAck(t, n)) /\ XferAck(t, n).tid = t
           /\ XferAck(t, n).t = "XferAck" /\ XferAck(t, n).len = n
BY DEF XferRefuse, XferAck, Packet, IsReply

LEMMA OneReply ==
    ASSUME NEW n \in Packet, IsReply(n)
    PROVE  <<n>> \in Seq(Packet) /\ \A i \in 1..Len(<<n>>) : IsReply(<<n>>[i])
OBVIOUS

LEMMA ReceivedSession ==
    ASSUME NEW a \in Session, NEW r \in ReceiveStates
    PROVE  LET s == [Active(a) EXCEPT !.rcv = r]
           IN  /\ s \in Session /\ s.phase = a.phase /\ s.snd = a.snd /\ s.last_tid = a.last_tid
               /\ s.rcv = r
<1>1. /\ Active(a) \in Session /\ Active(a).phase = a.phase
      /\ Active(a).snd = a.snd /\ Active(a).last_tid = a.last_tid
  BY ActiveSession
<1> QED BY <1>1 DEF Session

LEMMA RefuseExistingKeeps ==
    ASSUME Inv, NEW p \in Nodes, RefuseExisting(p)
    PROVE  Inv'
<1> DEFINE w == wire[p]   m == Head(w)   y == Other(p)   a == sess[p]   n == XferRefuse(m.tid)
           s == [Active(a) EXCEPT !.rcv = Idle]
<1>1. /\ Segment(p) /\ ReceiveStateFor(p, m) = Idle /\ m.ext \cap known[p] # {}
      /\ Handled(p, s, <<n>>)
      /\ UNCHANGED <<cut, queue, task, received, known, broken, faulty>>
  BY DEF RefuseExisting
<1>i. Idle.st = "Idle" /\ Idle \in ReceiveStates
  BY DEF Idle, ReceiveStates
<1>2. /\ y \in Nodes /\ Types /\ a.phase = "up" /\ w # <<>> /\ w \in Seq(Packet)
      /\ IsSeg(m) /\ m \in Packet /\ a \in Session /\ sess[y] \in Session
      /\ wire[y] \in Seq(Packet) /\ cut = FALSE
      /\ Stream(y, w, a.rcv, FALSE) /\ WellMade(y, m)
      /\ Open(y) => Link(w, a.rcv, wire[y], sess[y].snd, sess[y].last_tid)
      /\ Replies(wire[y], sess[y].snd, sess[y].last_tid, Excused(y), known[p], Arrived(y))
      /\ ~(a.rcv.st = "Discarding" /\ a.rcv.tid = m.tid)
  BY <1>1, <1>i, SegmentFacts
<1>3. /\ s \in Session /\ s.phase = "up" /\ s.snd = sess[p].snd /\ s.last_tid = sess[p].last_tid
      /\ s.rcv = Idle
  BY <1>2, <1>i, ReceivedSession
<1>4. m.buf = <<>> /\ m.tid \in Nat
  BY <1>1, <1>2, SegFields DEF WellMade
<1>5. n \in Packet /\ IsReply(n) /\ n.tid = m.tid /\ n.t = "XferRefuse"
  BY <1>4, ReplyPackets
<1> HIDE DEF s, n
<1>6. <<n>> \in Seq(Packet) /\ \A i \in 1..Len(<<n>>) : IsReply(<<n>>[i])
  BY <1>5, OneReply
<1>7. Beyond(s.rcv, m)
  BY <1>3, <1>4, <1>i DEF Beyond
<1>8. Excused(y)' = Excused(y) /\ Arrived(y)' = Arrived(y) /\ Grows(p) /\ Grows(y)
  BY <1>1 DEF Excused, Arrived, Grows
<1>9. /\ received' \in [Nodes -> SUBSET Bundles] /\ broken' \in [Nodes -> SUBSET Seq(Byte)]
  BY <1>1, <1>2 DEF Types
<1>10. ASSUME Open(y)
       PROVE  /\ Link(Tail(w), s.rcv, wire[y] \o <<n>>, sess[y].snd, sess[y].last_tid)
              /\ Replies(wire[y] \o <<n>>, sess[y].snd, sess[y].last_tid, Excused(y), known[p], Arrived(y))
  <2> DEFINE x == sess[y].snd   t == sess[y].last_tid   v == wire[y]   r == a.rcv   r2 == s.rcv
             e == Excused(y)   had == known[p]   got == Arrived(y)
  <2>1. /\ Link(w, r, v, x, t) /\ Stream(y, w, r, FALSE) /\ ~(r.st = "Discarding" /\ r.tid = Head(w).tid)
        /\ t \in Nat /\ v \in Seq(Packet) /\ w \in Seq(Packet) /\ w # <<>> /\ IsSeg(Head(w))
        /\ Head(w).buf = <<>> /\ n.tid = Head(w).tid /\ r2.st = "Idle" /\ Replies(v, x, t, e, had, got)
        /\ Head(w).ext \cap had # {}
    BY <1>1, <1>2, <1>3, <1>4, <1>5, <1>10, <1>i DEF Session
  <2> HIDE DEF x, t, v, r, r2, w, e, had, got
  <2>2. /\ Head(w).tid = t /\ x.st = "TransferRequest" /\ Head(w).ext = {x.b} /\ NoReply(v, t)
    <3>0. /\ Link(w, r, v, x, t) /\ Stream(y, w, r, FALSE) /\ ~(r.st = "Discarding" /\ r.tid = Head(w).tid)
          /\ w \in Seq(Packet) /\ w # <<>> /\ IsSeg(Head(w))
      BY <2>1
    <3>1. Head(w).tid = t
      <4>1. Head(w) = w[1] /\ 1 \in 1..Len(w)
        BY <3>0, Taken
      <4> QED BY <3>0, <4>1 DEF Link
    <3>2. x.st = "TransferRequest" /\ Head(w).ext = {x.b} /\ NoReply(v, t)
      BY <2>1, LinkHead
    <3> QED BY <3>1, <3>2
  <2>3. r2.st = (IF n.t = "XferAck" THEN "Receiving" ELSE "Idle") /\ r2.st # "Receiving"
    BY <1>5, <2>1
  <2>4. Link(Tail(w), r2, v \o <<n>>, x, t)
    BY <1>5, <2>1, <2>3, LinkRequest
  <2>5. x.b \in had /\ n.tid = t /\ got \subseteq got
    BY <2>1, <2>2
  <2>6. Replies(v \o <<n>>, x, t, e, had, got)
    BY <1>5, <2>1, <2>2, <2>5, RepliesAnswered
  <2> QED BY <2>4, <2>6 DEF x, t, v, r, r2, w, e, had, got
<1>11. Open(y) /\ ~cut =>
         /\ Link(Tail(wire[p]), s.rcv, wire[y] \o <<n>>, sess[y].snd, sess[y].last_tid)
         /\ Replies(wire[y] \o <<n>>, sess[y].snd, sess[y].last_tid, Excused(y)', known[p], Arrived(y)')
  BY <1>8, <1>10
<1> DEFINE out == <<n>>
<1> HIDE DEF a, out
<1> QED BY <1>1, <1>2, <1>3, <1>6, <1>7, <1>8, <1>9, <1>11, SegmentKeeps DEF a, out

LEMMA RefuseOversizedKeeps ==
    ASSUME Inv, NEW p \in Nodes, RefuseOversized(p)
    PROVE  Inv'
<1> DEFINE w == wire[p]   m == Head(w)   y == Other(p)   a == sess[p]   n == XferRefuse(m.tid)
           q == IF m.end THEN Idle ELSE Discarding(m.tid)
           s == [Active(a) EXCEPT !.rcv = q]
<1>1. /\ Segment(p) /\ ReceiveStateFor(p, m).st # "Discarding"
      /\ Len(Buffered(ReceiveStateFor(p, m))) + Len(m.buf) > TransferMru[p]
      /\ Handled(p, s, <<n>>)
      /\ UNCHANGED <<cut, queue, task, received, known, broken, faulty>>
  BY DEF RefuseOversized
<1>2. /\ y \in Nodes /\ Types /\ a.phase = "up" /\ w # <<>> /\ w \in Seq(Packet)
      /\ IsSeg(m) /\ m \in Packet /\ a \in Session /\ sess[y] \in Session
      /\ wire[y] \in Seq(Packet) /\ cut = FALSE
      /\ Stream(y, w, a.rcv, FALSE) /\ WellMade(y, m)
      /\ Open(y) => Link(w, a.rcv, wire[y], sess[y].snd, sess[y].last_tid)
      /\ Replies(wire[y], sess[y].snd, sess[y].last_tid, Excused(y), known[p], Arrived(y))
      /\ ~(a.rcv.st = "Discarding" /\ a.rcv.tid = m.tid)
  BY <1>1, SegmentFacts
<1>3. m.buf # <<>>
  <2>1. TransferMru[p] \in Nat /\ TransferMru[p] >= 1
    BY TcpclAssumption
  <2> DEFINE d == Len(Buffered(ReceiveStateFor(p, m))) + Len(m.buf)
  <2>2. m.buf = <<>> => d = 0
    BY <1>1, Accumulates
  <2>3. d > TransferMru[p]
    BY <1>1
  <2> HIDE DEF d
  <2> QED BY <2>1, <2>2, <2>3
<1>4. m.tid \in Nat
  BY <1>2, SegFields
<1>5. n \in Packet /\ IsReply(n) /\ n.tid = m.tid /\ n.t = "XferRefuse"
  BY <1>4, ReplyPackets
<1>6. /\ q \in ReceiveStates /\ (m.end => q.st = "Idle")
      /\ ~m.end => q.st = "Discarding" /\ q.tid = m.tid
  BY <1>4 DEF ReceiveStates, Idle, Discarding
<1> HIDE DEF n, q
<1>7. /\ s \in Session /\ s.phase = "up" /\ s.snd = sess[p].snd /\ s.last_tid = sess[p].last_tid
      /\ s.rcv = q
  BY <1>2, <1>6, ReceivedSession
<1> HIDE DEF s
<1>8. <<n>> \in Seq(Packet) /\ \A i \in 1..Len(<<n>>) : IsReply(<<n>>[i])
  BY <1>5, OneReply
<1>9. Beyond(s.rcv, m)
  BY <1>3, <1>6, <1>7 DEF Beyond
<1>10. Excused(y)' = Excused(y) /\ Arrived(y)' = Arrived(y) /\ Grows(p) /\ Grows(y)
  BY <1>1 DEF Excused, Arrived, Grows
<1>11. /\ received' \in [Nodes -> SUBSET Bundles] /\ broken' \in [Nodes -> SUBSET Seq(Byte)]
  BY <1>1, <1>2 DEF Types
<1>12. ASSUME Open(y)
       PROVE  /\ Link(Tail(w), q, wire[y] \o <<n>>, sess[y].snd, sess[y].last_tid)
              /\ Replies(wire[y] \o <<n>>, sess[y].snd, sess[y].last_tid, Excused(y), known[p], Arrived(y))
  <2> DEFINE x == sess[y].snd   t == sess[y].last_tid   v == wire[y]   r == a.rcv
             e == Excused(y)   had == known[p]   got == Arrived(y)
  <2>1. /\ Link(w, r, v, x, t) /\ Stream(y, w, r, FALSE) /\ ~(r.st = "Discarding" /\ r.tid = Head(w).tid)
        /\ t \in Nat /\ v \in Seq(Packet) /\ w \in Seq(Packet) /\ w # <<>> /\ IsSeg(Head(w))
        /\ Head(w).buf # <<>> /\ n.tid = Head(w).tid /\ Replies(v, x, t, e, had, got)
        /\ Head(w).end => q.st = "Idle"
        /\ ~Head(w).end => q.st = "Discarding" /\ q.tid = Head(w).tid
    BY <1>1, <1>2, <1>3, <1>5, <1>6, <1>12 DEF Session
  <2> HIDE DEF x, t, v, r, w, e, had, got
  <2>2. Head(w).tid = t /\ x.st = "Sending" /\ NoFinal(v, x, t)
    BY <2>1, LinkHead
  <2>4. Link(Tail(w), q, v \o <<n>>, x, t)
    <3>1. CASE Head(w).end
      <4> DEFINE z == v \o <<n>>
      <4> HIDE DEF z
      <4>1. Link(Tail(w), q, z, x, t)
        BY <2>1, <3>1, LinkEnd
      <4> QED BY <4>1 DEF z
    <3>2. CASE ~Head(w).end
      BY <1>5, <2>1, <2>2, <3>2, LinkMiddle
    <3> QED BY <3>1, <3>2
  <2>5. n.tid = t /\ got \subseteq got /\ n.t # "XferAck"
    BY <1>5, <2>1, <2>2
  <2>6. Replies(v \o <<n>>, x, t, e, had, got)
    BY <1>5, <2>1, <2>2, <2>5, RepliesAnswered
  <2> QED BY <2>4, <2>6 DEF x, t, v, r, w, e, had, got
<1>13. Open(y) /\ ~cut =>
         /\ Link(Tail(wire[p]), s.rcv, wire[y] \o <<n>>, sess[y].snd, sess[y].last_tid)
         /\ Replies(wire[y] \o <<n>>, sess[y].snd, sess[y].last_tid, Excused(y)', known[p], Arrived(y)')
  BY <1>7, <1>10, <1>12
<1> DEFINE out == <<n>>
<1> HIDE DEF a, out
<1> QED BY <1>1, <1>2, <1>7, <1>8, <1>9, <1>10, <1>11, <1>13, SegmentKeeps DEF a, out

LEMMA AcceptSegmentKeeps ==
    ASSUME Inv, NEW p \in Nodes, AcceptSegment(p)
    PROVE  Inv'
<1> DEFINE w == wire[p]   m == Head(w)   y == Other(p)   a == sess[p]
           buf == Buffered(ReceiveStateFor(p, m)) \o m.buf
           bs  == {b \in Bundles \ Malformed : buf = Bytes(b)}
           undecoded == m.end /\ bs = {}
           ack == XferAck(m.tid, Len(buf))   ref == XferRefuse(m.tid)
           out == <<ack>> \o (IF undecoded THEN <<ref>> ELSE <<>>)
           q == IF m.end THEN Idle ELSE Receiving(buf, m.tid)
           s == [Active(a) EXCEPT !.rcv = q]
           b == Of(m)
<1>1. /\ Segment(p) /\ ReceiveStateFor(p, m).st # "Discarding"
      /\ Handled(p, s, out)
      /\ received' = [received EXCEPT ![p] = IF m.end THEN received[p] \cup bs ELSE received[p]]
      /\ broken' = [broken EXCEPT ![p] = IF undecoded THEN broken[p] \cup {buf} ELSE broken[p]]
      /\ UNCHANGED <<cut, queue, task, known, faulty>>
  BY DEF AcceptSegment
<1>2. /\ y \in Nodes /\ Types /\ a.phase = "up" /\ w # <<>> /\ w \in Seq(Packet)
      /\ IsSeg(m) /\ m \in Packet /\ a \in Session /\ sess[y] \in Session
      /\ wire[y] \in Seq(Packet) /\ cut = FALSE
      /\ Stream(y, w, a.rcv, FALSE) /\ WellMade(y, m)
      /\ Open(y) => Link(w, a.rcv, wire[y], sess[y].snd, sess[y].last_tid)
      /\ Replies(wire[y], sess[y].snd, sess[y].last_tid, Excused(y), known[p], Arrived(y))
      /\ ~(a.rcv.st = "Discarding" /\ a.rcv.tid = m.tid)
  BY <1>1, SegmentFacts
<1>3. /\ buf \in Seq(Byte)
      /\ m.buf = <<>> => buf = <<>> /\ Len(buf) = 0 /\ ~m.end
      /\ m.buf # <<>> =>
           /\ b \in Bundles /\ <<y, b>> \in Transfers
           /\ buf = Run(b, 1, Last(m)) /\ Len(buf) = Last(m) /\ buf # <<>>
           /\ Last(m) \in 1..Size[b] /\ Size[b] \in Nat
           /\ m.end <=> Last(m) = Size[b]
           /\ m.end => buf = Bytes(b)
  BY <1>1, Accumulates
<1>o. Other(y) = p /\ y # p
  BY OtherNode
<1> HIDE DEF b, buf
<1>4. m.tid \in Nat /\ Len(buf) \in Nat /\ m.end \in BOOLEAN
  BY <1>2, <1>3, SegFields, LenProperties
<1>5. /\ ack \in Packet /\ IsReply(ack) /\ ack.tid = m.tid /\ ack.t = "XferAck" /\ ack.len = Len(buf)
      /\ ref \in Packet /\ IsReply(ref) /\ ref.tid = m.tid /\ ref.t = "XferRefuse"
  BY <1>4, ReplyPackets
<1>6. /\ q \in ReceiveStates /\ (m.end => q.st = "Idle")
      /\ ~m.end => q.st = "Receiving" /\ q.tid = m.tid /\ q.buf = buf
  BY <1>3, <1>4 DEF ReceiveStates, Idle, Receiving
<1>7. bs \subseteq Bundles /\ (m.end => bs = {b} \ Malformed)
  <2>1. m.end => buf = Bytes(b) /\ b \in Bundles
    BY <1>3
  <2> QED BY <2>1, BytesInjective
<1> HIDE DEF ack, ref, q, bs
<1>8. /\ s \in Session /\ s.phase = "up" /\ s.snd = sess[p].snd /\ s.last_tid = sess[p].last_tid
      /\ s.rcv = q
  BY <1>2, <1>6, ReceivedSession
<1> HIDE DEF s
<1>9. /\ <<ack>> \in Seq(Packet) /\ <<ref>> \in Seq(Packet)
      /\ (\A i \in 1..Len(<<ack>>) : IsReply(<<ack>>[i]))
      /\ <<ack>> \o <<>> = <<ack>>
  BY <1>5, OneReply, ConcatEmptySeq
<1>10. (undecoded => out = <<ack>> \o <<ref>>) /\ (~undecoded => out = <<ack>>)
  BY <1>9
<1> HIDE DEF out
<1>11. out \in Seq(Packet) /\ \A i \in 1..Len(out) : IsReply(out[i])
  <2>1. CASE ~undecoded
    BY <1>9, <1>10, <2>1
  <2>2. CASE undecoded
    <3> DEFINE A == <<ack>>   R == <<ref>>
    <3>1. /\ A \in Seq(Packet) /\ R \in Seq(Packet) /\ out = A \o R
          /\ \A i \in 1..Len(A) : IsReply(A[i])
          /\ \A i \in 1..Len(R) : IsReply(R[i])
      BY <1>5, <1>9, <1>10, <2>2, OneReply
    <3> HIDE DEF A, R
    <3>2. /\ A \o R \in Seq(Packet) /\ Len(A) \in Nat /\ Len(R) \in Nat /\ Len(A \o R) = Len(A) + Len(R)
          /\ \A i \in 1..Len(A) : (A \o R)[i] = A[i]
          /\ \A i \in 1..Len(A \o R) : ~(i <= Len(A)) =>
               i - Len(A) \in 1..Len(R) /\ (A \o R)[i] = R[i - Len(A)]
      BY <3>1, Appended
    <3> QED BY <3>1, <3>2
  <2> QED BY <2>1, <2>2
<1>12. Beyond(s.rcv, m)
  BY <1>3, <1>6, <1>8 DEF Beyond, b
<1>13. /\ received' \in [Nodes -> SUBSET Bundles] /\ broken' \in [Nodes -> SUBSET Seq(Byte)]
  BY <1>1, <1>2, <1>3, <1>7 DEF Types
<1>14. Grows(p) /\ Grows(y)
  BY <1>1, <1>2, <1>o DEF Types, Grows
<1>15. (Excused(y) => Excused(y)') /\ Arrived(y) \subseteq Arrived(y)'
  BY <1>2, <1>14, <1>o, GrowsKeeps
<1>16. m.end => b \in Bundles /\ b \in Arrived(y)'
  <2>1. m.end /\ ~undecoded => b \in received'[p]
    BY <1>1, <1>2, <1>7 DEF Types
  <2>2. undecoded => Bytes(b) \in broken'[p]
    BY <1>1, <1>2, <1>3 DEF Types
  <2>3. m.end => b \in Bundles
    BY <1>3
  <2> HIDE DEF undecoded
  <2> QED BY <1>o, <2>1, <2>2, <2>3 DEF Arrived
<1>17. undecoded => Excused(y)'
  <2>1. undecoded => b \in Malformed /\ <<y, b>> \in Transfers /\ Bytes(b) \in broken'[p]
    BY <1>1, <1>2, <1>3, <1>7 DEF Types
  <2> HIDE DEF undecoded
  <2> QED BY <1>o, <2>1 DEF Excused
<1>18. ASSUME Open(y)
       PROVE  /\ Link(Tail(w), q, wire[y] \o out, sess[y].snd, sess[y].last_tid)
              /\ Replies(wire[y] \o out, sess[y].snd, sess[y].last_tid, Excused(y)', known[p], Arrived(y)')
  <2> DEFINE x == sess[y].snd   t == sess[y].last_tid   v == wire[y]   r == a.rcv
             e == Excused(y)   had == known[p]   got == Arrived(y)   e2 == Excused(y)'   got2 == Arrived(y)'
  <2>1. /\ Link(w, r, v, x, t) /\ Stream(y, w, r, FALSE) /\ ~(r.st = "Discarding" /\ r.tid = m.tid)
        /\ t \in Nat /\ v \in Seq(Packet) /\ Replies(v, x, t, e, had, got)
        /\ (e => e2) /\ got \subseteq got2 /\ had \subseteq had
        /\ (m.end => b \in got2) /\ (undecoded => e2)
    BY <1>2, <1>15, <1>16, <1>17, <1>18 DEF Session
  <2> HIDE DEF x, t, v, r, w, e, had, got, e2, got2
  <2>2. m.tid = t
    <3>1. Head(w) = w[1] /\ 1 \in 1..Len(w)
      BY <1>2, Taken
    <3> QED BY <1>2, <2>1, <3>1 DEF Link
  <2>3. CASE m.buf = <<>>
    <3>1. x.st = "TransferRequest" /\ NoReply(v, t)
      BY <1>2, <2>1, <2>3, LinkHead
    <3>2. ~m.end /\ q.st = "Receiving" /\ q.tid = t /\ q.buf = <<>> /\ out = <<ack>> /\ ack.tid = t
      BY <1>3, <1>5, <1>6, <1>10, <2>2, <2>3
    <3>3. q.st = (IF ack.t = "XferAck" THEN "Receiving" ELSE "Idle")
      BY <1>5, <3>2
    <3>4. Link(Tail(w), q, v \o <<ack>>, x, t)
      BY <1>2, <1>5, <2>1, <2>3, <3>2, <3>3, LinkRequest
    <3>5. Replies(v \o <<ack>>, x, t, e, had, got2)
      BY <1>5, <2>1, <3>1, <3>2, RepliesAnswered
    <3>6. Replies(v \o <<ack>>, x, t, e2, had, got2)
      BY <2>1, <3>5, RepliesGrow
    <3> QED BY <3>2, <3>4, <3>6 DEF x, t, v, r, w, e, had, got, e2, got2
  <2>4. CASE m.buf # <<>> /\ ~m.end
    <3>1. x.st = "Sending" /\ b = x.b /\ NoFinal(v, x, t)
      BY <1>2, <2>1, <2>4, LinkHead DEF b
    <3>2. q.st = "Receiving" /\ q.tid = t /\ out = <<ack>> /\ ack.tid = t
      BY <1>5, <1>6, <1>10, <2>2, <2>4
    <3>3. ~Final(x, t, ack)
      <4>1. ack.len = Last(m) /\ Last(m) \in 1..Size[b] /\ Last(m) # Size[b] /\ Size[b] \in Nat
        BY <1>3, <1>5, <2>4
      <4>2. ~(ack.len >= Size[b])
        BY <4>1
      <4> QED BY <1>5, <3>1, <4>2 DEF Final
    <3>4. Link(Tail(w), q, v \o <<ack>>, x, t)
      BY <1>2, <1>5, <2>1, <2>4, <3>2, <3>3, LinkMiddle
    <3>5. Replies(v \o <<ack>>, x, t, e, had, got2)
      BY <1>5, <2>1, <3>1, <3>2, <3>3, RepliesAnswered
    <3>6. Replies(v \o <<ack>>, x, t, e2, had, got2)
      BY <2>1, <3>5, RepliesGrow
    <3> QED BY <3>2, <3>4, <3>6 DEF x, t, v, r, w, e, had, got, e2, got2
  <2>5. CASE m.buf # <<>> /\ m.end
    <3>1. x.st = "Sending" /\ b = x.b /\ NoFinal(v, x, t)
      BY <1>2, <2>1, <2>5, LinkHead DEF b
    <3>2. q.st = "Idle" /\ ack.tid = t /\ ref.tid = t
      BY <1>5, <1>6, <2>2, <2>5
    <3>3. \A z : Link(Tail(w), q, z, x, t)
      <4> TAKE z
      <4> QED BY <1>2, <2>1, <2>5, <3>2, LinkEnd
    <3>4. Replies(v \o <<ack>>, x, t, e, had, got2)
      BY <1>5, <2>1, <2>5, <3>1, <3>2, RepliesAnswered
    <3>5. Replies(v \o <<ack>>, x, t, e2, had, got2)
      BY <2>1, <3>4, RepliesGrow
    <3>6. Replies(v \o out, x, t, e2, had, got2)
      <4>1. CASE ~undecoded
        BY <1>10, <3>5, <4>1
      <4>2. CASE undecoded
        <5> DEFINE u == v \o <<ack>>
        <5>1. u \in Seq(Packet) /\ v \o out = u \o <<ref>>
          <6> DEFINE A == <<ack>>   R == <<ref>>
          <6>1. A \in Seq(Packet) /\ R \in Seq(Packet) /\ out = A \o R /\ v \in Seq(Packet)
            BY <1>9, <1>10, <2>1, <4>2
          <6> HIDE DEF A, R
          <6>2. v \o A \in Seq(Packet)
            BY <6>1, Appended
          <6>3. (v \o A) \o R = v \o (A \o R)
            BY <6>1, ConcatAssociative
          <6> QED BY <6>1, <6>2, <6>3 DEF A, R
        <5> HIDE DEF u
        <5>2. Replies(u, x, t, e2, had, got2)
          BY <3>5 DEF u
        <5>3. Replies(u \o <<ref>>, x, t, TRUE, had, got2)
          BY <1>5, <2>1, <3>1, <3>2, <5>1, <5>2, RepliesExcused
        <5>4. Replies(u \o <<ref>>, x, t, e2, had, got2)
          BY <2>1, <4>2, <5>3, RepliesGrow
        <5> QED BY <5>1, <5>4
      <4> QED BY <4>1, <4>2
    <3> QED BY <3>3, <3>6 DEF x, t, v, r, w, e, had, got, e2, got2
  <2> QED BY <2>3, <2>4, <2>5
<1>19. Open(y) /\ ~cut =>
         /\ Link(Tail(wire[p]), s.rcv, wire[y] \o out, sess[y].snd, sess[y].last_tid)
         /\ Replies(wire[y] \o out, sess[y].snd, sess[y].last_tid, Excused(y)', known[p], Arrived(y)')
  BY <1>8, <1>18
<1> HIDE DEF a
<1> QED BY <1>1, <1>2, <1>8, <1>11, <1>12, <1>13, <1>14, <1>19, SegmentKeeps DEF a

------------------------------------------------------------------------------
(***************************************************************************)
(* The invariant.                                                          *)
(***************************************************************************)
LEMMA InitInv == Init => Inv
<1> SUFFICES ASSUME Init PROVE Inv
  OBVIOUS
<1>1. \A p \in Nodes : /\ sess[p] = Fresh("off") /\ wire[p] = <<>> /\ queue[p] = <<>>
                       /\ sess[p].phase = "off" /\ sess[p].rcv = Idle /\ sess[p].snd = Idle
                       /\ sess[p].snd.st = "Idle" /\ Other(p) \in Nodes
  BY FreshSession, OtherNode DEF Init
<1>2. Types
  <2>1. sess \in [Nodes -> Session]
    BY FreshSession DEF Init
  <2>2. wire \in [Nodes -> Seq(Packet)] /\ queue \in [Nodes -> Seq(Bundles)]
    BY EmptySeq DEF Init
  <2>3. task \in [Transfers -> {"absent", "idle", "dialing", "found", "queued"} \cup Answers]
    BY DEF Init
  <2>4. known \in [Nodes -> SUBSET Bundles]
    BY TcpclAssumption DEF Init
  <2> QED BY <2>1, <2>2, <2>3, <2>4 DEF Init, Types
<1>3. \A i \in 1..Len(<<>>) : FALSE
  OBVIOUS
<1>4. Belongs
  BY <1>1, <1>3 DEF Belongs
<1>5. Dialing
  <2>1. Dialer \in Nodes /\ Listener \in Nodes
    BY DEF Nodes
  <2>2. \A b \in Bundles : <<Dialer, b>> \in Transfers => task[<<Dialer, b>>] # "dialing"
    BY DEF Init
  <2> QED BY <1>1, <2>1, <2>2 DEF Dialing
<1>6. \A p \in Nodes : Handshake(p)
  <2> TAKE p \in Nodes
  <2>1. Greeted(<<>>, sess[p], sess[Other(p)].phase, cut)
    BY <1>1, <1>3 DEF Greeted
  <2> QED BY <1>1, <2>1 DEF Handshake
<1>7. \A p \in Nodes : Direction(p)
  <2> TAKE p \in Nodes
  <2>1. /\ Stream(p, <<>>, Idle, cut)
        /\ Replies(<<>>, Idle, sess[p].last_tid, Excused(p), known[Other(p)], Arrived(p))
    BY NothingOnTheWire DEF Init
  <2>2. ~Open(p)
    BY <1>1 DEF Open
  <2> QED BY <1>1, <2>1, <2>2 DEF Direction
<1> QED BY <1>1, <1>2, <1>4, <1>5, <1>6, <1>7 DEF Inv

LEMMA InvUnchanged ==
    ASSUME Inv, UNCHANGED vars
    PROVE  Inv'
<1>1. Types' /\ Belongs' /\ Dialing'
  BY DEF Inv, vars, Types, Belongs, Dialing, Open
<1>2. UNCHANGED <<cut, sess, wire>> /\ \A q \in Nodes : Grows(q)
  BY DEF vars, Grows
<1> QED BY <1>1, <1>2, FrameKeeps

\* One step per action.
LEMMA NextInv == Inv /\ [Next]_vars => Inv'
<1> SUFFICES ASSUME Inv, [Next]_vars PROVE Inv'
  OBVIOUS
<1>1. CASE UNCHANGED vars
  BY <1>1, InvUnchanged
<1>2. CASE Cut
  BY <1>2, CutKeeps
<1>3. CASE \E p \in Nodes, b \in Bundles : Store(p, b)
  BY <1>3, StoreKeeps
<1>4. ASSUME NEW p \in Nodes, SessionStep(p) PROVE Inv'
  <2>1. CASE ExchangeContactHeader(p)
    BY <2>1, ExchangeContactHeaderKeeps
  <2>2. CASE NegotiateSession(p)
    BY <2>2, NegotiateSessionKeeps
  <2>3. CASE SendTooLarge(p)
    BY <2>3, SendTooLargeKeeps
  <2>4. CASE Send(p)
    BY <2>4, SendKeeps
  <2>5. CASE RefuseExisting(p)
    BY <2>5, RefuseExistingKeeps
  <2>6. CASE RefuseOversized(p)
    BY <2>6, RefuseOversizedKeeps
  <2>7. CASE AcceptSegment(p)
    BY <2>7, AcceptSegmentKeeps
  <2>8. CASE DiscardSegment(p)
    BY <2>8, DiscardSegmentKeeps
  <2>9. CASE ReceiveGo(p)
    BY <2>9, ReceiveGoKeeps
  <2>10. CASE ReceiveAck(p)
    BY <2>10, ReceiveAckKeeps
  <2>11. CASE ReceiveRefuse(p)
    BY <2>11, ReceiveRefuseKeeps
  <2>12. CASE ReceiveKeepAlive(p)
    BY <2>12, ReceiveKeepAliveKeeps
  <2>13. CASE SendUnreadable(p) \/ ProtocolError(p) \/ Terminate(p) \/ ConnectionLost(p)
    BY <2>13, EndingsKeep
  <2>14. CASE ReceiveSessTerm(p)
    BY <2>14, ReceiveSessTermKeeps
  <2> QED BY <1>4, <2>1, <2>2, <2>3, <2>4, <2>5, <2>6, <2>7, <2>8, <2>9, <2>10, <2>11, <2>12, <2>13,
             <2>14
          DEF SessionStep
<1>5. ASSUME NEW p \in Nodes, Timeout(p) PROVE Inv'
  BY <1>5, IdleTimeoutKeeps DEF Timeout
<1>6. ASSUME NEW t \in Transfers, TaskStep(t[1], t[2]) PROVE Inv'
  <2>1. t = <<t[1], t[2]>>
    BY TcpclAssumption
  <2> DEFINE p == t[1]   b == t[2]
  <2>2. <<p, b>> \in Transfers /\ TaskStep(p, b)
    BY <1>6, <2>1
  <2> HIDE DEF p, b
  <2>3. CASE Lookup(p, b)
    BY <2>2, <2>3, LookupKeeps
  <2>4. CASE Push(p, b)
    BY <2>2, <2>4, PushKeeps
  <2>5. CASE p = Dialer /\ Dial(b)
    BY <2>2, <2>5, DialKeeps
  <2>6. CASE p = Dialer /\ Connected(b)
    BY <2>2, <2>6, ConnectedKeeps
  <2>7. CASE p = Dialer /\ NotConnected(b)
    BY <2>2, <2>7, NotConnectedKeeps
  <2>8. CASE p = Listener /\ DialBack(b)
    BY <2>2, <2>8, DialBackKeeps
  <2> QED BY <2>2, <2>3, <2>4, <2>5, <2>6, <2>7, <2>8 DEF TaskStep
<1> QED BY <1>1, <1>2, <1>3, <1>4, <1>5, <1>6 DEF Next

\* The inductive invariant holds in every state, whatever the interleaving of
\* the two sessions, of cuts, timeouts and new connections.
THEOREM InvHolds == Spec => []Inv
<1>1. Init => Inv
  BY InitInv
<1>2. Inv /\ [Next]_vars => Inv'
  BY NextInv
<1> QED BY <1>1, <1>2, PTL DEF Spec

------------------------------------------------------------------------------
(***************************************************************************)
(* What the runs check.                                                    *)
(***************************************************************************)
\* What a step changes of the three histories: only an accepted segment and
\* the store add to what a node has, only ProtocolError to faulty.
LEMMA Histories ==
    ASSUME Inv, [Next]_vars
    PROVE  /\ \A q \in Nodes : Grows(q)
           /\ UNCHANGED <<received, broken>> \/ \E p \in Nodes : AcceptSegment(p)
           /\ faulty' = faulty \/ \E p \in Nodes : ProtocolError(p)
<1>1. CASE UNCHANGED vars
  BY <1>1 DEF vars, Grows
<1>2. CASE Cut
  BY <1>2 DEF Cut, Grows
<1>3. CASE \E p \in Nodes, b \in Bundles : Store(p, b)
  BY <1>3 DEF Store, Grows, Inv, Types
<1>4. ASSUME NEW p \in Nodes, SessionStep(p) \/ Timeout(p)
      PROVE  /\ \A q \in Nodes : Grows(q)
             /\ UNCHANGED <<received, broken>> \/ AcceptSegment(p)
             /\ faulty' = faulty \/ ProtocolError(p)
  <2>1. CASE AcceptSegment(p)
    <3>1. faulty' = faulty /\ known' = known
      BY <2>1 DEF AcceptSegment
    <3>2. \A q \in Nodes : received[q] \subseteq received'[q]
      BY <2>1 DEF AcceptSegment, Inv, Types
    <3>3. \A q \in Nodes : broken[q] \subseteq broken'[q]
      BY <2>1 DEF AcceptSegment, Inv, Types
    <3> QED BY <2>1, <3>1, <3>2, <3>3 DEF Grows
  <2>2. CASE ProtocolError(p)
    BY <2>2 DEF ProtocolError, Grows
  <2>3. CASE \/ ExchangeContactHeader(p) \/ NegotiateSession(p)
             \/ SendTooLarge(p) \/ Send(p) \/ SendUnreadable(p)
             \/ RefuseExisting(p) \/ RefuseOversized(p) \/ DiscardSegment(p)
             \/ ReceiveGo(p) \/ ReceiveAck(p) \/ ReceiveRefuse(p)
             \/ ReceiveSessTerm(p) \/ ReceiveKeepAlive(p) \/ ConnectionLost(p) \/ IdleTimeout(p)
             \/ Terminate(p)
    <3>1. UNCHANGED <<received, known, broken, faulty>>
      BY <2>3 DEF ExchangeContactHeader, NegotiateSession, SendTooLarge, Send, SendUnreadable,
                  RefuseExisting, RefuseOversized, DiscardSegment, ReceiveGo, ReceiveAck,
                  ReceiveRefuse, ReceiveSessTerm, ReceiveKeepAlive, ConnectionLost, IdleTimeout,
                  Terminate
    <3> QED BY <3>1 DEF Grows
  <2> QED BY <1>4, <2>1, <2>2, <2>3 DEF SessionStep, Timeout
<1>5. CASE \E t \in Transfers : TaskStep(t[1], t[2])
  <2>1. UNCHANGED <<received, known, broken, faulty>>
    BY <1>5 DEF TaskStep, Lookup, Push, Dial, Connected, NotConnected, DialBack
  <2> QED BY <2>1 DEF Grows
<1> QED BY <1>1, <1>2, <1>3, <1>4, <1>5 DEF Next

\* A receiver puts together only whole bundles: what process_bundle hands on is
\* a bundle its peer sent, and what it cannot parse was malformed when sent.
THEOREM TransfersArriveIntact == Spec => []TransfersIntact
<1>1. Init => TransfersIntact
  BY DEF Init, TransfersIntact
<1>2. Inv /\ TransfersIntact /\ [Next]_vars => TransfersIntact'
  <2> SUFFICES ASSUME Inv, TransfersIntact, [Next]_vars PROVE TransfersIntact'
    OBVIOUS
  <2>1. CASE UNCHANGED <<received, broken>>
    BY <2>1 DEF TransfersIntact
  <2>2. ASSUME NEW p \in Nodes, AcceptSegment(p) PROVE TransfersIntact'
    <3> DEFINE m == Head(wire[p])   buf == Buffered(ReceiveStateFor(p, m)) \o m.buf
               bs == {b \in Bundles \ Malformed : buf = Bytes(b)}
               undecoded == m.end /\ bs = {}   d == Of(m)
    <3>1. /\ Segment(p) /\ ReceiveStateFor(p, m).st # "Discarding"
          /\ received' = [received EXCEPT ![p] = IF m.end THEN received[p] \cup bs ELSE received[p]]
          /\ broken' = [broken EXCEPT ![p] = IF undecoded THEN broken[p] \cup {buf} ELSE broken[p]]
      BY <2>2 DEF AcceptSegment
    <3>2. m.end => d \in Bundles /\ <<Other(p), d>> \in Transfers /\ buf = Bytes(d)
      BY <3>1, Accumulates
    <3>3. m.end => bs = {d} \ Malformed
      <4> HIDE DEF buf, d
      <4> QED BY <3>2, BytesInjective
    <3> HIDE DEF buf, bs, d
    <3>4. undecoded => d \in Malformed /\ buf = Bytes(d)
      BY <3>2, <3>3
    <3>5. \A q \in Nodes : received'[q] \subseteq received[q] \cup (IF q = p /\ m.end THEN bs ELSE {})
      BY <3>1 DEF Inv, Types
    <3>6. \A q \in Nodes : broken'[q] \subseteq broken[q] \cup (IF q = p /\ undecoded THEN {buf} ELSE {})
      BY <3>1 DEF Inv, Types
    <3> HIDE DEF undecoded
    <3> QED BY <3>2, <3>3, <3>4, <3>5, <3>6 DEF TransfersIntact
  <2> QED BY <2>1, <2>2, Histories
<1> QED BY <1>1, <1>2, InvHolds, PTL DEF Spec

\* The only packet of a peer that a session takes for an error is the refusal
\* of malformed bytes that were acknowledged before.
LEMMA OnlyExcused ==
    ASSUME Inv, NEW p \in Nodes, ProtocolError(p)
    PROVE  Excused(p)
<1> DEFINE w == wire[p]   m == Head(w)   y == Other(p)   a == sess[p]   r == ReceiveStateFor(p, m)
<1>1. a.phase = "up" /\ w # <<>> /\ Unexpected(p, m)
  BY DEF ProtocolError
<1>2. /\ y \in Nodes /\ Other(y) = p /\ w \in Seq(Packet) /\ a \in Session /\ cut = FALSE
  BY <1>1, OtherNode DEF Inv, Types
<1>3. m \in Packet /\ m = w[1] /\ 1 \in 1..Len(w) /\ Len(w) \in Nat
  BY <1>1, <1>2, Taken
<1>4. /\ Stream(y, w, a.rcv, FALSE)
      /\ Replies(w, a.snd, a.last_tid, Excused(p), known[y], Arrived(p))
  BY <1>2 DEF Inv, Direction
<1>5. m.t \notin {"ContactHeader", "SessInit"}
  <2>1. Greeted(w, a, sess[y].phase, cut)
    BY DEF Inv, Handshake
  <2>2. Greeting("up") = <<>> /\ Len(<<>>) = 0
    BY DEF Greeting
  <2> HIDE DEF w, a, m
  <2> QED BY <1>1, <1>3, <2>1, <2>2 DEF Greeted
<1>6. a.rcv.st \in {"Idle", "Receiving", "Discarding"} /\ Idle.st = "Idle"
  BY <1>2 DEF Session, ReceiveStates, Idle
<1>7. \/ a.rcv.st = "Discarding" /\ a.rcv.tid # m.tid /\ r = Idle
      \/ ~(a.rcv.st = "Discarding" /\ a.rcv.tid # m.tid) /\ r = a.rcv
  BY DEF ReceiveStateFor
<1>8. a.snd.st # "Idle" => a.snd # Idle
  BY <1>6
<1>9. \/ m.t = "XferSeg" /\ r.st = "Receiving" /\ (m.start \/ m.tid # r.tid)
      \/ m.t = "XferSeg" /\ r.st = "Idle" /\ ~m.start
      \/ m.t \in {"XferAck", "XferRefuse"} /\ (a.snd = Idle \/ m.tid # a.last_tid)
      \/ m.t \in {"ContactHeader", "SessInit"}
  BY <1>1 DEF Unexpected
<1> HIDE DEF w, m, a, r, y
<1>10. CASE IsSeg(m)
  <2>1. WellMade(y, m)
    BY <1>3, <1>4, <1>10 DEF Stream, Whole
  <2>2. m.buf # <<>> => IsData(m) /\ (First(m) = 1 \/ First(m) > 1) /\ (m.start => First(m) = 1)
    <3>1. m.buf # <<>> => First(m) \in 1..Size[Of(m)] /\ (m.start => First(m) = 1)
      BY <2>1 DEF WellMade
    <3> QED BY <1>10, <3>1 DEF IsData, IsSeg
  <2>3. m.buf = <<>> => m.start
    BY <2>1 DEF WellMade
  <2>4. /\ m.buf # <<>> /\ First(m) > 1 => a.rcv.st # "Idle" /\ a.rcv.tid = m.tid
        /\ m.buf # <<>> /\ First(m) = 1 /\ ~m.start => a.rcv.st = "Receiving" /\ a.rcv.tid = m.tid
        /\ a.rcv.st = "Receiving" /\ a.rcv.buf # <<>> => IsData(m) /\ First(m) > 1
        /\ a.rcv.st = "Receiving" /\ a.rcv.buf = <<>> => ~m.start
    BY <1>1, <1>3, <1>4, <1>10, <2>2 DEF Stream, Continues
  <2>5. ~(IsData(m) /\ First(m) > 1 /\ First(m) = 1) /\ (IsData(m) => m.buf # <<>>)
    BY DEF IsData
  <2>6. r.st = "Receiving" => ~m.start /\ m.tid = r.tid
    <3> SUFFICES ASSUME r.st = "Receiving" PROVE ~m.start /\ m.tid = r.tid
      OBVIOUS
    <3>1. r = a.rcv
      BY <1>6, <1>7
    <3> QED BY <2>2, <2>3, <2>4, <2>5, <3>1
  <2>7. r.st = "Idle" => m.start
    BY <1>6, <1>7, <2>2, <2>3, <2>4
  <2> QED BY <1>9, <1>10, <2>6, <2>7 DEF IsSeg
<1>11. CASE IsReply(m)
  <2>1. m.t = "XferAck" => m.tid = a.last_tid /\ a.snd.st # "Idle"
    BY <1>3, <1>4 DEF Replies
  <2>2. m.t = "XferRefuse" => (m.tid = a.last_tid /\ a.snd.st # "Idle") \/ Excused(p)
    BY <1>3, <1>4 DEF Replies
  <2> QED BY <1>8, <1>9, <1>11, <2>1, <2>2 DEF IsReply
<1> QED BY <1>5, <1>9, <1>10, <1>11 DEF IsSeg, IsReply

\* Two nodes that run this code find each other violating the protocol only
\* after a malformed bundle was acknowledged and then refused.
THEOREM ProtocolIsRespected == Spec => []ProtocolRespected
<1>0. ProtocolRespected <=> \A p \in faulty : Excused(p)
  BY DEF ProtocolRespected, Excused
<1>1. Init => ProtocolRespected
  BY DEF Init, ProtocolRespected
<1>2. Inv /\ ProtocolRespected /\ [Next]_vars => ProtocolRespected'
  <2> SUFFICES ASSUME Inv, ProtocolRespected, [Next]_vars PROVE \A p \in faulty' : Excused(p)'
    BY DEF ProtocolRespected, Excused
  <2>1. \A p \in Nodes : Excused(p) => Excused(p)'
    BY Histories, GrowsKeeps, OtherNode
  <2>2. \A p \in faulty' : p \in Nodes /\ Excused(p)
    <3>1. faulty \subseteq Nodes /\ \A p \in faulty : Excused(p)
      BY <1>0 DEF Inv, Types
    <3>2. \A q \in Nodes : ProtocolError(q) => faulty' = faulty \cup {q} /\ Excused(q)
      BY OnlyExcused DEF ProtocolError
    <3> QED BY <3>1, <3>2, Histories
  <2> QED BY <2>1, <2>2
<1> QED BY <1>1, <1>2, InvHolds, PTL DEF Spec

\* A step reports success of a transfer only by ReceiveAck and ReceiveRefuse,
\* and of the one the session has under way.
LEMMA NewSuccess ==
    ASSUME Inv, [Next]_vars, NEW t \in Transfers, task'[t] = "Successful"
    PROVE  \/ task[t] = "Successful"
           \/ \E p \in Nodes : (ReceiveAck(p) \/ ReceiveRefuse(p)) /\ task'[t] # task[t]
<1>0. task \in [Transfers -> {"absent", "idle", "dialing", "found", "queued"} \cup Answers]
  BY DEF Inv, Types
<1>1. CASE UNCHANGED task
  BY <1>1
<1>2. ASSUME NEW p \in Nodes, End(p)
      PROVE  task[t] = "Successful"
  BY <1>2 DEF End
<1>3. CASE Cut \/ \E p \in Nodes, b \in Bundles : Store(p, b)
  BY <1>1, <1>3 DEF Cut, Store
<1>4. ASSUME NEW p \in Nodes, SessionStep(p) \/ Timeout(p)
      PROVE  \/ task[t] = "Successful"
             \/ (ReceiveAck(p) \/ ReceiveRefuse(p)) /\ task'[t] # task[t]
  <2>1. CASE \/ ExchangeContactHeader(p) \/ NegotiateSession(p) \/ Send(p)
             \/ RefuseExisting(p) \/ RefuseOversized(p) \/ AcceptSegment(p) \/ DiscardSegment(p)
             \/ ReceiveGo(p) \/ ReceiveKeepAlive(p) \/ ReceiveSessTerm(p) \/ IdleTimeout(p)
    <3>1. UNCHANGED task
      BY <2>1 DEF ExchangeContactHeader, NegotiateSession, Send, RefuseExisting, RefuseOversized,
                  AcceptSegment, DiscardSegment, ReceiveGo, ReceiveKeepAlive, ReceiveSessTerm,
                  IdleTimeout
    <3> QED BY <3>1
  <2>2. CASE SendUnreadable(p) \/ ProtocolError(p) \/ ConnectionLost(p) \/ Terminate(p)
    <3>1. End(p)
      BY <2>2 DEF SendUnreadable, ProtocolError, ConnectionLost, Terminate
    <3> QED BY <1>2, <3>1
  <2>4. CASE SendTooLarge(p)
    BY <1>0, <2>4 DEF SendTooLarge, Answer
  <2>5. CASE ReceiveAck(p) \/ ReceiveRefuse(p)
    BY <2>5
  <2> QED BY <1>4, <2>1, <2>2, <2>4, <2>5 DEF SessionStep, Timeout
<1>5. CASE \E u \in Transfers : TaskStep(u[1], u[2])
  BY <1>0, <1>5 DEF TaskStep, Lookup, Push, Dial, Connected, NotConnected, DialBack, Answer
<1> QED BY <1>1, <1>3, <1>4, <1>5 DEF Next, vars

\* The final acknowledgement of a transfer, and the refusal of one that was
\* asked about, reach the sender only when the peer has the bundle.
LEMMA AckMeansArrived ==
    ASSUME Inv, NEW p \in Nodes, ReceiveAck(p) \/ ReceiveRefuse(p),
           NEW t \in Transfers, task'[t] = "Successful", task'[t] # task[t]
    PROVE  t[1] = p /\ t[2] \in Arrived(p)
<1> DEFINE a == sess[p]   x == a.snd   m == Head(wire[p])   n == a.last_tid
<1>1. /\ a.phase = "up" /\ wire[p] # <<>> /\ m.tid = n /\ x.st # "Idle"
      /\ \/ m.t = "XferAck" /\ x.st = "Sending" /\ m.len >= Size[x.b] /\ Answer(p, x.b, "Successful")
         \/ m.t = "XferRefuse" /\ x.st = "TransferRequest" /\ Answer(p, x.b, "Successful")
  <2>1. task \in [Transfers -> {"absent", "idle", "dialing", "found", "queued"} \cup Answers]
    BY DEF Inv, Types
  <2>2. CASE ReceiveAck(p)
    BY <2>2 DEF ReceiveAck, Next1
  <2>3. CASE ReceiveRefuse(p)
    <3>1. /\ a.phase = "up" /\ wire[p] # <<>> /\ m.tid = n /\ m.t = "XferRefuse" /\ x # Idle
          /\ Answer(p, x.b, IF x.st = "TransferRequest" THEN "Successful" ELSE "Failure")
      BY <2>3 DEF ReceiveRefuse, Next1
    <3>2. x.st = "TransferRequest"
      BY <2>1, <3>1 DEF Answer
    <3> QED BY <3>1, <3>2
  <2> QED BY <2>2, <2>3
<1>2. IsReply(m)
  BY <1>1 DEF IsReply
<1>3. /\ Types /\ m = wire[p][1] /\ 1 \in 1..Len(wire[p])
      /\ x.b \in Bundles /\ <<p, x.b>> \in Transfers
      /\ Replies(wire[p], x, n, Excused(p), known[Other(p)], Arrived(p))
  BY <1>1, <1>2, ReplyFacts
<1>4. t = <<p, x.b>>
  BY <1>1, <1>3 DEF Answer, Types
<1>5. x.b \in known[Other(p)] => x.b \in Arrived(p)
  BY <1>3 DEF Arrived
<1> HIDE DEF a, x, m, n
<1>6. x.st = "Sending" /\ m.t = "XferAck" /\ m.len >= Size[x.b] => Final(x, n, m)
  BY <1>1 DEF Final
<1>7. x.b \in Arrived(p)
  BY <1>1, <1>2, <1>3, <1>5, <1>6 DEF Replies
<1> QED BY <1>4, <1>7

\* What the layer reports as sent has reached the peer, for any sizes, limits
\* and settings of the two nodes, and whatever the order of acknowledgements,
\* refusals, cuts and timeouts: forward() gives up no bundle the peer lacks.
THEOREM SuccessIsArrival == Spec => []SuccessMeansArrived
<1>0. SuccessMeansArrived <=> \A t \in Transfers : task[t] = "Successful" => t[2] \in Arrived(t[1])
  <2>1. \A t \in Transfers : t[2] \in Bundles
    BY TcpclAssumption
  <2> QED BY <2>1 DEF SuccessMeansArrived, Arrived
<1>1. Init => SuccessMeansArrived
  BY DEF Init, SuccessMeansArrived
<1>2. Inv /\ SuccessMeansArrived /\ [Next]_vars => SuccessMeansArrived'
  <2> SUFFICES ASSUME Inv, SuccessMeansArrived, [Next]_vars,
                      NEW t \in Transfers, task'[t] = "Successful"
               PROVE  t[2] \in Arrived(t[1])'
    <3>1. \A t \in Transfers : t[2] \in Bundles
      BY TcpclAssumption
    <3> QED BY <3>1 DEF SuccessMeansArrived, Arrived
  <2>1. t[1] \in Nodes /\ Other(t[1]) \in Nodes
    BY TcpclAssumption, OtherNode
  <2>2. t[2] \in Arrived(t[1])
    <3>1. CASE task[t] = "Successful"
      BY <1>0, <3>1
    <3>2. ASSUME NEW p \in Nodes, ReceiveAck(p) \/ ReceiveRefuse(p), task'[t] # task[t]
          PROVE  t[2] \in Arrived(t[1])
      BY <3>2, AckMeansArrived
    <3> QED BY <3>1, <3>2, NewSuccess
  <2>3. Arrived(t[1]) \subseteq Arrived(t[1])'
    <3>1. Grows(Other(t[1]))
      BY <2>1, Histories
    <3> QED BY <2>1, <3>1, GrowsKeeps
  <2> QED BY <2>2, <2>3
<1> QED BY <1>1, <1>2, InvHolds, PTL DEF Spec
=============================================================================
