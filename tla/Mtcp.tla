-------------------------------- MODULE Mtcp ---------------------------------
(***************************************************************************)
(* The MTCP convergence layer, cla/mtcp.rs: several sender tasks to one    *)
(* peer share the stream in MTCP_CONNECTIONS, look it up, clone it and     *)
(* write their MPDU without holding the lock, and the peer's               *)
(* handle_connection cuts the byte stream into MPDUs again.                *)
(*                                                                         *)
(* A byte is the sender it comes from and its place in that sender's MPDU, *)
(* a stream the sequence of the bytes not yet decoded.  write_all is one   *)
(* or more writes, and those of two clones of one socket may alternate.  A *)
(* frame that is not one sender's MPDU has no terminator at its end or     *)
(* does not decode to a bundle; either way the stream is dropped.          *)
(***************************************************************************)
EXTENDS Naturals, Sequences, FiniteSets

CONSTANTS
    Senders,        \* transfers to the one peer
    Length,         \* length of each sender's encoded bundle
    Cuts,           \* BOUND: numbers of bytes after which the first write may stop
    MaxStreams      \* BOUND: connections made

ASSUME MtcpAssumption ==
    /\ IsFiniteSet(Senders)
    /\ Length \in [Senders -> Nat \ {0}]
    /\ Cuts \subseteq Nat \ {0}
    /\ MaxStreams \in Nat

Streams == 1 .. MaxStreams

VARIABLES
    connected,      \* MTCP_CONNECTIONS: the stream of the peer, 0 if none
    streams,        \* streams made so far
    reading,        \* streams the peer still reads
    buffer,         \* per stream: bytes not yet decoded
    step,           \* where each sender is
    socket,         \* the stream each sender cloned
    written,        \* bytes each sender has written
    outcome,        \* what each transfer returned
    arrived,        \* senders whose bundle the peer received
    mixed,          \* history: streams that two senders wrote to at once
    gone            \* history: streams the peer closed without cause

mtcpVars == <<connected, streams, reading, buffer, step, socket, written, outcome,
              arrived, mixed, gone>>

Byte == Senders \X (Nat \ {0})

MtcpTypeOK ==
    /\ connected \in 0 .. streams /\ streams \in 0 .. MaxStreams
    /\ reading \subseteq 1 .. streams /\ mixed \cup gone \subseteq 1 .. streams
    /\ buffer \in [Streams -> Seq(Byte)]
    /\ step \in [Senders -> {"start", "connecting", "cloning", "writing", "done"}]
    /\ socket \in [Senders -> 0 .. streams]
    /\ written \in [Senders -> Nat]
    /\ outcome \in [Senders -> {"none", "Successful", "Failure", "panic"}]
    /\ arrived \subseteq Senders

MtcpInit ==
    /\ connected = 0 /\ streams = 0
    /\ reading = {} /\ mixed = {} /\ gone = {} /\ arrived = {}
    /\ buffer = [c \in Streams |-> <<>>]
    /\ step = [s \in Senders |-> "start"]
    /\ socket = [s \in Senders |-> 0]
    /\ written = [s \in Senders |-> 0]
    /\ outcome = [s \in Senders |-> "none"]

------------------------------------------------------------------------------
\* The encoding of an MPDU: a CBOR byte string.

\* cbor_hdr_len: the bytes of the header, by the length that it announces.
HdrLen(n) ==
    IF n < 24 THEN 1 ELSE IF n < 2^8 THEN 2 ELSE IF n < 2^16 THEN 3
    ELSE IF n <= 2^31 - 1 THEN 5 ELSE 9

\* The bytes serde_cbor writes for the bundle of s.
MpduSize(s) == HdrLen(Length[s]) + Length[s]

\* The bytes decode waits for, by the header that s wrote.
FrameSize(s) == HdrLen(Length[s]) + Length[s]

Mpdu(s) == [i \in 1 .. MpduSize(s) |-> <<s, i>>]

------------------------------------------------------------------------------
\* mtcp_send_bundles.

Return(s, result) ==
    /\ step' = [step EXCEPT ![s] = "done"]
    /\ outcome' = [outcome EXCEPT ![s] = result]

\* Is there a connection already?
Lookup(s) ==
    /\ step[s] = "start"
    /\ step' = [step EXCEPT ![s] = IF connected = 0 THEN "connecting" ELSE "cloning"]
    /\ UNCHANGED <<connected, streams, reading, buffer, socket, written, outcome, arrived,
                   mixed, gone>>

\* The new stream takes the place of one that another sender put there meanwhile.
Dial(s) ==
    /\ step[s] = "connecting"
    /\ streams < MaxStreams
    /\ streams' = streams + 1
    /\ connected' = streams + 1
    /\ reading' = reading \cup {streams + 1}
    /\ step' = [step EXCEPT ![s] = "cloning"]
    /\ UNCHANGED <<buffer, socket, written, outcome, arrived, mixed, gone>>

DialFails(s) ==
    /\ step[s] = "connecting"
    /\ Return(s, "Failure")
    /\ UNCHANGED <<connected, streams, reading, buffer, socket, written, arrived, mixed, gone>>

\* try_clone.  Another sender may have removed the connection: the unwrap panics,
\* and with the task goes the reply, which transfer() takes for a failure.
Clone(s) ==
    /\ step[s] = "cloning"
    /\ IF connected = 0 THEN Return(s, "panic") /\ UNCHANGED socket
       ELSE /\ step' = [step EXCEPT ![s] = "writing"]
            /\ socket' = [socket EXCEPT ![s] = connected]
            /\ UNCHANGED outcome
    /\ UNCHANGED <<connected, streams, reading, buffer, written, arrived, mixed, gone>>

\* Some other sender is in the middle of its MPDU on the same stream.
Amid(s) ==
    \E t \in Senders \ {s} :
        socket[t] = socket[s] /\ step[t] = "writing" /\ written[t] > 0

\* One write of write_all, of n bytes.  A stream that the peer closed swallows bytes
\* until the error is noticed.
Write(s, n) ==
    /\ step[s] = "writing"
    /\ written[s] + n <= MpduSize(s)
    /\ written' = [written EXCEPT ![s] = @ + n]
    /\ buffer' = IF socket[s] \in reading
                 THEN [buffer EXCEPT ![socket[s]] =
                         @ \o SubSeq(Mpdu(s), written[s] + 1, written[s] + n)]
                 ELSE buffer
    /\ mixed' = IF Amid(s) THEN mixed \cup {socket[s]} ELSE mixed
    /\ IF written'[s] = MpduSize(s) THEN Return(s, "Successful")
       ELSE UNCHANGED <<step, outcome>>
    /\ UNCHANGED <<connected, streams, reading, socket, arrived, gone>>

\* The peer has closed: the entry of the map is removed, whichever stream it is.
WriteFails(s) ==
    /\ step[s] = "writing"
    /\ socket[s] \notin reading
    /\ connected' = 0
    /\ Return(s, "Failure")
    /\ UNCHANGED <<streams, reading, buffer, socket, written, arrived, mixed, gone>>

------------------------------------------------------------------------------
\* The peer: handle_connection and MPDUCodec::decode.

\* MISTAKE: the terminator is left in the buffer.
FrameEndEarly(n) == n - 1

\* What decode takes from the buffer.
FrameEnd(n) == n

Decode(c) ==
    LET buf == buffer[c]
        s   == Head(buf)[1]
        n   == FrameSize(s)
    IN  /\ c \in reading
        /\ Len(buf) >= 10 /\ Len(buf) >= n
        /\ IF SubSeq(buf, 1, n) = Mpdu(s)
           THEN /\ buffer' = [buffer EXCEPT ![c] = SubSeq(buf, FrameEnd(n) + 1, Len(buf))]
                /\ arrived' = arrived \cup {s}
                /\ UNCHANGED reading
           ELSE /\ buffer' = [buffer EXCEPT ![c] = <<>>]
                /\ reading' = reading \ {c}
                /\ UNCHANGED arrived
        /\ UNCHANGED <<connected, streams, step, socket, written, outcome, mixed, gone>>

\* The peer goes away with what it has not read.
PeerCloses(c) ==
    /\ c \in reading
    /\ reading' = reading \ {c}
    /\ buffer' = [buffer EXCEPT ![c] = <<>>]
    /\ gone' = gone \cup {c}
    /\ UNCHANGED <<connected, streams, step, socket, written, outcome, arrived, mixed>>

MtcpNext ==
    \/ \E s \in Senders :
          \/ Lookup(s) \/ Dial(s) \/ DialFails(s) \/ Clone(s) \/ WriteFails(s)
          \/ \E n \in {MpduSize(s) - written[s]} \cup IF written[s] = 0 THEN Cuts ELSE {} :
                Write(s, n)
    \/ \E c \in Streams : Decode(c) \/ PeerCloses(c)

MtcpSpec == MtcpInit /\ [][MtcpNext]_mtcpVars

------------------------------------------------------------------------------
\* Properties.

HoldsMpdu(buf, s) ==
    \E i \in 0 .. Len(buf) : \A k \in 1 .. MpduSize(s) : i + k <= Len(buf) /\ buf[i + k] = <<s, k>>

\* What a transfer returned is true, whoever else connects, fails or removes the
\* shared connection meanwhile.  One that failed, or whose task panicked, has not
\* delivered its bundle, so that a retry is no duplicate.  One that was successful, on
\* a stream that no two senders wrote to at once and that the peer did not close
\* without cause, has arrived or is whole in the stream: the decoder never loses
\* the boundaries of the MPDUs.
OutcomesTrue ==
    \A s \in Senders :
        /\ outcome[s] \in {"Failure", "panic"} => s \notin arrived
        /\ outcome[s] = "Successful" /\ socket[s] \notin mixed \cup gone
             => s \in arrived \/ HoldsMpdu(buffer[socket[s]], s)
==============================================================================
