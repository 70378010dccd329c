----------------------------- MODULE LayerProofs -----------------------------
(***************************************************************************)
(* Proofs about the convergence layers Ecla and Mtcp, for any number of    *)
(* connections, names, submissions and Register packets, and for any       *)
(* senders and bundle lengths: the layers of external modules are the      *)
(* active modules, and what a sender of MTCP reports is what became of its *)
(* bundle.                                                                 *)
(***************************************************************************)
EXTENDS Ecla, Mtcp, Integers, SequenceTheorems, TLAPS

------------------------------------------------------------------------------
(***************************************************************************)
(* External convergence layers.                                            *)
(*                                                                         *)
(* The node knows a layer exactly while a module acts as it.  The          *)
(* invariant adds that the module of a connection is unique, and at which  *)
(* of its steps a connection may have one.                                 *)
(***************************************************************************)

------------------------------------------------------------------------------
\* The inductive invariant.

LayerTypes ==
    /\ link \in [Links -> LinkStep]
    /\ module \in [Links -> [state : {"none", "waiting", "active"}, name : LayerNames \cup {NoName}]]
    /\ packet \in [Links -> LayerNames \cup {NoName}]
    /\ layers \in [LayerNames -> 0 .. 1]

\* A connection without reader has no module; a registration is the first one.
ReaderInv ==
    \A c \in Links :
        /\ link[c] = "off" => module[c].state = "none"
        /\ link[c] = "register" => module[c].state = "waiting"

\* The module of c acts as layer n.
Acts(c, n) == module[c].state = "active" /\ module[c].name = n /\ link[c] # "forget"

LayersInv ==
    \A n \in LayerNames :
        /\ \A c, d \in Links : Acts(c, n) /\ Acts(d, n) => c = d
        /\ layers[n] > 0 <=> \E c \in Links : Acts(c, n)

LayerInv == LayerTypes /\ ReaderInv /\ LayersInv

LEMMA LayerInit == EclaInit => LayerInv
<1> SUFFICES ASSUME EclaInit PROVE LayerInv
  OBVIOUS
<1>1. LayerTypes
  <2>1. NoModule \in [state : {"none", "waiting", "active"}, name : LayerNames \cup {NoName}]
    BY DEF NoModule
  <2>2. link \in [Links -> LinkStep]
    BY DEF EclaInit, LinkStep
  <2>3. module \in [Links -> [state : {"none", "waiting", "active"}, name : LayerNames \cup {NoName}]]
    BY <2>1 DEF EclaInit
  <2>4. packet \in [Links -> LayerNames \cup {NoName}] /\ layers \in [LayerNames -> 0 .. 1]
    BY DEF EclaInit
  <2> QED
    BY <2>2, <2>3, <2>4 DEF LayerTypes
<1>2. \A c \in Links : module[c].state = "none" /\ link[c] = "off"
  BY DEF EclaInit, NoModule
<1>3. \A n \in LayerNames : layers[n] = 0
  BY DEF EclaInit
<1>4. ReaderInv /\ LayersInv
  BY <1>2, <1>3 DEF ReaderInv, LayersInv, Acts
<1> QED
  BY <1>1, <1>4 DEF LayerInv

\* Steps after which the same modules act under the same names.
LEMMA QuietKeeps ==
    ASSUME LayersInv, layers' = layers,
           \A c \in Links, n \in LayerNames : Acts(c, n)' <=> Acts(c, n)
    PROVE  LayersInv'
BY DEF LayersInv

LEMMA ConnectKeeps == ASSUME LayerInv, NEW c \in Links, Connect(c) PROVE LayerInv'
<1> USE DEF LayerInv
<1>1. /\ link[c] = "off" /\ module' = [module EXCEPT ![c] = [state |-> "waiting", name |-> NoName]]
      /\ link' = [link EXCEPT ![c] = "open"] /\ packet' = packet /\ layers' = layers
  BY DEF Connect, LinkAt
<1>2. LayerTypes' /\ ReaderInv'
  BY <1>1 DEF LayerTypes, ReaderInv, LinkStep
<1>3. \A d \in Links, n \in LayerNames : Acts(d, n)' <=> Acts(d, n)
  BY <1>1 DEF LayerTypes, ReaderInv, Acts
<1> QED
  BY <1>1, <1>2, <1>3, QuietKeeps

\* Steps of a reader between open and the answer to a packet.
LEMMA ReaderKeeps ==
    ASSUME LayerInv, NEW c \in Links,
           CheckConnector(c) \/ BadBeacon(c) \/ Reject(c) \/ RejectAgain(c)
             \/ \E n \in LayerNames \cup {NoName} : PacketArrives(c, n)
    PROVE  LayerInv'
<1> USE DEF LayerInv
<1>1. /\ layers' = layers /\ module' = module
      /\ packet' \in [Links -> LayerNames \cup {NoName}]
      /\ link[c] \in {"open", "check", "register"}
      /\ \E s \in {"check", "register", "open", "dead"} :
            /\ link' = [link EXCEPT ![c] = s]
            /\ s = "register" => module[c].state = "waiting"
  BY DEF CheckConnector, BadBeacon, Reject, RejectAgain, PacketArrives, LinkAt, Answered, LayerTypes
<1>2. PICK s \in {"check", "register", "open", "dead"} :
            /\ link' = [link EXCEPT ![c] = s]
            /\ s = "register" => module[c].state = "waiting"
  BY <1>1
<1>3. LayerTypes' /\ ReaderInv'
  BY <1>1, <1>2 DEF LayerTypes, ReaderInv, LinkStep
<1>4. \A d \in Links, n \in LayerNames : Acts(d, n)' <=> Acts(d, n)
  BY <1>1, <1>2 DEF LayerTypes, Acts
<1> QED
  BY <1>1, <1>3, <1>4, QuietKeeps

\* A registration adds a module under a name that nobody has.
LEMMA RegisterKeeps == ASSUME LayerInv, NEW c \in Links, Register(c) PROVE LayerInv'
<1> USE DEF LayerInv
<1> DEFINE n == packet[c]
<1>1. /\ link[c] = "register" /\ ~Refused(n)
      /\ module' = [module EXCEPT ![c] = [state |-> "active", name |-> n]]
      /\ layers' = [layers EXCEPT ![n] = @ + 1]
      /\ link' = [link EXCEPT ![c] = "open"] /\ packet' = packet
  BY DEF Register, Answered, LinkAt
<1>2. n \in LayerNames /\ layers[n] = 0
  BY <1>1 DEF Refused, LayerTypes
<1>3. LayerTypes'
  BY <1>1, <1>2 DEF LayerTypes, LinkStep
<1>4. ReaderInv'
  BY <1>1, <1>2 DEF LayerTypes, ReaderInv
<1>5. layers'[n] = 1 /\ \A m \in LayerNames : m # n => layers'[m] = layers[m]
  BY <1>1, <1>2 DEF LayerTypes
<1>6. \A d \in Links : ~Acts(d, n)
  BY <1>2 DEF LayersInv
<1>7. module[c].state = "waiting"
  BY <1>1 DEF ReaderInv
<1>8. \A d \in Links, m \in LayerNames : Acts(d, m)' <=> (Acts(d, m) \/ (d = c /\ m = n))
  BY <1>1, <1>2, <1>6, <1>7 DEF LayerTypes, Acts
<1>9. LayersInv'
  <2> SUFFICES ASSUME NEW m \in LayerNames
               PROVE  /\ \A d, e \in Links : Acts(d, m)' /\ Acts(e, m)' => d = e
                      /\ layers'[m] > 0 <=> \E d \in Links : Acts(d, m)'
    BY DEF LayersInv
  <2>1. CASE m = n
    BY <2>1, <1>5, <1>6, <1>8
  <2>2. CASE m # n
    BY <2>2, <1>5, <1>8 DEF LayersInv
  <2> QED
    BY <2>1, <2>2
<1> QED
  BY <1>3, <1>4, <1>9

\* A disconnection removes the layer, and its module ceases to act.
LEMMA DisconnectKeeps == ASSUME LayerInv, NEW c \in Links, Disconnect(c) PROVE LayerInv'
<1> USE DEF LayerInv
<1>1. /\ link[c] = "open" /\ module' = module /\ packet' = packet
      /\ link' = [link EXCEPT ![c] = "forget"]
      /\ layers' = IF module[c].state = "active" THEN [layers EXCEPT ![module[c].name] = 0] ELSE layers
  BY DEF Disconnect, LinkAt
<1>2. LayerTypes'
  <2>1. layers' \in [LayerNames -> 0 .. 1]
    <3>1. CASE module[c].state = "active"
      <4>1. layers' = [layers EXCEPT ![module[c].name] = 0] /\ layers \in [LayerNames -> 0 .. 1]
        BY <1>1, <3>1 DEF LayerTypes
      <4>2. \A v \in LayerNames : layers'[v] \in 0 .. 1
        BY <4>1
      <4> QED
        BY <4>1, <4>2
    <3>2. CASE module[c].state # "active"
      BY <1>1, <3>2 DEF LayerTypes
    <3> QED
      BY <3>1, <3>2
  <2>2. link' \in [Links -> LinkStep]
    BY <1>1 DEF LayerTypes, LinkStep
  <2> QED
    BY <1>1, <2>1, <2>2 DEF LayerTypes
<1>3. ReaderInv'
  BY <1>1 DEF LayerTypes, ReaderInv
<1>4. \A d \in Links, m \in LayerNames : Acts(d, m)' <=> (Acts(d, m) /\ d # c)
  BY <1>1 DEF LayerTypes, Acts
<1>5. \A m \in LayerNames : layers'[m] = IF Acts(c, m) THEN 0 ELSE layers[m]
  BY <1>1 DEF LayerTypes, Acts
<1>6. LayersInv'
  <2> SUFFICES ASSUME NEW m \in LayerNames
               PROVE  /\ \A d, e \in Links : Acts(d, m)' /\ Acts(e, m)' => d = e
                      /\ layers'[m] > 0 <=> \E d \in Links : Acts(d, m)'
    BY DEF LayersInv
  <2>1. CASE Acts(c, m)
    BY <2>1, <1>4, <1>5 DEF LayersInv
  <2>2. CASE ~Acts(c, m)
    BY <2>2, <1>4, <1>5 DEF LayersInv
  <2> QED
    BY <2>1, <2>2
<1> QED
  BY <1>2, <1>3, <1>6

LEMMA ForgetKeeps == ASSUME LayerInv, NEW c \in Links, ForgetModule(c) PROVE LayerInv'
<1> USE DEF LayerInv
<1>1. /\ link[c] = "forget" /\ module' = [module EXCEPT ![c] = NoModule]
      /\ link' = [link EXCEPT ![c] = "closed"] /\ packet' = packet /\ layers' = layers
  BY DEF ForgetModule, LinkAt
<1>2. LayerTypes' /\ ReaderInv'
  BY <1>1 DEF LayerTypes, ReaderInv, LinkStep, NoModule
<1>3. \A d \in Links, n \in LayerNames : Acts(d, n)' <=> Acts(d, n)
  BY <1>1 DEF LayerTypes, Acts, NoModule
<1> QED
  BY <1>1, <1>2, <1>3, QuietKeeps

LEMMA LayerNext == LayerInv /\ [EclaNext]_eclaVars => LayerInv'
<1> SUFFICES ASSUME LayerInv, [EclaNext]_eclaVars PROVE LayerInv'
  OBVIOUS
<1>1. ASSUME UNCHANGED <<link, module, packet, layers>> PROVE LayerInv'
  BY <1>1 DEF LayerInv, LayerTypes, ReaderInv, LayersInv, Acts
<1>2. CASE UNCHANGED eclaVars
  BY <1>1, <1>2 DEF eclaVars
<1>3. ASSUME NEW c \in Links, SendBeacon(c) PROVE LayerInv'
  BY <1>1, <1>3 DEF SendBeacon
<1>4. CASE BeginBeacons
  BY <1>1, <1>4 DEF BeginBeacons
<1>5. ASSUME NEW s \in Submissions, Transfer(s) \/ BeginSubmission(s) \/ Submit(s) \/ SubmitPanics(s)
      PROVE  LayerInv'
  BY <1>1, <1>5 DEF Transfer, BeginSubmission, Submit, SubmitPanics
<1> QED
  BY <1>2, <1>3, <1>4, <1>5, ConnectKeeps, ReaderKeeps, RegisterKeeps, DisconnectKeeps, ForgetKeeps
     DEF EclaNext

\* However registrations and disconnections of modules that want the same name
\* interleave, CLAS lists a name if and only if exactly one module acts under it.
THEOREM LayersAreAlwaysModules == EclaSpec => []LayersAreModules
<1>1. EclaSpec => []LayerInv
  BY LayerInit, LayerNext, PTL DEF EclaSpec
<1>2. LayerInv => LayersAreModules
  <2> SUFFICES ASSUME LayerInv, NEW n \in LayerNames
               PROVE  LET active == {c \in Links : module[c] = [state |-> "active", name |-> n]
                                                   /\ link[c] # "forget"}
                      IN /\ \A c, d \in active : c = d
                         /\ (layers[n] > 0) <=> (active # {})
    BY DEF LayersAreModules
  <2>1. \A c \in Links : Acts(c, n) <=> module[c] = [state |-> "active", name |-> n]
                                        /\ link[c] # "forget"
    BY DEF LayerInv, LayerTypes, Acts
  <2> QED
    BY <2>1 DEF LayerInv, LayersInv
<1> QED
  BY <1>1, <1>2, PTL

------------------------------------------------------------------------------
(***************************************************************************)
(* MTCP: streams of bytes.                                                 *)
(***************************************************************************)
LEMMA MpduSizes == ASSUME NEW s \in Senders PROVE MpduSize(s) \in Nat \ {0} /\ FrameSize(s) = MpduSize(s)
<1>1. HdrLen(Length[s]) \in {1, 2, 3, 5, 9}
  BY DEF HdrLen
<1>2. Length[s] \in Nat
  BY MtcpAssumption
<1> QED BY <1>1, <1>2 DEF MpduSize, FrameSize

\* No byte is twice in a stream.
Distinct(buf) == \A i, j \in 1..Len(buf) : buf[i] = buf[j] => i = j

\* Around each byte is all that its sender has written, wr, in one piece.
Bunched(buf, wr) ==
    \A i \in 1..Len(buf) : \A k \in 1..wr[buf[i][1]] :
        /\ i - buf[i][2] + k \in 1..Len(buf)
        /\ buf[i - buf[i][2] + k] = <<buf[i][1], k>>

\* The bytes of a stream were written.
ByWriters(buf, wr) == \A i \in 1..Len(buf) : buf[i][2] <= wr[buf[i][1]]

Piece(s, w, n) == [k \in 1..n |-> <<s, w + k>>]

LEMMA Bytes2 ==
    ASSUME NEW buf \in Seq(Byte)
    PROVE  /\ Len(buf) \in Nat
           /\ \A i \in 1..Len(buf) : /\ buf[i] \in Byte /\ buf[i][1] \in Senders
                                     /\ buf[i][2] \in Nat \ {0} /\ buf[i] = <<buf[i][1], buf[i][2]>>
BY LenProperties, ElementOfSeq DEF Byte

\* write_all goes on: what s wrote stays in one piece if its last byte is the
\* last of the stream.
LEMMA PieceAppended ==
    ASSUME NEW buf \in Seq(Byte), NEW s \in Senders, NEW wr \in [Senders -> Nat], NEW n \in Nat \ {0},
           Distinct(buf), ByWriters(buf, wr)
    PROVE  LET new == buf \o Piece(s, wr[s], n)
               wr2 == [wr EXCEPT ![s] = @ + n]
           IN  /\ new \in Seq(Byte) /\ Len(new) = Len(buf) + n
               /\ \A i \in 1..Len(buf) : new[i] = buf[i]
               /\ \A i \in 1..Len(new) : i > Len(buf) => new[i] = <<s, wr[s] + i - Len(buf)>>
               /\ Distinct(new) /\ ByWriters(new, wr2)
               /\ Bunched(buf, wr) /\ (wr[s] > 0 => buf # <<>> /\ buf[Len(buf)] = <<s, wr[s]>>) =>
                     Bunched(new, wr2)
<1> DEFINE w == wr[s]   p == Piece(s, w, n)   new == buf \o p   wr2 == [wr EXCEPT ![s] = w + n]   l == Len(buf)
<1>1. w \in Nat
  OBVIOUS
<1>2. /\ p \in Seq(Byte) /\ Len(p) = n /\ \A k \in 1..n : p[k] = <<s, w + k>>
  <2>1. p \in [1..n -> Byte]
    BY <1>1 DEF Piece, Byte
  <2>2. p \in Seq(Byte)
    BY <2>1, IsASeq
  <2> QED BY <2>1, <2>2, LenProperties DEF Piece
<1>3. /\ l \in Nat /\ new \in Seq(Byte) /\ Len(new) = l + n
      /\ \A i \in 1..l : new[i] = buf[i]
      /\ \A i \in 1..Len(new) : i > l => i - l \in 1..n /\ new[i] = p[i - l]
  <2>1. l \in Nat
    BY LenProperties
  <2>2. new \in Seq(Byte) /\ Len(new) = l + n
    BY <1>2, <2>1, ConcatProperties
  <2>3. \A i \in 1..(l + n) : new[i] = IF i <= l THEN buf[i] ELSE p[i - l]
    BY <1>2, <2>1, ConcatProperties
  <2> HIDE DEF new, l, p
  <2> QED BY <2>1, <2>2, <2>3
<1>4. \A i \in 1..Len(new) : i > l => i - l \in 1..n /\ new[i] = <<s, w + (i - l)>>
  BY <1>2, <1>3
<1>5. \A i \in 1..l : buf[i][1] = s => buf[i][2] <= w
  BY DEF ByWriters
<1>6. \A i \in 1..l : /\ buf[i][1] \in Senders /\ buf[i][2] \in Nat \ {0} /\ buf[i] = <<buf[i][1], buf[i][2]>>
  BY Bytes2
<1>7. \A t \in Senders : wr2[t] \in Nat /\ (t # s => wr2[t] = wr[t]) /\ wr[t] \in Nat
  BY <1>1
<1>8. wr2[s] = w + n
  OBVIOUS
<1> HIDE DEF w, p, new, wr2, l
<1>9. Distinct(new)
  <2> SUFFICES ASSUME NEW i \in 1..Len(new), NEW j \in 1..Len(new), new[i] = new[j] PROVE i = j
    BY DEF Distinct
  <2>1. CASE i <= l /\ j <= l
    BY <1>3, <2>1 DEF Distinct, l
  <2>2. CASE i > l /\ j > l
    BY <1>1, <1>3, <1>4, <2>2
  <2>3. CASE i <= l /\ j > l
    <3>1. new[i] = buf[i] /\ new[j] = <<s, w + (j - l)>> /\ i \in 1..l /\ j - l >= 1
      BY <1>3, <1>4, <2>3
    <3>2. buf[i] = <<s, w + (j - l)>>
      BY <3>1
    <3>3. buf[i][1] = s /\ buf[i][2] = w + (j - l)
      BY <3>2
    <3> QED BY <1>1, <1>3, <1>5, <3>1, <3>3
  <2>4. CASE i > l /\ j <= l
    <3>1. new[j] = buf[j] /\ new[i] = <<s, w + (i - l)>> /\ j \in 1..l /\ i - l >= 1
      BY <1>3, <1>4, <2>4
    <3>2. buf[j][1] = s /\ buf[j][2] = w + (i - l)
      BY <3>1
    <3> QED BY <1>1, <1>3, <1>5, <3>1, <3>2
  <2> QED BY <1>3, <2>1, <2>2, <2>3, <2>4
<1>10. ByWriters(new, wr2)
  <2> SUFFICES ASSUME NEW i \in 1..Len(new) PROVE new[i][2] <= wr2[new[i][1]]
    BY DEF ByWriters
  <2>1. CASE i <= l
    <3>1. i \in 1..l /\ new[i] = buf[i]
      BY <1>3, <2>1
    <3>2. CASE buf[i][1] = s
      BY <1>1, <1>5, <1>6, <1>8, <3>1, <3>2
    <3>3. CASE buf[i][1] # s
      <4>1. buf[i][2] <= wr[buf[i][1]]
        BY <3>1 DEF ByWriters, l
      <4> QED BY <1>6, <1>7, <3>1, <3>3, <4>1
    <3> QED BY <3>2, <3>3
  <2>2. CASE i > l
    <3>1. new[i] = <<s, w + (i - l)>> /\ i - l <= n
      BY <1>3, <1>4, <2>2
    <3> QED BY <1>1, <1>3, <1>8, <3>1
  <2> QED BY <1>3, <2>1, <2>2
<1>11. ASSUME Bunched(buf, wr), w > 0 => buf # <<>> /\ buf[l] = <<s, w>> PROVE Bunched(new, wr2)
  <2>0. w > 0 => l \in 1..l
    BY <1>11, EmptySeq, LenProperties DEF l
  <2>1. \A k \in 1..(w + n) : l - w + k \in 1..Len(new) /\ new[l - w + k] = <<s, k>>
    <3> TAKE k \in 1..(w + n)
    <3>1. CASE k <= w
      <4>1. l \in 1..l /\ buf[l] = <<s, w>> /\ k \in 1..w
        BY <1>1, <1>11, <2>0, <3>1
      <4>2. buf[l][1] = s /\ buf[l][2] = w /\ wr[s] = w
        BY <4>1 DEF w
      <4>3. l - w + k \in 1..l /\ buf[l - w + k] = <<s, k>>
        BY <1>11, <4>1, <4>2 DEF Bunched, l
      <4> QED BY <1>3, <4>3
    <3>2. CASE k > w
      <4>1. l - w + k \in 1..Len(new) /\ l - w + k > l /\ (l - w + k) - l = k - w /\ w + (k - w) = k
        BY <1>1, <1>3, <3>2
      <4> QED BY <1>4, <4>1
    <3> QED BY <1>1, <3>1, <3>2
  <2> SUFFICES ASSUME NEW i \in 1..Len(new), NEW k \in 1..wr2[new[i][1]]
               PROVE  /\ i - new[i][2] + k \in 1..Len(new)
                      /\ new[i - new[i][2] + k] = <<new[i][1], k>>
    BY DEF Bunched
  <2>2. CASE i > l
    <3>1. new[i][1] = s /\ new[i][2] = w + (i - l)
      BY <1>4, <2>2
    <3>2. i - new[i][2] + k = l - w + k
      BY <1>1, <1>3, <3>1
    <3> QED BY <1>8, <2>1, <3>1, <3>2
  <2>3. CASE i <= l /\ new[i][1] # s
    <3>1. i \in 1..l /\ new[i] = buf[i]
      BY <1>3, <2>3
    <3>2. k \in 1..wr[buf[i][1]]
      BY <1>6, <1>7, <2>3, <3>1
    <3>3. i - buf[i][2] + k \in 1..l /\ buf[i - buf[i][2] + k] = <<buf[i][1], k>>
      BY <1>11, <3>1, <3>2 DEF Bunched, l
    <3> QED BY <1>3, <3>1, <3>3, SMTT(30)
  <2>4. CASE i <= l /\ new[i][1] = s
    <3>1. i \in 1..l /\ new[i] = buf[i] /\ buf[i][1] = s
      BY <1>3, <2>4
    <3>2. buf[i][2] \in Nat \ {0} /\ buf[i][2] <= w
      BY <1>5, <1>6, <3>1
    <3>3. w > 0 /\ w \in 1..w
      BY <1>1, <3>2
    <3>4. i - buf[i][2] + w \in 1..l /\ buf[i - buf[i][2] + w] = <<s, w>>
      BY <1>11, <3>1, <3>3 DEF Bunched, l, w
    <3>5. buf[l] = <<s, w>> /\ l \in 1..l
      BY <1>11, <2>0, <3>3
    <3>6. i - buf[i][2] + w = l
      BY <3>4, <3>5 DEF Distinct, l
    <3>7. i - new[i][2] + k = l - w + k
      <4> DEFINE o == buf[i][2]
      <4>1. o \in Nat /\ i - o + w = l /\ new[i][2] = o /\ k \in Int
        BY <3>1, <3>2, <3>6
      <4> HIDE DEF o
      <4> QED BY <1>1, <1>3, <4>1
    <3> QED BY <1>8, <2>1, <3>1, <3>7
  <2> QED BY <1>3, <2>2, <2>3, <2>4
<1>12. \A i \in 1..Len(new) : i > l => new[i] = <<s, w + i - l>>
  BY <1>1, <1>3, <1>4
<1> QED BY <1>3, <1>9, <1>10, <1>11, <1>12 DEF new, l, w, p, wr2

\* An MPDU at the head of the stream is taken.
LEMMA FrameTaken ==
    ASSUME NEW buf \in Seq(Byte), NEW s \in Senders, NEW wr \in [Senders -> Nat], NEW n \in Nat,
           Distinct(buf), ByWriters(buf, wr), n <= Len(buf), wr[s] = n,
           \A k \in 1..n : buf[k] = <<s, k>>
    PROVE  LET rest == SubSeq(buf, n + 1, Len(buf))
           IN  /\ rest \in Seq(Byte) /\ Len(rest) = Len(buf) - n
               /\ \A i \in 1..Len(rest) : rest[i] = buf[i + n] /\ rest[i][1] # s
               /\ Distinct(rest) /\ ByWriters(rest, wr)
               /\ Bunched(buf, wr) => Bunched(rest, wr)
<1> DEFINE rest == SubSeq(buf, n + 1, Len(buf))   l == Len(buf)
<1>1. l \in Nat
  BY LenProperties
<1>2. rest \in Seq(Byte) /\ Len(rest) = l - n /\ \A i \in 1..(l - n) : rest[i] = buf[i + n]
  <2>1. \A i \in (n + 1)..l : buf[i] \in Byte
    BY <1>1, ElementOfSeq
  <2>2. rest \in Seq(Byte) /\ Len(rest) = IF n + 1 <= l THEN l - (n + 1) + 1 ELSE 0
    BY <1>1, <2>1, SubSeqProperties
  <2>3. Len(rest) = l - n
    BY <1>1, <2>2
  <2>4. \A i \in 1..Len(rest) : rest[i] = buf[n + 1 + i - 1]
    BY <1>1, <2>2, <2>3, SubSeqProperties
  <2> HIDE DEF rest, l
  <2>5. \A i \in 1..(l - n) : n + 1 + i - 1 = i + n
    BY <1>1
  <2> QED BY <2>2, <2>3, <2>4, <2>5
<1>3. \A i \in 1..l : buf[i][1] \in Senders /\ buf[i][2] \in Nat \ {0} /\ buf[i] = <<buf[i][1], buf[i][2]>>
  BY Bytes2
<1> HIDE DEF rest, l
<1>4. \A i \in 1..(l - n) : i + n \in 1..l
  BY <1>1
<1>5. \A i \in 1..(l - n) : buf[i + n][1] # s
  <2> SUFFICES ASSUME NEW i \in 1..(l - n), buf[i + n][1] = s PROVE FALSE
    OBVIOUS
  <2>1. buf[i + n][2] \in 1..n
    BY <1>3, <1>4 DEF ByWriters, l
  <2>2. buf[i + n] = buf[buf[i + n][2]] /\ buf[i + n][2] \in 1..l
    <3> DEFINE k == buf[i + n][2]
    <3>1. buf[i + n] = <<s, k>> /\ k \in 1..n
      BY <1>3, <1>4, <2>1
    <3> HIDE DEF k
    <3>2. buf[k] = <<s, k>> /\ k \in 1..l
      BY <1>1, <3>1 DEF l
    <3> QED BY <3>1, <3>2 DEF k
  <2>3. i + n = buf[i + n][2]
    BY <1>4, <2>2 DEF Distinct, l
  <2> QED BY <1>1, <2>1, <2>3
<1>6. Distinct(rest)
  <2> SUFFICES ASSUME NEW i \in 1..(l - n), NEW j \in 1..(l - n), rest[i] = rest[j] PROVE i = j
    BY <1>2 DEF Distinct
  <2>1. i + n = j + n
    BY <1>2, <1>4 DEF Distinct, l
  <2> QED BY <1>1, <2>1
<1>7. ByWriters(rest, wr)
  BY <1>2, <1>4 DEF ByWriters, l
<1>8. ASSUME Bunched(buf, wr) PROVE Bunched(rest, wr)
  <2> SUFFICES ASSUME NEW i \in 1..(l - n), NEW k \in 1..wr[rest[i][1]]
               PROVE  /\ i - rest[i][2] + k \in 1..(l - n)
                      /\ rest[i - rest[i][2] + k] = <<rest[i][1], k>>
    BY <1>2 DEF Bunched
  <2> DEFINE b == buf[i + n]   x == i - b[2] + k
  <2>1. rest[i] = b /\ b[1] # s /\ b[1] \in Senders /\ b[2] \in Nat \ {0} /\ k \in Nat /\ i + n \in 1..l
    BY <1>2, <1>3, <1>4, <1>5
  <2>2. (i + n) - b[2] + k \in 1..l /\ buf[(i + n) - b[2] + k] = <<b[1], k>>
    BY <1>8, <2>1 DEF Bunched, l
  <2>3. (i + n) - b[2] + k = x + n /\ x \in Int
    BY <2>1, SMTT(30)
  <2>4. x + n > n
    <3> SUFFICES ASSUME x + n \in 1..n PROVE FALSE
      BY <1>1, <2>2, <2>3
    <3> HIDE DEF x, b
    <3>1. buf[x + n] = <<s, x + n>>
      OBVIOUS
    <3>2. <<b[1], k>> = <<s, x + n>>
      BY <2>2, <2>3, <3>1
    <3> QED BY <2>1, <3>2
  <2> HIDE DEF x
  <2>5. x \in 1..(l - n)
    BY <1>1, <2>2, <2>3, <2>4
  <2>6. rest[x] = <<b[1], k>>
    BY <1>2, <2>2, <2>3, <2>5
  <2> QED BY <2>1, <2>5, <2>6 DEF x
<1> QED BY <1>2, <1>4, <1>5, <1>6, <1>7, <1>8, ZenonT(30) DEF rest, l

\* A stream in which the pieces lie one after the other begins with a whole
\* MPDU as soon as it is as long.
LEMMA FrameWhole ==
    ASSUME NEW buf \in Seq(Byte), NEW wr \in [Senders -> Nat], NEW n \in Nat,
           Distinct(buf), ByWriters(buf, wr), Bunched(buf, wr), 1 <= Len(buf), n <= Len(buf),
           wr[buf[1][1]] < n => buf[Len(buf)] = <<buf[1][1], wr[buf[1][1]]>>
    PROVE  \A k \in 1..n : k <= wr[buf[1][1]] /\ buf[k] = <<buf[1][1], k>>
<1> DEFINE s == buf[1][1]   w == wr[s]   l == Len(buf)
<1>1. l \in Nat /\ 1 \in 1..l /\ l \in 1..l /\ s \in Senders /\ buf[1][2] \in Nat \ {0} /\ w \in Nat
  <2>1. l \in Nat
    BY LenProperties
  <2> QED BY <2>1, Bytes2
<1>2. buf[1][2] = 1 /\ w >= 1
  <2>1. buf[1][2] <= w
    BY <1>1 DEF ByWriters
  <2>2. 1 \in 1..w
    BY <1>1, <2>1
  <2>3. 1 - buf[1][2] + 1 \in 1..l
    BY <1>1, <2>2 DEF Bunched
  <2> HIDE DEF s, w, l
  <2> QED BY <1>1, <2>1, <2>3
<1>3. \A k \in 1..w : k \in 1..l /\ buf[k] = <<s, k>>
  <2> TAKE k \in 1..w
  <2>1. 1 - buf[1][2] + k \in 1..l /\ buf[1 - buf[1][2] + k] = <<s, k>>
    BY <1>1 DEF Bunched
  <2>2. 1 - buf[1][2] + k = k
    BY <1>1, <1>2
  <2> QED BY <2>1, <2>2
<1>4. ~(w < n)
  <2> SUFFICES ASSUME w < n PROVE FALSE
    OBVIOUS
  <2>1. buf[l] = buf[w] /\ w \in 1..l
    <3>1. w \in 1..w
      BY <1>1, <1>2
    <3>2. buf[l] = <<s, w>>
      OBVIOUS
    <3> HIDE DEF s, w, l
    <3> QED BY <1>3, <3>1, <3>2
  <2>2. l = w
    BY <1>1, <2>1 DEF Distinct
  <2> QED BY <1>1, <2>2
<1> HIDE DEF s, w, l
<1>5. \A k \in 1..n : k \in 1..w
  BY <1>1, <1>4
<1>6. \A k \in 1..n : k <= w /\ buf[k] = <<s, k>>
  BY <1>1, <1>3, <1>5
<1> QED BY <1>6 DEF s, w

------------------------------------------------------------------------------
(***************************************************************************)
(* MTCP: the inductive invariant.                                          *)
(***************************************************************************)
\* How far a sender is, and what it returns, follow from what it has written.
Advanced(s) ==
    /\ written[s] <= MpduSize(s)
    /\ written[s] > 0 => socket[s] # 0
    /\ step[s] \in {"start", "connecting", "cloning"} => written[s] = 0
    /\ step[s] = "writing" => socket[s] # 0 /\ written[s] < MpduSize(s)
    /\ step[s] = "done" <=> outcome[s] # "none"
    /\ outcome[s] = "Successful" => written[s] = MpduSize(s)
    /\ outcome[s] \in {"Failure", "panic"} => written[s] < MpduSize(s)
    /\ s \in arrived => written[s] = MpduSize(s)

\* The bytes in stream c.
Owned(c) ==
    /\ Distinct(buffer[c]) /\ ByWriters(buffer[c], written)
    /\ \A i \in 1..Len(buffer[c]) : socket[buffer[c][i][1]] = c

\* What sender s wrote to stream c is there in one piece, or has arrived; if it
\* is not all, it is at the end, and s goes on.
Placed(s, c) ==
    /\ s \in arrived \/ \E i \in 1..Len(buffer[c]) : buffer[c][i] = <<s, 1>>
    /\ written[s] < MpduSize(s) =>
         step[s] = "writing" /\ buffer[c] # <<>> /\ buffer[c][Len(buffer[c])] = <<s, written[s]>>

\* A stream that no two senders wrote to at once, and the peer did not leave.
Sound(c) == c \in 1..streams /\ c \notin mixed \cup gone

Orderly(c) ==
    Sound(c) =>
        /\ c \in reading
        /\ Bunched(buffer[c], written)
        /\ \A s \in Senders : socket[s] = c /\ written[s] > 0 => Placed(s, c)

StreamInv ==
    /\ MtcpTypeOK
    /\ \A s \in Senders : Advanced(s)
    /\ \A c \in Streams : Owned(c) /\ Orderly(c)

LEMMA StreamInit == MtcpInit => StreamInv
<1> SUFFICES ASSUME MtcpInit PROVE StreamInv
  OBVIOUS
<1>1. MtcpTypeOK
  BY MtcpAssumption, EmptySeq DEF MtcpInit, MtcpTypeOK
<1>2. \A s \in Senders : Advanced(s)
  BY MpduSizes DEF MtcpInit, Advanced
<1>3. \A c \in Streams : Owned(c)
  <2>1. \A i \in 1..Len(<<>>) : FALSE
    OBVIOUS
  <2>2. \A c \in Streams : buffer[c] = <<>>
    BY DEF MtcpInit
  <2> QED BY <2>1, <2>2 DEF Owned, Distinct, ByWriters
<1>4. \A c \in Streams : ~Sound(c)
  BY DEF MtcpInit, Sound
<1> QED BY <1>1, <1>2, <1>3, <1>4 DEF StreamInv, Orderly

LEMMA SocketRange ==
    ASSUME StreamInv, NEW s \in Senders, socket[s] # 0
    PROVE  socket[s] \in Streams /\ socket[s] \in 1..streams
BY MtcpAssumption DEF StreamInv, MtcpTypeOK, Streams

\* A step of a sender that writes nothing and uses no other socket.
LEMMA QuietSender ==
    ASSUME StreamInv, UNCHANGED <<buffer, written, arrived, mixed, gone>>,
           NEW s \in Senders, MtcpTypeOK', Advanced(s)',
           \A t \in Senders \ {s} : step'[t] = step[t] /\ outcome'[t] = outcome[t] /\ socket'[t] = socket[t],
           written[s] > 0 => socket'[s] = socket[s],
           written[s] > 0 /\ written[s] < MpduSize(s) => step'[s] = step[s] \/ ~Sound(socket[s]),
           UNCHANGED <<streams, reading>> \/ (streams' = streams + 1 /\ reading' = reading \cup {streams'})
    PROVE  StreamInv'
<1>1. \A t \in Senders : Advanced(t)'
  BY DEF StreamInv, Advanced
<1>2. \A c \in Streams : Owned(c)'
  <2> TAKE c \in Streams
  <2>1. Owned(c) /\ buffer[c] \in Seq(Byte)
    BY DEF StreamInv, MtcpTypeOK
  <2>2. \A i \in 1..Len(buffer[c]) : socket'[buffer[c][i][1]] = socket[buffer[c][i][1]]
    <3> TAKE i \in 1..Len(buffer[c])
    <3>1. buffer[c][i][1] \in Senders /\ buffer[c][i][2] > 0 /\ buffer[c][i][2] \in Nat
      BY <2>1, Bytes2
    <3>2. buffer[c][i][2] <= written[buffer[c][i][1]]
      BY <2>1 DEF Owned, ByWriters
    <3>3. CASE buffer[c][i][1] = s
      <4>1. written[s] > 0
        BY <3>1, <3>2, <3>3 DEF StreamInv, MtcpTypeOK
      <4> QED BY <3>3, <4>1
    <3> QED BY <3>1, <3>3
  <2> QED BY <2>1, <2>2 DEF Owned
<1>3. \A c \in Streams : Orderly(c)'
  <2> SUFFICES ASSUME NEW c \in Streams, Sound(c)'
               PROVE  /\ c \in reading'
                      /\ Bunched(buffer[c], written)
                      /\ \A t \in Senders : socket'[t] = c /\ written[t] > 0 => Placed(t, c)'
    BY DEF Orderly
  <2>1. \A t \in Senders : written[t] \in Nat /\ (written[t] > 0 => socket'[t] = socket[t])
    BY DEF StreamInv, MtcpTypeOK
  <2>2. CASE Sound(c)
    <3>1. /\ c \in reading /\ Bunched(buffer[c], written)
          /\ \A t \in Senders : socket[t] = c /\ written[t] > 0 => Placed(t, c)
      BY <2>2 DEF StreamInv, Orderly
    <3>2. ASSUME NEW t \in Senders, socket'[t] = c, written[t] > 0 PROVE Placed(t, c)'
      <4>1. socket[t] = c /\ Placed(t, c)
        BY <2>1, <3>1, <3>2
      <4>2. written[t] < MpduSize(t) => step'[t] = step[t]
        BY <2>2, <3>2, <4>1
      <4> QED BY <4>1, <4>2 DEF Placed
    <3> QED BY <3>1, <3>2
  <2>3. CASE ~Sound(c)
    <3>1. c = streams + 1 /\ c \in reading' /\ streams \in Nat
      BY <2>3 DEF Sound, StreamInv, MtcpTypeOK
    <3>2. \A t \in Senders : socket[t] # c
      BY <3>1 DEF StreamInv, MtcpTypeOK
    <3>3. \A i \in 1..Len(buffer[c]) : FALSE
      <4>1. buffer[c] \in Seq(Byte) /\ Owned(c)
        BY DEF StreamInv, MtcpTypeOK
      <4> QED BY <3>2, <4>1, Bytes2 DEF Owned
    <3> QED BY <2>1, <3>1, <3>2, <3>3 DEF Bunched
  <2> QED BY <2>2, <2>3
<1> QED BY <1>1, <1>2, <1>3 DEF StreamInv

LEMMA MtcpLookupKeeps == ASSUME StreamInv, NEW s \in Senders, Lookup(s) PROVE StreamInv'
<1>1. MtcpTypeOK'
  BY DEF StreamInv, MtcpTypeOK, Lookup
<1>2. Advanced(s)'
  BY DEF StreamInv, Advanced, Lookup, MtcpTypeOK
<1>3. \A t \in Senders \ {s} : step'[t] = step[t]
  BY DEF StreamInv, MtcpTypeOK, Lookup
<1>4. written[s] = 0
  BY DEF StreamInv, Advanced, Lookup
<1> QED BY <1>1, <1>2, <1>3, <1>4, QuietSender DEF Lookup

LEMMA MtcpDialKeeps == ASSUME StreamInv, NEW s \in Senders, Dial(s) PROVE StreamInv'
<1>1. MtcpTypeOK'
  BY MtcpAssumption DEF StreamInv, MtcpTypeOK, Dial
<1>2. Advanced(s)'
  BY DEF StreamInv, Advanced, Dial, MtcpTypeOK
<1>3. \A t \in Senders \ {s} : step'[t] = step[t]
  BY DEF StreamInv, MtcpTypeOK, Dial
<1>4. written[s] = 0
  BY DEF StreamInv, Advanced, Dial
<1>5. streams' = streams + 1 /\ reading' = reading \cup {streams'}
  BY DEF Dial
<1> QED BY <1>1, <1>2, <1>3, <1>4, <1>5, QuietSender DEF Dial

LEMMA MtcpDialFailsKeeps == ASSUME StreamInv, NEW s \in Senders, DialFails(s) PROVE StreamInv'
<1>1. MtcpTypeOK'
  BY DEF StreamInv, MtcpTypeOK, DialFails, Return
<1>2. Advanced(s)'
  BY MpduSizes DEF StreamInv, Advanced, DialFails, Return, MtcpTypeOK
<1>3. \A t \in Senders \ {s} : step'[t] = step[t] /\ outcome'[t] = outcome[t]
  BY DEF StreamInv, MtcpTypeOK, DialFails, Return
<1>4. written[s] = 0
  BY DEF StreamInv, Advanced, DialFails
<1> QED BY <1>1, <1>2, <1>3, <1>4, QuietSender DEF DialFails

LEMMA MtcpCloneKeeps == ASSUME StreamInv, NEW s \in Senders, Clone(s) PROVE StreamInv'
<1>1. written[s] = 0
  BY DEF StreamInv, Advanced, Clone
<1>2. MpduSize(s) > 0 /\ MpduSize(s) \in Nat
  BY MpduSizes
<1>3. CASE connected = 0
  <2>1. MtcpTypeOK'
    BY <1>3 DEF StreamInv, MtcpTypeOK, Clone, Return
  <2>2. Advanced(s)'
    BY <1>1, <1>2, <1>3 DEF StreamInv, Advanced, Clone, Return, MtcpTypeOK
  <2>3. \A t \in Senders \ {s} : step'[t] = step[t] /\ outcome'[t] = outcome[t]
    BY <1>3 DEF StreamInv, MtcpTypeOK, Clone, Return
  <2> QED BY <1>1, <1>3, <2>1, <2>2, <2>3, QuietSender DEF Clone
<1>4. CASE connected # 0
  <2>1. MtcpTypeOK'
    BY <1>4 DEF StreamInv, MtcpTypeOK, Clone
  <2>2. Advanced(s)'
    BY <1>1, <1>2, <1>4 DEF StreamInv, Advanced, Clone, MtcpTypeOK
  <2>3. \A t \in Senders \ {s} : step'[t] = step[t] /\ socket'[t] = socket[t]
    BY <1>4 DEF StreamInv, MtcpTypeOK, Clone
  <2> QED BY <1>1, <1>4, <2>1, <2>2, <2>3, QuietSender DEF Clone
<1> QED BY <1>3, <1>4

LEMMA MtcpWriteFailsKeeps == ASSUME StreamInv, NEW s \in Senders, WriteFails(s) PROVE StreamInv'
<1>1. MtcpTypeOK'
  BY DEF StreamInv, MtcpTypeOK, WriteFails, Return
<1>2. Advanced(s)'
  BY DEF StreamInv, Advanced, WriteFails, Return, MtcpTypeOK
<1>3. \A t \in Senders \ {s} : step'[t] = step[t] /\ outcome'[t] = outcome[t]
  BY DEF StreamInv, MtcpTypeOK, WriteFails, Return
<1>4. ~Sound(socket[s])
  <2>1. socket[s] \in Streams
    BY SocketRange DEF StreamInv, Advanced, WriteFails
  <2> QED BY <2>1 DEF StreamInv, Orderly, WriteFails
<1> QED BY <1>1, <1>2, <1>3, <1>4, QuietSender DEF WriteFails

\* What is left of the stream when it is read no more.
LEMMA ClosedKeeps ==
    ASSUME StreamInv, NEW c \in Streams, buffer' = [buffer EXCEPT ![c] = <<>>],
           reading' = reading \ {c}, ~Sound(c)', MtcpTypeOK',
           mixed \cup gone \subseteq mixed' \cup gone',
           UNCHANGED <<streams, step, socket, written, outcome, arrived>>
    PROVE  StreamInv'
<1>1. \A s \in Senders : Advanced(s)'
  BY DEF StreamInv, Advanced
<1>2. buffer'[c] = <<>> /\ \A d \in Streams \ {c} : buffer'[d] = buffer[d]
  BY DEF StreamInv, MtcpTypeOK
<1>3. \A d \in Streams : Owned(d)'
  <2>1. \A i \in 1..Len(<<>>) : FALSE
    OBVIOUS
  <2>2. Owned(c)'
    BY <1>2, <2>1 DEF Owned, Distinct, ByWriters
  <2>3. \A d \in Streams \ {c} : Owned(d)'
    BY <1>2 DEF StreamInv, Owned
  <2> QED BY <2>2, <2>3
<1>4. \A d \in Streams : Orderly(d)'
  <2> SUFFICES ASSUME NEW d \in Streams, Sound(d)' PROVE Orderly(d)'
    BY DEF Orderly
  <2>1. d # c /\ Sound(d) /\ d \in Streams \ {c}
    BY DEF Sound
  <2>2. Orderly(d)
    BY DEF StreamInv
  <2>3. buffer'[d] = buffer[d] /\ (d \in reading => d \in reading')
    BY <1>2, <2>1
  <2> QED BY <2>1, <2>2, <2>3 DEF Orderly, Placed
<1> QED BY <1>1, <1>3, <1>4 DEF StreamInv

LEMMA PeerClosesKeeps == ASSUME StreamInv, NEW c \in Streams, PeerCloses(c) PROVE StreamInv'
<1>1. MtcpTypeOK'
  BY EmptySeq DEF StreamInv, MtcpTypeOK, PeerCloses
<1>2. ~Sound(c)' /\ mixed \cup gone \subseteq mixed' \cup gone'
  BY DEF Sound, PeerCloses
<1> QED BY <1>1, <1>2, ClosedKeeps DEF PeerCloses

LEMMA DecodeKeeps == ASSUME StreamInv, NEW c \in Streams, Decode(c) PROVE StreamInv'
<1> DEFINE buf == buffer[c]   s == Head(buf)[1]   n == FrameSize(s)
           rest == SubSeq(buf, n + 1, Len(buf))
<1>1. /\ c \in reading /\ Len(buf) >= 10 /\ Len(buf) >= n
      /\ UNCHANGED <<connected, streams, step, socket, written, outcome, mixed, gone>>
      /\ \/ SubSeq(buf, 1, n) = Mpdu(s) /\ buffer' = [buffer EXCEPT ![c] = rest]
            /\ arrived' = arrived \cup {s} /\ UNCHANGED reading
         \/ SubSeq(buf, 1, n) # Mpdu(s) /\ buffer' = [buffer EXCEPT ![c] = <<>>]
            /\ reading' = reading \ {c} /\ UNCHANGED arrived
  BY DEF Decode, FrameEnd
<1>2. /\ buf \in Seq(Byte) /\ written \in [Senders -> Nat] /\ Owned(c) /\ Orderly(c)
      /\ buffer \in [Streams -> Seq(Byte)]
  BY DEF StreamInv, MtcpTypeOK
<1>3. Len(buf) \in Nat /\ s = buf[1][1] /\ s \in Senders
  BY <1>1, <1>2, Bytes2, LenProperties
<1> HIDE DEF s
<1>4. n = MpduSize(s) /\ n \in Nat \ {0}
  BY <1>3, MpduSizes
<1>5. Distinct(buf) /\ ByWriters(buf, written)
  BY <1>2 DEF Owned
<1> HIDE DEF n
<1>6. SubSeq(buf, 1, n) = Mpdu(s) <=> \A k \in 1..n : buf[k] = <<s, k>>
  <2>1. \A i \in 1..n : buf[i] \in Byte
    BY <1>1, <1>2, <1>3, <1>4, ElementOfSeq
  <2>2. SubSeq(buf, 1, n) = [i \in 1..n |-> buf[i]]
    <3>1. SubSeq(buf, 1, n) = [i \in 1..(1 + n - 1) |-> buf[i + 1 - 1]]
      BY <1>1, <1>2, <1>3, <1>4
    <3>2. 1 + n - 1 = n /\ \A i \in 1..n : i + 1 - 1 = i
      BY <1>4
    <3> QED BY <3>1, <3>2
  <2>3. Mpdu(s) = [i \in 1..n |-> <<s, i>>]
    BY <1>4 DEF Mpdu
  <2> QED BY <2>2, <2>3
<1>7. Sound(c) => SubSeq(buf, 1, n) = Mpdu(s)
  <2> SUFFICES ASSUME Sound(c) PROVE \A k \in 1..n : buf[k] = <<s, k>>
    BY <1>6
  <2>1. Bunched(buf, written) /\ \A t \in Senders : socket[t] = c /\ written[t] > 0 => Placed(t, c)
    BY <1>2 DEF Orderly
  <2>2. 1 <= Len(buf) /\ 1 \in 1..Len(buf)
    BY <1>1, <1>3
  <2>3. socket[s] = c /\ written[s] > 0
    <3>1. buf[1][2] <= written[s] /\ buf[1][2] \in Nat \ {0} /\ written[s] \in Nat
      BY <1>2, <1>3, <1>5, <2>2, Bytes2 DEF ByWriters
    <3> QED BY <1>2, <1>3, <2>2, <3>1 DEF Owned
  <2>4. written[s] < n => buf[Len(buf)] = <<s, written[s]>>
    BY <1>3, <1>4, <2>1, <2>3 DEF Placed
  <2> HIDE DEF buf
  <2>5. written[buf[1][1]] < n => buf[Len(buf)] = <<buf[1][1], written[buf[1][1]]>>
    BY <1>3, <2>4
  <2>6. \A k \in 1..n : k <= written[buf[1][1]] /\ buf[k] = <<buf[1][1], k>>
    BY <1>1, <1>2, <1>4, <1>5, <2>1, <2>2, <2>5, FrameWhole
  <2> QED BY <1>3, <2>6
<1>8. CASE SubSeq(buf, 1, n) # Mpdu(s)
  <2>1. ~Sound(c)'
    BY <1>1, <1>7, <1>8 DEF Sound
  <2>2. buffer' = [buffer EXCEPT ![c] = <<>>] /\ reading' = reading \ {c} /\ UNCHANGED arrived
    BY <1>1, <1>8
  <2>3. MtcpTypeOK'
    BY <1>1, <2>2, EmptySeq DEF StreamInv, MtcpTypeOK
  <2> QED BY <1>1, <2>1, <2>2, <2>3, ClosedKeeps
<1>9. CASE SubSeq(buf, 1, n) = Mpdu(s)
  <2>1. /\ buffer' = [buffer EXCEPT ![c] = rest] /\ arrived' = arrived \cup {s} /\ UNCHANGED reading
    BY <1>1, <1>9
  <2>2. \A k \in 1..n : buf[k] = <<s, k>>
    BY <1>6, <1>9
  <2>3. written[s] = n
    <3>1. n \in 1..Len(buf) /\ buf[n] = <<s, n>>
      BY <1>1, <1>3, <1>4, <2>2
    <3>2. buf[n][2] <= written[buf[n][1]]
      BY <1>5, <3>1 DEF ByWriters
    <3>3. n <= written[s] /\ written[s] <= n /\ written[s] \in Nat
      BY <1>2, <1>3, <1>4, <3>1, <3>2 DEF StreamInv, Advanced
    <3> QED BY <1>4, <3>3
  <2>4. /\ rest \in Seq(Byte) /\ Len(rest) = Len(buf) - n
        /\ \A i \in 1..Len(rest) : rest[i] = buf[i + n] /\ rest[i][1] # s
        /\ Distinct(rest) /\ ByWriters(rest, written)
        /\ Bunched(buf, written) => Bunched(rest, written)
    <3> HIDE DEF buf
    <3> QED BY <1>1, <1>2, <1>3, <1>4, <1>5, <2>2, <2>3, FrameTaken, ZenonT(30)
  <2> HIDE DEF rest
  <2>5. buffer'[c] = rest /\ \A d \in Streams \ {c} : buffer'[d] = buffer[d]
    BY <1>2, <2>1
  <2>6. MtcpTypeOK'
    BY <1>1, <1>3, <2>1, <2>4 DEF StreamInv, MtcpTypeOK
  <2>7. \A t \in Senders : Advanced(t)'
    BY <1>1, <1>4, <2>1, <2>3 DEF StreamInv, Advanced
  <2>8. \A d \in Streams : Owned(d)'
    <3>1. \A d \in Streams \ {c} : Owned(d)'
      BY <1>1, <2>5 DEF StreamInv, Owned
    <3>2. \A i \in 1..Len(rest) : i + n \in 1..Len(buf)
      BY <1>3, <1>4, <2>4
    <3>3. Owned(c)'
      <4>1. \A i \in 1..Len(rest) : socket[rest[i][1]] = c
        BY <1>2, <2>4, <3>2 DEF Owned
      <4>2. Distinct(buffer[c])' /\ ByWriters(buffer[c], written)'
        BY <1>1, <2>4, <2>5 DEF Distinct, ByWriters
      <4> QED BY <1>1, <2>5, <4>1, <4>2 DEF Owned
    <3> QED BY <3>1, <3>3
  <2>9. \A d \in Streams : Orderly(d)'
    <3> SUFFICES ASSUME NEW d \in Streams, Sound(d)' PROVE Orderly(d)'
      BY DEF Orderly
    <3>1. Sound(d) /\ Orderly(d)
      BY <1>1 DEF Sound, StreamInv
    <3>2. CASE d # c
      <4>1. buffer'[d] = buffer[d]
        BY <2>5, <3>2
      <4> QED BY <1>1, <2>1, <3>1, <4>1 DEF Orderly, Placed
    <3>3. CASE d = c
      <4>1. /\ c \in reading /\ Bunched(buf, written)
            /\ \A t \in Senders : socket[t] = c /\ written[t] > 0 => Placed(t, c)
        BY <3>1, <3>3 DEF Orderly
      <4>2. ASSUME NEW t \in Senders, socket[t] = c, written[t] > 0 PROVE Placed(t, c)'
        <5>1. Placed(t, c)
          BY <4>1, <4>2
        <5>2. CASE t = s
          <6>1. t \in arrived' /\ ~(written'[t] < MpduSize(t))
            BY <1>1, <1>4, <2>1, <2>3, <5>2
          <6> QED BY <6>1 DEF Placed
        <5>3. CASE t # s
          <6>1. \A i \in 1..Len(buf) : buf[i][1] = t => i - n \in 1..Len(rest) /\ rest[i - n] = buf[i]
            <7> SUFFICES ASSUME NEW i \in 1..Len(buf), buf[i][1] = t
                         PROVE  i - n \in 1..Len(rest) /\ rest[i - n] = buf[i]
              OBVIOUS
            <7>1. ~(i \in 1..n)
              BY <2>2, <5>3
            <7>2. i - n \in 1..Len(rest) /\ (i - n) + n = i
              BY <1>3, <1>4, <2>4, <7>1
            <7> QED BY <2>4, <7>2
          <6>2. t \in arrived' \/ \E i \in 1..Len(rest) : rest[i] = <<t, 1>>
            <7>1. CASE t \in arrived
              BY <2>1, <7>1
            <7>2. ASSUME NEW i \in 1..Len(buf), buf[i] = <<t, 1>>
                  PROVE  \E j \in 1..Len(rest) : rest[j] = <<t, 1>>
              BY <6>1, <7>2
            <7> QED BY <5>1, <7>1, <7>2 DEF Placed
          <6>3. ASSUME written[t] < MpduSize(t)
                PROVE  step[t] = "writing" /\ rest # <<>> /\ rest[Len(rest)] = <<t, written[t]>>
            <7>1. step[t] = "writing" /\ buf[Len(buf)] = <<t, written[t]>>
              BY <5>1, <6>3 DEF Placed
            <7>2. Len(buf) \in 1..Len(buf)
              BY <1>1, <1>3
            <7>3. Len(buf) - n \in 1..Len(rest) /\ rest[Len(buf) - n] = <<t, written[t]>>
              BY <6>1, <7>1, <7>2
            <7>4. rest # <<>>
              BY <1>3, <1>4, <2>4, <7>3, EmptySeq
            <7> QED BY <2>4, <7>1, <7>3, <7>4
          <6> QED BY <1>1, <2>5, <6>2, <6>3 DEF Placed
        <5> QED BY <5>2, <5>3
      <4> QED BY <1>1, <2>1, <2>4, <2>5, <3>3, <4>1, <4>2 DEF Orderly
    <3> QED BY <3>2, <3>3
  <2> QED BY <2>6, <2>7, <2>8, <2>9 DEF StreamInv
<1> QED BY <1>8, <1>9

\* One write of write_all.
LEMMA WriteKeeps ==
    ASSUME StreamInv, NEW s \in Senders, NEW n \in Nat \ {0}, Write(s, n)
    PROVE  StreamInv'
<1> DEFINE c == socket[s]   buf == buffer[c]   w == written[s]
           piece == Piece(s, w, n)   new == buf \o piece   wr2 == [written EXCEPT ![s] = w + n]
<1>1. /\ step[s] = "writing" /\ w + n <= MpduSize(s) /\ written' = wr2
      /\ buffer' = IF c \in reading
                   THEN [buffer EXCEPT ![c] = buf \o SubSeq(Mpdu(s), w + 1, w + n)] ELSE buffer
      /\ mixed' = IF Amid(s) THEN mixed \cup {c} ELSE mixed
      /\ IF written'[s] = MpduSize(s) THEN Return(s, "Successful") ELSE UNCHANGED <<step, outcome>>
      /\ UNCHANGED <<connected, streams, reading, socket, arrived, gone>>
  BY DEF Write
<1>2. /\ MtcpTypeOK /\ written \in [Senders -> Nat] /\ w \in Nat /\ Advanced(s) /\ c # 0
      /\ buffer \in [Streams -> Seq(Byte)]
  BY <1>1 DEF StreamInv, MtcpTypeOK, Advanced
<1>3. c \in Streams /\ c \in 1..streams /\ buf \in Seq(Byte) /\ Owned(c) /\ Orderly(c)
  BY <1>2, SocketRange DEF StreamInv, MtcpTypeOK
<1>4. MpduSize(s) \in Nat \ {0}
  BY MpduSizes
<1>5. SubSeq(Mpdu(s), w + 1, w + n) = piece
  <2> DEFINE M == Mpdu(s)   m == MpduSize(s)
  <2>1. M \in Seq(Byte) /\ Len(M) = m /\ \A i \in 1..m : M[i] = <<s, i>>
    <3>1. M \in [1..m -> Byte]
      BY <1>4 DEF Mpdu, Byte
    <3>2. M \in Seq(Byte)
      BY <1>4, <3>1, IsASeq
    <3> QED BY <1>4, <3>1, <3>2, LenProperties DEF Mpdu
  <2> HIDE DEF M, w
  <2>2. \A i \in (w + 1)..(w + n) : M[i] \in Byte
    <3>1. \A i \in (w + 1)..(w + n) : i \in 1..m
      BY <1>1, <1>2, <1>4
    <3> QED BY <2>1, <3>1, ElementOfSeq
  <2>3. w + 1 \in Int /\ w + n \in Int /\ w + 1 <= w + n /\ (w + n) - (w + 1) + 1 = n
    BY <1>2
  <2>4. /\ SubSeq(M, w + 1, w + n) \in Seq(Byte) /\ Len(SubSeq(M, w + 1, w + n)) = n
        /\ \A i \in 1..n : SubSeq(M, w + 1, w + n)[i] = M[w + 1 + i - 1]
    <3>1. /\ SubSeq(M, w + 1, w + n) \in Seq(Byte)
          /\ Len(SubSeq(M, w + 1, w + n)) = (w + n) - (w + 1) + 1
      BY <2>1, <2>2, <2>3, SubSeqProperties
    <3>2. \A i \in 1..Len(SubSeq(M, w + 1, w + n)) : SubSeq(M, w + 1, w + n)[i] = M[w + 1 + i - 1]
      BY <2>1, <2>2, <2>3, SubSeqProperties
    <3> QED BY <2>3, <3>1, <3>2
  <2>5. \A i \in 1..n : M[w + 1 + i - 1] = <<s, w + i>>
    <3> TAKE i \in 1..n
    <3>1. w + 1 + i - 1 = w + i /\ w + i \in 1..m
      BY <1>1, <1>2, <1>4
    <3> QED BY <2>1, <3>1
  <2> DEFINE S == SubSeq(M, w + 1, w + n)
  <2> HIDE DEF S
  <2>6. S \in Seq(Byte) /\ Len(S) = n /\ \A i \in 1..n : S[i] = <<s, w + i>>
    BY <2>4, <2>5 DEF S
  <2>7. S = [i \in 1..n |-> <<s, w + i>>]
    BY <2>6, LenProperties
  <2> QED BY <2>7 DEF Piece, S, M
<1>6. Distinct(buf) /\ ByWriters(buf, written)
  BY <1>3 DEF Owned
<1>7. /\ new \in Seq(Byte) /\ Len(new) = Len(buf) + n
      /\ \A i \in 1..Len(buf) : new[i] = buf[i]
      /\ \A i \in 1..Len(new) : i > Len(buf) => new[i] = <<s, w + i - Len(buf)>>
      /\ Distinct(new) /\ ByWriters(new, wr2)
      /\ Bunched(buf, written) /\ (w > 0 => buf # <<>> /\ buf[Len(buf)] = <<s, w>>) => Bunched(new, wr2)
  <2> HIDE DEF buf, c
  <2> QED BY <1>2, <1>3, <1>6, PieceAppended
<1>8. Len(buf) \in Nat
  BY <1>3, LenProperties
<1> HIDE DEF new, piece, buf
<1>9. /\ c \in reading => buffer'[c] = new
      /\ c \notin reading => buffer'[c] = buf
      /\ \A d \in Streams \ {c} : buffer'[d] = buffer[d]
      /\ buffer' \in [Streams -> Seq(Byte)]
  BY <1>1, <1>2, <1>3, <1>5, <1>7 DEF new, buf
<1>10. /\ wr2 \in [Senders -> Nat] /\ wr2[s] = w + n /\ \A t \in Senders \ {s} : wr2[t] = written[t]
  BY <1>2
<1> HIDE DEF wr2
<1>11. /\ \A t \in Senders \ {s} : step'[t] = step[t] /\ outcome'[t] = outcome[t]
       /\ step' \in [Senders -> {"start", "connecting", "cloning", "writing", "done"}]
       /\ outcome' \in [Senders -> {"none", "Successful", "Failure", "panic"}]
       /\ w + n = MpduSize(s) => step'[s] = "done" /\ outcome'[s] = "Successful"
       /\ w + n # MpduSize(s) => step'[s] = step[s] /\ outcome'[s] = outcome[s]
  BY <1>1, <1>2, <1>10 DEF MtcpTypeOK, Return
<1>12. MtcpTypeOK'
  <2>1. mixed' \cup gone' \subseteq 1..streams
    BY <1>1, <1>2, <1>3 DEF MtcpTypeOK
  <2> QED BY <1>1, <1>2, <1>9, <1>10, <1>11, <2>1 DEF MtcpTypeOK
<1>13. \A t \in Senders : Advanced(t)'
  <2>1. \A t \in Senders \ {s} : Advanced(t)'
    BY <1>1, <1>10, <1>11 DEF StreamInv, Advanced
  <2>2. s \notin arrived
    BY <1>1, <1>2, <1>4 DEF Advanced
  <2>3. Advanced(s)'
    <3>1. written'[s] = w + n /\ socket'[s] = c /\ c # 0 /\ arrived' = arrived /\ outcome[s] = "none"
      BY <1>1, <1>2, <1>10 DEF Advanced, MtcpTypeOK
    <3>2. w + n = MpduSize(s) \/ w + n < MpduSize(s)
      <4>1. w + n <= MpduSize(s)
        BY <1>1
      <4>2. w \in Nat /\ w + n \in Nat
        BY <1>2
      <4> QED BY <1>4, <4>1, <4>2
    <3> QED BY <1>1, <1>2, <1>4, <1>11, <2>2, <3>1, <3>2 DEF Advanced
  <2> QED BY <2>1, <2>3
<1>14. \A d \in Streams : Owned(d)'
  <2>1. ASSUME NEW d \in Streams, buffer'[d] = buffer[d] PROVE Owned(d)'
    <3>1. Owned(d) /\ buffer[d] \in Seq(Byte)
      BY <1>2 DEF StreamInv
    <3>2. ByWriters(buffer[d], wr2)
      <4> SUFFICES ASSUME NEW i \in 1..Len(buffer[d])
                   PROVE  buffer[d][i][2] <= wr2[buffer[d][i][1]]
        BY DEF ByWriters
      <4>1. buffer[d][i][1] \in Senders /\ buffer[d][i][2] \in Nat
        BY <3>1, Bytes2
      <4>2. buffer[d][i][2] <= written[buffer[d][i][1]]
        BY <3>1 DEF Owned, ByWriters
      <4>3. written[buffer[d][i][1]] <= wr2[buffer[d][i][1]]
        <5>1. \A t \in Senders : written[t] <= wr2[t]
          <6> TAKE t \in Senders
          <6>1. CASE t = s
            BY <1>2, <1>10, <6>1
          <6>2. CASE t # s
            BY <1>2, <1>10, <6>2
          <6> QED BY <6>1, <6>2
        <5> QED BY <4>1, <5>1
      <4>4. written[buffer[d][i][1]] \in Nat /\ wr2[buffer[d][i][1]] \in Nat
        BY <1>2, <1>10, <4>1
      <4> QED BY <4>1, <4>2, <4>3, <4>4
    <3> QED BY <1>1, <2>1, <3>1, <3>2 DEF Owned
  <2>2. ASSUME NEW d \in Streams, d = c, c \in reading PROVE Owned(d)'
    <3>1. \A i \in 1..Len(new) : socket[new[i][1]] = c
      <4> TAKE i \in 1..Len(new)
      <4>1. CASE i \in 1..Len(buf)
        BY <1>3, <1>7, <4>1 DEF Owned, buf
      <4>2. CASE i > Len(buf)
        BY <1>7, <4>2
      <4> QED BY <1>7, <1>8, <4>1, <4>2
    <3>2. buffer'[d] = new /\ written' = wr2 /\ socket' = socket
      BY <1>1, <1>9, <2>2
    <3>3. Distinct(buffer[d])' /\ ByWriters(buffer[d], written)'
      BY <1>7, <3>2 DEF Distinct, ByWriters
    <3> QED BY <2>2, <3>1, <3>2, <3>3 DEF Owned
  <2>3. c \notin reading => buffer'[c] = buffer[c]
    BY <1>9 DEF buf
  <2> QED BY <1>9, <2>1, <2>2, <2>3
<1>15. \A d \in Streams : Orderly(d)'
  <2> SUFFICES ASSUME NEW d \in Streams, Sound(d)' PROVE Orderly(d)'
    BY DEF Orderly
  <2>1. Sound(d) /\ Orderly(d)
    BY <1>1 DEF Sound, StreamInv
  <2>2. /\ d \in reading /\ Bunched(buffer[d], written)
        /\ \A t \in Senders : socket[t] = d /\ written[t] > 0 => Placed(t, d)
    BY <2>1 DEF Orderly
  <2>3. CASE d # c
    <3>1. buffer'[d] = buffer[d] /\ \A t \in Senders : socket[t] = d => t # s
      BY <1>9, <2>3
    <3>2. Bunched(buffer[d], wr2)
      <4>1. \A i \in 1..Len(buffer[d]) : wr2[buffer[d][i][1]] = written[buffer[d][i][1]]
        <5> TAKE i \in 1..Len(buffer[d])
        <5>1. buffer[d][i][1] \in Senders /\ socket[buffer[d][i][1]] = d
          BY <1>2, Bytes2 DEF StreamInv, Owned
        <5> QED BY <1>10, <3>1, <5>1
      <4> QED BY <2>2, <4>1 DEF Bunched
    <3>3. ASSUME NEW t \in Senders, socket[t] = d, wr2[t] > 0 PROVE Placed(t, d)'
      <4>1. t # s /\ wr2[t] = written[t] /\ step'[t] = step[t] /\ Placed(t, d)
        BY <1>10, <1>11, <2>2, <3>1, <3>3
      <4> QED BY <1>1, <3>1, <4>1 DEF Placed
    <3> QED BY <1>1, <2>2, <3>1, <3>2, <3>3 DEF Orderly
  <2>4. CASE d = c
    <3>1. c \in reading /\ Bunched(buf, written) /\ buffer'[c] = new
      BY <1>9, <2>2, <2>4 DEF buf
    <3>2. ~Amid(s)
      BY <1>1, <2>4 DEF Sound
    <3>3. w > 0 => /\ s \notin arrived
                   /\ buf # <<>> /\ buf[Len(buf)] = <<s, w>>
                   /\ \E i \in 1..Len(buf) : buf[i] = <<s, 1>>
      <4> SUFFICES ASSUME w > 0 PROVE /\ s \notin arrived
                                      /\ buf # <<>> /\ buf[Len(buf)] = <<s, w>>
                                      /\ \E i \in 1..Len(buf) : buf[i] = <<s, 1>>
        OBVIOUS
      <4>1. Placed(s, c) /\ w < MpduSize(s)
        BY <1>1, <1>2, <2>2, <2>4 DEF Advanced
      <4>2. s \notin arrived
        BY <1>2, <1>4, <4>1 DEF Advanced
      <4> QED BY <4>1, <4>2 DEF Placed, buf
    <3>4. Bunched(new, wr2)
      BY <1>7, <3>1, <3>3
    <3>5. Placed(s, c)'
      <4>1. \E i \in 1..Len(new) : new[i] = <<s, 1>>
        <5>1. CASE w > 0
          <6>1. \A i \in 1..Len(buf) : i \in 1..Len(new) /\ new[i] = buf[i]
            BY <1>7, <1>8
          <6> QED BY <3>3, <5>1, <6>1
        <5>2. CASE w = 0
          <6>1. Len(buf) + 1 \in 1..Len(new) /\ Len(buf) + 1 > Len(buf)
            BY <1>7, <1>8
          <6>2. new[Len(buf) + 1] = <<s, w + (Len(buf) + 1) - Len(buf)>>
            BY <1>7, <6>1
          <6>3. w + (Len(buf) + 1) - Len(buf) = 1
            BY <1>8, <5>2
          <6> QED BY <6>1, <6>2, <6>3
        <5> QED BY <1>2, <5>1, <5>2
      <4>2. Len(new) \in 1..Len(new) /\ Len(new) > Len(buf) /\ w + Len(new) - Len(buf) = w + n
        BY <1>2, <1>7, <1>8
      <4>3. new[Len(new)] = <<s, w + n>> /\ new # <<>>
        <5>1. new[Len(new)] = <<s, w + Len(new) - Len(buf)>>
          BY <1>7, <4>2
        <5>2. new # <<>>
          BY <1>8, <4>2, EmptySeq
        <5> QED BY <4>2, <5>1, <5>2
      <4>4. w + n < MpduSize(s) => step'[s] = "writing"
        <5>1. w + n < MpduSize(s) => w + n # MpduSize(s)
          BY <1>2, <1>4
        <5> QED BY <1>1, <1>11, <5>1
      <4>5. written'[s] = w + n /\ buffer'[c] = new
        BY <1>1, <1>10, <3>1
      <4> HIDE DEF c, w
      <4>6. \E i \in 1..Len(buffer'[c]) : buffer'[c][i] = <<s, 1>>
        BY <4>1, <4>5
      <4>7. written'[s] < MpduSize(s) => 
              step'[s] = "writing" /\ buffer'[c] # <<>> /\ buffer'[c][Len(buffer'[c])] = <<s, written'[s]>>
        BY <4>3, <4>4, <4>5
      <4>8. c' = c
        BY <1>1 DEF c
      <4> QED BY <4>6, <4>7, <4>8 DEF Placed
    <3>6. ASSUME NEW t \in Senders, t # s, socket[t] = c, wr2[t] > 0 PROVE Placed(t, c)'
      <4>1. written[t] > 0 /\ Placed(t, c) /\ wr2[t] = written[t]
        BY <1>10, <2>2, <2>4, <3>6
      <4>2. ~(written[t] < MpduSize(t))
        BY <3>2, <3>6, <4>1 DEF Placed, Amid
      <4>3. t \in arrived \/ \E i \in 1..Len(new) : new[i] = <<t, 1>>
        <5>1. \A i \in 1..Len(buf) : i \in 1..Len(new) /\ new[i] = buf[i]
          BY <1>7, <1>8
        <5> QED BY <4>1, <5>1 DEF Placed, buf
      <4>4. written'[t] = written[t] /\ arrived' = arrived /\ buffer'[c] = new /\ c' = c
        BY <1>1, <3>1, <4>1
      <4> HIDE DEF c
      <4>5. t \in arrived' \/ \E i \in 1..Len(buffer'[c]) : buffer'[c][i] = <<t, 1>>
        BY <4>3, <4>4
      <4> QED BY <4>2, <4>4, <4>5 DEF Placed
    <3>7. \A t \in Senders : socket[t] = c /\ wr2[t] > 0 => Placed(t, c)'
      BY <3>5, <3>6
    <3> QED BY <1>1, <2>4, <3>1, <3>4, <3>7 DEF Orderly
  <2> QED BY <2>3, <2>4
<1> QED BY <1>12, <1>13, <1>14, <1>15 DEF StreamInv

LEMMA StreamNext == StreamInv /\ [MtcpNext]_mtcpVars => StreamInv'
<1> SUFFICES ASSUME StreamInv, [MtcpNext]_mtcpVars PROVE StreamInv'
  OBVIOUS
<1>1. CASE UNCHANGED mtcpVars
  <2>1. MtcpTypeOK' /\ \A s \in Senders : Advanced(s)'
    BY <1>1 DEF mtcpVars, StreamInv, MtcpTypeOK, Advanced
  <2>2. \A c \in Streams : Owned(c)'
    BY <1>1 DEF mtcpVars, StreamInv, Owned, Distinct, ByWriters
  <2>3. \A c \in Streams : Orderly(c)'
    <3> TAKE c \in Streams
    <3>1. Sound(c)' = Sound(c) /\ reading' = reading /\ written' = written /\ socket' = socket
      BY <1>1 DEF mtcpVars, Sound
    <3>2. Bunched(buffer[c], written)' = Bunched(buffer[c], written)
      BY <1>1 DEF mtcpVars, Bunched
    <3>3. \A s \in Senders : Placed(s, c) => Placed(s, c)'
      BY <1>1 DEF mtcpVars, Placed
    <3> QED BY <3>1, <3>2, <3>3 DEF StreamInv, Orderly
  <2> QED BY <2>1, <2>2, <2>3 DEF StreamInv
<1>2. ASSUME NEW s \in Senders,
             Lookup(s) \/ Dial(s) \/ DialFails(s) \/ Clone(s) \/ WriteFails(s)
      PROVE  StreamInv'
  BY <1>2, MtcpLookupKeeps, MtcpDialKeeps, MtcpDialFailsKeeps, MtcpCloneKeeps, MtcpWriteFailsKeeps
<1>3. ASSUME NEW s \in Senders,
             NEW n \in {MpduSize(s) - written[s]} \cup IF written[s] = 0 THEN Cuts ELSE {},
             Write(s, n)
      PROVE  StreamInv'
  <2>1. written[s] \in Nat /\ written[s] < MpduSize(s) /\ MpduSize(s) \in Nat
    BY <1>3, MpduSizes DEF StreamInv, MtcpTypeOK, Advanced, Write
  <2>2. n \in Nat \ {0}
    BY <2>1, MtcpAssumption
  <2> QED BY <1>3, <2>2, WriteKeeps
<1>4. ASSUME NEW c \in Streams, Decode(c) \/ PeerCloses(c) PROVE StreamInv'
  BY <1>4, DecodeKeeps, PeerClosesKeeps
<1> QED BY <1>1, <1>2, <1>3, <1>4 DEF MtcpNext

LEMMA StreamInvariant == MtcpSpec => []StreamInv
<1> QED BY StreamInit, StreamNext, PTL DEF MtcpSpec

\* What mtcp_send_bundles returned is true, for any number of senders, any sizes
\* of bundles and any splitting of the first write: a transfer that failed or
\* panicked delivered nothing, and one that succeeded on a sound stream has
\* arrived or is whole in it.
THEOREM OutcomesAlwaysTrue == MtcpSpec => []OutcomesTrue
<1>1. StreamInv => OutcomesTrue
  <2> SUFFICES ASSUME StreamInv, NEW s \in Senders
               PROVE  /\ outcome[s] \in {"Failure", "panic"} => s \notin arrived
                      /\ outcome[s] = "Successful" /\ socket[s] \notin mixed \cup gone
                           => s \in arrived \/ HoldsMpdu(buffer[socket[s]], s)
    BY DEF OutcomesTrue
  <2>1. Advanced(s) /\ written[s] \in Nat /\ MpduSize(s) \in Nat \ {0}
    BY MpduSizes DEF StreamInv, MtcpTypeOK
  <2>2. outcome[s] \in {"Failure", "panic"} => s \notin arrived
    BY <2>1 DEF Advanced
  <2>3. ASSUME outcome[s] = "Successful", socket[s] \notin mixed \cup gone, s \notin arrived
        PROVE  HoldsMpdu(buffer[socket[s]], s)
    <3> DEFINE c == socket[s]   buf == buffer[c]
    <3>1. written[s] = MpduSize(s) /\ c # 0
      BY <2>1, <2>3 DEF Advanced
    <3>2. c \in Streams /\ Sound(c) /\ buf \in Seq(Byte)
      BY <2>3, <3>1, SocketRange DEF Sound, StreamInv, MtcpTypeOK
    <3>3. Bunched(buf, written) /\ Placed(s, c)
      BY <2>1, <3>1, <3>2 DEF StreamInv, Orderly
    <3>4. PICK i \in 1..Len(buf) : buf[i] = <<s, 1>>
      BY <2>3, <3>3 DEF Placed
    <3> HIDE DEF buf
    <3>5. buf[i][1] = s /\ buf[i][2] = 1
      BY <3>4
    <3>6. \A k \in 1..MpduSize(s) : i - 1 + k \in 1..Len(buf) /\ buf[i - 1 + k] = <<s, k>>
      BY <3>1, <3>3, <3>5 DEF Bunched
    <3>7. Len(buf) \in Nat /\ i - 1 \in 0..Len(buf)
      BY <3>2, LenProperties
    <3>8. \A k \in 1..MpduSize(s) : (i - 1) + k <= Len(buf) /\ buf[(i - 1) + k] = <<s, k>>
      BY <3>6, <3>7
    <3> QED BY <3>7, <3>8 DEF HoldsMpdu, buf
  <2> QED BY <2>2, <2>3
<1> QED BY <1>1, StreamInvariant, PTL
==============================================================================
