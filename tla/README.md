# dtn7-rs: specification, model checking and proofs

TLA+ models of dtn7-rs, an implementation of the Bundle Protocol 7 for delay
tolerant networks, with TLC configurations that check them on small instances
and TLAPS proofs of the central safety properties. Paths below are relative to
`src/core/dtn7/src/`.

## The system

A node receives bundles from peers and applications, stores them, delivers them
to local applications and forwards them to peers that a routing agent selects,
now or in a later janitor run. Its parts:

| part | state | operations | interacts with |
|---|---|---|---|
| bundle processing (`core/processing.rs`) | the set `FORWARDING`; a private `BundlePack` per task | receive, send_bundle/transmit, dispatch, local_delivery, forward, delete, contraindicated, status reports | store, routing agent, CLAs, application agents |
| bundle packs (`core/bundlepack.rs`) | the constraint set | add, remove, clear, sync, has_expired | store |
| bundle stores (`core/store/`) | bundles, metadata (mem, sled), deleted ids (sneakers) | push, update_metadata, remove, queries | everything, behind `STORE` |
| janitor (`dtnd/janitor.rs`, `core/mod.rs`) | none | process_peers, store_delete_expired, process_bundles | store, peers, forward |
| application agents (`core/application_agent.rs`, `core/mod.rs`) | endpoint list, queue and delivery address per endpoint | register, unregister, push, pop, set/clear_delivery_addr | store, behind `DTNCORE` |
| HTTP and websocket interface (`dtnd/httpd.rs`, `dtnd/ws.rs`) | sessions of five tasks, a mailbox and a bounded channel each | submissions, register, fetch, subscribe, delete, queries | agents, processing |
| routing agents (`routing/`) | bundle history, copies left, static table, external router with its requests | notifications, sender_for_bundle, commands | peers, processing, by channels |
| peer table (`core/peer.rs`, `lib.rs`) | peers with last contact and failures | add, touch, remove, report_fail | discovery, janitor, routing |
| convergence layers (`cla/`) | TCPCL sessions, MTCP connections, external modules | transfer, sessions, pull | processing, peers |
| neighbour discovery (`ipnd/`) | beacon periods, services | announce, receive | peers |
| bundle security (`core/bpsec/`) | rules, keys | enforce | processing |
| daemon, configuration, tools | configuration | start | all |

Everything runs as tokio tasks on several threads. Shared state sits behind one
mutex per structure, with one exception (`cla/ecla`) no lock is held while another
is taken, and every task works on copies of what it read. That makes these
behaviours hard:

* two tasks process one bundle, each with its own constraints, and the one that
  syncs last wins;
* a bundle disappears between two steps of a task (expiry, delivery, /delete, a
  status report), or comes back (second push, resubmission);
* of several transfers some fail; retries depend on what the metadata says;
* a guard, a janitor run, a request or a transfer that never ends;
* answers that arrive after their timeout, or for an earlier request;
* connections shared by several senders, or used in both directions at once;
* a daemon that stops between two writes of a store.

What makes each part correct: the pipeline neither loses a bundle without cause,
nor delivers it twice, nor sends it from two tasks; a store keeps what it accepted
and refuses what it knew; a routing agent conserves copies and retries after
failures; a reported success means arrival; every transfer is answered as far as the
layer below lets it, and every request to a router is; the peer table drops only silent or failing dynamic peers; a
protected bundle arrives and an altered one does not; a subscriber gets its bundles.

## Modules

| module | models |
|---|---|
| `BundlePack` | the constraints of `core/bundlepack.rs` |
| `BundleStore` | `core/store/mem.rs` and `BundlePack::sync`, one next-state relation per operation |
| `Processing` | the pipeline, the janitor, the agents and the HTTP/websocket operations on bundles; extends `BundleStore` |
| `Relay` | what surrounds a routing agent: its channel, the tasks that ask it and report failures, the peer table |
| `SprayAndWait`, `Epidemic` | `routing/sprayandwait.rs`, `routing/epidemic.rs`; extend `Relay` |
| `StoreContract` | abstract: what the node expects of a store |
| `Stores` | the mem, sled and sneakers stores with crashes and restarts; extends `BundleStore`, implements `StoreContract` |
| `ERouting` | `routing/external.rs`, `routing/erouting/`: requests to an external router |
| `PeerTable` | `core/peer.rs`, `lib.rs`, and what discovery, sessions, operator and janitor do to the table |
| `Tcpcl` | `cla/tcp/`: session table, handshake, transfers in both directions |
| `Mtcp` | `cla/mtcp.rs`: a connection shared by several senders, and the decoder |
| `HttpPull` | `cla/httppull.rs` against the HTTP interface of a peer |
| `Ecla` | `cla/ecla/`, `cla/external.rs`: modules, their connectors and two locks |
| `Bpsec` | `core/bpsec/`: rules, policy and enforcement at three nodes |
| `WsSession` | `dtnd/ws.rs` and the delivery side of `core/application_agent.rs` |
| `MCProcessing`, `MCSprayAndWait`, `MCEpidemic`, `MCTcpcl` | instances for TLC |
| `MCParts` | instances of the eight modules that share no state, side by side |
| `ProcessingProofs`, `SprayAndWaitProofs`, `EpidemicProofs`, `TcpclProofs`, `BpsecProofs` | theorems about the module of that name; `RelayProofs` has the lemmas the routing agents share |
| `LayerProofs` | theorems about `Ecla` and `Mtcp` |
| `PartsProofs` | theorems about `ERouting`, `PeerTable`, `WsSession` and `Stores`, and the types of all parts of `MCParts`; extends it, `LayerProofs` and `BpsecProofs` |

Operators marked MISTAKE are wrong variants of the definition that follows; each
property is shown to fail when one of them takes its place.

**Processing** has one program counter, one pack (`bp`), and the results of routing
and transfers for each task `<<kind, id>>`. A kind `"ingress"` task is the run of
`receive` or `transmit` including `dispatch` and `local_delivery`; `"dispatched"`
is the `forward` spawned by `dispatch`; `"janitor"` that of a janitor run. An
action is what a task does with one locked operation: `ReceiveSync`,
`DeliverMark`, `ForwardPending` and so on follow the order of the calls in the
code, and an early return is the label that follows. `Bail` is the place where
`forward` drops its guard and an ingress task just ends. Three sequences of
operations are a single step, since no other task can tell: the store operations
of `send_status_report` on a fresh id; the tests of a received bundle's blocks;
the checks of `forward` on its own copy. The content of a bundle is the record
`Info[i]`: addresses, requested reports, kind of administrative record, flags of
unknown blocks, verdicts of the security policy, whether the hop limit is hit.
A status report is a bundle `<<b, s>>`. It is not dispatched but stored with
`ForwardPending`, so only the janitor sends it, as in the code. The routing agent's
answer, the outcome and order of transfers, the clock, applications and peers are
free.

**Relay** looks at `forward` from the other side. It keeps what a routing agent can
notice: one task per bundle (`ForwardExclusive` justifies that) asks for next hops,
fetches the bundle, transfers it to all of them at once, sends `SendingFailed`
before it counts the failure in the peer table, and waits for all transfers. A
bundle may leave the store at any time (`Vanish`), peers come, go silent, are
removed, fail too often and come back, applications submit bundles again, and
status reports are stored without a notification, as `send_status_report` does.
The agents take one command at a time from their channel: `HandleNewBundle`,
`HandleSendingFailed` and `HandleSender` are the functions of spray and wait,
`IncomingBundle`, `SendingFailed` and `SendersForBundle` those of epidemic
routing. The order of the hash map of peers is a free choice (`relays` in
`HandleSender`). `got` is a history variable.

**Stores** has the two writes of sled's `push` and `remove` as two steps (`write`
names the unfinished one), between which the daemon may stop but nothing else can
run, as the `STORE` mutex is held. The store in memory is the one of `BundleStore`;
sneakers drops the entry of a removed bundle and keeps the id in memory. `receive`
pushes a bundle twice, so a second push of a removed bundle happens in all three.

**Tcpcl** has two nodes and the connection between them. A session task is one
`select!` loop, so one action is a packet handled, a bundle taken from the queue or
an idle timeout; the tasks of `forward` look a session up, dial one or wait for one,
and wait for their reply channel. Bytes of bundles are kept as sequences, so that
what a receiver puts together can be compared with what was sent. What a session
writes after the connection broke, or its peer closed it, reaches nobody.
The task awaits every write inside the loop. `Pipe` is the number of packets that fit
between two tasks (socket buffers and the 16 packets of the reader's channel); what a
session has written beyond it is still to be written, and until it is the task neither
takes a packet nor a bundle and no sleep of it fires (`Writing`, `Ready`). A session that
is to end does so after its last packet (`closing`, `Terminate`).

**Mtcp** has streams of bytes, each of which is a sender and a place in that sender's
MPDU: the decoder finds a bundle where the bytes of one MPDU are in their order. The
length of the CBOR header changes between 23 and 24 bytes of bundle, and the writes of
two clones of a socket may alternate. **HttpPull** is a loop of three requests,
each of which finds both stores as they are by then; an answer that cannot be read ends
it for good (`PullPanics`), a bundle that `validate_bundle` refuses never becomes known
(`Rejected`). It is the sequential mode, the default; with parallel processing each peer
is pulled from by a task of its own, and a panic ends that task only. **Ecla** has one
step per lock that a thread takes, and the two panics under them: a second rejected
`Register`, and a `Beacon` that does not decode. A poisoned map makes the next thread
that takes it panic. **ERouting** keys its channels by the printed pack, whose
constraints come in the order of a hash set. `backlog` is the bounded channel to the
router, into which requests, Timeout packets and notifications go while it has room
(`SendPacket`). **PeerTable** keeps the age of the
last contact, which is negative after the clock was set back, and beside it the
true silence as a history variable. **Bpsec** keeps of the cryptography only what
decides success: which key, and a snapshot of what a block covers. `job` is the call of
`enforce` under way: the actions left, taken in the order of `policy.rs` (class, rule,
block), and the keys as they were when it began, which a reload does not change. Each
action, signing included, succeeds (`BpSucceed`), fails and is tolerated, or drops the
bundle; after
decryptions the policy is evaluated again. **WsSession** has
the five tasks of a session around its mutex; a bundle that a client in data mode gets
nothing of is passed over when it is the next to be sent (`SkipMessage`), under the
same hold of the mutex in which the code passes over it.

## Runs

These pass:

| run | what it checks |
|---|---|
| `Transit.cfg` | a bundle in transit, two next hops, duplicates, resubmission, expiry, age block, reports, a delivery report about a stored bundle, sequential janitor: `ForwardExclusive`, `LossOnlyForCause` |
| `Delivery.cfg` | a bundle for this node and one for a group endpoint, delivered and forwarded at once, while endpoints are registered, subscribed and left and the operator deletes; bundles refused for a block or an unreadable record: `TypeOK`, `RefusedIsGone`, `AtMostOnceDelivery`, `QueuedLocalHeld`, `DeletedMeansGone` |
| `Live.cfg` | liveness of the pipeline with the sequential janitor, while transfers may hang: `GuardReleased`, `JanitorReturns`, `ExpiredGoes`, `Retried` |
| `Spray.cfg` | an own bundle with three copies that is resubmitted, a foreign one, three peers and this node itself in the peer table: `CopiesConserved`, `SpreadBounded`, `NoSecondSend`, and `DestinationServed` under fairness |
| `Epidemic.cfg` | a bundle from a peer that is resubmitted, an own one, a status report, three peers: `NoSecondSend`, `RecordedHaveIt`, and `PeersServed` under fairness |
| `Tcpcl.cfg` | bundles of one to four bytes in segments of one or two, in both directions, refused, too large, malformed, over connections that hold two packets and fail, time out or break: `SuccessMeansArrived`, `TransfersIntact`, `ProtocolRespected`, and `TransfersAnswered` under fairness |
| `Parts.cfg` | the eight modules of `MCParts`, of which one moves in each behaviour; see below |

`Parts.cfg` checks `PartsTypeOK` (the types of all eight), and

* external routing: `NoStaleChannel`, `RouterLearns` (a dropped answer is matched by a
  Timeout packet that got into the channel, or one still to be sent), `RequestsReturn`;
* external convergence layers: `LayersAreModules`;
* MTCP: `OutcomesTrue`, what a transfer returned is true whoever else used, broke
  or removed the shared connection;
* HTTP pull: `PulledInTheEnd`, although digests and lists are stale when used;
* peer table: `PinnedStay`, `HeardStay`, `SilentGo`;
* stores: `TreesAgree`, and `ImplementsContract`, the refinement of `StoreContract`;
* security: `BibsFollowTargets`, `ProtectedArrives`, `AlteredNotDelivered`, for sources,
  gateways and destinations with 4, 3 and 3 configurations, one of which `validate()`
  refuses, while blocks are altered, signing and encryption fail and keys are replaced;
* websocket sessions: `OnePlace`, `SubscriberServed`, `SilentDropped`.

These fail, and show where code and text disagree:

| run | what it shows |
|---|---|
| `ReportRemoval.cfg` | a report of reception removes the bundle: `inspect_status_report` never looks whether the delivered item is asserted. The node's own reception report does so once it is forwarded |
| `Keepalive.cfg` | an idle TCPCL session is ended by its first timeout; the comments speak of a second one |
| `Backpressure.cfg` | two TCPCL sessions that send each other bundles larger than the connection holds wait for each other in `send_bundle` for ever; the comment says that the timeout is respected there |
| `EclaDeadlock.cfg` | a submission and a registration take `CONNECTORS_MAP` and `MODULE_MAP` in opposite orders, and the registration is never answered |
| `ERoutingKey.cfg` | an answer of the external router in time is dropped, because the pack that came back prints its constraints in another order |

**What the properties leave out, because the code does.** They state what holds;
these exceptions were met on the way and are written into them:

* A `sync` of an old pack may overwrite the Deleted mark of a removed bundle, so
  `DeletedMeansGone` is not an equivalence. A bundle deleted between the two pushes
  of `receive` is stored again.
* For a group endpoint, `forward` writes the pack from before the delivery, and
  LocalEndpoint is lost while the bundle is queued: `QueuedLocalHeld` is about
  endpoints of this node. It excludes bundles an application submits again, whose
  second push starts from fresh metadata if the first was removed meanwhile.
* An epidemic peer that was selected just before the bundle left the store counts as
  served if the bundle is submitted again: `RecordedHaveIt` and `PeersServed` leave
  such bundles out.
* Under spray and wait, peers that were charged a copy and then gave way to a direct
  delivery stay listed as served (`routing/sprayandwait.rs:165`), and the agent never
  learns of the node's own status reports (`core/processing.rs:803`), so it never
  sends them: `DestinationServed` is about other bundles.
* A crash between the two writes of sled's `push` leaves an id that `is_known`
  refuses although its bundle was never stored, one between those of `remove` a
  stored bundle that the janitor skips. `TreesAgree` says nothing else can; the torn
  ids themselves are exempt.
* `transfer` has no timeout (`cla/mod.rs:73`). A convergence layer that never answers
  holds a forward, its guard and, if the janitor waits for it, the janitor. The four
  properties of `Live.cfg` have as their premise that the transfers concerned end, each
  only those it depends on: a forward of `dispatch` that hangs does not hold up the
  janitor, and a hanging transfer of one bundle not the guard of another.
* Two TCPCL sessions that write to each other with nobody reading are jammed for good
  (`Backpressure.cfg`): `TransfersAnswered` has as its premise that the connection is
  again and again not full in both directions.
* A receiver acknowledges malformed bytes of a TCPCL transfer before it refuses them,
  which the sender takes for a protocol error (`ProtocolRespected`).
* Two routers that connect at once share one connection slot, and `send_packet` drops a
  Timeout packet for which the channel of 100 packets has no room
  (`routing/erouting/processing.rs:148`); the router never learns of that answer.
  `RouterLearns` leaves behaviours with either out (`clashed`, `overrun`). A Timeout
  packet that finds another router, or none, is not counted as received either: a router
  that left is owed nothing.
* An answer that cannot be read ends the sequential pull loop (`httppull.rs:112`), and
  nothing starts it again: `PulledInTheEnd` is about behaviours without one.
* A websocket client that neither reads nor answers keeps its session for ever once
  the channel of outgoing messages is full (`SilentDropped` leaves it out). The comment there says
  10 seconds, `CLIENT_TIMEOUT` is 30. One session's unsubscription clears the address
  that another one set; the next flush makes up for it (`SubscriberServed`).
* The goodbye of an mDNS service removes no peer: `handle_mdns_peer_removed` passes the
  endpoint id, and peers are kept under the node name (`ServiceRemoved`). The peer goes
  when it was silent for too long (`SilentGo`).
* An MTCP stream that two senders wrote to at once is cut by the peer, and a success
  on it means nothing (`OutcomesTrue`).

**Bounds.** In `Processing` one or two bundles plus their status reports (at most one
per bundle and status), at most two next hops, four endpoints. The interference of
interest is between tasks of the same bundle, and up to three tasks (ingress,
dispatched, janitor) plus the janitor's loops and the environment work on one; a
second bundle matters only for status reports, and is there in `Transit.cfg`. Two next
hops suffice for mixed outcomes. `Volatile`, `Managed`, `Churn` and `Resubmitted` say
which disturbances an instance has, and `Traffic` which bundles are in the node
together: a run covers several kinds of bundle without the product of their
behaviours. A bundle is not resubmitted while an earlier submission of it is in
progress.

In the routing runs the failure limit is 1 instead of 3, so that discovered peers
are dropped and come back within short behaviours; the count stops one above the
limit, where no code tells counts apart. Two or three copies give a spray phase
with several rounds and a wait phase. Three peers are a relay, a second relay and
the destination. A bundle is not submitted again while its last notification is
in the channel; the channel needs no bound then, as every task waits for its
answer.

In the others: two connections (`MaxDials`, `MaxStreams`), so that one can fail and
be replaced; channels of one entry (`Buffer`, `MailboxSize`, `OutboxSize`), so that
they are full often; connections of two packets (`Pipe`, one in `Backpressure.cfg`) for
bundles of up to four segments, so that writes block; a channel of one packet to the
router (`ChannelSize`), which the packets on connecting fill; three requests per bundle (`MaxRequests`) for answers that are
two requests late; two packets per connection (`MaxRegisters`) for a second registration
that is rejected or a beacon after the first; two restarts (`MaxRestarts`), the second after recovery from the
first; two failing requests in HTTP pull (`MaxFailures`); ages up to twice the largest
beacon period (`MaxAge`) and a clock set back by at most two seconds in all
(`MaxSetBack`); one replacement of keys at each node (`MaxRotations`). `Casts` of the websocket
sessions says how many messages each client sends and who may fall silent.
`Traffic` of TCPCL says which transfers meet.

Deadlock is checked in the runs of `Processing` and of the routing agents. In the
others a behaviour ends when the transfers, requests or messages its bounds allow
are used up.

**Fairness.** Of `Processing`: weak fairness for the steps of each task and of the
janitor, since tokio runs every task that can run and `spawn_timer` calls the janitor
again and again (for a `janitor_interval` other than zero). It does not include that a
transfer ends (`Transferring`), which `ClaSenderTask::transfer` leaves to the convergence
layer without a timeout; the properties name the transfers they need. Nothing is assumed
of applications, peers and the clock. Of the routing modules: weak fairness of the agent,
which takes every command, and of each bundle's task; the task includes `Ask`, the
janitor's retry, and here also that its transfers end, so `DestinationServed` and
`PeersServed` hold of nodes whose layers answer. Transfers may fail for ever, so a peer is promised to be offered the
bundle, not to get it.

TCPCL: a session task and a task that waits run, and what is on an intact connection
arrives as far as it fits; timeouts, cuts and new transfers need not happen. In
`Backpressure.cfg` the sleep of a session fires whenever it can, so that the
counterexample is not an idle timeout that was left out. External routing: a request
runs, so its 250 ms pass; the router owes nothing. HTTP pull: the loop goes on unless it
panicked, and the reception of a pulled bundle ends; requests fail finitely often. Peer table: seconds
pass and the janitor runs. Websocket sessions: each task runs, and clients that read do
so; the holder of the session's mutex is strongly fair, since the tokio mutex and the
outgoing channel serve waiters in their order. External convergence layers: strong
fairness for every acquisition of a lock, more than `std::sync::Mutex` promises, so
that the counterexample is a deadlock and not starvation.

## Proofs

All theorems hold for every value of the constants that the named assumptions of the
modules allow: any number of bundles, peers, endpoints, routers, connections.

`ProcessingProofs`, from `ProcessingAssumption`:

* `TypeCorrect`: `TypeOK`, and every stored bundle has metadata (`StoredIsKnown`).
  The invariant also needs that the janitor's list has only known ids.
* `ForwardingIsExclusive`: `ForwardExclusive`. The lemma `TaskMove` reduces the
  steps of a task to six moves of its program counter; `ControlInv` says which
  labels which kind of task can be at, and that a dispatched task is idle as long
  as the ingress task of its bundle runs. `GuardInv` is then inductive.
* `DeletedIsGone`: `DeletedMeansGone`. By itself it is not inductive: a pack
  that carries the mark could be synced after the bundle is stored again. Packs
  never do (`NoMarkedPack`), as the janitor skips marked metadata.
* `DeliveredAtMostOnce`: `AtMostOnceDelivery`. `OnceInv` adds that nothing was
  handed over while the bundle is unknown or its ingress task runs; ids stay
  known for ever, so there is only one such task, unless an application submits
  the bundle again itself.
* `LostOnlyForCause`: `LossOnlyForCause`, an action property. `CauseInv` says of a task
  at `delete` why it got there, and of one about to remove a bundle for the routing
  agent what the agent answered and that a transfer succeeded; `QueuedWereHanded` that
  what an application fetches was delivered; `FixedStay` that configured endpoints
  stay. `StepCaused` then goes through the steps that can shrink the store.
* `QueuedAreHeld` and `RefusedAreGone`: `QueuedLocalHeld` and `RefusedIsGone`. Both are
  about bundles that are never forwarded (`NeverForwarded`: no task, no
  `ForwardPending`, not on the janitor's list). `Frame` says what any step of others
  leaves of a bundle's entry, so only the bundle's own ingress task is looked at
  step by step (`IngressStays`).

`SprayAndWaitProofs`, from `RelayAssumption` and `SprayAssumption`, with the lemmas on
channel and tasks in `RelayProofs`:

* `TypeCorrect`: `TypeOK`; the copies left never become negative.
* `CopiesAreConserved`: `CopiesConserved`. The three functions of the agent are
  each shown to keep the balance, by the cardinality of the set of charged nodes.
* `SpreadIsBounded`: `SpreadBounded`. Conservation alone does not give this: a
  failure that arrives late could uncharge a node that has got the bundle
  meanwhile. The invariant therefore says that whoever is sent or has got the
  bundle is charged for it (`SentAreCharged`), and of each failure on its way that
  its node is charged, has not got the bundle, is not being sent it
  (`FailuresPending`), and that it is on its way once (`FailuresOnce`).
* `NobodyIsSentTwice`: `NoSecondSend`. For relays it follows from the above. The
  destination may be selected without being charged; `OnceInv` says that requests
  follow the failures of earlier ones in the channel (`QueueInv`), and that a bundle
  the destination has got is recorded for good, deleted, or about to be (`Delivered`).

`EpidemicProofs`, from `RelayAssumption`:

* `NobodyIsSentTwice`: `NoSecondSend`. As for `SpreadIsBounded`, but about recorded peers
  instead of charged ones, and the previous node of a bundle is recorded before the
  first request for it (`PrevFirst`, `PrevSpared`).
* `RecordedReallyHaveIt`: `RecordedHaveIt`. Needs that a request waits only for a
  stored bundle and that a recorded peer has the bundle, is being sent it, or has a
  failure on its way (`UnknownInv`, `RequestsInv`, `RecordsInv`).

`TcpclProofs`, from `TcpclAssumption`, for any bundles, sizes, segment lengths, limits
and traffic. The three properties do not follow from anything that looks at one end
alone, so `Inv` describes the connection, once for each direction:

* `Stream`: what is on the wire is made of whole segments (`Whole`), and they continue
  what the receiver has put together so far (`Continues`). This is where a segment
  without its predecessors, or two transfers that are mixed, would show.
* `Replies`: the acknowledgements and refusals on their way to a sender belong to the
  transfer it is at; after one that ends the transfer, only the refusal of a malformed
  bundle may follow. An acknowledgement of all bytes is on the wire only if they have
  arrived, which is what makes a reported success true.
* `Link`, while the connection holds: how far the two ends are apart, that is, which
  segments and replies exclude each other. `Replies` and `Stream` are not inductive
  without it: a receiver that discards and a sender that was refused and begins the next
  transfer are in step only because the wire keeps its order.
* `Handshake` and `Dialing`: no other packet overtakes the handshake, and a wire of an
  earlier session is empty before the next begins.

`InvHolds` shows that every action preserves all of them; most of the work is in lemmas
on one direction whose parameters are the wire and the two states (`StreamAppended`,
`StreamTaken` and so on), each of which serves several actions. It gives
`TransfersArriveIntact` (`TransfersIntact`), `ProtocolIsRespected`
(`ProtocolRespected`) and `SuccessIsArrival` (`SuccessMeansArrived`). The invariant
relies on nothing being written to a connection after it broke (`Sent`): a session that
has not noticed yet writes to a socket nobody reads.

`LayerProofs`:

* `LayersAreAlwaysModules` (`LayersAreModules`), from any number of external modules and
  names; `ReaderInv` says what a reader knows of its module at each step between two
  locks.
* `OutcomesAlwaysTrue` (`OutcomesTrue`), from `MtcpAssumption`. `StreamInv` says that
  each byte is in a stream once, that on a stream without mixed writers all that a
  sender wrote to it is in one piece or has arrived (`Bunched`, `Placed`), and that an
  unfinished piece is the last one. The decoder, which cuts the stream after the length
  it read, then cuts between two pieces, and never loses the boundaries.

`PartsProofs`:

* External routing: `NoChannelLeft` (`NoStaleChannel`) by `ChannelInv`;
  `RouterAlwaysLearns` (`RouterLearns`) by a balance of answers that are outstanding and
  Timeout packets that are owed against the requests under way (`BalanceInv`), with what
  a router can still answer (`AnsweredInv`, `RouterInv`). Only a Timeout packet that got
  into the channel of the router that was asked counts.
* Peer table: `PeersTypeCorrect`; `PinnedPeersStay` (`PinnedStay`); `HeardPeersStay`
  (`HeardStay`). The age of an entry never exceeds the true silence (`AgesInv`), since
  setting the clock back makes entries look younger only.
* Websocket sessions: `OnePlaceAlways` (`OnePlace`), from `WsSessionAssumption`. A place
  is an agent's queue, a channel of a session, a client or the history of what was lost;
  `PlacesInv` says that no two places share a bundle (`Apart`), which is more than
  `OnePlace` asks within a session, and that none is twice in one queue (`Singles`),
  without which taking the first bundle of a queue would not take it out of its place.
  Every action is then a move from one place to another (`MoveKeeps`).
* Stores, for any ids and any number of restarts: `StoresTypeCorrect`; `TreesDoAgree`
  (`TreesAgree`). `WriteInv` describes the store between two writes, `MetadataInv` and
  `TreesInv` outside of them.
* `StoresImplementContract`: `ImplementsContract`. The refinement mapping takes
  `bundles` for what the store holds and hides the id of a push that is under way:
  its bundle becomes visible with the second write, and a crash before it is the
  contract's restart that leaves one id refused.
* `PartsTypeCorrect`: `PartsTypeOK`, for all eight parts. A step of the composition is a
  step of one part and leaves the others alone (`PartsSteps`), so the invariants of the
  parts hold together (`SideBySide`). For most parts they contain the types already. In
  external routing the types bound the answers that are outstanding and owed; with any
  number of routers that is no sum but a `Ledger`: the requests of a bundle are
  numbered, and each is with one router at most, or spent for one answer.

`BpsecProofs`, from `BpsecAssumption`: any rules that `validate()` accepts at each of the
three nodes, and any number of key reloads at each of them.

* `BpsecTypeCorrect`, `BibsAlwaysFollow` (`BibsFollowTargets`) by `FollowInv`. A
  security block has one target and a number of its own (`Shaped`); the actions left
  still make sense for the bundle as it is by now (`ActionsOK`): their blocks are there
  and readable, their targets are not ciphertext. This ties the list that `enforce` made
  at its beginning to a bundle that changes under it. While decryptions are under way a
  BIB and its target may be apart; `Following` says that every BCB still there is then
  about to be decrypted, unless one failed.
* `AlteredIsNotDelivered` (`AlteredNotDelivered`) by `AlteredInv`: no BIB
  covers altered content unless the gateway signs (`SignedWhole`), and at a destination
  that drops failures an altered block in the clear still has a check ahead that fails
  (`Catching`): a missing operation, or a BIB that is not intact.
* `ProtectedDoesArrive` (`ProtectedArrives`) by `ArrivesInv`, about behaviours in which
  nothing was altered, no key replaced and no signing or encryption failed. `Protected` says which
  blocks a bundle has between source and destination; `AtSource`, `AtGateway` and
  `AtDestination` what is left to do at each node, and `Fresh` that every security block
  covers the primary block with the CRC it has at that moment. This is where the order
  of the actions matters: the primary block is signed first and accepted last,
  because both change the CRC that the other BIBs cover.

Only model-checked: liveness (`GuardReleased`, `JanitorReturns`, `ExpiredGoes`, `Retried`,
`DestinationServed`, `PeersServed`, `TransfersAnswered`, `RequestsReturn`,
`PulledInTheEnd`, `SilentGo`, `SubscriberServed`, `SilentDropped`), which is beyond the
prover. Every invariant that a run checks is a theorem, and so are the action property
and the refinement.

## Not modelled

* Static, flooding and sink routing: stateless answers; `Processing` takes any answer
  of a routing agent.
* The HTTP and UDP convergence layers: single requests without state. `transfer` of
  `Processing` is their specification.
* Encoding: packets of TCPCL, MTCP frames beyond their lengths, CBOR, JSON packets of
  the ECLA and external routing, beacons. `bp7` is a library.
* Cryptography, and the syntax of policy, key and configuration files.
* Extension items of TCPCL, TLS is not in the code.
* The framing of the ECLA's TCP and websocket connectors.
* A clock that jumps forward, which drops peers that were heard of; ages grow by
  seconds here.
* Panics of sled's `get_bundle` and `remove` for an id without metadata. They end the
  task that calls them; inside the sequential janitor that is the janitor, which is not
  started again. Panics that are in the models: under the locks of the ECLA (a second
  rejected `Register`, a `Beacon` that does not decode; `poisoned` in `Ecla`), in the
  pull loop (`PullPanics`), and of an MTCP sender whose connection is gone.
* The parallel mode of HTTP pull.
* Queries that only print, statistics, logging, command line tools.
