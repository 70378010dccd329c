------------------------------ MODULE PeerTable ------------------------------
(***************************************************************************)
(* The table of known peers, PEERS (lib.rs, core/peer.rs), and everyone    *)
(* who changes it: discovery over UDP and mDNS (ipnd/), beacons relayed by *)
(* external convergence layers, TCPCL sessions, the operator's HTTP        *)
(* requests, failed transmissions and the janitor's process_peers.         *)
(*                                                                         *)
(* An entry keeps the age of its last contact by the system clock, which   *)
(* may be set back: ages can be negative.  Ages beyond every limit are not *)
(* told apart.  Addresses, services and convergence layers of a peer are   *)
(* left out, and so are the notifications to the routing agent.            *)
(***************************************************************************)
EXTENDS Integers

CONSTANTS
    Names,          \* node names of possible peers
    Configured,     \* CONFIG.statics
    Configs,        \* possible settings of peer_timeout and custom_timeout
    Periods,        \* beacon periods that peers announce
    NoPeriod,       \* ... or do not
    TooMany,        \* failed_too_much: more failures than this; 3 in the code
    MaxAge,         \* BOUND: no age above is told from another
    MaxSetBack      \* BOUND: seconds the clock may be set back

ASSUME PeerTableAssumption ==
    /\ Configured \subseteq Names
    /\ Configs \subseteq [timeout : Nat, custom : BOOLEAN]
    /\ Periods \subseteq Nat /\ NoPeriod \notin Periods
    /\ TooMany \in Nat /\ MaxSetBack \in Nat
    /\ MaxAge \in Nat
    /\ \A c \in Configs : c.timeout <= MaxAge
    /\ \A p \in Periods : 2 * p <= MaxAge
    /\ \A n \in Names : <<"dtn", n>> \notin Names

VARIABLES
    config,         \* the timeout settings
    table,          \* PEERS
    setBack,        \* seconds the clock was set back so far
    silence,        \* history: seconds since each name was heard of
    pinned          \* history: static peers nobody asked to remove

peerTableVars == <<config, table, setBack, silence, pinned>>

DtnPeer == [con_type : {"Static", "Dynamic"}, period : Periods \cup {NoPeriod},
            age : -MaxSetBack .. MaxAge, fails : 0 .. TooMany + 1]

PeerTableTypeOK ==
    /\ config \in Configs
    /\ DOMAIN table \subseteq Names
    /\ \A n \in DOMAIN table : table[n] \in DtnPeer
    /\ setBack \in 0 .. MaxSetBack
    /\ silence \in [Names -> 0 .. MaxAge]
    /\ pinned \subseteq Names

\* DtnPeer::new.
NewPeer(con, period) == [con_type |-> con, period |-> period, age |-> 0, fails |-> 0]

\* The daemon adds the peers of its configuration.
PeerTableInit ==
    /\ config \in Configs
    /\ table = [n \in Configured |-> NewPeer("Static", NoPeriod)]
    /\ setBack = 0
    /\ silence = [n \in Names |-> 0]
    /\ pinned = Configured

------------------------------------------------------------------------------
\* core/peer.rs.

\* MISTAKE: a beacon makes any peer dynamic.
UpdateAll(old, new) == [new EXCEPT !.fails = old.fails]

\* update: a static peer stays static, failures are kept.
Update(old, new) ==
    [new EXCEPT !.fails = old.fails,
                !.con_type = IF old.con_type = "Static" THEN "Static" ELSE @]

\* MISTAKE: without a custom timeout a peer without period never expires.
MaxSilencePeriodOnly(p) ==
    IF p.period # NoPeriod THEN p.period * 2
    ELSE IF config.custom THEN config.timeout ELSE MaxAge + 1

\* A custom timeout applies to all; else twice the period, if there is one.
MaxSilence(p) ==
    IF p.period # NoPeriod /\ ~(config.custom /\ config.timeout > 0)
    THEN p.period * 2 ELSE config.timeout

\* MISTAKE: the subtraction wraps when the clock was set back.
SilentForWrapped(p) == IF p.age < 0 THEN MaxAge ELSE p.age

\* now.saturating_sub(last_contact).
SilentFor(p) == IF p.age < 0 THEN 0 ELSE p.age

StillValid(p) == p.con_type = "Static" \/ SilentFor(p) < MaxSilence(p)

------------------------------------------------------------------------------
\* lib.rs.

\* peers_add.
Added(n, peer) ==
    [m \in DOMAIN table \cup {n} |->
        IF m # n THEN table[m] ELSE IF n \in DOMAIN table THEN Update(table[n], peer) ELSE peer]

\* peers_touch, of a peer that is there.
Touched(n) == IF n \in DOMAIN table THEN [table EXCEPT ![n].age = 0] ELSE table

\* peers_remove.
TableWithout(keys) == [n \in DOMAIN table \ keys |-> table[n]]

\* Something was heard of n.
Heard(n) == silence' = [silence EXCEPT ![n] = 0]

------------------------------------------------------------------------------
\* Who changes the table.

\* A beacon over UDP, with or without a period.
Announced(n, period) ==
    /\ table' = Added(n, NewPeer("Dynamic", period))
    /\ Heard(n)
    /\ UNCHANGED <<config, setBack, pinned>>

\* A service that mDNS resolved has no period.
ServiceResolved(n) == Announced(n, NoPeriod)

\* Neither has a beacon that an external convergence layer relays.
EclaBeacon(n) == Announced(n, NoPeriod)

\* mDNS found the service again: only a known peer is touched.
ServiceFound(n) ==
    /\ n \in DOMAIN table
    /\ table' = Touched(n)
    /\ Heard(n)
    /\ UNCHANGED <<config, setBack, pinned>>

\* The node id under which a node registers its service: its endpoint id.
InstanceName(n) == <<"dtn", n>>

\* handle_mdns_peer_removed.  No peer has that name, so nothing goes.
ServiceRemoved(n) ==
    /\ table' = TableWithout({InstanceName(n)})
    /\ UNCHANGED <<config, setBack, silence, pinned>>

\* A TCPCL session that the peer opened makes it known.
SessionOpened(n) ==
    /\ n \notin DOMAIN table
    /\ table' = Added(n, NewPeer("Dynamic", NoPeriod))
    /\ Heard(n)
    /\ UNCHANGED <<config, setBack, pinned>>

\* A bundle received over TCPCL counts as contact.
BundleReceived(n) ==
    /\ table' = Touched(n)
    /\ Heard(n)
    /\ UNCHANGED <<config, setBack, pinned>>

\* /peers/add.
HttpAdd(n, con) ==
    /\ table' = Added(n, NewPeer(con, NoPeriod))
    /\ pinned' = IF con = "Static" THEN pinned \cup {n} ELSE pinned
    /\ Heard(n)
    /\ UNCHANGED <<config, setBack>>

\* /peers/del.
HttpDelete(n) ==
    /\ n \in DOMAIN table
    /\ table' = TableWithout({n})
    /\ pinned' = pinned \ {n}
    /\ UNCHANGED <<config, setBack, silence>>

\* report_failed_transmission.  No count above the limit is told from another.
ReportFailedTransmission(n) ==
    /\ n \in DOMAIN table
    /\ LET fails == IF table[n].fails > TooMany THEN table[n].fails ELSE table[n].fails + 1
       IN  IF fails > TooMany /\ table[n].con_type = "Dynamic"
           THEN table' = TableWithout({n})
           ELSE table' = [table EXCEPT ![n].fails = fails]
    /\ UNCHANGED <<config, setBack, silence, pinned>>

\* The peers process_peers removes.
Invalid == {n \in DOMAIN table : ~StillValid(table[n])}

RemoveInvalidPeers ==
    /\ Invalid # {}
    /\ table' = TableWithout(Invalid)
    /\ UNCHANGED <<config, setBack, silence, pinned>>

------------------------------------------------------------------------------
\* The system clock.

Older(age) == IF age = MaxAge THEN age ELSE age + 1

SecondPasses ==
    /\ table' = [n \in DOMAIN table |-> [table[n] EXCEPT !.age = Older(@)]]
    /\ silence' = [n \in Names |-> Older(silence[n])]
    /\ table' # table
    /\ UNCHANGED <<config, setBack, pinned>>

ClockSetBack ==
    /\ setBack < MaxSetBack
    /\ setBack' = setBack + 1
    /\ table' = [n \in DOMAIN table |-> [table[n] EXCEPT !.age = @ - 1]]
    /\ UNCHANGED <<config, silence, pinned>>

PeerTableNext ==
    \/ \E n \in Names :
          \/ \E period \in Periods \cup {NoPeriod} : Announced(n, period)
          \/ \E con \in {"Static", "Dynamic"} : HttpAdd(n, con)
          \/ ServiceResolved(n) \/ ServiceFound(n) \/ ServiceRemoved(n) \/ EclaBeacon(n)
          \/ SessionOpened(n) \/ BundleReceived(n)
          \/ HttpDelete(n)
          \/ ReportFailedTransmission(n)
    \/ RemoveInvalidPeers
    \/ SecondPasses
    \/ ClockSetBack

\* The janitor runs again and again, and time goes on.
PeerTableFairness == WF_peerTableVars(RemoveInvalidPeers) /\ WF_peerTableVars(SecondPasses)

PeerTableSpec == PeerTableInit /\ [][PeerTableNext]_peerTableVars /\ PeerTableFairness

------------------------------------------------------------------------------
\* Properties.

\* A static peer leaves the table only when the operator removes it, whatever
\* beacons of its name arrive, transmissions fail and time passes.
PinnedStay == pinned \subseteq DOMAIN table

\* The janitor drops nobody who was heard of within its limit, by beacon, session
\* or bundle, also when the clock was set back since.
HeardStay == \A n \in Invalid : silence[n] >= MaxSilence(table[n])

\* A dynamic peer does not stay for ever without a contact: it is heard of again
\* and again, unless it leaves.
SilentGo ==
    \A n \in Names :
        <>[](n \in DOMAIN table /\ table[n].con_type = "Dynamic")
          => []<>(n \in DOMAIN table /\ table[n].age <= 0)
==============================================================================
