------------------------------ MODULE MCParts -------------------------------
(***************************************************************************)
(* Parts of the node that share no state with each other, checked side by  *)
(* side for TLC: a behaviour is about one of them, and the others stay     *)
(* where they began.                                                       *)
(***************************************************************************)
EXTENDS ERouting, Ecla, Mtcp, HttpPull, PeerTable, Stores, Bpsec, WsSession, TLC

CONSTANTS
    Parts           \* the parts to check

------------------------------------------------------------------------------
\* A bundle with two constraints, which print in either order.
MCOrders == [b \in Routed |-> {1, 2}]

\* Bundles on either side of the first change of the header's length.
MCLength == [s \in Senders |-> IF s = "s1" THEN 23 ELSE 24]

\* The default timeout, none at all, and one the operator asked for.
MCConfigs == {[timeout |-> 2, custom |-> FALSE], [timeout |-> 0, custom |-> TRUE],
              [timeout |-> 3, custom |-> TRUE]}

\* One application whose address two sessions contend for, and a client that falls
\* silent or stops reading.
MCAgentOf == [b \in Mail |-> "inbox"]
MCCasts == {[mail |-> {"m1"}, messages |-> [w \in Clients |-> IF w = "w1" THEN 1 ELSE 2],
             fickle |-> {}],
            [mail |-> Mail, messages |-> [w \in Clients |-> IF w = "w1" THEN 2 ELSE 0],
             fickle |-> {"w1"}]}

\* Sources that sign, encrypt, both or neither, gateways that verify, remove, accept
\* and sign anew or encrypt, destinations that accept some of it.
R(role, op, targets, fail) ==
    [role |-> role, operation |-> op, targets |-> targets, on_failure |-> fail, matching |-> TRUE]

MCPolicies == [
    S |-> {<<>>,
           <<R("source", "bib", <<1, 0>>, "drop")>>,
           <<R("source", "bcb", <<1>>, "log"), R("source", "bib", <<0>>, "drop"),
             R("source", "bib", <<1>>, "log")>>,
           <<R("source", "bcb", <<0, 1>>, "drop")>>},
    G |-> {<<R("verifier", "bib", <<0>>, "drop")>>,
           <<R("verifier", "bib", <<1>>, "remove")>>,
           <<R("acceptor", "bib", <<1>>, "log"), R("source", "bib", <<1>>, "drop"),
             R("source", "bcb", <<1>>, "log"),
             [R("source", "bib", <<0>>, "drop") EXCEPT !.matching = FALSE]>>},
    D |-> {<<R("acceptor", "bib", <<0, 1>>, "drop")>>,
           <<R("acceptor", "bib", <<0, 1>>, "drop"), R("acceptor", "bcb", <<1>>, "drop")>>,
           <<R("verifier", "bib", <<0>>, "log"), R("acceptor", "bcb", <<1>>, "log"),
             R("acceptor", "bib", <<1>>, "remove")>>}]

------------------------------------------------------------------------------
VARIABLE part       \* the part this behaviour is about

partsVars == <<part, eroutingVars, eclaVars, mtcpVars, pullVars, peerTableVars,
               storesVars, bpsecVars, wsVars>>

PartsInit ==
    /\ part \in Parts
    /\ ERoutingInit /\ MtcpInit
    /\ EclaInit
    /\ part # "ecla" => \A s \in Submissions : submission[s].name = CHOOSE n \in LayerNames : TRUE
    /\ HttpPullInit /\ (part # "httppull" => there = {})
    /\ PeerTableInit /\ (part # "peers" => config = CHOOSE c \in Configs : TRUE)
    /\ StoresInit /\ (part # "stores" => backend = CHOOSE b \in Backends : TRUE)
    /\ BpsecInit
    /\ part # "bpsec" => policy = [n \in Node |-> CHOOSE p \in Policies[n] : TRUE] /\ kept.crc
    /\ WsInit /\ (part # "ws" => cast = CHOOSE c \in Casts : TRUE)

OnlyPart(p) ==
    /\ part = p
    /\ UNCHANGED part
    /\ p # "erouting" => UNCHANGED eroutingVars
    /\ p # "ecla" => UNCHANGED eclaVars
    /\ p # "mtcp" => UNCHANGED mtcpVars
    /\ p # "httppull" => UNCHANGED pullVars
    /\ p # "peers" => UNCHANGED peerTableVars
    /\ p # "stores" => UNCHANGED storesVars
    /\ p # "bpsec" => UNCHANGED bpsecVars
    /\ p # "ws" => UNCHANGED wsVars

PartsNext ==
    \/ OnlyPart("erouting") /\ ERoutingNext
    \/ OnlyPart("ecla") /\ EclaNext
    \/ OnlyPart("mtcp") /\ MtcpNext
    \/ OnlyPart("httppull") /\ HttpPullNext
    \/ OnlyPart("peers") /\ PeerTableNext
    \/ OnlyPart("stores") /\ StoresNext
    \/ OnlyPart("bpsec") /\ BpsecNext
    \/ OnlyPart("ws") /\ WsNext

\* The fairness of each part, for the behaviours that are about it.
PartsFairness ==
    /\ \A b \in Routed : WF_eroutingVars(part = "erouting" /\ RequestRuns(b))
    /\ WF_pullVars(part = "httppull" /\ PullStep)
    /\ \A i \in Shared : WF_pullVars(part = "httppull" /\ ReceivePulled(i))
    /\ WF_peerTableVars(part = "peers" /\ RemoveInvalidPeers)
    /\ WF_peerTableVars(part = "peers" /\ SecondPasses)
    /\ \A w \in Clients :
          /\ WF_wsVars(part = "ws" /\ TakeMail(w)) /\ WF_wsVars(part = "ws" /\ DeliverMail(w))
          /\ WF_wsVars(part = "ws" /\ Reflush(w)) /\ WF_wsVars(part = "ws" /\ Heartbeat(w))
          /\ WF_wsVars(part = "ws" /\ Ping(w)) /\ SF_wsVars(part = "ws" /\ WsHolder(w))
          /\ WF_wsVars(part = "ws" /\ ToClient(w)) /\ WF_wsVars(part = "ws" /\ EndSession(w))

PartsSpec == PartsInit /\ [][PartsNext]_partsVars /\ PartsFairness

\* Each part keeps to the types of its variables.
PartsTypeOK ==
    /\ ERoutingTypeOK /\ EclaTypeOK /\ MtcpTypeOK
    /\ HttpPullTypeOK /\ PeerTableTypeOK /\ StoresTypeOK /\ BpsecTypeOK /\ WsTypeOK
=============================================================================
