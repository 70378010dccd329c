--------------------------------- MODULE Ecla ---------------------------------
(***************************************************************************)
(* External convergence layers (cla/ecla, cla/external.rs): a module       *)
(* connects over TCP or a websocket, registers under a name, and appears   *)
(* to the node as a convergence layer of that name until it disconnects.   *)
(*                                                                         *)
(* The readers of the connections, the announcer of beacons and the tasks  *)
(* that submit bundles share MODULE_MAP and CONNECTORS_MAP, each behind a  *)
(* blocking mutex.  A step is what a thread does between two acquisitions; *)
(* a reader holds MODULE_MAP while it takes CONNECTORS_MAP, a submission   *)
(* does it the other way round.                                            *)
(***************************************************************************)
EXTENDS Naturals

CONSTANTS
    Links,          \* connections of modules
    LayerNames,     \* names modules register
    Submissions,    \* bundles the node sends through external layers
    MaxRegisters    \* bound: packets per connection

ASSUME EclaAssumption == MaxRegisters \in Nat

VARIABLES
    link,           \* connection -> step of its reader
    module,         \* MODULE_MAP: connection -> the module's state and name
    packet,         \* connection -> name in the packet at hand, if that is a Register
    registers,      \* connection -> packets so far
    closing,        \* connections whose close channel was used
    layers,         \* CLAS: name -> number of layers of that name
    modulesLock,    \* holder of MODULE_MAP, or Free
    connectorsLock, \* holder of CONNECTORS_MAP, or Free
    announcer,      \* connections the announcer still has to send a beacon
    submission,     \* submission -> its step and name
    poisoned        \* the maps a thread held when it panicked

eclaVars == <<link, module, packet, registers, closing, layers, modulesLock, connectorsLock,
              announcer, submission, poisoned>>

Free == "free"
NoName == ""
NoModule == [state |-> "none", name |-> NoName]
LinkStep == {"off", "open", "check", "register", "forget", "closed", "dead"}

EclaTypeOK ==
    /\ link \in [Links -> LinkStep]
    /\ module \in [Links -> [state : {"none", "waiting", "active"}, name : LayerNames \cup {NoName}]]
    /\ packet \in [Links -> LayerNames \cup {NoName}]
    /\ registers \in [Links -> 0 .. MaxRegisters]
    /\ closing \subseteq Links
    /\ layers \in [LayerNames -> 0 .. 1]
    /\ {modulesLock, connectorsLock} \subseteq Links \cup Submissions \cup {Free, "announcer"}
    /\ announcer \subseteq Links
    /\ submission \in [Submissions ->
           [step : {"new", "queued", "connectors", "done", "dead"}, name : LayerNames,
            result : {"none", "Successful", "Failure"}]]
    /\ poisoned \subseteq {"modules", "connectors"}

\* start_ecla: no module is connected.
EclaInit ==
    /\ link = [c \in Links |-> "off"]
    /\ module = [c \in Links |-> NoModule]
    /\ packet = [c \in Links |-> NoName]
    /\ registers = [c \in Links |-> 0]
    /\ closing = {}
    /\ layers = [n \in LayerNames |-> 0]
    /\ modulesLock = Free /\ connectorsLock = Free
    /\ announcer = {}
    /\ submission \in [Submissions -> [step : {"new"}, name : LayerNames, result : {"none"}]]
    /\ poisoned = {}

LinkAt(c, step) == link' = [link EXCEPT ![c] = step]

\* lock().unwrap() of a map panics once a thread died holding it.
Usable(map) == map \notin poisoned

------------------------------------------------------------------------------
\* The reader of a connection.

\* handle_connection, handle_connect.
Connect(c) ==
    /\ link[c] = "off" /\ Usable("modules")
    /\ modulesLock = Free
    /\ module' = [module EXCEPT ![c] = [state |-> "waiting", name |-> NoName]]
    /\ LinkAt(c, "open")
    /\ UNCHANGED <<packet, registers, closing, layers, modulesLock, connectorsLock, announcer,
                   submission, poisoned>>

\* handle_packet takes MODULE_MAP.  Packets read along with the one that made
\* the node close the connection are still handled.
PacketArrives(c, n) ==
    /\ link[c] = "open" /\ registers[c] < MaxRegisters /\ Usable("modules")
    /\ modulesLock = Free
    /\ modulesLock' = c
    /\ packet' = [packet EXCEPT ![c] = n]
    /\ registers' = [registers EXCEPT ![c] = @ + 1]
    /\ LinkAt(c, "check")
    /\ UNCHANGED <<module, closing, layers, connectorsLock, announcer, submission, poisoned>>

\* The connector is looked up under CONNECTORS_MAP, which is given back.  An
\* active module's ForwardData or Beacon is passed on and the reader goes on.
CheckConnector(c) ==
    /\ link[c] = "check"
    /\ connectorsLock = Free
    /\ IF module[c].state = "waiting"
       THEN LinkAt(c, "register") /\ UNCHANGED modulesLock
       ELSE LinkAt(c, "open") /\ modulesLock' = Free
    /\ UNCHANGED <<module, packet, registers, closing, layers, connectorsLock, announcer,
                   submission, poisoned>>

\* A Beacon of an active module whose service block does not decode: the reader
\* panics with MODULE_MAP.
BadBeacon(c) ==
    /\ link[c] = "check"
    /\ connectorsLock = Free
    /\ module[c].state = "active"
    /\ poisoned' = poisoned \cup {"modules"}
    /\ LinkAt(c, "dead")
    /\ modulesLock' = Free
    /\ UNCHANGED <<module, packet, registers, closing, layers, connectorsLock, announcer, submission>>

\* The name is empty, too long, or one of cla_names.
Refused(n) == IF n = NoName THEN TRUE ELSE layers[n] > 0

Answered(c) == LinkAt(c, "open") /\ modulesLock' = Free

\* MISTAKE: the name may be taken.
RegisterAnyway(c) ==
    /\ link[c] = "register"
    /\ connectorsLock = Free
    /\ packet[c] # NoName
    /\ module' = [module EXCEPT ![c] = [state |-> "active", name |-> packet[c]]]
    /\ layers' = [layers EXCEPT ![packet[c]] = @ + 1]
    /\ Answered(c)
    /\ UNCHANGED <<packet, registers, closing, connectorsLock, announcer, submission, poisoned>>

\* Register with a free name: the layer is added and the module told.
Register(c) ==
    /\ link[c] = "register"
    /\ connectorsLock = Free
    /\ ~Refused(packet[c])
    /\ module' = [module EXCEPT ![c] = [state |-> "active", name |-> packet[c]]]
    /\ layers' = [layers EXCEPT ![packet[c]] = @ + 1]
    /\ Answered(c)
    /\ UNCHANGED <<packet, registers, closing, connectorsLock, announcer, submission, poisoned>>

\* Register with an invalid or taken name: an Error packet, and close.
Reject(c) ==
    /\ link[c] = "register"
    /\ connectorsLock = Free
    /\ Refused(packet[c])
    /\ c \notin closing
    /\ closing' = closing \cup {c}
    /\ Answered(c)
    /\ UNCHANGED <<module, packet, registers, layers, connectorsLock, announcer, submission, poisoned>>

\* A second rejection finds the close channel gone and panics with both locks.
RejectAgain(c) ==
    /\ link[c] = "register"
    /\ connectorsLock = Free
    /\ Refused(packet[c])
    /\ c \in closing
    /\ poisoned' = {"modules", "connectors"}
    /\ LinkAt(c, "dead")
    /\ modulesLock' = Free
    /\ UNCHANGED <<module, packet, registers, closing, layers, connectorsLock, announcer, submission>>

\* MISTAKE: the layer stays when its module disconnects.
DisconnectKeepsLayer(c) ==
    /\ link[c] = "open" /\ Usable("modules")
    /\ modulesLock = Free
    /\ LinkAt(c, "forget")
    /\ UNCHANGED <<module, packet, registers, closing, layers, modulesLock, connectorsLock, announcer,
                   submission, poisoned>>

\* handle_disconnect, first half: the layers of an active module's name go.
Disconnect(c) ==
    /\ link[c] = "open" /\ Usable("modules")
    /\ modulesLock = Free
    /\ layers' = IF module[c].state = "active" THEN [layers EXCEPT ![module[c].name] = 0] ELSE layers
    /\ LinkAt(c, "forget")
    /\ UNCHANGED <<module, packet, registers, closing, modulesLock, connectorsLock, announcer,
                   submission, poisoned>>

\* Second half: the module goes.
ForgetModule(c) ==
    /\ link[c] = "forget" /\ Usable("modules")
    /\ modulesLock = Free
    /\ module' = [module EXCEPT ![c] = NoModule]
    /\ LinkAt(c, "closed")
    /\ UNCHANGED <<packet, registers, closing, layers, modulesLock, connectorsLock, announcer,
                   submission, poisoned>>

------------------------------------------------------------------------------
\* The announcer.

\* MODULE_MAP is held for the whole round.
BeginBeacons ==
    /\ announcer = {} /\ Usable("modules")
    /\ modulesLock = Free
    /\ \E c \in Links : module[c].state # "none"
    /\ announcer' = {c \in Links : module[c].state # "none"}
    /\ modulesLock' = "announcer"
    /\ UNCHANGED <<link, module, packet, registers, closing, layers, connectorsLock, submission, poisoned>>

\* CONNECTORS_MAP is taken for each module.
SendBeacon(c) ==
    /\ c \in announcer
    /\ connectorsLock = Free
    /\ announcer' = announcer \ {c}
    /\ modulesLock' = IF announcer = {c} THEN Free ELSE modulesLock
    /\ UNCHANGED <<link, module, packet, registers, closing, layers, connectorsLock, submission, poisoned>>

------------------------------------------------------------------------------
\* scheduled_submission.

\* A Transfer command for a layer that is listed; its task spawns the submission.
Transfer(s) ==
    /\ submission[s].step = "new"
    /\ layers[submission[s].name] > 0
    /\ submission' = [submission EXCEPT ![s].step = "queued"]
    /\ UNCHANGED <<link, module, packet, registers, closing, layers, modulesLock, connectorsLock,
                   announcer, poisoned>>

\* CONNECTORS_MAP first.
BeginSubmission(s) ==
    /\ submission[s].step = "queued" /\ Usable("connectors")
    /\ connectorsLock = Free
    /\ connectorsLock' = s
    /\ submission' = [submission EXCEPT ![s].step = "connectors"]
    /\ UNCHANGED <<link, module, packet, registers, closing, layers, modulesLock, announcer, poisoned>>

\* Then MODULE_MAP; the packet goes to every module of the name.
Submit(s) ==
    /\ submission[s].step = "connectors"
    /\ modulesLock = Free /\ Usable("modules")
    /\ connectorsLock' = Free
    /\ submission' = [submission EXCEPT
           ![s].step = "done",
           ![s].result = IF \E c \in Links : module[c].name = submission[s].name
                         THEN "Successful" ELSE "Failure"]
    /\ UNCHANGED <<link, module, packet, registers, closing, layers, modulesLock, announcer, poisoned>>

\* MODULE_MAP is poisoned: the submission panics with CONNECTORS_MAP.
SubmitPanics(s) ==
    /\ submission[s].step = "connectors"
    /\ modulesLock = Free /\ ~Usable("modules")
    /\ connectorsLock' = Free
    /\ poisoned' = poisoned \cup {"connectors"}
    /\ submission' = [submission EXCEPT ![s].step = "dead"]
    /\ UNCHANGED <<link, module, packet, registers, closing, layers, modulesLock, announcer>>

EclaNext ==
    \/ \E c \in Links :
          \/ Connect(c) \/ CheckConnector(c) \/ BadBeacon(c)
          \/ Register(c) \/ Reject(c) \/ RejectAgain(c)
          \/ Disconnect(c) \/ ForgetModule(c) \/ SendBeacon(c)
          \/ \E n \in LayerNames \cup {NoName} : PacketArrives(c, n)
    \/ BeginBeacons
    \/ \E s \in Submissions : Transfer(s) \/ BeginSubmission(s) \/ Submit(s) \/ SubmitPanics(s)

\* Every thread that can go on does.
EclaFairness ==
    /\ \A c \in Links :
          /\ SF_eclaVars(CheckConnector(c) \/ BadBeacon(c))
          /\ SF_eclaVars(Register(c) \/ Reject(c) \/ RejectAgain(c))
          /\ SF_eclaVars(SendBeacon(c))
    /\ \A s \in Submissions : SF_eclaVars(Submit(s) \/ SubmitPanics(s))

EclaSpec == EclaInit /\ [][EclaNext]_eclaVars /\ EclaFairness

------------------------------------------------------------------------------
\* Properties.

\* The convergence layers of the node are exactly the active modules: no two
\* modules act under one name, every active module is listed until it leaves,
\* and every listed layer has a module behind it.
LayersAreModules ==
    \A n \in LayerNames :
        LET active == {c \in Links : module[c] = [state |-> "active", name |-> n]
                                     /\ link[c] # "forget"}
        IN /\ \A c, d \in active : c = d
           /\ (layers[n] > 0) <=> (active # {})

\* "If the registration is successful, the ECLA responds with a Registered
\* packet [...] If an error occurred, an Error packet will be returned"
\* (doc/ecla.md): a Register packet is answered.
RegisterAnswered ==
    \A c \in Links : link[c] \in {"check", "register"} ~> link[c] \notin {"check", "register"}
==============================================================================
