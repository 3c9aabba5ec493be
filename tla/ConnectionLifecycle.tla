------------------------- MODULE ConnectionLifecycle -------------------------
(***************************************************************************)
(* The connection of ChameleonUltraCoordinator: _ensure_connected and      *)
(* everything it awaits, _on_disconnect, async_shutdown, and the pairing   *)
(* agent of pairing.py.                                                    *)
(*                                                                         *)
(* The poll, the button, the select, the switches and the load_dump        *)
(* service call _ensure_connected from tasks of their own and no lock      *)
(* guards it.  An action is what a task does from one await to the next, or *)
(* what ends its await: between the two the link may drop.                 *)
(*                                                                         *)
(* A BleakClient is the number of the connection that made it, and so is   *)
(* the ChameleonUltraDevice built on it; a D-Bus connection is the number  *)
(* of the agent registration that opened it.  BlueZ has one radio link to  *)
(* the device: when it goes, every client on it is disconnected.           *)
(***************************************************************************)
EXTENDS Naturals, FiniteSets

CONSTANTS
  Callers,      \* tasks that call _ensure_connected
  MaxClients,   \* bound: connections made
  MaxBuses,     \* bound: agent registrations begun
  None

Clients == 1..MaxClients
Buses == 1..MaxBuses

ASSUME BoundsAssumption == MaxClients \in Nat /\ MaxBuses \in Nat
ASSUME NoneAssumption == None \notin Clients \union Buses

VARIABLES
  pc,           \* where each caller is suspended
  target,       \* the client or device a caller's await is about, or it uses
  bus,          \* the D-Bus connection a caller is registering an agent on
  needs_pair,   \* what a caller last learnt from async_is_paired
  _client,      \* the coordinator's client, or None
  _device,      \* the coordinator's device, or None
  _agent_bus,   \* the coordinator's agent connection, or None
  up,           \* clients that are connected
  subscribed,   \* devices whose on_notification the link calls
  sensing,      \* the device answers NFC readers
  open,         \* D-Bus connections that are open
  shutdown,     \* progress of async_shutdown
  closing,      \* [client, bus] async_shutdown is waiting for
  clients,      \* connections made so far
  buses,        \* agent registrations begun so far
  faulty,       \* history: clients whose set-up failed while they stayed up
  lostBuses,    \* history: connections left open by a failed registration
  overlap       \* history: two set-ups overlapped, or a set-up and a shutdown,
                \* or a set-up followed a shutdown

coordinator == <<_client, _device, _agent_bus>>
link == <<up, subscribed, sensing>>
stopping == <<shutdown, closing>>
counters == <<clients, buses>>
history == <<faulty, lostBuses, overlap>>
vars == <<pc, target, bus, needs_pair, coordinator, link, open, stopping,
          counters, history>>

(* Suspended between the fast path and the end of _ensure_connected. *)
SettingUp == {"connecting_bus", "registering", "checking", "connecting",
              "notifying", "notified", "unpairing", "sensing_off", "answered"}

Init ==
  /\ pc = [c \in Callers |-> "idle"]
  /\ target = [c \in Callers |-> None]
  /\ bus = [c \in Callers |-> None]
  /\ needs_pair = [c \in Callers |-> FALSE]
  /\ _client = None /\ _device = None /\ _agent_bus = None
  /\ up = {} /\ subscribed = {} /\ sensing = TRUE
  /\ open = {}
  /\ shutdown = "no" /\ closing = [client |-> None, bus |-> None]
  /\ clients = 0 /\ buses = 0
  /\ faulty = {} /\ lostBuses = {} /\ overlap = FALSE

-----------------------------------------------------------------------------
(* Pieces. *)

Goto(c, where, what) ==
  /\ pc' = [pc EXCEPT ![c] = where]
  /\ target' = [target EXCEPT ![c] = what]

(* The call raises, or its caller is done with the device.  A task cancelled at
   an await leaves behind what a failure there does. *)
Leave(c) == Goto(c, "idle", None)

(* A disconnect that is taken to concern the client only. *)
LinkGoesDownKeepsDevice ==
  /\ up' = {}
  /\ _client' = None
  /\ sensing' = TRUE
  /\ UNCHANGED _device

(* The radio link goes down.  Every connected client calls _on_disconnect,
   which forgets the current client whichever client it is called for. *)
LinkGoesDown ==
  /\ up' = {}
  /\ _client' = None
  /\ _device' = None
  /\ sensing' = TRUE

(* Registering on every connection, or never. *)
AgentAlwaysMissing == TRUE
AgentNeverMissing == FALSE

AgentMissing == _agent_bus = None

(* is_connected, and the device of that connection is there. *)
Ready == _client # None /\ _client \in up /\ _device # None

-----------------------------------------------------------------------------
(* _ensure_connected. *)

(* The fast path: the device of the connection at hand is returned.  Nothing
   stops a call that comes after async_shutdown, such as a refresh asked for
   before it. *)
EnsureFast(c) ==
  /\ pc[c] = "idle"
  /\ Ready
  /\ Goto(c, "using", _device)
  /\ UNCHANGED <<bus, needs_pair, coordinator, link, open, stopping, counters,
                 history>>

(* The slow path forgets the old connection; with no BLE device in sight, or a
   PIN that is no number, it raises.  Otherwise the agent is registered first,
   unless there is one. *)
EnsureSlow(c) ==
  /\ pc[c] = "idle"
  /\ ~Ready
  /\ _client' = None
  /\ _device' = None
  /\ \/ UNCHANGED <<pc, target, overlap>>
     \/ /\ IF AgentMissing THEN Goto(c, "connecting_bus", None)
                           ELSE Goto(c, "checking", None)
        /\ overlap' = (overlap \/ shutdown # "no"
                              \/ \E d \in Callers : pc[d] \in SettingUp)
  /\ UNCHANGED <<bus, needs_pair, _agent_bus, link, open, stopping, counters,
                 faulty, lostBuses>>

(* async_register_agent: a D-Bus connection is opened, the agent is exported
   and registered on it.  If registering raises, the connection stays open. *)
BusConnected(c) ==
  /\ pc[c] = "connecting_bus"
  /\ buses < MaxBuses
  /\ buses' = buses + 1
  /\ open' = open \union {buses + 1}
  /\ bus' = [bus EXCEPT ![c] = buses + 1]
  /\ Goto(c, "registering", None)
  /\ UNCHANGED <<needs_pair, coordinator, link, stopping, clients, history>>

BusFails(c) ==
  /\ pc[c] = "connecting_bus"
  /\ Leave(c)
  /\ UNCHANGED <<bus, needs_pair, coordinator, link, open, stopping, counters,
                 history>>

Registered(c) ==
  /\ pc[c] = "registering"
  /\ _agent_bus' = bus[c]
  /\ Goto(c, "checking", None)
  /\ bus' = [bus EXCEPT ![c] = None]
  /\ UNCHANGED <<needs_pair, _client, _device, link, open, stopping, counters,
                 history>>

RegisterFails(c) ==
  /\ pc[c] = "registering"
  /\ lostBuses' = lostBuses \union {bus[c]}
  /\ bus' = [bus EXCEPT ![c] = None]
  /\ Leave(c)
  /\ UNCHANGED <<needs_pair, coordinator, link, open, stopping, counters,
                 faulty, overlap>>

(* A check that leaves its result unset when it raises. *)
CheckedUnset(c) ==
  /\ pc[c] = "checking"
  /\ \E need \in {FALSE, TRUE, None} : needs_pair' = [needs_pair EXCEPT ![c] = need]
  /\ Goto(c, "connecting", None)
  /\ UNCHANGED <<bus, coordinator, link, open, stopping, counters, history>>

(* async_is_paired; when it raises, the device is assumed unpaired. *)
Checked(c) ==
  /\ pc[c] = "checking"
  /\ \E need \in BOOLEAN : needs_pair' = [needs_pair EXCEPT ![c] = need]
  /\ Goto(c, "connecting", None)
  /\ UNCHANGED <<bus, coordinator, link, open, stopping, counters, history>>

(* establish_connection returns a client, which may have been disconnected again
   by the time the caller runs; a device is made for it and subscribing to its
   notifications begins. *)
Connected(c) ==
  /\ pc[c] = "connecting"
  /\ clients < MaxClients
  /\ clients' = clients + 1
  /\ up' \in {up, up \union {clients + 1}}
  /\ _client' = clients + 1
  /\ _device' = clients + 1
  /\ Goto(c, "notifying", clients + 1)
  /\ UNCHANGED <<bus, needs_pair, _agent_bus, subscribed, sensing, open,
                 stopping, buses, history>>

ConnectFails(c) ==
  /\ pc[c] = "connecting"
  /\ Leave(c)
  /\ UNCHANGED <<bus, needs_pair, coordinator, link, open, stopping, counters,
                 history>>

(* start_notify is over; its caller has yet to resume. *)
NotifyStarted(c) ==
  /\ pc[c] = "notifying"
  /\ target[c] \in up
  /\ subscribed' = subscribed \union {target[c]}
  /\ Goto(c, "notified", target[c])
  /\ UNCHANGED <<bus, needs_pair, coordinator, up, sensing, open, stopping,
                 counters, history>>

(* The command that turns sensing off goes to whatever device the coordinator
   has by now; if it has none, the call raises. *)
Notified(c) ==
  /\ pc[c] = "notified"
  /\ IF _device = None THEN Leave(c) ELSE Goto(c, "sensing_off", _device)
  /\ UNCHANGED <<bus, needs_pair, coordinator, link, open, stopping, counters,
                 history>>

(* start_notify raises: the bond of the current client is removed, if there is
   a client, and the call raises. *)
NotifyFails(c) ==
  /\ pc[c] = "notifying"
  /\ faulty' = faulty \union {target[c]}
  /\ IF _client = None THEN Leave(c) ELSE Goto(c, "unpairing", _client)
  /\ UNCHANGED <<bus, needs_pair, coordinator, link, open, stopping, counters,
                 lostBuses, overlap>>

(* unpair() makes BlueZ forget the device, which takes the link down. *)
Unpaired(c) ==
  /\ pc[c] = "unpairing"
  /\ Leave(c)
  /\ LinkGoesDown
  /\ UNCHANGED <<bus, needs_pair, _agent_bus, subscribed, open, stopping,
                 counters, history>>

UnpairFails(c) ==
  /\ pc[c] = "unpairing"
  /\ Leave(c)
  /\ UNCHANGED <<bus, needs_pair, coordinator, link, open, stopping, counters,
                 history>>

(* The device obeys the sensing command and its answer is there; the caller has
   yet to resume. *)
SensingAnswered(c) ==
  /\ pc[c] = "sensing_off"
  /\ target[c] \in up \intersect subscribed
  /\ sensing' = FALSE
  /\ Goto(c, "answered", target[c])
  /\ UNCHANGED <<bus, needs_pair, coordinator, up, subscribed, open, stopping,
                 counters, history>>

(* The same without the log line that reads the MTU. *)
SensingOffUnlogged(c) ==
  /\ pc[c] = "answered"
  /\ Goto(c, "using", _device)
  /\ UNCHANGED <<bus, needs_pair, coordinator, link, open, stopping, counters,
                 history>>

(* The caller resumes.  Reading the MTU for the log raises when the client is
   gone by now; otherwise the device of the moment is returned. *)
SensingOff(c) ==
  /\ pc[c] = "answered"
  /\ IF _client = None THEN Leave(c) ELSE Goto(c, "using", _device)
  /\ UNCHANGED <<bus, needs_pair, coordinator, link, open, stopping, counters,
                 history>>

(* A failure that is logged and forgotten. *)
SensingFailsIgnored(c) ==
  /\ pc[c] = "sensing_off"
  /\ IF _device = None THEN Leave(c) ELSE Goto(c, "using", _device)
  /\ UNCHANGED <<bus, needs_pair, coordinator, link, open, stopping, counters,
                 history>>

(* No answer, or an error; the device may have obeyed all the same. *)
SensingFails(c) ==
  /\ pc[c] = "sensing_off"
  /\ sensing' \in IF target[c] \in up THEN {FALSE, sensing} ELSE {sensing}
  /\ faulty' = faulty \union {target[c]}
  /\ Leave(c)
  /\ UNCHANGED <<bus, needs_pair, coordinator, up, subscribed, open, stopping,
                 counters, lostBuses, overlap>>

(* The caller has sent its commands. *)
Done(c) ==
  /\ pc[c] = "using"
  /\ Leave(c)
  /\ UNCHANGED <<bus, needs_pair, coordinator, link, open, stopping, counters,
                 history>>

-----------------------------------------------------------------------------
(* The link, and the unloading of the config entry. *)

LinkLost ==
  /\ up # {}
  /\ LinkGoesDown
  /\ UNCHANGED <<pc, target, bus, needs_pair, _agent_bus, subscribed, open,
                 stopping, counters, history>>

(* _teardown_agent up to its await, in the state the shutdown has reached. *)
TeardownFrom(agent) ==
  /\ shutdown' = IF agent # None THEN "unregistering" ELSE "done"
  /\ closing' = [client |-> None, bus |-> agent]

(* async_shutdown starts: a live connection is disconnected first. *)
StartShutdown ==
  /\ shutdown = "no"
  /\ overlap' = (overlap \/ \E c \in Callers : pc[c] \in SettingUp)
  /\ \/ /\ _client # None /\ _client \in up
        /\ shutdown' = "disconnecting"
        /\ closing' = [client |-> _client, bus |-> None]
        /\ UNCHANGED <<_client, _device>>
     \/ /\ ~(_client # None /\ _client \in up)
        /\ _client' = None
        /\ _device' = None
        /\ TeardownFrom(_agent_bus)
  /\ UNCHANGED <<pc, target, bus, needs_pair, _agent_bus, link, open, counters,
                 faulty, lostBuses>>

(* disconnect() returns once its client is down; LinkLost took it there. *)
Disconnected ==
  /\ shutdown = "disconnecting"
  /\ closing.client \notin up
  /\ _client' = None
  /\ _device' = None
  /\ TeardownFrom(_agent_bus)
  /\ UNCHANGED <<pc, target, bus, needs_pair, _agent_bus, link, open, counters,
                 history>>

(* disconnect() raises, and async_shutdown with it. *)
DisconnectFails ==
  /\ shutdown = "disconnecting"
  /\ shutdown' = "failed"
  /\ UNCHANGED <<pc, target, bus, needs_pair, coordinator, link, open, closing,
                 counters, history>>

(* An unregistration that leaves the connection open. *)
UnregisteredOpen ==
  /\ shutdown = "unregistering"
  /\ _agent_bus' = None
  /\ shutdown' = "done"
  /\ closing' = [client |-> None, bus |-> None]
  /\ UNCHANGED <<pc, target, bus, needs_pair, _client, _device, link, open,
                 counters, history>>

(* async_unregister_agent returns; it closes the connection in every case. *)
Unregistered ==
  /\ shutdown = "unregistering"
  /\ open' = open \ {closing.bus}
  /\ _agent_bus' = None
  /\ shutdown' = "done"
  /\ closing' = [client |-> None, bus |-> None]
  /\ UNCHANGED <<pc, target, bus, needs_pair, _client, _device, link, counters,
                 history>>

-----------------------------------------------------------------------------
CallerStep(c) ==
  \/ EnsureFast(c) \/ EnsureSlow(c)
  \/ BusConnected(c) \/ BusFails(c) \/ Registered(c) \/ RegisterFails(c)
  \/ Checked(c) \/ Connected(c) \/ ConnectFails(c)
  \/ NotifyStarted(c) \/ Notified(c) \/ NotifyFails(c)
  \/ Unpaired(c) \/ UnpairFails(c)
  \/ SensingAnswered(c) \/ SensingOff(c) \/ SensingFails(c) \/ Done(c)

Next ==
  \/ \E c \in Callers : CallerStep(c)
  \/ LinkLost
  \/ StartShutdown \/ Disconnected \/ DisconnectFails \/ Unregistered

Spec == Init /\ [][Next]_vars

-----------------------------------------------------------------------------
(* Properties. *)

TypeOK ==
  /\ pc \in [Callers -> SettingUp \union {"idle", "using"}]
  /\ target \in [Callers -> Clients \union {None}]
  /\ bus \in [Callers -> Buses \union {None}]
  /\ needs_pair \in [Callers -> BOOLEAN]
  /\ _client \in Clients \union {None}
  /\ _device \in Clients \union {None}
  /\ _agent_bus \in Buses \union {None}
  /\ up \subseteq Clients /\ subscribed \subseteq Clients
  /\ sensing \in BOOLEAN
  /\ open \subseteq Buses
  /\ shutdown \in {"no", "disconnecting", "unregistering", "done", "failed"}
  /\ closing \in [client : Clients \union {None}, bus : Buses \union {None}]
  /\ clients \in 0..MaxClients /\ buses \in 0..MaxBuses
  /\ faulty \subseteq Clients /\ lostBuses \subseteq Buses
  /\ overlap \in BOOLEAN

(* The coordinator never has a device without its client, nor a device that was
   made for another connection's client, however set-ups, disconnects and the
   shutdown interleave; and a client that was subscribed to and is down has been
   forgotten. *)
ClientDeviceAgree ==
  /\ _device = _client
  /\ _client \in subscribed => _client \in up

(* _ensure_connected never returns None, although _on_disconnect can clear the
   device during any of its awaits, and between the answer to its last command
   and its return. *)
NeverReturnsNone ==
  \A c \in Callers : pc[c] = "using" => target[c] # None

(* As long as two set-ups did not overlap, a device that is handed out is
   subscribed and no longer senses, unless its set-up failed or another task
   is still at it. *)
HandedOutReady ==
  ~overlap =>
    \A c \in Callers : pc[c] = "using" /\ target[c] \in up =>
      \/ target[c] \in faulty
      \/ \E d \in Callers : pc[d] \in SettingUp /\ target[d] = target[c]
      \/ target[c] \in subscribed /\ ~sensing

(* Without an overlap the coordinator loses nothing it opened: the only live
   connection is its client, and every open D-Bus connection is its agent's,
   that of a registration under way, or one whose registration failed. *)
SerialLosesNothing ==
  ~overlap =>
    /\ up \subseteq {_client}
    /\ open \subseteq {_agent_bus} \union {bus[c] : c \in Callers} \union lostBuses

(* Until the integration is unloaded, an agent is there to answer the passkey
   prompt of every connection that may have to pair. *)
PairingHasAgent ==
  \A c \in Callers : pc[c] = "connecting" /\ needs_pair[c] /\ shutdown = "no" =>
    _agent_bus \in open

(* A shutdown that nothing overlapped leaves neither the connection nor the
   agent behind. *)
ShutdownCleans ==
  shutdown = "done" /\ ~overlap =>
    up = {} /\ _client = None /\ _agent_bus = None /\ open \subseteq lostBuses

(* device.py asks the coordinator to subscribe on_notification before any
   command is sent: a device that is handed out is subscribed. *)
SubscribedBeforeUse ==
  \A c \in Callers : pc[c] = "using" => target[c] \in subscribed

(* _ensure_connected says that it stops NFC sensing so that the device does not
   respond to readers until it is told to: a device that is handed out and
   able to answer does not sense. *)
SensingOffWhenHandedOut ==
  \A c \in Callers :
    pc[c] = "using" /\ target[c] \in up \intersect subscribed => ~sensing

(* async_shutdown says that it cleans up on unload: once it is through and
   nobody is connecting any more, nothing is connected. *)
NothingLeft ==
  shutdown = "done" /\ (\A c \in Callers : pc[c] = "idle") => up = {}
=============================================================================
