---------------------- MODULE ConnectionLifecycleProofs ----------------------
(***************************************************************************)
(* Theorems about ConnectionLifecycle, for every set of callers and any    *)
(* number of connections and agent registrations.                          *)
(***************************************************************************)
EXTENDS ConnectionLifecycle, TLAPS

PCs == SettingUp \union {"idle", "using"}

(* An await that concerns a client, a device or a D-Bus connection has one. *)
AwaitInv ==
  \A c \in Callers :
    /\ pc[c] \in {"notifying", "notified", "unpairing", "sensing_off",
                  "answered", "using"} => target[c] # None
    /\ pc[c] = "registering" => bus[c] # None

(* Connections are numbered in the order they are made; the device is the one
   of the client, and a subscribed client is up as long as the coordinator
   keeps it. *)
LinkInv ==
  /\ up \subseteq 1..clients /\ subscribed \subseteq 1..clients
  /\ _client # None => _client \in 1..clients
  /\ ClientDeviceAgree

(* Until the unload begins, the agent the coordinator knows has its D-Bus
   connection, a registration under way has one too, and whoever is past the
   registration has an agent. *)
AgentInv ==
  shutdown = "no" =>
    /\ \A c \in Callers : pc[c] = "registering" => bus[c] \in open
    /\ _agent_bus # None => _agent_bus \in open
    /\ \A c \in Callers : pc[c] \in {"checking", "connecting"} => _agent_bus # None

Inv == TypeOK /\ AwaitInv /\ LinkInv /\ AgentInv

-----------------------------------------------------------------------------
(* Where an action sends its caller. *)
LEMMA GotoType ==
  ASSUME TypeOK, NEW c \in Callers, NEW where \in PCs,
         NEW what \in Clients \union {None}, Goto(c, where, what)
  PROVE  /\ pc' \in [Callers -> PCs]
         /\ target' \in [Callers -> Clients \union {None}]
         /\ pc'[c] = where /\ target'[c] = what
         /\ \A d \in Callers \ {c} : pc'[d] = pc[d] /\ target'[d] = target[d]
  BY DEF TypeOK, Goto, PCs

(* A caller that raises or returns. *)
LEMMA LeaveType ==
  ASSUME TypeOK, NEW c \in Callers, Leave(c)
  PROVE  /\ pc' \in [Callers -> PCs]
         /\ target' \in [Callers -> Clients \union {None}]
         /\ pc'[c] = "idle"
         /\ \A d \in Callers \ {c} : pc'[d] = pc[d] /\ target'[d] = target[d]
  BY GotoType DEF Leave, PCs

(* The coordinator starts with no client, no agent and nobody waiting. *)
LEMMA InvInit == Init => Inv
  <1> SUFFICES ASSUME Init PROVE Inv
    OBVIOUS
  <1>1. TypeOK
    <2>1. pc \in [Callers -> SettingUp \union {"idle", "using"}]
      BY DEF Init
    <2>2. closing \in [client : Clients \union {None}, bus : Buses \union {None}]
      BY DEF Init
    <2>3. clients \in 0..MaxClients /\ buses \in 0..MaxBuses
      BY BoundsAssumption DEF Init
    <2> QED
      BY <2>1, <2>2, <2>3 DEF Init, TypeOK
  <1>2. AwaitInv /\ LinkInv
    BY DEF Init, LinkInv, ClientDeviceAgree, AwaitInv
  <1>3. AgentInv
    BY DEF Init, AgentInv
  <1> QED
    BY <1>1, <1>2, <1>3 DEF Inv

(* Types: one step per action. *)
LEMMA TypeStep ==
  ASSUME Inv, [Next]_vars
  PROVE  TypeOK'
  <1> USE BoundsAssumption DEF Inv, coordinator, link, stopping, counters, history
  <1>1. ASSUME NEW c \in Callers, EnsureFast(c) PROVE TypeOK'
    BY <1>1, GotoType DEF EnsureFast, TypeOK, PCs
  <1>2. ASSUME NEW c \in Callers, EnsureSlow(c) PROVE TypeOK'
    BY <1>2, GotoType DEF EnsureSlow, TypeOK, PCs, SettingUp
  <1>3. ASSUME NEW c \in Callers, BusConnected(c) PROVE TypeOK'
    BY <1>3, GotoType DEF BusConnected, TypeOK, PCs, SettingUp, Buses
  <1>4. ASSUME NEW c \in Callers, BusFails(c) PROVE TypeOK'
    BY <1>4, LeaveType DEF BusFails, TypeOK, PCs
  <1>5. ASSUME NEW c \in Callers, Registered(c) PROVE TypeOK'
    BY <1>5, GotoType DEF Registered, TypeOK, PCs, SettingUp
  <1>6. ASSUME NEW c \in Callers, RegisterFails(c) PROVE TypeOK'
    BY <1>6, LeaveType DEF RegisterFails, AwaitInv, TypeOK, PCs
  <1>7. ASSUME NEW c \in Callers, Checked(c) PROVE TypeOK'
    BY <1>7, GotoType DEF Checked, TypeOK, PCs, SettingUp
  <1>8. ASSUME NEW c \in Callers, Connected(c) PROVE TypeOK'
    BY <1>8, GotoType DEF Connected, TypeOK, PCs, SettingUp, Clients
  <1>9. ASSUME NEW c \in Callers, ConnectFails(c) PROVE TypeOK'
    BY <1>9, LeaveType DEF ConnectFails, TypeOK, PCs
  <1>10. ASSUME NEW c \in Callers, NotifyStarted(c) PROVE TypeOK'
    BY <1>10, GotoType DEF NotifyStarted, TypeOK, PCs, SettingUp
  <1>11. ASSUME NEW c \in Callers, Notified(c) PROVE TypeOK'
    BY <1>11, GotoType, LeaveType DEF Notified, TypeOK, PCs, SettingUp
  <1>12. ASSUME NEW c \in Callers, NotifyFails(c) PROVE TypeOK'
    BY <1>12, GotoType, LeaveType
    DEF NotifyFails, AwaitInv, TypeOK, PCs, SettingUp
  <1>13. ASSUME NEW c \in Callers, Unpaired(c) PROVE TypeOK'
    BY <1>13, LeaveType DEF Unpaired, LinkGoesDown, TypeOK, PCs
  <1>14. ASSUME NEW c \in Callers, UnpairFails(c) PROVE TypeOK'
    BY <1>14, LeaveType DEF UnpairFails, TypeOK, PCs
  <1>15. ASSUME NEW c \in Callers, SensingAnswered(c) PROVE TypeOK'
    BY <1>15, GotoType DEF SensingAnswered, TypeOK, PCs, SettingUp
  <1>16. ASSUME NEW c \in Callers, SensingOff(c) PROVE TypeOK'
    BY <1>16, GotoType, LeaveType DEF SensingOff, TypeOK, PCs
  <1>17. ASSUME NEW c \in Callers, SensingFails(c) PROVE TypeOK'
    <2>1. sensing' \in BOOLEAN
      BY <1>17 DEF SensingFails, TypeOK
    <2>2. faulty' \subseteq Clients
      BY <1>17 DEF SensingFails, AwaitInv, TypeOK
    <2> QED
      BY <1>17, <2>1, <2>2, LeaveType DEF SensingFails, TypeOK, PCs
  <1>18. ASSUME NEW c \in Callers, Done(c) PROVE TypeOK'
    BY <1>18, LeaveType DEF Done, TypeOK, PCs
  <1>19. CASE LinkLost
    BY <1>19 DEF LinkLost, LinkGoesDown, TypeOK
  <1>20. CASE StartShutdown
    BY <1>20 DEF StartShutdown, TeardownFrom, TypeOK
  <1>21. CASE Disconnected
    BY <1>21 DEF Disconnected, TeardownFrom, TypeOK
  <1>22. CASE DisconnectFails
    BY <1>22 DEF DisconnectFails, TypeOK
  <1>23. CASE Unregistered
    BY <1>23 DEF Unregistered, TypeOK
  <1>24. CASE UNCHANGED vars
    BY <1>24 DEF vars, TypeOK
  <1> QED
    BY <1>1, <1>2, <1>3, <1>4, <1>5, <1>6, <1>7, <1>8, <1>9, <1>10, <1>11,
       <1>12, <1>13, <1>14, <1>15, <1>16, <1>17, <1>18, <1>19, <1>20, <1>21,
       <1>22, <1>23, <1>24 DEF Next, CallerStep

(* Awaits: the device a caller goes on with is that of the current client. *)
LEMMA AwaitStep ==
  ASSUME Inv, [Next]_vars
  PROVE  AwaitInv'
  <1> USE BoundsAssumption, NoneAssumption DEF Inv, coordinator, link, stopping, counters, history,
             AwaitInv, LinkInv, ClientDeviceAgree
  <1>1. ASSUME NEW c \in Callers, EnsureFast(c) PROVE AwaitInv'
    BY <1>1, GotoType DEF EnsureFast, Ready, TypeOK, PCs
  <1>2. ASSUME NEW c \in Callers, EnsureSlow(c) PROVE AwaitInv'
    BY <1>2 DEF EnsureSlow, Goto, TypeOK
  <1>3. ASSUME NEW c \in Callers, BusConnected(c) PROVE AwaitInv'
    BY <1>3 DEF BusConnected, Goto, TypeOK, Buses
  <1>4. ASSUME NEW c \in Callers, BusFails(c) PROVE AwaitInv'
    BY <1>4, LeaveType DEF BusFails, TypeOK, PCs
  <1>5. ASSUME NEW c \in Callers, Registered(c) PROVE AwaitInv'
    BY <1>5 DEF Registered, Goto, TypeOK
  <1>6. ASSUME NEW c \in Callers, RegisterFails(c) PROVE AwaitInv'
    BY <1>6, LeaveType DEF RegisterFails, TypeOK, PCs
  <1>7. ASSUME NEW c \in Callers, Checked(c) PROVE AwaitInv'
    BY <1>7 DEF Checked, Goto, TypeOK
  <1>8. ASSUME NEW c \in Callers, Connected(c) PROVE AwaitInv'
    BY <1>8, GotoType DEF Connected, TypeOK, PCs, SettingUp, Clients
  <1>9. ASSUME NEW c \in Callers, ConnectFails(c) PROVE AwaitInv'
    BY <1>9, LeaveType DEF ConnectFails, TypeOK, PCs
  <1>10. ASSUME NEW c \in Callers, NotifyStarted(c) PROVE AwaitInv'
    <2>1. target[c] \in Clients /\ "notified" \in PCs
      BY <1>10 DEF NotifyStarted, TypeOK, PCs, SettingUp
    <2>2. pc'[c] = "notified" /\ target'[c] = target[c]
      BY <1>10, <2>1, GotoType DEF NotifyStarted
    <2>3. \A d \in Callers \ {c} : pc'[d] = pc[d] /\ target'[d] = target[d]
      BY <1>10, <2>1, GotoType DEF NotifyStarted
    <2>4. bus' = bus /\ target[c] # None
      BY <1>10 DEF NotifyStarted
    <2> QED
      BY <2>2, <2>3, <2>4
  <1>11. ASSUME NEW c \in Callers, Notified(c) PROVE AwaitInv'
    BY <1>11, GotoType, LeaveType DEF Notified, TypeOK, PCs, SettingUp
  <1>12. ASSUME NEW c \in Callers, NotifyFails(c) PROVE AwaitInv'
    BY <1>12, GotoType, LeaveType DEF NotifyFails, TypeOK, PCs, SettingUp
  <1>13. ASSUME NEW c \in Callers, Unpaired(c) PROVE AwaitInv'
    BY <1>13, LeaveType DEF Unpaired, TypeOK, PCs, LinkGoesDown
  <1>14. ASSUME NEW c \in Callers, UnpairFails(c) PROVE AwaitInv'
    BY <1>14, LeaveType DEF UnpairFails, TypeOK, PCs
  <1>15. ASSUME NEW c \in Callers, SensingAnswered(c) PROVE AwaitInv'
    <2>1. target[c] \in Clients /\ "answered" \in PCs
      BY <1>15 DEF SensingAnswered, TypeOK, PCs, SettingUp
    <2>2. pc'[c] = "answered" /\ target'[c] = target[c]
      BY <1>15, <2>1, GotoType DEF SensingAnswered
    <2>3. \A d \in Callers \ {c} : pc'[d] = pc[d] /\ target'[d] = target[d]
      BY <1>15, <2>1, GotoType DEF SensingAnswered
    <2>4. bus' = bus /\ target[c] # None
      BY <1>15 DEF SensingAnswered
    <2> QED
      BY <2>2, <2>3, <2>4
  <1>16. ASSUME NEW c \in Callers, SensingOff(c) PROVE AwaitInv'
    BY <1>16, GotoType, LeaveType DEF SensingOff, TypeOK, PCs
  <1>17. ASSUME NEW c \in Callers, SensingFails(c) PROVE AwaitInv'
    BY <1>17, LeaveType DEF SensingFails, TypeOK, PCs
  <1>18. ASSUME NEW c \in Callers, Done(c) PROVE AwaitInv'
    BY <1>18, LeaveType DEF Done, TypeOK, PCs
  <1>19. CASE LinkLost
    BY <1>19 DEF LinkLost, TypeOK, LinkGoesDown
  <1>20. CASE StartShutdown
    BY <1>20 DEF StartShutdown, TypeOK, TeardownFrom
  <1>21. CASE Disconnected
    BY <1>21 DEF Disconnected, TypeOK, TeardownFrom
  <1>22. CASE DisconnectFails
    BY <1>22 DEF DisconnectFails, TypeOK
  <1>23. CASE Unregistered
    BY <1>23 DEF Unregistered, TypeOK
  <1>24. CASE UNCHANGED vars
    BY <1>24 DEF vars, TypeOK
  <1> QED
    BY <1>1, <1>2, <1>3, <1>4, <1>5, <1>6, <1>7, <1>8, <1>9, <1>10, <1>11,
       <1>12, <1>13, <1>14, <1>15, <1>16, <1>17, <1>18, <1>19, <1>20, <1>21,
       <1>22, <1>23, <1>24 DEF Next, CallerStep

(* Links: a new connection has a number no subscription has yet. *)
LEMMA LinkStep ==
  ASSUME Inv, [Next]_vars
  PROVE  LinkInv'
  <1> USE BoundsAssumption, NoneAssumption DEF Inv, coordinator, link, stopping, counters, history,
             LinkInv, ClientDeviceAgree
  <1>0. None \notin subscribed /\ None \notin up
    BY DEF TypeOK
  <1>1. ASSUME NEW c \in Callers, EnsureFast(c) PROVE LinkInv'
    BY <1>1 DEF EnsureFast, TypeOK
  <1>2. ASSUME NEW c \in Callers, EnsureSlow(c) PROVE LinkInv'
    BY <1>0, <1>2 DEF EnsureSlow, TypeOK
  <1>3. ASSUME NEW c \in Callers, BusConnected(c) PROVE LinkInv'
    BY <1>3 DEF BusConnected, TypeOK
  <1>4. ASSUME NEW c \in Callers, BusFails(c) PROVE LinkInv'
    BY <1>4 DEF BusFails, TypeOK
  <1>5. ASSUME NEW c \in Callers, Registered(c) PROVE LinkInv'
    BY <1>5 DEF Registered, TypeOK
  <1>6. ASSUME NEW c \in Callers, RegisterFails(c) PROVE LinkInv'
    BY <1>6 DEF RegisterFails, TypeOK
  <1>7. ASSUME NEW c \in Callers, Checked(c) PROVE LinkInv'
    BY <1>7 DEF Checked, TypeOK
  <1>8. ASSUME NEW c \in Callers, Connected(c) PROVE LinkInv'
    BY <1>0, <1>8 DEF Connected, TypeOK, Clients
  <1>9. ASSUME NEW c \in Callers, ConnectFails(c) PROVE LinkInv'
    BY <1>9 DEF ConnectFails, TypeOK
  <1>10. ASSUME NEW c \in Callers, NotifyStarted(c) PROVE LinkInv'
    BY <1>0, <1>10 DEF NotifyStarted, TypeOK
  <1>11. ASSUME NEW c \in Callers, Notified(c) PROVE LinkInv'
    BY <1>0, <1>11 DEF Notified, TypeOK
  <1>12. ASSUME NEW c \in Callers, NotifyFails(c) PROVE LinkInv'
    BY <1>12 DEF NotifyFails, TypeOK
  <1>13. ASSUME NEW c \in Callers, Unpaired(c) PROVE LinkInv'
    BY <1>0, <1>13 DEF Unpaired, TypeOK, LinkGoesDown
  <1>14. ASSUME NEW c \in Callers, UnpairFails(c) PROVE LinkInv'
    BY <1>14 DEF UnpairFails, TypeOK
  <1>15. ASSUME NEW c \in Callers, SensingAnswered(c) PROVE LinkInv'
    BY <1>15 DEF SensingAnswered, TypeOK
  <1>16. ASSUME NEW c \in Callers, SensingOff(c) PROVE LinkInv'
    BY <1>16 DEF SensingOff, TypeOK
  <1>17. ASSUME NEW c \in Callers, SensingFails(c) PROVE LinkInv'
    BY <1>17 DEF SensingFails, TypeOK
  <1>18. ASSUME NEW c \in Callers, Done(c) PROVE LinkInv'
    BY <1>18 DEF Done, TypeOK
  <1>19. CASE LinkLost
    BY <1>0, <1>19 DEF LinkLost, TypeOK, LinkGoesDown
  <1>20. CASE StartShutdown
    BY <1>0, <1>20 DEF StartShutdown, TeardownFrom
  <1>21. CASE Disconnected
    BY <1>0, <1>21 DEF Disconnected, TeardownFrom
  <1>22. CASE DisconnectFails
    BY <1>22 DEF DisconnectFails, TypeOK
  <1>23. CASE Unregistered
    BY <1>23 DEF Unregistered, TypeOK
  <1>24. CASE UNCHANGED vars
    BY <1>24 DEF vars, TypeOK
  <1> QED
    BY <1>1, <1>2, <1>3, <1>4, <1>5, <1>6, <1>7, <1>8, <1>9, <1>10, <1>11,
       <1>12, <1>13, <1>14, <1>15, <1>16, <1>17, <1>18, <1>19, <1>20, <1>21,
       <1>22, <1>23, <1>24 DEF Next, CallerStep

(* Agents: before the unload begins no D-Bus connection is closed. *)
LEMMA AgentStep ==
  ASSUME Inv, [Next]_vars
  PROVE  AgentInv'
  <1> USE BoundsAssumption, NoneAssumption DEF Inv, coordinator, link, stopping, counters, history,
             AgentInv
  <1>1. ASSUME NEW c \in Callers, EnsureFast(c) PROVE AgentInv'
    BY <1>1, GotoType DEF EnsureFast, TypeOK, PCs
  <1>2. ASSUME NEW c \in Callers, EnsureSlow(c) PROVE AgentInv'
    BY <1>2, GotoType DEF EnsureSlow, TypeOK, PCs, SettingUp, AgentMissing
  <1>3. ASSUME NEW c \in Callers, BusConnected(c) PROVE AgentInv'
    BY <1>3, GotoType DEF BusConnected, TypeOK, PCs, SettingUp, Buses
  <1>4. ASSUME NEW c \in Callers, BusFails(c) PROVE AgentInv'
    BY <1>4, LeaveType DEF BusFails, TypeOK, PCs
  <1>5. ASSUME NEW c \in Callers, Registered(c) PROVE AgentInv'
    BY <1>5, GotoType DEF Registered, TypeOK, PCs, SettingUp
  <1>6. ASSUME NEW c \in Callers, RegisterFails(c) PROVE AgentInv'
    BY <1>6, LeaveType DEF RegisterFails, TypeOK, PCs
  <1>7. ASSUME NEW c \in Callers, Checked(c) PROVE AgentInv'
    BY <1>7, GotoType DEF Checked, TypeOK, PCs, SettingUp
  <1>8. ASSUME NEW c \in Callers, Connected(c) PROVE AgentInv'
    BY <1>8 DEF Connected, Goto, TypeOK
  <1>9. ASSUME NEW c \in Callers, ConnectFails(c) PROVE AgentInv'
    BY <1>9, LeaveType DEF ConnectFails, TypeOK, PCs
  <1>10. ASSUME NEW c \in Callers, NotifyStarted(c) PROVE AgentInv'
    BY <1>10, GotoType DEF NotifyStarted, TypeOK, PCs, SettingUp
  <1>11. ASSUME NEW c \in Callers, Notified(c) PROVE AgentInv'
    BY <1>11, GotoType, LeaveType DEF Notified, TypeOK, PCs, SettingUp
  <1>12. ASSUME NEW c \in Callers, NotifyFails(c) PROVE AgentInv'
    BY <1>12, GotoType, LeaveType DEF NotifyFails, TypeOK, PCs, SettingUp
  <1>13. ASSUME NEW c \in Callers, Unpaired(c) PROVE AgentInv'
    BY <1>13, LeaveType DEF Unpaired, TypeOK, PCs, LinkGoesDown
  <1>14. ASSUME NEW c \in Callers, UnpairFails(c) PROVE AgentInv'
    BY <1>14, LeaveType DEF UnpairFails, TypeOK, PCs
  <1>15. ASSUME NEW c \in Callers, SensingAnswered(c) PROVE AgentInv'
    BY <1>15, GotoType DEF SensingAnswered, TypeOK, PCs, SettingUp
  <1>16. ASSUME NEW c \in Callers, SensingOff(c) PROVE AgentInv'
    BY <1>16 DEF SensingOff, Goto, Leave, TypeOK
  <1>17. ASSUME NEW c \in Callers, SensingFails(c) PROVE AgentInv'
    BY <1>17, LeaveType DEF SensingFails, TypeOK, PCs
  <1>18. ASSUME NEW c \in Callers, Done(c) PROVE AgentInv'
    BY <1>18, LeaveType DEF Done, TypeOK, PCs
  <1>19. CASE LinkLost
    BY <1>19 DEF LinkLost, TypeOK, LinkGoesDown
  <1>20. CASE StartShutdown
    BY <1>20 DEF StartShutdown, TypeOK, TeardownFrom
  <1>21. CASE Disconnected
    BY <1>21 DEF Disconnected, TypeOK, TeardownFrom
  <1>22. CASE DisconnectFails
    BY <1>22 DEF DisconnectFails, TypeOK
  <1>23. CASE Unregistered
    BY <1>23 DEF Unregistered, TypeOK
  <1>24. CASE UNCHANGED vars
    BY <1>24 DEF vars, TypeOK
  <1> QED
    BY <1>1, <1>2, <1>3, <1>4, <1>5, <1>6, <1>7, <1>8, <1>9, <1>10, <1>11,
       <1>12, <1>13, <1>14, <1>15, <1>16, <1>17, <1>18, <1>19, <1>20, <1>21,
       <1>22, <1>23, <1>24 DEF Next, CallerStep

(* The invariant is inductive. *)
LEMMA InvStep == Inv /\ [Next]_vars => Inv'
  BY TypeStep, AwaitStep, LinkStep, AgentStep DEF Inv

(* The types, and what set-ups, disconnects and the unload keep true of the
   awaits, of the link and of the agent, hold in every state. *)
THEOREM Invariance == Spec => []Inv
  BY InvInit, InvStep, PTL DEF Spec

(* Every variable keeps its type. *)
THEOREM TypeCorrect == Spec => []TypeOK
  BY Invariance, PTL DEF Inv

(* The coordinator's device is always that of its client, whatever set-ups,
   disconnects and unloads interleave. *)
THEOREM ClientAndDeviceAgree == Spec => []ClientDeviceAgree
  BY Invariance, PTL DEF Inv, LinkInv

(* _ensure_connected returns a device or raises. *)
THEOREM ReturnsADevice == Spec => []NeverReturnsNone
  <1>1. Inv => NeverReturnsNone
    BY DEF Inv, AwaitInv, NeverReturnsNone
  <1> QED
    BY <1>1, Invariance, PTL

(* A connection that may have to pair finds an agent, although two tasks may
   register agents on top of each other. *)
THEOREM AgentWhenPairing == Spec => []PairingHasAgent
  <1>1. Inv => PairingHasAgent
    BY DEF Inv, AgentInv, PairingHasAgent
  <1> QED
    BY <1>1, Invariance, PTL

-----------------------------------------------------------------------------
(* One set-up at a time, and none once the unload has begun. *)
SetUpAlone ==
  /\ \A c, d \in Callers : pc[c] \in SettingUp /\ pc[d] \in SettingUp => c = d
  /\ shutdown # "no" => \A c \in Callers : pc[c] \notin SettingUp

(* Only the client is up; a set-up that has not connected yet has none, and one
   that has is about the client, unless that was lost. *)
ConnectionHeld ==
  /\ up \subseteq {_client}
  /\ \A c \in Callers :
       /\ pc[c] \in {"connecting_bus", "registering", "checking", "connecting"} =>
            _client = None
       /\ pc[c] \in {"notifying", "notified", "unpairing", "sensing_off",
                     "answered"} =>
            _client \in {None, target[c]}
       /\ pc[c] = "unpairing" => target[c] \in faulty

(* Every open D-Bus connection is somebody's. *)
AgentHeld ==
  /\ open \subseteq {_agent_bus} \union {bus[c] : c \in Callers} \union lostBuses
  /\ \A c \in Callers :
       /\ pc[c] # "registering" => bus[c] = None
       /\ pc[c] \in {"connecting_bus", "registering"} => _agent_bus = None

(* A connection that is up is set up, or being set up, or its set-up failed; and
   the answer to the sensing command is true as long as the connection is up. *)
UpIsReady ==
  /\ \A k \in up :
       \/ k \in faulty
       \/ \E d \in Callers : pc[d] \in SettingUp /\ target[d] = k
       \/ k \in subscribed /\ ~sensing
  /\ \A c \in Callers : pc[c] = "answered" /\ target[c] \in up =>
       target[c] \in subscribed /\ ~sensing

(* What async_shutdown waits for is what the coordinator has. *)
ShutdownHeld ==
  /\ shutdown = "disconnecting" => _client \in {None, closing.client}
  /\ shutdown \in {"unregistering", "done"} => up = {} /\ _client = None
  /\ shutdown = "unregistering" => closing.bus = _agent_bus
  /\ shutdown = "done" => _agent_bus = None

(* As long as no set-up overlapped another one or the unload. *)
SerialInv ==
  ~overlap => SetUpAlone /\ ConnectionHeld /\ AgentHeld /\ UpIsReady /\ ShutdownHeld

(* Nothing forgets an overlap. *)
LEMMA OverlapStays ==
  ASSUME Inv, [Next]_vars, ~overlap'
  PROVE  ~overlap
  BY DEF Next, CallerStep, vars, history, EnsureFast, EnsureSlow, BusConnected,
         BusFails, Registered, RegisterFails, Checked, Connected, ConnectFails,
         NotifyStarted, Notified, NotifyFails, Unpaired, UnpairFails,
         SensingAnswered, SensingOff, SensingFails, Done, LinkLost, StartShutdown, Disconnected, DisconnectFails, Unregistered

(* A set-up starts alone, or it overlaps. *)
LEMMA SetUpAloneStep ==
  ASSUME Inv, SerialInv, [Next]_vars, ~overlap'
  PROVE  SetUpAlone'
  <1> USE BoundsAssumption, NoneAssumption DEF coordinator, link, stopping, counters, history, Inv, TypeOK, SetUpAlone, SettingUp
  <1>0. ~overlap /\ SetUpAlone /\ ConnectionHeld /\ AgentHeld /\ UpIsReady /\ ShutdownHeld
    BY OverlapStays DEF SerialInv
  <1>1. ASSUME NEW c \in Callers, EnsureFast(c) PROVE SetUpAlone'
    BY <1>0, <1>1 DEF EnsureFast, Ready, Goto
  <1>2. ASSUME NEW c \in Callers, EnsureSlow(c) PROVE SetUpAlone'
    <2>1. CASE UNCHANGED pc
      BY <1>0, <1>2, <2>1 DEF EnsureSlow
    <2>2. CASE pc' # pc
      <3>1. shutdown' = "no" /\ \A d \in Callers : pc[d] \notin SettingUp
        BY <1>0, <1>2, <2>2 DEF EnsureSlow
      <3>2. \A d \in Callers \ {c} : pc'[d] = pc[d]
        BY <1>2, <2>2 DEF EnsureSlow, Goto
      <3> QED
        BY <3>1, <3>2
    <2> QED
      BY <2>1, <2>2
  <1>3. ASSUME NEW c \in Callers, BusConnected(c) PROVE SetUpAlone'
    BY <1>0, <1>3 DEF BusConnected, Goto
  <1>4. ASSUME NEW c \in Callers, BusFails(c) PROVE SetUpAlone'
    BY <1>0, <1>4 DEF BusFails, Goto, Leave
  <1>5. ASSUME NEW c \in Callers, Registered(c) PROVE SetUpAlone'
    BY <1>0, <1>5 DEF Registered, Goto
  <1>6. ASSUME NEW c \in Callers, RegisterFails(c) PROVE SetUpAlone'
    BY <1>0, <1>6 DEF RegisterFails, Goto, Leave
  <1>7. ASSUME NEW c \in Callers, Checked(c) PROVE SetUpAlone'
    BY <1>0, <1>7 DEF Checked, Goto
  <1>8. ASSUME NEW c \in Callers, Connected(c) PROVE SetUpAlone'
    BY <1>0, <1>8 DEF Connected, Goto
  <1>9. ASSUME NEW c \in Callers, ConnectFails(c) PROVE SetUpAlone'
    BY <1>0, <1>9 DEF ConnectFails, Goto, Leave
  <1>10. ASSUME NEW c \in Callers, NotifyStarted(c) PROVE SetUpAlone'
    BY <1>0, <1>10 DEF NotifyStarted, Goto
  <1>11. ASSUME NEW c \in Callers, Notified(c) PROVE SetUpAlone'
    BY <1>0, <1>11 DEF Notified, Goto, Leave
  <1>12. ASSUME NEW c \in Callers, NotifyFails(c) PROVE SetUpAlone'
    BY <1>0, <1>12 DEF NotifyFails, Goto, Leave
  <1>13. ASSUME NEW c \in Callers, Unpaired(c) PROVE SetUpAlone'
    BY <1>0, <1>13 DEF Unpaired, LinkGoesDown, Goto, Leave
  <1>14. ASSUME NEW c \in Callers, UnpairFails(c) PROVE SetUpAlone'
    BY <1>0, <1>14 DEF UnpairFails, Goto, Leave
  <1>15. ASSUME NEW c \in Callers, SensingAnswered(c) PROVE SetUpAlone'
    BY <1>0, <1>15 DEF SensingAnswered, Goto
  <1>16. ASSUME NEW c \in Callers, SensingOff(c) PROVE SetUpAlone'
    BY <1>0, <1>16 DEF SensingOff, Goto, Leave
  <1>17. ASSUME NEW c \in Callers, SensingFails(c) PROVE SetUpAlone'
    BY <1>0, <1>17 DEF SensingFails, Goto, Leave
  <1>18. ASSUME NEW c \in Callers, Done(c) PROVE SetUpAlone'
    BY <1>0, <1>18 DEF Done, Goto, Leave
  <1>19. CASE LinkLost
    BY <1>0, <1>19 DEF LinkLost, LinkGoesDown
  <1>20. CASE StartShutdown
    BY <1>0, <1>20 DEF StartShutdown, TeardownFrom
  <1>21. CASE Disconnected
    BY <1>0, <1>21 DEF Disconnected, TeardownFrom
  <1>22. CASE DisconnectFails
    BY <1>0, <1>22 DEF DisconnectFails
  <1>23. CASE Unregistered
    BY <1>0, <1>23 DEF Unregistered
  <1>24. CASE UNCHANGED vars
    BY <1>0, <1>24 DEF vars
  <1> QED
    BY <1>1, <1>2, <1>3, <1>4, <1>5, <1>6, <1>7, <1>8, <1>9, <1>10, <1>11,
       <1>12, <1>13, <1>14, <1>15, <1>16, <1>17, <1>18, <1>19, <1>20, <1>21,
       <1>22, <1>23, <1>24 DEF Next, CallerStep

(* A connection is made when there is no other. *)
LEMMA ConnectionHeldStep ==
  ASSUME Inv, SerialInv, [Next]_vars, ~overlap'
  PROVE  ConnectionHeld'
  <1> USE BoundsAssumption, NoneAssumption DEF coordinator, link, stopping, counters, history, Inv, TypeOK, SetUpAlone, ConnectionHeld, SettingUp, LinkInv, ClientDeviceAgree
  <1>0. ~overlap /\ SetUpAlone /\ ConnectionHeld /\ AgentHeld /\ UpIsReady /\ ShutdownHeld
    BY OverlapStays DEF SerialInv
  <1>1. ASSUME NEW c \in Callers, EnsureFast(c) PROVE ConnectionHeld'
    BY <1>0, <1>1 DEF EnsureFast, Ready, Goto
  <1>2. ASSUME NEW c \in Callers, EnsureSlow(c) PROVE ConnectionHeld'
    BY <1>0, <1>2 DEF EnsureSlow, AgentMissing, Ready, Goto
  <1>3. ASSUME NEW c \in Callers, BusConnected(c) PROVE ConnectionHeld'
    BY <1>0, <1>3 DEF BusConnected, Goto
  <1>4. ASSUME NEW c \in Callers, BusFails(c) PROVE ConnectionHeld'
    BY <1>0, <1>4 DEF BusFails, Goto, Leave
  <1>5. ASSUME NEW c \in Callers, Registered(c) PROVE ConnectionHeld'
    BY <1>0, <1>5 DEF Registered, Goto
  <1>6. ASSUME NEW c \in Callers, RegisterFails(c) PROVE ConnectionHeld'
    BY <1>0, <1>6 DEF RegisterFails, Goto, Leave
  <1>7. ASSUME NEW c \in Callers, Checked(c) PROVE ConnectionHeld'
    BY <1>0, <1>7 DEF Checked, Goto
  <1>8. ASSUME NEW c \in Callers, Connected(c) PROVE ConnectionHeld'
    BY <1>0, <1>8 DEF Connected, Goto
  <1>9. ASSUME NEW c \in Callers, ConnectFails(c) PROVE ConnectionHeld'
    BY <1>0, <1>9 DEF ConnectFails, Goto, Leave
  <1>10. ASSUME NEW c \in Callers, NotifyStarted(c) PROVE ConnectionHeld'
    BY <1>0, <1>10 DEF NotifyStarted, Goto
  <1>11. ASSUME NEW c \in Callers, Notified(c) PROVE ConnectionHeld'
    BY <1>0, <1>11 DEF Notified, Goto, Leave
  <1>12. ASSUME NEW c \in Callers, NotifyFails(c) PROVE ConnectionHeld'
    BY <1>0, <1>12 DEF NotifyFails, Goto, Leave
  <1>13. ASSUME NEW c \in Callers, Unpaired(c) PROVE ConnectionHeld'
    BY <1>0, <1>13 DEF Unpaired, LinkGoesDown, Goto, Leave
  <1>14. ASSUME NEW c \in Callers, UnpairFails(c) PROVE ConnectionHeld'
    BY <1>0, <1>14 DEF UnpairFails, Goto, Leave
  <1>15. ASSUME NEW c \in Callers, SensingAnswered(c) PROVE ConnectionHeld'
    BY <1>0, <1>15 DEF SensingAnswered, Goto
  <1>16. ASSUME NEW c \in Callers, SensingOff(c) PROVE ConnectionHeld'
    BY <1>0, <1>16 DEF SensingOff, Goto, Leave
  <1>17. ASSUME NEW c \in Callers, SensingFails(c) PROVE ConnectionHeld'
    BY <1>0, <1>17 DEF SensingFails, Goto, Leave
  <1>18. ASSUME NEW c \in Callers, Done(c) PROVE ConnectionHeld'
    BY <1>0, <1>18 DEF Done, Goto, Leave
  <1>19. CASE LinkLost
    BY <1>0, <1>19 DEF LinkLost, LinkGoesDown
  <1>20. CASE StartShutdown
    BY <1>0, <1>20 DEF StartShutdown, TeardownFrom
  <1>21. CASE Disconnected
    BY <1>0, <1>21 DEF Disconnected, TeardownFrom, ShutdownHeld
  <1>22. CASE DisconnectFails
    BY <1>0, <1>22 DEF DisconnectFails
  <1>23. CASE Unregistered
    BY <1>0, <1>23 DEF Unregistered
  <1>24. CASE UNCHANGED vars
    BY <1>0, <1>24 DEF vars
  <1> QED
    BY <1>1, <1>2, <1>3, <1>4, <1>5, <1>6, <1>7, <1>8, <1>9, <1>10, <1>11,
       <1>12, <1>13, <1>14, <1>15, <1>16, <1>17, <1>18, <1>19, <1>20, <1>21,
       <1>22, <1>23, <1>24 DEF Next, CallerStep

(* A D-Bus connection is the agent's, a registration's, or lost. *)
LEMMA AgentHeldStep ==
  ASSUME Inv, SerialInv, [Next]_vars, ~overlap'
  PROVE  AgentHeld'
  <1> USE BoundsAssumption, NoneAssumption DEF coordinator, link, stopping, counters, history, Inv, TypeOK, SetUpAlone, AgentHeld, SettingUp, AwaitInv
  <1>0. ~overlap /\ SetUpAlone /\ ConnectionHeld /\ AgentHeld /\ UpIsReady /\ ShutdownHeld
    BY OverlapStays DEF SerialInv
  <1>1. ASSUME NEW c \in Callers, EnsureFast(c) PROVE AgentHeld'
    BY <1>0, <1>1 DEF EnsureFast, Ready, Goto
  <1>2. ASSUME NEW c \in Callers, EnsureSlow(c) PROVE AgentHeld'
    BY <1>0, <1>2 DEF EnsureSlow, AgentMissing, Ready, Goto
  <1>3. ASSUME NEW c \in Callers, BusConnected(c) PROVE AgentHeld'
    BY <1>0, <1>3 DEF BusConnected, Goto
  <1>4. ASSUME NEW c \in Callers, BusFails(c) PROVE AgentHeld'
    BY <1>0, <1>4 DEF BusFails, Goto, Leave
  <1>5. ASSUME NEW c \in Callers, Registered(c) PROVE AgentHeld'
    BY <1>0, <1>5 DEF Registered, Goto
  <1>6. ASSUME NEW c \in Callers, RegisterFails(c) PROVE AgentHeld'
    BY <1>0, <1>6 DEF RegisterFails, Goto, Leave
  <1>7. ASSUME NEW c \in Callers, Checked(c) PROVE AgentHeld'
    BY <1>0, <1>7 DEF Checked, Goto
  <1>8. ASSUME NEW c \in Callers, Connected(c) PROVE AgentHeld'
    BY <1>0, <1>8 DEF Connected, Goto
  <1>9. ASSUME NEW c \in Callers, ConnectFails(c) PROVE AgentHeld'
    BY <1>0, <1>9 DEF ConnectFails, Goto, Leave
  <1>10. ASSUME NEW c \in Callers, NotifyStarted(c) PROVE AgentHeld'
    BY <1>0, <1>10 DEF NotifyStarted, Goto
  <1>11. ASSUME NEW c \in Callers, Notified(c) PROVE AgentHeld'
    BY <1>0, <1>11 DEF Notified, Goto, Leave
  <1>12. ASSUME NEW c \in Callers, NotifyFails(c) PROVE AgentHeld'
    BY <1>0, <1>12 DEF NotifyFails, Goto, Leave
  <1>13. ASSUME NEW c \in Callers, Unpaired(c) PROVE AgentHeld'
    BY <1>0, <1>13 DEF Unpaired, LinkGoesDown, Goto, Leave
  <1>14. ASSUME NEW c \in Callers, UnpairFails(c) PROVE AgentHeld'
    BY <1>0, <1>14 DEF UnpairFails, Goto, Leave
  <1>15. ASSUME NEW c \in Callers, SensingAnswered(c) PROVE AgentHeld'
    BY <1>0, <1>15 DEF SensingAnswered, Goto
  <1>16. ASSUME NEW c \in Callers, SensingOff(c) PROVE AgentHeld'
    BY <1>0, <1>16 DEF SensingOff, Goto, Leave
  <1>17. ASSUME NEW c \in Callers, SensingFails(c) PROVE AgentHeld'
    BY <1>0, <1>17 DEF SensingFails, Goto, Leave
  <1>18. ASSUME NEW c \in Callers, Done(c) PROVE AgentHeld'
    BY <1>0, <1>18 DEF Done, Goto, Leave
  <1>19. CASE LinkLost
    BY <1>0, <1>19 DEF LinkLost, LinkGoesDown
  <1>20. CASE StartShutdown
    BY <1>0, <1>20 DEF StartShutdown, TeardownFrom
  <1>21. CASE Disconnected
    BY <1>0, <1>21 DEF Disconnected, TeardownFrom
  <1>22. CASE DisconnectFails
    BY <1>0, <1>22 DEF DisconnectFails
  <1>23. CASE Unregistered
    BY <1>0, <1>23 DEF Unregistered, ShutdownHeld
  <1>24. CASE UNCHANGED vars
    BY <1>0, <1>24 DEF vars
  <1> QED
    BY <1>1, <1>2, <1>3, <1>4, <1>5, <1>6, <1>7, <1>8, <1>9, <1>10, <1>11,
       <1>12, <1>13, <1>14, <1>15, <1>16, <1>17, <1>18, <1>19, <1>20, <1>21,
       <1>22, <1>23, <1>24 DEF Next, CallerStep

(* A connection that stays up is given up or set up. *)
LEMMA UpIsReadyStep ==
  ASSUME Inv, SerialInv, [Next]_vars, ~overlap'
  PROVE  UpIsReady'
  <1> USE BoundsAssumption, NoneAssumption DEF coordinator, link, stopping, counters, history, Inv, TypeOK, SetUpAlone, ConnectionHeld, UpIsReady, SettingUp, LinkInv, ClientDeviceAgree, AwaitInv
  <1>0. ~overlap /\ SetUpAlone /\ ConnectionHeld /\ AgentHeld /\ UpIsReady /\ ShutdownHeld
    BY OverlapStays DEF SerialInv
  <1>1. ASSUME NEW c \in Callers, EnsureFast(c) PROVE UpIsReady'
    BY <1>0, <1>1 DEF EnsureFast, Ready, Goto
  <1>2. ASSUME NEW c \in Callers, EnsureSlow(c) PROVE UpIsReady'
    BY <1>0, <1>2 DEF EnsureSlow, AgentMissing, Ready, Goto
  <1>3. ASSUME NEW c \in Callers, BusConnected(c) PROVE UpIsReady'
    BY <1>0, <1>3 DEF BusConnected, Goto
  <1>4. ASSUME NEW c \in Callers, BusFails(c) PROVE UpIsReady'
    BY <1>0, <1>4 DEF BusFails, Goto, Leave
  <1>5. ASSUME NEW c \in Callers, Registered(c) PROVE UpIsReady'
    BY <1>0, <1>5 DEF Registered, Goto
  <1>6. ASSUME NEW c \in Callers, RegisterFails(c) PROVE UpIsReady'
    BY <1>0, <1>6 DEF RegisterFails, Goto, Leave
  <1>7. ASSUME NEW c \in Callers, Checked(c) PROVE UpIsReady'
    BY <1>0, <1>7 DEF Checked, Goto
  <1>8. ASSUME NEW c \in Callers, Connected(c) PROVE UpIsReady'
    BY <1>0, <1>8 DEF Connected, Goto
  <1>9. ASSUME NEW c \in Callers, ConnectFails(c) PROVE UpIsReady'
    BY <1>0, <1>9 DEF ConnectFails, Goto, Leave
  <1>10. ASSUME NEW c \in Callers, NotifyStarted(c) PROVE UpIsReady'
    BY <1>0, <1>10 DEF NotifyStarted, Goto
  <1>11. ASSUME NEW c \in Callers, Notified(c) PROVE UpIsReady'
    BY <1>0, <1>11 DEF Notified, Goto, Leave
  <1>12. ASSUME NEW c \in Callers, NotifyFails(c) PROVE UpIsReady'
    BY <1>0, <1>12 DEF NotifyFails, Goto, Leave
  <1>13. ASSUME NEW c \in Callers, Unpaired(c) PROVE UpIsReady'
    BY <1>0, <1>13 DEF Unpaired, LinkGoesDown, Goto, Leave
  <1>14. ASSUME NEW c \in Callers, UnpairFails(c) PROVE UpIsReady'
    BY <1>0, <1>14 DEF UnpairFails, Goto, Leave
  <1>15. ASSUME NEW c \in Callers, SensingAnswered(c) PROVE UpIsReady'
    BY <1>0, <1>15 DEF SensingAnswered, Goto
  <1>16. ASSUME NEW c \in Callers, SensingOff(c) PROVE UpIsReady'
    BY <1>0, <1>16 DEF SensingOff, Goto, Leave
  <1>17. ASSUME NEW c \in Callers, SensingFails(c) PROVE UpIsReady'
    BY <1>0, <1>17 DEF SensingFails, Goto, Leave
  <1>18. ASSUME NEW c \in Callers, Done(c) PROVE UpIsReady'
    BY <1>0, <1>18 DEF Done, Goto, Leave
  <1>19. CASE LinkLost
    BY <1>0, <1>19 DEF LinkLost, LinkGoesDown
  <1>20. CASE StartShutdown
    BY <1>0, <1>20 DEF StartShutdown, TeardownFrom
  <1>21. CASE Disconnected
    BY <1>0, <1>21 DEF Disconnected, TeardownFrom
  <1>22. CASE DisconnectFails
    BY <1>0, <1>22 DEF DisconnectFails
  <1>23. CASE Unregistered
    BY <1>0, <1>23 DEF Unregistered
  <1>24. CASE UNCHANGED vars
    BY <1>0, <1>24 DEF vars
  <1> QED
    BY <1>1, <1>2, <1>3, <1>4, <1>5, <1>6, <1>7, <1>8, <1>9, <1>10, <1>11,
       <1>12, <1>13, <1>14, <1>15, <1>16, <1>17, <1>18, <1>19, <1>20, <1>21,
       <1>22, <1>23, <1>24 DEF Next, CallerStep

(* The unload forgets what it has closed. *)
LEMMA ShutdownHeldStep ==
  ASSUME Inv, SerialInv, [Next]_vars, ~overlap'
  PROVE  ShutdownHeld'
  <1> USE BoundsAssumption, NoneAssumption DEF coordinator, link, stopping, counters, history, Inv, TypeOK, SetUpAlone, ConnectionHeld, AgentHeld, ShutdownHeld, SettingUp
  <1>0. ~overlap /\ SetUpAlone /\ ConnectionHeld /\ AgentHeld /\ UpIsReady /\ ShutdownHeld
    BY OverlapStays DEF SerialInv
  <1>1. ASSUME NEW c \in Callers, EnsureFast(c) PROVE ShutdownHeld'
    BY <1>0, <1>1 DEF EnsureFast, Ready, Goto
  <1>2. ASSUME NEW c \in Callers, EnsureSlow(c) PROVE ShutdownHeld'
    BY <1>0, <1>2 DEF EnsureSlow, AgentMissing, Ready, Goto
  <1>3. ASSUME NEW c \in Callers, BusConnected(c) PROVE ShutdownHeld'
    BY <1>0, <1>3 DEF BusConnected, Goto
  <1>4. ASSUME NEW c \in Callers, BusFails(c) PROVE ShutdownHeld'
    BY <1>0, <1>4 DEF BusFails, Goto, Leave
  <1>5. ASSUME NEW c \in Callers, Registered(c) PROVE ShutdownHeld'
    BY <1>0, <1>5 DEF Registered, Goto
  <1>6. ASSUME NEW c \in Callers, RegisterFails(c) PROVE ShutdownHeld'
    BY <1>0, <1>6 DEF RegisterFails, Goto, Leave
  <1>7. ASSUME NEW c \in Callers, Checked(c) PROVE ShutdownHeld'
    BY <1>0, <1>7 DEF Checked, Goto
  <1>8. ASSUME NEW c \in Callers, Connected(c) PROVE ShutdownHeld'
    BY <1>0, <1>8 DEF Connected, Goto
  <1>9. ASSUME NEW c \in Callers, ConnectFails(c) PROVE ShutdownHeld'
    BY <1>0, <1>9 DEF ConnectFails, Goto, Leave
  <1>10. ASSUME NEW c \in Callers, NotifyStarted(c) PROVE ShutdownHeld'
    BY <1>0, <1>10 DEF NotifyStarted, Goto
  <1>11. ASSUME NEW c \in Callers, Notified(c) PROVE ShutdownHeld'
    BY <1>0, <1>11 DEF Notified, Goto, Leave
  <1>12. ASSUME NEW c \in Callers, NotifyFails(c) PROVE ShutdownHeld'
    BY <1>0, <1>12 DEF NotifyFails, Goto, Leave
  <1>13. ASSUME NEW c \in Callers, Unpaired(c) PROVE ShutdownHeld'
    BY <1>0, <1>13 DEF Unpaired, LinkGoesDown, Goto, Leave
  <1>14. ASSUME NEW c \in Callers, UnpairFails(c) PROVE ShutdownHeld'
    BY <1>0, <1>14 DEF UnpairFails, Goto, Leave
  <1>15. ASSUME NEW c \in Callers, SensingAnswered(c) PROVE ShutdownHeld'
    BY <1>0, <1>15 DEF SensingAnswered, Goto
  <1>16. ASSUME NEW c \in Callers, SensingOff(c) PROVE ShutdownHeld'
    BY <1>0, <1>16 DEF SensingOff, Goto, Leave
  <1>17. ASSUME NEW c \in Callers, SensingFails(c) PROVE ShutdownHeld'
    BY <1>0, <1>17 DEF SensingFails, Goto, Leave
  <1>18. ASSUME NEW c \in Callers, Done(c) PROVE ShutdownHeld'
    BY <1>0, <1>18 DEF Done, Goto, Leave
  <1>19. CASE LinkLost
    BY <1>0, <1>19 DEF LinkLost, LinkGoesDown
  <1>20. CASE StartShutdown
    BY <1>0, <1>20 DEF StartShutdown, TeardownFrom
  <1>21. CASE Disconnected
    BY <1>0, <1>21 DEF Disconnected, TeardownFrom
  <1>22. CASE DisconnectFails
    BY <1>0, <1>22 DEF DisconnectFails
  <1>23. CASE Unregistered
    BY <1>0, <1>23 DEF Unregistered
  <1>24. CASE UNCHANGED vars
    BY <1>0, <1>24 DEF vars
  <1> QED
    BY <1>1, <1>2, <1>3, <1>4, <1>5, <1>6, <1>7, <1>8, <1>9, <1>10, <1>11,
       <1>12, <1>13, <1>14, <1>15, <1>16, <1>17, <1>18, <1>19, <1>20, <1>21,
       <1>22, <1>23, <1>24 DEF Next, CallerStep

(* Nothing is held at the start. *)
LEMMA SerialInit == Init => SerialInv
  BY DEF Init, SerialInv, SetUpAlone, ConnectionHeld, AgentHeld, UpIsReady,
         ShutdownHeld, SettingUp

(* The five parts keep each other. *)
LEMMA SerialStep ==
  ASSUME Inv, SerialInv, [Next]_vars
  PROVE  SerialInv'
  <1> SUFFICES ASSUME ~overlap'
               PROVE  /\ SetUpAlone' /\ ConnectionHeld' /\ AgentHeld'
                      /\ UpIsReady' /\ ShutdownHeld'
    BY DEF SerialInv
  <1> QED
    BY SetUpAloneStep, ConnectionHeldStep, AgentHeldStep, UpIsReadyStep,
       ShutdownHeldStep

(* Until two set-ups overlap, or one overlaps the unload, whatever is connected
   or open is held by the coordinator or by the one set-up under way. *)
THEOREM SerialInvariance == Spec => []SerialInv
  BY SerialInit, SerialStep, Invariance, PTL DEF Spec

(* Without an overlap a device that is handed out and connected is subscribed
   and silent to readers, unless its set-up failed or goes on. *)
THEOREM ReadyWhenHandedOut == Spec => []HandedOutReady
  <1>1. SerialInv => HandedOutReady
    BY DEF SerialInv, UpIsReady, HandedOutReady
  <1> QED
    BY <1>1, SerialInvariance, PTL

(* Without an overlap the coordinator knows every connection it opened. *)
THEOREM LosesNothing == Spec => []SerialLosesNothing
  <1>1. SerialInv => SerialLosesNothing
    BY DEF SerialInv, ConnectionHeld, AgentHeld, SerialLosesNothing
  <1> QED
    BY <1>1, SerialInvariance, PTL

(* A shutdown that nothing overlapped closes all but the connections of failed
   registrations. *)
THEOREM ShutdownLeavesNothing == Spec => []ShutdownCleans
  <1>1. Inv /\ SerialInv => ShutdownCleans
    <2> SUFFICES ASSUME Inv, SerialInv, shutdown = "done", ~overlap
                 PROVE  up = {} /\ _client = None /\ _agent_bus = None
                        /\ open \subseteq lostBuses
      BY DEF ShutdownCleans
    <2>1. up = {} /\ _client = None /\ _agent_bus = None
      BY DEF SerialInv, ShutdownHeld
    <2>2. \A c \in Callers : bus[c] = None
      BY DEF SerialInv, SetUpAlone, AgentHeld, SettingUp
    <2>3. None \notin open
      BY NoneAssumption DEF Inv, TypeOK
    <2> QED
      BY <2>1, <2>2, <2>3 DEF SerialInv, AgentHeld
  <1> QED
    BY <1>1, Invariance, SerialInvariance, PTL
=============================================================================
