--------------------------- MODULE EntryLifecycle ---------------------------
(***************************************************************************)
(* The config entries of the integration, from the config flow to their    *)
(* removal, and what all of them share: the hass.data table, the load_dump *)
(* service, the event bus and the default pairing agent of BlueZ.          *)
(*                                                                         *)
(* Every set-up makes a coordinator, which is the number of that set-up.   *)
(* Of ConnectionLifecycle this module keeps what several coordinators see  *)
(* of each other: the agents they register, which connections are being    *)
(* paired, and whether they are up.  Any number of tasks may call a        *)
(* coordinator at once, and nothing keeps two of them from setting a       *)
(* connection up side by side.                                             *)
(***************************************************************************)
EXTENDS Naturals, Sequences, SequencesExt

CONSTANTS
  Addresses,        \* BLE addresses of the devices
  Inputs,           \* what a user may type as the PIN
  Blank,            \* nothing but spaces
  DEFAULT_PIN,
  Tasks,            \* tasks that call a coordinator
  MaxEntries,       \* bound: entries created
  MaxCoordinators,  \* bound: set-ups begun
  MaxAgents,        \* bound: agents registered at once
  None

ASSUME BoundsAssumption ==
  MaxEntries \in Nat /\ MaxCoordinators \in Nat /\ MaxAgents \in Nat

Entries == 1..MaxEntries
Coordinators == 1..MaxCoordinators
Pins == (Inputs \ {Blank}) \union {DEFAULT_PIN}

(* The states of an entry.  In the live ones async_setup_entry has begun and
   async_unload_entry is not over. *)
Live == {"refreshing", "forwarding", "loaded", "unloading_platforms", "shutting_down"}
EntryStates == Live \union {"not_loaded", "setup_retry", "setup_error", "failed_unload"}

ASSUME NoneAssumption ==
  /\ None \notin Addresses \union Pins
  /\ None \notin EntryStates
  /\ \A n \in Entries \union Coordinators : n # None

VARIABLES
  confirming,   \* addresses whose bluetooth flow shows bluetooth_confirm
  offered,      \* addresses the form of the user flow offers
  address, pin, \* the entries' data
  state,        \* Home Assistant's state of each entry; None before and after
  current,      \* the coordinator of an entry's last set-up
  entry,        \* the entry a coordinator was made for
  _data,        \* coordinators that have data
  on, pc,       \* the coordinator a task has called, and how far the call is
  up,           \* coordinators whose client is connected
  agents,       \* BlueZ: the registered agents, the default one last
  hass_data,    \* hass.data[DOMAIN]: coordinators in order of insertion
  services,     \* _SERVICES_REGISTERED
  entities,     \* coordinators whose entities are added
  listeners,    \* coordinators whose Activity entity listens on the bus
  added, made,  \* entries and coordinators so far
  abandoned,    \* history: coordinators whose set-up or unload broke off, or
                \* that were busy when they were shut down
  leaky         \* history: coordinators that registered two agents at once, or
                \* whose registration was refused half-way

flows == <<confirming, offered>>
entries == <<address, pin, state, current, added>>
coordinators == <<entry, _data, made>>
calls == <<on, pc>>
connections == <<up, agents, leaky>>
shared == <<hass_data, services, entities, listeners>>
vars == <<flows, entries, coordinators, calls, connections, shared, abandoned>>

(* A call is in one of these stages of _ensure_connected, before or after it
   ("calling"), or in the poll of a first refresh that has its device. *)
Connecting == {"registering", "checking", "pairing"}
Stages == Connecting \union {"calling", "polling"}

(* The agent that is exported on the D-Bus connection in _agent_bus, and one
   that the coordinator has no reference to. *)
Kept(k) == [of |-> k, kept |-> TRUE]
Lost(k) == [of |-> k, kept |-> FALSE]
Agents == [of : Coordinators, kept : BOOLEAN]

Init ==
  /\ confirming = {} /\ offered = {}
  /\ address = [e \in Entries |-> None]
  /\ pin = [e \in Entries |-> None]
  /\ state = [e \in Entries |-> None]
  /\ current = [e \in Entries |-> None]
  /\ entry = [k \in Coordinators |-> None]
  /\ _data = {} /\ up = {}
  /\ on = [t \in Tasks |-> None]
  /\ pc = [t \in Tasks |-> "calling"]
  /\ agents = <<>> /\ hass_data = <<>> /\ services = FALSE
  /\ entities = {} /\ listeners = {}
  /\ added = 0 /\ made = 0 /\ abandoned = {} /\ leaky = {}

-----------------------------------------------------------------------------
(* The config flow. *)

Configured(a) == \E e \in Entries : state[e] # None /\ address[e] = a

(* The entry is created; Home Assistant aborts the flows in progress that have
   the same unique id. *)
Created(a, stored) ==
  /\ added < MaxEntries
  /\ added' = added + 1
  /\ address' = [address EXCEPT ![added + 1] = a]
  /\ pin' = [pin EXCEPT ![added + 1] = stored]
  /\ state' = [state EXCEPT ![added + 1] = "not_loaded"]
  /\ confirming' = confirming \ {a}
  /\ UNCHANGED <<current, coordinators, calls, connections, shared, abandoned>>

(* The PIN as it was typed. *)
CreateEntryKeepsBlank(a, input) == Created(a, input)
CreateEntry(a, input) == Created(a, IF input = Blank THEN DEFAULT_PIN ELSE input)

(* async_step_bluetooth: a device that has a flow or an entry gets no other. *)
Discovered(a) ==
  /\ a \notin confirming
  /\ ~Configured(a)
  /\ confirming' = confirming \union {a}
  /\ UNCHANGED <<offered, entries, coordinators, calls, connections, shared, abandoned>>

(* async_step_bluetooth_confirm does not look again. *)
Confirm(a, input) ==
  /\ a \in confirming
  /\ CreateEntry(a, input)
  /\ UNCHANGED offered

(* async_step_user offers what is in range, configured or not. *)
ShowUserForm(found) ==
  /\ found # {}
  /\ offered' = found
  /\ UNCHANGED <<confirming, entries, coordinators, calls, connections, shared, abandoned>>

(* A form that trusts the list it showed. *)
SubmitUserFormUnchecked(a, input) ==
  /\ a \in offered
  /\ offered' = {}
  /\ CreateEntry(a, input)

SubmitUserForm(a, input) ==
  /\ a \in offered
  /\ offered' = {}
  /\ IF Configured(a)
     THEN UNCHANGED <<confirming, entries, coordinators, calls, connections, shared,
                      abandoned>>
     ELSE CreateEntry(a, input)

-----------------------------------------------------------------------------
(* The calls of a coordinator and its connection, as the others see it. *)

Go(t, where) == pc' = [pc EXCEPT ![t] = where]
Idle(t) == on' = [on EXCEPT ![t] = None] /\ Go(t, "calling")
Take(t, k) == on[t] = None /\ on' = [on EXCEPT ![t] = k] /\ UNCHANGED pc
Refreshing(k) ==
  entry[k] # None /\ current[entry[k]] = k /\ state[entry[k]] = "refreshing"

(* A poll, a press, a selection or a switch starts on a coordinator. *)
Call(t, k) ==
  /\ k \in entities
  /\ Take(t, k)
  /\ UNCHANGED <<flows, entries, coordinators, connections, shared, abandoned>>

(* handle_load_dump: the first coordinator in the table whose address is that
   of the device; it raises when there is none. *)
FoundAnyDevice(a) == IF hass_data = <<>> THEN None ELSE Head(hass_data)
Found(a) ==
  LET row == SelectInSeq(hass_data, LAMBDA k : address[entry[k]] = a)
  IN  IF row = 0 THEN None ELSE hass_data[row]

LoadDump(t, a) ==
  /\ services
  /\ Found(a) # None
  /\ Take(t, Found(a))
  /\ UNCHANGED <<flows, entries, coordinators, connections, shared, abandoned>>

(* Every call but the first refresh may end at any time. *)
Return(t) ==
  /\ on[t] # None
  /\ pc[t] \notin Connecting
  /\ ~Refreshing(on[t])
  /\ Idle(t)
  /\ UNCHANGED <<flows, entries, coordinators, connections, shared, abandoned>>

(* The slow path of _ensure_connected registers an agent unless _agent_bus has
   one.  Another task may be about to do the same. *)
Enter(t, where) ==
  /\ on[t] # None /\ pc[t] = "calling"
  /\ on[t] \notin up
  /\ Go(t, where)
  /\ UNCHANGED <<flows, entries, coordinators, on, up, agents, shared, abandoned>>
EnterRegistering(t) ==
  LET others == {u \in Tasks \ {t} : on[u] = on[t] /\ pc[u] = "registering"} IN
  /\ Enter(t, "registering")
  /\ leaky' = IF others = {} THEN leaky ELSE leaky \union {on[t]}
EnterChecking(t) == Enter(t, "checking") /\ UNCHANGED leaky
Connect(t) ==
  \/ Contains(agents, Kept(on[t])) /\ EnterChecking(t)
  \/ ~Contains(agents, Kept(on[t])) /\ EnterRegistering(t)

(* async_register_agent makes the new agent the default one, and _agent_bus its
   D-Bus connection; what was there is forgotten, and stays registered. *)
Forget(k) == [i \in DOMAIN agents |-> IF agents[i] = Kept(k) THEN Lost(k) ELSE agents[i]]
Registered(t) ==
  LET k == on[t] IN
  /\ pc[t] = "registering"
  /\ Len(agents) < MaxAgents
  /\ Go(t, "checking")
  /\ agents' = Append(Forget(k), Kept(k))
  /\ UNCHANGED <<flows, entries, coordinators, on, up, leaky, shared, abandoned>>

(* RegisterAgent answers and RequestDefaultAgent raises: the agent is there, not
   as the default one, and nobody has its D-Bus connection. *)
DefaultRefused(t) ==
  LET k == on[t] IN
  /\ pc[t] = "registering"
  /\ Len(agents) < MaxAgents
  /\ Idle(t)
  /\ agents' = <<Lost(k)>> \o agents
  /\ leaky' = leaky \union {k}
  /\ UNCHANGED <<flows, entries, coordinators, up, shared, abandoned>>

(* The device is not paired: bleak pairs while it connects. *)
Pair(t) ==
  /\ pc[t] = "checking"
  /\ Go(t, "pairing")
  /\ UNCHANGED <<flows, entries, coordinators, on, connections, shared, abandoned>>

(* The call has its device; a first refresh polls it, once. *)
Connected(t) ==
  /\ pc[t] \in {"checking", "pairing"}
  /\ Go(t, IF Refreshing(on[t]) THEN "polling" ELSE "calling")
  /\ up' = up \union {on[t]}
  /\ UNCHANGED <<flows, entries, coordinators, on, agents, leaky, shared, abandoned>>

(* The set-up raises, and the call with it. *)
SetUpFails(t) ==
  /\ pc[t] \in Connecting
  /\ Idle(t)
  /\ UNCHANGED <<flows, entries, coordinators, connections, shared, abandoned>>

(* The link goes.  The calls go on: a poll that waits for its last name even
   gets through. *)
LinkLost(k) ==
  /\ k \in up
  /\ up' = up \ {k}
  /\ UNCHANGED <<flows, entries, coordinators, calls, agents, leaky, shared, abandoned>>

(* The agent BlueZ asks for the passkey, whichever device is being paired: its
   RequestPasskey takes the device and does not look at it. *)
PasskeyAgent == Last(agents).of

-----------------------------------------------------------------------------
(* Set-up and unload. *)

GoEntry(e, where) == state' = [state EXCEPT ![e] = where]

(* async_setup_entry makes a coordinator, which polls for the first time. *)
BeginSetup(e) ==
  /\ state[e] \in {"not_loaded", "setup_retry", "setup_error"}
  /\ made < MaxCoordinators
  /\ made' = made + 1
  /\ GoEntry(e, "refreshing")
  /\ current' = [current EXCEPT ![e] = made + 1]
  /\ entry' = [entry EXCEPT ![made + 1] = e]
  /\ \E t \in Tasks : Take(t, made + 1)
  /\ UNCHANGED <<flows, address, pin, added, _data, connections, shared, abandoned>>

(* The first refresh is over, or raises. *)
EndRefresh(k) ==
  /\ on' = [t \in Tasks |-> IF on[t] = k THEN None ELSE on[t]]
  /\ pc' = [t \in Tasks |-> IF on[t] = k THEN "calling" ELSE pc[t]]

(* The set-up raises.  Home Assistant may or may not shut the coordinator down,
   which no code of the integration does. *)
GiveUp(e, where) ==
  LET k == current[e] IN
  /\ GoEntry(e, where)
  /\ \/ /\ up' = up \ {k}
        /\ agents' = RemoveFirst(agents, Kept(k))
     \/ UNCHANGED <<up, agents>>
  /\ abandoned' = abandoned \union {k}
  /\ UNCHANGED <<flows, address, pin, current, added, entry, made, leaky>>

(* A set-up of k's connection is under way; k's first refresh has its device. *)
SettingUp(k) == \E t \in Tasks : on[t] = k /\ pc[t] \in Connecting
Polls(k) == \E t \in Tasks : on[t] = k /\ pc[t] = "polling"

(* A set-up that goes on when the first refresh has failed. *)
RefreshOkAnyway(e) ==
  /\ state[e] = "refreshing"
  /\ ~SettingUp(current[e])
  /\ GoEntry(e, "forwarding")
  /\ EndRefresh(current[e])
  /\ _data' = IF Polls(current[e]) THEN _data \union {current[e]} ELSE _data
  /\ hass_data' = Append(SelectSeq(hass_data, LAMBDA k : entry[k] # e), current[e])
  /\ UNCHANGED <<flows, address, pin, current, added, entry, made, connections,
                 services, entities, listeners, abandoned>>

(* The row of an entry in the table, or 0. *)
RowOf(e) == SelectInSeq(hass_data, LAMBDA k : entry[k] = e)

(* The first poll got through: the coordinator goes into the table, in the
   place of an earlier one of the same entry if there is one. *)
RefreshOk(e) ==
  /\ state[e] = "refreshing"
  /\ Polls(current[e])
  /\ GoEntry(e, "forwarding")
  /\ EndRefresh(current[e])
  /\ _data' = _data \union {current[e]}
  /\ hass_data' = IF RowOf(e) = 0 THEN Append(hass_data, current[e])
                                  ELSE [hass_data EXCEPT ![RowOf(e)] = current[e]]
  /\ UNCHANGED <<flows, address, pin, current, added, entry, made, connections,
                 services, entities, listeners, abandoned>>

RefreshFails(e) ==
  /\ state[e] = "refreshing"
  /\ ~SettingUp(current[e])
  /\ GiveUp(e, "setup_retry")
  /\ EndRefresh(current[e])
  /\ UNCHANGED <<_data, hass_data, services, entities, listeners>>

(* The platforms add their entities, the Activity entity listens, and the
   service is registered if it is not. *)
ForwardOk(e) ==
  /\ state[e] = "forwarding"
  /\ GoEntry(e, "loaded")
  /\ entities' = entities \union {current[e]}
  /\ listeners' = listeners \union {current[e]}
  /\ services' = TRUE
  /\ UNCHANGED <<flows, address, pin, current, added, coordinators, calls,
                 connections, hass_data, abandoned>>

(* Forwarding raises, with some entities added or none; the table stays. *)
ForwardFails(e) ==
  /\ state[e] = "forwarding"
  /\ GiveUp(e, "setup_error")
  /\ entities' \in {entities, entities \union {current[e]}}
  /\ UNCHANGED <<_data, calls, hass_data, services, listeners>>

BeginUnload(e) ==
  /\ state[e] = "loaded"
  /\ GoEntry(e, "unloading_platforms")
  /\ UNCHANGED <<flows, address, pin, current, added, coordinators, calls,
                 connections, shared, abandoned>>

(* async_unload_platforms returns False: nothing else is done. *)
UnloadPlatformsFails(e) ==
  /\ state[e] = "unloading_platforms"
  /\ GoEntry(e, "failed_unload")
  /\ abandoned' = abandoned \union {current[e]}
  /\ UNCHANGED <<flows, address, pin, current, added, coordinators, calls,
                 connections, shared>>

(* An unload that leaves the coordinator in the table. *)
UnloadPlatformsKeeps(e) ==
  /\ state[e] = "unloading_platforms"
  /\ GoEntry(e, "shutting_down")
  /\ entities' = entities \ {current[e]}
  /\ UNCHANGED <<flows, address, pin, current, added, coordinators, calls,
                 connections, hass_data, services, listeners, abandoned>>
UnloadPlatforms(e) ==
  /\ state[e] = "unloading_platforms"
  /\ GoEntry(e, "shutting_down")
  /\ entities' = entities \ {current[e]}
  /\ hass_data' = RemoveFirst(hass_data, current[e])
  /\ UNCHANGED <<flows, address, pin, current, added, coordinators, calls,
                 connections, services, listeners, abandoned>>

(* async_shutdown: the connection goes, and the agent in _agent_bus; then Home
   Assistant takes the listener off the bus.  A set-up under way goes on. *)
EndUnload(e) ==
  /\ state[e] = "shutting_down"
  /\ GoEntry(e, "not_loaded")
  /\ abandoned' = IF \E t \in Tasks : on[t] = current[e]
                  THEN abandoned \union {current[e]} ELSE abandoned
  /\ UNCHANGED <<flows, address, pin, current, added, coordinators, calls, leaky,
                 hass_data, services, entities>>
Disconnect(k) == up' = up \ {k}
TeardownAgent(k) == agents' = RemoveFirst(agents, Kept(k))
Unlisten(k) == listeners' = listeners \ {k}

(* A shutdown that leaves the connection, the listener. *)
ShutDownKeepsLink(e) ==
  EndUnload(e) /\ UNCHANGED up /\ TeardownAgent(current[e]) /\ Unlisten(current[e])
ShutDownKeepsListener(e) ==
  EndUnload(e) /\ Disconnect(current[e]) /\ TeardownAgent(current[e]) /\ UNCHANGED listeners
ShutDown(e) ==
  /\ EndUnload(e)
  /\ Disconnect(current[e]) /\ TeardownAgent(current[e]) /\ Unlisten(current[e])

(* disconnect() raises, and async_unload_entry with it: the agent stays, and so
   does the listener. *)
ShutDownFails(e) ==
  /\ state[e] = "shutting_down"
  /\ current[e] \in up
  /\ GoEntry(e, "failed_unload")
  /\ abandoned' = abandoned \union {current[e]}
  /\ UNCHANGED <<flows, address, pin, current, added, coordinators, calls,
                 connections, shared>>

(* Home Assistant forgets the entry, and the entities in its registry. *)
RemoveEntry(e) ==
  /\ state[e] \in {"not_loaded", "setup_retry", "setup_error", "failed_unload"}
  /\ GoEntry(e, None)
  /\ entities' = {k \in entities : entry[k] # e}
  /\ UNCHANGED <<flows, address, pin, current, added, coordinators, calls,
                 connections, hass_data, services, listeners, abandoned>>

(* Home Assistant stops, cleanly or not, and starts again: all that is left are
   the entries. *)
Restart ==
  /\ confirming' = {} /\ offered' = {}
  /\ state' = [e \in Entries |-> IF state[e] = None THEN None ELSE "not_loaded"]
  /\ current' = [e \in Entries |-> None]
  /\ entry' = [k \in Coordinators |-> None]
  /\ _data' = {} /\ up' = {}
  /\ on' = [t \in Tasks |-> None]
  /\ pc' = [t \in Tasks |-> "calling"]
  /\ agents' = <<>> /\ hass_data' = <<>> /\ services' = FALSE
  /\ entities' = {} /\ listeners' = {} /\ abandoned' = {} /\ leaky' = {}
  /\ UNCHANGED <<address, pin, added, made>>

FlowStep ==
  \/ \E a \in Addresses :
       \/ Discovered(a)
       \/ \E input \in Inputs : Confirm(a, input) \/ SubmitUserForm(a, input)
  \/ \E found \in SUBSET Addresses : ShowUserForm(found)

ConnectionStep ==
  \/ \E t \in Tasks :
       \/ \E k \in Coordinators : Call(t, k)
       \/ \E a \in Addresses : LoadDump(t, a)
       \/ Return(t) \/ Connect(t) \/ Registered(t) \/ DefaultRefused(t) \/ Pair(t)
       \/ Connected(t) \/ SetUpFails(t)
  \/ \E k \in Coordinators : LinkLost(k)

EntryStep ==
  \E e \in Entries :
    \/ BeginSetup(e) \/ RefreshOk(e) \/ RefreshFails(e)
    \/ ForwardOk(e) \/ ForwardFails(e)
    \/ BeginUnload(e) \/ UnloadPlatforms(e) \/ UnloadPlatformsFails(e)
    \/ ShutDown(e) \/ ShutDownFails(e) \/ RemoveEntry(e)

Next == FlowStep \/ ConnectionStep \/ EntryStep \/ Restart

Spec == Init /\ [][Next]_vars

-----------------------------------------------------------------------------
(* Properties. *)

TypeOK ==
  /\ confirming \subseteq Addresses /\ offered \subseteq Addresses
  /\ address \in [Entries -> Addresses \union {None}]
  /\ pin \in [Entries -> Pins \union {None}]
  /\ state \in [Entries -> EntryStates \union {None}]
  /\ current \in [Entries -> Coordinators \union {None}]
  /\ entry \in [Coordinators -> Entries \union {None}]
  /\ on \in [Tasks -> Coordinators \union {None}]
  /\ pc \in [Tasks -> Stages]
  /\ _data \union up \union entities \union listeners \union abandoned \union leaky
       \subseteq Coordinators
  /\ agents \in Seq(Agents) /\ hass_data \in Seq(Coordinators)
  /\ services \in BOOLEAN
  /\ added \in 0..MaxEntries /\ made \in 0..MaxCoordinators

(* However discovery and the user's forms overlap, no device is configured
   twice: _abort_if_unique_id_configured in the steps of the config flow. *)
OneEntryPerDevice ==
  \A e, f \in Entries :
    e # f /\ state[e] # None /\ state[f] # None => address[e] # address[f]

Serves(k, states) == entry[k] # None /\ current[entry[k]] = k /\ state[entry[k]] \in states

(* hass.data has the coordinator of every entry that is loaded, so that
   async_unload_entry finds it there, and no other but those of entries whose
   set-up or unload broke off. *)
TableIsAccounted ==
  LET served == {"forwarding", "loaded", "unloading_platforms"} IN
  /\ \A e \in Entries : state[e] \in served => Contains(hass_data, current[e])
  /\ \A k \in ToSet(hass_data) : Serves(k, served) \/ k \in abandoned
  /\ \A i, j \in 1..Len(hass_data) :
       i # j => entry[hass_data[i]] # entry[hass_data[j]]

(* While an entry is loaded the service exists, however many entries were
   unloaded, and handle_load_dump finds that entry's coordinator for its device,
   or else one that a broken set-up or unload left in the table. *)
ServiceFindsItsEntry ==
  \A e \in Entries : state[e] = "loaded" =>
    /\ services
    /\ Found(address[e]) = current[e] \/ Found(address[e]) \in abandoned

(* An entity never meets a coordinator without data: async_press reads the
   active slot from it unasked. *)
EntitiesHaveData == entities \subseteq _data

(* The agent a coordinator holds is one, and stays registered for the lifetime of
   the coordinator, as pairing.py says, unless a set-up or unload broke off.  One
   that no coordinator holds any more comes from two tasks that were registering
   at once, or from a registration that was refused half-way: however set-ups,
   link losses and reloads follow each other, nothing else loses an agent. *)
AgentsAreAccounted ==
  \A i \in 1..Len(agents) :
    IF agents[i].kept
    THEN /\ Serves(agents[i].of, Live) \/ agents[i].of \in abandoned
         /\ \A j \in 1..Len(agents) : agents[j] = agents[i] => j = i
    ELSE agents[i].of \in leaky

(* A reload does not leave two connections to one device. *)
OneLinkPerDevice ==
  \A k, l \in up :
    k # l /\ address[entry[k]] = address[entry[l]] => {k, l} \intersect abandoned # {}

(* A coordinator that pairs has its own agent registered, one that it holds. *)
PairingHasOwnAgent ==
  \A t \in Tasks :
    pc[t] = "pairing" /\ on[t] \notin abandoned => Contains(agents, Kept(on[t]))

(* Events reach entities: every loaded entry has a listener, and a listener
   outlives its entity only until the unload is through. *)
ListenersAreLive ==
  /\ \A e \in Entries : state[e] = "loaded" => current[e] \in listeners
  /\ \A k \in listeners :
       k \in entities \/ Serves(k, {"shutting_down"}) \/ k \in abandoned

(* _ensure_connected says that "our registered agent provides the passkey when
   BlueZ requests it": the PIN that is given is that of the entry being paired. *)
OwnPinAnswers ==
  \A t \in Tasks : pc[t] = "pairing" /\ on[t] \notin abandoned =>
    pin[entry[PasskeyAgent]] = pin[entry[on[t]]]
=============================================================================
