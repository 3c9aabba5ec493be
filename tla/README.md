# A verification model of hass-chameleon

hass-chameleon is a Home Assistant integration that drives a ChameleonUltra NFC
emulator over Bluetooth LE. This directory holds TLA+ models of its core, TLC
configurations that check them, and proofs that TLAPS checks. Source paths are
relative to `src/custom_components/chameleon_ultra/`.

Everything in the integration runs on one asyncio event loop. Tasks switch only
at an `await`, so an action of a model is what a task does from one `await` to
the next, and a callback is one action.

## Inventory

| Part | State | Operations | Hard behaviour | Correct when |
|---|---|---|---|---|
| Command transport, `device.py` 42-155 | `_command_lock`, `_response_future`, the assembler | `send_command`, `send_command_sequence`, `_send_locked`, `on_notification` | tasks queue for the lock; timeouts, failed writes and cancellation race answers; frames carry no identity | one command at a time in arrival order, every call returns, each caller gets its own answer |
| Frame format and assembler, `protocol.py` | `_state`, `_buf`, `_data_len`, `_frame_start` | `build_frame`, `feed`, `reset` | frames split, joined, cut and corrupted; SOF bytes in payloads | no frame invented, no complete frame missed by a waiting assembler |
| Connection lifecycle, `coordinator.py` 84-230 | `_client`, `_device`, `_agent_bus` | `_ensure_connected`, `_on_disconnect`, `async_shutdown` | callers in several tasks with no lock; every await may fail or see the link drop; unload at any time | a device handed out is live, subscribed and not sensing; nothing opened is lost |
| Pairing agent, `pairing.py` | a D-Bus connection with an exported agent | register, unregister, paired check | half-done registration | an agent is there whenever a connection may pair; the one the coordinator holds is closed on unload |
| Polling, `coordinator.py` 236-300 | `data`, `last_update_success` | `_async_update_data` | a snapshot of many commands; one of them failing | data belong to the slots they are shown for |
| load_dump, `__init__.py` 63-133 | none; the device's slots | `handle_load_dump` | a dozen commands that share "the active slot" with everybody else | the card is in the slot it was meant for, complete and saved |
| Unlock button, `button.py` | none; the device's sensing | `async_press` | a hold of seconds under the lock; failure half-way | once its connection is set up, the device senses during an unlock only |
| Slot select and switches, `select.py`, `switch.py` | none; the device's slots | select, turn on, turn off | interleave with loads | what was selected survives a power cycle |
| Entry set-up and unload, `__init__.py` 29-64 | `hass.data`, `_SERVICES_REGISTERED` | set up, unload; Home Assistant reloads, removes, restarts | unload during a set-up; either fails half-way; the service outlives the entries | the table has every loaded entry's coordinator and nothing unaccounted; nothing is left behind |
| Config flow, `config_flow.py` | the flows in progress, the entries | bluetooth and user flow | discovery and forms for one device side by side | no device is configured twice |
| Dump parsing, `__init__.py` 138-174 | none | `_parse_dump_file`, `_parse_flipper_nfc`, cutting into chunks | sparse, short and repeated blocks; the last chunk | block n of the file is block n of the slot |
| Activity event, `event.py` | a listener on the bus | add, remove | the listener's life is not the entity's | a loaded entry hears, and no listener is left |
| Sensors and base entity | views of `data` | - | little | - |

Calls go one way: entities, the service and the poll call `_ensure_connected`,
which registers the agent, connects and makes a `ChameleonUltraDevice`; they
then call its command methods, which take the command lock and exchange frames.
Callbacks come back the other way: notifications to `on_notification`, and
disconnections to `_on_disconnect`. Tasks share the coordinator's three fields,
the device object, and the configuration inside the device. Entries share the
`hass.data` table, the service, the event bus and the default pairing agent of
BlueZ.

`PROJECT.json` lists each component with its status, and each hazard at the line
where it bites.

## Modules

- **FifoService** - what a user of the command lock relies on: one line of
  callers, served one at a time in order, each once per visit.
- **CommandChannel** - the transport. `pc[t]` is where task `t` is suspended:
  `queued` in `acquire()`, `writing` in `write_gatt_char`, `awaiting` in
  `wait_for`, `holding` in the unlock's sleep. `holder` and `waiters` are the
  `asyncio.Lock`; `response_future` is the field, with the frame it was resolved
  with; `partial` is how much of a frame the assembler holds; `rx` and `tx` are
  the link. A job is one stay inside the lock: one command, a sequence, or the
  unlock. `BeginSend` is the start of `_send_locked`, `Write` one chunk,
  `Resume` the return of `wait_for`, `Take` the checks on the frame and what the
  caller does next; `LeaveWrite` and `LeaveAwait` are the exits by exception.
  Requests have identities (`nextId`, `request`) that the code does not have:
  they are history variables which state the properties.
- **ConnectionLifecycle** - the coordinator's connection and the agent. `pc[c]`
  names the await a caller is in; `target[c]` is the client or device that await
  is about. Clients, devices and D-Bus connections are numbered by the
  connection or registration that made them. `StartShutdown`, `Disconnected` and
  `Unregistered` are `async_shutdown` between its awaits. The property
  `_expected_disconnect` only chooses a log line and is left out. A set-up may
  begin after the shutdown has: nothing in `async_shutdown`, which does not call
  the base class's, stops a refresh or a service call that comes later.
  `establish_connection` may return a client whose link has just gone down. The
  end of an `await` and the step of the task that takes it are two actions where
  a disconnect in between matters: `NotifyStarted` and `Notified` around
  `start_notify`, `SensingAnswered` and `SensingOff` around the answer to
  `set_emulation_sense`. The second of each pair asks nothing of the link, so
  that a task can resume at coordinator.py:198 or 204 with its fields cleared. A
  device senses when it connects.
- **FrameAssembler** - `lrc`, `build_frame` and the six states of
  `_process_byte`, one operator each, fed by a sender that transmits frames,
  frames cut short and stray bytes. Bytes are numbers below `Modulus`; CMD and
  STATUS are one byte together and LEN is one byte, so a frame has six bytes of
  framing in place of ten.
- **DumpFile** - `_parse_dump_file`, `_parse_flipper_nfc` and the arithmetic of
  the chunks, as recursive functions over the block lines of a file; beside
  them, `Said` and `BlocksIn` read a file without the parser. Lines that do not
  parse end the load with an exception and are left out, and so are negative
  block numbers, which the parser takes but no dump has.
- **SlotOperations** - the operations of the entities, the service and the poll
  as programs of commands over the device's slots, RAM (`fw`) and flash. It
  takes from CommandChannel that commands are executed one at a time, that each
  returns or raises, and that the answer to a command that was given up may be
  taken by a later command of the same code. Such a command is `late`: the
  device gets to it before any other, right when its answer is delivered, or
  never. `TakeLate` is a command that takes its answer and leaves its own
  behind, so that one late answer can shift those of several commands. At most
  one command is late at a time. `Raise` is a command that raises: executed or
  not, because the late answer had another code, or because it cannot be put
  into bytes. The set-up of a connection is an operation too, that of its last
  command (`Connect`, `Quiet`); `connected` is TRUE from the moment another task
  can have the device, so that the others may start before sensing is off and
  after it failed to be turned off, as on the fast path. One connection is set
  up at a time; ConnectionLifecycle has the set-ups that overlap. The device
  senses when it starts, and may sense when a link has gone. A lost link
  (`LinkLost`, `PowerCycle`) does not end what is under way: these tasks are
  `lost` until they notice. Most raise then (`GiveUp`); a poll that waits for
  its last nickname has nothing left to write, so the timeout leaves that one
  empty and the poll publishes what it read (`LastNickTimesOut`). Any other wait
  ends in a further write, which raises, or in the timeout itself. A dump may
  have any number of blocks; the device drops those beyond a slot's memory, or
  refuses them. A line of a text file has one block at most; a longer one would
  overlap the next block in an order that the file does not show.
- **EntryLifecycle** - the config flow, the entries and their coordinators, and
  what all of them share. A coordinator is the number of the set-up that made
  it, so that a reload makes a new one. `hass_data`, `services`, `entities` and
  `listeners` are the table, `_SERVICES_REGISTERED`, and what the platforms
  added. Of ConnectionLifecycle it keeps what several coordinators see of each
  other. A task `t` is calling the coordinator `on[t]` and has got to `pc[t]`;
  any number of tasks may call one coordinator and set its connection up side by
  side. BlueZ's `agents` are in the order in which they were made the default,
  and of each it is known whether its coordinator still holds it: `Registered`
  replaces the agent in `_agent_bus` and forgets the one before, which stays
  registered, and `DefaultRefused` is a registration whose second call
  (pairing.py:103) raises, which leaves an agent nobody holds. `leaky` is a
  history variable, the coordinators to which one of the two has happened.
  `async_shutdown` is one step (`ShutDown`) or raises (`ShutDownFails`), which
  ConnectionLifecycle takes apart; between its awaits a registration can
  overwrite `_agent_bus` and be forgotten by line 100, but only one that had
  overlapped another, since whoever finds an agent registers none. `abandoned`
  is a history variable: the coordinators whose set-up or unload broke off or
  met a call under way, so that what they leave behind can be told from anything
  else.
- **CommandChannelProofs**, **ConnectionLifecycleProofs**,
  **EntryLifecycleProofs**, **FrameAssemblerProofs**, **DumpFileProofs**,
  **SlotOperationsProofs** - the theorems about the modules they extend;
  **CommandChannelFlightProofs** those about what is on the link, and
  **SlotOperationsActionProofs** those about SlotOperations' action properties.
- **MC...** modules give the constants their values.

The firmware, BlueZ, bleak and Home Assistant are not in the repository. They
are modelled from how the code uses them and marked `external` in the map:

- the firmware executes requests in order; card data go to the active slot
  (device.py 307-347); saving copies RAM to flash, and a power cycle flash to
  RAM;
- there is one radio link to the device, so a disconnect takes every client
  down; `unpair` takes the link down too; BlueZ asks the agent made the default
  one last, and when that is unregistered the one before it;
- Home Assistant runs one refresh of a coordinator at a time; it aborts the
  flows in progress for a unique id when an entry with it is created; it shows
  one user form at a time; it may or may not shut a coordinator down whose
  set-up failed; it calls what `async_on_unload` was given after a successful
  unload only; when an entry is removed its entities go as well.

## Runs

| Run | Checks | Bounds |
|---|---|---|
| `channel_safety` | the lock, future and wire invariants | 2 tasks, 3 calls, 2 chunks, 2 fragments; single, sequence and unlock jobs |
| `channel_service` | liveness, and refinement of FifoService | 3 tasks, 3 calls of one command |
| `lifecycle_safety` | the connection's invariants | 2 callers, 3 connections, 3 registrations |
| `assembler_safety` | the assembler's invariants | 4 byte values, 2 data bytes, 2 transmissions, any number of resets |
| `slots_safety` | slots, flash, sensing, nicknames, polls and loads | 2 tasks, 3 operations and 2 faults, 4 of them in all, and any number of set-ups; 2 slots of 3 blocks; a text file of 3 blocks with one missing and one given twice, the second time cut short, a raw file of five blocks and a half; blocks of 2 bytes, chunks of 2 blocks, numbers up to 2 in a byte |
| `entry_safety` | entries, table, service, entities, agents, links | 2 devices, 2 entries, 2 set-ups, 2 tasks, 3 agents at once |
| `channel_correlation`, `lifecycle_subscribed`, `lifecycle_sensing`, `lifecycle_shutdown`, `slots_load`, `entry_pin` | one statement each that the code does not keep | as above or smaller |

Why the bounds suffice. Every race in the transport is between one task that
gives a command up and one that comes after it; three calls let the second
command be disturbed by the first and disturb the third. Two chunks and two
fragments are the least for a frame to be caught half-way. In the lifecycle two
callers overlap, and the third connection shows what the first two left. Four
byte values include SOF and the checksum of SOF, and a zero; two data bytes let
SOF and its checksum stand next to each other in a payload. Three blocks in
chunks of two leave a short last chunk, and of five blocks the third chunk
starts at a number that is no byte here, and lies beyond the slot's memory. In
the slots two operations interleave and a third follows on what they left; two
faults are the least for a late answer and a failure after it, or a link lost in
the middle of what a fault left; with three operations there is one fault, with
two faults two operations. Two slots stand for any number: an operation is about
one slot, and the others differ from it in the same way; two nicknames are the
least that can be shifted. In the entries two set-ups are one and its reload, or
one for each of two devices, and a second entry for a device takes the place of
one that was removed. Two tasks are what it takes to register two agents for one
coordinator; the third agent is that of another coordinator, or one more that is
lost. Restarts are not bounded. The devices are interchangeable, and so are the
tasks, which the symmetry sets say. `MaxCalls`, `MaxClients`, `MaxBuses`,
`MaxSent`, `MaxOps`, `MaxFaults`, `MaxEvents`, `MaxEntries`, `MaxCoordinators`
and `MaxAgents` bound counters that are unbounded in the code; when they are
used up the system stops, so the configurations say `CHECK_DEADLOCK FALSE`. The
theorems hold for all values of the constants of the modules they are about.

### What the passing runs show

Transport: a task that writes or waits owns the pending future (`FutureOwner`);
no chunk of another frame comes between two chunks of one frame
(`FramesNotInterleaved`), and nothing comes between the commands of a sequence
or an unlock (`SequenceHoldsWire`); at most one command that nobody has given up
is in flight (`OneCommandInFlight`). No answer is handed out twice, and an
answer goes to the wrong command only if the command it belongs to had been
given up (`NoAnswerTakenTwice`, `MisdeliveryNeedsAbandon`). Every call returns.

Lifecycle: client and device always belong together, `None` is never returned
although `_on_disconnect` can strike at any await and between an answer and the
step that takes it - what prevents it is the line that reads the MTU for the log
(coordinator.py:204), without which a single caller can return `None`; as long
as set-ups do not overlap each other, and none runs or begins once the shutdown
has started, a device is subscribed and silent unless its set-up failed, and
nothing opened is lost.

Assembler: a delivered frame is the encoding of the bytes last heard; a complete
frame that meets a waiting assembler is delivered with its last byte.

Slots: a load_dump that nothing disturbed has put the whole card, as the file
says it, into its slot and saved it (`UndisturbedLoadIsSaved`); card data reach
another slot only when an operation moved the active slot in the middle of the
load (`CardDataStayInTheirSlot`), and the only chunk the device command refuses
is one that starts above 255, in a dump longer than that (`WritesAreSendable`).
A poll during which no other operation's command changed what it reads, and no
power cycle reverted any of it, shows the slots as they are
(`UndisturbedPollIsTrue`), also when it takes late answers: a late answer is
computed when it is delivered, so that it is late for its caller and not stale.
A poll that ends after its link was lost is among them; when the device
restarted from an older flash meanwhile, it shows what no longer is, and counts
as disturbed. When all is quiet and nothing broke off, RAM and flash agree on
the active slot and the cards (`QuietMeansSaved`). A device senses when it
connects, until the last command of the set-up; on a connection whose set-up is
over it senses only during an unlock, or after an unlock or the set-up itself
broke off (`SensingNeedsUnlock`), and the next complete one of either ends that.
A set-up that failed to turn sensing off hands out a device that senses, as
`lifecycle_sensing` shows. A nickname that timed out leaves a gap, and its late
answer shifts the nicknames below by one place; more gaps shift them further,
never beyond their number (`NicknamesAligned`).

Entries: discovery, confirmation, forms and restarts in any order never
configure a device twice, although the confirmation does not look again, since
Home Assistant aborts the flow in between (`OneEntryPerDevice`). The table has
the coordinator of every loaded entry and else only what broke off, one row per
entry (`TableIsAccounted`), so that the service finds the right one
(`ServiceFindsItsEntry`) although a removed entry whose set-up or unload broke
off can leave a row that is found first. No entity meets a coordinator without
data (`EntitiesHaveData`); the agent a coordinator holds, links and listeners go
with their entry unless its set-up or unload broke off or a call was under way
(`AgentsAreAccounted`, `OneLinkPerDevice`, `ListenersAreLive`); and whoever
pairs has its own agent registered (`PairingHasOwnAgent`). Agents that the
coordinator has lost outlive it, until Home Assistant stops: two tasks that
register at once lose one, and a registration refused half-way another.
`AgentsAreAccounted` says that nothing else loses an agent; it does not say that
none is lost.

### What the violations show

- `AnswersCorrelated` (device.py:4-5): responses are matched by command code. A
  late answer is taken by the next command with the same code.
- `SubscribedBeforeUse` (device.py:45-47): the fast path of `_ensure_connected`
  returns a device while another task still awaits `start_notify`, or after that
  failed and unpairing failed too.
- `SensingOffWhenHandedOut` (coordinator.py:193-195): when turning sensing off
  fails, the connection stays and the next call hands it out.
- `NothingLeft` (coordinator.py:228): a set-up under way, or begun later,
  outlives the shutdown.
- `LoadLandsInSlot` (services.yaml:3): a selection during a load diverts it.
- `OwnPinAnswers` (coordinator.py:110-111): with two entries the agent that was
  registered last answers for both devices, with its own PIN (pairing.py:47-50
  and 103); that a coordinator's own agent is registered, which does hold, is
  not enough.

Seen and not run as configurations, because one look at the code settles them:

- the poll asks for the nickname of sense type `0x01` (coordinator.py:267, with
  the comment "HF"), which is `SenseType.LF` (const.py:87);
- the poll raises `UpdateFailed` when it cannot connect (coordinator.py:247),
  while its docstring (239-243) says that entities stay available;
- two tasks that register the agent at the same time overwrite `_agent_bus` and
  leak the first D-Bus connection with its agent (`SerialLosesNothing` holds
  only without overlap, and `AgentsAreAccounted` counts such agents apart),
  against pairing.py:92-93, "caller must keep both alive and call
  async_unregister_agent() on shutdown";
- a registration whose second call raises leaves the agent registered and its
  D-Bus connection open (pairing.py:102-103);
- an unlock whose second command fails leaves sensing on (`SensingNeedsUnlock`
  counts it as interrupted);
- a dump of more than 279 blocks raises after its first chunks have been written
  (device.py:346);
- the README's connect-on-demand model (README.md:51-56) is not what
  coordinator.py:3-9 describes and does.

## Fairness

`channel_service` assumes weak fairness of `Progress(t)` for each task: the
event loop runs every task that can run, a write returns or raises, a timer
fires, a lock that is released wakes its oldest waiter, a sleep ends. Nothing is
assumed of the device, which may stay silent, nor of the link, nor that anybody
calls or cancels. `wait_for` always has a timeout in this code
(`DEFAULT_COMMAND_TIMEOUT`), which is why a silent device cannot block a caller.

## Proofs

`CommandChannelProofs` proves for all `Tasks`, `Commands`, `Jobs`, `Chunks`,
`Fragments` and `MaxCalls` allowed by the assumptions in CommandChannel:
`TypeCorrect`, `Serialized` (mutual exclusion) and `FutureOwned`.

None of these is inductive. `Take` indexes the job's commands, so typing needs
`JobInv`: a task that is not idle has fewer results than its job has commands,
and a task that writes has chunks left. That a task which leaves really was the
holder needs `LockInv`: the tasks whose program counter is inside the lock are
exactly the holder, the queue holds exactly suspended tasks, each once. And
typing a result needs `FutureOwner`, since the frame comes out of the future.
`Inv` is the conjunction of the four; `InvInit` and `InvStep` prove it
inductive, with one lemma per conjunct (`TypeStep`, `JobStep`, `LockStep`,
`FutureStep`) and one step per action in each. TLC checks all three theorems'
properties on the small instance in `channel_safety`.

The same module proves that the transport implements FifoService:
`ServesInOrder` is `Spec => Service!Spec`, the part of `channel_service`'s
property without fairness. A caller that takes the lock or queues for it joins
the service; a caller that wakes, writes or waits stutters; leaving with the
lock is the service's answer to its oldest caller, and leaving the queue is
giving up. The lemmas about sequences (`InFront`, `FrontLeaves`, `JoinsBehind`,
`ComesToFront`, `LeavesBehind`) say how the lock's holder and its queue make one
line of callers.

`CommandChannelFlightProofs` follows a request from its task over the link to
the device and back. `FlightSafe` adds to `Inv`: `StageInv`, what a task has
sent and collected at each await; `WireInv`, that the last chunk on the link is
of the frame its writer is in the middle of, or ends a frame, or was given up;
`QueueInv`, that a request is with the device or its answer under way but never
both and never twice; `FlightInv`, that whatever is under way is the request of
the task that waits for it or was abandoned; and `FutureInv` and `ResultInv`,
that an answer which has arrived is under way no more and, unless abandoned,
answers what the future or the result was asked for. None of the properties
survives a step without them: an answer is taken once because it leaves the link
when it is delivered, and it reaches the wrong caller only if it was under way
when no one waited for it, which is what `FlightInv` excludes for requests that
were not given up. From it follow `SequencesAreAtomic`, `OneAtATime`,
`CorrelatedUnlessAbandoned`, `AnswersTakenOnce` and the action property
`FramesInOnePiece`.

`ConnectionLifecycleProofs` proves for all `Callers`, `MaxClients` and
`MaxBuses`: `TypeCorrect`, `ClientAndDeviceAgree`, `ReturnsADevice` and
`AgentWhenPairing`. The inductive invariant adds three parts to the types.
`AwaitInv`: an await that needs a client or a D-Bus connection has one, so that
what `SensingFails` and `RegisterFails` record is one; of a caller that returns
it says that it has a device, which holds because the fields it looks at are
cleared together (`ClientDeviceAgree`): a client that is there when the MTU is
read has its device. `LinkInv`: live and subscribed clients have numbers already
given out, so that the client a new connection makes cannot be subscribed yet;
without it `ClientDeviceAgree` would not survive `Connected`. `AgentInv`: before
the unload begins, whoever is past the registration finds an agent, the agent's
bus is open, and so is the bus of a registration under way, which is what
becomes the agent's; this is why two tasks that register over each other leak a
bus but never lose the agent. `TypeStep`, `AwaitStep`, `LinkStep` and
`AgentStep` have one step per action. `lifecycle_safety` checks the four
properties on its instance.

What holds only as long as no set-up overlaps another one or the unload is
proved from `SerialInv`, which says so for five parts: `SetUpAlone`, one task is
setting up and none once the unload began; `ConnectionHeld`, no client is up but
the coordinator's, and a set-up that goes on after its link was lost does not
take a second one; `AgentHeld`, every open bus is the agent's, a registration's
or was recorded as lost; `UpIsReady`, what is up is ready, being set up, or its
set-up failed; `ShutdownHeld`, what `async_shutdown` awaits is what the
coordinator still has. `ReadyWhenHandedOut`, `LosesNothing` and
`ShutdownLeavesNothing` follow, for any number of callers.

`EntryLifecycleProofs` proves all nine invariants of `entry_safety` for all
`Addresses`, `Inputs`, `Tasks`, `MaxEntries`, `MaxCoordinators` and `MaxAgents`.
The invariant is the conjunction of `TypeOK` and the following parts.
`EntryInv`: entries and coordinators are numbered in order and a coordinator
belongs to the entry whose set-up made it. `FlowInv`: a device that is
configured has no discovery flow left to confirm, which is why the confirmation
need not look again. `TableInv`: the rows of the table are those of served
entries or abandoned ones, one for each entry; it is what makes `RefreshOk`,
which replaces an entry's row, keep the others. `EntityInv`: entities come after
the data and go before the coordinator. `LinkInv`: a call, a connection and an
agent that is held are those of a live entry's coordinator or of an abandoned
one; a coordinator holds one agent at the most, and has one from the
registration to the pairing; while one of its calls registers, it holds none and
no other call registers, unless it is `leaky`, and so is every coordinator with
an agent that is lost. What it says of registering calls is what
`AgentsAreAccounted` needs and does not say: a registration that ends could
otherwise forget an agent of a coordinator that had never registered twice.

`FrameAssemblerProofs` proves all properties of `assembler_safety` for any
modulus, payload limit and frames. `AssemblerInv` adds to them `BufInv`, what
the buffer holds in each of the six states, whose checks have already passed,
and `WholeInv`: while a frame is under way that met no open one, buffer and wire
are its two parts and the state is the one that many bytes lead to. Without
`WholeInv`, `CompleteFrameIsDelivered` speaks of the last byte only, and the
step that takes it cannot know the ones before. `lrc` is a recursive function:
that it exists and yields a byte (`SumsExist`, `LrcIsByte`) is proved by
induction up to the length, in the form of `CountsUp`, which takes a set in
place of a predicate.

`DumpFileProofs` proves for any block size, chunk size and dump that the chunks
are non-empty, in order, and lie within the dump, cover every block, have whole
blocks, and put together are the dump: `ChunksHoldTheDump` says that byte for
byte what is written at block b is block b.

It also proves what the parser makes of a file of any length: `TextIsRead` for
the lines of a text file, `FileIsRead` for whatever `load_dump` goes on with.
`_parse_flipper_nfc` is two recursive functions. `Recursion` shows that a
function defined step by step exists, and `CountsUp` is the induction over its
arguments. Along the lines, `Dictionary` says that the dictionary has each
number once, with the last line for it. Along the dictionary, `Shows` says that
the result has the data of the lines so far at their places and zeros elsewhere.
`Distinct` is what makes it inductive: a short line leaves the end of its block
alone, which is zero only because no earlier line was for that block.

`SlotOperationsProofs` proves the five invariants of `slots_safety` for all
tasks, slots, dumps, files and bounds that the assumptions allow. In `Inv`,
`TaskInv` says that what a task has left to do is the end of its operation's
program, and that a poll has one reply or gap for each command that is over;
`LateInv` that a late command is one of its operation's program and that history
knows when that operation broke off; `SaveInv` that what is not saved yet, some
operation under way whose connection is there goes on to save; `SenseInv`, which
is `SensingNeedsUnlock` itself, needs `TaskInv` and `LateInv`: the last command
of a set-up or an unlock is the one that turns sensing off (`UnlockPlace`,
`SetUpPlace`), and a late one has left its mark in `interrupted`; `NickInv`
bounds how far late answers have shifted the nicknames of the poll that is under
way by the gaps it has, where the invariant on the published ones alone would
not survive `TakeLate`; `DataInv` and `CountInv` are types. `TaskStep`,
`DeviceStep`, `LateStep`, `SaveStep`, `SenseStep`, `NickStep`, `DataStep` and
`CountStep` prove them inductive.

`SlotOperationsActionProofs` proves the action properties
`CardDataStayInTheirSlot`, `UndisturbedPollIsTrue` and `UndisturbedLoadIsSaved`.
They need three more invariants: `ActiveInv`, that a load past its first command
which noted no move has its slot active, and so has a late write that such a
load left behind; `ReadInv`, that what a poll which noted no move has read is
how things are, its link lost or not, which is why `LastNickTimesOut` keeps
`UndisturbedPollIsTrue`; and `HeldInv`, that the slot of an undisturbed load has
what the commands that are over put there: the type, the anti-collision data,
and the blocks of each chunk. A load's own command adds to it (`HeldNext`),
because `ActiveInv` says that it reaches the right slot and `ChunksInOrder` that
no chunk is written over an earlier one; every other command leaves it
(`StayHeld`) or is noted. When only `save_slot_config` is left, `ChunksCover`
and `FileIsRead` turn the chunks into the blocks of the file (`LoadStep`).

All of these assume nothing beyond the named assumptions of the modules: bounds
and counts are natural numbers, dumps are made of bytes, lines of text files
have one block at most and no negative number, `chunk_size` is no more than what
a write takes, and `None` is none of the other values.

Model-checked only: liveness and the fair half of the refinement of FifoService
(fairness is out of the prover's reach). Every other property of the passing
runs is proved.

## Not modelled

The read-only entities keep no state of their own. The options flow stores one
number, which the unlock reads as its hold time. Decoding of battery, version
and mode values, labels, logs and what the events carry are data and wording.
Device commands that nothing calls (setting nicknames, settings, reading blocks)
are left out. A PIN that is not a number makes `int()` raise at every
registration (coordinator.py:88), which `RegisterFails` covers as a failure. The
name and path of a dump file are external. The scripts are manual diagnostics.

## Plan

1. An abstract device session (handed out, ready, lost) that ConnectionLifecycle
   implements when set-ups do not overlap.
