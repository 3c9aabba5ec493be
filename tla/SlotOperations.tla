--------------------------- MODULE SlotOperations ---------------------------
(***************************************************************************)
(* What the entities and the load_dump service do with the device, and     *)
(* what the coordinator's poll makes of it, once the entry is set up and    *)
(* the first poll has succeeded; the device has gone to sleep since.       *)
(*                                                                         *)
(* Each operation is a program of device.py commands.  A command is one    *)
(* step: CommandChannel shows that commands are sent one at a time and     *)
(* that each of them returns or raises.  Commands of different operations  *)
(* interleave, except within an unlock, which keeps the command lock.      *)
(* Setting up a connection is an operation too, that of its last command;   *)
(* any task can use the connection from then on.  One connection is set up  *)
(* at a time.                                                               *)
(*                                                                         *)
(* A command whose caller gave up may still be executed and answered: it   *)
(* is "late" until the device gets to it, which it does before any other,  *)
(* and its answer goes to whatever command is waiting then.  At most one   *)
(* command is late at a time here.                                         *)
(***************************************************************************)
EXTENDS DumpFile

CONSTANTS
  Tasks,         \* the tasks operations run in
  SLOT_COUNT,
  Dumps,         \* names of dump files
  files,         \* what is in them
  Bytes,
  BLOCK_COUNT,   \* blocks the memory of a slot has
  MAX_WRITE,     \* blocks write_emu_block_data takes, 31
  MAX_BYTE,      \* 255
  MaxOps,        \* bound: operations started
  MaxFaults,     \* bound: commands that raise, lost links, power cycles
  MaxEvents,     \* bound: operations and faults together
  None

ASSUME CountsAssumption ==
  /\ SLOT_COUNT \in Nat \ {0} /\ BLOCK_COUNT \in Nat \ {0}
  /\ MAX_WRITE \in Nat /\ chunk_size <= MAX_WRITE
  /\ MAX_BYTE \in Nat
  /\ MaxOps \in Nat /\ MaxFaults \in Nat /\ MaxEvents \in Nat

dump_data == [d \in Dumps |-> _parse_dump_file(files[d])]

(* Dumps are made of bytes, however many. *)
ASSUME DumpsAssumption == \A d \in Dumps : dump_data[d] \in Seq(Bytes)

(* A line of a text file has one block at most, and a number from 0 up. *)
ASSUME FilesAssumption ==
  \A d \in Dumps :
    files[d].suffix = ".nfc" =>
      /\ Zero \in Bytes
      /\ files[d].lines \in
           Seq([num : Nat, data : {bytes \in Seq(Bytes) : Len(bytes) <= BLOCK}])

Slots == 0..(SLOT_COUNT - 1)
Blocks == 0..(BLOCK_COUNT - 1)

(* SenseType *)
LF == 1
HF == 2

VARIABLES
  op,           \* the operation each task runs, or None
  todo,         \* its commands that are not over
  got,          \* what a poll has read so far
  lost,         \* tasks whose connection is gone
  connected,    \* there is a connection, set up or at its last command
  fw,           \* the device's configuration in RAM
  flash,        \* ... and as last saved
  sensing,      \* the device answers NFC readers
  late,         \* [cmd, op, disturbed] that has yet to be executed, or None
  data,         \* the coordinator's data
  ops, faults,  \* operations started, faults so far
  disturbed,    \* history: while this task's operation was under way, another
                \* one changed what it relies on ("moved"), or one of its
                \* commands got the late answer to an earlier one ("late")
  interrupted,  \* history: an unlock or the set-up of the connection ended early,
                \* or on the answer of another command, since the last complete
                \* one on this connection
  unsaved       \* history: so did an operation that saves, since the last
                \* power cycle

tasks == <<op, todo, got, lost>>
firmware == <<fw, flash, sensing>>
history == <<disturbed, interrupted, unsaved>>
vars == <<tasks, connected, firmware, late, data, ops, faults, history>>

-----------------------------------------------------------------------------
(* Commands and programs. *)

Cmd(name, slot, arg) == [name |-> name, slot |-> slot, arg |-> arg]

(* write_emu_block_data raises ValueError for data that are no whole number of
   blocks or too many, and bytes([start_block]) for a start above 255. *)
Sendable(cmd) ==
  cmd.name = "write_emu_block_data" =>
    /\ Len(cmd.arg.data) % BLOCK = 0
    /\ Len(cmd.arg.data) <= MAX_WRITE * BLOCK
    /\ cmd.arg.start <= MAX_BYTE

Writes(dump) ==
  LET total_blocks == BlocksOf(dump)
      Chunk(i) == Slice(dump, ChunkStart(i), ChunkEnd(i, total_blocks))
  IN  [i \in 1..NumberOfChunks(total_blocks) |->
         Cmd("write_emu_block_data", None, [start |-> ChunkStart(i), data |-> Chunk(i)])]

(* The uid, the sak and the atqa are cut from block 0. *)
AntiColl(dump) == Slice(dump, 0, 1)

(* A load that counts on the slot being active already. *)
LoadDumpHere(slot, dump) ==
  <<Cmd("set_slot_tag_type", slot, "MF1_1K"),
    Cmd("set_anti_coll_data", None, AntiColl(dump_data[dump]))>>
  \o Writes(dump_data[dump]) \o
  <<Cmd("set_slot_enable", slot, TRUE), Cmd("save_slot_config", None, None)>>
LoadDump(slot, dump) ==
  <<Cmd("set_active_slot", slot, None),
    Cmd("set_slot_tag_type", slot, "MF1_1K"),
    Cmd("set_anti_coll_data", None, AntiColl(dump_data[dump]))>>
  \o Writes(dump_data[dump]) \o
  <<Cmd("set_slot_enable", slot, TRUE),
    Cmd("save_slot_config", None, None)>>

(* A selection that saves first. *)
SelectOptionSavesFirst(slot) ==
  <<Cmd("save_slot_config", None, None), Cmd("set_active_slot", slot, None)>>
(* The number of the label, which counts from one. *)
SelectOptionByLabel(slot) ==
  <<Cmd("set_active_slot", slot + 1, None), Cmd("save_slot_config", None, None)>>
SelectOption(slot) ==
  <<Cmd("set_active_slot", slot, None), Cmd("save_slot_config", None, None)>>

Turn(slot, enable) == <<Cmd("set_slot_enable", slot, enable)>>

(* An unlock that is over when the hold time is. *)
UnlockLeavesOn == <<Cmd("set_emulation_sense", None, TRUE)>>
Unlock ==
  <<Cmd("set_emulation_sense", None, TRUE), Cmd("set_emulation_sense", None, FALSE)>>

(* What _ensure_connected ends with: sensing is to be off until an unlock. *)
SetUp == [kind |-> "set_up"]
Quiet == <<Cmd("set_emulation_sense", None, FALSE)>>

(* The poll asks for the nickname with sense type 0x01. *)
Poll ==
  <<Cmd("get_battery_info", None, None),
    Cmd("get_active_slot", None, None),
    Cmd("get_slot_info", None, None),
    Cmd("get_enabled_slots", None, None),
    Cmd("get_device_mode", None, None),
    Cmd("get_git_version", None, None)>>
  \o [i \in 1..SLOT_COUNT |-> Cmd("get_slot_tag_nick", i - 1, 1)]

(* load_dump goes on with one block at least. *)
Operations ==
  [kind : {"load_dump"}, slot : Slots, dump : {d \in Dumps : Len(dump_data[d]) >= BLOCK}]
  \union [kind : {"select"}, slot : Slots]
  \union [kind : {"switch"}, slot : Slots, enable : BOOLEAN]
  \union {[kind |-> "unlock"], [kind |-> "poll"], SetUp}

Program(what) ==
  CASE what.kind = "load_dump" -> LoadDump(what.slot, what.dump)
    [] what.kind = "select" -> SelectOption(what.slot)
    [] what.kind = "switch" -> Turn(what.slot, what.enable)
    [] what.kind = "unlock" -> Unlock
    [] what.kind = "set_up" -> Quiet
    [] what.kind = "poll" -> Poll

Commands == UNION {ToSet(Program(what)) : what \in Operations}
Disturbances == {"moved", "late"}
LateCommands ==
  [cmd : {c \in Commands : Sendable(c)}, op : Operations, disturbed : SUBSET Disturbances]

ASSUME NoneAssumption == None \notin Operations \union LateCommands

-----------------------------------------------------------------------------
(* The device. *)

BlankSlot == [type |-> "UNKNOWN", uid |-> None, blocks |-> [b \in Blocks |-> None],
              enabled |-> FALSE]
Blank == [active |-> 0, slots |-> [s \in Slots |-> BlankSlot]]

(* The configuration after a command.  Card data go to the active slot; blocks
   beyond its memory are dropped, if the device does not refuse them. *)
Written(blocks, write) ==
  LET Here(b) == b - write.start
  IN  [b \in Blocks |->
         IF b \in write.start..(write.start + BlocksOf(write.data) - 1)
         THEN Slice(write.data, Here(b), Here(b) + 1) ELSE blocks[b]]
Configured(conf, cmd) ==
  CASE cmd.name = "set_active_slot" -> [conf EXCEPT !.active = cmd.slot]
    [] cmd.name = "set_slot_tag_type" -> [conf EXCEPT !.slots[cmd.slot].type = cmd.arg]
    [] cmd.name = "set_slot_enable" -> [conf EXCEPT !.slots[cmd.slot].enabled = cmd.arg]
    [] cmd.name = "set_anti_coll_data" ->
         [conf EXCEPT !.slots[conf.active].uid = cmd.arg]
    [] cmd.name = "write_emu_block_data" ->
         [conf EXCEPT !.slots[conf.active].blocks = Written(@, cmd.arg)]
    [] OTHER -> conf

Saved(cmd) == IF cmd.name = "save_slot_config" THEN fw ELSE flash
Sensing(cmd) == IF cmd.name = "set_emulation_sense" THEN cmd.arg ELSE sensing
Execute(cmd) ==
  fw' = Configured(fw, cmd) /\ flash' = Saved(cmd) /\ sensing' = Sensing(cmd)

(* The nickname a slot has for a sense type; nothing here changes one. *)
nick(slot, type) == <<slot, type>>

(* What a reading command answers. *)
Answer(cmd) ==
  CASE cmd.name = "get_active_slot" -> fw.active
    [] cmd.name = "get_slot_info" -> [s \in Slots |-> fw.slots[s].type]
    [] cmd.name = "get_enabled_slots" -> [s \in Slots |-> fw.slots[s].enabled]
    [] cmd.name = "get_slot_tag_nick" -> nick(cmd.slot, cmd.arg)
    [] OTHER -> None

(* Asleep; it senses when it wakes up. *)
Init ==
  /\ op = [t \in Tasks |-> None]
  /\ todo = [t \in Tasks |-> <<>>]
  /\ got = [t \in Tasks |-> <<>>]
  /\ lost = {} /\ connected = FALSE
  /\ fw = Blank
  /\ flash = Blank
  /\ sensing = TRUE
  /\ data = [active_slot |-> 0, slot_info |-> [s \in Slots |-> "UNKNOWN"],
             enabled_slots |-> [s \in Slots |-> FALSE],
             slot_nicks |-> [i \in 1..SLOT_COUNT |-> None]]
  /\ late = None
  /\ ops = 0 /\ faults = 0
  /\ disturbed = [t \in Tasks |-> {}]
  /\ interrupted = FALSE /\ unsaved = FALSE

-----------------------------------------------------------------------------
(* Operations. *)

(* _ensure_connected makes a connection, and a device that any task can have. *)
Connect(t) ==
  /\ op[t] = None
  /\ ~connected
  /\ connected' = TRUE
  /\ op' = [op EXCEPT ![t] = SetUp]
  /\ todo' = [todo EXCEPT ![t] = Program(SetUp)]
  /\ UNCHANGED <<got, lost, firmware, late, data, ops, faults, history>>

(* Home Assistant runs one refresh of a coordinator at a time. *)
Begin(t) ==
  /\ op[t] = None
  /\ connected
  /\ ops < MaxOps /\ ops + faults < MaxEvents
  /\ ops' = ops + 1
  /\ \E what \in Operations \ {SetUp} :
       /\ what.kind = "poll" => \A u \in Tasks : op[u] # what
       /\ op' = [op EXCEPT ![t] = what]
       /\ todo' = [todo EXCEPT ![t] = Program(what)]
  /\ UNCHANGED <<got, lost, connected, firmware, late, data, faults, history>>

(* An unlock past its first command keeps the lock until it ends.  The lock is
   the connection's, and so is a task's leave to send. *)
Holding(t) ==
  op[t] = [kind |-> "unlock"] /\ Len(todo[t]) < Len(Unlock) /\ t \notin lost
MaySend(t) ==
  op[t] # None /\ t \notin lost /\ \A u \in Tasks : Holding(u) => u = t

End(t) ==
  /\ op' = [op EXCEPT ![t] = None]
  /\ todo' = [todo EXCEPT ![t] = <<>>]
  /\ got' = [got EXCEPT ![t] = <<>>]
  /\ lost' = lost \ {t}

(* A poll that got through makes the data of the coordinator. *)
Publish(answers) ==
  data' = [active_slot |-> answers[2], slot_info |-> answers[3],
           enabled_slots |-> answers[4],
           slot_nicks |-> SubSeq(answers, 7, Len(answers))]

Advance(t, answer) ==
  \/ /\ Len(todo[t]) > 1
     /\ todo' = [todo EXCEPT ![t] = Tail(@)]
     /\ got' = IF op[t].kind = "poll" THEN [got EXCEPT ![t] = Append(@, answer)] ELSE got
     /\ UNCHANGED <<op, lost, data>>
  \/ /\ Len(todo[t]) = 1
     /\ End(t)
     /\ IF op[t].kind = "poll" THEN Publish(Append(got[t], answer)) ELSE UNCHANGED data

(* What a command changes that operations of a kind rely on. *)
Disturbs(cmd, kind) ==
  cmd.name \in {"set_active_slot"} \union
    (IF kind = "poll" THEN {"set_slot_tag_type", "set_slot_enable"}
                      ELSE {"set_anti_coll_data", "write_emu_block_data"})
Noted(cmd, u) ==
  disturbed[u] \union
    (IF op[u] # None /\ Disturbs(cmd, op[u].kind) THEN {"moved"} ELSE {})

(* The operations still under way are noted to be disturbed by a command. *)
Note(cmd, others) ==
  disturbed' = [u \in Tasks |->
    IF op'[u] = None THEN {} ELSE IF u \in others THEN Noted(cmd, u) ELSE disturbed[u]]

Saves(what) == what.kind \in {"select", "load_dump"}
Quiets(what) == what.kind \in {"unlock", "set_up"}

(* The next command is executed and answered. *)
Succeed(t) ==
  LET cmd == Head(todo[t]) IN
  /\ MaySend(t) /\ Sendable(cmd)
  /\ late = None
  /\ Execute(cmd)
  /\ Advance(t, Answer(cmd))
  /\ Note(cmd, Tasks \ {t})
  /\ interrupted' =
       (interrupted /\ ~(cmd.name = "set_emulation_sense" /\ ~cmd.arg))
  /\ UNCHANGED <<connected, late, ops, faults, unsaved>>

Fault ==
  /\ faults < MaxFaults /\ ops + faults < MaxEvents
  /\ faults' = faults + 1 /\ UNCHANGED ops

(* t's next command once nobody waits for its answer: the device gets to it
   later, or never does. *)
Unanswered(t, how) ==
  {None} \union {[cmd |-> cmd, op |-> op[t], disturbed |-> how] :
                   cmd \in {c \in {Head(todo[t])} : Sendable(c)}}

(* _send_locked tells an answer by the code of its command alone. *)
AnswersAny(answered, cmd) == TRUE
Answers(answered, cmd) == answered.name = cmd.name

(* The next command gets the late answer to an earlier one for its own, and
   leaves its own behind. *)
TakeLate(t) ==
  LET how == Noted(late.cmd, t) \union {"late"} IN
  /\ late # None /\ MaySend(t) /\ Sendable(Head(todo[t]))
  /\ Answers(late.cmd, Head(todo[t]))
  /\ Execute(late.cmd)
  /\ Advance(t, Answer(late.cmd))
  /\ disturbed' = [u \in Tasks |-> IF op'[u] = None THEN {}
                                   ELSE IF u = t THEN how ELSE Noted(late.cmd, u)]
  /\ late' \in Unanswered(t, how)
  /\ interrupted' = (interrupted \/ Quiets(op[t]))
  /\ unsaved' = (unsaved \/ Saves(op[t]))
  /\ UNCHANGED <<connected, ops, faults>>

(* The next command raises: it cannot be put into bytes, or it is executed and
   refused or the answer is lost, or it cannot be written or gets no answer in
   time, or it gets the late answer to another one. *)
Raise(t) ==
  LET cmd == Head(todo[t]) IN
  \/ /\ ~Sendable(cmd)
     /\ Note(cmd, {})
     /\ UNCHANGED <<firmware, late, ops, faults>>
  \/ /\ late = None /\ Sendable(cmd)
     /\ Execute(cmd) /\ Note(cmd, Tasks \ {t})
     /\ Fault
     /\ UNCHANGED late
  \/ /\ late' \in {late} \union (IF late = None THEN Unanswered(t, disturbed[t]) ELSE {})
     /\ Fault
     /\ Note(cmd, {})
     /\ UNCHANGED firmware
  \/ /\ late # None /\ Sendable(cmd) /\ ~Answers(late.cmd, cmd)
     /\ Execute(late.cmd) /\ Note(late.cmd, Tasks)
     /\ late' \in Unanswered(t, Noted(late.cmd, t))
     /\ UNCHANGED <<ops, faults>>

(* A nickname that cannot be read is left out. *)
NickFailsSkips(t) ==
  /\ MaySend(t) /\ Head(todo[t]).name = "get_slot_tag_nick"
  /\ Len(todo[t]) > 1
  /\ todo' = [todo EXCEPT ![t] = Tail(@)]
  /\ UNCHANGED <<op, got, lost, connected, data, interrupted, unsaved>>
  /\ Raise(t)

(* A nickname that cannot be read is left empty. *)
NickFails(t) ==
  /\ MaySend(t) /\ Head(todo[t]).name = "get_slot_tag_nick"
  /\ Advance(t, None)
  /\ Raise(t)
  /\ UNCHANGED <<connected, interrupted, unsaved>>

(* Any other failure ends the operation, that of writing the command to read a
   nickname too; a poll then raises, and the coordinator keeps its data. *)
Fail(t) ==
  /\ MaySend(t)
  /\ End(t)
  /\ Raise(t)
  /\ Head(todo[t]).name = "get_slot_tag_nick" => UNCHANGED <<firmware, late>>
  /\ interrupted' = (interrupted \/ Quiets(op[t]))
  /\ unsaved' = (unsaved \/ Saves(op[t]))
  /\ UNCHANGED <<connected, data>>

(* The late answer comes when no command is waiting. *)
Unsolicited ==
  /\ late # None
  /\ UNCHANGED <<tasks, connected, data, ops, faults, interrupted, unsaved>>
  /\ Execute(late.cmd) /\ Note(late.cmd, Tasks)
  /\ late' = None

(* The connection is gone.  What is under way on it goes on until it notices; a
   late command has got through, or never will. *)
BreakOff ==
  /\ Fault
  /\ connected' = FALSE
  /\ lost' = {t \in Tasks : op[t] # None}
  /\ late' = None
  /\ interrupted' = FALSE
  /\ UNCHANGED <<op, todo, got, data>>
Settled == {<<fw, flash, sensing, disturbed>>} \union
  {<<Configured(fw, l.cmd), Saved(l.cmd), Sensing(l.cmd),
     [u \in Tasks |-> Noted(l.cmd, u)]>> : l \in {late} \ {None}}

(* The device may sense again, for all the coordinator knows. *)
LinkLost ==
  /\ connected
  /\ BreakOff
  /\ \E settled \in Settled :
       /\ fw' = settled[1] /\ flash' = settled[2]
       /\ sensing' \in {settled[3], TRUE}
       /\ disturbed' = settled[4]
  /\ unsaved' = (unsaved \/ \E t \in Tasks \ lost : op[t] # None /\ Saves(op[t]))

(* The device is switched off and starts again from its flash, sensing. *)
PowerCycle ==
  /\ BreakOff
  /\ \E settled \in Settled :
       /\ flash' = settled[2] /\ fw' = settled[2]
       /\ disturbed' = [u \in Tasks |-> settled[4][u] \union
            (IF op[u] # None /\ settled[2] # settled[1] THEN {"moved"} ELSE {})]
  /\ sensing' = TRUE
  /\ unsaved' = FALSE

(* An operation whose connection is gone raises, at its next write or when it
   waited long enough for its answer. *)
GiveUp(t) ==
  /\ t \in lost
  /\ End(t)
  /\ disturbed' = [disturbed EXCEPT ![t] = {}]
  /\ UNCHANGED <<connected, firmware, late, data, ops, faults, interrupted, unsaved>>

(* But a poll that waits for its last nickname leaves that one empty, and has
   nothing more to write. *)
LastNickTimesOut(t) ==
  /\ t \in lost
  /\ Head(todo[t]).name = "get_slot_tag_nick" /\ Len(todo[t]) = 1
  /\ Advance(t, None)
  /\ disturbed' = [disturbed EXCEPT ![t] = {}]
  /\ UNCHANGED <<connected, firmware, late, ops, faults, interrupted, unsaved>>

Next ==
  \/ \E t \in Tasks :
       \/ Connect(t) \/ Begin(t)
       \/ Succeed(t) \/ TakeLate(t) \/ NickFails(t) \/ Fail(t)
       \/ GiveUp(t) \/ LastNickTimesOut(t)
  \/ Unsolicited
  \/ LinkLost
  \/ PowerCycle

Spec == Init /\ [][Next]_vars

-----------------------------------------------------------------------------
(* Properties. *)

Contents == [1..BLOCK -> Bytes] \union {None}
SlotConfigs == [type : {"UNKNOWN", "MF1_1K"}, uid : Contents,
                blocks : [Blocks -> Contents], enabled : BOOLEAN]
Configs == [active : Slots, slots : [Slots -> SlotConfigs]]

TypeOK ==
  /\ op \in [Tasks -> Operations \union {None}]
  /\ \A t \in Tasks : /\ op[t] = None <=> todo[t] = <<>>
                      /\ todo[t] \in Seq(Commands)
  /\ lost \subseteq {t \in Tasks : op[t] # None}
  /\ connected \in BOOLEAN
  /\ fw \in Configs /\ flash \in Configs
  /\ sensing \in BOOLEAN
  /\ late \in LateCommands \union {None}
  /\ data.active_slot \in Slots
  /\ data.slot_info \in [Slots -> {"UNKNOWN", "MF1_1K"}]
  /\ data.enabled_slots \in [Slots -> BOOLEAN]
  /\ Len(data.slot_nicks) <= SLOT_COUNT
  /\ ops \in 0..MaxOps /\ faults \in 0..MaxFaults
  /\ disturbed \in [Tasks -> SUBSET Disturbances]
  /\ interrupted \in BOOLEAN /\ unsaved \in BOOLEAN

(* load_dump cuts a dump of any size into chunks that write_emu_block_data takes,
   whole blocks and no more than it allows; the one it can refuse to send starts
   at a block whose number is no byte, and the dump has more blocks than that. *)
WritesAreSendable ==
  \A t \in Tasks : \A i \in 1..Len(todo[t]) :
    LET cmd == todo[t][i] IN
    ~Sendable(cmd) =>
      /\ cmd.arg.start > MAX_BYTE
      /\ BlocksOf(dump_data[op[t].dump]) > cmd.arg.start

(* The step in which the last command of t's operation is over and the operation
   with it. *)
Completes(t) ==
  /\ op[t] # None /\ Len(todo[t]) = 1
  /\ Succeed(t) \/ TakeLate(t) \/ NickFails(t) \/ LastNickTimesOut(t)

Holds(slot, file) ==
  /\ slot.type = "MF1_1K" /\ slot.uid = Said(file, 0)
  /\ \A b \in Blocks \intersect 0..(BlocksIn(file) - 1) : slot.blocks[b] = Said(file, b)

(* A load_dump that completes undisturbed has put the whole card, as the file
   says it and down to a short last chunk, into the slot it was given, as far
   as the memory of the slot goes, and saved it there. *)
UndisturbedLoadIsSaved ==
  [][\A t \in Tasks :
       Completes(t) /\ op[t].kind = "load_dump" /\ disturbed[t] = {} /\ late = None =>
         Holds(flash'.slots[op[t].slot], files[op[t].dump])]_vars

Loads(what, how, s) == what.kind = "load_dump" /\ (what.slot = s \/ "moved" \in how)

(* A slot gets new card data only from a load_dump for that slot, also when the
   device gets to one of its writes late, unless another operation moved the
   active slot in the middle of it; otherwise only a power cycle changes them,
   back to what was saved. *)
CardDataStays ==
  \A s \in Slots :
    fw'.slots[s].uid # fw.slots[s].uid \/ fw'.slots[s].blocks # fw.slots[s].blocks
    => \/ PowerCycle
       \/ late # None /\ Loads(late.op, late.disturbed, s)
       \/ \E t \in Tasks \ lost : op[t] # None /\ Loads(op[t], disturbed[t], s)
CardDataStayInTheirSlot == [][CardDataStays]_vars

(* A poll that nothing disturbs shows the slots as they are, although it reads
   them in several commands, an answer is told by its code alone, and the
   connection may be gone before the poll is over.  What disturbs it is a
   command of another operation, or a power cycle that reverts something. *)
PollIsTrue(t) ==
  Completes(t) /\ op[t].kind = "poll" /\ "moved" \notin disturbed[t] =>
    /\ data'.active_slot = fw.active
    /\ \A s \in Slots : /\ data'.slot_info[s] = fw.slots[s].type
                        /\ data'.enabled_slots[s] = fw.slots[s].enabled
UndisturbedPollIsTrue == [][\A t \in Tasks : PollIsTrue(t)]_vars

(* When all is quiet and no operation broke off, the active slot and the cards
   would survive a power cycle, however selections and loads interleaved. *)
QuietMeansSaved ==
  (\A t \in Tasks \ lost : op[t] = None) /\ ~unsaved =>
    /\ fw.active = flash.active
    /\ \A s \in Slots : fw.slots[s].uid = flash.slots[s].uid
                        /\ fw.slots[s].blocks = flash.slots[s].blocks

(* On a connection whose set-up is over, the device answers readers only while an
   unlock is holding it, or after an unlock or the set-up itself broke off; the
   next complete unlock ends that too. *)
SensingNeedsUnlock ==
  connected /\ sensing =>
    \/ interrupted
    \/ \E t \in Tasks : Holding(t) \/ (op[t] = SetUp /\ t \notin lost)

(* nicks[i] is that of slot i - 1, or of a slot before it, no further up than
   there are gaps above. *)
Nicks(slot) == {nick(slot, type) : type \in {LF, HF}}
Gaps(nicks, i) == {j \in 1..(i - 1) : nicks[j] = None}
Aligned(nicks) ==
  \A i \in 1..Len(nicks) :
    \/ nicks[i] = None
    \/ \E s \in 0..(i - 1) :
         nicks[i] \in Nicks(s) /\ (i - 1) - s <= Cardinality(Gaps(nicks, i))

(* A nickname that could not be read leaves a gap.  The others are shown for the
   slots they belong to, but for late answers: each gap can shift those below it
   by one place, and never more. *)
NicknamesAligned == Aligned(data.slot_nicks)

(* services.yaml says that load_dump loads a dump into a slot: a load_dump that
   completes has put its card into the slot it was given. *)
LoadLandsInSlot ==
  [][\A t \in Tasks :
       Completes(t) /\ op[t].kind = "load_dump" =>
         Holds(flash'.slots[op[t].slot], files[op[t].dump])]_vars
=============================================================================
