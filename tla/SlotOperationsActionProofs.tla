--------------------- MODULE SlotOperationsActionProofs ---------------------
(***************************************************************************)
(* Theorems about the steps of SlotOperations: where card data go, what a  *)
(* load leaves in its slot, and what a poll makes of several commands.     *)
(***************************************************************************)
EXTENDS SlotOperationsProofs

Card == {"set_anti_coll_data", "write_emu_block_data"}
Mixed == {"set_active_slot", "set_slot_tag_type", "set_slot_enable"}

-----------------------------------------------------------------------------
(* Commands and what they change. *)

(* A load selects its slot first, and never again. *)
LEMMA LoadStart ==
  ASSUME NEW slot \in Slots, NEW d \in Dumps, Len(dump_data[d]) >= BLOCK
  PROVE  LET p == LoadDump(slot, d) IN
         /\ p[1].name = "set_active_slot" /\ p[1].slot = slot
         /\ \A i \in 2..Len(p) : p[i].name # "set_active_slot"
  <1> DEFINE first == <<Cmd("set_active_slot", slot, None),
                        Cmd("set_slot_tag_type", slot, "MF1_1K"),
                        Cmd("set_anti_coll_data", None, AntiColl(dump_data[d]))>>
             w == Writes(dump_data[d])
             last == <<Cmd("set_slot_enable", slot, TRUE), Cmd("save_slot_config", None, None)>>
             p == first \o w \o last
  <1>1. /\ first \in Seq({first[1], first[2], first[3]}) /\ Len(first) = 3
        /\ first[1].name = "set_active_slot" /\ first[1].slot = slot
        /\ first[2].name # "set_active_slot" /\ first[3].name # "set_active_slot"
    BY DEF Cmd
  <1>2. /\ last \in Seq({last[1], last[2]}) /\ Len(last) = 2
        /\ last[1].name # "set_active_slot" /\ last[2].name # "set_active_slot"
    BY DEF Cmd
  <1>3. PICK S : w \in Seq(S)
    BY WritesOfDump
  <1>4. Len(w) \in Nat /\ \A i \in 1..Len(w) : w[i].name # "set_active_slot"
    BY WritesOfDump
  <1> HIDE DEF first, w, last
  <1> DEFINE F == {first[1], first[2], first[3]}
             L == {last[1], last[2]}
  <1>5. /\ Len(p) = Len(first) + Len(w) + Len(last)
        /\ \A i \in 1..Len(p) :
             \/ i <= Len(first) /\ p[i] = first[i]
             \/ i - Len(first) \in 1..Len(w) /\ p[i] = w[i - Len(first)]
             \/ /\ i - (Len(first) + Len(w)) \in 1..Len(last)
                /\ p[i] = last[i - (Len(first) + Len(w))]
    <2>1. first \in Seq(F) /\ last \in Seq(L)
      BY <1>1, <1>2
    <2> HIDE DEF F, L
    <2> QED BY <2>1, <1>3, ThreeParts
  <1> HIDE DEF F, L, p
  <1>6. p[1] = first[1]
    <2>1. 1 \in 1..Len(p)
      BY <1>1, <1>2, <1>4, <1>5
    <2> QED BY <1>1, <1>4, <1>5, <2>1
  <1>7. \A i \in 2..Len(p) : p[i].name # "set_active_slot"
    BY <1>1, <1>2, <1>4, <1>5
  <1>8. LoadDump(slot, d) = p
    BY Zenon DEF LoadDump, first, last, w, p
  <1> QED BY <1>1, <1>6, <1>7, <1>8

(* Card data are written by loads only. *)
LEMMA CardCommands ==
  ASSUME NEW what \in Operations, NEW i \in 1..Len(Program(what)),
         Program(what)[i].name \in Card
  PROVE  what.kind = "load_dump"
  <1>1. CASE what.kind = "select"
    <2> DEFINE p == <<Cmd("set_active_slot", what.slot, None), Cmd("save_slot_config", None, None)>>
    <2>1. Program(what) = p
      BY <1>1, Zenon DEF Program, SelectOption
    <2>2. \A j \in 1..Len(p) : p[j].name \notin Card
      BY DEF Cmd, Card
    <2> HIDE DEF p
    <2> QED BY <2>1, <2>2
  <1>2. CASE ~Saves(what)
    <2>1. ~Marks(Program(what)[i])
      BY <1>2, Programs DEF Sound
    <2> QED BY <2>1 DEF Marks, Card
  <1> QED BY <1>1, <1>2 DEF Saves

(* A load that is past its first command has selected its slot; one that is to
   write card data is past it. *)
LEMMA LoadPlace ==
  ASSUME TaskInv, NEW t \in Tasks, op[t] # None, op[t].kind = "load_dump"
  PROVE  LET cmd == Head(todo[t]) IN
         /\ op[t].slot \in Slots
         /\ Place(t) = 0 => cmd.name = "set_active_slot" /\ cmd.slot = op[t].slot
         /\ Place(t) # 0 => cmd.name # "set_active_slot"
  <1> DEFINE cmd == Head(todo[t])
             p == LoadDump(op[t].slot, op[t].dump)
  <1>1. /\ op[t] \in Operations /\ Place(t) \in Nat
        /\ Place(t) + 1 \in 1..Len(Program(op[t])) /\ cmd = Program(op[t])[Place(t) + 1]
    BY NextCommand
  <1>2. Program(op[t]) = p
    BY Zenon DEF Program
  <1>3. op[t].slot \in Slots /\ op[t].dump \in Dumps /\ Len(dump_data[op[t].dump]) >= BLOCK
    BY <1>1, Kinds
  <1>4. /\ p[1].name = "set_active_slot" /\ p[1].slot = op[t].slot
        /\ \A i \in 2..Len(p) : p[i].name # "set_active_slot"
    BY <1>3, LoadStart
  <1> HIDE DEF p, cmd
  <1>5. Place(t) = 0 => cmd = p[1]
    BY <1>1, <1>2
  <1>6. Place(t) # 0 => Place(t) + 1 \in 2..Len(p)
    BY <1>1, <1>2
  <1> QED BY <1>1, <1>2, <1>3, <1>4, <1>5, <1>6 DEF cmd

(* What a command leaves alone. *)
LEMMA ConfiguredParts ==
  ASSUME NEW conf \in Configs, NEW cmd, Valid(cmd)
  PROVE  LET new == Configured(conf, cmd) IN
         /\ cmd.name = "set_active_slot" => new.active = cmd.slot
         /\ cmd.name # "set_active_slot" => new.active = conf.active
         /\ \A s \in Slots :
              /\ cmd.name # "set_slot_tag_type" => new.slots[s].type = conf.slots[s].type
              /\ cmd.name # "set_slot_enable" => new.slots[s].enabled = conf.slots[s].enabled
              /\ cmd.name \notin Card \/ s # conf.active =>
                   /\ new.slots[s].uid = conf.slots[s].uid
                   /\ new.slots[s].blocks = conf.slots[s].blocks
  <1> DEFINE new == Configured(conf, cmd)
  <1>1. CASE cmd.name = "set_active_slot"
    <2>1. new = [conf EXCEPT !.active = cmd.slot]
      BY <1>1, Zenon DEF Configured
    <2> HIDE DEF new
    <2>2. new.active = cmd.slot /\ new.slots = conf.slots
      BY <2>1 DEF Configs
    <2> QED BY <1>1, <2>2 DEF new, Card
  <1>2. CASE cmd.name = "set_slot_tag_type"
    <2>1. new = [conf EXCEPT !.slots[cmd.slot].type = cmd.arg]
      BY <1>2, Zenon DEF Configured
    <2> HIDE DEF new
    <2> QED BY <2>1, <1>2 DEF Configs, SlotConfigs, Valid, new, Card
  <1>3. CASE cmd.name = "set_slot_enable"
    <2>1. new = [conf EXCEPT !.slots[cmd.slot].enabled = cmd.arg]
      BY <1>3, Zenon DEF Configured
    <2> HIDE DEF new
    <2> QED BY <2>1, <1>3 DEF Configs, SlotConfigs, Valid, new, Card
  <1>4. CASE cmd.name = "set_anti_coll_data"
    <2>1. new = [conf EXCEPT !.slots[conf.active].uid = cmd.arg]
      BY <1>4, Zenon DEF Configured
    <2> HIDE DEF new
    <2> QED BY <2>1, <1>4 DEF Configs, SlotConfigs, new, Card
  <1>5. CASE cmd.name = "write_emu_block_data"
    <2> DEFINE blocks == Written(conf.slots[conf.active].blocks, cmd.arg)
    <2>1. new = [conf EXCEPT !.slots[conf.active].blocks = blocks]
      BY <1>5, Zenon DEF Configured
    <2> HIDE DEF new, blocks
    <2> QED BY <2>1, <1>5 DEF Configs, SlotConfigs, new, Card
  <1>6. CASE cmd.name \notin Card \union Mixed
    <2>1. new = conf
      BY <1>6, Zenon DEF Configured, Card, Mixed
    <2> QED BY <1>6, <2>1 DEF Mixed
  <1> QED BY <1>1, <1>2, <1>3, <1>4, <1>5, <1>6 DEF Card, Mixed

(* What a command does to an operation that notes no move. *)
LEMMA NotMoved ==
  ASSUME DeviceInv, NEW cmd, Valid(cmd), fw' = Configured(fw, cmd),
         NEW u \in Tasks, op[u] # None, "moved" \notin Noted(cmd, u)
  PROVE  /\ "moved" \notin disturbed[u]
         /\ fw'.active = fw.active /\ cmd.name # "set_active_slot"
         /\ op[u].kind = "poll" =>
              \A s \in Slots : /\ fw'.slots[s].type = fw.slots[s].type
                               /\ fw'.slots[s].enabled = fw.slots[s].enabled
  <1>1. fw \in Configs
    BY DEF DeviceInv
  <1>2. "moved" \notin disturbed[u] /\ ~Disturbs(cmd, op[u].kind)
    BY DEF Noted
  <1>3. /\ cmd.name # "set_active_slot"
        /\ op[u].kind = "poll" => cmd.name \notin {"set_slot_tag_type", "set_slot_enable"}
    BY <1>2 DEF Disturbs
  <1> QED BY <1>1, <1>2, <1>3, ConfiguredParts

(* A lost operation that ends changes nothing but the data of the coordinator. *)
LEMMA LostEnds ==
  ASSUME TaskInv, CountInv, NEW t \in Tasks, GiveUp(t) \/ LastNickTimesOut(t)
  PROVE  /\ Others(t) /\ op'[t] = None /\ fw' = fw /\ late' = late
         /\ \A u \in Tasks \ {t} : disturbed'[u] = disturbed[u]
  <1>1. /\ fw' = fw /\ late' = late
        /\ \A u \in Tasks \ {t} : disturbed'[u] = disturbed[u]
    BY DEF GiveUp, LastNickTimesOut, firmware, CountInv
  <1>2. CASE GiveUp(t)
    BY <1>1, <1>2, EndMoves DEF GiveUp
  <1>3. CASE LastNickTimesOut(t)
    <2>1. Others(t)
      BY <1>3, LastNick, AdvanceMoves
    <2>2. op'[t] = None
      BY <1>3 DEF LastNickTimesOut, Advance, End, TaskInv
    <2> QED BY <1>1, <2>1, <2>2
  <1> QED BY <1>2, <1>3

-----------------------------------------------------------------------------
(* The active slot of a load. *)

(* A load past its first command that noted no move has its slot active while its
   connection is there, and so has one whose late command writes card data. *)
Selected(t) ==
  /\ op[t] # None /\ t \notin lost
  /\ op[t].kind = "load_dump" /\ Place(t) # 0 /\ "moved" \notin disturbed[t]
  => fw.active = op[t].slot
ActiveInv ==
  /\ \A t \in Tasks : Selected(t)
  /\ late # None /\ late.op.kind = "load_dump" /\ late.cmd.name \in Card
     /\ "moved" \notin late.disturbed => fw.active = late.op.slot

(* Operations that stay where they are. *)
LEMMA StaySelected ==
  ASSUME ActiveInv, DeviceInv, NEW cmd, Valid(cmd), Execute(cmd),
         NEW u \in Tasks, op'[u] = op[u], todo'[u] = todo[u], u \in lost => u \in lost',
         op'[u] # None => disturbed'[u] = Noted(cmd, u)
  PROVE  Selected(u)'
  <1> SUFFICES ASSUME op'[u] # None, u \notin lost', op'[u].kind = "load_dump", Place(u)' # 0,
                      "moved" \notin disturbed'[u]
               PROVE  fw'.active = op'[u].slot
    BY DEF Selected
  <1>1. op[u] # None /\ op[u].kind = "load_dump" /\ Place(u) # 0 /\ "moved" \notin Noted(cmd, u)
    BY DEF Place
  <1>2. fw'.active = fw.active /\ "moved" \notin disturbed[u]
    BY <1>1, NotMoved DEF Execute
  <1> QED BY <1>1, <1>2 DEF ActiveInv, Selected

(* What is left behind of a load that noted no move. *)
LEMMA LeaveSelected ==
  ASSUME TaskInv, NEW t \in Tasks, op[t] # None, NEW how,
         late' \in Unanswered(t, how), late' # None, late'.op.kind = "load_dump",
         late'.cmd.name \in Card, "moved" \notin late'.disturbed
  PROVE  /\ op[t].kind = "load_dump" /\ Place(t) # 0 /\ late'.op.slot = op[t].slot
         /\ "moved" \notin how
  <1>1. late' = [cmd |-> Head(todo[t]), op |-> op[t], disturbed |-> how]
    BY DEF Unanswered
  <1> DEFINE h == Head(todo[t])
  <1> HIDE DEF h
  <1>2. late'.cmd = h /\ late'.op = op[t] /\ late'.disturbed = how
    BY <1>1 DEF h
  <1>3. h.name # "set_active_slot" /\ op[t].kind = "load_dump"
    BY <1>2 DEF Card
  <1>4. Place(t) # 0
    BY <1>3, LoadPlace DEF h
  <1> QED BY <1>2, <1>3, <1>4

(* A load keeps its slot active as long as it notes no move. *)
LEMMA ActiveStep ==
  ASSUME Inv, ActiveInv, Next
  PROVE  ActiveInv'
  <1>1. TaskInv /\ DeviceInv /\ LateInv /\ CountInv
    BY DEF Inv
  <1>2. ASSUME \A u \in Tasks : Selected(u)',
               late' # None /\ late'.op.kind = "load_dump" /\ late'.cmd.name \in Card
                 /\ "moved" \notin late'.disturbed => fw'.active = late'.op.slot
        PROVE  ActiveInv'
    BY <1>2 DEF ActiveInv
  <1>3. ASSUME NEW u \in Tasks, op'[u] = None PROVE Selected(u)'
    BY <1>3 DEF Selected
  <1>4. ASSUME NEW u \in Tasks, fw' = fw, op'[u] = op[u], todo'[u] = todo[u],
               u \in lost => u \in lost',
               op'[u] # None => disturbed'[u] = disturbed[u]
        PROVE  Selected(u)'
    BY <1>4 DEF ActiveInv, Selected, Place
  (* The late command leaves the active slot to those that note no move. *)
  <1>5. ASSUME late # None, Execute(late.cmd), NEW t \in Tasks, op[t] # None, t \notin lost,
               NEW how, how = Noted(late.cmd, t) \/ how = Noted(late.cmd, t) \union {"late"},
               late' \in Unanswered(t, how)
        PROVE  late' # None /\ late'.op.kind = "load_dump" /\ late'.cmd.name \in Card
                 /\ "moved" \notin late'.disturbed => fw'.active = late'.op.slot
    <2> SUFFICES ASSUME late' # None, late'.op.kind = "load_dump", late'.cmd.name \in Card,
                        "moved" \notin late'.disturbed
                 PROVE  fw'.active = late'.op.slot
      OBVIOUS
    <2>1. /\ op[t].kind = "load_dump" /\ Place(t) # 0 /\ late'.op.slot = op[t].slot
          /\ "moved" \notin how
      BY <1>1, <1>5, LeaveSelected
    <2>2. "moved" \notin Noted(late.cmd, t)
      BY <1>5, <2>1
    <2>3. fw'.active = fw.active /\ "moved" \notin disturbed[t]
      BY <1>1, <1>5, <2>2, LateCommand, NotMoved DEF Execute
    <2> QED BY <1>5, <2>1, <2>3 DEF ActiveInv, Selected
  <1>6. ASSUME NEW t \in Tasks, Connect(t) \/ Begin(t) PROVE ActiveInv'
    <2>1. /\ Others(t) /\ op'[t] \in Operations /\ todo'[t] = Program(op'[t])
          /\ fw' = fw /\ late' = late /\ disturbed' = disturbed
      BY <1>1, <1>6, BeginMoves DEF Connect, Begin, firmware, history
    <2>2. Place(t)' = 0
      <3> DEFINE p == Program(op'[t])
      <3>1. Len(p) \in Nat
        BY <2>1, Programs
      <3>2. Place(t)' = Len(p) - Len(p)
        BY <2>1 DEF Place
      <3> HIDE DEF p
      <3> QED BY <3>1, <3>2
    <2>3. Selected(t)'
      BY <2>2 DEF Selected
    <2>4. \A u \in Tasks : Selected(u)'
      BY <1>4, <2>1, <2>3 DEF Others
    <2> QED BY <1>2, <2>1, <2>4 DEF ActiveInv
  <1>7. ASSUME NEW t \in Tasks, Succeed(t) PROVE ActiveInv'
    <2> DEFINE cmd == Head(todo[t])
    <2>1. /\ op[t] # None /\ t \notin lost
          /\ Execute(cmd) /\ Advance(t, Answer(cmd)) /\ late' = None
          /\ Note(cmd, Tasks \ {t})
      BY <1>7 DEF Succeed, MaySend
    <2>2. Valid(cmd)
      BY <1>1, <2>1, NextCommand
    <2>3. Others(t) /\ Advances(t, Answer(cmd))
      BY <1>1, <2>1, <2>2, AnswerTyped, AdvanceMoves
    <2>4. ASSUME NEW u \in Tasks \ {t} PROVE Selected(u)'
      <3>1. op'[u] = op[u] /\ todo'[u] = todo[u] /\ (u \in lost => u \in lost')
        BY <2>3 DEF Others
      <3>2. op'[u] # None => disturbed'[u] = Noted(cmd, u)
        BY <2>1 DEF Note
      <3> HIDE DEF cmd
      <3> QED BY <1>1, <2>1, <2>2, <3>1, <3>2, StaySelected
    <2>5. Selected(t)'
      <3> SUFFICES ASSUME op'[t] # None, op'[t].kind = "load_dump", "moved" \notin disturbed'[t]
                   PROVE  fw'.active = op'[t].slot
        BY DEF Selected
      <3>1. op'[t] = op[t]
        BY <2>3 DEF Advances
      <3>2. disturbed'[t] = disturbed[t]
        BY <2>1 DEF Note
      <3>3. /\ Place(t) = 0 => cmd.name = "set_active_slot" /\ cmd.slot = op[t].slot
            /\ Place(t) # 0 => cmd.name # "set_active_slot"
        BY <1>1, <2>1, <3>1, LoadPlace
      <3> HIDE DEF cmd
      <3>4. fw' = Configured(fw, cmd) /\ fw \in Configs
        BY <1>1, <2>1 DEF Execute, DeviceInv
      <3>5. /\ cmd.name = "set_active_slot" => fw'.active = cmd.slot
            /\ cmd.name # "set_active_slot" => fw'.active = fw.active
        BY <2>2, <3>4, ConfiguredParts
      <3>6. CASE Place(t) = 0
        BY <3>1, <3>3, <3>5, <3>6
      <3>7. CASE Place(t) # 0
        BY <2>1, <3>1, <3>2, <3>3, <3>5, <3>7 DEF ActiveInv, Selected
      <3> QED BY <3>6, <3>7
    <2>6. \A u \in Tasks : Selected(u)'
      BY <2>4, <2>5
    <2> QED BY <1>2, <2>1, <2>6
  <1>8. ASSUME NEW t \in Tasks, TakeLate(t) PROVE ActiveInv'
    <2> DEFINE how == Noted(late.cmd, t) \union {"late"}
    <2>1. /\ op[t] # None /\ t \notin lost /\ late # None /\ Answers(late.cmd, Head(todo[t]))
          /\ Execute(late.cmd) /\ Advance(t, Answer(late.cmd)) /\ Answer(late.cmd) \in Replies
          /\ late' \in Unanswered(t, how)
          /\ disturbed' = [u \in Tasks |-> IF op'[u] = None THEN {}
                                           ELSE IF u = t THEN how ELSE Noted(late.cmd, u)]
      BY <1>1, <1>8, TakeLeaves DEF TakeLate, MaySend
    <2>2. Others(t) /\ Advances(t, Answer(late.cmd))
      BY <1>1, <2>1, AdvanceMoves
    <2>3. Valid(late.cmd)
      BY <1>1, <2>1, LateCommand
    <2>4. ASSUME NEW u \in Tasks \ {t} PROVE Selected(u)'
      <3>1. op'[u] = op[u] /\ todo'[u] = todo[u] /\ (u \in lost => u \in lost')
        BY <2>2 DEF Others
      <3>2. op'[u] # None => disturbed'[u] = Noted(late.cmd, u)
        BY <2>1
      <3> QED BY <1>1, <2>1, <2>3, <3>1, <3>2, StaySelected
    <2>5. Selected(t)'
      <3> SUFFICES ASSUME op'[t] # None, op'[t].kind = "load_dump", "moved" \notin disturbed'[t]
                   PROVE  fw'.active = op'[t].slot
        BY DEF Selected
      <3>1. op'[t] = op[t]
        BY <2>2 DEF Advances
      <3>2. "moved" \notin Noted(late.cmd, t)
        BY <2>1
      <3>3. /\ fw'.active = fw.active /\ "moved" \notin disturbed[t]
            /\ late.cmd.name # "set_active_slot"
        BY <1>1, <2>1, <2>3, <3>2, NotMoved DEF Execute
      <3>4. Head(todo[t]).name # "set_active_slot"
        BY <2>1, <3>3 DEF Answers
      <3>5. Place(t) # 0
        BY <1>1, <2>1, <3>1, <3>4, LoadPlace
      <3> QED BY <2>1, <3>1, <3>3, <3>5 DEF ActiveInv, Selected
    <2>6. \A u \in Tasks : Selected(u)'
      BY <2>4, <2>5
    <2> QED BY <1>2, <1>5, <2>1, <2>6
  (* A command that raises, in an operation that ends or is no load. *)
  <1>9. ASSUME NEW t \in Tasks, op[t] # None, t \notin lost, Raise(t), Others(t),
               Selected(t)'
        PROVE  ActiveInv'
    <2> DEFINE cmd == Head(todo[t])
    <2>1. Valid(cmd)
      BY <1>1, <1>9, NextCommand
    <2> HIDE DEF cmd
    <2>2. CASE late = None /\ Execute(cmd) /\ Note(cmd, Tasks \ {t}) /\ UNCHANGED late
      <3>1. ASSUME NEW u \in Tasks \ {t} PROVE Selected(u)'
        <4>1. op'[u] = op[u] /\ todo'[u] = todo[u] /\ (u \in lost => u \in lost')
          BY <1>9 DEF Others
        <4>2. op'[u] # None => disturbed'[u] = Noted(cmd, u)
          BY <2>2 DEF Note
        <4> QED BY <1>1, <2>1, <2>2, <4>1, <4>2, StaySelected
      <3>2. \A u \in Tasks : Selected(u)'
        BY <1>9, <3>1
      <3> QED BY <1>2, <2>2, <3>2
    <2>3. CASE /\ late' \in {late} \union (IF late = None THEN Unanswered(t, disturbed[t]) ELSE {})
               /\ Note(cmd, {}) /\ UNCHANGED firmware
      <3>1. fw' = fw
        BY <2>3 DEF firmware
      <3>2. ASSUME NEW u \in Tasks \ {t} PROVE Selected(u)'
        <4>1. op'[u] = op[u] /\ todo'[u] = todo[u] /\ (u \in lost => u \in lost')
          BY <1>9 DEF Others
        <4>2. op'[u] # None => disturbed'[u] = disturbed[u]
          BY <2>3 DEF Note
        <4> QED BY <1>4, <3>1, <4>1, <4>2
      <3>3. \A u \in Tasks : Selected(u)'
        BY <1>9, <3>2
      <3>4. late' = late \/ late' \in Unanswered(t, disturbed[t])
        BY <2>3
      <3>5. ASSUME late' \in Unanswered(t, disturbed[t]), late' # None,
                   late'.op.kind = "load_dump", late'.cmd.name \in Card,
                   "moved" \notin late'.disturbed
            PROVE  fw'.active = late'.op.slot
        <4>1. /\ op[t].kind = "load_dump" /\ Place(t) # 0 /\ late'.op.slot = op[t].slot
              /\ "moved" \notin disturbed[t]
          BY <1>1, <1>9, <3>5, LeaveSelected
        <4> QED BY <1>9, <3>1, <4>1 DEF ActiveInv, Selected
      <3>6. late' # None /\ late'.op.kind = "load_dump" /\ late'.cmd.name \in Card
              /\ "moved" \notin late'.disturbed => fw'.active = late'.op.slot
        <4>1. CASE late' = late
          BY <3>1, <4>1 DEF ActiveInv
        <4>2. CASE late' \in Unanswered(t, disturbed[t])
          BY <3>5, <4>2
        <4> QED BY <3>4, <4>1, <4>2
      <3> QED BY <1>2, <3>3, <3>6
    <2>4. CASE /\ late # None /\ Execute(late.cmd) /\ Note(late.cmd, Tasks)
               /\ late' \in Unanswered(t, Noted(late.cmd, t))
      <3>1. Valid(late.cmd)
        BY <1>1, <2>4, LateCommand
      <3>2. ASSUME NEW u \in Tasks \ {t} PROVE Selected(u)'
        <4>1. op'[u] = op[u] /\ todo'[u] = todo[u] /\ (u \in lost => u \in lost')
          BY <1>9 DEF Others
        <4>2. op'[u] # None => disturbed'[u] = Noted(late.cmd, u)
          BY <2>4 DEF Note
        <4> QED BY <1>1, <2>4, <3>1, <4>1, <4>2, StaySelected
      <3>3. \A u \in Tasks : Selected(u)'
        BY <1>9, <3>2
      <3> QED BY <1>2, <1>5, <1>9, <2>4, <3>3
    <2>5. CASE Note(cmd, {}) /\ UNCHANGED <<firmware, late, ops, faults>>
      <3>1. late' \in {late} \union (IF late = None THEN Unanswered(t, disturbed[t]) ELSE {})
            /\ UNCHANGED firmware
        BY <2>5
      <3> QED BY <2>3, <2>5, <3>1
    <2> QED BY <1>9, <2>2, <2>3, <2>4, <2>5 DEF Raise, cmd
  <1>10. ASSUME NEW t \in Tasks, NickFails(t) PROVE ActiveInv'
    <2>1. /\ op[t] # None /\ t \notin lost /\ Head(todo[t]).name = NickCmd /\ Raise(t)
          /\ Advance(t, None) /\ None \in Replies
      BY <1>10 DEF NickFails, MaySend, NickCmd, Replies
    <2>2. Others(t) /\ Advances(t, None)
      BY <1>1, <2>1, AdvanceMoves
    <2>3. op[t].kind = "poll"
      BY <1>1, <2>1, NextCommand
    <2>4. Selected(t)'
      BY <2>2, <2>3 DEF Selected, Advances
    <2> QED BY <1>9, <2>1, <2>2, <2>4
  <1>11. ASSUME NEW t \in Tasks, Fail(t) PROVE ActiveInv'
    <2>1. op[t] # None /\ t \notin lost /\ Raise(t) /\ End(t)
      BY <1>11 DEF Fail, MaySend
    <2>2. Others(t) /\ op'[t] = None
      BY <1>1, <2>1, EndMoves
    <2> QED BY <1>3, <1>9, <2>1, <2>2
  <1>12. CASE Unsolicited
    <2>1. /\ late # None /\ late' = None /\ Execute(late.cmd) /\ Note(late.cmd, Tasks)
          /\ op' = op /\ todo' = todo /\ lost' = lost
      BY <1>12 DEF Unsolicited, tasks
    <2>2. Valid(late.cmd)
      BY <1>1, <2>1, LateCommand
    <2>3. ASSUME NEW u \in Tasks PROVE Selected(u)'
      <3>1. op'[u] # None => disturbed'[u] = Noted(late.cmd, u)
        BY <2>1 DEF Note
      <3>2. op'[u] = op[u] /\ todo'[u] = todo[u] /\ (u \in lost => u \in lost')
        BY <2>1
      <3> QED BY <1>1, <2>1, <2>2, <3>1, <3>2, StaySelected
    <2> QED BY <1>2, <2>1, <2>3
  <1>13. CASE LinkLost \/ PowerCycle
    <2>1. late' = None /\ op' = op /\ lost' = {u \in Tasks : op[u] # None}
      BY <1>13 DEF LinkLost, PowerCycle, BreakOff
    <2>2. \A u \in Tasks : Selected(u)'
      BY <2>1 DEF Selected
    <2> QED BY <1>2, <2>1, <2>2
  <1>14. ASSUME NEW t \in Tasks, GiveUp(t) \/ LastNickTimesOut(t) PROVE ActiveInv'
    <2>1. /\ Others(t) /\ op'[t] = None /\ fw' = fw /\ late' = late
          /\ \A u \in Tasks \ {t} : disturbed'[u] = disturbed[u]
      BY <1>1, <1>14, LostEnds
    <2>2. \A u \in Tasks : Selected(u)'
      BY <1>3, <1>4, <2>1 DEF Others
    <2> QED BY <1>2, <2>1, <2>2 DEF ActiveInv
  <1> QED BY <1>6, <1>7, <1>8, <1>10, <1>11, <1>12, <1>13, <1>14 DEF Next

-----------------------------------------------------------------------------
(* Card data stay in their slot. *)

(* What a command writes into a slot, and whose command it is. *)
Changes(s) ==
  fw'.slots[s].uid # fw.slots[s].uid \/ fw'.slots[s].blocks # fw.slots[s].blocks

(* Only commands that write card data change them, and only in the active slot. *)
LEMMA WritesActiveSlot ==
  ASSUME DeviceInv, NEW cmd, Valid(cmd), fw' = Configured(fw, cmd),
         NEW s \in Slots, Changes(s)
  PROVE  cmd.name \in Card /\ s = fw.active
  BY ConfiguredParts DEF DeviceInv, Changes

(* A load's own command that changes a slot. *)
LEMMA OwnWrite ==
  ASSUME Inv, ActiveInv, NEW t \in Tasks \ lost, op[t] # None, Execute(Head(todo[t])),
         NEW s \in Slots, Changes(s)
  PROVE  Loads(op[t], disturbed[t], s)
  <1> DEFINE cmd == Head(todo[t])
  <1>1. TaskInv /\ DeviceInv
    BY DEF Inv
  <1>2. /\ op[t] \in Operations /\ Valid(cmd) /\ Place(t) \in Nat
        /\ Place(t) + 1 \in 1..Len(Program(op[t])) /\ cmd = Program(op[t])[Place(t) + 1]
    BY <1>1, NextCommand
  <1> HIDE DEF cmd
  <1>3. fw' = Configured(fw, cmd)
    BY DEF Execute, cmd
  <1>4. cmd.name \in Card /\ s = fw.active
    BY <1>1, <1>2, <1>3, WritesActiveSlot
  <1>5. op[t].kind = "load_dump"
    BY <1>2, <1>4, CardCommands
  <1>6. Place(t) # 0
    BY <1>1, <1>4, <1>5, LoadPlace DEF Card, cmd
  <1> QED BY <1>4, <1>5, <1>6 DEF ActiveInv, Selected, Loads

(* A load's late command that changes a slot. *)
LEMMA LateWrite ==
  ASSUME Inv, ActiveInv, late # None, fw' = Configured(fw, late.cmd),
         NEW s \in Slots, Changes(s)
  PROVE  Loads(late.op, late.disturbed, s)
  <1>1. DeviceInv /\ LateInv
    BY DEF Inv
  <1>2. Valid(late.cmd) /\ late.op \in Operations
    BY <1>1, LateCommand
  <1>3. late.cmd.name \in Card /\ s = fw.active
    BY <1>1, <1>2, WritesActiveSlot
  <1>4. PICK i \in 1..Len(Program(late.op)) : late.cmd = Program(late.op)[i]
    BY <1>1 DEF LateInv
  <1>5. late.op.kind = "load_dump"
    BY <1>2, <1>3, <1>4, CardCommands
  <1> QED BY <1>3, <1>5 DEF ActiveInv, Loads

(* Every step puts card data where they belong. *)
LEMMA CardStep ==
  ASSUME Inv, ActiveInv, Next
  PROVE  CardDataStays
  <1> DEFINE LateOne(s) == late # None /\ Loads(late.op, late.disturbed, s)
             OwnOne(s) == \E t \in Tasks \ lost : op[t] # None /\ Loads(op[t], disturbed[t], s)
  <1> SUFFICES ASSUME NEW s \in Slots, Changes(s)
               PROVE  PowerCycle \/ LateOne(s) \/ OwnOne(s)
    BY DEF CardDataStays, Changes
  <1>1. fw' # fw
    BY DEF Changes
  <1>2. ASSUME late # None, Execute(late.cmd) PROVE LateOne(s)
    BY <1>2, LateWrite DEF Execute
  <1>3. ASSUME NEW t \in Tasks \ lost, op[t] # None, Execute(Head(todo[t])) PROVE OwnOne(s)
    BY <1>3, OwnWrite
  <1>4. ASSUME NEW t \in Tasks \ lost, op[t] # None, Raise(t) PROVE LateOne(s) \/ OwnOne(s)
    <2>1. CASE Execute(Head(todo[t]))
      BY <1>3, <1>4, <2>1
    <2>2. CASE UNCHANGED firmware
      BY <1>1, <2>2 DEF firmware
    <2>3. CASE late # None /\ Execute(late.cmd)
      BY <1>2, <2>3
    <2> QED BY <1>4, <2>1, <2>2, <2>3 DEF Raise
  <1>5. ASSUME NEW t \in Tasks,
               \/ Connect(t) \/ Begin(t) \/ Succeed(t) \/ TakeLate(t) \/ NickFails(t)
               \/ Fail(t) \/ GiveUp(t) \/ LastNickTimesOut(t)
        PROVE  LateOne(s) \/ OwnOne(s)
    <2>1. CASE Connect(t) \/ Begin(t) \/ GiveUp(t) \/ LastNickTimesOut(t)
      BY <1>1, <2>1 DEF Connect, Begin, GiveUp, LastNickTimesOut, firmware
    <2>2. CASE Succeed(t)
      BY <1>3, <2>2 DEF Succeed, MaySend
    <2>3. CASE TakeLate(t)
      BY <1>2, <2>3 DEF TakeLate
    <2>4. CASE NickFails(t)
      BY <1>4, <2>4 DEF NickFails, MaySend
    <2>5. CASE Fail(t)
      BY <1>4, <2>5 DEF Fail, MaySend
    <2> QED BY <1>5, <2>1, <2>2, <2>3, <2>4, <2>5
  <1>6. CASE Unsolicited
    BY <1>2, <1>6 DEF Unsolicited
  <1>7. CASE LinkLost
    <2>1. PICK settled \in Settled : fw' = settled[1]
      BY <1>7 DEF LinkLost
    <2>2. CASE settled = <<fw, flash, sensing, disturbed>>
      BY <1>1, <2>1, <2>2
    <2>3. ASSUME late # None,
                 settled = <<Configured(fw, late.cmd), Saved(late.cmd), Sensing(late.cmd),
                             [u \in Tasks |-> Noted(late.cmd, u)]>>
          PROVE  LateOne(s)
      BY <2>1, <2>3, LateWrite
    <2> QED BY <2>2, <2>3 DEF Settled
  <1> QED BY <1>5, <1>6, <1>7 DEF Next

-----------------------------------------------------------------------------
(* Polls tell the truth. *)

(* What a poll that noted no move has read is how things are. *)
Reading(g) ==
  /\ Len(g) >= 2 => g[2] = fw.active
  /\ Len(g) >= 3 => \A s \in Slots : g[3][s] = fw.slots[s].type
  /\ Len(g) >= 4 => \A s \in Slots : g[4][s] = fw.slots[s].enabled
ReadInv ==
  \A t \in Tasks : op[t] = [kind |-> "poll"] /\ "moved" \notin disturbed[t] => Reading(got[t])

(* A reply that is true where it is. *)
True(t, reply) ==
  /\ Place(t) = 1 => reply = fw.active
  /\ Place(t) = 2 => reply = [s \in Slots |-> fw.slots[s].type]
  /\ Place(t) = 3 => reply = [s \in Slots |-> fw.slots[s].enabled]

(* The answer to the next command, and the late one to a command of its name, are
   true. *)
LEMMA TrueAnswer ==
  ASSUME TaskInv, NEW t \in Tasks, op[t] = [kind |-> "poll"],
         NEW cmd, cmd.name = Head(todo[t]).name
  PROVE  True(t, Answer(cmd))
  <1>1. /\ cmd.name = "get_active_slot" <=> Place(t) = 1
        /\ cmd.name = "get_slot_info" <=> Place(t) = 2
        /\ cmd.name = "get_enabled_slots" <=> Place(t) = 3
    BY PollPlace
  <1>2. cmd.name = "get_active_slot" => Answer(cmd) = fw.active
    BY Zenon DEF Answer
  <1>3. cmd.name = "get_slot_info" => Answer(cmd) = [s \in Slots |-> fw.slots[s].type]
    BY Zenon DEF Answer
  <1>4. cmd.name = "get_enabled_slots" => Answer(cmd) = [s \in Slots |-> fw.slots[s].enabled]
    BY Zenon DEF Answer
  <1> QED BY <1>1, <1>2, <1>3, <1>4 DEF True

(* One true reply more. *)
LEMMA ReadingGrows ==
  ASSUME TaskInv, ReadInv, NEW t \in Tasks, op[t] = [kind |-> "poll"],
         "moved" \notin disturbed[t], NEW reply \in Replies, True(t, reply)
  PROVE  Reading(Append(got[t], reply))
  <1> DEFINE g == got[t]
             a == Append(g, reply)
  <1>1. g \in Seq(Replies) /\ Len(g) = Place(t) /\ Reading(g)
    BY PollPlace DEF ReadInv
  <1> HIDE DEF g
  <1>2. /\ Len(a) = Len(g) + 1 /\ Len(g) \in Nat /\ a[Len(g) + 1] = reply
        /\ \A i \in 1..Len(g) : a[i] = g[i]
    BY <1>1
  <1> HIDE DEF a
  <1>3. Len(a) >= 2 => a[2] = fw.active
    BY <1>1, <1>2 DEF Reading, True
  <1>4. ASSUME Len(a) >= 3, NEW s \in Slots PROVE a[3][s] = fw.slots[s].type
    <2>1. CASE Len(g) >= 3
      BY <1>1, <1>2, <2>1 DEF Reading
    <2>2. CASE Len(g) = 2
      <3>1. Place(t) = 2 /\ a[3] = reply
        BY <1>1, <1>2, <2>2
      <3>2. reply = [x \in Slots |-> fw.slots[x].type]
        BY <3>1 DEF True
      <3> QED BY <3>1, <3>2
    <2>3. Len(g) >= 3 \/ Len(g) = 2
      <3> DEFINE m == Len(g)
                 n == Len(a)
      <3>1. m \in Nat /\ n = m + 1 /\ n >= 3
        BY <1>2, <1>4
      <3> HIDE DEF m, n
      <3>2. m >= 3 \/ m = 2
        BY <3>1
      <3> QED BY <3>2 DEF m
    <2> QED BY <2>1, <2>2, <2>3, Zenon
  <1>5. ASSUME Len(a) >= 4, NEW s \in Slots PROVE a[4][s] = fw.slots[s].enabled
    <2>1. CASE Len(g) >= 4
      BY <1>1, <1>2, <2>1 DEF Reading
    <2>2. CASE Len(g) = 3
      <3>1. Place(t) = 3 /\ a[4] = reply
        BY <1>1, <1>2, <2>2
      <3>2. reply = [x \in Slots |-> fw.slots[x].enabled]
        BY <3>1 DEF True
      <3> QED BY <3>1, <3>2
    <2>3. Len(g) >= 4 \/ Len(g) = 3
      <3> DEFINE m == Len(g)
                 n == Len(a)
      <3>1. m \in Nat /\ n = m + 1 /\ n >= 4
        BY <1>2, <1>5
      <3> HIDE DEF m, n
      <3>2. m >= 4 \/ m = 3
        BY <3>1
      <3> QED BY <3>2 DEF m
    <2> QED BY <2>1, <2>2, <2>3, Zenon
  <1>6. Reading(a)
    BY <1>3, <1>4, <1>5 DEF Reading
  <1> QED BY <1>6 DEF a, g

(* The parts of the device that a poll reads. *)
SameView ==
  /\ fw'.active = fw.active
  /\ \A s \in Slots : /\ fw'.slots[s].type = fw.slots[s].type
                      /\ fw'.slots[s].enabled = fw.slots[s].enabled

(* A poll notes whatever would make untrue what it has read. *)
LEMMA ReadStep ==
  ASSUME Inv, ReadInv, Next
  PROVE  ReadInv'
  <1>1. TaskInv /\ DeviceInv /\ LateInv /\ CountInv
    BY DEF Inv
  <1>2. [kind |-> "poll"] # None /\ [kind |-> "poll"].kind = "poll"
    BY NoneAssumption DEF Operations
  <1> DEFINE Fine(u) == op'[u] = [kind |-> "poll"] /\ "moved" \notin disturbed'[u] =>
                          Reading(got[u])'
  <1>3. ASSUME \A u \in Tasks : Fine(u) PROVE ReadInv'
    BY <1>3 DEF ReadInv
  <1>4. ASSUME NEW u \in Tasks, op'[u] = op[u], got'[u] = got[u], fw' = fw,
               op'[u] # None => disturbed'[u] = disturbed[u]
        PROVE  Fine(u)
    BY <1>2, <1>4 DEF ReadInv, Reading
  <1>5. ASSUME NEW cmd, Valid(cmd), fw' = Configured(fw, cmd),
               NEW u \in Tasks, op[u] = [kind |-> "poll"],
               "moved" \notin Noted(cmd, u)
        PROVE  "moved" \notin disturbed[u] /\ SameView
    BY <1>1, <1>2, <1>5, NotMoved DEF SameView
  <1>6. ASSUME NEW cmd, Valid(cmd), fw' = Configured(fw, cmd), NEW u \in Tasks, op'[u] = op[u],
               got'[u] = got[u], op'[u] # None => disturbed'[u] = Noted(cmd, u)
        PROVE  Fine(u)
    <2> SUFFICES ASSUME op'[u] = [kind |-> "poll"], "moved" \notin disturbed'[u]
                 PROVE  Reading(got[u])'
      OBVIOUS
    <2>1. "moved" \notin disturbed[u] /\ SameView
      BY <1>2, <1>5, <1>6
    <2>2. Reading(got[u])
      BY <1>6, <2>1 DEF ReadInv
    <2> QED BY <1>6, <2>1, <2>2 DEF Reading, SameView
  (* The command of a poll changes nothing that polls read. *)
  <1>7. ASSUME NEW t \in Tasks, op[t] = [kind |-> "poll"], Execute(Head(todo[t]))
        PROVE  SameView
    <2> DEFINE cmd == Head(todo[t])
    <2>1. Valid(cmd) /\ (~Saves(op[t]) => ~Marks(cmd)) /\ op[t] # None
      BY <1>1, <1>2, <1>7, NextCommand
    <2>2. op[t].kind = "poll" /\ ~Saves(op[t])
      BY <1>7 DEF Saves
    <2>3. cmd.name \notin Mixed
      <3>1. PICK i \in 1..Len(Poll) : cmd = Poll[i]
        <4>1. Program(op[t]) = Poll
          BY <2>2, Zenon DEF Program
        <4> QED BY <1>1, <2>1, <4>1, NextCommand
      <3>2. CASE i \in 1..6
        BY <3>1, <3>2, PollProgram DEF Mixed, Reads
      <3>3. CASE i \in 7..(6 + SLOT_COUNT)
        <4>1. Poll[i] = Cmd(NickCmd, i - 7, 1)
          BY <3>3, PollProgram
        <4> QED BY <3>1, <4>1 DEF Cmd, NickCmd, Mixed
      <3>4. Len(Poll) = 6 + SLOT_COUNT /\ SLOT_COUNT \in Nat
        BY PollProgram, CountsAssumption
      <3>5. i \in 1..6 \/ i \in 7..(6 + SLOT_COUNT)
        BY <3>4
      <3> QED BY <3>2, <3>3, <3>5
    <2> HIDE DEF cmd
    <2>4. fw' = Configured(fw, cmd) /\ fw \in Configs
      BY <1>1, <1>7 DEF Execute, DeviceInv, cmd
    <2> QED BY <2>1, <2>3, <2>4, ConfiguredParts DEF SameView, Mixed
  (* A poll goes on. *)
  <1>8. ASSUME NEW t \in Tasks, NEW reply \in Replies, Advances(t, reply),
               op[t] = [kind |-> "poll"] /\ "moved" \notin disturbed'[t]
                 /\ op'[t] = [kind |-> "poll"] =>
                   "moved" \notin disturbed[t] /\ SameView /\ True(t, reply)
        PROVE  Fine(t)
    <2> SUFFICES ASSUME op'[t] = [kind |-> "poll"], "moved" \notin disturbed'[t]
                 PROVE  Reading(got[t])'
      OBVIOUS
    <2>1. op[t] = [kind |-> "poll"] /\ got'[t] = Append(got[t], reply)
      BY <1>2, <1>8 DEF Advances
    <2>2. Reading(Append(got[t], reply)) /\ SameView
      BY <1>1, <1>8, <2>1, ReadingGrows
    <2> DEFINE a == Append(got[t], reply)
    <2> HIDE DEF a
    <2>3. Reading(a) /\ got'[t] = a
      BY <2>1, <2>2 DEF a
    <2> QED BY <2>2, <2>3 DEF Reading, SameView
  <1>9. ASSUME NEW t \in Tasks, Connect(t) \/ Begin(t) PROVE ReadInv'
    <2>1. /\ Others(t) /\ got'[t] = <<>> /\ fw' = fw /\ disturbed' = disturbed
      BY <1>1, <1>9, BeginMoves DEF Connect, Begin, firmware, history
    <2>2. Fine(t)
      BY <2>1 DEF Reading
    <2>3. \A u \in Tasks : Fine(u)
      BY <1>4, <2>1, <2>2 DEF Others
    <2> QED BY <1>3, <2>3
  <1>10. ASSUME NEW t \in Tasks, Succeed(t) PROVE ReadInv'
    <2> DEFINE cmd == Head(todo[t])
    <2>1. /\ op[t] # None /\ Execute(cmd) /\ Advance(t, Answer(cmd))
          /\ Note(cmd, Tasks \ {t})
      BY <1>10 DEF Succeed, MaySend
    <2>2. Valid(cmd)
      BY <1>1, <2>1, NextCommand
    <2>3. Answer(cmd) \in Replies
      BY <1>1, <2>2, AnswerTyped
    <2>4. Others(t) /\ Advances(t, Answer(cmd))
      BY <1>1, <2>1, <2>3, AdvanceMoves
    <2>5. ASSUME NEW u \in Tasks \ {t} PROVE Fine(u)
      <3>1. op'[u] = op[u] /\ got'[u] = got[u]
        BY <2>4 DEF Others
      <3>2. op'[u] # None => disturbed'[u] = Noted(cmd, u)
        BY <2>1 DEF Note
      <3> HIDE DEF cmd
      <3> QED BY <1>6, <2>1, <2>2, <3>1, <3>2 DEF Execute
    <2>6. op'[t] # None => disturbed'[t] = disturbed[t]
      BY <2>1 DEF Note
    <2>7. op[t] = [kind |-> "poll"] => SameView /\ True(t, Answer(cmd))
      BY <1>1, <1>7, <2>1, TrueAnswer
    <2>8. Fine(t)
      <3> DEFINE reply == Answer(cmd)
      <3> HIDE DEF reply
      <3>1. reply \in Replies /\ Advances(t, reply) /\ (op[t] = [kind |-> "poll"] => True(t, reply))
        BY <2>3, <2>4, <2>7 DEF reply
      <3> QED BY <1>2, <1>8, <2>6, <2>7, <3>1
    <2> QED BY <1>3, <2>5, <2>8
  <1>11. ASSUME NEW t \in Tasks, TakeLate(t) PROVE ReadInv'
    <2> DEFINE reply == Answer(late.cmd)
    <2>1. /\ op[t] # None /\ late # None /\ Answers(late.cmd, Head(todo[t]))
          /\ Execute(late.cmd) /\ Advance(t, reply) /\ reply \in Replies
          /\ \A u \in Tasks : op'[u] # None =>
               disturbed'[u] = IF u = t THEN Noted(late.cmd, t) \union {"late"}
                                        ELSE Noted(late.cmd, u)
      BY <1>1, <1>11, TakeLeaves DEF TakeLate
    <2>2. Others(t) /\ Advances(t, reply)
      BY <1>1, <2>1, AdvanceMoves
    <2>3. Valid(late.cmd)
      BY <1>1, <2>1, LateCommand
    <2>4. ASSUME NEW u \in Tasks \ {t} PROVE Fine(u)
      <3>1. op'[u] = op[u] /\ got'[u] = got[u]
        BY <2>2 DEF Others
      <3>2. op'[u] # None => disturbed'[u] = Noted(late.cmd, u)
        BY <2>1
      <3> QED BY <1>6, <2>1, <2>3, <3>1, <3>2 DEF Execute
    <2>5. op[t] = [kind |-> "poll"] => True(t, reply)
      BY <1>1, <2>1, TrueAnswer DEF Answers
    <2> HIDE DEF reply
    <2>6. op[t] = [kind |-> "poll"] /\ "moved" \notin disturbed'[t] /\ op'[t] = [kind |-> "poll"]
            => "moved" \notin disturbed[t] /\ SameView
      <3> SUFFICES ASSUME op[t] = [kind |-> "poll"], "moved" \notin disturbed'[t],
                          op'[t] = [kind |-> "poll"]
                   PROVE  "moved" \notin disturbed[t] /\ SameView
        OBVIOUS
      <3>1. "moved" \notin Noted(late.cmd, t)
        BY <1>2, <2>1
      <3> QED BY <1>5, <2>1, <2>3, <3>1 DEF Execute
    <2>7. Fine(t)
      BY <1>8, <2>1, <2>2, <2>5, <2>6
    <2> QED BY <1>3, <2>4, <2>7
  (* A command that raises, in an operation that ends or gets a gap for it. *)
  <1>12. ASSUME NEW t \in Tasks, op[t] # None, Raise(t), Others(t),
                \/ op'[t] = None
                \/ /\ op[t] = [kind |-> "poll"] /\ Place(t) >= 6 /\ Place(t) \in Nat
                   /\ Advances(t, None)
         PROVE  ReadInv'
    <2> DEFINE cmd == Head(todo[t])
    <2>1. Valid(cmd)
      BY <1>1, <1>12, NextCommand
    <2>2. ASSUME op[t] = [kind |-> "poll"] /\ "moved" \notin disturbed'[t]
                   /\ op'[t] = [kind |-> "poll"] => "moved" \notin disturbed[t] /\ SameView
          PROVE  Fine(t)
      <3>1. CASE op'[t] = None
        BY <1>2, <3>1
      <3>2. CASE op[t] = [kind |-> "poll"] /\ Place(t) >= 6 /\ Place(t) \in Nat /\ Advances(t, None)
        <4>1. True(t, None) /\ None \in Replies
          BY <3>2 DEF True, Replies
        <4> QED BY <1>8, <2>2, <3>2, <4>1
      <3> QED BY <1>12, <3>1, <3>2
    <2>3. CASE late = None /\ Execute(cmd) /\ Note(cmd, Tasks \ {t})
      <3>1. ASSUME NEW u \in Tasks \ {t} PROVE Fine(u)
        <4>1. op'[u] = op[u] /\ got'[u] = got[u]
          BY <1>12 DEF Others
        <4>2. op'[u] # None => disturbed'[u] = Noted(cmd, u)
          BY <2>3 DEF Note
        <4> HIDE DEF cmd
        <4> QED BY <1>6, <2>1, <2>3, <4>1, <4>2 DEF Execute
      <3>2. op'[t] # None => disturbed'[t] = disturbed[t]
        BY <2>3 DEF Note
      <3>3. op[t] = [kind |-> "poll"] => SameView
        BY <1>7, <2>3
      <3>4. Fine(t)
        BY <1>2, <2>2, <3>2, <3>3
      <3> QED BY <1>3, <3>1, <3>4
    <2>4. CASE Note(cmd, {}) /\ UNCHANGED firmware
      <3>1. fw' = fw /\ SameView
        BY <2>4 DEF firmware, SameView
      <3>2. \A u \in Tasks : op'[u] # None => disturbed'[u] = disturbed[u]
        BY <2>4 DEF Note
      <3>3. \A u \in Tasks \ {t} : Fine(u)
        BY <1>4, <1>12, <3>1, <3>2 DEF Others
      <3>4. Fine(t)
        BY <1>2, <2>2, <3>1, <3>2
      <3> QED BY <1>3, <3>3, <3>4
    <2>5. CASE late # None /\ Execute(late.cmd) /\ Note(late.cmd, Tasks)
      <3>1. Valid(late.cmd)
        BY <1>1, <2>5, LateCommand
      <3>2. \A u \in Tasks : op'[u] # None => disturbed'[u] = Noted(late.cmd, u)
        BY <2>5 DEF Note
      <3>3. ASSUME NEW u \in Tasks \ {t} PROVE Fine(u)
        <4>1. op'[u] = op[u] /\ got'[u] = got[u]
          BY <1>12 DEF Others
        <4> QED BY <1>6, <2>5, <3>1, <3>2, <4>1 DEF Execute
      <3>4. Fine(t)
        BY <1>2, <1>5, <2>2, <2>5, <3>1, <3>2 DEF Execute
      <3> QED BY <1>3, <3>3, <3>4
    <2> QED BY <1>12, <2>3, <2>4, <2>5 DEF Raise
  <1>13. ASSUME NEW t \in Tasks, NickFails(t) PROVE ReadInv'
    <2>1. /\ op[t] # None /\ Head(todo[t]).name = NickCmd /\ Raise(t)
          /\ Advance(t, None) /\ None \in Replies
      BY <1>13 DEF NickFails, MaySend, NickCmd, Replies
    <2>2. Others(t) /\ Advances(t, None)
      BY <1>1, <2>1, AdvanceMoves
    <2>3. op[t] \in Operations /\ op[t].kind = "poll" /\ Place(t) \in Nat
      BY <1>1, <2>1, NextCommand
    <2>4. op[t] = [kind |-> "poll"]
      BY <2>3, Kinds
    <2>5. Place(t) >= 6
      BY <1>1, <2>1, <2>4, PollPlace
    <2> QED BY <1>12, <2>1, <2>2, <2>3, <2>4, <2>5
  <1>14. ASSUME NEW t \in Tasks, Fail(t) PROVE ReadInv'
    <2>1. op[t] # None /\ Raise(t) /\ End(t)
      BY <1>14 DEF Fail, MaySend
    <2>2. Others(t) /\ op'[t] = None
      BY <1>1, <2>1, EndMoves
    <2> QED BY <1>12, <2>1, <2>2
  <1>15. CASE Unsolicited
    <2>1. /\ late # None /\ Execute(late.cmd) /\ Note(late.cmd, Tasks)
          /\ op' = op /\ got' = got
      BY <1>15 DEF Unsolicited, tasks
    <2>2. Valid(late.cmd)
      BY <1>1, <2>1, LateCommand
    <2>3. \A u \in Tasks : op'[u] # None => disturbed'[u] = Noted(late.cmd, u)
      BY <2>1 DEF Note
    <2>4. \A u \in Tasks : Fine(u)
      BY <1>6, <2>1, <2>2, <2>3 DEF Execute
    <2> QED BY <1>3, <2>4
  (* The connection is gone, the late command has got through or not. *)
  <1>16. ASSUME NEW settled \in Settled, fw' = settled[1], NEW u \in Tasks, op'[u] = op[u],
                got'[u] = got[u], disturbed'[u] = settled[4][u]
         PROVE  Fine(u)
    <2>1. CASE settled = <<fw, flash, sensing, disturbed>>
      BY <1>4, <1>16, <2>1
    <2>2. ASSUME late # None,
                 settled = <<Configured(fw, late.cmd), Saved(late.cmd), Sensing(late.cmd),
                             [v \in Tasks |-> Noted(late.cmd, v)]>>
          PROVE  Fine(u)
      <3>1. Valid(late.cmd) /\ fw' = Configured(fw, late.cmd)
            /\ disturbed'[u] = Noted(late.cmd, u)
        BY <1>1, <1>16, <2>2, LateCommand
      <3> QED BY <1>6, <1>16, <3>1
    <2> QED BY <2>1, <2>2 DEF Settled
  <1>17. CASE LinkLost
    <2>1. PICK settled \in Settled : fw' = settled[1] /\ disturbed' = settled[4]
      BY <1>17 DEF LinkLost
    <2>2. op' = op /\ got' = got
      BY <1>17 DEF LinkLost, BreakOff
    <2>3. \A u \in Tasks : Fine(u)
      BY <1>16, <2>1, <2>2
    <2> QED BY <1>3, <2>3
  <1>18. CASE PowerCycle
    <2>1. PICK settled \in Settled :
            /\ fw' = settled[2]
            /\ disturbed' = [u \in Tasks |-> settled[4][u] \union
                 (IF op[u] # None /\ settled[2] # settled[1] THEN {"moved"} ELSE {})]
      BY <1>18 DEF PowerCycle
    <2>2. op' = op /\ got' = got
      BY <1>18 DEF PowerCycle, BreakOff
    <2>3. ASSUME NEW u \in Tasks PROVE Fine(u)
      <3>1. CASE settled[2] = settled[1]
        <4>1. disturbed'[u] = settled[4][u]
          BY <2>1, <3>1
        <4> QED BY <1>16, <2>1, <2>2, <3>1, <4>1
      <3>2. CASE settled[2] # settled[1]
        <4>1. op[u] # None => "moved" \in disturbed'[u]
          BY <2>1, <3>2
        <4> QED BY <1>2, <2>2, <4>1
      <3> QED BY <3>1, <3>2
    <2> QED BY <1>3, <2>3
  <1>19. ASSUME NEW t \in Tasks, GiveUp(t) \/ LastNickTimesOut(t) PROVE ReadInv'
    <2>1. /\ Others(t) /\ op'[t] = None /\ fw' = fw
          /\ \A u \in Tasks \ {t} : disturbed'[u] = disturbed[u]
      BY <1>1, <1>19, LostEnds
    <2>2. \A u \in Tasks : Fine(u)
      BY <1>2, <1>4, <2>1 DEF Others
    <2> QED BY <1>3, <2>2
  <1> QED BY <1>9, <1>10, <1>11, <1>13, <1>14, <1>15, <1>17, <1>18, <1>19 DEF Next

(* A poll that ends publishes what it has read. *)
LEMMA PollStep ==
  ASSUME Inv, ReadInv, Next
  PROVE  \A t \in Tasks : PollIsTrue(t)
  <1> SUFFICES ASSUME NEW t \in Tasks, Completes(t), op[t].kind = "poll",
                      "moved" \notin disturbed[t]
               PROVE  /\ data'.active_slot = fw.active
                      /\ \A s \in Slots : /\ data'.slot_info[s] = fw.slots[s].type
                                          /\ data'.enabled_slots[s] = fw.slots[s].enabled
    BY DEF PollIsTrue
  <1>1. TaskInv /\ DeviceInv /\ LateInv /\ CountInv
    BY DEF Inv
  <1>2. op[t] # None /\ Len(todo[t]) = 1
    BY DEF Completes
  <1>3. op[t] = [kind |-> "poll"]
    <2>1. op[t] \in Operations
      BY <1>1, <1>2 DEF TaskInv
    <2> QED BY <2>1, Kinds
  <1>4. PICK reply \in Replies : Advance(t, reply)
    <2>1. CASE Succeed(t)
      <3>1. Advance(t, Answer(Head(todo[t])))
        BY <2>1 DEF Succeed
      <3>2. Answer(Head(todo[t])) \in Replies
        BY <1>1, <1>2, NextCommand, AnswerTyped
      <3> QED BY <3>1, <3>2, Zenon
    <2>2. CASE TakeLate(t)
      BY <1>1, <2>2, TakeLeaves DEF TakeLate
    <2>3. CASE NickFails(t) \/ LastNickTimesOut(t)
      BY <2>3 DEF NickFails, LastNickTimesOut, Replies
    <2> QED BY <2>1, <2>2, <2>3 DEF Completes
  <1> DEFINE g == got[t]
             all == Append(g, reply)
  <1>5. g \in Seq(Replies) /\ Len(g) >= 4 /\ Reading(g)
    <2>1. /\ g \in Seq(Replies) /\ Len(g) = Place(t) /\ Place(t) \in Nat
          /\ Len(todo[t]) = 6 + SLOT_COUNT - Place(t)
      BY <1>1, <1>3, PollPlace, CountsAssumption
    <2>2. Reading(g)
      BY <1>3 DEF ReadInv
    <2> DEFINE n == Len(todo[t])
    <2> HIDE DEF g, n
    <2>3. n = 1 /\ n = 6 + SLOT_COUNT - Place(t)
      BY <1>2, <2>1 DEF n
    <2> QED BY <2>1, <2>2, <2>3, CountsAssumption
  <1>6. data' = [active_slot |-> all[2], slot_info |-> all[3], enabled_slots |-> all[4],
                 slot_nicks |-> SubSeq(all, 7, Len(all))]
    <2>1. Advances(t, reply)
      BY <1>1, <1>2, <1>4, AdvanceMoves
    <2> DEFINE n == Len(todo[t])
    <2>2. n = 1 /\ (n > 1 \/ Publish(all))
      BY <1>2, <2>1, Zenon DEF Advances
    <2> HIDE DEF n, all
    <2>3. Publish(all)
      BY <2>2
    <2> QED BY <2>3, Zenon DEF Publish
  <1> HIDE DEF g
  <1>7. all[2] = g[2] /\ all[3] = g[3] /\ all[4] = g[4]
    BY <1>5
  <1> HIDE DEF all
  <1>8. data'.active_slot = g[2] /\ data'.slot_info = g[3] /\ data'.enabled_slots = g[4]
    BY <1>6, <1>7
  <1> QED BY <1>5, <1>8 DEF Reading

-----------------------------------------------------------------------------
(* What a load has put into its slot. *)

(* The commands of a load. *)
ChunkWrite(dump, i) ==
  Cmd("write_emu_block_data", None,
      [start |-> ChunkStart(i),
       data |-> Slice(dump, ChunkStart(i), ChunkEnd(i, BlocksOf(dump)))])
LEMMA LoadCommands ==
  ASSUME NEW slot \in Slots, NEW d \in Dumps
  PROVE  LET p == LoadDump(slot, d)
             n == NumberOfChunks(BlocksOf(dump_data[d]))
         IN  /\ n \in Nat /\ Len(p) = 5 + n
             /\ p[2] = Cmd("set_slot_tag_type", slot, "MF1_1K")
             /\ p[3] = Cmd("set_anti_coll_data", None, AntiColl(dump_data[d]))
             /\ \A i \in 1..n : p[3 + i] = ChunkWrite(dump_data[d], i)
             /\ p[4 + n] = Cmd("set_slot_enable", slot, TRUE)
             /\ p[5 + n] = Cmd("save_slot_config", None, None)
  <1> DEFINE dump == dump_data[d]
             n == NumberOfChunks(BlocksOf(dump))
             first == <<Cmd("set_active_slot", slot, None),
                        Cmd("set_slot_tag_type", slot, "MF1_1K"),
                        Cmd("set_anti_coll_data", None, AntiColl(dump))>>
             w == Writes(dump)
             last == <<Cmd("set_slot_enable", slot, TRUE), Cmd("save_slot_config", None, None)>>
             S == {first[1], first[2], first[3]} \union {ChunkWrite(dump, i) : i \in 1..n}
                  \union {last[1], last[2]}
             front == first \o w
             p == front \o last
  <1>1. LoadDump(slot, d) = p
    BY Zenon DEF LoadDump, first, w, last, front, p
  <1>2. n \in Nat
    <2>1. dump \in Seq(Bytes)
      BY DumpsAssumption
    <2> HIDE DEF dump
    <2>2. BlocksOf(dump) \in Nat
      BY <2>1, DivFacts, SizesAssumption DEF BlocksOf
    <2> QED BY <2>2, ChunkCount
  <1>3. w = [i \in 1..n |-> ChunkWrite(dump, i)]
    BY Zenon DEF Writes, ChunkWrite
  <1> HIDE DEF dump, n
  <1>4. first \in Seq(S) /\ Len(first) = 3 /\ last \in Seq(S) /\ Len(last) = 2
    OBVIOUS
  <1>5. w \in Seq(S) /\ Len(w) = n /\ \A i \in 1..n : w[i] = ChunkWrite(dump, i)
    <2> DEFINE One(i) == ChunkWrite(dump, i)
    <2>1. w = [i \in 1..n |-> One(i)] /\ \A i \in 1..n : One(i) \in S
      BY <1>3
    <2> HIDE DEF One, S, w
    <2>2. w \in Seq(S) /\ Len(w) = n /\ \A i \in 1..n : w[i] = One(i)
      BY <1>2, <2>1
    <2> QED BY <2>2 DEF One
  <1>6. /\ first[2] = Cmd("set_slot_tag_type", slot, "MF1_1K")
        /\ first[3] = Cmd("set_anti_coll_data", None, AntiColl(dump))
        /\ last[1] = Cmd("set_slot_enable", slot, TRUE)
        /\ last[2] = Cmd("save_slot_config", None, None)
    OBVIOUS
  <1> HIDE DEF first, w, last, S
  <1>7. /\ front \in Seq(S) /\ Len(front) = Len(first) + Len(w)
        /\ \A i \in 1..Len(first) : front[i] = first[i]
        /\ \A i \in 1..Len(w) : front[Len(first) + i] = w[i]
    <2>1. first \in Seq(S) /\ w \in Seq(S)
      BY <1>4, <1>5
    <2> QED BY <2>1, Joined
  <1>8. /\ front \in Seq(S) /\ Len(front) = 3 + n
        /\ front[2] = first[2] /\ front[3] = first[3]
        /\ \A i \in 1..n : front[3 + i] = w[i]
    BY <1>2, <1>4, <1>5, <1>7
  <1> HIDE DEF front
  <1>9. /\ Len(p) = Len(front) + Len(last)
        /\ \A i \in 1..Len(front) : p[i] = front[i]
        /\ \A i \in 1..Len(last) : p[Len(front) + i] = last[i]
    <2>1. front \in Seq(S) /\ last \in Seq(S)
      BY <1>4, <1>8
    <2> QED BY <2>1, Joined
  <1> HIDE DEF p
  <1>10. /\ Len(p) = 5 + n /\ p[2] = first[2] /\ p[3] = first[3]
         /\ p[4 + n] = last[1] /\ p[5 + n] = last[2]
    <2>1. /\ 2 \in 1..(3 + n) /\ 3 \in 1..(3 + n) /\ 1 \in 1..2 /\ 2 \in 1..2
          /\ 3 + n + 1 = 4 + n /\ 3 + n + 2 = 5 + n
      BY <1>2
    <2> QED BY <1>4, <1>8, <1>9, <2>1
  <1>11. ASSUME NEW i \in 1..n PROVE p[3 + i] = ChunkWrite(dump, i)
    <2>1. 3 + i \in 1..(3 + n)
      BY <1>2
    <2> QED BY <1>5, <1>8, <1>9, <2>1
  <1> QED BY <1>1, <1>2, <1>6, <1>10, <1>11 DEF dump, n

(* What a slot holds once p commands of a load of dump are over. *)
HoldsChunk(slot, dump, i) ==
  \A b \in Blocks \intersect ChunkStart(i)..(ChunkEnd(i, BlocksOf(dump)) - 1) :
    slot.blocks[b] = Slice(dump, b, b + 1)
HeldAt(slot, dump, p) ==
  /\ p >= 2 => slot.type = "MF1_1K"
  /\ p >= 3 => slot.uid = AntiColl(dump)
  /\ \A i \in 1..NumberOfChunks(BlocksOf(dump)) : p >= 3 + i => HoldsChunk(slot, dump, i)

(* A write puts its chunk into the active slot, beside those before it. *)
LEMMA WriteHolds ==
  ASSUME NEW d \in Dumps, NEW i \in 1..NumberOfChunks(BlocksOf(dump_data[d])),
         NEW conf \in Configs
  PROVE  LET dump == dump_data[d]
             old == conf.slots[conf.active]
             new == Configured(conf, ChunkWrite(dump, i)).slots[conf.active]
         IN  /\ new.type = old.type /\ new.uid = old.uid
             /\ HoldsChunk(new, dump, i)
             /\ \A j \in 1..(i - 1) : HoldsChunk(old, dump, j) => HoldsChunk(new, dump, j)
  <1> DEFINE dump == dump_data[d]
             total == BlocksOf(dump)
             n == NumberOfChunks(total)
             start == ChunkStart(i)
             end == ChunkEnd(i, total)
             chunk == Slice(dump, start, end)
             arg == [start |-> start, data |-> chunk]
             cmd == ChunkWrite(dump, i)
             s == conf.active
             old == conf.slots[s]
             blocks == Written(old.blocks, arg)
             new == Configured(conf, cmd).slots[s]
  <1>1. dump \in Seq(Bytes)
    BY DumpsAssumption
  <1> HIDE DEF dump
  <1>2. total \in Nat
    BY <1>1, DivFacts, SizesAssumption DEF BlocksOf
  <1>3. n \in Nat
    BY <1>2, ChunkCount
  <1>4. start \in Nat /\ end \in Nat /\ start < end /\ end <= total
    BY <1>2, ChunksFit DEF dump
  <1>5. /\ cmd.name = "write_emu_block_data" /\ cmd.arg = arg
        /\ arg.start = start /\ arg.data = chunk
    BY DEF ChunkWrite, Cmd
  <1>6. s \in Slots /\ old \in SlotConfigs /\ old.blocks \in [Blocks -> Contents]
    BY DEF Configs, SlotConfigs
  <1>7. new.type = old.type /\ new.uid = old.uid /\ new.blocks = blocks
    <2> HIDE DEF cmd, arg, start
    <2>1. Configured(conf, cmd) = [conf EXCEPT !.slots[s].blocks = blocks]
      BY <1>5, Zenon DEF Configured
    <2> HIDE DEF blocks
    <2> QED BY <1>6, <2>1 DEF Configs, SlotConfigs
  <1> HIDE DEF cmd, new, end, start, chunk, arg
  <1>8. ASSUME NEW b \in Blocks
        PROVE  blocks[b] = IF b \in start..(start + BlocksOf(chunk) - 1)
                           THEN Slice(chunk, b - start, b - start + 1) ELSE old.blocks[b]
    BY <1>5 DEF Written
  <1> HIDE DEF blocks, old
  <1>9. Blocks \subseteq Nat
    BY CountsAssumption DEF Blocks
  <1>10. ASSUME NEW b \in Nat, start <= b, b < end
         PROVE  /\ start + BlocksOf(chunk) = end
                /\ b \in start..(start + BlocksOf(chunk) - 1)
                /\ Slice(chunk, b - start, b - start + 1) = Slice(dump, b, b + 1)
    BY <1>1, <1>10, ChunkHolds DEF start, end, chunk, n, dump
  <1>11. ASSUME NEW b \in Blocks \intersect start..(end - 1) PROVE new.blocks[b] = Slice(dump, b, b + 1)
    <2>1. b \in Nat /\ start <= b /\ b < end /\ b < total
      BY <1>2, <1>4
    <2> QED BY <1>7, <1>8, <1>9, <1>10, <2>1
  <1>12. ASSUME NEW j \in 1..(i - 1),
                NEW b \in Blocks \intersect ChunkStart(j)..(ChunkEnd(j, total) - 1)
         PROVE  new.blocks[b] = old.blocks[b]
    <2>1. i \in 1..n /\ j \in 1..n /\ j < i
      BY <1>3 DEF dump
    <2>2. ChunkStart(j) \in Nat /\ ChunkEnd(j, total) \in Nat /\ ChunkEnd(j, total) <= total
      BY <1>2, <2>1, ChunksFit
    <2>3. ChunkEnd(j, total) <= start
      BY <1>2, <2>1, ChunksInOrder DEF start
    <2>4. b \in Nat /\ b < total /\ b < start
      BY <1>2, <1>4, <2>2, <2>3
    <2>5. BlocksOf(chunk) \in Int
      <3>1. start + BlocksOf(chunk) = end /\ BlocksOf(chunk) \in Nat
        <4>1. start <= start
          BY <1>4
        <4>2. BlocksOf(chunk) = end - start
          BY <1>1, <1>4, SlicesAreWhole DEF chunk
        <4> QED BY <1>4, <4>2
      <3> QED BY <3>1
    <2>6. b \notin start..(start + BlocksOf(chunk) - 1)
      BY <1>4, <2>4, <2>5
    <2> QED BY <1>7, <1>8, <1>9, <2>4, <2>6
  <1>13. HoldsChunk(new, dump, i)
    BY <1>11 DEF HoldsChunk, start, end
  <1>14. ASSUME NEW j \in 1..(i - 1), HoldsChunk(old, dump, j) PROVE HoldsChunk(new, dump, j)
    BY <1>12, <1>14 DEF HoldsChunk
  <1> QED BY <1>7, <1>13, <1>14 DEF new, old, cmd, dump

(* Nothing but card data and the type matter to what a slot holds. *)
LEMMA HeldKept ==
  ASSUME NEW old, NEW new, NEW dump, NEW p,
         new.type \in {old.type, "MF1_1K"}, new.uid = old.uid, new.blocks = old.blocks,
         HeldAt(old, dump, p)
  PROVE  HeldAt(new, dump, p)
  BY DEF HeldAt, HoldsChunk

(* A type that is set is the one load_dump sets. *)
LEMMA ConfiguredTypes ==
  ASSUME NEW conf \in Configs, NEW cmd, Valid(cmd), NEW s \in Slots
  PROVE  /\ Configured(conf, cmd).slots[s].type \in {conf.slots[s].type, "MF1_1K"}
         /\ cmd.name = "set_slot_tag_type" /\ cmd.slot = s =>
              Configured(conf, cmd).slots[s].type = "MF1_1K"
  <1> DEFINE new == Configured(conf, cmd)
  <1>1. CASE cmd.name = "set_slot_tag_type"
    <2>1. new = [conf EXCEPT !.slots[cmd.slot].type = cmd.arg]
      BY <1>1, Zenon DEF Configured
    <2> HIDE DEF new
    <2> QED BY <2>1, <1>1 DEF Configs, SlotConfigs, Valid, new
  <1>2. CASE cmd.name # "set_slot_tag_type"
    <2>1. new.slots[s].type = conf.slots[s].type
      BY <1>2, ConfiguredParts
    <2> QED BY <1>2, <2>1
  <1> QED BY <1>1, <1>2

(* A command that writes no card data leaves what a slot holds. *)
LEMMA HeldByOthers ==
  ASSUME NEW conf \in Configs, NEW cmd, Valid(cmd), cmd.name \notin Card,
         NEW s \in Slots, NEW dump, NEW p, HeldAt(conf.slots[s], dump, p)
  PROVE  HeldAt(Configured(conf, cmd).slots[s], dump, p)
  <1> DEFINE new == Configured(conf, cmd).slots[s]
  <1>1. new.type \in {conf.slots[s].type, "MF1_1K"}
    BY ConfiguredTypes
  <1>2. new.uid = conf.slots[s].uid /\ new.blocks = conf.slots[s].blocks
    BY ConfiguredParts
  <1> HIDE DEF new
  <1>3. HeldAt(new, dump, p)
    BY <1>1, <1>2, HeldKept
  <1> QED BY <1>3 DEF new

(* The next command of a load whose slot is active. *)
LEMMA HeldNext ==
  ASSUME NEW slot \in Slots, NEW d \in Dumps, Len(dump_data[d]) >= BLOCK,
         NEW conf \in Configs, NEW p \in Nat, p + 1 \in 1..Len(LoadDump(slot, d)),
         p # 0 => conf.active = slot,
         HeldAt(conf.slots[slot], dump_data[d], p)
  PROVE  HeldAt(Configured(conf, LoadDump(slot, d)[p + 1]).slots[slot], dump_data[d], p + 1)
  <1> DEFINE dump == dump_data[d]
             n == NumberOfChunks(BlocksOf(dump))
             cmd == LoadDump(slot, d)[p + 1]
             old == conf.slots[slot]
             new == Configured(conf, cmd).slots[slot]
  <1>1. /\ n \in Nat /\ p + 1 <= 5 + n
        /\ p = 1 => cmd = Cmd("set_slot_tag_type", slot, "MF1_1K")
        /\ p = 2 => cmd = Cmd("set_anti_coll_data", None, AntiColl(dump))
        /\ \A i \in 1..n : p = 2 + i => cmd = ChunkWrite(dump, i)
        /\ p = 3 + n => cmd = Cmd("set_slot_enable", slot, TRUE)
        /\ p = 4 + n => cmd = Cmd("save_slot_config", None, None)
    <2> DEFINE c == LoadDump(slot, d)
    <2>1. /\ n \in Nat /\ Len(c) = 5 + n
          /\ c[2] = Cmd("set_slot_tag_type", slot, "MF1_1K")
          /\ c[3] = Cmd("set_anti_coll_data", None, AntiColl(dump))
          /\ \A i \in 1..n : c[3 + i] = ChunkWrite(dump, i)
          /\ c[4 + n] = Cmd("set_slot_enable", slot, TRUE)
          /\ c[5 + n] = Cmd("save_slot_config", None, None)
      BY LoadCommands
    <2> HIDE DEF c, n, dump
    <2>2. p + 1 \in 1..Len(c) /\ cmd = c[p + 1]
      BY DEF c
    <2>3. \A i \in 1..n : p = 2 + i => p + 1 = 3 + i
      OBVIOUS
    <2>4. /\ p = 1 => p + 1 = 2
          /\ p = 2 => p + 1 = 3
          /\ p = 3 + n => p + 1 = 4 + n
          /\ p = 4 + n => p + 1 = 5 + n
      BY <2>1
    <2>5. p + 1 <= 5 + n
      BY <2>1, <2>2
    <2> HIDE DEF cmd
    <2> QED BY <2>1, <2>2, <2>3, <2>4, <2>5
  <1>2. Valid(cmd)
    BY LoadProgram
  <1> HIDE DEF cmd, n
  <1>3. /\ HeldAt(old, dump, p)
        /\ p >= 2 => old.type = "MF1_1K"
        /\ p >= 3 => old.uid = AntiColl(dump)
        /\ \A i \in 1..n : p >= 3 + i => HoldsChunk(old, dump, i)
    BY DEF HeldAt, n
  <1> HIDE DEF dump
  <1>4. ASSUME /\ p + 1 >= 2 => new.type = "MF1_1K"
               /\ p + 1 >= 3 => new.uid = AntiColl(dump)
               /\ \A i \in 1..n : p + 1 >= 3 + i => HoldsChunk(new, dump, i)
        PROVE  HeldAt(new, dump, p + 1)
    BY <1>4 DEF HeldAt, n
  <1>5. /\ new.type \in {old.type, "MF1_1K"}
        /\ cmd.name \notin Card => new.uid = old.uid /\ new.blocks = old.blocks
    BY <1>2, ConfiguredTypes, ConfiguredParts
  <1>6. ASSUME p = 0 PROVE HeldAt(new, dump, p + 1)
    BY <1>1, <1>4, <1>6
  <1>7. ASSUME p = 1 PROVE HeldAt(new, dump, p + 1)
    <2>1. cmd.name = "set_slot_tag_type" /\ cmd.slot = slot
      BY <1>1, <1>7 DEF Cmd
    <2>2. new.type = "MF1_1K"
      BY <1>2, <2>1, ConfiguredTypes
    <2> HIDE DEF new
    <2> QED BY <1>1, <1>4, <1>7, <2>2
  <1>8. ASSUME p = 2 PROVE HeldAt(new, dump, p + 1)
    <2>1. cmd.name = "set_anti_coll_data" /\ cmd.arg = AntiColl(dump)
      BY <1>1, <1>8 DEF Cmd
    <2>2. Configured(conf, cmd) = [conf EXCEPT !.slots[conf.active].uid = cmd.arg]
      BY <2>1, Zenon DEF Configured
    <2>3. new.uid = AntiColl(dump)
      BY <1>8, <2>1, <2>2 DEF Configs, SlotConfigs
    <2> HIDE DEF new, old
    <2>4. new.type = "MF1_1K"
      BY <1>3, <1>5, <1>8
    <2> QED BY <1>1, <1>4, <1>8, <2>3, <2>4
  <1>9. ASSUME NEW i \in 1..n, p = 2 + i PROVE HeldAt(new, dump, p + 1)
    <2>1. /\ new.type = old.type /\ new.uid = old.uid
          /\ HoldsChunk(new, dump, i)
          /\ \A j \in 1..(i - 1) : HoldsChunk(old, dump, j) => HoldsChunk(new, dump, j)
      <3>1. conf.active = slot /\ cmd = ChunkWrite(dump, i)
        BY <1>1, <1>9
      <3>2. i \in 1..NumberOfChunks(BlocksOf(dump_data[d]))
        BY DEF n, dump
      <3> QED BY <3>1, <3>2, WriteHolds DEF dump
    <2> HIDE DEF new, old
    <2>2. p \in Nat /\ p >= 3 /\ i \in Nat
      BY <1>1, <1>9
    <2>3. ASSUME NEW j \in 1..n, p + 1 >= 3 + j PROVE HoldsChunk(new, dump, j)
      <3>1. CASE j = i
        BY <2>1, <3>1
      <3>2. CASE j # i
        <4>1. j \in 1..(i - 1) /\ p >= 3 + j
          BY <1>1, <1>9, <2>3, <3>2
        <4> QED BY <1>3, <2>1, <4>1
      <3> QED BY <3>1, <3>2
    <2> QED BY <1>3, <1>4, <2>1, <2>2, <2>3
  <1>10. ASSUME p = 3 + n \/ p = 4 + n PROVE HeldAt(new, dump, p + 1)
    <2>1. cmd.name \notin Card
      BY <1>1, <1>10 DEF Cmd, Card
    <2>2. HeldAt(new, dump, p)
      BY <1>2, <1>3, <2>1, HeldByOthers
    <2> HIDE DEF new, old
    <2>3. p >= 3 /\ \A i \in 1..n : p >= 3 + i
      BY <1>1, <1>10
    <2>4. /\ new.type = "MF1_1K" /\ new.uid = AntiColl(dump)
          /\ \A i \in 1..n : HoldsChunk(new, dump, i)
      BY <2>2, <2>3 DEF HeldAt, n
    <2> QED BY <1>4, <2>4
  <1>11. \/ p \in {0, 1, 2} \/ p = 3 + n \/ p = 4 + n
         \/ \E i \in 1..n : p = 2 + i
    <2>1. ASSUME p \notin {0, 1, 2}, p # 3 + n, p # 4 + n
          PROVE  p - 2 \in 1..n /\ p = 2 + (p - 2)
      BY <1>1, <2>1
    <2> QED BY <2>1
  <1>12. HeldAt(new, dump, p + 1)
    <2> HIDE DEF new
    <2> QED BY <1>6, <1>7, <1>8, <1>9, <1>10, <1>11
  <1> QED BY <1>12 DEF new, cmd, dump

(* A load that nothing disturbed has in its slot what its commands put there. *)
Held(t) ==
  op[t] # None /\ t \notin lost /\ op[t].kind = "load_dump" /\ disturbed[t] = {} =>
    HeldAt(fw.slots[op[t].slot], dump_data[op[t].dump], Place(t))
HeldInv == \A t \in Tasks : Held(t)

(* A command of another operation leaves it there, or is noted. *)
LEMMA StayHeld ==
  ASSUME HeldInv, TaskInv, DeviceInv, NEW cmd, Valid(cmd), Execute(cmd),
         NEW u \in Tasks, op'[u] = op[u], todo'[u] = todo[u], u \in lost => u \in lost',
         op'[u] # None => disturbed'[u] = Noted(cmd, u)
  PROVE  Held(u)'
  <1> SUFFICES ASSUME op'[u] # None, u \notin lost', op'[u].kind = "load_dump", disturbed'[u] = {}
               PROVE  HeldAt(fw'.slots[op'[u].slot], dump_data[op'[u].dump], Place(u)')
    BY DEF Held
  <1> DEFINE slot == op[u].slot
             dump == dump_data[op[u].dump]
             p == Place(u)
             new == Configured(fw, cmd).slots[slot]
  <1>1. op[u] # None /\ op[u].kind = "load_dump" /\ Noted(cmd, u) = {}
    OBVIOUS
  <1>2. disturbed[u] = {} /\ ~Disturbs(cmd, op[u].kind)
    BY <1>1 DEF Noted
  <1>3. cmd.name \notin Card
    BY <1>1, <1>2 DEF Disturbs, Card
  <1>4. slot \in Slots
    BY <1>1, LoadPlace
  <1>5. HeldAt(fw.slots[slot], dump, p)
    BY <1>1, <1>2 DEF HeldInv, Held
  <1>6. fw \in Configs /\ fw'.slots[slot] = new
    BY DEF DeviceInv, Execute
  <1>7. Place(u)' = p
    BY DEF Place
  <1> HIDE DEF slot, dump, p
  <1>8. HeldAt(new, dump, p)
    BY <1>3, <1>4, <1>5, <1>6, HeldByOthers
  <1> HIDE DEF new
  <1>9. HeldAt(fw'.slots[slot], dump, p)
    BY <1>6, <1>8
  <1> QED BY <1>7, <1>9 DEF slot, dump

(* Its own next command adds what it is for. *)
LEMMA GoOnHeld ==
  ASSUME HeldInv, ActiveInv, TaskInv, DeviceInv, NEW t \in Tasks \ lost, op[t] # None,
         op[t].kind = "load_dump", disturbed[t] = {}, Execute(Head(todo[t]))
  PROVE  HeldAt(fw'.slots[op[t].slot], dump_data[op[t].dump], Place(t) + 1)
  <1> DEFINE slot == op[t].slot
             d == op[t].dump
             p == Place(t)
             cmd == LoadDump(slot, d)[p + 1]
             new == Configured(fw, cmd).slots[slot]
  <1>1. /\ op[t] \in Operations /\ p \in Nat /\ p + 1 \in 1..Len(Program(op[t]))
        /\ Head(todo[t]) = Program(op[t])[p + 1]
    BY NextCommand
  <1>2. Program(op[t]) = LoadDump(slot, d)
    BY Zenon DEF Program
  <1>3. slot \in Slots /\ d \in Dumps /\ Len(dump_data[d]) >= BLOCK
    BY <1>1, Kinds
  <1>4. p # 0 => fw.active = slot
    BY DEF ActiveInv, Selected
  <1>5. HeldAt(fw.slots[slot], dump_data[d], p)
    BY DEF HeldInv, Held
  <1>6. fw \in Configs /\ fw' = Configured(fw, Head(todo[t]))
    BY DEF DeviceInv, Execute
  <1> HIDE DEF slot, d, p
  <1>7. p + 1 \in 1..Len(LoadDump(slot, d)) /\ Head(todo[t]) = cmd
    BY <1>1, <1>2
  <1>8. HeldAt(new, dump_data[d], p + 1)
    BY <1>1, <1>3, <1>4, <1>5, <1>6, <1>7, HeldNext
  <1> HIDE DEF cmd
  <1>9. fw'.slots[slot] = new
    BY <1>6, <1>7
  <1> HIDE DEF new
  <1>10. HeldAt(fw'.slots[slot], dump_data[d], p + 1)
    BY <1>8, <1>9
  <1> QED BY <1>10 DEF slot, d, p

(* A task that goes on is one place further. *)
LEMMA PlaceMoves ==
  ASSUME TaskInv, NEW t \in Tasks, op[t] # None, op'[t] = op[t],
         todo'[t] = Tail(todo[t])
  PROVE  Place(t)' = Place(t) + 1
  <1> DEFINE p == Program(op[t])
             q == todo[t]
  <1>1. Len(p) \in Nat /\ q \in Seq(Commands) /\ Len(q) \in Nat \ {0}
    BY NextCommand, Programs DEF TaskInv
  <1>2. Place(t)' = Len(p) - Len(Tail(q)) /\ Place(t) = Len(p) - Len(q)
    BY DEF Place
  <1> HIDE DEF p, q
  <1>3. Len(Tail(q)) = Len(q) - 1
    BY <1>1
  <1> QED BY <1>1, <1>2, <1>3

(* A load holds on to it until it ends. *)
LEMMA HeldStep ==
  ASSUME Inv, ActiveInv, HeldInv, Next
  PROVE  HeldInv'
  <1>1. TaskInv /\ DeviceInv /\ LateInv /\ CountInv
    BY DEF Inv
  <1>2. ASSUME \A u \in Tasks : Held(u)' PROVE HeldInv'
    BY <1>2 DEF HeldInv
  <1>3. ASSUME NEW u \in Tasks, op'[u] = None PROVE Held(u)'
    BY <1>3 DEF Held
  <1>4. ASSUME NEW u \in Tasks, fw' = fw, op'[u] = op[u], todo'[u] = todo[u],
               u \in lost => u \in lost',
               op'[u] # None => disturbed'[u] = disturbed[u]
        PROVE  Held(u)'
    BY <1>4 DEF HeldInv, Held, Place
  <1>6. ASSUME NEW t \in Tasks, Connect(t) \/ Begin(t) PROVE HeldInv'
    <2>1. /\ Others(t) /\ op'[t] \in Operations /\ todo'[t] = Program(op'[t])
          /\ fw' = fw /\ disturbed' = disturbed
      BY <1>1, <1>6, BeginMoves DEF Connect, Begin, firmware, history
    <2>2. Place(t)' = 0
      <3> DEFINE p == Program(op'[t])
      <3>1. Len(p) \in Nat
        BY <2>1, Programs
      <3>2. Place(t)' = Len(p) - Len(p)
        BY <2>1 DEF Place
      <3> HIDE DEF p
      <3> QED BY <3>1, <3>2
    <2>3. ASSUME NEW slot, NEW dump PROVE HeldAt(slot, dump, 0)
      BY DEF HeldAt
    <2>4. Held(t)'
      BY <2>2, <2>3 DEF Held
    <2>5. \A u \in Tasks : Held(u)'
      BY <1>4, <2>1, <2>4 DEF Others
    <2> QED BY <1>2, <2>5
  <1>7. ASSUME NEW t \in Tasks, Succeed(t) PROVE HeldInv'
    <2> DEFINE cmd == Head(todo[t])
    <2>1. /\ op[t] # None /\ t \notin lost
          /\ Execute(cmd) /\ Advance(t, Answer(cmd)) /\ Note(cmd, Tasks \ {t})
      BY <1>7 DEF Succeed, MaySend
    <2>2. Valid(cmd)
      BY <1>1, <2>1, NextCommand
    <2>3. Others(t) /\ Advances(t, Answer(cmd))
      BY <1>1, <2>1, <2>2, AnswerTyped, AdvanceMoves
    <2>4. ASSUME NEW u \in Tasks \ {t} PROVE Held(u)'
      <3>1. op'[u] = op[u] /\ todo'[u] = todo[u] /\ (u \in lost => u \in lost')
        BY <2>3 DEF Others
      <3>2. op'[u] # None => disturbed'[u] = Noted(cmd, u)
        BY <2>1 DEF Note
      <3> HIDE DEF cmd
      <3> QED BY <1>1, <2>1, <2>2, <3>1, <3>2, StayHeld
    <2>5. Held(t)'
      <3> SUFFICES ASSUME op'[t] # None, op'[t].kind = "load_dump", disturbed'[t] = {}
                   PROVE  HeldAt(fw'.slots[op'[t].slot], dump_data[op'[t].dump], Place(t)')
        BY DEF Held
      <3>1. op'[t] = op[t] /\ todo'[t] = Tail(todo[t]) /\ Len(todo[t]) > 1
        BY <2>3 DEF Advances
      <3>2. disturbed[t] = {}
        BY <2>1 DEF Note
      <3>3. HeldAt(fw'.slots[op[t].slot], dump_data[op[t].dump], Place(t) + 1)
        BY <1>1, <2>1, <3>1, <3>2, GoOnHeld
      <3>4. Place(t)' = Place(t) + 1
        BY <1>1, <2>1, <3>1, PlaceMoves
      <3> QED BY <3>1, <3>3, <3>4
    <2>6. \A u \in Tasks : Held(u)'
      BY <2>4, <2>5
    <2> QED BY <1>2, <2>6
  <1>8. ASSUME NEW t \in Tasks, TakeLate(t) PROVE HeldInv'
    <2>1. /\ op[t] # None /\ late # None /\ Execute(late.cmd)
          /\ Advance(t, Answer(late.cmd)) /\ Answer(late.cmd) \in Replies
          /\ disturbed' = [u \in Tasks |-> IF op'[u] = None THEN {}
                                           ELSE IF u = t THEN Noted(late.cmd, t) \union {"late"}
                                           ELSE Noted(late.cmd, u)]
      BY <1>1, <1>8, TakeLeaves DEF TakeLate
    <2>2. Others(t)
      BY <1>1, <2>1, AdvanceMoves
    <2>3. Valid(late.cmd)
      BY <1>1, <2>1, LateCommand
    <2>4. ASSUME NEW u \in Tasks \ {t} PROVE Held(u)'
      <3>1. op'[u] = op[u] /\ todo'[u] = todo[u] /\ (u \in lost => u \in lost')
        BY <2>2 DEF Others
      <3>2. op'[u] # None => disturbed'[u] = Noted(late.cmd, u)
        BY <2>1
      <3> QED BY <1>1, <2>1, <2>3, <3>1, <3>2, StayHeld
    <2>5. op'[t] # None => disturbed'[t] # {}
      BY <2>1
    <2>6. \A u \in Tasks : Held(u)'
      BY <2>4, <2>5 DEF Held
    <2> QED BY <1>2, <2>6
  (* A command that raises, in an operation that ends or is no load. *)
  <1>9. ASSUME NEW t \in Tasks, op[t] # None, Raise(t), Others(t), Held(t)'
        PROVE  HeldInv'
    <2> DEFINE cmd == Head(todo[t])
    <2>1. Valid(cmd)
      BY <1>1, <1>9, NextCommand
    <2> HIDE DEF cmd
    <2>2. ASSUME NEW u \in Tasks \ {t}
          PROVE  op'[u] = op[u] /\ todo'[u] = todo[u] /\ (u \in lost => u \in lost')
      BY <1>9 DEF Others
    <2>3. CASE Execute(cmd) /\ Note(cmd, Tasks \ {t})
      <3>1. ASSUME NEW u \in Tasks \ {t} PROVE Held(u)'
        <4>1. op'[u] # None => disturbed'[u] = Noted(cmd, u)
          BY <2>3 DEF Note
        <4> QED BY <1>1, <2>1, <2>2, <2>3, <4>1, StayHeld
      <3>2. \A u \in Tasks : Held(u)'
        BY <1>9, <3>1
      <3> QED BY <1>2, <3>2
    <2>4. CASE Note(cmd, {}) /\ UNCHANGED firmware
      <3>1. fw' = fw
        BY <2>4 DEF firmware
      <3>2. ASSUME NEW u \in Tasks \ {t} PROVE Held(u)'
        <4>1. op'[u] # None => disturbed'[u] = disturbed[u]
          BY <2>4 DEF Note
        <4> QED BY <1>4, <2>2, <3>1, <4>1
      <3>3. \A u \in Tasks : Held(u)'
        BY <1>9, <3>2
      <3> QED BY <1>2, <3>3
    <2>5. CASE late # None /\ Execute(late.cmd) /\ Note(late.cmd, Tasks)
      <3>1. Valid(late.cmd)
        BY <1>1, <2>5, LateCommand
      <3>2. ASSUME NEW u \in Tasks \ {t} PROVE Held(u)'
        <4>1. op'[u] # None => disturbed'[u] = Noted(late.cmd, u)
          BY <2>5 DEF Note
        <4> QED BY <1>1, <2>2, <2>5, <3>1, <4>1, StayHeld
      <3>3. \A u \in Tasks : Held(u)'
        BY <1>9, <3>2
      <3> QED BY <1>2, <3>3
    <2> QED BY <1>9, <2>3, <2>4, <2>5 DEF Raise, cmd
  <1>10. ASSUME NEW t \in Tasks, NickFails(t) PROVE HeldInv'
    <2>1. /\ op[t] # None /\ Head(todo[t]).name = NickCmd /\ Raise(t)
          /\ Advance(t, None) /\ None \in Replies
      BY <1>10 DEF NickFails, MaySend, NickCmd, Replies
    <2>2. Others(t) /\ Advances(t, None)
      BY <1>1, <2>1, AdvanceMoves
    <2>3. op[t].kind = "poll"
      BY <1>1, <2>1, NextCommand
    <2>4. Held(t)'
      BY <2>2, <2>3 DEF Held, Advances
    <2> QED BY <1>9, <2>1, <2>2, <2>4
  <1>11. ASSUME NEW t \in Tasks, Fail(t) PROVE HeldInv'
    <2>1. op[t] # None /\ Raise(t) /\ End(t)
      BY <1>11 DEF Fail, MaySend
    <2>2. Others(t) /\ op'[t] = None
      BY <1>1, <2>1, EndMoves
    <2> QED BY <1>3, <1>9, <2>1, <2>2
  <1>12. CASE Unsolicited
    <2>1. /\ late # None /\ Execute(late.cmd) /\ Note(late.cmd, Tasks)
          /\ op' = op /\ todo' = todo /\ lost' = lost
      BY <1>12 DEF Unsolicited, tasks
    <2>2. Valid(late.cmd)
      BY <1>1, <2>1, LateCommand
    <2>3. ASSUME NEW u \in Tasks PROVE Held(u)'
      <3>1. op'[u] # None => disturbed'[u] = Noted(late.cmd, u)
        BY <2>1 DEF Note
      <3>2. op'[u] = op[u] /\ todo'[u] = todo[u] /\ (u \in lost => u \in lost')
        BY <2>1
      <3> QED BY <1>1, <2>1, <2>2, <3>1, <3>2, StayHeld
    <2> QED BY <1>2, <2>3
  <1>13. CASE LinkLost \/ PowerCycle
    <2>1. op' = op /\ lost' = {u \in Tasks : op[u] # None}
      BY <1>13 DEF LinkLost, PowerCycle, BreakOff
    <2>2. \A u \in Tasks : Held(u)'
      BY <2>1 DEF Held
    <2> QED BY <1>2, <2>2
  <1>14. ASSUME NEW t \in Tasks, GiveUp(t) \/ LastNickTimesOut(t) PROVE HeldInv'
    <2>1. /\ Others(t) /\ op'[t] = None /\ fw' = fw
          /\ \A u \in Tasks \ {t} : disturbed'[u] = disturbed[u]
      BY <1>1, <1>14, LostEnds
    <2>2. \A u \in Tasks : Held(u)'
      BY <1>3, <1>4, <2>1 DEF Others
    <2> QED BY <1>2, <2>2
  <1> QED BY <1>6, <1>7, <1>8, <1>10, <1>11, <1>12, <1>13, <1>14 DEF Next

(* At its end a load saves, and its slot has all the blocks of its file. *)
LoadIsSaved(t) ==
  Completes(t) /\ op[t].kind = "load_dump" /\ disturbed[t] = {} /\ late = None =>
    Holds(flash'.slots[op[t].slot], files[op[t].dump])
LEMMA LoadStep ==
  ASSUME Inv, HeldInv
  PROVE  \A t \in Tasks : LoadIsSaved(t)
  <1> SUFFICES ASSUME NEW t \in Tasks, Completes(t), op[t].kind = "load_dump",
                      disturbed[t] = {}, late = None
               PROVE  Holds(flash'.slots[op[t].slot], files[op[t].dump])
    BY DEF LoadIsSaved
  <1> DEFINE cmd == Head(todo[t])
             d == op[t].dump
             dump == dump_data[d]
             total == BlocksOf(dump)
             n == NumberOfChunks(total)
             file == files[d]
             p == Place(t)
             slot == fw.slots[op[t].slot]
  <1>1. TaskInv /\ op[t] # None /\ Len(todo[t]) = 1
    BY DEF Inv, Completes
  <1>2. /\ op[t] \in Operations /\ Saves(op[t]) /\ cmd.name = "save_slot_config"
        /\ cmd.name # NickCmd /\ Program(op[t]) = LoadDump(op[t].slot, d)
    <2>1. op[t] \in Operations /\ Saves(op[t])
      BY <1>1, NextCommand DEF Saves
    <2>2. cmd.name = "save_slot_config"
      BY <1>1, <2>1, NextCommand
    <2>3. Program(op[t]) = LoadDump(op[t].slot, d)
      BY Zenon DEF Program
    <2> QED BY <2>1, <2>2, <2>3 DEF NickCmd
  <1>3. Execute(cmd) /\ t \notin lost
    <2>1. ~TakeLate(t)
      BY DEF TakeLate
    <2>2. ~NickFails(t) /\ ~LastNickTimesOut(t)
      BY <1>2 DEF NickFails, LastNickTimesOut, NickCmd
    <2> QED BY <2>1, <2>2 DEF Completes, Succeed, MaySend
  <1>4. flash' = fw
    BY <1>2, <1>3 DEF Execute, Saved
  <1>5. /\ op[t].slot \in Slots /\ d \in Dumps /\ Len(dump) >= BLOCK
        /\ dump = _parse_dump_file(file) /\ dump \in Seq(Bytes)
    <2>1. op[t].slot \in Slots /\ d \in Dumps /\ Len(dump) >= BLOCK
      BY <1>2, Kinds
    <2>2. dump_data[d] = _parse_dump_file(files[d])
      <3> HIDE DEF d
      <3> QED BY <2>1 DEF dump_data
    <2> HIDE DEF d
    <2> QED BY <2>1, <2>2, DumpsAssumption
  <1>6. n \in Nat /\ p = 4 + n /\ HeldAt(slot, dump, p)
    <2>1. n \in Nat /\ Len(Program(op[t])) = 5 + n
      BY <1>2, <1>5, LoadCommands
    <2>2. HeldAt(slot, dump, p)
      BY <1>1, <1>3 DEF HeldInv, Held
    <2> HIDE DEF n
    <2>3. p = 4 + n
      BY <1>1, <2>1 DEF Place
    <2> QED BY <2>1, <2>2, <2>3
  <1> HIDE DEF slot, p, d
  <1>7. /\ slot.type = "MF1_1K" /\ slot.uid = AntiColl(dump)
        /\ \A i \in 1..n : HoldsChunk(slot, dump, i)
    <2> HIDE DEF dump
    <2>1. p >= 2 /\ p >= 3 /\ \A i \in 1..n : p >= 3 + i
      BY <1>6
    <2> QED BY <1>6, <2>1 DEF HeldAt
  <1>8. /\ BlocksIn(file) \in Nat \ {0} /\ total = BlocksIn(file)
        /\ \A b \in 0..(BlocksIn(file) - 1) : Slice(dump, b, b + 1) = Said(file, b)
    <2>1. file.suffix = ".nfc" => Zero \in Bytes /\ file.lines \in Seq(Lines(Bytes))
      BY <1>5, FilesAssumption DEF Lines
    <2> HIDE DEF dump, file
    <2>2. _parse_dump_file(file) \in Seq(Bytes) /\ Len(_parse_dump_file(file)) >= BLOCK
      BY <1>5
    <2> QED BY <1>5, <2>1, <2>2, FileIsRead
  <1> HIDE DEF dump, file
  <1>9. slot.uid = Said(file, 0)
    <2>1. AntiColl(dump) = Slice(dump, 0, 0 + 1)
      BY DEF AntiColl
    <2>2. 0 \in 0..(BlocksIn(file) - 1)
      BY <1>8
    <2> QED BY <1>7, <1>8, <2>1, <2>2
  <1>10. ASSUME NEW b \in Blocks \intersect 0..(BlocksIn(file) - 1) PROVE slot.blocks[b] = Said(file, b)
    <2>1. total \in Nat /\ b \in 0..(total - 1)
      BY <1>8
    <2>2. PICK i \in 1..n : ChunkStart(i) <= b /\ b < ChunkEnd(i, total)
      BY <2>1, ChunksCover
    <2>3. ChunkStart(i) \in Int /\ ChunkEnd(i, total) \in Int
      BY <2>1, ChunksFit
    <2>4. b \in ChunkStart(i)..(ChunkEnd(i, total) - 1)
      BY <2>1, <2>2, <2>3
    <2>5. slot.blocks[b] = Slice(dump, b, b + 1)
      BY <1>7, <2>2, <2>4 DEF HoldsChunk
    <2> QED BY <1>8, <2>5
  <1>11. Holds(slot, file)
    BY <1>7, <1>9, <1>10 DEF Holds
  <1> QED BY <1>4, <1>11 DEF slot, file, d

-----------------------------------------------------------------------------
(* The theorems. *)

(* What the action properties need of the states they start from. *)
ActionInv == Inv /\ ActiveInv /\ ReadInv /\ HeldInv

(* Before anything has begun nothing is selected or read. *)
LEMMA ActionInvInit ==
  ASSUME Init
  PROVE  ActionInv
  <1>1. Inv
    BY InvInit
  <1>2. late = None /\ \A t \in Tasks : op[t] = None
    BY DEF Init
  <1>3. [kind |-> "poll"] # None
    BY NoneAssumption DEF Operations
  <1> QED BY <1>1, <1>2, <1>3 DEF ActionInv, ActiveInv, Selected, ReadInv, HeldInv, Held

(* Neither a step nor its absence breaks it. *)
LEMMA ActionInvStep ==
  ASSUME ActionInv, [Next]_vars
  PROVE  ActionInv'
  <1>1. Inv'
    BY InvStep DEF ActionInv
  <1>2. CASE Next
    BY <1>1, <1>2, ActiveStep, ReadStep, HeldStep DEF ActionInv
  <1>3. CASE UNCHANGED vars
    <2>1. UNCHANGED <<op, todo, got, lost, fw, late, disturbed>>
      BY <1>3 DEF vars, tasks, firmware, history
    <2>2. ActiveInv'
      BY <2>1 DEF ActionInv, ActiveInv, Selected, Place
    <2>3. ReadInv'
      BY <2>1 DEF ActionInv, ReadInv, Reading
    <2>4. HeldInv'
      BY <2>1 DEF ActionInv, HeldInv, Held, Place
    <2> QED BY <1>1, <2>2, <2>3, <2>4 DEF ActionInv
  <1> QED BY <1>2, <1>3

(* An unmoved load has its slot active, an undisturbed one has in it what its
   commands put there, and an unmoved poll has read how things are, at all times. *)
THEOREM ActionInvariance == Spec => []ActionInv
  <1>1. Init => ActionInv
    BY ActionInvInit
  <1>2. ActionInv /\ [Next]_vars => ActionInv'
    BY ActionInvStep
  <1> QED BY <1>1, <1>2, PTL DEF Spec

(* Whatever overtakes what, a write of card data changes only the slot of the
   load it belongs to, unless that load noted that the active slot was moved. *)
THEOREM CardDataKept == Spec => CardDataStayInTheirSlot
  <1>1. ActionInv /\ [Next]_vars => [CardDataStays]_vars
    BY CardStep DEF ActionInv
  <1> QED BY <1>1, ActionInvariance, PTL DEF Spec, CardDataStayInTheirSlot

(* A poll that completes undisturbed makes data of the device as it is, for any
   number of slots and of operations beside it. *)
THEOREM PollsAreTrue == Spec => UndisturbedPollIsTrue
  <1>1. ActionInv /\ [Next]_vars => [\A t \in Tasks : PollIsTrue(t)]_vars
    BY PollStep DEF ActionInv
  <1> QED BY <1>1, ActionInvariance, PTL DEF Spec, UndisturbedPollIsTrue

(* A load_dump that completes undisturbed has put every block of its file, as the
   file says it, into the slot it was given and saved it there, for dumps and
   chunks of any size and any operations beside it. *)
THEOREM LoadsAreSaved == Spec => UndisturbedLoadIsSaved
  <1>1. ActionInv /\ [Next]_vars => [\A t \in Tasks : LoadIsSaved(t)]_vars
    BY LoadStep DEF ActionInv
  <1> QED BY <1>1, ActionInvariance, PTL DEF Spec, UndisturbedLoadIsSaved, LoadIsSaved
=============================================================================
